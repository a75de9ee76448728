# Relentless Bookworm: TLA+ models and proofs

Relentless Bookworm crawls Open Library into a graph. This directory holds TLA+
models of the services and of the crawl they add up to, the TLC configurations
that check them on small instances, and TLAPS proofs, for instances of any size,
of all their safety properties.

## The system

```
client --POST /crawl--> api --CrawlJob--> [frontier] --> worker pods
                         |                     ^            |  \-- Open Library (HTTP)
                       Redis status            '- new jobs -+-- Redis dedupe keys
                                                            +-> [results] --\
                                                            +-> [edges]  ---+-> graph writer -> Neo4j
                                                            '-> [dlq]
```

`[x]` is a Kafka topic. The parts, their state, their operations:

| part | state | operations | what makes it correct |
|---|---|---|---|
| commit coordinator (`cmd/worker/commit_coordinator.go`) | `nextOffset`, `pending`, pending gauge, the group's offset | receive and enqueue, `commitNext`, `drain`, `flush` | the group never resumes past unfinished work; nothing is left in the buffer that could be committed; the gauge is right |
| worker process (`cmd/worker/main.go`) | reader position, semaphore, WaitGroup, `commitCh`, dedupe keys in Redis | `run`, `dispatchMessage`, the deferred function of a job, shutdown in `main` | every message read reaches the coordinator once; one crawl per dedupe key; shutdown ends |
| job (`processJobAsync` and callees) | attempts, delay, contexts, what was published | retry with backoff, robots check, DLQ, result, expansion | the slot is given back; failures are reported; the site is not asked too often; expansion order |
| graph writer (`cmd/graph-writer/main.go`) | reader positions, Neo4j nodes and relationships | fetch, write, commit | committed messages were written; replays converge; titles are not lost |
| the crawl (all worker pods over the frontier topic) | jobs in the topic, dedupe keys, jobs under way | dispatch, expand, enqueue, fail, be redelivered | it ends; it stays within reach of the seeds and within `MAX_DEPTH`; no link is forgotten |
| API and status store (`cmd/api`, `internal/store`, `internal/kafka`) | status records, session ids | `handleCrawl`, `handleCrawlStatus` | an accepted crawl has a status and a job |
| load generator (`cmd/loadgen`) | one goroutine per seed | post, time out, log | every goroutine ends |
| Open Library client (`internal/ol`) | robots rules | parse robots.txt, build URLs, parse pages | the rules of our block are obeyed, and no others |
| start of a worker (`main`, `newWorker`, `buildHTTPClient`, `common/helper.go`) | settings, proxy, robots rules, channel | read the environment, start the metrics server, choose a proxy, load robots.txt | any settings give a worker that can work, or a panic at the start |
| metrics (`worker_metrics.go`) | histograms, gauges, proxy label | observe, scrape | nothing is lost between concurrent observers; a response taken in between is still a histogram |
| kafka-check, mocks, deployment, scripts | none of their own that matters here | | |

How they interact: the main goroutine of a worker starts one goroutine per job,
bounded by a semaphore; every goroutine and main itself send completed messages
over the buffered channel `commitCh` to the coordinator goroutine, which commits
to Kafka. A signal cancels one context that the reader, the jobs and the
coordinator share. Worker pods share a consumer group, so partitions move
between processes. Workers feed their own input topic, and feed the graph
writer, whose two goroutines share Neo4j.

What is hard here: jobs finish out of order; the coordinator lets go of its lock
and of a message while it commits; a failed call may have taken effect; the
process may die anywhere and its successor finds the dedupe keys set and the
group's offset behind; main, jobs and coordinator race during shutdown;
timeouts race late answers. The list, line by line, is `hazards` in
`PROJECT.json`.

## Modules

| module | models | composed with |
|---|---|---|
| `InOrderCommit` | abstract promise of the commit path: the committed offset only advances, over completed or explicitly waived offsets | |
| `CommitCoordinator` | the coordinator goroutine and its environment (senders, signal, close, crash) | implements `InOrderCommit` |
| `CommitCoordinatorProofs` | inductive invariant and theorems | extends `CommitCoordinator` |
| `CoordinatorRebalance` | a partition leaves the process and comes back | extends `CommitCoordinator`; proofs in `CoordinatorRebalanceProofs` |
| `Worker` | main, job goroutines, semaphore, WaitGroup, dedupe keys, shutdown, restart | instantiates `CommitCoordinator` on the same variables, and is shown to be one of its environments; `WorkerProofs` instantiates `CommitCoordinatorProofs` |
| `JobProcess` | one job from start to deferred release | refines the single step `JobFinish` of `Worker` informally; proofs in `JobProcessProofs` |
| `GraphWriter` | both consumers and the effect of the Cypher statements | proofs in `GraphWriterProofs` |
| `Frontier` | the variables of the frontier topic | shared by `Api` and `Crawl` |
| `Crawl` | the feedback loop: jobs that enqueue jobs, dedupe keys, depth, all pods | extends `Frontier`; proofs in `CrawlProofs` |
| `OpenLibrary` | URL helpers and the robots.txt parser, as operators | |
| `Api` | `handleCrawl`, status records, job producer, the load generator's goroutines | extends `Frontier`, `OpenLibrary` |
| `CrawlService` | clients, API and crawl together | extends `Api` and `Crawl`, and is shown to implement `Crawl`; `CrawlServiceProofs` extends `CrawlProofs` |
| `Startup` | `main` up to `run`, `newWorker`, proxy choice, config helpers | extends `OpenLibrary` |
| `Metrics` | a latency histogram and the `/metrics` handler | |
| `WorkerProcess` | a worker that starts while it is scraped, then observes | extends `Startup` and `Metrics`; proofs in `WorkerProcessProofs` |
| `MC*` | model values and symmetry for TLC | |

Operators whose comment begins with "Mutant" are faulty versions of the
definition that follows them. No specification uses them; they record which
mistake in the code each property would catch.

### CommitCoordinator

The channel is a sequence bounded by `ChanCap`; `nextOffset[p]` is `None` where
the Go map has no entry; `pending[p]` is the set of buffered offsets. The steps
of the goroutine are cut where it blocks: `Receive` is `enqueue` and `drain` up
to the first `CommitMessages`; `CommitOK` and `CommitErr` are the return of that
call up to the next one (`CommitNext` is the shared part of `commitNext`);
`BeginFlush`, `FlushPartition`, `FlushDone` are `flush`. When the context is
done and the channel is not empty, Go's `select` takes either case, and so does
the model. A failed commit may have reached the broker (`tookEffect`). On a
cancelled context `CommitMessages` may fail with a healthy broker, so the error
bound applies to a live context only. The mutex is not modelled: the coordinator
goroutine is the only one to take it. `sent`, `handled` and `skipped` are
history variables; `skipped` records the offsets that an initialisation of
`nextOffset` jumped over.

`Restart` is a crash or exit at any point: memory is lost, reading resumes at
the committed offset.

### CoordinatorRebalance

`Rebalance(p, n)`: the partition was with another member, which completed and
committed up to `n`, and is back. The coordinator is not told. Offsets not yet
sent under the earlier assignment may still complete (`LateSend`) and may also
be delivered again.

### Worker

`log` is any assignment of keys and undecodable payloads to offsets. `main`
follows `run` and `dispatchMessage`; one action per branch. A job ends in one of
two ways: `JobFinish`, with a result or a DLQ entry stored, or `JobCutShort`,
with neither, because a timeout or the shutdown ended its context or the write
failed. Both run the deferred function up to and including `wg.Done` (`Release`);
`JobSend` is its send, and `JobSendClosed` the panic when the channel was closed
in between. `crawled` and `cutShort` record the keys of the two endings,
`orphaned` keys that were set by a dispatch whose job never ended, `dropped` the
messages main let go of. The coordinator's actions are used unchanged.

### JobProcess

Each blocking call is one step with its possible outcomes; `publishDone` is
inherited from `jobDone` as `publishCtx` is derived from `jobCtx`. Delays are
`Width`-bit integers that wrap, as `time.Duration` does, so the doubling in the
retry loop can overflow. A page is its type and the number of links of each
kind; `Expansion` lists the Kafka writes in the order the code makes them.
`KafkaWrite` may store a message and still report an error.

### GraphWriter

A node has one title (standing for the properties written with `coalesce`) and a
session. `Coalesce` and `Merged` say what `coalesce` and `MERGE` do. Only pages
have results (`PageKeys`); an edge, which carries the name of its relation, may
also name subjects and links of other sites. A topic has several partitions
(`deploy/kubernetes/kafka/kafka-topics.yaml`), each with its log, position and
committed offset; one goroutine per topic handles one message at a time (`Idle`),
of whichever partition the reader returns next. Writes and commits may fail with
or without effect. After a failed write the consumer goes on with the next
message, as the code does.

### Crawl

The topic is a bag of jobs: it has several partitions, so a job may be taken
before an older one. `visited` is the set of dedupe keys; `dedupeKeyForJob`
puts a word in front of the URL that depends on the URL alone, so the key is
the URL, whatever the session and the depth. `DispatchFresh`,
`DispatchDuplicate` and `DispatchError` are the branches of `dispatchMessage`;
a slot holds a job and the links it has left to write (`PublishLink`,
`PublishFails`), as `publishEdgesAndFrontier` does one write at a time.
`AtLimit` is the depth test of `enqueueURLToFronter`. `Crash` loses a job
whose key stays set; `Redeliver` brings back any message that was taken;
`Expire` is the TTL of a key. `Linked(a, b, d)` says that a chain of `d` links
leads from one page to another. `Worker` and `JobProcess` have the same code in
more detail for one process and one job.

### Api and CrawlService

A handler goroutine makes two calls under one deadline, to Kafka and then to
Redis. Each may fail before or after it took effect, and the reply may be lost
on the way to the client, whose own timeout then ends its wait. A session id is
a reading of the clock, and two requests may get the same one. A text that begins
with a scheme is taken for a URL, of whatever site, and any other text for words
to search for. A client's text is a sequence of tokens, cut where `normalizeSeedURL`, `EnsureJSONURL`,
`SearchURL` and `PathFromURL` look at it; `PageOf` is what the client means by
it, so that the conversion is checked against something: `SpellingsAgree` says
that all texts are turned into the pages meant. It is evaluated for the texts of
the run and a hypothesis of two theorems, not an assumption about all texts;
`WellSpelled` proves it of every set of texts that are words or addresses.
`CrawlService` joins both over the topic, with `MaxDisturbances` failures in all.

### Startup, Metrics and WorkerProcess

`env` holds the settings (unset, unreadable or a number) and what the process
will meet. `pc` follows `main`: metrics server, channel, proxy and its label,
robots.txt, `newWorker`. `make(chan)` panics for a negative or a too large
capacity, and doubling a large `CONCURRENT_JOBS` wraps. So does doubling a very
negative one: the worker then comes up with one slot and a channel of an
unrelated size, the third case of `LimitsAreUsable`. `int(h.Sum32())` is
negative for half of the hashes where an int has 32 bits (`narrow`).
A robots.txt is a sequence of lines, each the agent of a `User-agent` line, the
path of a `Disallow` line, a line the parser skips, or one longer than the 64 KiB
the scanner takes, at which reading ends without an error (`Scanned`). An agent
is the worker's if it is `*` or equal to the whole `DefaultUserAgent`, version
and address included (`Matches`). `InMatchingBlock` is the
parser's flag after each number of lines, `AfterLine` what one line does to it,
and `ParseRobots` the paths of the `Disallow` lines met with the flag set. The
properties do not mention the flag: they compare the line numbers of rules and
agent lines.
An observation is three atomic additions, a scrape reads the parts one after
the other, and both interleave; one histogram stands for the two, which have
the same code. The label is written without synchronisation while it may be
read, so a reader may see the old or the new value; a torn one is a panic that
`net/http` recovers, and no response.

## Runs

Passing runs:

| run | bounds | shows |
|---|---|---|
| `CommitCoordinator` | 2 partitions, 3 offsets each, at most 5 of the 6 completed (`HandledBound`), channel of 1, one failed commit per process on a live context, any number of restarts | commits never pass an offset that is neither completed nor jumped over by the initialisation; only that initialisation strands messages; an idle coordinator has committed every contiguous run; the gauge is exact; refinement of `InOrderCommit` |
| `CoordinatorRebalance` | 1 partition, 3 offsets, 2 rebalances and 1 failed commit per process | commits still cover completed work; the group's offset goes back only where `nextOffset` dates from an earlier assignment |
| `Worker` | 3 messages (one key or undecodable), 2 slots, 1 store error, 1 expiry, 1 restart | no message forgotten or handled twice; one crawl per key life; committed work was worked on, but for three windows; no offset is sent twice in a process life or from below where it resumed, which is what `CommitCoordinator` assumes |
| `WorkerLive` | 3 messages, 2 keys, 1 slot, 1 store error, 1 commit error | without failure or signal everything is committed; types and the semaphore bound |
| `JobProcess` | every page with at most one link of each kind, 3 retries, 4-bit delays, base 3, cap 5, 1 failed write | bounded requests, none by the handler for a disallowed path; monotone capped backoff, DLQ, ordered expansion, release of the slot |
| `GraphWriter` | 2 partitions per topic: every content of 2 and 1 results and of 1 edge, over a page and another node, 2 titles and 2 relations; one failed write, one failed commit, one restart | committed messages were written or failed; replays converge within a partition; titles survive; empty keys make no node |
| `CrawlService` | 2 clients, 3 pages, 2 slots, a page of another site, 2 link graphs (a cycle without a limit; a page at two depths with `MAX_DEPTH` 1), 2 clock ticks, one failure, lost reply, crash, redelivery or expiry | jobs stay within reach of a submitted seed; no link and no accepted page is forgotten; a status has a job, and is found by its client; an undisturbed crawl without a limit visits exactly what is reachable, in whatever order, and one with a limit every link of the pages it met above the limit; everything comes to rest |
| `WorkerProcess` | one group of settings varied at a time around its limits (14 sizes, 169 pairs of timeouts, 72 proxy settings with a scrape, every robots.txt of up to 4 of 9 different lines, 3 observations by 2 goroutines during 2 scrapes) | usable limits; a proxy from the pool for every hash; robots rules against a definition by line numbers; exact histograms and monotone responses; the start ends although the site may never answer |

Three offsets are the least with a gap, its filling and a message after it;
two partitions are the least at which `cur`, `todo` and the buffers can be
confused. One failed call per process is enough for every retry path, because a
second failure meets the state the first one left. 4-bit delays overflow within
three retries. Two rebalances are the least at which a completion of the first
assignment meets the buffer of the second and the offset of the third. Four
lines are the least robots.txt with two blocks that each have a rule. Three
pages are the least with a cycle and two ways to one of them. Two partitions of
the results, one with a title and its replacement and one with a third, are the
least at which a replay of the one meets what the other wrote. The settings of
`WorkerProcess` are varied one group at a time because no code reads two groups
together; sizes are 8 bits wide, as only wrapping matters.

`Worker` and `WorkerLive` are two instances because each needs what would hide
the other's case: only with a single slot is the semaphore full while main
waits, and only with two do jobs complete out of order.

The largest runs are `CoordinatorRebalance` (4 million states), `Worker` (1.7
million), `GraphWriter` (1.6 million), `WorkerLive` (350 000), `CrawlService`
(190 000, with temporal properties) and `WorkerProcess` (185 000); each takes
less than two minutes.

Deadlock is checked for the coordinator runs, where a restart is always
possible. The other systems may stop: a job ends, a log is read, a process
exits, a crawl is complete.

Runs that TLC refutes, each with a finding in `PROJECT.json`:

| run | what the code does |
|---|---|
| `CommitCoordinator_gap` | the first completion fixes `nextOffset`; offset 1 completing before offset 0 commits both, and a crash then loses offset 0 |
| `Worker_closed` | `wg.Done` before the send lets main close the channel, and the send panics |
| `Worker_shutdown` | the coordinator stops receiving on a signal while main still sends to a full channel; the process hangs |
| `GraphWriter_lost` | a failed write is passed over by the commit of the next message |

Some exceptions are part of passing properties instead, where a reader should
look for them: `CommittedWorkIsDone` names three windows, a job cut short with
nothing stored (its deferred function commits it all the same, as
`results/FAILURE_MODES.MD` line 103 says), a key set before a crash, a cancelled
wait or a store error (the redelivered message then counts as a duplicate), and
an offset the coordinator jumped over; `EveryMessageCommitted` excludes store
errors (a message whose `SetNX` failed is never sent to the coordinator, and its
partition waits for it); `FailedJobReachesDLQ` excludes jobs ended by a timeout (the DLQ write gets
a context that is done). `flush` has work only after a failed commit, and then
runs on the cancelled context.

Where the code disagrees with a comment, or with what a reader would expect of it,
without a run of its own, the property that holds names the exception:

- `commit_coordinator.go:15` says that commits are in offset order. After a
  partition came back to the process, its old `nextOffset` moves the group's
  offset backwards (`RegressOnlyByStaleOffset`); messages are then read twice.
- `main.go:315` logs that disallowed paths will be skipped. The expansion of a
  search fetches its URL again without asking the rules (`RequestsBounded`).
- `robots.go:88` says that the first matching block is used. The flag is cleared
  by the next agent line and set again by a third, and rules of all blocks
  reached while it is set are collected. A block that follows right after another
  one for the worker is not obeyed; every other one is (`OurBlocksAreObeyed`,
  `OpensOurBlock`), and nothing else is (`OnlyOurBlocksForbid`).
- `robots.go:13` says the agent is sent so that the site can apply robots.txt
  rules. A block for `RelentlessBookworm`, the name a site would write, is not
  matched: line 101 compares with the whole header (`Matches`).
- `robots.go:94` reads lines until `Scan` returns false and does not ask why. The
  rules behind a line of more than 64 KiB are dropped (`Scanned`).
- `robots.go:25` says that an empty path is allowed. It is taken for `/`, so a
  URL that does not parse, whose path is empty, is refused under `Disallow: /`
  (`PathAsked` in `Startup`). The proof of `OnlyOurBlocksForbid` met this case.
- `main.go:102` says the label is the proxy the worker uses. If the URL does not
  parse, the label names it and the connection is direct (`NamedProxyIsUsed`).
- `main.go:345` says that jobs are bounded by the semaphore. A slot is free
  before the goroutine has sent its message, so goroutines that wait to send
  are not bounded.
- The writer's `MERGE` and `coalesce` make one replayed message harmless, but titles
  converge within a partition only: `worker/main.go:246` spreads the results of a
  page over three partitions, and a replay of one can put back a title that
  another had replaced, with nothing to correct it. `ReplayConverges` promises the
  newest title of one of the partitions, and the edges.
- The README (line 28) says nodes and edges are stored per session. The dedupe
  key has no session, so a page belongs to the session that reached it first:
  `RestMeansComplete` speaks of all seeds together.
- `EnsureJSONURL` puts `.json` behind a query, so a seed URL with a query names
  no page of the site. `PageOf` has no such text.
- `MAX_DEPTH` limits the depth along the path that reached a page first, not
  the distance from the seed. `LinksAreKept`, `JobsAreWithinReach` and
  `LimitedRestIsClosed` are what holds with a limit: at rest the seeds and all
  links of pages met above the limit are crawled. `RestMeansComplete` is for
  crawls without one.

### Fairness

`Worker` assumes weak fairness of main, of each job and of the coordinator: Go
schedules every runnable goroutine, and jobs end because of their timeouts, which
`JobProcess` shows. Nothing is assumed about signals, crashes or expiry.
`Main` is fair as a whole, not per branch: which branch it takes is the
environment's choice.
`CrawlService` assumes that some client, handler or worker that can run does
(weak fairness of `ClientStep \/ PodStep`, not of each), and nothing about
failures and TTLs. `WorkerProcess` assumes that main runs on and that the 15 s
timeout of the robots.txt request fires; it assumes nothing about an answer.
`JobProcess` assumes that timers fire and that calls return once their context
is done; it assumes nothing about Open Library or Kafka answering.

## Proofs

The proof modules hold for every value of the constants that satisfies the
assumptions stated beside them: any partitions, offsets and channel capacity,
any number of slots, clients, pages, observers and buckets, any number of
failures, restarts and rebalances, every width of an integer. Where a run checks
the property too, the theorem names the same definition.

| module | theorem | states |
|---|---|---|
| `CommitCoordinatorProofs` | `TypeCorrect` | `Spec => []TypeOK` |
| | `CommitSafety` | `Spec => []CommitCoversHandled` |
| | `StrandedSafety` | `Spec => []StrandedOnlyIfSkipped` |
| | `Promptness` | `Spec => []IdleMeansCommitted` |
| | `GaugeSafety` | `Spec => []PendingGaugeExact` |
| | `Implementation` | `Spec => ImplementsInOrderCommit` |
| `CoordinatorRebalanceProofs` | `RebalanceCoverage` | `RSpec => []CommitCoversHandled` |
| | `RegressionNeedsStaleOffset` | `RSpec => RegressOnlyByStaleOffset` |
| `WorkerProofs` | `WorkerUsesCoordinator` | `Spec => UsesCoordinator` |
| | `WorkerCommits` | the coordinator's invariants and its refinement of `InOrderCommit`, of a worker |
| | `WorkerTypes` | `Spec => []TypeOK` |
| | `NoMessageForgotten` | `Spec => []MessageInOnePlace` |
| | `CrawlOncePerKeyLife` | `Spec => []AtMostOneCrawlPerKeyLife` |
| | `CommittedWork` | `Spec => []CommittedWorkIsDone` |
| `JobProcessProofs` | `JobTypes` | `Spec => []TypeOK` |
| | `JobRequests` | `Spec => []RequestsBounded` |
| | `JobReported` | `Spec => []FailedJobReachesDLQ` |
| | `JobPublishesInOrder` | `Spec => []PublishedIsPrefix` |
| | `JobBackoff` | `Spec => BackoffGrowsUpToCap` |
| | `JobIsFinite` | every step decreases a measure that starts at `3 * Retries + 6 * MaxLinks + 11` |
| `GraphWriterProofs` | `WriterTypes` | `Spec => []TypeOK` |
| | `WriterCoverage` | `Spec => []CommittedIsWrittenOrFailed` |
| | `WriterConverges` | `Spec => []ReplayConverges` |
| | `TitlesStay` | `Spec => TitleNeverErased` |
| `CrawlProofs` | `CrawlReach` | `CrawlSpec => []JobsAreWithinReach` |
| | `CrawlLinks` | `CrawlSpec => []LinksAreKept` |
| | `CrawlComplete` | `CrawlSpec => []RestMeansComplete` |
| | `CrawlClosed` | `CrawlSpec => []LimitedRestIsClosed` |
| `CrawlServiceProofs` | `ServiceUsesCrawl` | `Spec => CrawlSpec` |
| | `ServiceCrawls` | the four above, of the whole service |
| | `ServiceStatus` | `Spec => []StatusHasJob` |
| | `ServiceKeepsAccepted` | `SpellingsAgree => (Spec => []AcceptedIsKept)` |
| | `ServiceFindsStatus` | `SpellingsAgree => (Spec => []AcceptedFindsOwnStatus)` |
| | `WellSpelled` | `SpellingsAgree`, if every text is words or the address of its page |
| `WorkerProcessProofs` | `StartLimits` | `Spec => []LimitsAreUsable` |
| | `StartProxy` | `Spec => []ProxyIsFromPool` |
| | `RobotsObeyed` | `Spec => []OurBlocksAreObeyed` |
| | `RobotsRefuseNoMore` | `Spec => []OnlyOurBlocksForbid` |
| | `HistogramReports` | `Spec => []ReportsAreHistograms` |
| | `HistogramProxy` | `Spec => []NamedProxyIsUsed` |
| | `HistogramCounts` | `Spec => []HistogramExact`, the counts at any time |
| | `HistogramAtRest` | `Spec => []HistogramExactAtRest` |

Each module begins with its inductive invariant, has one lemma per action (or
per group of actions that leave the same variables alone), a `Step...` lemma that
combines them, and then the theorems.

### Why the invariants are stronger than the properties

- **Coordinator** (`IInv`). The properties speak of offsets; what makes them true
  is where each message is. A sent offset at or above `nextOffset` is on the
  channel, in the buffer or in the commit call, and in one of them only
  (`ChannelInv`, `CallInv`, `OrderInv`); an offset below it went through the
  buffer or was jumped over; a partition without `nextOffset` has only messages
  on the channel (`FreshInv`); the broker is at most one offset ahead of the
  coordinator, and only after a commit that failed after taking effect
  (`BrokerInv`); without a failed commit nothing committable is buffered
  (`PromptInv`). `FreshInv` is what makes the waived offsets start at the
  committed one; `BrokerInv` is what lets a retried commit be a stutter of
  `InOrderCommit` and never a step back. The gauge is proved on top of it, as the
  cardinality of the set of buffered messages.
- **Rebalances** (`RInv`). `IInv` is false here: an offset is delivered more than
  once, and `nextOffset` may date from an earlier assignment. What remains is
  that all that is held was completed (`HeldInv`), that none of the start of the
  assignment, the committed offset and even a stale `nextOffset` is past an
  offset neither completed nor jumped over (`CoverInv`), and that a `nextOffset`
  of the present assignment is at most one commit behind (`FreshnessInv`).
- **Worker** (`JointInv`, the coordinator's `IInv` with `OwnInv`). The two have to
  be proved together: that the worker sends each offset once, which
  `CommitCoordinator` takes for granted, follows from where its messages are
  (`PlaceInv`), and that a restart resumes where nothing is lost follows from
  `IInv`. `CountInv` counts a crawl that main is about to start as well, as the
  key is set before the slot is free; `WorkInv` says on whose behalf each key is
  set, also when its job was cut short. With `UsesCoordinator` the coordinator's theorems hold in the worker:
  `WorkerCommits` cites them and proves none of them again.
- **Job** (`JInv`). Requests are bounded by failed attempts while the handler
  runs (`RequestInv`). `BackoffInv` needs that a doubled delay is exact or not
  positive, which is a fact about wrapping integers (`WrapFacts`); one that is not
  positive is not slept. `PlanInv` keeps a place in the expansion such that what
  is stored are the writes due before it, and the plan is the rest. `JobIsFinite`
  adds a measure, three steps for each retry left, one for each write left and
  one for each timeout that can still come. The handler starts a new context for
  the publish phase, which gives a timeout back; the measure allows for it. That a job
  cannot loop is therefore proved; that it does not stand still before its
  deferred function is `SlotIsReleased`, which needs fairness.
- **Graph writer** (`WInv`). `ReplayConverges` speaks of the end of the logs. Its
  inductive form, `TitleInv`, says of readers anywhere that a node has a title
  that, in one of the partitions, is not older than any the reader of that
  partition has passed; it may be newer, when an offset is read again. Going back
  keeps that true, and so does writing a message again.
- **Crawl** (`CInv`). `KeepInv` follows links while a job is between two writes;
  `OwnerInv` says who answers for a claimed page. Completeness at rest is an
  induction along the chain of links from a seed, and the bound on the length of
  the chain is a pigeonhole argument (a chain that meets a page twice can be
  shortened).
- **API** (`ApiInv`). A handler that goes on to Redis has written its job
  (`HandlerInv`), so a record that appears later, also one whose write was
  reported as failed, has its job (`RecordInv`). `CInv` is carried over by
  `ServiceUsesCrawl` and not proved again. `WellSpelled` says when the hypothesis of two
  of these theorems holds: each text is words to search for or the address of
  its page (`Names`), with its `.json` or else with any number of slashes behind
  it. The texts of the run are of these three kinds.
- **Process** (`StartInv`, `HInv`). `SettledInv` lists what `main` has settled at
  each point. For the responses, a bucket that was read earlier is compared with
  ones that have grown since: `Behind` says that the response is below the
  histogram bucket by bucket and in sum, and `LatestInv` that the last response is
  below the one being written as far as that one goes. The counts are exact up
  to the observations under way (`HistogramExact`). For the sum that is not enough:
  `SumInv` gives each goroutine that still has to add to it an observation of its
  own, different from the others', and says that the sum is that of the rest.
- **Robots rules.** No invariant over steps, as the file is parsed in one, but one
  over lines: the flag after a line is set only if the last agent line so far is
  for the worker, and it stays as it is between agent lines. So a rule that
  counts is in a block for us (`RobotsRefuseNoMore`), and an agent line for us
  whose predecessor is not for us finds the flag clear and sets it
  (`RobotsObeyed`).

Inductions over numbers are taken from the fact that a non-empty set of them has
a least element (`LeastElement`, `HasLeast`), as the library's induction theorems
take an operator the installed provers cannot instantiate. Recursive functions
over the first numbers (the parser's flag, the sums) are well defined by a lemma
of `WorkerProcessProofs`, `Iteration`, proved the same way: from any start value
and any table of steps, the sequence of values exists.

### Assumptions

Next to the constants they are about, and evaluated by TLC on every run:
`NoPartition` is no partition, `NoMsg` no message, `Idle` no job, `Bad` and
`Ignored` no payloads, and so on for the other model values; counts and bounds
are natural numbers, a channel has room for one message and a worker has a
slot; sites and observers are finite; the bounds of a histogram increase; the
values of an environment have their types; the hash has as many values with its
top bit as without. `WidthAssumption` in `JobProcess` is all the proofs need to
know of exponentiation. `ServiceAssumption` says that the texts clients send
name pages of the site, which is weaker than `SpellingsAgree`.

### Only model-checked

- Liveness, which needs fairness: `EveryMessageCommitted`, `SlotIsReleased`,
  `ServiceRests`, `StartEnds`.

Every invariant and every safety property of an action that a run checks is
stated by a theorem of the specification.

## Not modelled

- `kafka-check` connects, prints and exits; mocks are generated; manifests,
  dashboards and scripts configure other systems.
- Reading the load generator's config file, and what it prints.
- Field-by-field copying of JSON in the Open Library parser: `JobProcess` has
  its outcome (a node of some type, none, or an error, and the links).
- Logging, the text format of `/metrics`, the counters that are one atomic load
  in a response, the API's constant `/metrics` and the health endpoints.
- Panics inside a job other than the send on a closed channel.
- Several graph-writer pods that MERGE the same key at once. Whether two nodes
  result depends on Neo4j's constraints: `deploy/neo4j/constraints.cypher`, which
  an operator applies (`deploy/kubernetes/graph-writer/README.md:28`,
  `deploy/kubernetes/neo4j/README.md:26`), makes the keys of books, works and
  authors unique. Subjects and external links have no constraint.
- Kafka's own replication and the transport timeouts of the HTTP library.

## What is left

Liveness is the only kind of property that rests on the small instances alone:
its proofs need fairness and `ENABLED`, which the installed version of the prover
does not reason about. `JobIsFinite` is the part of such an argument that can be
proved; a measure for `Worker` without store errors, over the messages left to
read, to finish, to send and to commit, would be the next one.

## Running

```
tlc -workers 2 -config Worker.cfg MCWorker
tlc -workers 2 -config CrawlService.cfg MCCrawlService
tlapm CommitCoordinatorProofs.tla
for m in *Proofs.tla; do tlapm $m; done
```
