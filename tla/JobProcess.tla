------------------------------- MODULE JobProcess ------------------------------
(***************************************************************************)
(* One job goroutine of the worker (processJobAsync in cmd/worker/main.go  *)
(* and all it calls): fetch with retries and backoff, the robots check,    *)
(* the bounded publish phase (DLQ, result, edges and frontier) and the     *)
(* deferred release of the slot.  The Open Library site, Kafka and the     *)
(* timers are the environment: any call may fail or not return until its   *)
(* context is done, and a failed Kafka write may still have been stored.   *)
(*                                                                         *)
(* Durations are whole units of an integer of Width bits, as time.Duration *)
(* is an int64.  URLs and payloads are abstracted to the kind and number   *)
(* of links a page has; links with an empty key never become one.          *)
(***************************************************************************)
EXTENDS Integers, Sequences, FiniteSets

CONSTANTS
    MaxDepth,        \* MAX_DEPTH; 0 or less means no limit
    RetryMax,        \* RETRY_MAX
    RetryBase,       \* RETRY_BASE_DELAY
    RetryMaxDelay,   \* RETRY_MAX_DELAY; 0 or less means no cap
    Width,           \* bits of a duration
    DepthBound,      \* bound: depth of the job
    MaxLinks,        \* bound: links of one kind on a page
    MaxWriteErrors   \* bound: Kafka writes that fail on a live context

ASSUME ConfigAssumption ==
    MaxDepth \in Int /\ RetryMax \in Int
ASSUME BoundAssumption ==
    DepthBound \in Nat /\ MaxLinks \in Nat /\ MaxWriteErrors \in Nat /\ Width \in Nat \ {0}

VARIABLES
    job,         \* the job and what robots.txt says about its URL
    page,        \* what Open Library serves for the URL
    step,        \* where the goroutine is
    attempts,    \* failed calls of handleJob
    delay,       \* next backoff delay
    slept,       \* the last delay slept, 0 before the first
    node,        \* the node handleJob returned, or "nil"
    failed,      \* handleJobWithRetry returned an error
    jobDone,     \* jobCtx is done: JOB_TIMEOUT, or the process shuts down
    publishDone, \* publishCtx, a child of jobCtx, is done
    requests,    \* HTTP requests made for this job
    inDLQ,       \* the failure was stored in the DLQ topic
    inResults,   \* the node was stored in the results topic
    plan,        \* writes of the expansion still to do
    published,   \* history: writes of the expansion that were stored, in order
    writeErrs

ctxVars == <<jobDone, publishDone>>
retryVars == <<attempts, delay, slept>>
outVars == <<inDLQ, inResults, published>>
vars == <<job, page, step, retryVars, node, failed, ctxVars, requests,
          outVars, plan, writeErrs>>

LinkKinds == {"author", "work", "subject", "name", "doc"}
NodeTypes == {"book", "work", "author", "nil"}   \* ParseNode: nil for other types
Job == [search : BOOLEAN, allowed : BOOLEAN, depth : 0..DepthBound]
Page == [type : NodeTypes, links : [LinkKinds -> 0..MaxLinks]]
Write == [topic : {"edges", "frontier"}, kind : LinkKinds, link : 1..MaxLinks]

Durations == -(2^(Width - 1))..(2^(Width - 1) - 1)

ASSUME DelayAssumption == RetryBase \in Durations /\ RetryMaxDelay \in Durations
\* Of exponentiation the proofs use no more than this.
ASSUME WidthAssumption == 2^(Width - 1) \in Nat \ {0} /\ 2^Width = 2 * 2^(Width - 1)

\* Signed overflow wraps, as in Go.
Wrap(x) == ((x + 2^(Width - 1)) % 2^Width) - 2^(Width - 1)

Init ==
    /\ job \in Job
    /\ page \in Page
    /\ step = "handle"
    /\ attempts = 0
    /\ delay = RetryBase
    /\ slept = 0
    /\ node = "nil"
    /\ failed = FALSE
    /\ jobDone = FALSE
    /\ publishDone = FALSE
    /\ requests = 0
    /\ inDLQ = FALSE
    /\ inResults = FALSE
    /\ plan = <<>>
    /\ published = <<>>
    /\ writeErrs = 0

--------------------------------------------------------------------------------
(* handleJobWithRetry.                                                     *)

\* publishCtx is derived from jobCtx when the handler returns.
StartPublish(err, next) ==
    /\ failed' = err
    /\ publishDone' = jobDone
    /\ step' = next

\* handleJob fetched and parsed the page; a search yields no node.
HandleOK ==
    /\ step = "handle"
    /\ job.allowed
    /\ ~jobDone
    /\ requests' = requests + 1
    /\ node' = IF job.search THEN "nil" ELSE page.type
    /\ StartPublish(FALSE, "result")
    /\ UNCHANGED <<job, page, retryVars, jobDone, outVars, plan, writeErrs>>

\* handleJob failed: robots.txt disallows the path (then nothing is fetched),
\* or the fetch or the parser failed.
HandleFails ==
    /\ step = "handle"
    /\ requests' = requests + (IF job.allowed THEN 1 ELSE 0)
    /\ UNCHANGED <<job, page, jobDone, node, outVars, plan, writeErrs>>

\* Mutant: a failure is not reported.
GiveUpUnreported ==
    /\ HandleFails
    /\ RetryMax <= 0 \/ attempts + 1 > RetryMax
    /\ attempts' = attempts + 1
    /\ StartPublish(TRUE, "result")
    /\ UNCHANGED <<delay, slept>>

\* ... and it was the last attempt, or retries are off.
GiveUp ==
    /\ HandleFails
    /\ RetryMax <= 0 \/ attempts + 1 > RetryMax
    /\ attempts' = attempts + 1
    /\ StartPublish(TRUE, "dlq")
    /\ UNCHANGED <<delay, slept>>

\* Mutant: the delay is not capped.
RetryLaterUncapped ==
    /\ HandleFails
    /\ RetryMax > 0 /\ attempts + 1 <= RetryMax
    /\ delay > 0
    /\ attempts' = attempts + 1
    /\ step' = "backoff"
    /\ UNCHANGED <<delay, slept, failed, publishDone>>

\* ... and the delay is positive: cap it and sleep.
RetryLater ==
    /\ HandleFails
    /\ RetryMax > 0 /\ attempts + 1 <= RetryMax
    /\ delay > 0
    /\ attempts' = attempts + 1
    /\ delay' = IF RetryMaxDelay > 0 /\ delay > RetryMaxDelay THEN RetryMaxDelay ELSE delay
    /\ step' = "backoff"
    /\ UNCHANGED <<slept, failed, publishDone>>

\* Mutant: the attempt just made is not counted against RETRY_MAX.
RetryNowOffByOne ==
    /\ HandleFails
    /\ RetryMax > 0 /\ attempts <= RetryMax
    /\ delay <= 0
    /\ attempts' = attempts + 1
    /\ UNCHANGED <<step, delay, slept, failed, publishDone>>

\* ... and there is no delay: try again at once.
RetryNow ==
    /\ HandleFails
    /\ RetryMax > 0 /\ attempts + 1 <= RetryMax
    /\ delay <= 0
    /\ attempts' = attempts + 1
    /\ UNCHANGED <<step, delay, slept, failed, publishDone>>

\* The backoff timer fires.
TimerFires ==
    /\ step = "backoff"
    /\ slept' = delay
    /\ delay' = Wrap(2 * delay)
    /\ step' = "handle"
    /\ UNCHANGED <<job, page, attempts, node, failed, ctxVars, requests, outVars,
                   plan, writeErrs>>

\* jobCtx is done during the backoff: the handler returns ctx.Err().
BackoffCancelled ==
    /\ step = "backoff"
    /\ jobDone
    /\ StartPublish(TRUE, "dlq")
    /\ UNCHANGED <<job, page, retryVars, jobDone, node, requests, outVars, plan, writeErrs>>

--------------------------------------------------------------------------------
(* The publish phase.                                                      *)

\* Outcomes of WriteMessages on publishCtx: stored tells whether the topic got
\* the message, ok whether the call returned nil.  An acknowledgement may still
\* win against a context that is done.
KafkaWrite(stored, ok) ==
    \/ ok /\ stored /\ UNCHANGED writeErrs
    \/ ~ok /\ publishDone /\ UNCHANGED writeErrs
    \/ ~ok /\ ~publishDone /\ writeErrs < MaxWriteErrors /\ writeErrs' = writeErrs + 1

\* The check of publishCtx.Err() after a publish call.
NextUnlessDone(next) == step' = IF publishDone THEN "released" ELSE next

\* publishDLQ; its error is only logged.
PublishDLQ(stored, ok) ==
    /\ step = "dlq"
    /\ KafkaWrite(stored, ok)
    /\ inDLQ' = stored
    /\ NextUnlessDone("result")
    /\ UNCHANGED <<job, page, retryVars, node, failed, ctxVars, requests, inResults,
                   published, plan>>

\* publishResult without a node.
NoResult ==
    /\ step = "result"
    /\ node = "nil"
    /\ NextUnlessDone("expand")
    /\ UNCHANGED <<job, page, retryVars, node, failed, ctxVars, requests, outVars,
                   plan, writeErrs>>

\* publishResult with one; its error is only logged.
PublishResult(stored, ok) ==
    /\ step = "result"
    /\ node # "nil"
    /\ KafkaWrite(stored, ok)
    /\ inResults' = stored
    /\ NextUnlessDone("expand")
    /\ UNCHANGED <<job, page, retryVars, node, failed, ctxVars, requests, inDLQ,
                   published, plan>>

\* The two writes of link number i of a kind, in the order the code makes them:
\* authors and works edge first, subjects and search hits frontier first.
Topic(kind, j) ==
    IF (kind \in {"author", "work"}) = (j % 2 = 1) THEN "edges" ELSE "frontier"
\* Mutant: reads one link past the end of the list.
PairsPastEnd(kind) ==
    [j \in 1..(2 * page.links[kind] + 1) |->
        [topic |-> Topic(kind, j), kind |-> kind, link |-> (j + 1) \div 2]]

Pairs(kind) ==
    [j \in 1..(2 * page.links[kind]) |->
        [topic |-> Topic(kind, j), kind |-> kind, link |-> (j + 1) \div 2]]

\* An author's name gives one search URL and no edge.
NameSearch ==
    IF page.links["name"] = 0 THEN <<>>
    ELSE <<[topic |-> "frontier", kind |-> "name", link |-> 1]>>

\* expandBook, expandWork, expandAuthor and the loop of expandSearch.
Expansion(type) ==
    CASE type = "book"   -> Pairs("author") \o Pairs("work") \o Pairs("subject")
      [] type = "work"   -> Pairs("author") \o Pairs("subject")
      [] type = "author" -> NameSearch
      [] type = "search" -> Pairs("doc")
      [] OTHER           -> <<>>

\* publishEdgesAndFrontier of a node, or of nothing.
ExpandNode ==
    /\ step = "expand"
    /\ ~job.search
    /\ plan' = Expansion(node)
    /\ step' = "write"
    /\ UNCHANGED <<job, page, retryVars, node, failed, ctxVars, requests, outVars, writeErrs>>

\* expandSearch fetches the search URL again, whatever the handler returned.
ExpandSearch ==
    /\ step = "expand"
    /\ job.search
    /\ ~publishDone
    /\ requests' = requests + 1
    /\ plan' = Expansion("search")
    /\ step' = "write"
    /\ UNCHANGED <<job, page, retryVars, node, failed, ctxVars, outVars, writeErrs>>

ExpandSearchFails ==
    /\ step = "expand"
    /\ job.search
    /\ requests' = requests + 1
    /\ step' = "released"
    /\ UNCHANGED <<job, page, retryVars, node, failed, ctxVars, outVars, plan, writeErrs>>

\* enqueueURLToFronter writes nothing at the depth limit.
AtDepthLimit == MaxDepth > 0 /\ job.depth >= MaxDepth
Skips(w) == w.topic = "frontier" /\ AtDepthLimit

SkipWrite ==
    /\ step = "write"
    /\ plan # <<>>
    /\ Skips(Head(plan))
    /\ plan' = Tail(plan)
    /\ UNCHANGED <<job, page, step, retryVars, node, failed, ctxVars, requests,
                   outVars, writeErrs>>

\* Mutant: an error is logged and the expansion goes on.
PublishLinkGoesOn(stored, ok) ==
    /\ step = "write"
    /\ plan # <<>>
    /\ ~Skips(Head(plan))
    /\ KafkaWrite(stored, ok)
    /\ published' = IF stored THEN Append(published, Head(plan)) ELSE published
    /\ plan' = Tail(plan)
    /\ UNCHANGED <<job, page, step, retryVars, node, failed, ctxVars, requests, inDLQ, inResults>>

\* Mutant: a failed write is tried again without a look at publishCtx.
PublishLinkRetries(stored, ok) ==
    /\ step = "write"
    /\ plan # <<>>
    /\ ~Skips(Head(plan))
    /\ KafkaWrite(stored, ok)
    /\ published' = IF ok THEN Append(published, Head(plan)) ELSE published
    /\ plan' = IF ok THEN Tail(plan) ELSE plan
    /\ UNCHANGED <<job, page, step, retryVars, node, failed, ctxVars, requests, inDLQ, inResults>>

\* publishEdge or enqueueURLToFronter; the first error ends the expansion.
PublishLink(stored, ok) ==
    /\ step = "write"
    /\ plan # <<>>
    /\ ~Skips(Head(plan))
    /\ KafkaWrite(stored, ok)
    /\ published' = IF stored THEN Append(published, Head(plan)) ELSE published
    /\ plan' = IF ok THEN Tail(plan) ELSE plan
    /\ step' = IF ok THEN "write" ELSE "released"
    /\ UNCHANGED <<job, page, retryVars, node, failed, ctxVars, requests, inDLQ, inResults>>

\* The deferred function: the slot is free and the WaitGroup done.
Release ==
    /\ step = "write"
    /\ plan = <<>>
    /\ step' = "released"
    /\ UNCHANGED <<job, page, retryVars, node, failed, ctxVars, requests, outVars,
                   plan, writeErrs>>

--------------------------------------------------------------------------------
(* Contexts.                                                               *)

\* JOB_TIMEOUT passes or the process is told to stop; children of jobCtx too.
Publishing == step \in {"dlq", "result", "expand", "write"}
JobTimeout ==
    /\ ~jobDone
    /\ step # "released"
    /\ jobDone' = TRUE
    /\ publishDone' = (publishDone \/ Publishing)
    /\ UNCHANGED <<job, page, step, retryVars, node, failed, requests, outVars,
                   plan, writeErrs>>

\* PUBLISH_TIMEOUT passes.
PublishTimeout ==
    /\ Publishing
    /\ ~publishDone
    /\ publishDone' = TRUE
    /\ UNCHANGED <<job, page, step, retryVars, node, failed, jobDone, requests, outVars,
                   plan, writeErrs>>

--------------------------------------------------------------------------------
\* What the goroutine does by itself, and calls that return once their context
\* is done: the site and Kafka need not cooperate for any of these.
Own ==
    \/ BackoffCancelled
    \/ NoResult
    \/ ExpandNode
    \/ SkipWrite
    \/ Release
    \/ jobDone /\ (GiveUp \/ RetryLater \/ RetryNow)
    \/ \E stored \in BOOLEAN :
         \/ publishDone /\ PublishDLQ(stored, FALSE)
         \/ publishDone /\ PublishResult(stored, FALSE)
         \/ publishDone /\ PublishLink(stored, FALSE)
    \/ publishDone /\ ExpandSearchFails

Next ==
    \/ HandleOK
    \/ GiveUp
    \/ RetryLater
    \/ RetryNow
    \/ TimerFires
    \/ BackoffCancelled
    \/ NoResult
    \/ \E stored, ok \in BOOLEAN :
         PublishDLQ(stored, ok) \/ PublishResult(stored, ok) \/ PublishLink(stored, ok)
    \/ ExpandNode
    \/ ExpandSearch
    \/ ExpandSearchFails
    \/ SkipWrite
    \/ Release
    \/ JobTimeout
    \/ PublishTimeout

Spec == Init /\ [][Next]_vars

\* Timers fire and the goroutine runs; nothing is assumed of site and broker.
FairSpec == Spec /\ WF_vars(Own) /\ WF_vars(JobTimeout) /\ WF_vars(PublishTimeout)

--------------------------------------------------------------------------------
(* Properties.                                                             *)

\* Every variable stays in its type; delays stay Width-bit integers.
TypeOK ==
    /\ job \in Job
    /\ page \in Page
    /\ step \in {"handle", "backoff", "dlq", "result", "expand", "write", "released"}
    /\ attempts \in Nat
    /\ delay \in Durations
    /\ slept \in Durations
    /\ node \in NodeTypes
    /\ failed \in BOOLEAN
    /\ jobDone \in BOOLEAN
    /\ publishDone \in BOOLEAN
    /\ requests \in Nat
    /\ inDLQ \in BOOLEAN
    /\ inResults \in BOOLEAN
    /\ plan \in Seq(Write)
    /\ published \in Seq(Write)
    /\ writeErrs \in 0..MaxWriteErrors

\* The job gives its slot back although neither Open Library nor Kafka ever
\* answers: the two timeouts alone bring it to its deferred function.
SlotIsReleased == <>(step = "released")

\* The site is asked for a page at most RETRY_MAX + 1 times by the handler, and
\* never, by it or by a retry, for a path robots.txt disallows.  What is left is
\* one request by the expansion of a search, which does not consult the rules
\* although the log line at startup says that such paths will be skipped.
Retries == IF RetryMax > 0 THEN RetryMax ELSE 0
RequestsBounded ==
    requests <= (IF job.allowed THEN Retries + 1 ELSE 0) + (IF job.search THEN 1 ELSE 0)

\* Between two attempts the delay slept never shrinks and never exceeds a
\* positive RETRY_MAX_DELAY, also when doubling it overflows: the doubled delay
\* is then negative and is not slept.
BackoffGrowsUpToCap ==
    [][slept' # slept =>
          slept' >= slept /\ (RetryMaxDelay > 0 => slept' <= RetryMaxDelay)]_vars

\* A job that failed ends in the DLQ, also when the handler gave up on a page
\* robots.txt disallows, unless the DLQ write itself failed or a timeout or the
\* shutdown ended the job first: publishCtx is a child of jobCtx, so a job that
\* fails by its own timeout is not reported.
FailedJobReachesDLQ ==
    (step = "released" /\ failed /\ writeErrs = 0 /\ ~publishDone) => inDLQ

\* A failed write ends the expansion, so what was stored are the writes due
\* among the first n, in the order of the page's links: write number j is at the
\* place that counts the writes due up to it.  At most one link has only one of
\* its edge and its frontier entry.
All == Expansion(IF job.search THEN "search" ELSE node)
DueUpTo(n) == {i \in 1..n : ~Skips(All[i])}
PublishedIsPrefix ==
    \E n \in 0..Len(All) :
        /\ Len(published) = Cardinality(DueUpTo(n))
        /\ \A j \in DueUpTo(n) : published[Cardinality(DueUpTo(j))] = All[j]
================================================================================
