--------------------------------- MODULE Crawl ---------------------------------
(***************************************************************************)
(* The crawl as a whole: the worker pods take jobs from the frontier topic *)
(* and write the links they find back to it (cmd/worker/main.go).  What    *)
(* keeps the loop from running forever or losing pages is the dedupe key,  *)
(* which ignores session and depth, and the depth limit.                   *)
(*                                                                         *)
(* A slot stands for a job from its SetNX on, in any pod.  The frontier is *)
(* a bag: the topic has several partitions, so jobs are taken in any       *)
(* order.  Worker has the dispatch and the commits in detail, JobProcess   *)
(* the retries and timeouts; here a job is handled at once, or fails.       *)
(***************************************************************************)
EXTENDS Frontier, Integers, FiniteSets, Bags

CONSTANTS
    URLs,              \* URLs of jobs, in the form dedupeKeyForJob sees
    Searches,          \* the ones isSearchURL accepts
    Sites,             \* bound: what the pages link to, and the workers' MAX_DEPTH
    Sessions,
    Slots, Idle,
    MaxFaults,         \* bound: failed calls and crashes
    MaxRedeliveries,   \* bound: messages delivered again
    MaxExpiries        \* bound: dedupe keys whose TTL runs out

ASSUME URLAssumption == IsFiniteSet(URLs) /\ Searches \subseteq URLs
ASSUME SiteAssumption == Sites \subseteq [links : [URLs -> SUBSET URLs], maxDepth : Int]
ASSUME CrawlBudgetAssumption ==
    MaxFaults \in Nat /\ MaxRedeliveries \in Nat /\ MaxExpiries \in Nat

VARIABLES
    links,         \* the site: URLs that the page of a URL makes a job enqueue
    maxDepth,      \* MAX_DEPTH of the workers; 0 or less means no limit
    slot,          \* the job in each slot
    visited,       \* Redis: URLs whose dedupe key is set
    taken,         \* history: jobs taken from the frontier, to be redelivered
    seen,          \* history: URLs whose dedupe key was ever set
    expanded,      \* history: jobs whose expansion reached its end
    interrupted,   \* history: URLs whose key is set by a job that did not
    dropped,       \* history: URLs of messages let go of
    faults, redeliveries, expiries

historyVars == <<submitted, taken, seen, expanded, interrupted, dropped>>
budgetVars == <<faults, redeliveries, expiries>>
siteVars == <<links, maxDepth>>
crawlVars == <<siteVars, frontier, slot, visited, historyVars, budgetVars>>

\* A crawl job: whose it is, where that crawl began, the page it is for and how
\* far from the seed that is.  This is the one handleCrawl writes.
SeedJob(s, u) == [session |-> s, seed |-> u, url |-> u, depth |-> 0]
Job == [session : Sessions, seed : URLs, url : URLs, depth : Nat]

ASSUME IdleAssumption == Idle \notin [job : Job, left : SUBSET URLs]

CrawlInit ==
    /\ \E s \in Sites : links = s.links /\ maxDepth = s.maxDepth
    /\ frontier = EmptyBag
    /\ slot = [w \in Slots |-> Idle]
    /\ visited = {}
    /\ submitted = {}
    /\ taken = {}
    /\ seen = {}
    /\ expanded = {}
    /\ interrupted = {}
    /\ dropped = {}
    /\ faults = 0
    /\ redeliveries = 0
    /\ expiries = 0

\* A failure the environment may still inject.
Fault == faults < MaxFaults /\ faults' = faults + 1

--------------------------------------------------------------------------------
\* The API writes the job of a new session (handleCrawl).
Submit(s, u) ==
    /\ frontier' = frontier (+) SetToBag({SeedJob(s, u)})
    /\ submitted' = submitted \union {SeedJob(s, u)}
    /\ UNCHANGED <<siteVars, slot, visited, taken, seen, expanded, interrupted,
                   dropped, budgetVars>>

--------------------------------------------------------------------------------
(* dispatchMessage.                                                        *)

Take(j) ==
    /\ frontier' = frontier (-) SetToBag({j})
    /\ taken' = taken \union {j}

\* SetNX set the key.
DispatchFresh(w, j) ==
    /\ slot[w] = Idle
    /\ j.url \notin visited
    /\ Take(j)
    /\ visited' = visited \union {j.url}
    /\ seen' = seen \union {j.url}
    /\ slot' = [slot EXCEPT ![w] = [job |-> j, left |-> links[j.url]]]
    /\ UNCHANGED <<siteVars, submitted, expanded, interrupted, dropped, budgetVars>>

\* Mutant: a duplicate goes back to the topic.
DispatchDuplicateRequeued(j) ==
    /\ j.url \in visited
    /\ taken' = taken \union {j}
    /\ UNCHANGED <<siteVars, frontier, slot, visited, submitted, seen, expanded,
                   interrupted, dropped, budgetVars>>

\* SetNX found the key: the job is skipped, whatever its session and depth.
DispatchDuplicate(j) ==
    /\ j.url \in visited
    /\ Take(j)
    /\ UNCHANGED <<siteVars, slot, visited, submitted, seen, expanded, interrupted,
                   dropped, budgetVars>>

\* SetNX failed, with or without effect: the message is let go of.
DispatchError(j, tookEffect) ==
    /\ Fault
    /\ Take(j)
    /\ dropped' = dropped \union {j.url}
    /\ IF tookEffect /\ j.url \notin visited
       THEN /\ visited' = visited \union {j.url}
            /\ seen' = seen \union {j.url}
            /\ interrupted' = interrupted \union {j.url}
       ELSE UNCHANGED <<visited, seen, interrupted>>
    /\ UNCHANGED <<siteVars, slot, submitted, expanded, redeliveries, expiries>>

--------------------------------------------------------------------------------
(* processJobAsync.                                                        *)

Free(w) == slot' = [slot EXCEPT ![w] = Idle]

\* handleJobWithRetry failed, before anything was published: a search is
\* expanded all the same, any other job is over.
HandleFails(w) ==
    /\ slot[w] # Idle
    /\ slot[w].left = links[slot[w].job.url]
    /\ slot[w].job.url \notin Searches
    /\ Fault
    /\ Free(w)
    /\ interrupted' = interrupted \union {slot[w].job.url}
    /\ UNCHANGED <<siteVars, frontier, visited, submitted, taken, seen, expanded, dropped,
                   redeliveries, expiries>>

\* Mutant: the limit compares after the depth was incremented.
AtLimitTooEarly(j) == maxDepth > 0 /\ j.depth + 1 >= maxDepth

\* Mutant: one level too many.
AtLimitTooLate(j) == maxDepth > 0 /\ j.depth > maxDepth

\* The check at the head of enqueueURLToFronter.
AtLimit(j) == maxDepth > 0 /\ j.depth >= maxDepth

\* The job enqueueURLToFronter writes for a link of job j.
Child(j, v) == [session |-> j.session, seed |-> j.seed, url |-> v, depth |-> j.depth + 1]

Enqueue(j, v) == IF AtLimit(j) THEN frontier ELSE frontier (+) SetToBag({Child(j, v)})

\* Mutant: the key of a link is set when its job is written.
PublishLinkMarked(w, v) ==
    /\ slot[w] # Idle
    /\ v \in slot[w].left
    /\ frontier' = Enqueue(slot[w].job, v)
    /\ visited' = visited \union {v}
    /\ seen' = seen \union {v}
    /\ slot' = [slot EXCEPT ![w].left = @ \ {v}]
    /\ UNCHANGED <<siteVars, submitted, taken, expanded, interrupted, dropped, budgetVars>>

\* The next link is published.  The model takes the links of a page in any order.
PublishLink(w, v) ==
    /\ slot[w] # Idle
    /\ v \in slot[w].left
    /\ frontier' = Enqueue(slot[w].job, v)
    /\ slot' = [slot EXCEPT ![w].left = @ \ {v}]
    /\ UNCHANGED <<siteVars, visited, historyVars, budgetVars>>

\* A write failed, although it may have been stored, or PUBLISH_TIMEOUT passed:
\* the rest of the links is given up.
PublishFails(w, v, stored) ==
    /\ slot[w] # Idle
    /\ v \in slot[w].left
    /\ Fault
    /\ frontier' = IF stored THEN Enqueue(slot[w].job, v) ELSE frontier
    /\ Free(w)
    /\ interrupted' = interrupted \union {slot[w].job.url}
    /\ UNCHANGED <<siteVars, visited, submitted, taken, seen, expanded, dropped,
                   redeliveries, expiries>>

\* All links are published.
Finish(w) ==
    /\ slot[w] # Idle
    /\ slot[w].left = {}
    /\ Free(w)
    /\ expanded' = expanded \union {slot[w].job}
    /\ UNCHANGED <<siteVars, frontier, visited, submitted, taken, seen, interrupted,
                   dropped, budgetVars>>

\* What the pods do by themselves while nothing fails.
WorkerStep ==
    \/ \E j \in BagToSet(frontier) :
         DispatchDuplicate(j) \/ \E w \in Slots : DispatchFresh(w, j)
    \/ \E w \in Slots :
         Finish(w) \/ \E v \in URLs : PublishLink(w, v)

--------------------------------------------------------------------------------
(* Failures.                                                               *)

\* The pod dies with the job.
Crash(w) ==
    /\ slot[w] # Idle
    /\ Fault
    /\ Free(w)
    /\ interrupted' = interrupted \union {slot[w].job.url}
    /\ UNCHANGED <<siteVars, frontier, visited, submitted, taken, seen, expanded, dropped,
                   redeliveries, expiries>>

\* A message that was not committed is delivered again, after a crash or a
\* rebalance.
Redeliver(j) ==
    /\ redeliveries < MaxRedeliveries
    /\ redeliveries' = redeliveries + 1
    /\ frontier' = frontier (+) SetToBag({j})
    /\ UNCHANGED <<siteVars, slot, visited, historyVars, faults, expiries>>

\* The TTL of a dedupe key runs out.
Expire(u) ==
    /\ u \in visited
    /\ expiries < MaxExpiries
    /\ expiries' = expiries + 1
    /\ visited' = visited \ {u}
    /\ UNCHANGED <<siteVars, frontier, slot, historyVars, faults, redeliveries>>

Failure ==
    \/ \E j \in BagToSet(frontier), tookEffect \in BOOLEAN : DispatchError(j, tookEffect)
    \/ \E w \in Slots : HandleFails(w) \/ Crash(w)
    \/ \E w \in Slots, v \in URLs, stored \in BOOLEAN : PublishFails(w, v, stored)
    \/ \E j \in taken : Redeliver(j)
    \/ \E u \in URLs : Expire(u)

CrawlNext ==
    \/ \E s \in Sessions, u \in URLs : Submit(s, u)
    \/ WorkerStep
    \/ Failure

CrawlSpec == CrawlInit /\ [][CrawlNext]_crawlVars

--------------------------------------------------------------------------------
(* Properties.                                                             *)

\* A chain of d links leads from page a to page b.
Linked(a, b, d) ==
    \E chain \in [0..d -> URLs] :
        /\ chain[0] = a
        /\ chain[d] = b
        /\ \A i \in 1..d : chain[i] \in links[chain[i - 1]]

\* Whatever failed, was repeated or expired: a job belongs to a crawl somebody
\* asked for, its page is as many links from the seed as its depth says, and
\* that is never more than MAX_DEPTH.
JobsAreWithinReach ==
    \A j \in BagToSet(frontier) \union taken :
        /\ SeedJob(j.session, j.seed) \in submitted
        /\ Linked(j.seed, j.url, j.depth)
        /\ maxDepth > 0 => j.depth <= maxDepth

\* A link is never forgotten: once the expansion of a page above the depth
\* limit has reached its end, each page it links to has been claimed by some
\* job, waits in the frontier, or is that of a message a failed SetNX let go of.
LinksAreKept ==
    \A j \in expanded : (maxDepth <= 0 \/ j.depth < maxDepth) =>
        links[j.url] \subseteq
            seen \union {k.url : k \in BagToSet(frontier)} \union dropped

\* Nothing to do for the workers.
Quiet == frontier = EmptyBag /\ \A w \in Slots : slot[w] = Idle

\* Order does not matter without a depth limit: when an undisturbed crawl comes
\* to rest, the pages crawled are exactly those reachable from the seeds,
\* whichever job reached them first and whichever session it belonged to.
RestMeansComplete ==
    (Quiet /\ maxDepth <= 0 /\ interrupted \union dropped = {}) =>
        {j.url : j \in expanded} =
            {u \in URLs : \E j \in submitted : \E d \in 0..Cardinality(URLs) :
                             Linked(j.url, u, d)}

\* With a depth limit the order decides how far a crawl gets: a page first reached
\* at the limit is not expanded again for a session that has it at depth 0.  What
\* every order leaves is closed: when an undisturbed crawl comes to rest, the page
\* of every seed was crawled, by whichever session, and so was every page that a
\* job crawled above the limit links to.
LimitedRestIsClosed ==
    (Quiet /\ interrupted \union dropped = {}) =>
        LET crawled == {j.url : j \in expanded}
        IN  /\ \A j \in submitted : j.url \in crawled
            /\ \A j \in expanded :
                  (maxDepth <= 0 \/ j.depth < maxDepth) => links[j.url] \subseteq crawled
================================================================================
