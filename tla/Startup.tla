--------------------------------- MODULE Startup ---------------------------------
(***************************************************************************)
(* The start of a worker process: main, newWorker, buildHTTPClient and     *)
(* selectProxyFromPool (cmd/worker/main.go) with the helpers that read the *)
(* environment (common/helper.go).                                         *)
(*                                                                         *)
(* The metrics server is up from the first step on and reads               *)
(* metricsProxyURL without synchronisation while main writes it.           *)
(* Durations are in seconds.                                               *)
(***************************************************************************)
EXTENDS OpenLibrary, FiniteSets

CONSTANTS
    Environments,   \* bound: the environments the process may be started in
    IntMax,         \* largest int; the width matters, not the value
    HashMax,        \* largest hash of a hostname
    MaxChan,        \* largest capacity make(chan) grants
    BadURLs,        \* proxies that url.Parse refuses
    NoRules         \* robots is nil

ASSUME WidthAssumption ==
    /\ IntMax \in Nat /\ MaxChan \in 10..IntMax
    /\ HashMax \in Nat /\ HashMax % 2 = 1

\* A value is unset (or empty), junk, or a number.  The pool is split at commas.
ASSUME EnvironmentAssumption ==
    \A e \in Environments :
        /\ \A v \in {e.jobs, e.jobTimeout, e.publishTimeout} : v.kind = "number" => v.n \in Int
        /\ e.proxyURL \in STRING /\ e.pool \in Seq(STRING)
        /\ e.hash \in 0..HashMax /\ e.narrow \in BOOLEAN
        /\ e.file \in Seq(Line) /\ e.pages \subseteq Seq(STRING)

VARIABLES
    env,        \* the environment, and what the process will meet
    pc,         \* where main is
    capacity,   \* of commitCh
    label,      \* metricsProxyURL
    proxy,      \* the proxy of the HTTP client; "" is a direct connection
    rules,      \* the worker's robots
    limits      \* what newWorker makes of its arguments

startVars == <<env, pc, capacity, label, proxy, rules, limits>>

--------------------------------------------------------------------------------
(* common/helper.go.                                                        *)

GetEnv(value, fallback) == IF value.kind = "unset" THEN fallback ELSE value
Number(n) == [kind |-> "number", n |-> n]

ParseDuration(value, fallback) == IF value.kind = "number" THEN value.n ELSE fallback

\* A number that is no int is an error too.
ParseInt(value, fallback) ==
    IF value.kind = "number" /\ value.n \in -(IntMax + 1)..IntMax THEN value.n ELSE fallback

concurrentJobs == ParseInt(GetEnv(env.jobs, Number(5)), 5)
jobTimeout == ParseDuration(GetEnv(env.jobTimeout, Number(300)), 300)
publishTimeout == ParseDuration(GetEnv(env.publishTimeout, Number(90)), 90)

--------------------------------------------------------------------------------
(* selectProxyFromPool.                                                     *)

\* int(h.Sum32()): where an int is as wide as the hash, its upper half is negative.
AsInt(hash) == IF env.narrow /\ hash > HashMax \div 2 THEN hash - (HashMax + 1) ELSE hash

\* Go's remainder has the sign of the dividend; idx is made positive again.
Index(hash, n) == LET a == AsInt(hash) IN IF a < 0 THEN (-a) % n ELSE a % n

\* The entries of the pool that name a proxy.
Valid(pool) == {i \in DOMAIN pool : pool[i] # ""}

\* Mutant: the index of a valid entry is used on the pool as it was split.
selectProxyFromPoolUnfiltered(pool, hash) ==
    IF Valid(pool) = {} THEN "" ELSE pool[Index(hash, Cardinality(Valid(pool))) + 1]

\* The entry with as many valid ones before it as the index says.
selectProxyFromPool(pool, hash) ==
    IF Valid(pool) = {} THEN ""
    ELSE pool[CHOOSE i \in Valid(pool) :
                Cardinality({j \in Valid(pool) : j < i}) = Index(hash, Cardinality(Valid(pool)))]

proxyURL == IF env.proxyURL # "" THEN env.proxyURL ELSE selectProxyFromPool(env.pool, env.hash)

--------------------------------------------------------------------------------
(* newWorker.                                                               *)

CappedPublish(job, publish) ==
    IF publish < job THEN publish ELSE IF job - 60 < 30 THEN 30 ELSE job - 60

Clamped ==
    LET job == IF jobTimeout <= 0 THEN 300 ELSE jobTimeout
        publish == IF publishTimeout <= 0 THEN 90 ELSE publishTimeout
    IN  [slots |-> IF concurrentJobs < 1 THEN 1 ELSE concurrentJobs,
         job |-> job, publish |-> CappedPublish(job, publish)]

--------------------------------------------------------------------------------
(* main.                                                                    *)

NoLimits == [slots |-> 0, job |-> 0, publish |-> 0]

StartInit ==
    /\ env \in Environments
    /\ pc = "metrics"
    /\ capacity = 0
    /\ label = ""
    /\ proxy = ""
    /\ rules = NoRules
    /\ limits = NoLimits

StartMetricsServer ==
    /\ pc = "metrics"
    /\ pc' = "channel"
    /\ UNCHANGED <<env, capacity, label, proxy, rules, limits>>

\* The product wraps around.
Doubled(n) == LET w == 2 * (IntMax + 1) IN ((2 * n + IntMax + 1) % w) - (IntMax + 1)

\* Mutant: the channel gets the number of jobs.
ChannelSizeSingle == concurrentJobs

\* The value is doubled before newWorker puts it right.
ChannelSize == Doubled(concurrentJobs)

MakeCommitChannel ==
    /\ pc = "channel"
    /\ IF ChannelSize \in 0..MaxChan
       THEN pc' = "client" /\ capacity' = ChannelSize
       ELSE pc' = "panicked" /\ UNCHANGED capacity
    /\ UNCHANGED <<env, label, proxy, rules, limits>>

\* buildHTTPClient assigns metricsProxyURL, two words, with no lock ...
BeginLabel ==
    /\ pc = "client"
    /\ pc' = "label"
    /\ UNCHANGED <<env, capacity, label, proxy, rules, limits>>

\* Mutant: the label comes from PROXY_URL first, the transport from the pool.
BuildHTTPClientPoolFirst ==
    LET chosen == selectProxyFromPool(env.pool, env.hash)
    IN  /\ pc = "label"
        /\ label' = proxyURL
        /\ proxy' = IF chosen = "" THEN proxyURL ELSE chosen
        /\ pc' = IF env.respect THEN "robots" ELSE "worker"
        /\ UNCHANGED <<env, capacity, rules, limits>>

\* ... and then looks whether the URL is one.
BuildHTTPClient ==
    /\ pc = "label"
    /\ label' = proxyURL
    /\ proxy' = IF proxyURL \in BadURLs THEN "" ELSE proxyURL
    /\ pc' = IF env.respect THEN "robots" ELSE "worker"
    /\ UNCHANGED <<env, capacity, rules, limits>>

RobotsLoaded ==
    /\ pc = "robots"
    /\ rules' = ParseRobots(env.file)
    /\ pc' = "worker"
    /\ UNCHANGED <<env, capacity, label, proxy, limits>>

\* Mutant: without the file the worker does not go on.
RobotsFailRetried ==
    /\ pc = "robots"
    /\ UNCHANGED startVars

\* The fetch fails, or robotsCtx ends it after fifteen seconds.
RobotsFail ==
    /\ pc = "robots"
    /\ pc' = "worker"
    /\ UNCHANGED <<env, capacity, label, proxy, rules, limits>>

NewWorker ==
    /\ pc = "worker"
    /\ limits' = Clamped
    /\ pc' = "running"
    /\ UNCHANGED <<env, capacity, label, proxy, rules>>

MainStep ==
    StartMetricsServer \/ MakeCommitChannel \/ BeginLabel \/ BuildHTTPClient \/ RobotsFail
        \/ NewWorker

Running == pc = "running"

\* handleJob's question, for a URL it is about to fetch.
Permitted(u) == rules = NoRules \/ Allowed(rules, PathFromURL(u))

--------------------------------------------------------------------------------
(* Properties.                                                              *)

\* A worker that comes up can work, whatever its settings say.  It has a slot and
\* a commit channel with room for two completions per slot, except that the
\* channel is made before CONCURRENT_JOBS is put right: for 0 it is a rendezvous,
\* and for values so far below that doubling wraps around it may have any size.
\* Other negative values do not come up at all.  Both phases of a job have time
\* to run, and the publish phase ends before the job does unless the job has half
\* a minute or less.
LimitsAreUsable ==
    Running => /\ limits.slots >= 1
               /\ \/ capacity = 2 * limits.slots
                  \/ concurrentJobs = 0 /\ capacity = 0
                  \/ 2 * concurrentJobs < -(IntMax + 1)
               /\ limits.job > 0
               /\ limits.publish > 0
               /\ limits.job > 30 => limits.publish < limits.job

\* A pod takes its proxy from the pool if there is one, on a machine of either
\* int width and for every hostname; empty entries of the pool are no proxies.
ProxyIsFromPool ==
    (Running /\ env.proxyURL = "" /\ \E i \in DOMAIN env.pool : env.pool[i] # "") =>
        \E i \in DOMAIN env.pool : label = env.pool[i] /\ label # ""

LastAgent(i) == SelectLastInSubSeq(env.file, 1, i - 1, LAMBDA l : l.kind = "agent")
\* A URL that does not parse has no path, and is treated as the root.
PathAsked(u) == IF PathFromURL(u) = <<>> THEN <<"/">> ELSE PathFromURL(u)
Forbids(i, u) ==
    /\ env.file[i].kind = "disallow" /\ env.file[i].path # <<>>
    /\ IsPrefix(normalizePath(env.file[i].path), PathAsked(u))

\* Agent line a is for us and the agent line before it, if there is one, is not: a
\* second line for us in a row clears the flag the first one set.
OpensOurBlock(a) ==
    /\ a # 0 /\ Matches(env.file[a])
    /\ LastAgent(a) = 0 \/ ~Matches(env.file[LastAgent(a)])

\* Once robots.txt is loaded, handleJob refuses every URL that a block of lines
\* for us forbids, whatever blocks, comments and other agents come before it,
\* unless the block follows right after another one for us or the scanner gave up
\* before it.  It is handleJob's question that is answered here: the second fetch
\* of a search, in expandSearch, asks nobody.
OurBlocksAreObeyed ==
    (Running /\ rules # NoRules) =>
        \A u \in env.pages : \A i \in Scanned(env.file) :
            (Forbids(i, u) /\ OpensOurBlock(LastAgent(i))) => ~Permitted(u)

\* A URL is only refused because of a line that follows an agent line for us.
OnlyOurBlocksForbid ==
    (Running /\ rules # NoRules) =>
        \A u \in env.pages : ~Permitted(u) =>
            \E i \in DOMAIN env.file :
                Forbids(i, u) /\ LastAgent(i) # 0 /\ Matches(env.file[LastAgent(i)])
================================================================================
