---------------------------------- MODULE Api ----------------------------------
(***************************************************************************)
(* The crawl API (cmd/api/main.go), its job producer                       *)
(* (internal/kafka/producer.go), the status store                          *)
(* (internal/store/redis_status_store.go) and its clients: the goroutines  *)
(* of the load generator (cmd/loadgen/main.go), one per seed.              *)
(*                                                                         *)
(* Each request is a handler goroutine of its own.  handleCrawl makes two  *)
(* calls, to Kafka and to Redis, under one deadline of five seconds; each  *)
(* can fail before or after it took effect.                                *)
(***************************************************************************)
EXTENDS Frontier, OpenLibrary, FiniteSets, Bags

CONSTANTS
    Requests,            \* the seeds of the load generator's config
    Inputs,              \* bound: what the requests may be
    PageOf,              \* the page a client means by a text
    MaxClock,            \* bound: readings of the clock, 0..MaxClock
    MaxApiFaults,        \* bound: failed calls and lost replies
    MaxStatusExpiries,   \* bound: status records whose TTL runs out
    NoStatus

ASSUME ApiAssumption ==
    /\ Inputs \subseteq
         [Requests -> [text : DOMAIN PageOf \union {<<>>}, tick : 0..MaxClock]]
    /\ MaxClock \in Nat /\ MaxApiFaults \in Nat /\ MaxStatusExpiries \in Nat

VARIABLES
    request,           \* the url parameter of each request
    handler,        \* the handler of each request
    client,         \* what each goroutine of the load generator has logged
    status,         \* Redis: the status record of each session
    apiFaults, statusExpiries

topicVars == <<frontier, submitted>>
ownVars == <<request, handler, client, status, apiFaults, statusExpiries>>
apiVars == <<topicVars, ownVars>>

Ticks == 0..MaxClock
Waiting == "waiting"

\* Mutant: session ids have the resolution of a second.
newSessionIDCoarse(now) == now \div 2

newSessionID(now) == now

\* What handleCrawl makes of a request: the session id is the time of day, which
\* two handlers may read at once.
Session(r) == newSessionID(request[r].tick)
SeedURL(r) == normalizeSeedURL(request[r].text)
NewJob(r) == [session |-> Session(r), seed |-> SeedURL(r), url |-> SeedURL(r), depth |-> 0]

ApiInit ==
    /\ request \in Inputs
    /\ handler = [r \in Requests |-> "received"]
    /\ client = [r \in Requests |-> Waiting]
    /\ status = [s \in Ticks |-> NoStatus]
    /\ apiFaults = 0
    /\ statusExpiries = 0

ApiFault == apiFaults < MaxApiFaults /\ apiFaults' = apiFaults + 1

\* A call of the handler fails: the callee is down or too slow, or the client
\* has gone and r.Context() is cancelled.
CallFails(r) == ApiFault \/ (client[r] = "lost" /\ UNCHANGED apiFaults)

At(r, step) == handler[r] = step
Goes(r, step) == handler' = [handler EXCEPT ![r] = step]

WriteJob(r) ==
    /\ frontier' = frontier (+) SetToBag({NewJob(r)})
    /\ submitted' = submitted \union {NewJob(r)}

--------------------------------------------------------------------------------
(* handleCrawl.                                                            *)

\* The handler returns, and the client logs the reply if it is still there.
Reply(r, answer) ==
    /\ Goes(r, "done")
    /\ client' = IF client[r] = Waiting THEN [client EXCEPT ![r] = answer] ELSE client

HasSeed(r) == request[r].text # <<>>

\* A request without a seed, or with another method than POST.
Reject(r) ==
    /\ At(r, "received") /\ ~HasSeed(r)
    /\ Reply(r, "bad request")
    /\ UNCHANGED <<topicVars, request, status, apiFaults, statusExpiries>>

EnqueueJob(r) ==
    /\ At(r, "received") /\ HasSeed(r)
    /\ WriteJob(r)
    /\ Goes(r, "persist")
    /\ UNCHANGED <<request, client, status, apiFaults, statusExpiries>>

SetStatus(r) == status' = [status EXCEPT ![Session(r)] = [seed |-> SeedURL(r)]]

\* Mutant: the error path saves the status too.
EnqueueFailsRecorded(r, stored) ==
    /\ At(r, "received") /\ HasSeed(r)
    /\ CallFails(r)
    /\ IF stored THEN WriteJob(r) ELSE UNCHANGED topicVars
    /\ SetStatus(r)
    /\ Reply(r, "bad gateway")
    /\ UNCHANGED <<request, statusExpiries>>

\* Mutant: an error of the producer is only logged.
EnqueueFailsIgnored(r, stored) ==
    /\ At(r, "received") /\ HasSeed(r)
    /\ CallFails(r)
    /\ IF stored THEN WriteJob(r) ELSE UNCHANGED topicVars
    /\ Goes(r, "persist")
    /\ UNCHANGED <<request, client, status, statusExpiries>>

\* The broker may have the job although the write is reported as failed.
EnqueueFails(r, stored) ==
    /\ At(r, "received") /\ HasSeed(r)
    /\ CallFails(r)
    /\ IF stored THEN WriteJob(r) ELSE UNCHANGED topicVars
    /\ Reply(r, "bad gateway")
    /\ UNCHANGED <<request, status, statusExpiries>>

PersistStatus(r) ==
    /\ At(r, "persist")
    /\ SetStatus(r)
    /\ Reply(r, "accepted")
    /\ UNCHANGED <<topicVars, request, apiFaults, statusExpiries>>

\* The job stays in the topic.
PersistFails(r, stored) ==
    /\ At(r, "persist")
    /\ CallFails(r)
    /\ IF stored THEN SetStatus(r) ELSE UNCHANGED status
    /\ Reply(r, "bad gateway")
    /\ UNCHANGED <<topicVars, request, statusExpiries>>

--------------------------------------------------------------------------------
(* submitSeed.                                                             *)

\* The connection breaks.  The handler goes on until a call of its fails.
LoseConnection(r) ==
    /\ client[r] = Waiting
    /\ ApiFault
    /\ client' = [client EXCEPT ![r] = "lost"]
    /\ UNCHANGED <<topicVars, request, handler, status, statusExpiries>>

\* Thirty seconds later the HTTP client notices.
ClientTimeout(r) ==
    /\ client[r] = "lost"
    /\ client' = [client EXCEPT ![r] = "error"]
    /\ UNCHANGED <<topicVars, request, handler, status, apiFaults, statusExpiries>>

--------------------------------------------------------------------------------
(* The environment.                                                        *)

ExpireStatus ==
    /\ statusExpiries < MaxStatusExpiries
    /\ statusExpiries' = statusExpiries + 1
    /\ \E s \in Ticks : /\ status[s] # NoStatus
                        /\ status' = [status EXCEPT ![s] = NoStatus]
    /\ UNCHANGED <<topicVars, request, handler, client, apiFaults>>

ApiStep(r) ==
    \/ Reject(r) \/ EnqueueJob(r) \/ PersistStatus(r) \/ ClientTimeout(r)

ApiFailure(r) ==
    \/ LoseConnection(r)
    \/ \E stored \in BOOLEAN : EnqueueFails(r, stored) \/ PersistFails(r, stored)

--------------------------------------------------------------------------------
GetStatus(s) == status[s]

\* What a lookup answers: the record, or "not found".
handleCrawlStatus(s) == GetStatus(s)

\* The page the client of request r means.
Page(r) == IF HasSeed(r) THEN PageOf[request[r].text] ELSE <<>>

\* Whoever finds a status record finds a session whose job is, or was, in the
\* frontier topic: no failure and no order of two requests leaves the record
\* of a crawl that was never enqueued.
StatusHasJob ==
    \A s \in Ticks : handleCrawlStatus(s) # NoStatus =>
        \E j \in submitted : j.session = s /\ j.seed = handleCrawlStatus(s).seed

\* A client that was told its crawl is queued reads back its own seed, as long
\* as the record has not expired and no other request came in the same tick of
\* the clock.
AcceptedFindsOwnStatus ==
    \A r \in Requests :
        LET shared == \E q \in Requests \ {r} : request[q].tick = request[r].tick
        IN  (client[r] = "accepted" /\ ~shared /\ statusExpiries = 0) =>
                /\ handleCrawlStatus(Session(r)) # NoStatus
                /\ handleCrawlStatus(Session(r)).seed = Page(r)
================================================================================
