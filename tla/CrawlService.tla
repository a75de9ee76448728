------------------------------ MODULE CrawlService ------------------------------
(***************************************************************************)
(* The crawl service: the API puts a job into the frontier topic for each  *)
(* request, the worker pods crawl from there.  Api and Crawl share the     *)
(* topic; everything else belongs to one of them.                          *)
(***************************************************************************)
EXTENDS Api, Crawl

CONSTANT MaxDisturbances    \* bound: failures, repetitions and expiries in all

ASSUME ServiceAssumption ==
    /\ MaxDisturbances \in Nat
    /\ Sessions = Ticks
    /\ Searches = {u \in URLs : isSearchURL(u)}
    /\ \A t \in DOMAIN PageOf : t # <<>> /\ normalizeSeedURL(t) \in URLs
    /\ NoStatus \notin [seed : URLs]

\* The texts clients send are understood: each is turned into the page its
\* client means.  normalizeSeedURL does not do that for every text (a URL with a
\* query gets its suffix behind the query), so this is no assumption.
SpellingsAgree == \A t \in DOMAIN PageOf : normalizeSeedURL(t) = PageOf[t]

workerVars == <<links, maxDepth, slot, visited, taken, seen, expanded, interrupted,
                dropped, faults, redeliveries, expiries>>
vars == <<apiVars, workerVars>>

Init == ApiInit /\ CrawlInit

ClientStep == (\E r \in Requests : ApiStep(r)) /\ UNCHANGED workerVars
PodStep == WorkerStep /\ UNCHANGED ownVars

Disturbance ==
    /\ \/ (ExpireStatus \/ \E r \in Requests : ApiFailure(r)) /\ UNCHANGED workerVars
       \/ Failure /\ UNCHANGED ownVars
    /\ apiFaults' + statusExpiries' + faults' + redeliveries' + expiries' <= MaxDisturbances

Next == ClientStep \/ PodStep \/ Disturbance

\* As long as some goroutine of the API, of the load generator or of a worker
\* pod can run, one of them does.  Nothing is assumed of failures and of TTLs.
Spec == Init /\ [][Next]_vars /\ WF_vars(ClientStep \/ PodStep)

--------------------------------------------------------------------------------
(* Properties.                                                              *)

\* "Accepted" is a promise across both parts: the page a client named, however
\* it spelled it, has been claimed by a worker, waits in the topic, or is that
\* of a message a failed SetNX let go of.
AcceptedIsKept ==
    \A r \in Requests : client[r] = "accepted" =>
        Page(r) \in seen \union dropped \union {j.url : j \in BagToSet(frontier)}

\* The service comes to rest: links that lead back, pages found twice and
\* messages delivered twice do not keep the workers busy for ever, with or
\* without a depth limit, and each goroutine of the load generator gets a reply
\* or gives up, even if the reply is lost.
ServiceRests ==
    <>[](Quiet /\ \A r \in Requests : client[r] \notin {Waiting, "lost"})
================================================================================
