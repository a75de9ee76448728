-------------------------- MODULE CrawlServiceProofs --------------------------
(***************************************************************************)
(* Proofs about the crawl service, for any number of requests, clock       *)
(* readings and pages.  The composition is shown to be a behaviour of      *)
(* Crawl, so what CrawlProofs says of the frontier holds in the service;   *)
(* what the API keeps is an invariant of its own on top of that.           *)
(***************************************************************************)
EXTENDS CrawlService, CrawlProofs, SequenceTheorems

--------------------------------------------------------------------------------
(* The inductive invariant of the API.                                     *)

ApiTypeOK ==
    /\ request \in Inputs
    /\ handler \in [Requests -> {"received", "persist", "done"}]
    /\ client \in [Requests -> {Waiting, "bad request", "bad gateway", "accepted", "lost", "error"}]
    /\ status \in [Ticks -> {NoStatus} \union [seed : URLs]]
    /\ statusExpiries \in Nat

\* A record is written only after the job it is for.
RecordInv == \A s \in Ticks : status[s] # NoStatus => SeedJob(s, status[s].seed) \in submitted

\* The handler that goes on to the status store has written its job; one that
\* answered "accepted" has also returned.
HandlerInv ==
    \A r \in Requests :
        /\ handler[r] = "persist" => HasSeed(r) /\ NewJob(r) \in submitted
        /\ client[r] = "accepted" =>
               handler[r] = "done" /\ HasSeed(r) /\ NewJob(r) \in submitted

Shared(r) == \E q \in Requests \ {r} : request[q].tick = request[r].tick

\* The record an accepted client will read.
OwnRecord(r) ==
    (client[r] = "accepted" /\ ~Shared(r) /\ statusExpiries = 0) =>
        status[Session(r)] = [seed |-> SeedURL(r)]
OwnRecordInv == \A r \in Requests : OwnRecord(r)

ApiInv ==
    /\ ApiTypeOK
    /\ RecordInv
    /\ HandlerInv
    /\ OwnRecordInv

--------------------------------------------------------------------------------
\* What the constants say of a request.
LEMMA RequestFacts ==
    ASSUME request \in Inputs, NEW r \in Requests
    PROVE  /\ Session(r) \in Ticks /\ Session(r) = request[r].tick
           /\ HasSeed(r) => request[r].text \in DOMAIN PageOf
           /\ HasSeed(r) => SeedURL(r) \in URLs
           /\ NewJob(r) = SeedJob(Session(r), SeedURL(r))
<1>1. request[r] \in [text : DOMAIN PageOf \union {<<>>}, tick : 0..MaxClock]
  BY ApiAssumption
<1>2. HasSeed(r) => request[r].text \in DOMAIN PageOf
  BY <1>1 DEF HasSeed
<1>3. HasSeed(r) => SeedURL(r) \in URLs
  BY <1>2, ServiceAssumption DEF SeedURL
<1>4. Session(r) \in Ticks /\ Session(r) = request[r].tick
  BY <1>1 DEF Session, newSessionID, Ticks
<1>5. NewJob(r) = SeedJob(Session(r), SeedURL(r))
  BY DEF NewJob, SeedJob
<1> QED BY <1>2, <1>3, <1>4, <1>5

\* The invariant holds before the first request.
LEMMA ApiInitInv == Init => ApiInv
<1> SUFFICES ASSUME Init PROVE ApiInv
  OBVIOUS
<1>1. ApiTypeOK
  BY DEF Init, ApiInit, ApiTypeOK, Waiting
<1>2. RecordInv
  BY DEF Init, ApiInit, RecordInv
<1>3. HandlerInv /\ OwnRecordInv
  BY DEF Init, ApiInit, HandlerInv, OwnRecordInv, OwnRecord, Waiting
<1> QED BY <1>1, <1>2, <1>3 DEF ApiInv

\* A step of the handler or the client of request r, as the others see it.
LEMMA RequestStep ==
    ASSUME ApiInv, NEW r \in Requests, ApiTypeOK',
           UNCHANGED <<request, statusExpiries>>, submitted \subseteq submitted',
           \A q \in Requests \ {r} : handler'[q] = handler[q] /\ client'[q] = client[q],
           handler'[r] = "persist" => HasSeed(r) /\ NewJob(r) \in submitted',
           client'[r] = "accepted" => /\ handler'[r] = "done" /\ HasSeed(r)
                                      /\ NewJob(r) \in submitted'
                                      /\ status'[Session(r)] = [seed |-> SeedURL(r)],
           \A s \in Ticks : \/ status'[s] = status[s]
                            \/ /\ s = Session(r) /\ HasSeed(r) /\ NewJob(r) \in submitted'
                               /\ status'[s] = [seed |-> SeedURL(r)]
    PROVE  ApiInv'
<1>1. request \in Inputs
  BY DEF ApiInv, ApiTypeOK
<1>2. \A q \in Requests : /\ (HasSeed(q))' <=> HasSeed(q)
                          /\ (NewJob(q))' = NewJob(q)
                          /\ (Session(q))' = Session(q)
                          /\ (SeedURL(q))' = SeedURL(q)
                          /\ (Shared(q))' <=> Shared(q)
  BY DEF HasSeed, NewJob, Session, SeedURL, Shared
<1>3. RecordInv'
  <2> SUFFICES ASSUME NEW s \in Ticks, status'[s] # NoStatus
               PROVE  SeedJob(s, status'[s].seed) \in submitted'
    BY DEF RecordInv, SeedJob
  <2>1. CASE status'[s] = status[s]
    BY <2>1 DEF ApiInv, RecordInv
  <2>2. CASE s = Session(r) /\ NewJob(r) \in submitted' /\ status'[s] = [seed |-> SeedURL(r)]
    <3>1. NewJob(r) = SeedJob(s, status'[s].seed)
      BY <1>1, <2>2, RequestFacts
    <3> QED BY <2>2, <3>1
  <2> QED BY <2>1, <2>2
<1>4. HandlerInv'
  <2> SUFFICES ASSUME NEW q \in Requests
               PROVE  /\ handler'[q] = "persist" => HasSeed(q) /\ NewJob(q) \in submitted'
                      /\ client'[q] = "accepted" =>
                             handler'[q] = "done" /\ HasSeed(q) /\ NewJob(q) \in submitted'
    BY <1>2 DEF HandlerInv
  <2>1. CASE q = r
    BY <2>1
  <2>2. CASE q # r
    BY <2>2 DEF ApiInv, HandlerInv
  <2> QED BY <2>1, <2>2
<1>5. OwnRecordInv'
  <2> SUFFICES ASSUME NEW q \in Requests, client'[q] = "accepted", ~Shared(q), statusExpiries = 0
               PROVE  status'[Session(q)] = [seed |-> SeedURL(q)]
    BY <1>2 DEF OwnRecordInv, OwnRecord
  <2>1. CASE q = r
    BY <2>1
  <2>2. CASE q # r
    <3>1. status[Session(q)] = [seed |-> SeedURL(q)]
      BY <2>2 DEF ApiInv, OwnRecordInv, OwnRecord
    <3>2. Session(q) # Session(r) /\ Session(q) \in Ticks
      BY <1>1, <2>2, RequestFacts DEF Shared
    <3> QED BY <3>1, <3>2
  <2> QED BY <2>1, <2>2
<1> QED BY <1>3, <1>4, <1>5 DEF ApiInv

\* What Reply does, given what the handler has achieved.
LEMMA ReplyFacts ==
    ASSUME ApiTypeOK, NEW r \in Requests,
           NEW answer \in {"bad request", "bad gateway", "accepted"}, Reply(r, answer)
    PROVE  /\ handler' \in [Requests -> {"received", "persist", "done"}]
           /\ client' \in [Requests -> {Waiting, "bad request", "bad gateway", "accepted",
                                       "lost", "error"}]
           /\ handler'[r] = "done"
           /\ client'[r] \in {client[r], answer}
           /\ \A q \in Requests \ {r} : handler'[q] = handler[q] /\ client'[q] = client[q]
BY DEF ApiTypeOK, Reply, Goes

\* What SetStatus does to the records.
LEMMA SetStatusFacts ==
    ASSUME ApiTypeOK, NEW r \in Requests, HasSeed(r), SetStatus(r)
    PROVE  /\ status' \in [Ticks -> {NoStatus} \union [seed : URLs]]
           /\ status'[Session(r)] = [seed |-> SeedURL(r)]
           /\ \A s \in Ticks : s # Session(r) => status'[s] = status[s]
<1>1. Session(r) \in Ticks /\ SeedURL(r) \in URLs
  BY RequestFacts DEF ApiTypeOK
<1> QED BY <1>1 DEF ApiTypeOK, SetStatus

\* A step of handleCrawl, its calls failing or not.
LEMMA HandlerInvStep ==
    ASSUME ApiInv, NEW r \in Requests,
           \/ Reject(r) \/ EnqueueJob(r) \/ PersistStatus(r)
           \/ \E stored \in BOOLEAN : EnqueueFails(r, stored) \/ PersistFails(r, stored)
    PROVE  ApiInv'
<1>0. ApiTypeOK
  BY DEF ApiInv
<1>1. CASE Reject(r)
  <2>1. /\ At(r, "received") /\ Reply(r, "bad request")
        /\ UNCHANGED <<submitted, request, status, statusExpiries>>
    BY <1>1 DEF Reject, topicVars
  <2>2. client[r] # "accepted"
    BY <2>1 DEF At, ApiInv, HandlerInv
  <2>3. ApiTypeOK'
    BY <1>0, <2>1, ReplyFacts DEF ApiTypeOK
  <2> QED BY <1>0, <2>1, <2>2, <2>3, ReplyFacts, RequestStep
<1>2. CASE EnqueueJob(r)
  <2>1. /\ At(r, "received") /\ HasSeed(r) /\ Goes(r, "persist")
        /\ submitted' = submitted \union {NewJob(r)}
        /\ UNCHANGED <<request, client, status, statusExpiries>>
    BY <1>2 DEF EnqueueJob, WriteJob
  <2>2. client[r] # "accepted"
    BY <2>1 DEF At, ApiInv, HandlerInv
  <2>3. /\ ApiTypeOK' /\ handler'[r] = "persist"
        /\ \A q \in Requests \ {r} : handler'[q] = handler[q]
    BY <1>0, <2>1 DEF ApiTypeOK, Goes
  <2> QED BY <2>1, <2>2, <2>3, RequestStep
<1>3. CASE PersistStatus(r)
  <2>1. /\ handler[r] = "persist" /\ SetStatus(r) /\ Reply(r, "accepted")
        /\ UNCHANGED <<submitted, request, statusExpiries>>
    BY <1>3 DEF PersistStatus, At, topicVars
  <2>2. HasSeed(r) /\ NewJob(r) \in submitted
    BY <2>1 DEF ApiInv, HandlerInv
  <2>3. ApiTypeOK'
    BY <1>0, <2>1, <2>2, ReplyFacts, SetStatusFacts DEF ApiTypeOK
  <2> QED BY <1>0, <2>1, <2>2, <2>3, ReplyFacts, SetStatusFacts, RequestStep
<1>4. ASSUME NEW stored \in BOOLEAN, EnqueueFails(r, stored) PROVE ApiInv'
  <2>1. /\ At(r, "received") /\ Reply(r, "bad gateway")
        /\ submitted \subseteq submitted'
        /\ UNCHANGED <<request, status, statusExpiries>>
    BY <1>4 DEF EnqueueFails, WriteJob, topicVars
  <2>2. client[r] # "accepted"
    BY <2>1 DEF At, ApiInv, HandlerInv
  <2>3. ApiTypeOK'
    BY <1>0, <2>1, ReplyFacts DEF ApiTypeOK
  <2> QED BY <1>0, <2>1, <2>2, <2>3, ReplyFacts, RequestStep
<1>5. ASSUME NEW stored \in BOOLEAN, PersistFails(r, stored) PROVE ApiInv'
  <2>1. /\ handler[r] = "persist" /\ Reply(r, "bad gateway")
        /\ SetStatus(r) \/ UNCHANGED status
        /\ UNCHANGED <<submitted, request, statusExpiries>>
    BY <1>5 DEF PersistFails, At, topicVars
  <2>2. HasSeed(r) /\ NewJob(r) \in submitted /\ client[r] # "accepted"
    BY <2>1 DEF ApiInv, HandlerInv
  <2>3. ApiTypeOK'
    BY <1>0, <2>1, <2>2, ReplyFacts, SetStatusFacts DEF ApiTypeOK
  <2>4. \A s \in Ticks : \/ status'[s] = status[s]
                         \/ s = Session(r) /\ status'[s] = [seed |-> SeedURL(r)]
    BY <1>0, <2>1, <2>2, SetStatusFacts
  <2> QED BY <1>0, <2>1, <2>2, <2>3, <2>4, ReplyFacts, RequestStep
<1> QED BY <1>1, <1>2, <1>3, <1>4, <1>5

\* The timeout of a client, or the loss of its answer.
LEMMA ClientInvStep ==
    ASSUME ApiInv, NEW r \in Requests, LoseConnection(r) \/ ClientTimeout(r)
    PROVE  ApiInv'
<1>1. /\ UNCHANGED <<submitted, request, handler, status, statusExpiries>>
      /\ \E e \in {"lost", "error"} : client' = [client EXCEPT ![r] = e]
  BY DEF LoseConnection, ClientTimeout, topicVars
<1>2. /\ ApiTypeOK' /\ client'[r] # "accepted"
      /\ \A q \in Requests \ {r} : client'[q] = client[q]
  BY <1>1 DEF ApiInv, ApiTypeOK
<1>3. handler[r] = "persist" => HasSeed(r) /\ NewJob(r) \in submitted
  BY DEF ApiInv, HandlerInv
<1> QED BY <1>1, <1>2, <1>3, RequestStep

\* The TTL of a status record runs out.
LEMMA ExpireInvStep ==
    ASSUME ApiInv, ExpireStatus
    PROVE  ApiInv'
<1>1. PICK s \in Ticks : status' = [status EXCEPT ![s] = NoStatus]
  BY DEF ExpireStatus
<1>2. UNCHANGED <<submitted, request, handler, client>>
  BY DEF ExpireStatus, topicVars
<1>3. ApiTypeOK' /\ statusExpiries' # 0
  <2>1. statusExpiries \in Nat /\ statusExpiries' = statusExpiries + 1
    BY DEF ExpireStatus, ApiInv, ApiTypeOK
  <2>2. statusExpiries' \in Nat /\ statusExpiries' # 0
    BY <2>1
  <2>3. status' \in [Ticks -> {NoStatus} \union [seed : URLs]]
    BY <1>1 DEF ApiInv, ApiTypeOK
  <2> QED BY <1>2, <2>2, <2>3 DEF ApiInv, ApiTypeOK
<1>4. \A x \in Ticks : status'[x] \in {NoStatus, status[x]}
  BY <1>1 DEF ApiInv, ApiTypeOK
<1>5. RecordInv'
  BY <1>2, <1>4 DEF ApiInv, RecordInv, SeedJob
<1>6. HandlerInv'
  BY <1>2 DEF ApiInv, HandlerInv, HasSeed, NewJob, Session, SeedURL
<1>7. OwnRecordInv'
  BY <1>3 DEF OwnRecordInv, OwnRecord
<1> QED BY <1>3, <1>5, <1>6, <1>7 DEF ApiInv

\* Every step of the service preserves the invariant of the API.
LEMMA ApiInvStep ==
    ASSUME ApiInv, [Next]_vars
    PROVE  ApiInv'
<1>1. CASE ClientStep
  BY <1>1, HandlerInvStep, ClientInvStep DEF ClientStep, ApiStep
<1>2. CASE UNCHANGED ownVars /\ UNCHANGED submitted
  BY <1>2 DEF ownVars, ApiInv, ApiTypeOK, RecordInv, HandlerInv, OwnRecordInv, OwnRecord, Shared,
              HasSeed, NewJob, Session, SeedURL, SeedJob
<1>3. WorkerStep \/ Failure => UNCHANGED submitted
  BY DEF WorkerStep, Failure, DispatchDuplicate, DispatchFresh, Finish, PublishLink, DispatchError,
         HandleFails, Crash, PublishFails, Redeliver, Expire, historyVars
<1>4. CASE PodStep
  BY <1>2, <1>3, <1>4 DEF PodStep
<1>5. CASE Disturbance
  <2>1. CASE ExpireStatus
    BY <2>1, ExpireInvStep
  <2>2. CASE \E r \in Requests : ApiFailure(r)
    BY <2>2, HandlerInvStep, ClientInvStep DEF ApiFailure
  <2>3. CASE Failure /\ UNCHANGED ownVars
    BY <1>2, <1>3, <2>3
  <2> QED BY <1>5, <2>1, <2>2, <2>3 DEF Disturbance
<1>6. CASE UNCHANGED vars
  BY <1>2, <1>6 DEF vars, apiVars, topicVars
<1> QED BY <1>1, <1>4, <1>5, <1>6 DEF Next

--------------------------------------------------------------------------------
(* The theorems.                                                           *)

\* Whatever interleaving of requests, failed calls, lost replies and expiries: the
\* invariant of handleCrawl and of the status records holds.
THEOREM ServiceInvariant == Spec => []ApiInv
BY ApiInitInv, ApiInvStep, PTL DEF Spec

\* Whatever the API does is, for the workers, a submission or nothing.
LEMMA CrawlStep ==
    ASSUME ApiInv, [Next]_vars
    PROVE  [CrawlNext]_crawlVars
<1>1. ASSUME NEW r \in Requests, HasSeed(r), WriteJob(r), UNCHANGED workerVars
      PROVE  CrawlNext
  <2>1. /\ Session(r) \in Sessions /\ SeedURL(r) \in URLs
        /\ NewJob(r) = SeedJob(Session(r), SeedURL(r))
    BY <1>1, RequestFacts, ServiceAssumption DEF ApiInv, ApiTypeOK
  <2>2. Submit(Session(r), SeedURL(r))
    BY <1>1, <2>1 DEF WriteJob, Submit, workerVars, siteVars, budgetVars
  <2> QED BY <2>1, <2>2 DEF CrawlNext
<1>2. UNCHANGED topicVars /\ UNCHANGED workerVars => UNCHANGED crawlVars
  BY DEF topicVars, workerVars, crawlVars, siteVars, historyVars, budgetVars
<1>3. CASE ClientStep
  BY <1>1, <1>2, <1>3 DEF ClientStep, ApiStep, Reject, EnqueueJob, PersistStatus, ClientTimeout
<1>4. CASE PodStep
  BY <1>4 DEF PodStep, CrawlNext
<1>5. CASE Disturbance
  <2>1. CASE ExpireStatus /\ UNCHANGED workerVars
    BY <1>2, <2>1 DEF ExpireStatus
  <2>2. CASE (\E r \in Requests : ApiFailure(r)) /\ UNCHANGED workerVars
    BY <1>1, <1>2, <2>2 DEF ApiFailure, LoseConnection, EnqueueFails, PersistFails
  <2>3. CASE Failure
    BY <2>3 DEF CrawlNext
  <2> QED BY <1>5, <2>1, <2>2, <2>3 DEF Disturbance
<1>6. CASE UNCHANGED vars
  BY <1>2, <1>6 DEF vars, apiVars
<1> QED BY <1>3, <1>4, <1>5, <1>6 DEF Next

\* API and workers together are a behaviour of Crawl: the job handleCrawl
\* writes, whatever the request's text and the order of the handlers, is one
\* Crawl allows to be submitted, and the API touches nothing else of it.
THEOREM ServiceUsesCrawl == Spec => CrawlSpec
<1>1. Init => CrawlInit
  BY DEF Init
<1>2. ApiInv /\ [Next]_vars => [CrawlNext]_crawlVars
  BY CrawlStep
<1> QED BY <1>1, <1>2, ServiceInvariant, PTL DEF Spec, CrawlSpec

\* What CrawlProofs shows of the workers therefore holds in the service.
THEOREM ServiceCrawls ==
    Spec => [](JobsAreWithinReach /\ LinksAreKept /\ RestMeansComplete /\ LimitedRestIsClosed)
BY ServiceUsesCrawl, CrawlReach, CrawlLinks, CrawlComplete, CrawlClosed, PTL

\* handleCrawl writes the job before the status record, so a record that can be
\* looked up belongs to a session whose job is or was in the topic.
THEOREM ServiceStatus == Spec => []StatusHasJob
<1>1. ApiInv => StatusHasJob
  <2> SUFFICES ASSUME ApiInv, NEW s \in Ticks, status[s] # NoStatus
               PROVE  \E j \in submitted : j.session = s /\ j.seed = status[s].seed
    BY DEF StatusHasJob, handleCrawlStatus, GetStatus
  <2>1. SeedJob(s, status[s].seed) \in submitted
    BY DEF ApiInv, RecordInv
  <2> QED BY <2>1 DEF SeedJob
<1> QED BY <1>1, ServiceInvariant, PTL

\* Where spellings agree, an accepted request's job is for the page it means.
LEMMA PageFacts ==
    ASSUME SpellingsAgree, ApiInv, NEW r \in Requests, HasSeed(r)
    PROVE  Page(r) = SeedURL(r)
<1>1. request[r].text \in DOMAIN PageOf
  BY RequestFacts DEF ApiInv, ApiTypeOK
<1> QED BY <1>1 DEF Page, SeedURL, SpellingsAgree

\* If normalizeSeedURL makes of each text the page meant: a client whose crawl
\* was accepted has its page claimed, waiting, or let go of by a
\* failed SetNX, however the steps of API and workers interleave.
THEOREM ServiceKeepsAccepted == SpellingsAgree => (Spec => []AcceptedIsKept)
<1> SUFFICES ASSUME SpellingsAgree PROVE Spec => []AcceptedIsKept
  OBVIOUS
<1>1. ApiInv /\ CInv => AcceptedIsKept
  <2> SUFFICES ASSUME ApiInv, CInv, NEW r \in Requests, client[r] = "accepted"
               PROVE  Page(r) \in seen \union dropped \union {j.url : j \in BagToSet(frontier)}
    BY DEF AcceptedIsKept
  <2>1. HasSeed(r) /\ NewJob(r) \in submitted
    BY DEF ApiInv, HandlerInv
  <2>2. Kept(NewJob(r).url) /\ NewJob(r).url = SeedURL(r)
    BY <2>1 DEF CInv, KeepInv, NewJob
  <2>3. Page(r) = SeedURL(r)
    BY <2>1, PageFacts
  <2> QED BY <2>2, <2>3 DEF Kept, Queued
<1> QED BY <1>1, ServiceInvariant, ServiceUsesCrawl, CrawlInvariant, PTL

\* Under the same hypothesis, a client whose crawl was accepted finds its own
\* seed under its session id, unless the id is shared or a record expired.
THEOREM ServiceFindsStatus == SpellingsAgree => (Spec => []AcceptedFindsOwnStatus)
<1> SUFFICES ASSUME SpellingsAgree PROVE Spec => []AcceptedFindsOwnStatus
  OBVIOUS
<1>1. ApiInv => AcceptedFindsOwnStatus
  <2> SUFFICES ASSUME ApiInv, NEW r \in Requests,
                      client[r] = "accepted", ~Shared(r), statusExpiries = 0
               PROVE  status[Session(r)] # NoStatus /\ status[Session(r)].seed = Page(r)
    BY DEF AcceptedFindsOwnStatus, Shared, handleCrawlStatus, GetStatus
  <2>1. status[Session(r)] = [seed |-> SeedURL(r)] /\ HasSeed(r)
    BY DEF ApiInv, OwnRecordInv, OwnRecord, HandlerInv
  <2>2. SeedURL(r) \in URLs
    BY <2>1, RequestFacts DEF ApiInv, ApiTypeOK
  <2>3. status[Session(r)] # NoStatus
    BY <2>1, <2>2, ServiceAssumption
  <2>4. Page(r) = SeedURL(r)
    BY <2>1, PageFacts
  <2> QED BY <2>1, <2>3, <2>4
<1> QED BY <1>1, ServiceInvariant, PTL

--------------------------------------------------------------------------------
(* What clients write.                                                     *)

Slashes(n) == [i \in 1..n |-> "/"]

\* The address of a page up to its suffix.
IsBody(body) ==
    body \in Seq(STRING) /\ body # <<>> /\ Head(body) \in Schemes
    /\ body[Len(body)] \notin {"/", ".json"}

\* t names page: it is words to search for, or the page's address with or without
\* its suffix, in the latter case with any number of slashes at the end.
Names(t, page) ==
    \/ Head(t) \notin Schemes /\ page = SearchURL(t)
    \/ \E body : /\ IsBody(body)
                 /\ page = body \o <<".json">>
                 /\ t = page \/ \E n \in Nat : t = body \o Slashes(n)

\* A text ends in a token if that is its last one.
LEMMA LastToken ==
    ASSUME NEW S, NEW u \in Seq(S), NEW c \in S
    PROVE  IsSuffix(<<c>>, u) <=> u # <<>> /\ u[Len(u)] = c
<1> DEFINE q == Reverse(<<c>>)
           r == Reverse(u)
<1>1. q \in Seq(S) /\ Len(q) = 1 /\ q[1] = c
  BY DEF Reverse
<1>2. r \in Seq(S) /\ Len(r) = Len(u) /\ Len(r) \in Nat
  BY DEF Reverse
<1>3. u # <<>> => r[1] = u[Len(u)] /\ Len(r) # 0
  BY DEF Reverse
<1>4. IsSuffix(<<c>>, u) <=> Len(q) <= Len(r) /\ SubSeq(q, 1, Len(q)) = SubSeq(r, 1, Len(q))
  BY DEF IsSuffix, IsPrefix
<1> HIDE DEF q, r
<1>5. CASE u = <<>>
  BY <1>1, <1>2, <1>4, <1>5
<1>6. CASE u # <<>>
  <2>1. /\ SubSeq(q, 1, 1) \in Seq(S) /\ Len(SubSeq(q, 1, 1)) = 1 /\ SubSeq(q, 1, 1)[1] = q[1]
        /\ SubSeq(r, 1, 1) \in Seq(S) /\ Len(SubSeq(r, 1, 1)) = 1 /\ SubSeq(r, 1, 1)[1] = r[1]
    BY <1>1, <1>2, <1>3, <1>6
  <2>2. SubSeq(q, 1, 1) = SubSeq(r, 1, 1) <=> q[1] = r[1]
    BY <2>1, SeqEqual
  <2> QED BY <1>1, <1>2, <1>3, <1>4, <1>6, <2>2
<1> QED BY <1>5, <1>6

\* Where t has other tokens than c.
Others(t, c) == {i \in 1..Len(t) : t[i] # c}

\* The last token that is not c is before those that are.
LEMMA LastOther ==
    ASSUME NEW S, NEW c, NEW t \in Seq(S), NEW m \in 1..Len(t), t[m] # c,
           \A i \in (m + 1)..Len(t) : t[i] = c
    PROVE  Others(t, c) # {} /\ Max(Others(t, c)) = m
<1> DEFINE I == Others(t, c)
<1>1. m \in I /\ m \in Int /\ \A i \in I : i \in Int /\ i <= m
  BY DEF Others
<1> HIDE DEF I
<1>2. Max(I) = CHOOSE x \in I : \A y \in I : x >= y
  BY DEF Max
<1>3. \E x \in I : \A y \in I : x >= y
  <2>1. \A y \in I : m >= y
    BY <1>1
  <2> QED BY <1>1, <2>1
<1> DEFINE M == Max(I)
<1>4. M \in I /\ \A y \in I : M >= y
  BY <1>2, <1>3
<1> HIDE DEF M
<1>5. M \in Int /\ M <= m /\ M >= m
  BY <1>1, <1>4
<1>6. M = m
  BY <1>1, <1>5
<1> QED BY <1>1, <1>6 DEF M, I

\* t is body with n tokens c behind it.
IsTrailed(t, body, c, n) == t = body \o [i \in 1..n |-> c]

\* What that makes of t.
LEMMA Trailing ==
    ASSUME NEW S, NEW c \in S, NEW body \in Seq(S), body # <<>>, NEW n \in Nat, NEW t,
           IsTrailed(t, body, c, n)
    PROVE  /\ t \in Seq(S) /\ Len(body) \in 1..Len(t) /\ Head(t) = Head(body)
           /\ \A i \in 1..Len(body) : t[i] = body[i]
           /\ \A i \in (Len(body) + 1)..Len(t) : t[i] = c
           /\ t[Len(t)] \in {body[Len(body)], c}
           /\ SubSeq(t, 1, Len(body)) = body
<1> DEFINE s == [i \in 1..n |-> c]
           m == Len(body)
<1>1. s \in Seq(S) /\ Len(s) = n /\ \A i \in 1..n : s[i] = c
  OBVIOUS
<1>2. m \in Nat \ {0}
  OBVIOUS
<1> HIDE DEF s
<1>3. t \in Seq(S) /\ Len(t) = m + n
  BY <1>1 DEF s, IsTrailed
<1>4. \A i \in 1..(m + n) : t[i] = IF i <= m THEN body[i] ELSE s[i - m]
  BY <1>1, ConcatProperties DEF s, IsTrailed
<1>5. \A i \in 1..m : t[i] = body[i]
  BY <1>2, <1>4
<1>6. ASSUME NEW i \in (m + 1)..(m + n) PROVE t[i] = c
  <2>1. i - m \in 1..n /\ i \in 1..(m + n) /\ ~(i <= m)
    BY <1>2
  <2> QED BY <1>1, <1>4, <2>1
<1>7. t[Len(t)] \in {body[m], c}
  <2>1. CASE n = 0
    BY <1>2, <1>3, <1>5, <2>1
  <2>2. CASE n # 0
    <3>1. m + n \in (m + 1)..(m + n)
      BY <1>2, <2>2
    <3> QED BY <1>3, <1>6, <3>1
  <2> QED BY <2>1, <2>2
<1>8. Head(t) = Head(body)
  <2>1. t[1] = body[1] /\ t # <<>>
    BY <1>2, <1>3, <1>5
  <2> QED BY <1>3, <2>1
<1>9. SubSeq(t, 1, m) = body
  <2>1. SubSeq(t, 1, m) \in Seq(S) /\ Len(SubSeq(t, 1, m)) = m
    BY <1>2, <1>3
  <2>2. \A i \in 1..m : SubSeq(t, 1, m)[i] = body[i]
    BY <1>2, <1>3, <1>5
  <2> QED BY <2>1, <2>2, SeqEqual
<1> QED BY <1>2, <1>3, <1>5, <1>6, <1>7, <1>8, <1>9

\* What EnsureJSONURL makes of a text that ends in the suffix, and of one that ends
\* in slashes.
LEMMA Ensured ==
    ASSUME NEW body, IsBody(body), NEW t
    PROVE  /\ t = body \o <<".json">> => Head(t) \in Schemes /\ EnsureJSONURL(t) = t
           /\ \A n \in Nat : t = body \o Slashes(n) =>
                 Head(t) \in Schemes /\ EnsureJSONURL(t) = body \o <<".json">>
<1> DEFINE slash == "/"
           json == ".json"
           T == STRING \union {"/", ".json"}
           m == Len(body)
<1>1. /\ body \in Seq(T) /\ body # <<>> /\ Head(body) \in Schemes
      /\ body[m] # slash /\ body[m] # json
  <2>1. Seq(STRING) \subseteq Seq(T)
    BY SeqMonotonic
  <2> QED BY <2>1 DEF IsBody
<1>2. slash \in T /\ json \in T /\ slash # json
  OBVIOUS
<1>3. ASSUME NEW n \in Nat, IsTrailed(t, body, slash, n)
      PROVE  Head(t) \in Schemes /\ EnsureJSONURL(t) = body \o <<json>>
  <2> DEFINE I == Others(t, slash)
  <2>1. SelectLastInSeq(t, LAMBDA x : x # slash) = IF I # {} THEN Max(I) ELSE 0
    BY DEF SelectLastInSeq, Others
  <2>2. TrimSlashes(t) = SubSeq(t, 1, IF I # {} THEN Max(I) ELSE 0)
    BY <2>1 DEF TrimSlashes
  <2> HIDE DEF slash, json, T
  <2>3. /\ t \in Seq(T) /\ m \in 1..Len(t) /\ Head(t) = Head(body)
        /\ \A i \in 1..m : t[i] = body[i]
        /\ \A i \in (m + 1)..Len(t) : t[i] = slash
        /\ t[Len(t)] \in {body[m], slash}
        /\ SubSeq(t, 1, m) = body
    BY <1>1, <1>2, <1>3, Trailing
  <2>4. t[m] # slash
    BY <1>1, <2>3
  <2>5. I # {} /\ Max(I) = m
    <3> HIDE DEF m
    <3> QED BY <2>3, <2>4, LastOther
  <2>6. TrimSlashes(t) = body
    BY <2>2, <2>3, <2>5
  <2>7. ~IsSuffix(<<json>>, t)
    BY <1>1, <1>2, <2>3, LastToken
  <2> QED BY <1>1, <2>3, <2>6, <2>7 DEF EnsureJSONURL, json
<1>4. ASSUME t = body \o <<json>> PROVE Head(t) \in Schemes /\ EnsureJSONURL(t) = t
  <2> HIDE DEF slash, json, T
  <2>1. t \in Seq(T) /\ t # <<>> /\ t[Len(t)] = json /\ Head(t) = Head(body)
    BY <1>1, <1>2, <1>4
  <2>2. IsSuffix(<<json>>, t)
    BY <1>2, <2>1, LastToken
  <2> QED BY <1>1, <2>1, <2>2 DEF EnsureJSONURL, json
<1> QED BY <1>3, <1>4 DEF Slashes, IsTrailed

\* A condition on what clients write under which all of them are understood by
\* normalizeSeedURL: slashes behind an address and its suffix make no difference,
\* and other texts are words to search for.
THEOREM WellSpelled == (\A t \in DOMAIN PageOf : Names(t, PageOf[t])) => SpellingsAgree
<1> SUFFICES ASSUME NEW t \in DOMAIN PageOf, Names(t, PageOf[t])
             PROVE  normalizeSeedURL(t) = PageOf[t]
  BY DEF SpellingsAgree
<1> DEFINE page == PageOf[t]
<1>1. CASE Head(t) \notin Schemes /\ page = SearchURL(t)
  BY <1>1 DEF normalizeSeedURL
<1>2. ASSUME NEW body, IsBody(body), page = body \o <<".json">>,
             t = page \/ \E n \in Nat : t = body \o Slashes(n)
      PROVE  normalizeSeedURL(t) = page
  <2> HIDE DEF page
  <2>1. Head(t) \in Schemes /\ EnsureJSONURL(t) = page
    BY <1>2, Ensured
  <2> QED BY <2>1 DEF normalizeSeedURL
<1> QED BY <1>1, <1>2 DEF Names
================================================================================
