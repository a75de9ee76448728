--------------------------- MODULE JobProcessProofs ----------------------------
(***************************************************************************)
(* Proofs about one job goroutine, for every configuration of retries,     *)
(* delays and depth, pages with any number of links and any number of      *)
(* failed writes.                                                          *)
(***************************************************************************)
EXTENDS JobProcess, FiniteSetTheorems, SequenceTheorems, TLAPS

--------------------------------------------------------------------------------
(* The inductive invariant.                                                *)

InHandler == step \in {"handle", "backoff"}

\* What the handler may have asked for so far, and in all.
HandlerRequests == IF job.allowed THEN Retries + 1 ELSE 0

\* In the handler every request belongs to an attempt that failed, and there
\* are no more of those than retries; only then may the expansion add one.
RequestInv ==
    /\ InHandler => /\ attempts <= Retries
                    /\ requests <= (IF job.allowed THEN attempts ELSE 0)
    /\ step \in {"dlq", "result", "expand"} => requests <= HandlerRequests
    /\ RequestsBounded

\* The delay about to be slept is positive, capped and no less than the last
\* one; a doubled delay that is not positive overflowed and is not slept.
BackoffInv ==
    /\ slept >= 0
    /\ RetryMaxDelay > 0 => slept <= RetryMaxDelay
    /\ delay > 0 => delay >= slept
    /\ step = "backoff" => delay > 0 /\ (RetryMaxDelay > 0 => delay <= RetryMaxDelay)

\* Past the DLQ step a failure is stored, or there is a reason why not.
ReportInv ==
    /\ InHandler => ~failed
    /\ failed /\ step # "dlq" /\ writeErrs = 0 /\ ~publishDone => inDLQ

\* pub holds the writes due among the first n of the expansion.
Holds(pub, n) ==
    /\ Len(pub) = Cardinality(DueUpTo(n))
    /\ \A j \in DueUpTo(n) : pub[Cardinality(DueUpTo(j))] = All[j]

\* The plan is the rest of the expansion after what has been dealt with.
Remaining(n) ==
    /\ Len(plan) = Len(All) - n
    /\ \A i \in 1..Len(plan) : plan[i] = All[n + i]

PlanInv ==
    /\ step \notin {"write", "released"} => published = <<>>
    /\ step = "write" => \E n \in 0..Len(All) : Holds(published, n) /\ Remaining(n)
    /\ step = "released" => \E n \in 0..Len(All) : Holds(published, n)

JInv ==
    /\ TypeOK
    /\ RequestInv
    /\ BackoffInv
    /\ ReportInv
    /\ PlanInv
--------------------------------------------------------------------------------
(* The operators.                                                          *)

\* Doubling a positive delay overflows to a number that is not slept, or is exact.
LEMMA WrapFacts ==
    ASSUME NEW d \in Durations, d > 0
    PROVE  /\ Wrap(2 * d) \in Durations
           /\ Wrap(2 * d) <= 0 \/ Wrap(2 * d) = 2 * d
<1> DEFINE h == 2^(Width - 1)
           n == 2^Width
<1>1. h \in Nat \ {0} /\ n = 2 * h
  BY WidthAssumption
<1>2. d \in 1..(h - 1)
  BY <1>1 DEF Durations
<1>3. Wrap(2 * d) = ((2 * d + h) % n) - h /\ Durations = -h..(h - 1)
  BY DEF Wrap, Durations
<1> HIDE DEF h, n
<1>4. ASSUME NEW x \in 0..(n - 1) PROVE x % n = x /\ (x + n) % n = x
  BY <1>1, <1>4
<1>5. CASE 2 * d < h
  <2>1. 2 * d + h \in 0..(n - 1)
    BY <1>1, <1>2, <1>5
  <2>2. (2 * d + h) % n = 2 * d + h
    BY <1>4, <2>1
  <2> QED BY <1>1, <1>2, <1>3, <1>5, <2>2
<1>6. CASE 2 * d >= h
  <2>1. 2 * d - h \in 0..(n - 1) /\ 2 * d + h = (2 * d - h) + n
    BY <1>1, <1>2, <1>6
  <2>2. (2 * d + h) % n = 2 * d - h
    BY <1>4, <2>1
  <2> QED BY <1>1, <1>2, <1>3, <1>6, <2>2
<1> QED BY <1>1, <1>2, <1>5, <1>6

\* The writes of one kind of link.
LEMMA PairsType ==
    ASSUME page \in Page, NEW kind \in LinkKinds
    PROVE  Pairs(kind) \in Seq(Write)
<1> DEFINE k == page.links[kind]
<1>1. k \in 0..MaxLinks /\ MaxLinks \in Nat
  BY BoundAssumption DEF Page
<1>2. \A j \in 1..(2 * k) : (j + 1) \div 2 \in 1..MaxLinks
  BY <1>1
<1>3. \A j \in 1..(2 * k) : Topic(kind, j) \in {"edges", "frontier"}
  BY DEF Topic
<1> DEFINE w(j) == [topic |-> Topic(kind, j), kind |-> kind, link |-> (j + 1) \div 2]
<1>4. \A j \in 1..(2 * k) : w(j) \in Write
  BY <1>2, <1>3 DEF Write
<1>5. Pairs(kind) = [j \in 1..(2 * k) |-> w(j)]
  BY DEF Pairs
<1>6. 2 * k \in Nat
  BY <1>1
<1> HIDE DEF k, w
<1> QED BY <1>4, <1>5, <1>6

\* Every expansion is a sequence of writes.
LEMMA ExpansionType ==
    ASSUME page \in Page, NEW type
    PROVE  Expansion(type) \in Seq(Write)
<1>1. \A kind \in LinkKinds : Pairs(kind) \in Seq(Write)
  BY PairsType
<1>2. /\ Pairs("author") \in Seq(Write) /\ Pairs("work") \in Seq(Write)
      /\ Pairs("subject") \in Seq(Write) /\ Pairs("doc") \in Seq(Write)
  BY <1>1 DEF LinkKinds
<1>3. NameSearch \in Seq(Write)
  <2>1. CASE page.links["name"] = 0
    BY <2>1 DEF NameSearch
  <2>2. CASE page.links["name"] # 0
    <3>1. page.links["name"] \in 0..MaxLinks /\ MaxLinks \in Nat
      BY BoundAssumption DEF Page, LinkKinds
    <3>2. [topic |-> "frontier", kind |-> "name", link |-> 1] \in Write
      BY <2>2, <3>1 DEF Write, LinkKinds
    <3> QED BY <2>2, <3>2 DEF NameSearch
  <2> QED BY <2>1, <2>2
<1>4. /\ Pairs("author") \o Pairs("work") \o Pairs("subject") \in Seq(Write)
      /\ Pairs("author") \o Pairs("subject") \in Seq(Write)
  BY <1>2
<1> QED BY <1>2, <1>3, <1>4 DEF Expansion

\* What an expansion has to store is a sequence of writes.
LEMMA AllType ==
    ASSUME TypeOK
    PROVE  All \in Seq(Write) /\ Len(All) \in Nat
BY ExpansionType DEF TypeOK, All

\* The writes due up to a place are finitely many, and no fewer further on.
LEMMA DueFacts ==
    ASSUME NEW n \in Nat
    PROVE  /\ IsFiniteSet(DueUpTo(n)) /\ Cardinality(DueUpTo(n)) \in Nat
           /\ \A j \in DueUpTo(n) : /\ j \in 1..n
                                    /\ Cardinality(DueUpTo(j)) \in 1..Cardinality(DueUpTo(n))
<1>1. ASSUME NEW k \in Nat PROVE IsFiniteSet(DueUpTo(k)) /\ Cardinality(DueUpTo(k)) \in Nat
  <2>1. IsFiniteSet(1..k)
    BY FS_Interval
  <2>2. DueUpTo(k) \subseteq 1..k
    BY DEF DueUpTo
  <2> QED BY <2>1, <2>2, FS_Subset, FS_CardinalityType
<1>2. ASSUME NEW j \in DueUpTo(n)
      PROVE  j \in 1..n /\ Cardinality(DueUpTo(j)) \in 1..Cardinality(DueUpTo(n))
  <2>1. j \in 1..n /\ j \in Nat /\ j \in DueUpTo(j) /\ DueUpTo(j) \subseteq DueUpTo(n)
    BY DEF DueUpTo
  <2>2. Cardinality(DueUpTo(j)) <= Cardinality(DueUpTo(n))
    BY <1>1, <2>1, FS_Subset
  <2>3. Cardinality(DueUpTo(j)) # 0
    BY <1>1, <2>1, FS_EmptySet
  <2> QED BY <1>1, <2>1, <2>2, <2>3
<1> QED BY <1>1, <1>2

\* Nothing stored is a prefix of nothing due.
LEMMA HoldsNothing == Holds(<<>>, 0)
<1>1. DueUpTo(0) = {}
  BY DEF DueUpTo
<1> QED BY <1>1, FS_EmptySet DEF Holds

\* A write at the depth limit is passed over.
LEMMA HoldsSkipped ==
    ASSUME NEW n \in Nat, NEW pub, Holds(pub, n), Skips(All[n + 1])
    PROVE  Holds(pub, n + 1)
<1>1. DueUpTo(n + 1) = DueUpTo(n)
  BY DEF DueUpTo
<1> QED BY <1>1 DEF Holds

\* A write that was due and is stored takes the next place.
LEMMA HoldsStored ==
    ASSUME NEW n \in Nat, NEW pub \in Seq(Write), Holds(pub, n), ~Skips(All[n + 1])
    PROVE  Holds(Append(pub, All[n + 1]), n + 1)
<1> DEFINE w == All[n + 1]
<1>1. DueUpTo(n + 1) = DueUpTo(n) \union {n + 1} /\ n + 1 \notin DueUpTo(n)
  BY DEF DueUpTo
<1>2. Cardinality(DueUpTo(n + 1)) = Cardinality(DueUpTo(n)) + 1 /\ Cardinality(DueUpTo(n)) \in Nat
  BY <1>1, DueFacts, FS_AddElement
<1>3. Len(pub) = Cardinality(DueUpTo(n))
  BY DEF Holds
<1>4. /\ Len(Append(pub, w)) = Len(pub) + 1 /\ Append(pub, w)[Len(pub) + 1] = w
      /\ \A i \in 1..Len(pub) : Append(pub, w)[i] = pub[i]
  OBVIOUS
<1>5. ASSUME NEW j \in DueUpTo(n) PROVE Append(pub, w)[Cardinality(DueUpTo(j))] = All[j]
  <2>1. Cardinality(DueUpTo(j)) \in 1..Len(pub)
    BY <1>3, DueFacts
  <2> QED BY <1>4, <2>1 DEF Holds
<1>6. Append(pub, w)[Cardinality(DueUpTo(n + 1))] = All[n + 1]
  BY <1>2, <1>3, <1>4
<1> QED BY <1>1, <1>2, <1>3, <1>4, <1>5, <1>6 DEF Holds

--------------------------------------------------------------------------------
(* Every action preserves it.                                              *)

\* The invariant holds when the goroutine starts.
LEMMA InitJInv == Init => JInv
<1> SUFFICES ASSUME Init PROVE JInv
  OBVIOUS
<1>1. TypeOK
  <2>1. 0 \in Durations /\ RetryBase \in Durations
    BY DelayAssumption, WidthAssumption DEF Durations
  <2>2. <<>> \in Seq(Write) /\ 0 \in 0..MaxWriteErrors
    BY BoundAssumption
  <2> QED BY <2>1, <2>2 DEF Init, TypeOK, NodeTypes
<1>2. RequestInv
  BY ConfigAssumption DEF Init, RequestInv, InHandler, Retries, RequestsBounded, HandlerRequests
<1>3. BackoffInv
  <2>1. RetryBase \in Int /\ RetryMaxDelay \in Int
    BY DelayAssumption, WidthAssumption DEF Durations
  <2> QED BY <2>1 DEF Init, BackoffInv
<1>4. ReportInv /\ PlanInv
  BY DEF Init, ReportInv, PlanInv, InHandler
<1> QED BY <1>1, <1>2, <1>3, <1>4 DEF JInv

\* The outcomes of a call of handleJob, and the steps of the backoff.
HandlerStep ==
    HandleOK \/ GiveUp \/ RetryLater \/ RetryNow \/ TimerFires \/ BackoffCancelled

\* A call of handleJob returns, or its backoff timer fires.
LEMMA HandlerJInv ==
    ASSUME JInv, HandlerStep
    PROVE  JInv'
<1> USE DEF HandlerStep
<1>1. /\ InHandler
      /\ UNCHANGED <<job, page, jobDone, inDLQ, inResults, published, plan, writeErrs>>
  BY DEF InHandler, HandleOK, GiveUp, RetryLater, RetryNow, HandleFails, TimerFires,
     BackoffCancelled, outVars, ctxVars
<1>2. /\ job \in Job /\ attempts \in Nat /\ requests \in Nat /\ jobDone \in BOOLEAN
      /\ delay \in Durations /\ slept \in Durations /\ writeErrs \in 0..MaxWriteErrors
      /\ RetryMax \in Int /\ RetryMaxDelay \in Durations /\ Retries \in Nat
  BY ConfigAssumption, DelayAssumption DEF JInv, TypeOK, Retries
<1>3. /\ attempts <= Retries /\ requests <= (IF job.allowed THEN attempts ELSE 0)
      /\ ~failed /\ published = <<>>
  BY <1>1 DEF JInv, RequestInv, ReportInv, PlanInv, InHandler
<1>4. /\ \A d \in Durations : d \in Int
      /\ job.allowed \in BOOLEAN /\ job.search \in BOOLEAN
  BY <1>2 DEF Durations, Job
<1>5. TypeOK' /\ BackoffInv'
  <2>1. /\ step' \in {"handle", "backoff", "dlq", "result"}
        /\ node' \in {node, "nil", page.type}
    BY <1>1 DEF HandleOK, GiveUp, RetryLater, RetryNow, HandleFails, TimerFires,
       BackoffCancelled, StartPublish, InHandler
  <2>2. requests' \in Nat /\ attempts' \in Nat
    <3>1. requests + (IF job.allowed THEN 1 ELSE 0) \in Nat /\ requests + 1 \in Nat
          /\ attempts + 1 \in Nat
      BY <1>2, <1>4
    <3>2. /\ \/ requests' = requests
             \/ requests' = requests + 1
             \/ requests' = requests + (IF job.allowed THEN 1 ELSE 0)
          /\ attempts' = attempts \/ attempts' = attempts + 1
      BY Zenon DEF HandleOK, GiveUp, RetryLater, RetryNow, HandleFails, TimerFires, BackoffCancelled,
         retryVars
    <3> QED BY <1>2, <3>1, <3>2
  <2>3. /\ delay' \in Durations /\ slept' \in Durations
        /\ BackoffInv'
    <3>1. CASE RetryLater
      <4>1. /\ delay > 0 /\ slept' = slept /\ step' = "backoff"
            /\ delay' = IF RetryMaxDelay > 0 /\ delay > RetryMaxDelay THEN RetryMaxDelay ELSE delay
        BY <3>1 DEF RetryLater
      <4> QED BY <1>2, <1>4, <4>1 DEF JInv, BackoffInv
    <3>2. CASE TimerFires
      <4>1. slept' = delay /\ delay' = Wrap(2 * delay) /\ step' = "handle" /\ step = "backoff"
        BY <3>2 DEF TimerFires
      <4>2. delay > 0 /\ (RetryMaxDelay > 0 => delay <= RetryMaxDelay)
        BY <4>1 DEF JInv, BackoffInv
      <4>3. delay' \in Durations /\ (delay' <= 0 \/ delay' = 2 * delay)
        BY <1>2, <4>1, <4>2, WrapFacts
      <4> QED BY <1>2, <1>4, <4>1, <4>2, <4>3 DEF BackoffInv
    <3>3. CASE HandleOK \/ GiveUp \/ RetryNow \/ BackoffCancelled
      <4>1. UNCHANGED <<delay, slept>> /\ step' # "backoff"
        BY <3>3 DEF HandleOK, GiveUp, RetryNow, HandleFails, BackoffCancelled, StartPublish, retryVars
      <4> QED BY <1>2, <4>1 DEF JInv, BackoffInv
    <3> QED BY <3>1, <3>2, <3>3
  <2>4. node' \in NodeTypes
    BY <2>1 DEF JInv, TypeOK, Page, NodeTypes
  <2>5. failed' \in BOOLEAN /\ publishDone' \in BOOLEAN
    <3>1. failed \in BOOLEAN /\ publishDone \in BOOLEAN /\ jobDone \in BOOLEAN
      BY DEF JInv, TypeOK
    <3> QED BY <3>1, Zenon DEF HandleOK, GiveUp, RetryLater, RetryNow, HandleFails, TimerFires,
            BackoffCancelled, StartPublish, ctxVars
  <2> QED BY <1>1, <2>1, <2>2, <2>3, <2>4, <2>5 DEF JInv, TypeOK
<1>6. RequestInv'
  <2>0. Retries' = Retries /\ HandlerRequests' = HandlerRequests
    BY <1>1 DEF Retries, HandlerRequests
  <2>1. CASE HandleOK
    <3>1. requests' = requests + 1 /\ job.allowed /\ step' = "result"
      BY <2>1 DEF HandleOK, StartPublish
    <3> QED BY <1>1, <1>2, <1>3, <1>4, <2>0, <3>1
            DEF RequestInv, InHandler, HandlerRequests, RequestsBounded
  <2>2. CASE GiveUp
    <3>1. requests' = requests + (IF job.allowed THEN 1 ELSE 0) /\ step' = "dlq"
      BY <2>2 DEF GiveUp, HandleFails, StartPublish
    <3> QED BY <1>1, <1>2, <1>3, <1>4, <2>0, <3>1
            DEF RequestInv, InHandler, HandlerRequests, RequestsBounded
  <2>3. CASE RetryLater \/ RetryNow
    <3>1. /\ requests' = requests + (IF job.allowed THEN 1 ELSE 0)
          /\ RetryMax > 0 /\ attempts' = attempts + 1 /\ attempts' <= RetryMax
          /\ step' \in {"handle", "backoff"}
      BY <2>3 DEF RetryLater, RetryNow, HandleFails
    <3>2. attempts' <= Retries
      BY <3>1 DEF Retries
    <3> QED BY <1>1, <1>2, <1>3, <1>4, <2>0, <3>1, <3>2
            DEF RequestInv, InHandler, HandlerRequests, RequestsBounded
  <2>4. CASE TimerFires \/ BackoffCancelled
    <3>1. UNCHANGED <<requests, attempts>> /\ step' \in {"handle", "dlq"}
      BY <2>4 DEF TimerFires, BackoffCancelled, StartPublish, retryVars
    <3> QED BY <1>1, <1>2, <1>3, <1>4, <2>0, <3>1
            DEF RequestInv, InHandler, HandlerRequests, RequestsBounded
  <2> QED BY <2>1, <2>2, <2>3, <2>4
<1>7. ReportInv' /\ PlanInv'
  <2>1. /\ step' \in {"handle", "backoff", "dlq", "result"}
        /\ step' \in {"handle", "backoff"} => failed' = failed
        /\ failed' => failed \/ step' = "dlq"
    BY DEF HandleOK, GiveUp, RetryLater, RetryNow, HandleFails, TimerFires, BackoffCancelled,
       StartPublish
  <2> QED BY <1>1, <1>3, <2>1 DEF ReportInv, PlanInv, InHandler
<1> QED BY <1>5, <1>6, <1>7 DEF JInv

\* The expansion and what is due of it depend on the job, its page and its node.
LEMMA SameExpansion ==
    ASSUME UNCHANGED <<job, page, node>>
    PROVE  /\ All' = All
           /\ \A n : DueUpTo(n)' = DueUpTo(n)
           /\ \A w : Skips(w)' = Skips(w)
<1>1. All' = All
  BY DEF All, Expansion, Pairs, NameSearch, Topic
<1> QED BY <1>1 DEF DueUpTo, Skips, AtDepthLimit

\* Timeouts, and the steps of the publish phase up to the expansion.
TimeoutStep == JobTimeout \/ PublishTimeout
ReportStep ==
    NoResult \/ \E stored, ok \in BOOLEAN : PublishDLQ(stored, ok) \/ PublishResult(stored, ok)

\* The job or the publish context ends.
LEMMA TimeoutJInv ==
    ASSUME JInv, TimeoutStep
    PROVE  JInv'
<1>1. UNCHANGED <<job, page, step, attempts, delay, slept, node, failed, requests, inDLQ,
                  inResults, published, plan, writeErrs>>
  BY DEF TimeoutStep, JobTimeout, PublishTimeout, retryVars, outVars
<1>2. jobDone' \in BOOLEAN /\ publishDone' \in BOOLEAN
  BY DEF JInv, TypeOK, TimeoutStep, JobTimeout, PublishTimeout
<1>3. publishDone => publishDone'
  BY DEF JInv, TypeOK, TimeoutStep, JobTimeout, PublishTimeout
<1>4. TypeOK'
  BY <1>1, <1>2 DEF JInv, TypeOK
<1>5. RequestInv' /\ BackoffInv'
  BY <1>1 DEF JInv, RequestInv, BackoffInv, InHandler, HandlerRequests, RequestsBounded, Retries
<1>6. ReportInv'
  BY <1>1, <1>3 DEF JInv, ReportInv, InHandler
<1>7. PlanInv'
  BY <1>1, SameExpansion DEF JInv, PlanInv, Holds, Remaining
<1> QED BY <1>4, <1>5, <1>6, <1>7 DEF JInv

\* A write that fails on a live context is counted; one that succeeds is stored.
LEMMA KafkaWriteFacts ==
    ASSUME TypeOK, NEW stored \in BOOLEAN, NEW ok \in BOOLEAN, KafkaWrite(stored, ok)
    PROVE  /\ writeErrs' \in 0..MaxWriteErrors
           /\ ok => stored
           /\ writeErrs' = 0 => writeErrs = 0 /\ (ok \/ publishDone)
BY BoundAssumption DEF TypeOK, KafkaWrite

\* The result or the DLQ entry is written.
LEMMA ReportJInv ==
    ASSUME JInv, ReportStep
    PROVE  JInv'
<1>1. /\ UNCHANGED <<job, page, attempts, delay, slept, node, failed, jobDone, publishDone,
                     requests, published, plan>>
      /\ step \in {"dlq", "result"} /\ step' \in {"result", "expand", "released"}
  BY DEF ReportStep, NoResult, PublishDLQ, PublishResult, NextUnlessDone, retryVars, ctxVars, outVars
<1>2. /\ writeErrs' \in 0..MaxWriteErrors
      /\ inDLQ' \in BOOLEAN /\ inResults' \in BOOLEAN
      /\ failed /\ writeErrs' = 0 /\ ~publishDone => inDLQ'
  <2>1. CASE NoResult
    <3>1. step = "result" /\ UNCHANGED <<writeErrs, inDLQ, inResults>>
      BY <2>1 DEF NoResult, outVars
    <3> QED BY <3>1 DEF JInv, TypeOK, ReportInv
  <2>2. ASSUME NEW stored \in BOOLEAN, NEW ok \in BOOLEAN, PublishDLQ(stored, ok)
        PROVE  <1>2!1 /\ <1>2!2 /\ <1>2!3
    <3>1. KafkaWrite(stored, ok) /\ inDLQ' = stored /\ inResults' = inResults
      BY <2>2 DEF PublishDLQ
    <3> QED BY <3>1, KafkaWriteFacts DEF JInv, TypeOK
  <2>3. ASSUME NEW stored \in BOOLEAN, NEW ok \in BOOLEAN, PublishResult(stored, ok)
        PROVE  <1>2!1 /\ <1>2!2 /\ <1>2!3
    <3>1. KafkaWrite(stored, ok) /\ inResults' = stored /\ inDLQ' = inDLQ /\ step = "result"
      BY <2>3 DEF PublishResult
    <3> QED BY <3>1, KafkaWriteFacts DEF JInv, TypeOK, ReportInv
  <2> QED BY <2>1, <2>2, <2>3 DEF ReportStep
<1>3. TypeOK'
  BY <1>1, <1>2 DEF JInv, TypeOK
<1>4. RequestInv' /\ BackoffInv'
  BY <1>1 DEF JInv, RequestInv, BackoffInv, InHandler, HandlerRequests, RequestsBounded, Retries
<1>5. ReportInv'
  BY <1>1, <1>2 DEF ReportInv, InHandler
<1>6. PlanInv'
  <2>1. published' = <<>>
    BY <1>1 DEF JInv, PlanInv
  <2>2. Holds(<<>>, 0)'
    BY HoldsNothing, <1>1, SameExpansion DEF Holds
  <2>3. Len(All) \in Nat /\ Len(All') \in Nat
    BY AllType, <1>1, SameExpansion DEF JInv
  <2> QED BY <1>1, <2>1, <2>2, <2>3 DEF PlanInv
<1> QED BY <1>3, <1>4, <1>5, <1>6 DEF JInv

\* The expansion is computed, or its search fails.
LEMMA ExpandJInv ==
    ASSUME JInv, ExpandNode \/ ExpandSearch \/ ExpandSearchFails
    PROVE  JInv'
<1>1. /\ UNCHANGED <<job, page, attempts, delay, slept, node, failed, jobDone, publishDone, inDLQ,
                     inResults, published, writeErrs>>
      /\ step = "expand" /\ step' \in {"write", "released"}
      /\ requests' = requests \/ (job.search /\ requests' = requests + 1)
      /\ plan' = All \/ (plan' = plan /\ step' = "released")
  BY DEF ExpandNode, ExpandSearch, ExpandSearchFails, All, retryVars, ctxVars, outVars
<1>2. All \in Seq(Write) /\ Len(All) \in Nat /\ requests \in Nat /\ published = <<>>
  BY <1>1, AllType DEF JInv, TypeOK, PlanInv
<1>3. TypeOK'
  BY <1>1, <1>2 DEF JInv, TypeOK
<1>4. RequestInv'
  <2>1. requests <= HandlerRequests /\ HandlerRequests \in Int
    BY <1>1, ConfigAssumption DEF JInv, RequestInv, HandlerRequests, Retries
  <2>2. HandlerRequests' = HandlerRequests /\ job.search \in BOOLEAN
    BY <1>1 DEF HandlerRequests, Retries, JInv, TypeOK, Job
  <2>3. requests' <= HandlerRequests + (IF job.search THEN 1 ELSE 0)
    BY <1>1, <1>2, <2>1, <2>2
  <2>4. RequestsBounded'
    BY <1>1, <2>3 DEF RequestsBounded, HandlerRequests, Retries
  <2> QED BY <1>1, <2>4 DEF RequestInv, InHandler
<1>5. BackoffInv' /\ ReportInv'
  BY <1>1 DEF JInv, BackoffInv, ReportInv, InHandler
<1>6. PlanInv'
  <2>1. Holds(published, 0)'
    BY <1>1, <1>2, HoldsNothing, SameExpansion DEF Holds
  <2>2. step' = "write" => Remaining(0)'
    BY <1>1, <1>2, SameExpansion DEF Remaining
  <2>3. 0 \in 0..Len(All')
    BY <1>1, <1>2, SameExpansion
  <2> QED BY <1>1, <2>1, <2>2, <2>3 DEF PlanInv
<1> QED BY <1>3, <1>4, <1>5, <1>6 DEF JInv

\* One write of the expansion, or its end.
LinkStep == SkipWrite \/ Release \/ \E stored, ok \in BOOLEAN : PublishLink(stored, ok)

\* The expansion writes an edge or a frontier job.
LEMMA LinkJInv ==
    ASSUME JInv, LinkStep
    PROVE  JInv'
<1>1. /\ UNCHANGED <<job, page, attempts, delay, slept, node, failed, jobDone, publishDone, requests,
                     inDLQ, inResults>>
      /\ step = "write" /\ step' \in {"write", "released"}
  BY DEF LinkStep, SkipWrite, Release, PublishLink, retryVars, ctxVars, outVars
<1>2. /\ plan \in Seq(Write) /\ published \in Seq(Write) /\ All \in Seq(Write) /\ Len(All) \in Nat
      /\ writeErrs \in 0..MaxWriteErrors
  BY AllType DEF JInv, TypeOK
<1>3. PICK n \in 0..Len(All) : Holds(published, n) /\ Remaining(n)
  BY <1>1 DEF JInv, PlanInv
<1>4. ASSUME plan # <<>>
      PROVE  /\ n + 1 \in 0..Len(All) /\ n \in Nat
             /\ Head(plan) = All[n + 1] /\ Head(plan) \in Write
             /\ Tail(plan) \in Seq(Write) /\ Len(Tail(plan)) = Len(All) - (n + 1)
             /\ \A i \in 1..Len(Tail(plan)) : Tail(plan)[i] = All[(n + 1) + i]
  <2>1. /\ Len(plan) \in Nat \ {0} /\ Head(plan) = plan[1] /\ Head(plan) \in Write
        /\ Tail(plan) \in Seq(Write) /\ Len(Tail(plan)) = Len(plan) - 1
        /\ \A i \in 1..Len(Tail(plan)) : Tail(plan)[i] = plan[i + 1]
    BY <1>2, <1>4
  <2>2. Len(plan) = Len(All) - n /\ \A i \in 1..Len(plan) : plan[i] = All[n + i]
    BY <1>3 DEF Remaining
  <2> QED BY <1>2, <2>1, <2>2
<1>5. /\ TypeOK' /\ (writeErrs' = 0 => writeErrs = 0)
      /\ \E k \in 0..Len(All) :
            /\ Holds(published', k)
            /\ step' = "write" => /\ Len(plan') = Len(All) - k
                                  /\ \A i \in 1..Len(plan') : plan'[i] = All[k + i]
  <2>1. CASE SkipWrite
    <3>1. /\ plan # <<>> /\ Skips(Head(plan)) /\ plan' = Tail(plan)
          /\ UNCHANGED <<published, writeErrs>>
      BY <2>1 DEF SkipWrite, outVars
    <3>2. Holds(published, n + 1)
      BY <1>3, <1>4, <3>1, HoldsSkipped
    <3>3. TypeOK'
      BY <1>1, <1>4, <3>1 DEF JInv, TypeOK
    <3> QED BY <1>4, <3>1, <3>2, <3>3
  <2>2. CASE Release
    <3>1. UNCHANGED <<plan, published, writeErrs>> /\ step' = "released"
      BY <2>2 DEF Release, outVars
    <3>2. TypeOK'
      BY <1>1, <3>1 DEF JInv, TypeOK
    <3> QED BY <1>3, <3>1, <3>2
  <2>3. ASSUME NEW stored \in BOOLEAN, NEW ok \in BOOLEAN, PublishLink(stored, ok)
        PROVE  <1>5!1 /\ <1>5!2
    <3>1. /\ plan # <<>> /\ ~Skips(Head(plan)) /\ KafkaWrite(stored, ok)
          /\ published' = IF stored THEN Append(published, Head(plan)) ELSE published
          /\ plan' = IF ok THEN Tail(plan) ELSE plan
          /\ step' = IF ok THEN "write" ELSE "released"
      BY <2>3 DEF PublishLink
    <3>2. /\ writeErrs' \in 0..MaxWriteErrors /\ (ok => stored)
          /\ writeErrs' = 0 => writeErrs = 0
      BY <3>1, KafkaWriteFacts DEF JInv
    <3>3. Holds(Append(published, Head(plan)), n + 1)
      BY <1>2, <1>3, <1>4, <3>1, HoldsStored
    <3>4. TypeOK'
      <4>1. published' \in Seq(Write) /\ plan' \in Seq(Write)
        BY <1>2, <1>4, <3>1
      <4> QED BY <1>1, <3>2, <4>1 DEF JInv, TypeOK
    <3>5. CASE ok
      BY <1>4, <3>1, <3>2, <3>3, <3>4, <3>5
    <3>6. CASE ~ok
      BY <1>3, <1>4, <3>1, <3>2, <3>3, <3>4, <3>6
    <3> QED BY <3>5, <3>6
  <2> QED BY <2>1, <2>2, <2>3 DEF LinkStep
<1>6. RequestInv' /\ BackoffInv'
  BY <1>1 DEF JInv, RequestInv, BackoffInv, InHandler, HandlerRequests, RequestsBounded, Retries
<1>7. ReportInv'
  BY <1>1, <1>5 DEF JInv, ReportInv, InHandler
<1>8. PlanInv'
  <2>1. PICK k \in 0..Len(All) :
          /\ Holds(published', k)
          /\ step' = "write" => /\ Len(plan') = Len(All) - k
                                /\ \A i \in 1..Len(plan') : plan'[i] = All[k + i]
    BY <1>5
  <2>2. All' = All /\ \A j : DueUpTo(j)' = DueUpTo(j)
    BY <1>1, SameExpansion
  <2>3. Holds(published, k)'
    BY <2>1, <2>2 DEF Holds
  <2>4. step' = "write" => Remaining(k)'
    BY <2>1, <2>2 DEF Remaining
  <2> QED BY <1>1, <2>1, <2>2, <2>3, <2>4 DEF PlanInv
<1> QED BY <1>5, <1>6, <1>7, <1>8 DEF JInv

\* Every step of a job preserves the invariant.
LEMMA StepJInv ==
    ASSUME JInv, [Next]_vars
    PROVE  JInv'
<1>1. CASE UNCHANGED vars
  <2>1. UNCHANGED <<job, page, step, attempts, delay, slept, node, failed, jobDone, publishDone,
                    requests, inDLQ, inResults, published, plan, writeErrs>>
    BY <1>1 DEF vars, retryVars, ctxVars, outVars
  <2>2. TypeOK' /\ RequestInv' /\ BackoffInv' /\ ReportInv'
    BY <2>1 DEF JInv, TypeOK, RequestInv, BackoffInv, ReportInv, InHandler, HandlerRequests,
       RequestsBounded, Retries
  <2>3. PlanInv'
    BY <2>1, SameExpansion DEF JInv, PlanInv, Holds, Remaining
  <2> QED BY <2>2, <2>3 DEF JInv
<1>2. CASE Next
  <2>1. \/ HandlerStep \/ TimeoutStep \/ ReportStep \/ LinkStep
        \/ ExpandNode \/ ExpandSearch \/ ExpandSearchFails
    BY <1>2, Zenon DEF Next, HandlerStep, TimeoutStep, ReportStep, LinkStep
  <2> QED BY <2>1, HandlerJInv, TimeoutJInv, ReportJInv, LinkJInv, ExpandJInv
<1> QED BY <1>1, <1>2

--------------------------------------------------------------------------------
(* The theorems.                                                           *)

\* The inductive invariant holds in every reachable state.
THEOREM JobInvariant == Spec => []JInv
<1>1. JInv /\ [Next]_vars => JInv'
  BY StepJInv
<1> QED BY <1>1, InitJInv, PTL DEF Spec

\* Every variable keeps its type; in particular delays stay in their width.
THEOREM JobTypes == Spec => []TypeOK
<1>1. JInv => TypeOK
  BY DEF JInv
<1> QED BY <1>1, JobInvariant, PTL

\* However the site answers, the handler makes at most RETRY_MAX + 1 requests,
\* none for a disallowed path, and a search one more.
THEOREM JobRequests == Spec => []RequestsBounded
<1>1. JInv => RequestsBounded
  BY DEF JInv, RequestInv
<1> QED BY <1>1, JobInvariant, PTL

\* A failed job is in the DLQ unless a write failed or a timeout came first.
THEOREM JobReported == Spec => []FailedJobReachesDLQ
<1>1. JInv => FailedJobReachesDLQ
  BY DEF JInv, ReportInv, FailedJobReachesDLQ
<1> QED BY <1>1, JobInvariant, PTL

\* What an expansion stored is a prefix of what it had to store.
THEOREM JobPublishesInOrder == Spec => []PublishedIsPrefix
<1>1. JInv => PublishedIsPrefix
  <2> SUFFICES ASSUME JInv PROVE PublishedIsPrefix
    OBVIOUS
  <2>1. CASE step \in {"write", "released"}
    BY <2>1 DEF JInv, PlanInv, Holds, PublishedIsPrefix
  <2>2. CASE step \notin {"write", "released"}
    <3>1. published = <<>> /\ 0 \in 0..Len(All)
      BY <2>2, AllType DEF JInv, PlanInv
    <3> QED BY <3>1, HoldsNothing DEF Holds, PublishedIsPrefix
  <2> QED BY <2>1, <2>2
<1> QED BY <1>1, JobInvariant, PTL

\* Delays only grow and never exceed a positive cap, overflow included.
THEOREM JobBackoff == Spec => BackoffGrowsUpToCap
<1> DEFINE Grows == slept' # slept =>
                      slept' >= slept /\ (RetryMaxDelay > 0 => slept' <= RetryMaxDelay)
<1>1. JInv /\ [Next]_vars => [Grows]_vars
  <2> SUFFICES ASSUME JInv, Next PROVE Grows
    OBVIOUS
  <2>1. CASE TimerFires
    <3>1. slept' = delay /\ step = "backoff"
      BY <2>1 DEF TimerFires
    <3> QED BY <3>1 DEF JInv, BackoffInv
  <2>2. CASE UNCHANGED slept
    BY <2>2
  <2> QED BY <2>1, <2>2, Zenon DEF Next, HandleOK, GiveUp, RetryLater, RetryNow, BackoffCancelled,
          NoResult, PublishDLQ, PublishResult, PublishLink, ExpandNode, ExpandSearch,
          ExpandSearchFails, SkipWrite, Release, JobTimeout, PublishTimeout, retryVars
<1> QED BY <1>1, JobInvariant, PTL DEF Spec, BackoffGrowsUpToCap

--------------------------------------------------------------------------------
(* A job ends.                                                             *)

\* The longest expansion, that of a book: two writes for each link of three kinds.
MaxPlan == 6 * MaxLinks + 1

\* The steps the goroutine can still take: three for a retry (the attempt, its
\* failure, the sleep), then those of the publish phase.
Ahead ==
    CASE step = "handle"  -> MaxPlan + 8 + 3 * (Retries - attempts)
      [] step = "backoff" -> MaxPlan + 9 + 3 * (Retries - attempts)
      [] step = "dlq"     -> MaxPlan + 5
      [] step = "result"  -> MaxPlan + 4
      [] step = "expand"  -> MaxPlan + 3
      [] step = "write"   -> Len(plan) + 2
      [] OTHER            -> 0

\* The timeouts that can still come.
Timeouts == (IF jobDone THEN 0 ELSE 1) + (IF publishDone THEN 0 ELSE 1)

StepsLeft == Ahead + Timeouts
StepBound == 3 * Retries + MaxPlan + 10

\* No page asks for more than MaxPlan writes.
LEMMA ExpansionLength ==
    ASSUME TypeOK
    PROVE  Len(All) \in 0..MaxPlan
<1> SUFFICES ASSUME NEW type PROVE Len(Expansion(type)) \in 0..MaxPlan
  BY DEF All
<1>1. page \in Page /\ MaxLinks \in Nat
  BY BoundAssumption DEF TypeOK
<1>2. ASSUME NEW kind \in LinkKinds
      PROVE  Pairs(kind) \in Seq(Write) /\ Len(Pairs(kind)) \in 0..(2 * MaxLinks)
  <2> DEFINE k == page.links[kind]
             w(j) == [topic |-> Topic(kind, j), kind |-> kind, link |-> (j + 1) \div 2]
  <2>1. k \in 0..MaxLinks
    BY <1>1 DEF Page
  <2>2. Pairs(kind) = [j \in 1..(2 * k) |-> w(j)] /\ Pairs(kind) \in Seq(Write)
    BY <1>1, PairsType DEF Pairs
  <2> HIDE DEF k, w
  <2>3. 2 * k \in Nat /\ DOMAIN Pairs(kind) = 1..(2 * k)
    BY <1>1, <2>1, <2>2
  <2>4. Len(Pairs(kind)) = 2 * k
    BY <2>2, <2>3, LenProperties
  <2> QED BY <1>1, <2>1, <2>2, <2>4
<1>3. /\ Pairs("author") \in Seq(Write) /\ Len(Pairs("author")) \in 0..(2 * MaxLinks)
      /\ Pairs("work") \in Seq(Write) /\ Len(Pairs("work")) \in 0..(2 * MaxLinks)
      /\ Pairs("subject") \in Seq(Write) /\ Len(Pairs("subject")) \in 0..(2 * MaxLinks)
      /\ Pairs("doc") \in Seq(Write) /\ Len(Pairs("doc")) \in 0..(2 * MaxLinks)
  BY <1>2 DEF LinkKinds
<1>4. Len(NameSearch) \in 0..1
  BY DEF NameSearch
<1>5. /\ Len(Pairs("author") \o Pairs("work") \o Pairs("subject")) \in 0..(6 * MaxLinks)
      /\ Len(Pairs("author") \o Pairs("subject")) \in 0..(4 * MaxLinks)
  BY <1>1, <1>3
<1>6. CASE type = "book"
  BY <1>1, <1>5, <1>6 DEF Expansion, MaxPlan
<1>7. CASE type = "work"
  BY <1>1, <1>5, <1>7 DEF Expansion, MaxPlan
<1>8. CASE type = "author"
  BY <1>1, <1>4, <1>8 DEF Expansion, MaxPlan
<1>9. CASE type = "search"
  BY <1>1, <1>3, <1>9 DEF Expansion, MaxPlan
<1>10. CASE type \notin {"book", "work", "author", "search"}
  BY <1>1, <1>10 DEF Expansion, MaxPlan
<1> QED BY <1>6, <1>7, <1>8, <1>9, <1>10

\* What the measure is made of.
LEMMA StepsLeftType ==
    ASSUME JInv
    PROVE  /\ Ahead \in Nat /\ Timeouts \in 0..2 /\ StepsLeft \in Nat
           /\ Retries \in Nat /\ MaxPlan \in Nat /\ Len(plan) \in Nat
           /\ InHandler => attempts \in 0..Retries
<1>1. Retries \in Nat /\ MaxPlan \in Nat /\ MaxLinks \in Nat
  BY ConfigAssumption, BoundAssumption DEF Retries, MaxPlan
<1>2. Len(plan) \in Nat /\ attempts \in Nat
  BY DEF JInv, TypeOK
<1>3. InHandler => attempts \in 0..Retries
  BY <1>1, <1>2 DEF JInv, RequestInv
<1>4. Timeouts \in 0..2
  BY DEF Timeouts
<1>5. Ahead \in Nat
  <2>1. CASE step = "handle"
    BY <1>1, <1>3, <2>1 DEF Ahead, InHandler
  <2>2. CASE step = "backoff"
    BY <1>1, <1>3, <2>2 DEF Ahead, InHandler
  <2>3. CASE step \notin {"handle", "backoff"}
    BY <1>1, <1>2, <2>3 DEF Ahead
  <2> QED BY <2>1, <2>2, <2>3
<1> QED BY <1>1, <1>2, <1>3, <1>4, <1>5 DEF StepsLeft

\* The two parts of the measure.
LEMMA Lexicographic ==
    ASSUME NEW a \in Int, NEW b \in Int, NEW t \in Int, NEW u \in Int
    PROVE  /\ b < a /\ u <= t => b + u < a + t
           /\ b <= a /\ u < t => b + u < a + t
           /\ b < a - 1 /\ u <= t + 1 => b + u < a + t
OBVIOUS

\* A step that leaves the contexts alone moves the goroutine ahead, one that
\* leaves the goroutine where it is uses up a timeout, and the handler, which
\* starts a new publish context, moves ahead by more than that gives back.
LEMMA StepsLeftDecreases ==
    ASSUME JInv, Next
    PROVE  StepsLeft' < StepsLeft
<1>1. /\ Ahead \in Nat /\ Timeouts \in 0..2
      /\ Retries \in Nat /\ MaxPlan \in Nat /\ Len(plan) \in Nat
      /\ InHandler => attempts \in 0..Retries
  BY StepsLeftType
<1>2. Timeouts \in Int /\ Timeouts' \in Int /\ Timeouts <= Timeouts
  BY DEF Timeouts
<1>3. MaxPlan' = MaxPlan /\ Retries' = Retries
  BY DEF MaxPlan, Retries
<1>4. ASSUME \/ Ahead' < Ahead /\ Timeouts' <= Timeouts
             \/ Ahead' <= Ahead /\ Timeouts' < Timeouts
             \/ Ahead' < Ahead - 1 /\ Timeouts' <= Timeouts + 1,
             Ahead' \in Nat
      PROVE  StepsLeft' < StepsLeft
  <2>1. Ahead \in Int /\ Ahead' \in Int
    BY <1>1, <1>4
  <2>2. Ahead' + Timeouts' < Ahead + Timeouts
    BY <1>2, <1>4, <2>1, Lexicographic, Zenon
  <2> QED BY <2>2 DEF StepsLeft
<1>5. ASSUME HandlerStep
      PROVE  StepsLeft' < StepsLeft
  <2>1. Timeouts' <= Timeouts + 1
    <3>1. jobDone' = jobDone /\ jobDone \in BOOLEAN
      BY <1>5 DEF JInv, TypeOK, HandlerStep, HandleOK, GiveUp, RetryLater, RetryNow, HandleFails,
         TimerFires, BackoffCancelled, ctxVars
    <3>2. publishDone' = publishDone \/ publishDone' = jobDone
      BY <1>5, Zenon DEF HandlerStep, HandleOK, GiveUp, RetryLater, RetryNow, TimerFires,
         BackoffCancelled, StartPublish, ctxVars
    <3> QED BY <3>1, <3>2 DEF Timeouts, JInv, TypeOK
  <2>2. CASE HandleOK \/ GiveUp \/ BackoffCancelled
    <3>1. InHandler /\ step' \in {"dlq", "result"}
      BY <2>2 DEF HandleOK, GiveUp, BackoffCancelled, HandleFails, StartPublish, InHandler
    <3>2. Ahead' \in {MaxPlan + 5, MaxPlan + 4}
      BY <1>3, <3>1 DEF Ahead
    <3>3. \E n \in Nat : Ahead = MaxPlan + 8 + n
      <4>1. Retries - attempts \in Nat /\ 3 * (Retries - attempts) \in Nat
        BY <1>1, <3>1
      <4>2. CASE step = "handle"
        BY <1>1, <4>1, <4>2 DEF Ahead
      <4>3. CASE step = "backoff"
        <5>1. Ahead = MaxPlan + 9 + 3 * (Retries - attempts)
          BY <4>3 DEF Ahead
        <5>2. PICK m \in Nat : m = 3 * (Retries - attempts)
          BY <4>1
        <5>3. m + 1 \in Nat /\ Ahead = MaxPlan + 8 + (m + 1)
          BY <1>1, <5>1, <5>2
        <5> QED BY <5>3
      <4> QED BY <3>1, <4>2, <4>3 DEF InHandler
    <3>4. PICK n \in Nat : Ahead = MaxPlan + 8 + n
      BY <3>3
    <3>5. Ahead' \in Nat /\ Ahead' < Ahead - 1
      BY <1>1, <3>2, <3>4
    <3> QED BY <1>4, <2>1, <3>5
  <2>3. CASE RetryLater
    <3>1. /\ step = "handle" /\ step' = "backoff"
          /\ attempts' = attempts + 1 /\ attempts + 1 <= Retries
          /\ Timeouts' = Timeouts
      BY <2>3 DEF RetryLater, HandleFails, Timeouts, Retries
    <3>2. Ahead' \in Nat /\ Ahead' < Ahead
      BY <1>1, <1>3, <3>1 DEF Ahead, InHandler
    <3> QED BY <1>2, <1>4, <3>1, <3>2
  <2>4. CASE RetryNow
    <3>1. /\ step = "handle" /\ step' = "handle"
          /\ attempts' = attempts + 1 /\ attempts + 1 <= Retries
          /\ Timeouts' = Timeouts
      BY <2>4 DEF RetryNow, HandleFails, Timeouts, Retries
    <3>2. Ahead' \in Nat /\ Ahead' < Ahead
      BY <1>1, <1>3, <3>1 DEF Ahead, InHandler
    <3> QED BY <1>2, <1>4, <3>1, <3>2
  <2>5. CASE TimerFires
    <3>1. /\ step = "backoff" /\ step' = "handle" /\ attempts' = attempts
          /\ Timeouts' = Timeouts
      BY <2>5 DEF TimerFires, ctxVars, Timeouts
    <3>2. Ahead' \in Nat /\ Ahead' < Ahead
      BY <1>1, <1>3, <3>1 DEF Ahead, InHandler
    <3> QED BY <1>2, <1>4, <3>1, <3>2
  <2> QED BY <1>5, <2>2, <2>3, <2>4, <2>5 DEF HandlerStep
<1>6. ASSUME TimeoutStep
      PROVE  StepsLeft' < StepsLeft
  <2>1. UNCHANGED <<step, attempts, plan>>
    BY <1>6 DEF TimeoutStep, JobTimeout, PublishTimeout, retryVars
  <2>2. Ahead' = Ahead
    BY <1>3, <2>1 DEF Ahead
  <2>3. Timeouts' < Timeouts
    BY <1>6 DEF TimeoutStep, JobTimeout, PublishTimeout, Timeouts, JInv, TypeOK
  <2>4. Ahead' \in Nat /\ Ahead' <= Ahead
    BY <1>1, <2>2
  <2> QED BY <1>4, <2>3, <2>4
<1>7. ASSUME ReportStep \/ LinkStep \/ ExpandNode \/ ExpandSearch \/ ExpandSearchFails
      PROVE  StepsLeft' < StepsLeft
  <2>1. Timeouts' = Timeouts
    BY <1>7 DEF ReportStep, LinkStep, ExpandNode, ExpandSearch, ExpandSearchFails, NoResult,
       PublishDLQ, PublishResult, SkipWrite, PublishLink, Release, ctxVars, Timeouts
  <2>2. CASE ReportStep
    <3>1. \/ step = "dlq" /\ step' \in {"result", "released"}
          \/ step = "result" /\ step' \in {"expand", "released"}
      BY <2>2 DEF ReportStep, NoResult, PublishDLQ, PublishResult, NextUnlessDone
    <3>2. Ahead' \in Nat /\ Ahead' < Ahead
      BY <1>1, <1>3, <3>1 DEF Ahead
    <3> QED BY <1>2, <1>4, <2>1, <3>2
  <2>3. CASE ExpandNode \/ ExpandSearch \/ ExpandSearchFails
    <3>1. /\ step = "expand"
          /\ step' = "released" \/ (step' = "write" /\ plan' = All)
      BY <2>3 DEF ExpandNode, ExpandSearch, ExpandSearchFails, All
    <3>2. Len(All) \in 0..MaxPlan
      BY ExpansionLength DEF JInv
    <3>3. Ahead' \in Nat /\ Ahead' < Ahead
      BY <1>1, <1>3, <3>1, <3>2 DEF Ahead
    <3> QED BY <1>2, <1>4, <2>1, <3>3
  <2>4. CASE LinkStep
    <3>1. /\ step = "write" /\ step' \in {"write", "released"}
          /\ step' = "write" => plan # <<>> /\ plan' = Tail(plan)
      BY <2>4 DEF LinkStep, SkipWrite, PublishLink, Release
    <3>2. ASSUME plan # <<>>
          PROVE  Len(plan) > 0 /\ Len(Tail(plan)) = Len(plan) - 1
      BY <3>2 DEF JInv, TypeOK
    <3>3. Ahead' \in Nat /\ Ahead' < Ahead
      BY <1>1, <3>1, <3>2 DEF Ahead
    <3> QED BY <1>2, <1>4, <2>1, <3>3
  <2> QED BY <1>7, <2>2, <2>3, <2>4
<1>8. \/ HandlerStep \/ TimeoutStep \/ ReportStep \/ LinkStep
      \/ ExpandNode \/ ExpandSearch \/ ExpandSearchFails
  BY Zenon DEF Next, HandlerStep, TimeoutStep, ReportStep, LinkStep
<1> QED BY <1>5, <1>6, <1>7, <1>8

\* A job takes at most 3 * Retries + 6 * MaxLinks + 11 steps: no retry, no
\* failure and no timeout sends it back to something it has already done, so it
\* can stay away from its deferred function only by standing still.  That it
\* does not stand still is SlotIsReleased, which rests on fairness.
THEOREM JobIsFinite ==
    Spec => /\ StepsLeft = StepBound
            /\ [](StepsLeft \in Nat)
            /\ [][StepsLeft' < StepsLeft]_vars
<1>1. Init => StepsLeft = StepBound
  BY ConfigAssumption, BoundAssumption
     DEF Init, StepsLeft, Ahead, Timeouts, StepBound, Retries, MaxPlan
<1>2. JInv => StepsLeft \in Nat
  BY StepsLeftType
<1>3. JInv /\ [Next]_vars => [StepsLeft' < StepsLeft]_vars
  BY StepsLeftDecreases
<1> QED BY <1>1, <1>2, <1>3, JobInvariant, PTL DEF Spec

================================================================================
