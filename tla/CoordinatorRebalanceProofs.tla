----------------------- MODULE CoordinatorRebalanceProofs ----------------------
(***************************************************************************)
(* Proofs about the commit coordinator under rebalances, for every number  *)
(* of rebalances and every size of the topic.  Offsets are delivered more  *)
(* than once here, so the invariant says less about where a message is     *)
(* than that of CommitCoordinatorProofs, and more about what is covered.   *)
(***************************************************************************)
EXTENDS CoordinatorRebalance, TLAPS

--------------------------------------------------------------------------------
(* The inductive invariant.                                                *)

RTypeOK ==
    /\ TypeOK
    /\ late \in [Partitions -> SUBSET Offsets]
    /\ rebalances \in 0..MaxRebalances

\* A CommitMessages call is in progress exactly when cur names its partition.
CallInv == pc \in InCommit <=> cur # NoPartition

\* Whatever the coordinator holds or is about to receive has been completed.
HeldInv ==
    /\ \A i \in 1..Len(commitCh) : commitCh[i].offset \in handled[commitCh[i].partition]
    /\ \A p \in Partitions : pending[p] \subseteq handled[p]
    /\ \A p \in Partitions : cur = p => nextOffset[p] \in handled[p]

\* All offsets of p below n were completed, or jumped over by enqueue.
Covered(p, n) == \A o \in Offsets : o < n => o \in handled[p] \union skipped[p]

\* Neither assignment, nor broker, nor the coordinator's possibly stale next
\* offset is ever past an offset that is not.
CoverInv ==
    \A p \in Partitions :
        Covered(p, startAt[p]) /\ Covered(p, committed[p]) /\ Covered(p, nextOffset[p])

\* A next offset of the present assignment is at most one commit behind the
\* broker; before the first completion the broker is where the assignment began.
FreshnessInv ==
    \A p \in Partitions :
        /\ nextOffset[p] = None => committed[p] = startAt[p]
        /\ nextOffset[p] >= startAt[p] => committed[p] <= nextOffset[p] + 1

RInv ==
    /\ RTypeOK
    /\ CallInv
    /\ HeldInv
    /\ CoverInv
    /\ FreshnessInv

--------------------------------------------------------------------------------
(* Every action preserves it.                                              *)

\* A completion, of this assignment or of an earlier one, goes on the channel.
LEMMA SendRInv ==
    ASSUME RInv, NEW p \in Partitions, NEW o \in Offsets,
           \/ Send(p, o) /\ UNCHANGED <<late, rebalances>>
           \/ LateSend(p, o)
    PROVE  RInv'
<1> DEFINE m == [partition |-> p, offset |-> o]
<1>1. /\ UNCHANGED <<chOpen, ctxDone, nextOffset, pending, pendingTotal, commitErrs, pc, cur,
                     todo, committed, startAt, skipped, rebalances>>
      /\ commitCh' = Append(commitCh, m) /\ Len(commitCh) < ChanCap
      /\ handled' = [handled EXCEPT ![p] = @ \union {o}]
      /\ late' = late \/ late' = [late EXCEPT ![p] = @ \ {o}]
      /\ sent' = sent \/ sent' = [sent EXCEPT ![p] = @ \union {o}]
  BY DEF Send, SendEffect, LateSend, coordVars
<1>2. /\ m \in Message /\ m.partition = p /\ m.offset = o
      /\ commitCh \in Seq(Message) /\ handled \in [Partitions -> SUBSET Offsets]
  BY DEF Message, RInv, RTypeOK, TypeOK
<1> HIDE DEF m
<1>3. /\ commitCh' \in Seq(Message) /\ Len(commitCh') = Len(commitCh) + 1
      /\ \A i \in 1..Len(commitCh) : commitCh'[i] = commitCh[i]
      /\ commitCh'[Len(commitCh) + 1] = m
  BY <1>1, <1>2
<1>4. RTypeOK'
  <2>1. late' \in [Partitions -> SUBSET Offsets] /\ sent' \in [Partitions -> SUBSET Offsets]
    <3>1. late \in [Partitions -> SUBSET Offsets] /\ sent \in [Partitions -> SUBSET Offsets]
      BY DEF RInv, RTypeOK, TypeOK
    <3>2. [late EXCEPT ![p] = @ \ {o}] \in [Partitions -> SUBSET Offsets]
      BY <3>1
    <3>3. [sent EXCEPT ![p] = @ \union {o}] \in [Partitions -> SUBSET Offsets]
      BY <3>1
    <3> QED BY <1>1, <3>1, <3>2, <3>3
  <2>2. handled' \in [Partitions -> SUBSET Offsets]
    BY <1>1, <1>2
  <2>3. Len(commitCh') <= ChanCap
    BY <1>1, <1>2, <1>3, ChanCapAssumption
  <2> QED BY <1>1, <1>3, <2>1, <2>2, <2>3 DEF RInv, RTypeOK, TypeOK
<1>5. \A q \in Partitions : handled[q] \subseteq handled'[q]
  BY <1>1, <1>2
<1>6. HeldInv'
  <2>1. ASSUME NEW i \in 1..Len(commitCh')
        PROVE  commitCh'[i].offset \in handled'[commitCh'[i].partition]
    <3>1. CASE i = Len(commitCh) + 1
      BY <1>1, <1>2, <1>3, <3>1
    <3>2. CASE i \in 1..Len(commitCh)
      <4>1. commitCh[i] \in Message
        BY <1>2, <3>2
      <4> QED BY <1>3, <1>5, <3>2, <4>1 DEF RInv, HeldInv, Message
    <3> QED BY <1>2, <1>3, <3>1, <3>2
  <2> QED BY <1>1, <1>5, <2>1 DEF RInv, HeldInv
<1>7. CallInv' /\ CoverInv' /\ FreshnessInv'
  BY <1>1, <1>5 DEF RInv, CallInv, InCommit, CoverInv, Covered, FreshnessInv
<1> QED BY <1>4, <1>6, <1>7 DEF RInv

\* Partition p comes back from another member.
LEMMA RebalanceRInv ==
    ASSUME RInv, NEW p \in Partitions, NEW n \in 0..(MaxOffset + 1), Rebalance(p, n)
    PROVE  RInv'
<1>1. /\ UNCHANGED <<commitCh, chOpen, ctxDone, nextOffset, pending, pendingTotal, commitErrs,
                     pc, cur, todo, skipped>>
      /\ rebalances < MaxRebalances /\ rebalances' = rebalances + 1
      /\ n >= committed[p]
      /\ committed' = [committed EXCEPT ![p] = n]
      /\ startAt' = [startAt EXCEPT ![p] = n]
      /\ handled' = [handled EXCEPT ![p] = @ \union committed[p]..(n - 1)]
      /\ late' = [late EXCEPT ![p] = @ \union (startAt[p]..MaxOffset \ sent[p])]
      /\ sent' = [sent EXCEPT ![p] = {}]
  BY DEF Rebalance, coordVars
<1>2. committed[p] \in 0..(MaxOffset + 1) /\ startAt[p] \in 0..(MaxOffset + 1)
  BY DEF RInv, RTypeOK, TypeOK
<1>3. /\ committed[p]..(n - 1) \subseteq Offsets
      /\ startAt[p]..MaxOffset \subseteq Offsets
  BY <1>2, MaxOffsetAssumption DEF Offsets
<1>4. RTypeOK'
  BY <1>1, <1>3, MaxRebalancesAssumption DEF RInv, RTypeOK, TypeOK
<1>5. \A q \in Partitions : handled[q] \subseteq handled'[q]
  BY <1>1 DEF RInv, RTypeOK, TypeOK
<1>6. HeldInv'
  <2>1. ASSUME NEW i \in 1..Len(commitCh)
        PROVE  commitCh[i].offset \in handled'[commitCh[i].partition]
    <3>1. commitCh[i] \in Message
      BY DEF RInv, RTypeOK, TypeOK
    <3> QED BY <1>5, <3>1 DEF RInv, HeldInv, Message
  <2> QED BY <1>1, <1>5, <2>1 DEF RInv, HeldInv
<1>7. CoverInv'
  <2> SUFFICES ASSUME NEW q \in Partitions
               PROVE  (Covered(q, startAt[q]) /\ Covered(q, committed[q])
                         /\ Covered(q, nextOffset[q]))'
    BY DEF CoverInv
  <2>1. CASE q # p
    BY <1>1, <1>5, <2>1 DEF RInv, RTypeOK, TypeOK, CoverInv, Covered
  <2>2. CASE q = p
    <3>1. \A o \in Offsets : o < n => o \in handled'[p] \union skipped[p]
      BY <1>1, <1>2, MaxOffsetAssumption
         DEF RInv, RTypeOK, TypeOK, CoverInv, Covered, Offsets
    <3> QED BY <1>1, <1>5, <2>2, <3>1 DEF RInv, RTypeOK, TypeOK, CoverInv, Covered
  <2> QED BY <2>1, <2>2
<1>8. CallInv' /\ FreshnessInv'
  BY <1>1, MaxOffsetAssumption DEF RInv, RTypeOK, TypeOK, CallInv, InCommit, FreshnessInv, None
<1> QED BY <1>4, <1>6, <1>7, <1>8 DEF RInv

\* What commitNext does to the buffers and the call, on buffers pd whose
\* messages have been completed.
LEMMA CommitNextRInv ==
    ASSUME NEW p \in Partitions, NEW nx \in [Partitions -> {None} \union 0..(MaxOffset + 1)],
           NEW pd \in [Partitions -> SUBSET Offsets], NEW total \in Int,
           NEW h, \A q \in Partitions : pd[q] \subseteq h[q],
           NEW idle \in {"select", "flush"}, NEW busy \in {"drain", "flushing"},
           CommitNext(p, nx, pd, total, idle, busy)
    PROVE  /\ pending' \in [Partitions -> SUBSET Offsets]
           /\ pendingTotal' \in Int
           /\ pc' \in {idle, busy}
           /\ cur' \in Partitions \union {NoPartition}
           /\ pc' \in InCommit <=> cur' # NoPartition
           /\ \A q \in Partitions : pending'[q] \subseteq h[q]
           /\ \A q \in Partitions : cur' = q => nx[q] \in h[q]
BY NoPartitionAssumption DEF CommitNext, InCommit

\* The coordinator receives a completion and begins to drain.
LEMMA ReceiveRInv ==
    ASSUME RInv, Receive, UNCHANGED <<late, rebalances>>
    PROVE  RInv'
<1>1. /\ commitCh \in Seq(Message) /\ commitCh # <<>>
      /\ UNCHANGED <<chOpen, ctxDone, commitErrs, todo, committed, startAt, sent, handled, late,
                     rebalances>>
      /\ commitCh' = Tail(commitCh)
  BY DEF RInv, RTypeOK, TypeOK, Receive
<1>2. /\ commitCh' \in Seq(Message) /\ Len(commitCh') = Len(commitCh) - 1
      /\ \A i \in 1..Len(commitCh') : commitCh'[i] = commitCh[i + 1]
      /\ Head(commitCh) = commitCh[1] /\ 1 \in 1..Len(commitCh)
      /\ Len(commitCh) \in Nat
  BY <1>1
<1>3. PICK p \in Partitions, o \in Offsets : Head(commitCh) = [partition |-> p, offset |-> o]
  <2>1. Head(commitCh) \in Message
    BY <1>1, <1>2
  <2> QED BY <2>1 DEF Message
<1>4. Head(commitCh).partition = p /\ Head(commitCh).offset = o
  BY <1>3
<1>5. o \in handled[p]
  BY <1>2, <1>4 DEF RInv, HeldInv
<1> DEFINE pd == [pending EXCEPT ![p] = @ \union {o}]
<1>6. /\ nextOffset' = [nextOffset EXCEPT ![p] = Initialised(p, o)]
      /\ skipped' = [skipped EXCEPT ![p] = @ \union Passed(p, o)]
      /\ CommitNext(p, nextOffset', pd, pendingTotal + 1, "select", "drain")
  BY <1>4, Zenon DEF Receive
<1>7. /\ pd \in [Partitions -> SUBSET Offsets]
      /\ \A q \in Partitions : pd[q] \subseteq handled[q]
      /\ nextOffset' \in [Partitions -> {None} \union 0..(MaxOffset + 1)]
      /\ pendingTotal + 1 \in Int
  BY <1>5, <1>6, MaxOffsetAssumption
     DEF RInv, RTypeOK, TypeOK, HeldInv, Initialised, Offsets
<1> HIDE DEF pd
<1>8. /\ pending' \in [Partitions -> SUBSET Offsets]
      /\ pendingTotal' \in Int
      /\ pc' \in {"select", "drain"}
      /\ cur' \in Partitions \union {NoPartition}
      /\ CallInv'
      /\ \A q \in Partitions : pending'[q] \subseteq handled[q]
      /\ \A q \in Partitions : cur' = q => nextOffset'[q] \in handled[q]
  BY <1>6, <1>7, CommitNextRInv DEF CallInv, InCommit
<1>9. /\ Passed(p, o) \subseteq Offsets
      /\ nextOffset[p] # None => Passed(p, o) = {} /\ Initialised(p, o) = nextOffset[p]
      /\ nextOffset[p] = None => Passed(p, o) = startAt[p]..(o - 1) /\ Initialised(p, o) = o
      /\ startAt[p] \in 0..(MaxOffset + 1) /\ committed[p] \in 0..(MaxOffset + 1)
  BY MaxOffsetAssumption DEF RInv, RTypeOK, TypeOK, Passed, Initialised, Offsets
<1>10. RTypeOK'
  <2>1. skipped' \in [Partitions -> SUBSET Offsets]
    BY <1>6, <1>9 DEF RInv, RTypeOK, TypeOK
  <2> QED BY <1>1, <1>2, <1>7, <1>8, <2>1, ChanCapAssumption DEF RInv, RTypeOK, TypeOK
<1>11. HeldInv'
  BY <1>1, <1>2, <1>8 DEF RInv, HeldInv
<1>12. CoverInv'
  <2>1. \A q \in Partitions : skipped[q] \subseteq skipped'[q]
    BY <1>6 DEF RInv, RTypeOK, TypeOK
  <2>2. ASSUME NEW x \in Offsets, x < nextOffset'[p]
        PROVE  x \in handled[p] \union skipped'[p]
    <3>1. CASE nextOffset[p] # None
      BY <1>6, <1>9, <2>1, <2>2, <3>1 DEF RInv, RTypeOK, TypeOK, CoverInv, Covered
    <3>2. CASE nextOffset[p] = None
      <4>1. nextOffset'[p] = o /\ skipped'[p] = skipped[p] \union startAt[p]..(o - 1)
        BY <1>6, <1>9, <3>2 DEF RInv, RTypeOK, TypeOK
      <4>2. x < startAt[p] \/ x \in startAt[p]..(o - 1)
        BY <1>9, <2>2, <4>1, MaxOffsetAssumption DEF Offsets
      <4> QED BY <4>1, <4>2 DEF RInv, CoverInv, Covered
    <3> QED BY <3>1, <3>2
  <2>3. ASSUME NEW q \in Partitions, q # p
        PROVE  nextOffset'[q] = nextOffset[q]
    BY <1>6, <2>3 DEF RInv, RTypeOK, TypeOK
  <2> QED BY <1>1, <2>1, <2>2, <2>3 DEF RInv, CoverInv, Covered
<1>13. FreshnessInv'
  <2> SUFFICES ASSUME NEW q \in Partitions
               PROVE  /\ nextOffset'[q] = None => committed[q] = startAt[q]
                      /\ nextOffset'[q] >= startAt[q] => committed[q] <= nextOffset'[q] + 1
    BY <1>1 DEF FreshnessInv
  <2>1. CASE q # p \/ nextOffset[p] # None
    BY <1>6, <1>9, <2>1 DEF RInv, RTypeOK, TypeOK, FreshnessInv
  <2>2. CASE q = p /\ nextOffset[p] = None
    <3>1. nextOffset'[p] = o /\ committed[p] = startAt[p]
      BY <1>6, <1>9, <2>2 DEF RInv, RTypeOK, TypeOK, FreshnessInv
    <3> QED BY <1>9, <2>2, <3>1, MaxOffsetAssumption DEF Offsets, None
  <2> QED BY <2>1, <2>2
<1> QED BY <1>8, <1>10, <1>11, <1>12, <1>13 DEF RInv

\* CommitMessages returned nil, or failed with the broker having taken the offset.
LEMMA CommitRInv ==
    ASSUME RInv, UNCHANGED <<late, rebalances>>,
           CommitOK \/ \E tookEffect \in BOOLEAN : CommitErr(tookEffect)
    PROVE  /\ RInv'
           /\ \A p \in Partitions : committed'[p] < committed[p] => nextOffset[p] < startAt[p]
<1> DEFINE p == cur
           n == nextOffset[p]
<1>1. /\ p \in Partitions /\ n \in Offsets /\ n \in handled[p]
      /\ pc \in InCommit
  BY DEF RInv, RTypeOK, TypeOK, CallInv, HeldInv, CommitOK, CommitErr
<1>2. LoopExit \in {"select", "flush"} /\ pc \in {"drain", "flushing"}
  BY <1>1 DEF LoopExit, InCommit
<1>3. /\ UNCHANGED <<commitCh, chOpen, ctxDone, todo, startAt, sent, handled, skipped, late,
                     rebalances>>
      /\ commitErrs' = commitErrs \/ commitErrs' = commitErrs + 1
      /\ \/ committed' = [committed EXCEPT ![p] = n + 1]
         \/ committed' = committed /\ nextOffset' = nextOffset
      /\ \/ nextOffset' = nextOffset
         \/ /\ nextOffset' = [nextOffset EXCEPT ![p] = n + 1]
            /\ committed' = [committed EXCEPT ![p] = n + 1]
  BY DEF CommitOK, CommitErr, procVars
<1>4. /\ nextOffset' \in [Partitions -> {None} \union 0..(MaxOffset + 1)]
      /\ committed' \in [Partitions -> 0..(MaxOffset + 1)]
  <2>1. n + 1 \in 0..(MaxOffset + 1)
    BY <1>1, MaxOffsetAssumption DEF Offsets
  <2> HIDE DEF n, p
  <2> QED BY <1>1, <1>3, <2>1 DEF RInv, RTypeOK, TypeOK
<1>5. /\ pending' \in [Partitions -> SUBSET Offsets]
      /\ pendingTotal' \in Int
      /\ pc' \in {"select", "drain", "flush", "flushing", "stopped"}
      /\ cur' \in Partitions \union {NoPartition}
      /\ CallInv'
      /\ \A q \in Partitions : pending'[q] \subseteq handled[q]
      /\ \A q \in Partitions : cur' = q => nextOffset'[q] \in handled[q]
  <2>1. CASE CommitOK
    <3>1. CommitNext(p, nextOffset', pending, pendingTotal, LoopExit, pc)
      BY <2>1 DEF CommitOK
    <3>2. pending \in [Partitions -> SUBSET Offsets] /\ pendingTotal \in Int
          /\ \A q \in Partitions : pending[q] \subseteq handled[q]
      BY DEF RInv, RTypeOK, TypeOK, HeldInv
    <3> HIDE DEF p
    <3> QED BY <1>1, <1>2, <1>4, <3>1, <3>2, CommitNextRInv DEF CallInv, InCommit
  <2>2. CASE \E tookEffect \in BOOLEAN : CommitErr(tookEffect)
    <3>1. /\ pending' = [pending EXCEPT ![p] = @ \union {n}]
          /\ pendingTotal' = pendingTotal + 1
          /\ pc' = LoopExit /\ cur' = NoPartition
      BY <2>2 DEF CommitErr
    <3> HIDE DEF p, n
    <3> QED BY <1>1, <1>2, <3>1, NoPartitionAssumption
            DEF RInv, RTypeOK, TypeOK, HeldInv, CallInv, InCommit
  <2> QED BY <2>1, <2>2
<1>6. RTypeOK'
  BY <1>3, <1>4, <1>5 DEF RInv, RTypeOK, TypeOK
<1>7. HeldInv'
  BY <1>3, <1>5 DEF RInv, HeldInv
<1>8. \A x \in Offsets : x < n + 1 => x \in handled[p] \union skipped[p]
  <2> HIDE DEF p
  <2> QED BY <1>1, MaxOffsetAssumption DEF RInv, CoverInv, Covered, Offsets
<1> HIDE DEF p, n
<1>9. CoverInv'
  BY <1>1, <1>3, <1>8 DEF RInv, RTypeOK, TypeOK, CoverInv, Covered
<1>10. /\ committed[p] \in 0..(MaxOffset + 1) /\ startAt[p] \in 0..(MaxOffset + 1)
       /\ n >= startAt[p] => committed[p] <= n + 1
  BY <1>1 DEF RInv, RTypeOK, TypeOK, FreshnessInv, n
<1>11. FreshnessInv'
  <2> SUFFICES ASSUME NEW q \in Partitions
               PROVE  /\ nextOffset'[q] = None => committed'[q] = startAt[q]
                      /\ nextOffset'[q] >= startAt[q] => committed'[q] <= nextOffset'[q] + 1
    BY <1>3 DEF FreshnessInv
  <2>1. CASE q # p
    BY <1>3, <2>1 DEF RInv, RTypeOK, TypeOK, FreshnessInv
  <2>2. CASE q = p
    <3>1. \/ committed'[p] = committed[p] /\ nextOffset'[p] = n
          \/ committed'[p] = n + 1 /\ nextOffset'[p] = n
          \/ committed'[p] = n + 1 /\ nextOffset'[p] = n + 1
      BY <1>1, <1>3 DEF RInv, RTypeOK, TypeOK, n
    <3> QED BY <1>1, <1>10, <2>2, <3>1, MaxOffsetAssumption DEF Offsets, None
  <2> QED BY <2>1, <2>2
<1>12. ASSUME NEW q \in Partitions, committed'[q] < committed[q]
       PROVE  nextOffset[q] < startAt[q]
  <2>0. committed[q] \in Int
    BY DEF RInv, RTypeOK, TypeOK
  <2>1. q = p /\ committed'[q] = n + 1
    BY <1>1, <1>3, <1>12, <2>0 DEF RInv, RTypeOK, TypeOK
  <2>2. n < startAt[p]
    BY <1>1, <1>10, <1>12, <2>1, MaxOffsetAssumption DEF Offsets
  <2> QED BY <2>1, <2>2 DEF n
<1> QED BY <1>5, <1>6, <1>7, <1>9, <1>11, <1>12 DEF RInv

\* flush visits a partition.
LEMMA FlushRInv ==
    ASSUME RInv, UNCHANGED <<late, rebalances>>, NEW p \in Partitions, FlushPartition(p)
    PROVE  RInv'
<1>1. /\ UNCHANGED <<commitCh, chOpen, ctxDone, nextOffset, commitErrs, committed, startAt, sent,
                     handled, skipped>>
      /\ todo' \subseteq todo
      /\ CommitNext(p, nextOffset, pending, pendingTotal, "flush", "flushing")
  BY DEF FlushPartition, procVars
<1>2. /\ pending \in [Partitions -> SUBSET Offsets] /\ pendingTotal \in Int
      /\ nextOffset \in [Partitions -> {None} \union 0..(MaxOffset + 1)]
      /\ \A q \in Partitions : pending[q] \subseteq handled[q]
  BY DEF RInv, RTypeOK, TypeOK, HeldInv
<1>3. /\ pending' \in [Partitions -> SUBSET Offsets]
      /\ pendingTotal' \in Int
      /\ pc' \in {"flush", "flushing"}
      /\ cur' \in Partitions \union {NoPartition}
      /\ CallInv'
      /\ \A q \in Partitions : pending'[q] \subseteq handled[q]
      /\ \A q \in Partitions : cur' = q => nextOffset[q] \in handled[q]
  BY <1>1, <1>2, CommitNextRInv DEF CallInv, InCommit
<1>4. RTypeOK'
  BY <1>1, <1>3 DEF RInv, RTypeOK, TypeOK
<1>5. HeldInv' /\ CoverInv' /\ FreshnessInv'
  BY <1>1, <1>3 DEF RInv, HeldInv, CoverInv, Covered, FreshnessInv
<1> QED BY <1>3, <1>4, <1>5 DEF RInv

\* Steps that only move the coordinator's control, the context or the channel's
\* open end.
LEMMA QuietRInv ==
    ASSUME RInv, UNCHANGED <<late, rebalances>>, Cancel \/ Close \/ BeginFlush \/ FlushDone
    PROVE  RInv'
<1>1. /\ UNCHANGED <<commitCh, nextOffset, pending, pendingTotal, commitErrs, cur, committed,
                     startAt, sent, handled, skipped>>
      /\ pc' = pc \/ (pc \notin InCommit /\ pc' \in {"flush", "stopped"})
      /\ chOpen' = chOpen \/ chOpen' = FALSE
      /\ ctxDone' = ctxDone \/ ctxDone' = TRUE
      /\ todo' = todo \/ todo' = Partitions
  BY DEF Cancel, Close, BeginFlush, FlushDone, coordVars, procVars, InCommit
<1>2. RTypeOK'
  BY <1>1 DEF RInv, RTypeOK, TypeOK
<1>3. CallInv'
  BY <1>1 DEF RInv, CallInv, InCommit
<1> QED BY <1>1, <1>2, <1>3 DEF RInv, HeldInv, CoverInv, Covered, FreshnessInv

\* A new process, with nothing in memory, resumes where the group is.
LEMMA RestartRInv ==
    ASSUME RInv, Restart, late' = [p \in Partitions |-> {}], rebalances' = 0
    PROVE  RInv'
<1>1. RTypeOK'
  <2>1. commitCh' \in Seq(Message) /\ Len(commitCh') <= ChanCap
    BY ChanCapAssumption DEF Restart
  <2>2. rebalances' \in 0..MaxRebalances /\ commitErrs' \in Nat
    BY MaxRebalancesAssumption DEF Restart
  <2>3. chOpen' \in BOOLEAN /\ ctxDone' \in BOOLEAN
    BY DEF Restart
  <2>4. /\ pending' \in [Partitions -> SUBSET Offsets] /\ sent' \in [Partitions -> SUBSET Offsets]
        /\ handled' \in [Partitions -> SUBSET Offsets] /\ skipped' \in [Partitions -> SUBSET Offsets]
        /\ late' \in [Partitions -> SUBSET Offsets]
    BY DEF Restart, RInv, RTypeOK, TypeOK
  <2>5. /\ nextOffset' \in [Partitions -> {None} \union 0..(MaxOffset + 1)]
        /\ committed' \in [Partitions -> 0..(MaxOffset + 1)]
        /\ startAt' \in [Partitions -> 0..(MaxOffset + 1)]
    BY DEF Restart, RInv, RTypeOK, TypeOK
  <2>6. /\ pendingTotal' \in Int
        /\ pc' \in {"select", "drain", "flush", "flushing", "stopped"}
        /\ cur' \in Partitions \union {NoPartition}
        /\ todo' \subseteq Partitions
    BY DEF Restart
  <2> QED BY <2>1, <2>2, <2>3, <2>4, <2>5, <2>6 DEF RTypeOK, TypeOK
<1>2. CoverInv'
  BY DEF RInv, RTypeOK, TypeOK, CoverInv, Covered, Restart, None, Offsets
<1>3. CallInv' /\ HeldInv'
  BY NoPartitionAssumption DEF CallInv, HeldInv, Restart, InCommit
<1>4. FreshnessInv'
  BY DEF RInv, RTypeOK, TypeOK, FreshnessInv, Restart, None
<1> QED BY <1>1, <1>2, <1>3, <1>4 DEF RInv

--------------------------------------------------------------------------------
(* The theorems.                                                           *)

\* The invariant holds when a process takes its first assignment.
LEMMA InitRInv == RInit => RInv
<1> SUFFICES ASSUME RInit PROVE RInv
  OBVIOUS
<1>1. RTypeOK
  <2>1. commitCh \in Seq(Message) /\ Len(commitCh) <= ChanCap
    BY ChanCapAssumption DEF RInit, Init
  <2>2. rebalances \in 0..MaxRebalances /\ commitErrs \in Nat /\ 0 \in 0..(MaxOffset + 1)
    BY MaxRebalancesAssumption, MaxOffsetAssumption DEF RInit, Init
  <2>3. chOpen \in BOOLEAN /\ ctxDone \in BOOLEAN
    BY DEF RInit, Init
  <2>4. /\ pending \in [Partitions -> SUBSET Offsets] /\ sent \in [Partitions -> SUBSET Offsets]
        /\ handled \in [Partitions -> SUBSET Offsets] /\ skipped \in [Partitions -> SUBSET Offsets]
        /\ late \in [Partitions -> SUBSET Offsets]
    BY DEF RInit, Init
  <2>5. /\ nextOffset \in [Partitions -> {None} \union 0..(MaxOffset + 1)]
        /\ committed \in [Partitions -> 0..(MaxOffset + 1)]
        /\ startAt \in [Partitions -> 0..(MaxOffset + 1)]
    BY <2>2 DEF RInit, Init
  <2>6. /\ pendingTotal \in Int
        /\ pc \in {"select", "drain", "flush", "flushing", "stopped"}
        /\ cur \in Partitions \union {NoPartition}
        /\ todo \subseteq Partitions
    BY DEF RInit, Init
  <2> QED BY <2>1, <2>2, <2>3, <2>4, <2>5, <2>6 DEF RTypeOK, TypeOK
<1>2. CallInv /\ HeldInv /\ CoverInv /\ FreshnessInv
  BY NoPartitionAssumption
     DEF RInit, Init, CallInv, HeldInv, CoverInv, Covered, FreshnessInv, InCommit, None, Offsets
<1> QED BY <1>1, <1>2 DEF RInv

\* One step of the specification keeps the invariant, and moves the group's
\* offset back only under a stale next offset.
LEMMA StepRInv ==
    ASSUME RInv, [RNext]_rvars
    PROVE  /\ RInv'
           /\ \A p \in Partitions : committed'[p] < committed[p] => nextOffset[p] < startAt[p]
<1>0. /\ committed \in [Partitions -> 0..(MaxOffset + 1)]
      /\ \A p \in Partitions : committed[p] \in Int
  BY DEF RInv, RTypeOK, TypeOK
<1>1. CASE UNCHANGED <<late, rebalances>> /\ \E p \in Partitions, o \in Offsets : Send(p, o)
  <2>1. RInv' BY <1>1, SendRInv
  <2>2. committed' = committed BY <1>1 DEF Send, SendEffect
  <2> QED BY <1>0, <2>1, <2>2
<1>2. CASE \E p \in Partitions, o \in Offsets : LateSend(p, o)
  <2>1. RInv' BY <1>2, SendRInv
  <2>2. committed' = committed BY <1>2 DEF LateSend
  <2> QED BY <1>0, <2>1, <2>2
<1>3. CASE \E p \in Partitions, n \in 0..(MaxOffset + 1) : Rebalance(p, n)
  <2>1. RInv' BY <1>3, RebalanceRInv
  <2>2. PICK p \in Partitions, n \in 0..(MaxOffset + 1) :
          n >= committed[p] /\ committed' = [committed EXCEPT ![p] = n]
    BY <1>3 DEF Rebalance
  <2> QED BY <1>0, <2>1, <2>2
<1>4. CASE UNCHANGED <<late, rebalances>> /\ (Cancel \/ Close \/ BeginFlush \/ FlushDone)
  <2>1. RInv' BY <1>4, QuietRInv
  <2>2. committed' = committed BY <1>4 DEF Cancel, Close, BeginFlush, FlushDone
  <2> QED BY <1>0, <2>1, <2>2
<1>5. CASE UNCHANGED <<late, rebalances>> /\ Receive
  <2>1. RInv' BY <1>5, ReceiveRInv
  <2>2. committed' = committed BY <1>5 DEF Receive
  <2> QED BY <1>0, <2>1, <2>2
<1>6. CASE /\ UNCHANGED <<late, rebalances>>
           /\ CommitOK \/ \E tookEffect \in BOOLEAN : CommitErr(tookEffect)
  BY <1>6, CommitRInv
<1>7. CASE UNCHANGED <<late, rebalances>> /\ \E p \in Partitions : FlushPartition(p)
  <2>1. RInv' BY <1>7, FlushRInv
  <2>2. committed' = committed BY <1>7 DEF FlushPartition
  <2> QED BY <1>0, <2>1, <2>2
<1>8. CASE Restart /\ late' = [p \in Partitions |-> {}] /\ rebalances' = 0
  <2>1. RInv' BY <1>8, RestartRInv
  <2>2. committed' = committed BY <1>8 DEF Restart
  <2> QED BY <1>0, <2>1, <2>2
<1>9. CASE UNCHANGED rvars
  BY <1>0, <1>9 DEF rvars, vars, RInv, RTypeOK, TypeOK, CallInv, HeldInv, CoverInv, Covered,
     FreshnessInv
<1> QED BY <1>1, <1>2, <1>3, <1>4, <1>5, <1>6, <1>7, <1>8, <1>9 DEF RNext, Coordinator

\* The inductive invariant holds in every reachable state.
THEOREM RebalanceInvariant == RSpec => []RInv
<1>1. RInv /\ [RNext]_rvars => RInv'
  BY StepRInv
<1> QED BY <1>1, InitRInv, PTL DEF RSpec

\* Whatever moves between the group's members, with jobs of earlier assignments
\* still completing: the committed offset is never past an offset nobody
\* completed, except those enqueue's initialisation jumped over.
THEOREM RebalanceCoverage == RSpec => []CommitCoversHandled
<1>1. RInv => CommitCoversHandled
  BY DEF RInv, CoverInv, Covered, CommitCoversHandled
<1> QED BY <1>1, RebalanceInvariant, PTL

\* The group's offset is moved back only by a coordinator whose next offset for
\* the partition is from before the present assignment.
THEOREM RegressionNeedsStaleOffset == RSpec => RegressOnlyByStaleOffset
<1>1. RInv /\ [RNext]_rvars =>
        [\A p \in Partitions : committed'[p] < committed[p] => nextOffset[p] < startAt[p]]_rvars
  BY StepRInv
<1> QED BY <1>1, RebalanceInvariant, PTL DEF RSpec, RegressOnlyByStaleOffset

================================================================================
