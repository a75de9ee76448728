------------------------ MODULE CommitCoordinatorProofs ------------------------
(***************************************************************************)
(* Proofs about CommitCoordinator, for every set of partitions, log length,*)
(* channel capacity and number of commit failures.                         *)
(***************************************************************************)
EXTENDS CommitCoordinator, FiniteSetTheorems, TLAPS

--------------------------------------------------------------------------------
(* The inductive invariant.                                                *)

\* Messages in a channel, and a channel that holds no message twice.
Contents(s) == {s[i] : i \in 1..Len(s)}
Distinct(s) == \A i, j \in 1..Len(s) : s[i] = s[j] => i = j

InChan(p, o) == [partition |-> p, offset |-> o] \in Contents(commitCh)

\* A CommitMessages call is in progress exactly when cur names its partition.
ControlInv == (pc \in InCommit) <=> (cur # NoPartition)

\* What is on the channel or buffered was sent, and sent at most once.
ChannelInv ==
    /\ Distinct(commitCh)
    /\ \A p \in Partitions, o \in Offsets :
          InChan(p, o) => o \in sent[p] /\ o \notin pending[p]

BufferInv ==
    \A p \in Partitions :
        /\ pending[p] \subseteq sent[p]
        /\ sent[p] \subseteq handled[p]
        /\ \A o \in sent[p] : startAt[p] <= o

\* A partition without a next offset has seen no completion in this process.
FreshInv ==
    \A p \in Partitions : nextOffset[p] = None =>
        /\ pending[p] = {}
        /\ committed[p] = startAt[p]
        /\ cur # p
        /\ \A o \in sent[p] : InChan(p, o)

\* The message being committed is the expected one, sent and nowhere else.
CallInv ==
    \A p \in Partitions : cur = p =>
        /\ nextOffset[p] \in sent[p]
        /\ nextOffset[p] \notin pending[p]
        /\ ~InChan(p, nextOffset[p])

\* Offsets below the next one were jumped over, or went through the buffer and
\* left it; offsets from it on are still held somewhere.
OrderInv ==
    \A p \in Partitions : nextOffset[p] # None =>
        /\ startAt[p] <= nextOffset[p]
        /\ \A o \in Offsets : startAt[p] <= o /\ o < nextOffset[p] =>
              \/ o \in skipped[p]
              \/ o \in sent[p] /\ o \notin pending[p] /\ ~InChan(p, o)
        /\ \A o \in sent[p] : nextOffset[p] <= o =>
              \/ o \in pending[p]
              \/ InChan(p, o)
              \/ cur = p /\ o = nextOffset[p]

\* The broker is at most one commit ahead of the coordinator, and then that
\* commit was reported as failed.
BrokerInv ==
    \A p \in Partitions :
        /\ startAt[p] <= committed[p]
        /\ \A o \in Offsets : o < startAt[p] => o \in handled[p] \union skipped[p]
        /\ nextOffset[p] # None =>
              \/ committed[p] <= nextOffset[p]
              \/ committed[p] = nextOffset[p] + 1 /\ nextOffset[p] \in handled[p]

\* As long as no commit has failed, nothing committable is left in the buffer.
PromptInv ==
    \A p \in Partitions :
        (commitErrs = 0 /\ nextOffset[p] # None /\ cur # p) =>
            committed[p] = nextOffset[p] /\ nextOffset[p] \notin pending[p]

IInv ==
    /\ TypeOK
    /\ ControlInv
    /\ ChannelInv
    /\ BufferInv
    /\ FreshInv
    /\ CallInv
    /\ OrderInv
    /\ BrokerInv
    /\ PromptInv

--------------------------------------------------------------------------------
(* Facts about the channel.                                                *)

\* Sending a message that is not on the channel adds exactly it.
LEMMA AppendContents ==
    ASSUME NEW s \in Seq(Message), NEW m \in Message
    PROVE  /\ Append(s, m) \in Seq(Message)
           /\ Len(Append(s, m)) = Len(s) + 1
           /\ Contents(Append(s, m)) = Contents(s) \union {m}
           /\ Distinct(s) /\ m \notin Contents(s) => Distinct(Append(s, m))
<1> DEFINE t == Append(s, m)
<1>1. /\ t \in Seq(Message)
      /\ Len(t) = Len(s) + 1
      /\ \A i \in 1..Len(s) : t[i] = s[i]
      /\ t[Len(s) + 1] = m
  OBVIOUS
<1>2. Contents(t) = Contents(s) \union {m}
  <2>1. ASSUME NEW x \in Contents(t) PROVE x \in Contents(s) \union {m}
    BY <1>1 DEF Contents
  <2>2. ASSUME NEW x \in Contents(s) PROVE x \in Contents(t)
    BY <1>1 DEF Contents
  <2>3. m \in Contents(t)
    BY <1>1 DEF Contents
  <2> QED BY <2>1, <2>2, <2>3
<1>3. ASSUME Distinct(s), m \notin Contents(s) PROVE Distinct(t)
  BY <1>1, <1>3 DEF Distinct, Contents
<1> QED BY <1>1, <1>2, <1>3

\* Receiving takes exactly the head off a channel without duplicates.
LEMMA TailContents ==
    ASSUME NEW s \in Seq(Message), s # <<>>, Distinct(s)
    PROVE  /\ Head(s) \in Message
           /\ Head(s) \in Contents(s)
           /\ Tail(s) \in Seq(Message)
           /\ Len(Tail(s)) < Len(s)
           /\ Contents(Tail(s)) = Contents(s) \ {Head(s)}
           /\ Distinct(Tail(s))
<1> DEFINE t == Tail(s)
<1>1. /\ t \in Seq(Message)
      /\ Len(s) \in Nat /\ Len(s) > 0
      /\ Len(t) = Len(s) - 1
      /\ \A i \in 1..Len(t) : t[i] = s[i + 1]
      /\ Head(s) = s[1]
      /\ s[1] \in Message
  OBVIOUS
<1>2. Head(s) \in Contents(s)
  BY <1>1 DEF Contents
<1>3. Contents(t) = Contents(s) \ {Head(s)}
  <2>1. ASSUME NEW x \in Contents(t) PROVE x \in Contents(s) \ {Head(s)}
    <3>1. PICK i \in 1..Len(t) : x = t[i]
      BY DEF Contents
    <3>2. i + 1 \in 1..Len(s) /\ x = s[i + 1] /\ 1 \in 1..Len(s) /\ i + 1 # 1
      BY <1>1, <3>1
    <3> QED BY <1>1, <3>2 DEF Contents, Distinct
  <2>2. ASSUME NEW x \in Contents(s), x # Head(s) PROVE x \in Contents(t)
    <3>1. PICK i \in 1..Len(s) : x = s[i]
      BY DEF Contents
    <3>2. i # 1
      BY <1>1, <2>2, <3>1
    <3>3. i - 1 \in 1..Len(t) /\ t[i - 1] = s[i]
      BY <1>1, <3>1, <3>2
    <3> QED BY <3>1, <3>3 DEF Contents
  <2> QED BY <2>1, <2>2
<1>4. Distinct(t)
  <2> SUFFICES ASSUME NEW i \in 1..Len(t), NEW j \in 1..Len(t), t[i] = t[j]
               PROVE  i = j
    BY DEF Distinct
  <2>1. i + 1 \in 1..Len(s) /\ j + 1 \in 1..Len(s) /\ s[i + 1] = s[j + 1]
    BY <1>1
  <2>2. i + 1 = j + 1
    BY <2>1 DEF Distinct
  <2> QED BY <2>2
<1> QED BY <1>1, <1>2, <1>3, <1>4

--------------------------------------------------------------------------------
(* Every action preserves the inductive invariant.                         *)

USE NoPartitionAssumption, MaxOffsetAssumption, ChanCapAssumption,
    MaxCommitErrorsAssumption

\* The initial state satisfies it.
LEMMA InitInv == Init => IInv
<1> SUFFICES ASSUME Init PROVE IInv
  OBVIOUS
<1>0. commitCh \in Seq(Message) /\ Len(commitCh) = 0
  BY DEF Init
<1> USE DEF Init, None, Offsets, InCommit
<1>1. TypeOK
  <2>1. commitCh \in Seq(Message) /\ Len(commitCh) <= ChanCap
    BY <1>0
  <2>2. chOpen \in BOOLEAN /\ ctxDone \in BOOLEAN
    OBVIOUS
  <2>3. nextOffset \in [Partitions -> {None} \union 0..(MaxOffset + 1)]
    OBVIOUS
  <2>4. /\ pending \in [Partitions -> SUBSET Offsets]
        /\ sent \in [Partitions -> SUBSET Offsets]
        /\ handled \in [Partitions -> SUBSET Offsets]
        /\ skipped \in [Partitions -> SUBSET Offsets]
    OBVIOUS
  <2>5. /\ committed \in [Partitions -> 0..(MaxOffset + 1)]
        /\ startAt \in [Partitions -> 0..(MaxOffset + 1)]
    OBVIOUS
  <2>6. /\ pendingTotal \in Int
        /\ commitErrs \in Nat
        /\ pc \in {"select", "drain", "flush", "flushing", "stopped"}
        /\ cur \in Partitions \union {NoPartition}
        /\ todo \subseteq Partitions
    OBVIOUS
  <2> QED BY <2>1, <2>2, <2>3, <2>4, <2>5, <2>6 DEF TypeOK
<1>2. Contents(commitCh) = {} /\ Distinct(commitCh)
  BY DEF Contents, Distinct
<1>3. \A p \in Partitions, o \in Offsets : ~InChan(p, o)
  BY <1>2 DEF InChan
<1>4. ControlInv /\ BufferInv /\ FreshInv /\ CallInv /\ OrderInv /\ BrokerInv /\ PromptInv
  BY DEF ControlInv, BufferInv, FreshInv, CallInv, OrderInv, BrokerInv, PromptInv
<1>5. ChannelInv
  BY <1>2, <1>3 DEF ChannelInv
<1> QED BY <1>1, <1>4, <1>5 DEF IInv

\* A completed message enters the channel.
LEMMA SendInv ==
    ASSUME IInv, NEW p \in Partitions, NEW o \in Offsets, Send(p, o)
    PROVE  IInv'
<1> DEFINE m == [partition |-> p, offset |-> o]
<1> USE DEF Send, SendEffect, coordVars
<1>1. m \in Message /\ commitCh \in Seq(Message)
  BY DEF Message, IInv, TypeOK
<1>2. m \notin Contents(commitCh)
  BY DEF IInv, ChannelInv, InChan
<1>3. /\ commitCh' \in Seq(Message)
      /\ Len(commitCh') = Len(commitCh) + 1
      /\ Contents(commitCh') = Contents(commitCh) \union {m}
      /\ Distinct(commitCh')
  BY <1>1, <1>2, AppendContents DEF IInv, ChannelInv
<1>4. \A q \in Partitions, x \in Offsets :
         InChan(q, x)' <=> (InChan(q, x) \/ (q = p /\ x = o))
  BY <1>3 DEF InChan
<1>5. TypeOK'
  BY <1>1, <1>3 DEF IInv, TypeOK
<1>6. /\ sent' \in [Partitions -> SUBSET Offsets]
      /\ sent'[p] = sent[p] \union {o}
      /\ \A q \in Partitions \ {p} : sent'[q] = sent[q]
      /\ handled'[p] = handled[p] \union {o}
      /\ \A q \in Partitions \ {p} : handled'[q] = handled[q]
      /\ UNCHANGED <<nextOffset, pending, commitErrs, pc, cur, committed, startAt, skipped>>
      /\ o >= startAt[p] /\ o \notin sent[p]
  BY DEF IInv, TypeOK
<1> HIDE DEF Send, SendEffect, coordVars
<1>7. ControlInv'
  BY <1>6 DEF IInv, ControlInv
<1>8. ChannelInv'
  BY <1>3, <1>4, <1>6 DEF IInv, ChannelInv, BufferInv
<1>9. BufferInv'
  BY <1>6 DEF IInv, BufferInv
<1>10. FreshInv'
  BY <1>4, <1>6 DEF IInv, FreshInv, TypeOK
<1>11. CallInv'
  BY <1>4, <1>6 DEF IInv, CallInv, TypeOK
<1>12. OrderInv'
  <2> SUFFICES ASSUME NEW q \in Partitions, nextOffset[q] # None
               PROVE  /\ startAt[q] <= nextOffset[q]
                      /\ \A x \in Offsets : startAt[q] <= x /\ x < nextOffset[q] =>
                            \/ x \in skipped[q]
                            \/ x \in sent'[q] /\ x \notin pending[q] /\ ~InChan(q, x)'
                      /\ \A x \in sent'[q] : nextOffset[q] <= x =>
                            \/ x \in pending[q]
                            \/ InChan(q, x)'
                            \/ cur = q /\ x = nextOffset[q]
    BY <1>6 DEF OrderInv
  <2>1. CASE q = p
    BY <1>4, <1>6, <2>1 DEF IInv, OrderInv, TypeOK
  <2>2. CASE q # p
    BY <1>4, <1>6, <2>2 DEF IInv, OrderInv, TypeOK
  <2> QED BY <2>1, <2>2
<1>13. BrokerInv'
  BY <1>6 DEF IInv, BrokerInv, TypeOK
<1>14. PromptInv'
  BY <1>6 DEF IInv, PromptInv
<1> QED BY <1>5, <1>7, <1>8, <1>9, <1>10, <1>11, <1>12, <1>13, <1>14 DEF IInv

\* Cancel, Close, BeginFlush and FlushDone touch nothing the parts relate.
LEMMA QuietInv ==
    ASSUME IInv, Cancel \/ Close \/ BeginFlush \/ FlushDone
    PROVE  IInv'
<1>1. /\ UNCHANGED <<commitCh, nextOffset, pending, pendingTotal, commitErrs, cur,
                     committed, startAt, sent, handled, skipped>>
      /\ (pc \in InCommit) = (pc' \in InCommit)
  BY DEF Cancel, Close, BeginFlush, FlushDone, coordVars, procVars, InCommit
<1>2. TypeOK'
  BY DEF IInv, TypeOK, Cancel, Close, BeginFlush, FlushDone, coordVars, procVars
<1>3. \A q \in Partitions, x \in Offsets : InChan(q, x)' <=> InChan(q, x)
  BY <1>1 DEF InChan
<1>4. ControlInv' /\ BufferInv' /\ BrokerInv' /\ PromptInv'
  BY <1>1 DEF IInv, ControlInv, BufferInv, BrokerInv, PromptInv
<1>5. ChannelInv' /\ FreshInv' /\ CallInv' /\ OrderInv'
  BY <1>1 DEF IInv, ChannelInv, FreshInv, CallInv, OrderInv, InChan
<1> QED BY <1>2, <1>4, <1>5 DEF IInv

\* A restart empties the process; the group's offset becomes the start.
LEMMA RestartInv ==
    ASSUME IInv, Restart
    PROVE  IInv'
<1>0. commitCh' \in Seq(Message) /\ Len(commitCh') = 0
  BY DEF Restart
<1> USE DEF Restart, None, Offsets, InCommit
<1>1. TypeOK'
  <2>1. commitCh' \in Seq(Message) /\ Len(commitCh') <= ChanCap
    BY <1>0
  <2>2. chOpen' \in BOOLEAN /\ ctxDone' \in BOOLEAN
    OBVIOUS
  <2>3. nextOffset' \in [Partitions -> {None} \union 0..(MaxOffset + 1)]
    OBVIOUS
  <2>4. /\ pending' \in [Partitions -> SUBSET Offsets]
        /\ sent' \in [Partitions -> SUBSET Offsets]
        /\ handled' \in [Partitions -> SUBSET Offsets]
        /\ skipped' \in [Partitions -> SUBSET Offsets]
    BY DEF IInv, TypeOK
  <2>5. /\ committed' \in [Partitions -> 0..(MaxOffset + 1)]
        /\ startAt' \in [Partitions -> 0..(MaxOffset + 1)]
    BY DEF IInv, TypeOK
  <2>6. /\ pendingTotal' \in Int
        /\ commitErrs' \in Nat
        /\ pc' \in {"select", "drain", "flush", "flushing", "stopped"}
        /\ cur' \in Partitions \union {NoPartition}
        /\ todo' \subseteq Partitions
    OBVIOUS
  <2> QED BY <2>1, <2>2, <2>3, <2>4, <2>5, <2>6 DEF TypeOK
<1>2. Contents(commitCh') = {} /\ Distinct(commitCh')
  BY DEF Contents, Distinct
<1>3. \A p \in Partitions, o \in Offsets : ~InChan(p, o)'
  BY <1>2 DEF InChan
<1>4. ControlInv' /\ BufferInv' /\ FreshInv' /\ CallInv' /\ OrderInv' /\ PromptInv'
  BY DEF ControlInv, BufferInv, FreshInv, CallInv, OrderInv, PromptInv
<1>5. ChannelInv'
  BY <1>2, <1>3 DEF ChannelInv
<1>6. BrokerInv'
  <2> SUFFICES ASSUME NEW p \in Partitions, NEW o \in Offsets, o < committed[p]
               PROVE  o \in handled[p] \union skipped[p]
    BY DEF BrokerInv, IInv, TypeOK
  <2>1. CASE o < startAt[p]
    BY <2>1 DEF IInv, BrokerInv
  <2>2. CASE o >= startAt[p] /\ nextOffset[p] = None
    BY <2>2 DEF IInv, FreshInv, TypeOK
  <2>3. CASE o >= startAt[p] /\ nextOffset[p] # None
    BY <2>3 DEF IInv, OrderInv, BrokerInv, BufferInv, TypeOK
  <2> QED BY <2>1, <2>2, <2>3 DEF IInv, TypeOK
<1> QED BY <1>1, <1>4, <1>5, <1>6 DEF IInv

\* A failed commit puts the message back where it came from.
LEMMA CommitErrInv ==
    ASSUME IInv, NEW tookEffect \in BOOLEAN, CommitErr(tookEffect)
    PROVE  IInv'
<1>1. /\ cur \in Partitions
      /\ nextOffset[cur] \in Offsets
      /\ nextOffset[cur] \in sent[cur] /\ nextOffset[cur] \notin pending[cur]
  BY DEF IInv, TypeOK, ControlInv, CallInv, CommitErr
<1> DEFINE p == cur
<1>2. /\ pending'[p] = pending[p] \union {nextOffset[p]}
      /\ \A q \in Partitions \ {p} : pending'[q] = pending[q]
      /\ committed'[p] \in {committed[p], nextOffset[p] + 1}
      /\ \A q \in Partitions \ {p} : committed'[q] = committed[q]
      /\ UNCHANGED <<commitCh, nextOffset, startAt, sent, handled, skipped>>
      /\ cur' = NoPartition
      /\ pc' \notin InCommit
      /\ commitErrs' # 0
  BY <1>1 DEF IInv, TypeOK, CommitErr, procVars, LoopExit, InCommit
<1>3. TypeOK'
  <2>1. /\ pending' \in [Partitions -> SUBSET Offsets]
        /\ committed' \in [Partitions -> 0..(MaxOffset + 1)]
    BY <1>1 DEF IInv, TypeOK, CommitErr, Offsets
  <2>2. /\ pendingTotal' \in Int
        /\ commitErrs' \in Nat
        /\ pc' \in {"select", "drain", "flush", "flushing", "stopped"}
        /\ cur' \in Partitions \union {NoPartition}
    BY DEF IInv, TypeOK, CommitErr, LoopExit
  <2> QED BY <2>1, <2>2 DEF IInv, TypeOK, CommitErr, procVars
<1>4. \A q \in Partitions, x \in Offsets : InChan(q, x)' <=> InChan(q, x)
  BY <1>2 DEF InChan
<1>5. ControlInv'
  BY <1>2 DEF ControlInv
<1>6. ChannelInv'
  BY <1>1, <1>2, <1>4 DEF IInv, ChannelInv, CallInv
<1>7. BufferInv'
  BY <1>1, <1>2 DEF IInv, BufferInv
<1>8. FreshInv'
  BY <1>1, <1>2, <1>4 DEF IInv, FreshInv, TypeOK
<1>9. CallInv'
  BY <1>2 DEF CallInv
<1>10. OrderInv'
  <2> SUFFICES ASSUME NEW q \in Partitions, nextOffset[q] # None
               PROVE  /\ startAt[q] <= nextOffset[q]
                      /\ \A x \in Offsets : startAt[q] <= x /\ x < nextOffset[q] =>
                            \/ x \in skipped[q]
                            \/ x \in sent[q] /\ x \notin pending'[q] /\ ~InChan(q, x)
                      /\ \A x \in sent[q] : nextOffset[q] <= x =>
                            \/ x \in pending'[q]
                            \/ InChan(q, x)
    BY <1>2, <1>4 DEF OrderInv, IInv, TypeOK
  <2>1. CASE q = p
    BY <1>1, <1>2, <2>1 DEF IInv, OrderInv, TypeOK, Offsets
  <2>2. CASE q # p
    BY <1>2, <2>2 DEF IInv, OrderInv, TypeOK
  <2> QED BY <2>1, <2>2
<1>11. BrokerInv'
  <2>1. startAt[p] <= nextOffset[p] /\ nextOffset[p] \in handled[p]
    BY <1>1 DEF IInv, BufferInv, TypeOK
  <2> SUFFICES ASSUME NEW q \in Partitions
               PROVE  /\ startAt[q] <= committed'[q]
                      /\ nextOffset[q] # None =>
                            \/ committed'[q] <= nextOffset[q]
                            \/ committed'[q] = nextOffset[q] + 1 /\ nextOffset[q] \in handled[q]
    BY <1>2 DEF IInv, BrokerInv
  <2>2. CASE q = p /\ committed'[q] = nextOffset[p] + 1
    BY <1>1, <2>1, <2>2 DEF IInv, TypeOK, Offsets
  <2>3. CASE committed'[q] = committed[q]
    BY <2>3 DEF IInv, BrokerInv
  <2> QED BY <1>2, <2>2, <2>3
<1>12. PromptInv'
  BY <1>2 DEF PromptInv
<1> QED BY <1>3, <1>5, <1>6, <1>7, <1>8, <1>9, <1>10, <1>11, <1>12 DEF IInv

\* flush looks a partition up.
LEMMA FlushPartitionInv ==
    ASSUME IInv, NEW p \in Partitions, FlushPartition(p)
    PROVE  IInv'
<1>1. /\ UNCHANGED <<commitCh, nextOffset, commitErrs, committed, startAt, sent, handled, skipped>>
      /\ cur = NoPartition
  BY DEF IInv, ControlInv, InCommit, FlushPartition, procVars
<1>2. \A q \in Partitions, x \in Offsets : InChan(q, x)' <=> InChan(q, x)
  BY <1>1 DEF InChan
<1>3. CASE nextOffset[p] \in pending[p]
  <2>1. /\ pending'[p] = pending[p] \ {nextOffset[p]}
        /\ \A q \in Partitions \ {p} : pending'[q] = pending[q]
        /\ cur' = p
        /\ pc' = "flushing"
        /\ nextOffset[p] \in Offsets
    BY <1>3 DEF IInv, TypeOK, FlushPartition, CommitNext
  <2>2. TypeOK'
    <3>1. pending' = [pending EXCEPT ![p] = @ \ {nextOffset[p]}]
      BY <1>3 DEF FlushPartition, CommitNext
    <3>2. pending' \in [Partitions -> SUBSET Offsets]
      BY <3>1 DEF IInv, TypeOK
    <3>3. pendingTotal' \in Int /\ todo' \subseteq Partitions
      BY <1>3 DEF IInv, TypeOK, FlushPartition, CommitNext
    <3> QED BY <1>1, <2>1, <3>2, <3>3 DEF IInv, TypeOK, FlushPartition, procVars
  <2>3. ControlInv' /\ BufferInv' /\ BrokerInv'
    BY <1>1, <2>1 DEF IInv, ControlInv, BufferInv, BrokerInv, InCommit
  <2>4. ChannelInv'
    BY <1>1, <1>2, <2>1 DEF IInv, ChannelInv
  <2>5. FreshInv'
    BY <1>1, <1>2, <1>3, <2>1 DEF IInv, FreshInv, TypeOK
  <2>6. CallInv'
    BY <1>1, <1>2, <1>3, <2>1 DEF IInv, CallInv, ChannelInv, BufferInv
  <2>7. OrderInv'
    BY <1>1, <1>2, <1>3, <2>1 DEF IInv, OrderInv, TypeOK, Offsets
  <2>8. PromptInv'
    BY <1>1, <1>3, <2>1 DEF IInv, PromptInv
  <2> QED BY <2>2, <2>3, <2>4, <2>5, <2>6, <2>7, <2>8 DEF IInv
<1>4. CASE nextOffset[p] \notin pending[p]
  <2>1. pending' = pending /\ cur' = NoPartition /\ pc' = "flush"
    BY <1>4 DEF FlushPartition, CommitNext
  <2>2. TypeOK'
    BY <1>4 DEF IInv, TypeOK, FlushPartition, CommitNext, procVars
  <2>3. ControlInv' /\ BufferInv' /\ BrokerInv' /\ PromptInv'
    BY <1>1, <2>1 DEF IInv, ControlInv, BufferInv, BrokerInv, PromptInv, InCommit
  <2>4. ChannelInv' /\ FreshInv' /\ CallInv' /\ OrderInv'
    BY <1>1, <2>1 DEF IInv, ChannelInv, FreshInv, CallInv, OrderInv, InChan
  <2> QED BY <2>2, <2>3, <2>4 DEF IInv
<1> QED BY <1>3, <1>4

\* A successful commit moves nextOffset and the broker on together.
LEMMA CommitOKInv ==
    ASSUME IInv, CommitOK
    PROVE  IInv'
<1>p. PICK p \in Partitions : p = cur
  BY DEF IInv, TypeOK, ControlInv, CommitOK
<1>1. /\ nextOffset[p] \in Offsets
      /\ nextOffset[p] \in sent[p] /\ nextOffset[p] \notin pending[p]
      /\ ~InChan(p, nextOffset[p])
  BY <1>p DEF IInv, TypeOK, CallInv
<1>n. PICK n \in Int : n = nextOffset[p] + 1
  BY <1>1 DEF Offsets
<1>2. /\ nextOffset' \in [Partitions -> {None} \union 0..(MaxOffset + 1)]
      /\ committed' \in [Partitions -> 0..(MaxOffset + 1)]
      /\ nextOffset'[p] = n /\ committed'[p] = n
      /\ \A q \in Partitions \ {p} : nextOffset'[q] = nextOffset[q] /\ committed'[q] = committed[q]
      /\ UNCHANGED <<commitCh, commitErrs, startAt, sent, handled, skipped>>
      /\ n # None /\ n \in Nat
  BY <1>p, <1>n, <1>1 DEF IInv, TypeOK, CommitOK, procVars, Offsets, None
<1>3. \A q \in Partitions, x \in Offsets : InChan(q, x)' <=> InChan(q, x)
  BY <1>2 DEF InChan
\* commitNext takes the following message, or leaves the loop.
<1>4. \/ /\ n \in pending[p]
         /\ pending' = [pending EXCEPT ![p] = @ \ {n}]
         /\ cur' = p /\ pc' = pc
      \/ /\ n \notin pending[p]
         /\ pending' = pending
         /\ cur' = NoPartition /\ pc' = LoopExit
  BY <1>p, <1>2 DEF CommitOK, CommitNext
<1>5. /\ pending' \in [Partitions -> SUBSET Offsets]
      /\ pending'[p] = pending[p] \ {n}
      /\ \A q \in Partitions \ {p} : pending'[q] = pending[q]
      /\ cur' # NoPartition => cur' = p /\ n \in pending[p]
      /\ cur' # p => n \notin pending[p]
  <2>1. CASE n \in pending[p]
    BY <1>4, <2>1 DEF IInv, TypeOK
  <2>2. CASE n \notin pending[p]
    BY <1>4, <2>2 DEF IInv, TypeOK
  <2> QED BY <2>1, <2>2
<1>6. TypeOK'
  <2>1. /\ cur' \in Partitions \union {NoPartition}
        /\ pc' \in {"select", "drain", "flush", "flushing", "stopped"}
    BY <1>4 DEF IInv, TypeOK, LoopExit
  <2>2. pendingTotal' \in Int
    BY DEF IInv, TypeOK, CommitOK, CommitNext
  <2> QED BY <1>2, <1>5, <2>1, <2>2 DEF IInv, TypeOK, CommitOK, procVars
<1>7. ControlInv'
  BY <1>p, <1>4 DEF IInv, ControlInv, LoopExit, InCommit, CommitOK
<1>8. ChannelInv'
  BY <1>1, <1>2, <1>3, <1>5 DEF IInv, ChannelInv
<1>9. BufferInv'
  BY <1>1, <1>2, <1>5 DEF IInv, BufferInv
<1>10. FreshInv'
  BY <1>1, <1>2, <1>3, <1>5 DEF IInv, FreshInv, TypeOK
<1>11. CallInv'
  <2> SUFFICES ASSUME cur' \in Partitions
               PROVE  n \in sent[p] /\ n \notin pending'[p] /\ ~InChan(p, n)'
    BY <1>2, <1>5 DEF CallInv
  <2>1. cur' = p /\ n \in pending[p] /\ n \in Offsets
    BY <1>1, <1>5 DEF IInv, TypeOK
  <2> QED BY <1>1, <1>3, <1>5, <2>1 DEF IInv, ChannelInv, BufferInv
<1>12. OrderInv'
  <2> SUFFICES ASSUME NEW q \in Partitions, nextOffset'[q] # None
               PROVE  /\ startAt[q] <= nextOffset'[q]
                      /\ \A x \in Offsets : startAt[q] <= x /\ x < nextOffset'[q] =>
                            \/ x \in skipped[q]
                            \/ x \in sent[q] /\ x \notin pending'[q] /\ ~InChan(q, x)
                      /\ \A x \in sent[q] : nextOffset'[q] <= x =>
                            \/ x \in pending'[q]
                            \/ InChan(q, x)
                            \/ cur' = q /\ x = nextOffset'[q]
    BY <1>2, <1>3 DEF OrderInv, IInv, TypeOK
  <2>1. CASE q = p
    <3>1. nextOffset[p] # None /\ startAt[p] <= nextOffset[p]
      BY <1>1 DEF IInv, OrderInv, None, Offsets
    <3>2. startAt[p] <= n
      BY <1>n, <1>1, <3>1 DEF IInv, TypeOK, Offsets
    <3>3. ASSUME NEW x \in Offsets, startAt[p] <= x, x < n
          PROVE  x \in skipped[p] \/ (x \in sent[p] /\ x \notin pending'[p] /\ ~InChan(p, x))
      <4>1. CASE x = nextOffset[p]
        BY <1>1, <1>5, <4>1
      <4>2. CASE x < nextOffset[p]
        BY <1>1, <1>5, <3>1, <3>3, <4>2 DEF IInv, OrderInv
      <4> QED BY <1>n, <1>1, <3>3, <4>1, <4>2 DEF Offsets
    <3>4. ASSUME NEW x \in sent[p], n <= x
          PROVE  x \in pending'[p] \/ InChan(p, x) \/ (cur' = p /\ x = n)
      <4>1. x \in Offsets /\ nextOffset[p] <= x /\ x # nextOffset[p]
        BY <1>n, <1>1, <3>4 DEF IInv, TypeOK, Offsets
      <4>2. x \in pending[p] \/ InChan(p, x)
        BY <1>p, <1>1, <3>1, <4>1 DEF IInv, OrderInv
      <4> QED BY <1>4, <1>5, <4>2
    <3> QED BY <1>2, <2>1, <3>2, <3>3, <3>4
  <2>2. CASE q # p
    BY <1>p, <1>1, <1>2, <1>5, <2>2 DEF IInv, OrderInv, TypeOK
  <2> QED BY <2>1, <2>2
<1>13. BrokerInv'
  <2> SUFFICES ASSUME NEW q \in Partitions
               PROVE  /\ startAt[q] <= committed'[q]
                      /\ nextOffset'[q] # None =>
                            \/ committed'[q] <= nextOffset'[q]
                            \/ committed'[q] = nextOffset'[q] + 1 /\ nextOffset'[q] \in handled[q]
    BY <1>2 DEF IInv, BrokerInv
  <2>1. CASE q = p
    BY <1>n, <1>1, <1>2, <2>1 DEF IInv, BufferInv, TypeOK, Offsets
  <2>2. CASE q # p
    BY <1>2, <2>2 DEF IInv, BrokerInv
  <2> QED BY <2>1, <2>2
<1>14. PromptInv'
  <2> SUFFICES ASSUME NEW q \in Partitions, commitErrs = 0, nextOffset'[q] # None, cur' # q
               PROVE  committed'[q] = nextOffset'[q] /\ nextOffset'[q] \notin pending'[q]
    BY <1>2 DEF PromptInv
  <2>1. CASE q = p
    BY <1>2, <1>5, <2>1
  <2>2. CASE q # p
    BY <1>p, <1>2, <1>5, <2>2 DEF IInv, PromptInv
  <2> QED BY <2>1, <2>2
<1> QED
  BY <1>6, <1>7, <1>8, <1>9, <1>10, <1>11, <1>12, <1>13, <1>14 DEF IInv

\* A completion is received: enqueue it, then look the next offset up.
LEMMA ReceiveInv ==
    ASSUME IInv, Receive
    PROVE  IInv'
<1>0. /\ commitCh \in Seq(Message) /\ commitCh # <<>> /\ Distinct(commitCh)
      /\ pc = "select" /\ cur = NoPartition
  BY DEF IInv, TypeOK, ChannelInv, ControlInv, InCommit, Receive
<1>1. PICK p \in Partitions, o \in Offsets :
         Head(commitCh) = [partition |-> p, offset |-> o]
  BY <1>0, TailContents DEF Message
<1>2. /\ commitCh' \in Seq(Message)
      /\ Len(commitCh') < Len(commitCh)
      /\ Contents(commitCh') = Contents(commitCh) \ {Head(commitCh)}
      /\ Distinct(commitCh')
      /\ Head(commitCh) \in Contents(commitCh)
  BY <1>0, TailContents DEF Receive
<1>3. /\ InChan(p, o)
      /\ \A q \in Partitions, x \in Offsets :
            InChan(q, x)' <=> (InChan(q, x) /\ ~(q = p /\ x = o))
  BY <1>1, <1>2 DEF InChan
<1>4. o \in sent[p] /\ o \notin pending[p] /\ startAt[p] <= o
  BY <1>3 DEF IInv, ChannelInv, BufferInv
<1>5. PICK n \in {None} \union 0..(MaxOffset + 1) : n = Initialised(p, o)
  BY DEF IInv, TypeOK, Initialised, Offsets
<1>6. /\ n # None /\ n \in Nat
      /\ nextOffset[p] = None => n = o /\ Passed(p, o) = startAt[p]..(o - 1)
      /\ nextOffset[p] # None => n = nextOffset[p] /\ Passed(p, o) = {}
      /\ Passed(p, o) \subseteq Offsets
  BY <1>5 DEF IInv, TypeOK, Initialised, Passed, Offsets, None
<1>7. /\ nextOffset' = [nextOffset EXCEPT ![p] = n]
      /\ skipped' = [skipped EXCEPT ![p] = @ \union Passed(p, o)]
      /\ UNCHANGED <<chOpen, ctxDone, commitErrs, todo, committed, startAt, sent, handled>>
  <2>1. Head(commitCh).partition = p /\ Head(commitCh).offset = o
    BY <1>1
  <2> QED BY <1>5, <2>1 DEF Receive, Initialised, Passed
<1>8. /\ nextOffset' \in [Partitions -> {None} \union 0..(MaxOffset + 1)]
      /\ nextOffset'[p] = n
      /\ \A q \in Partitions \ {p} : nextOffset'[q] = nextOffset[q]
      /\ skipped' \in [Partitions -> SUBSET Offsets]
      /\ skipped'[p] = skipped[p] \union Passed(p, o)
      /\ \A q \in Partitions \ {p} : skipped'[q] = skipped[q]
  BY <1>6, <1>7 DEF IInv, TypeOK
\* commitNext finds the expected message in the buffer, or does not.
<1>9. \/ /\ n \in pending[p] \union {o}
         /\ pending' = [pending EXCEPT ![p] = (@ \union {o}) \ {n}]
         /\ cur' = p /\ pc' = "drain"
      \/ /\ n \notin pending[p] \union {o}
         /\ pending' = [pending EXCEPT ![p] = @ \union {o}]
         /\ cur' = NoPartition /\ pc' = "select"
  <2> DEFINE pd == [pending EXCEPT ![p] = @ \union {o}]
  <2>1. pd[p] = pending[p] \union {o}
    BY DEF IInv, TypeOK
  <2>2. [pd EXCEPT ![p] = @ \ {n}] = [pending EXCEPT ![p] = (@ \union {o}) \ {n}]
    BY DEF IInv, TypeOK
  <2>3. \/ /\ nextOffset'[p] \in pd[p]
           /\ pending' = [pd EXCEPT ![p] = @ \ {nextOffset'[p]}]
           /\ cur' = p /\ pc' = "drain"
        \/ /\ nextOffset'[p] \notin pd[p]
           /\ pending' = pd
           /\ cur' = NoPartition /\ pc' = "select"
    BY <1>1 DEF Receive, CommitNext
  <2> QED BY <1>8, <2>1, <2>2, <2>3
<1>10. /\ pending' \in [Partitions -> SUBSET Offsets]
       /\ pending'[p] = (pending[p] \union {o}) \ {n}
       /\ \A q \in Partitions \ {p} : pending'[q] = pending[q]
       /\ cur' # NoPartition => cur' = p /\ n \in pending[p] \union {o}
       /\ cur' # p => n \notin pending[p] \union {o}
  <2>1. CASE n \in pending[p] \union {o}
    <3>1. /\ pending' = [pending EXCEPT ![p] = (@ \union {o}) \ {n}]
          /\ cur' = p
      BY <1>9, <2>1
    <3> QED BY <2>1, <3>1 DEF IInv, TypeOK
  <2>2. CASE n \notin pending[p] \union {o}
    <3>1. /\ pending' = [pending EXCEPT ![p] = @ \union {o}]
          /\ cur' = NoPartition
      BY <1>9, <2>2
    <3> QED BY <2>2, <3>1 DEF IInv, TypeOK
  <2> QED BY <2>1, <2>2
<1>11. TypeOK'
  <2>1. /\ cur' \in Partitions \union {NoPartition}
        /\ pc' \in {"select", "drain", "flush", "flushing", "stopped"}
        /\ Len(commitCh') <= ChanCap
    BY <1>0, <1>2, <1>9 DEF IInv, TypeOK
  <2>2. pendingTotal' \in Int
    BY DEF IInv, TypeOK, Receive, CommitNext
  <2> QED BY <1>2, <1>7, <1>8, <1>10, <2>1, <2>2 DEF IInv, TypeOK
<1>12. ControlInv'
  BY <1>9 DEF ControlInv, InCommit
<1>13. ChannelInv'
  BY <1>2, <1>3, <1>7, <1>10 DEF IInv, ChannelInv
<1>14. BufferInv'
  BY <1>4, <1>7, <1>10 DEF IInv, BufferInv
<1>15. FreshInv'
  BY <1>3, <1>6, <1>7, <1>8, <1>10 DEF IInv, FreshInv, TypeOK
<1>16. CallInv'
  <2> SUFFICES ASSUME cur' = p
               PROVE  n \in sent[p] /\ n \notin pending'[p] /\ ~InChan(p, n)'
    BY <1>7, <1>8, <1>10 DEF CallInv
  <2>1. n \in pending[p] \union {o} /\ n \in Offsets
    BY <1>10 DEF IInv, TypeOK
  <2> QED BY <1>3, <1>4, <1>10, <2>1 DEF IInv, ChannelInv, BufferInv
<1>17. OrderInv'
  <2> SUFFICES ASSUME NEW q \in Partitions, nextOffset'[q] # None
               PROVE  /\ startAt[q] <= nextOffset'[q]
                      /\ \A x \in Offsets : startAt[q] <= x /\ x < nextOffset'[q] =>
                            \/ x \in skipped'[q]
                            \/ x \in sent[q] /\ x \notin pending'[q] /\ ~InChan(q, x)'
                      /\ \A x \in sent[q] : nextOffset'[q] <= x =>
                            \/ x \in pending'[q]
                            \/ InChan(q, x)'
                            \/ cur' = q /\ x = nextOffset'[q]
    BY <1>7 DEF OrderInv
  <2>1. CASE q = p /\ nextOffset[p] = None
    <3>1. ASSUME NEW x \in sent[p], o <= x
          PROVE  x \in pending'[p] \/ InChan(p, x)' \/ (cur' = p /\ x = o)
      <4>1. x \in Offsets /\ InChan(p, x)
        BY <2>1 DEF IInv, TypeOK, FreshInv
      <4> QED BY <1>3, <1>6, <1>10, <2>1, <4>1
    <3>2. ASSUME NEW x \in Offsets, startAt[p] <= x, x < o
          PROVE  x \in skipped'[p]
      BY <1>6, <1>8, <2>1, <3>2 DEF IInv, TypeOK, Offsets
    <3> QED BY <1>4, <1>6, <1>8, <2>1, <3>1, <3>2
  <2>2. CASE q = p /\ nextOffset[p] # None
    <3>1. startAt[p] <= n
      BY <1>6, <2>2 DEF IInv, OrderInv
    <3>2. ASSUME NEW x \in Offsets, startAt[p] <= x, x < n
          PROVE  x \in skipped'[p] \/ (x \in sent[p] /\ x \notin pending'[p] /\ ~InChan(p, x)')
      <4>1. x \in skipped[p] \/ (x \in sent[p] /\ x \notin pending[p] /\ ~InChan(p, x))
        BY <1>6, <2>2, <3>2 DEF IInv, OrderInv
      <4> QED BY <1>3, <1>8, <1>10, <4>1
    <3>3. ASSUME NEW x \in sent[p], n <= x
          PROVE  x \in pending'[p] \/ InChan(p, x)' \/ (cur' = p /\ x = n)
      <4>1. x \in Offsets
        BY DEF IInv, TypeOK
      <4>2. x \in pending[p] \/ InChan(p, x)
        BY <1>0, <1>6, <2>2, <3>3 DEF IInv, OrderInv
      <4> QED BY <1>3, <1>10, <4>1, <4>2
    <3> QED BY <1>8, <2>2, <3>1, <3>2, <3>3
  <2>3. CASE q # p
    BY <1>0, <1>3, <1>7, <1>8, <1>10, <2>3 DEF IInv, OrderInv, TypeOK
  <2> QED BY <2>1, <2>2, <2>3
<1>18. BrokerInv'
  <2> SUFFICES ASSUME NEW q \in Partitions
               PROVE  /\ \A x \in Offsets : x < startAt[q] => x \in handled[q] \union skipped'[q]
                      /\ nextOffset'[q] # None =>
                            \/ committed[q] <= nextOffset'[q]
                            \/ committed[q] = nextOffset'[q] + 1 /\ nextOffset'[q] \in handled[q]
    BY <1>7 DEF IInv, BrokerInv
  <2>1. CASE q = p /\ nextOffset[p] = None
    BY <1>4, <1>6, <1>8, <2>1 DEF IInv, BrokerInv, FreshInv
  <2>2. CASE q = p /\ nextOffset[p] # None
    BY <1>6, <1>8, <2>2 DEF IInv, BrokerInv
  <2>3. CASE q # p
    BY <1>8, <2>3 DEF IInv, BrokerInv
  <2> QED BY <2>1, <2>2, <2>3
<1>19. PromptInv'
  <2> SUFFICES ASSUME NEW q \in Partitions, commitErrs = 0, nextOffset'[q] # None, cur' # q
               PROVE  committed[q] = nextOffset'[q] /\ nextOffset'[q] \notin pending'[q]
    BY <1>7 DEF PromptInv
  <2>1. CASE q = p /\ nextOffset[p] = None
    BY <1>6, <1>10, <2>1
  <2>2. CASE q = p /\ nextOffset[p] # None
    BY <1>0, <1>6, <1>8, <1>10, <2>2 DEF IInv, PromptInv
  <2>3. CASE q # p
    BY <1>0, <1>8, <1>10, <2>3 DEF IInv, PromptInv
  <2> QED BY <2>1, <2>2, <2>3
<1> QED
  BY <1>11, <1>12, <1>13, <1>14, <1>15, <1>16, <1>17, <1>18, <1>19 DEF IInv

--------------------------------------------------------------------------------
(* The invariant holds in every behaviour.                                 *)

\* Every step, and a stuttering step, preserves the inductive invariant.
LEMMA StepInv == IInv /\ [Next]_vars => IInv'
<1> SUFFICES ASSUME IInv, [Next]_vars PROVE IInv'
  OBVIOUS
<1>1. CASE \E p \in Partitions, o \in Offsets : Send(p, o)
  BY <1>1, SendInv
<1>2. CASE Cancel \/ Close \/ BeginFlush \/ FlushDone
  BY <1>2, QuietInv
<1>3. CASE Receive
  BY <1>3, ReceiveInv
<1>4. CASE CommitOK
  BY <1>4, CommitOKInv
<1>5. CASE \E tookEffect \in BOOLEAN : CommitErr(tookEffect)
  BY <1>5, CommitErrInv
<1>6. CASE \E p \in Partitions : FlushPartition(p)
  BY <1>6, FlushPartitionInv
<1>7. CASE Restart
  BY <1>7, RestartInv
<1>8. CASE UNCHANGED vars
  <2>1. UNCHANGED <<commitCh, chOpen, ctxDone, nextOffset, pending, pendingTotal,
                    commitErrs, pc, cur, todo, committed, startAt, sent, handled, skipped>>
    BY <1>8 DEF vars
  <2>2. \A q \in Partitions, x \in Offsets : InChan(q, x)' <=> InChan(q, x)
    BY <2>1 DEF InChan
  <2> QED BY <2>1 DEF IInv, TypeOK, ControlInv, ChannelInv, BufferInv, FreshInv, CallInv,
                      OrderInv, BrokerInv, PromptInv, InChan, Distinct, Contents
<1> QED
  BY <1>1, <1>2, <1>3, <1>4, <1>5, <1>6, <1>7, <1>8 DEF Next, Coordinator

\* The inductive invariant holds in every reachable state.
THEOREM Invariant == Spec => []IInv
<1>1. Init => IInv
  BY InitInv
<1>2. IInv /\ [Next]_vars => IInv'
  BY StepInv
<1> QED BY <1>1, <1>2, PTL DEF Spec

\* The coordinator's types: nextOffset and the committed offset never leave the
\* log, the channel never holds more than its capacity.
THEOREM TypeCorrect == Spec => []TypeOK
<1>1. IInv => TypeOK
  BY DEF IInv
<1> QED BY <1>1, Invariant, PTL

\* Offsets below the committed one were completed or jumped over by enqueue.
LEMMA CoverFromInv == IInv => CommitCoversHandled
<1> SUFFICES ASSUME IInv, NEW p \in Partitions, NEW o \in Offsets, o < committed[p]
             PROVE  o \in handled[p] \union skipped[p]
  BY DEF CommitCoversHandled
<1>1. CASE o < startAt[p]
  BY <1>1 DEF IInv, BrokerInv
<1>2. CASE o >= startAt[p] /\ nextOffset[p] = None
  BY <1>2 DEF IInv, FreshInv, TypeOK, Offsets
<1>3. CASE o >= startAt[p] /\ nextOffset[p] # None
  <2>1. CASE o < nextOffset[p]
    BY <1>3, <2>1 DEF IInv, OrderInv, BufferInv
  <2>2. CASE o >= nextOffset[p]
    BY <1>3, <2>2 DEF IInv, BrokerInv, TypeOK, Offsets, None
  <2> QED BY <1>3, <2>1, <2>2 DEF IInv, TypeOK, Offsets, None
<1> QED BY <1>1, <1>2, <1>3 DEF IInv, TypeOK, Offsets

\* No offset that was neither completed nor below a process's first completion
\* is ever committed past.
THEOREM CommitSafety == Spec => []CommitCoversHandled
BY Invariant, CoverFromInv, PTL

\* A failed or successful commit strands nothing in the buffer.
THEOREM StrandedSafety == Spec => []StrandedOnlyIfSkipped
<1>1. IInv => StrandedOnlyIfSkipped
  <2> SUFFICES ASSUME IInv, NEW p \in Partitions, NEW o \in pending[p], o < nextOffset[p]
               PROVE  o \in skipped[p]
    BY DEF StrandedOnlyIfSkipped
  <2>1. o \in Offsets /\ startAt[p] <= o /\ nextOffset[p] # None
    BY DEF IInv, TypeOK, BufferInv, FreshInv
  <2> QED BY <2>1 DEF IInv, OrderInv
<1> QED BY <1>1, Invariant, PTL

\* Without failed commits an idle coordinator has committed every contiguous
\* run of completions from the start of the partition.
THEOREM Promptness == Spec => []IdleMeansCommitted
<1>1. IInv => IdleMeansCommitted
  <2> SUFFICES ASSUME IInv, NEW p \in Partitions, NEW n \in Offsets,
                      pc = "select", commitErrs = 0, n >= startAt[p],
                      startAt[p]..n \subseteq sent[p],
                      \A i \in 1..Len(commitCh) : commitCh[i].partition # p
               PROVE  committed[p] > n
    BY DEF IdleMeansCommitted
  <2>1. \A o \in Offsets : ~InChan(p, o)
    BY DEF InChan, Contents
  <2>2. startAt[p] \in Int /\ startAt[p] \in sent[p] /\ startAt[p] \in Offsets
    BY DEF IInv, TypeOK, Offsets
  <2>3. nextOffset[p] # None
    BY <2>1, <2>2 DEF IInv, FreshInv
  <2>4. cur # p
    BY DEF IInv, ControlInv, InCommit
  <2>5. committed[p] = nextOffset[p] /\ nextOffset[p] \notin pending[p]
    BY <2>3, <2>4 DEF IInv, PromptInv
  <2>6. startAt[p] <= nextOffset[p] /\ nextOffset[p] \in Int
    BY <2>3 DEF IInv, OrderInv, TypeOK
  <2>7. ASSUME nextOffset[p] <= n PROVE FALSE
    <3>1. nextOffset[p] \in sent[p] /\ nextOffset[p] \in Offsets
      BY <2>2, <2>6, <2>7 DEF IInv, TypeOK, Offsets
    <3> QED BY <2>1, <2>3, <2>4, <2>5, <2>6, <3>1 DEF IInv, OrderInv
  <2> QED BY <2>5, <2>6, <2>7 DEF Offsets
<1> QED BY <1>1, Invariant, PTL

--------------------------------------------------------------------------------
(* CommitCoordinator implements InOrderCommit.                             *)

\* A successful commit, or a failed one that took effect, is an advance over
\* completed or waived offsets, or repeats the offset the broker has.
LEMMA CommitAdvances ==
    ASSUME IInv, NEW p \in Partitions, cur = p,
           committed' = [committed EXCEPT ![p] = nextOffset[p] + 1],
           UNCHANGED <<handled, skipped>>
    PROVE  [Promise!Next]_(Promise!vars)
<1>1. /\ nextOffset[p] \in Offsets /\ nextOffset[p] \in sent[p] /\ nextOffset[p] # None
      /\ committed[p] \in 0..(MaxOffset + 1)
  BY DEF IInv, TypeOK, CallInv, FreshInv
<1>2. PICK n \in 1..(MaxOffset + 1) : n = nextOffset[p] + 1
  BY <1>1 DEF Offsets
<1>3. CASE committed[p] < n
  <2>1. ASSUME NEW o \in committed[p]..(n - 1)
        PROVE  o \in handled[p] \union skipped[p]
    <3>1. o \in Offsets /\ startAt[p] <= o /\ (o = nextOffset[p] \/ o < nextOffset[p])
      BY <1>1, <1>2 DEF IInv, BrokerInv, TypeOK, Offsets
    <3>2. CASE o = nextOffset[p]
      BY <1>1, <3>2 DEF IInv, BufferInv
    <3>3. CASE o < nextOffset[p]
      BY <1>1, <3>1, <3>3 DEF IInv, OrderInv, BufferInv
    <3> QED BY <3>1, <3>2, <3>3
  <2>2. Promise!Advance(p, n)
    BY <1>2, <1>3, <2>1 DEF Promise!Advance
  <2> QED BY <2>2 DEF Promise!Next
<1>4. CASE committed[p] >= n
  <2>1. committed[p] = n
    BY <1>1, <1>2, <1>4 DEF IInv, BrokerInv, Offsets
  <2>2. committed' = committed
    BY <1>2, <2>1 DEF IInv, TypeOK
  <2> QED BY <2>2 DEF Promise!vars
<1> QED BY <1>1, <1>3, <1>4 DEF Offsets

\* Receiving a completion waives the offsets enqueue jumps over, if any.
LEMMA ReceiveWaives ==
    ASSUME IInv, Receive
    PROVE  [Promise!Next]_(Promise!vars)
<1>1. commitCh \in Seq(Message) /\ commitCh # <<>> /\ Distinct(commitCh)
  BY DEF IInv, TypeOK, ChannelInv, Receive
<1>2. PICK p \in Partitions, o \in Offsets :
         Head(commitCh) = [partition |-> p, offset |-> o]
  BY <1>1, TailContents DEF Message
<1>3. Head(commitCh).partition = p /\ Head(commitCh).offset = o
  BY <1>2
<1>4. /\ skipped' = [skipped EXCEPT ![p] = @ \union Passed(p, o)]
      /\ UNCHANGED <<committed, handled>>
  BY <1>3 DEF Receive, Passed
<1>5. CASE nextOffset[p] = None
  <2>1. InChan(p, o)
    BY <1>1, <1>2, TailContents DEF InChan
  <2>2. o \in handled[p]
    BY <2>1 DEF IInv, ChannelInv, BufferInv
  <2>3. Passed(p, o) = committed[p]..(o - 1)
    BY <1>5 DEF Passed, IInv, FreshInv
  <2>4. Promise!Waive(p, o)
    BY <1>4, <2>2, <2>3 DEF Promise!Waive
  <2> QED BY <2>4 DEF Promise!Next, Promise!Offsets, Offsets
<1>6. CASE nextOffset[p] # None
  <2>1. skipped' = skipped
    BY <1>4, <1>6 DEF Passed, IInv, TypeOK
  <2> QED BY <1>4, <2>1 DEF Promise!vars
<1> QED BY <1>5, <1>6

\* The commit coordinator keeps the promise of in-order commits: committed
\* offsets only move forward, over completed or waived offsets, whatever the
\* order of completions, the failures of commits, the shutdown and the crashes.
THEOREM Implementation == Spec => ImplementsInOrderCommit
<1>1. Init => Promise!Init
  BY DEF Init, Promise!Init
<1>2. IInv /\ [Next]_vars => [Promise!Next]_(Promise!vars)
  <2> SUFFICES ASSUME IInv, [Next]_vars PROVE [Promise!Next]_(Promise!vars)
    OBVIOUS
  <2>1. ASSUME NEW p \in Partitions, NEW o \in Offsets, Send(p, o)
        PROVE  Promise!Next
    <3>1. Promise!Complete(p, o)
      BY <2>1 DEF Send, SendEffect, Promise!Complete
    <3> QED BY <3>1 DEF Promise!Next, Promise!Offsets, Offsets
  <2>2. CASE Receive
    BY <2>2, ReceiveWaives
  <2>3. CASE CommitOK
    <3>1. PICK p \in Partitions : p = cur
      BY <2>3 DEF IInv, TypeOK, ControlInv, CommitOK
    <3> QED BY <2>3, <3>1, CommitAdvances DEF CommitOK
  <2>4. ASSUME NEW tookEffect \in BOOLEAN, CommitErr(tookEffect)
        PROVE  [Promise!Next]_(Promise!vars)
    <3>1. PICK p \in Partitions : p = cur
      BY <2>4 DEF IInv, TypeOK, ControlInv, CommitErr
    <3>2. CASE tookEffect
      BY <2>4, <3>1, <3>2, CommitAdvances DEF CommitErr
    <3>3. CASE ~tookEffect
      BY <2>4, <3>3 DEF CommitErr, Promise!vars
    <3> QED BY <3>2, <3>3
  <2>5. CASE Cancel \/ Close \/ BeginFlush \/ FlushDone \/ Restart \/ UNCHANGED vars
    BY <2>5 DEF Cancel, Close, BeginFlush, FlushDone, Restart, vars, Promise!vars
  <2>6. CASE \E p \in Partitions : FlushPartition(p)
    BY <2>6 DEF FlushPartition, Promise!vars
  <2> QED
    BY <2>1, <2>2, <2>3, <2>4, <2>5, <2>6 DEF Next, Coordinator
<1> QED BY <1>1, <1>2, Invariant, PTL DEF Spec, ImplementsInOrderCommit, Promise!Spec

--------------------------------------------------------------------------------
(* The gauge.                                                              *)

\* The messages in buffers pd, and that a gauge tells how many there are.
Buffered(pd) == {m \in Message : m.offset \in pd[m.partition]}
Counts(total, pd) == IsFiniteSet(Buffered(pd)) /\ total = Cardinality(Buffered(pd))

\* Buffering a message that is not buffered adds one to the count.
LEMMA CountAdd ==
    ASSUME NEW pd \in [Partitions -> SUBSET Offsets], NEW total, Counts(total, pd),
           NEW p \in Partitions, NEW o \in Offsets, o \notin pd[p]
    PROVE  Counts(total + 1, [pd EXCEPT ![p] = @ \union {o}])
<1> DEFINE m == [partition |-> p, offset |-> o]
           e == [pd EXCEPT ![p] = @ \union {o}]
<1>1. m \in Message /\ m \notin Buffered(pd)
  BY DEF Message, Buffered
<1>2. ASSUME NEW x \in Message
      PROVE  x.offset \in e[x.partition] <=> x.offset \in pd[x.partition] \/ x = m
  BY DEF Message
<1>3. Buffered(e) = Buffered(pd) \union {m}
  BY <1>1, <1>2 DEF Buffered
<1>4. /\ IsFiniteSet(Buffered(e))
      /\ Cardinality(Buffered(e)) = total + 1
  <2> HIDE DEF e, m
  <2> QED BY <1>1, <1>3, FS_AddElement DEF Counts
<1> QED BY <1>4 DEF Counts

\* Taking a buffered message out takes one off the count.
LEMMA CountRemove ==
    ASSUME NEW pd \in [Partitions -> SUBSET Offsets], NEW total, Counts(total, pd),
           NEW p \in Partitions, NEW o \in pd[p]
    PROVE  Counts(total - 1, [pd EXCEPT ![p] = @ \ {o}])
<1> DEFINE m == [partition |-> p, offset |-> o]
           e == [pd EXCEPT ![p] = @ \ {o}]
<1>1. m \in Buffered(pd)
  BY DEF Message, Buffered
<1>2. ASSUME NEW x \in Message
      PROVE  x.offset \in e[x.partition] <=> x.offset \in pd[x.partition] /\ x # m
  BY DEF Message
<1>3. Buffered(e) = Buffered(pd) \ {m}
  BY <1>1, <1>2 DEF Buffered
<1>4. /\ IsFiniteSet(Buffered(e))
      /\ Cardinality(Buffered(e)) = total - 1
  <2> HIDE DEF e, m
  <2> QED BY <1>1, <1>3, FS_RemoveElement DEF Counts
<1> QED BY <1>4 DEF Counts

\* commitNext keeps the count, whatever buffers it is given.
LEMMA CountCommitNext ==
    ASSUME NEW pd \in [Partitions -> SUBSET Offsets], NEW total, Counts(total, pd),
           NEW p \in Partitions, NEW nx, NEW idle, NEW busy,
           CommitNext(p, nx, pd, total, idle, busy)
    PROVE  Counts(pendingTotal', pending')
BY CountRemove DEF CommitNext

\* worker_commit_pending is exact in every reachable state: a message is counted
\* when it is buffered, also again after a failed commit, and no message is
\* buffered twice.
THEOREM GaugeSafety == Spec => []PendingGaugeExact
<1> DEFINE Gauge == Counts(pendingTotal, pending)
<1>1. Init => Gauge
  <2> SUFFICES ASSUME Init PROVE Counts(0, pending)
    BY DEF Init
  <2>1. Buffered(pending) = {}
    BY DEF Init, Buffered, Message
  <2> QED BY <2>1, FS_EmptySet DEF Counts
<1>2. IInv /\ Gauge /\ [Next]_vars => Gauge'
  <2> SUFFICES ASSUME IInv, Counts(pendingTotal, pending), [Next]_vars
               PROVE  Counts(pendingTotal', pending')
    BY DEF Counts, Buffered
  <2>0. pending \in [Partitions -> SUBSET Offsets]
    BY DEF IInv, TypeOK
  <2>1. CASE UNCHANGED <<pendingTotal, pending>>
    BY <2>1
  <2>2. CASE Receive
    <3>1. commitCh \in Seq(Message) /\ commitCh # <<>> /\ Distinct(commitCh)
      BY <2>2 DEF IInv, TypeOK, ChannelInv, Receive
    <3>2. Head(commitCh) \in Message /\ Head(commitCh) \in Contents(commitCh)
      BY <3>1, TailContents
    <3>3. PICK p \in Partitions, o \in Offsets : Head(commitCh) = [partition |-> p, offset |-> o]
      BY <3>2 DEF Message
    <3>4. o \notin pending[p]
      BY <3>2, <3>3 DEF IInv, ChannelInv, InChan
    <3> DEFINE pd == [pending EXCEPT ![p] = @ \union {o}]
    <3>5. Counts(pendingTotal + 1, pd) /\ pd \in [Partitions -> SUBSET Offsets]
      BY <2>0, <3>4, CountAdd
    <3>6. CommitNext(p, nextOffset', pd, pendingTotal + 1, "select", "drain")
      <4>1. Head(commitCh).partition = p /\ Head(commitCh).offset = o
        BY <3>3
      <4> QED BY <2>2, <4>1, Zenon DEF Receive
    <3> HIDE DEF pd
    <3> QED BY <3>5, <3>6, CountCommitNext
  <2>3. CASE CommitOK
    <3>1. cur \in Partitions
      BY <2>3 DEF IInv, TypeOK, ControlInv, CommitOK
    <3> QED BY <2>0, <2>3, <3>1, CountCommitNext DEF CommitOK
  <2>4. ASSUME NEW p \in Partitions, FlushPartition(p)
        PROVE  Counts(pendingTotal', pending')
    BY <2>0, <2>4, CountCommitNext DEF FlushPartition
  <2>5. ASSUME NEW tookEffect \in BOOLEAN, CommitErr(tookEffect)
        PROVE  Counts(pendingTotal', pending')
    <3>1. cur \in Partitions /\ nextOffset[cur] \in Offsets /\ nextOffset[cur] \notin pending[cur]
      BY <2>5 DEF IInv, TypeOK, ControlInv, CallInv, CommitErr
    <3> QED BY <2>0, <2>5, <3>1, CountAdd DEF CommitErr
  <2>6. CASE Restart
    <3>1. pending' = [p \in Partitions |-> {}] /\ pendingTotal' = 0
      BY <2>6 DEF Restart
    <3>2. Buffered([p \in Partitions |-> {}]) = {}
      BY DEF Buffered, Message
    <3>3. Counts(0, [p \in Partitions |-> {}])
      BY <3>2, FS_EmptySet DEF Counts
    <3> QED BY <3>1, <3>3
  <2>7. CASE UNCHANGED vars \/ Cancel \/ Close \/ BeginFlush \/ FlushDone
             \/ \E p \in Partitions, o \in Offsets : Send(p, o)
    BY <2>1, <2>7 DEF vars, Cancel, Close, BeginFlush, FlushDone, Send, SendEffect, coordVars
  <2> QED BY <2>2, <2>3, <2>4, <2>5, <2>6, <2>7 DEF Next, Coordinator
<1>3. Gauge => PendingGaugeExact
  BY DEF Counts, Buffered, PendingGaugeExact
<1> QED BY <1>1, <1>2, <1>3, Invariant, PTL DEF Spec
================================================================================
