--------------------------- MODULE CommitCoordinator ---------------------------
(***************************************************************************)
(* The commit coordinator of the crawl worker (cmd/worker/commit_          *)
(* coordinator.go): one goroutine that receives completed messages from    *)
(* commitCh, buffers them per partition and commits them to Kafka.         *)
(*                                                                         *)
(* The environment is the rest of the process: job goroutines send         *)
(* completed messages in any order, a signal cancels the context, main     *)
(* closes the channel, the process may die and be started again.  The      *)
(* reader's partition assignment does not change here; see                 *)
(* CoordinatorRebalance for what happens when it does.                     *)
(***************************************************************************)
EXTENDS Integers, Sequences, FiniteSets

CONSTANTS
    Partitions,       \* partitions of the frontier topic
    NoPartition,      \* "no CommitMessages call is in progress"
    MaxOffset,        \* bound: the largest offset in the log of a partition
    ChanCap,          \* capacity of commitCh (concurrentJobs*2 in main)
    MaxCommitErrors   \* bound: CommitMessages failures per process on a live context

ASSUME NoPartitionAssumption == NoPartition \notin Partitions
ASSUME MaxOffsetAssumption == MaxOffset \in Nat
ASSUME ChanCapAssumption == ChanCap \in Nat \ {0}
ASSUME MaxCommitErrorsAssumption == MaxCommitErrors \in Nat

VARIABLES
    commitCh,      \* buffered channel of completed messages
    chOpen,        \* FALSE once main has closed commitCh
    ctxDone,       \* the signal context is cancelled
    nextOffset,    \* coordinator: next offset expected per partition, or None
    pending,       \* coordinator: buffered offsets per partition
    pendingTotal,  \* workerCommitPendingTotal
    commitErrs,    \* workerCommitErrorsTotal
    pc,            \* where the coordinator goroutine is
    cur,           \* partition of the CommitMessages call in progress
    todo,          \* partitions flush has not visited yet
    committed,     \* broker: offset the consumer group resumes from
    startAt,       \* offset this process started reading a partition from
    sent,          \* history: offsets this process has put on commitCh
    handled,       \* history: offsets some process has put on commitCh
    skipped        \* history: offsets an initialisation of nextOffset jumped over

coordVars == <<nextOffset, pending, pendingTotal, commitErrs, pc, cur, todo>>
procVars  == <<commitCh, chOpen, ctxDone, startAt, sent>>
vars == <<commitCh, chOpen, ctxDone, nextOffset, pending, pendingTotal,
          commitErrs, pc, cur, todo, committed, startAt, sent, handled, skipped>>

None == -1
Offsets == 0..MaxOffset
Message == [partition : Partitions, offset : Offsets]
InCommit == {"drain", "flushing"}   \* inside reader.CommitMessages

--------------------------------------------------------------------------------
(* newCommitCoordinator and the channel and context main makes for it.     *)
Init ==
    /\ commitCh = <<>>
    /\ chOpen = TRUE
    /\ ctxDone = FALSE
    /\ nextOffset = [p \in Partitions |-> None]
    /\ pending = [p \in Partitions |-> {}]
    /\ pendingTotal = 0
    /\ commitErrs = 0
    /\ pc = "select"
    /\ cur = NoPartition
    /\ todo = {}
    /\ committed = [p \in Partitions |-> 0]
    /\ startAt = [p \in Partitions |-> 0]
    /\ sent = [p \in Partitions |-> {}]
    /\ handled = [p \in Partitions |-> {}]
    /\ skipped = [p \in Partitions |-> {}]

--------------------------------------------------------------------------------
(* The rest of the process.                                                *)

\* commitCh <- msg: the offset is completed from here on.
SendEffect(p, o) ==
    /\ commitCh' = Append(commitCh, [partition |-> p, offset |-> o])
    /\ sent' = [sent EXCEPT ![p] = @ \union {o}]
    /\ handled' = [handled EXCEPT ![p] = @ \union {o}]
    /\ UNCHANGED <<chOpen, ctxDone, coordVars, committed, startAt, skipped>>

\* The reader delivers each offset from startAt on once; the jobs complete in
\* any order.
Send(p, o) ==
    /\ chOpen
    /\ Len(commitCh) < ChanCap
    /\ o >= startAt[p]
    /\ o \notin sent[p]
    /\ SendEffect(p, o)

\* SIGINT or SIGTERM.
Cancel ==
    /\ ~ctxDone
    /\ ctxDone' = TRUE
    /\ UNCHANGED <<commitCh, chOpen, coordVars, committed, startAt, sent, handled, skipped>>

\* close(commitCh): main gets there only after run returned, on a dead context.
Close ==
    /\ ctxDone
    /\ chOpen
    /\ chOpen' = FALSE
    /\ UNCHANGED <<commitCh, ctxDone, coordVars, committed, startAt, sent, handled, skipped>>

--------------------------------------------------------------------------------
(* The coordinator goroutine.                                              *)

\* Mutant: commits the expected offset as soon as any message is buffered.
CommitNextAnyBuffered(p, nx, pd, total, idle, busy) ==
    \/ /\ pd[p] # {}
       /\ pending' = [pd EXCEPT ![p] = @ \ {nx[p]}]
       /\ pendingTotal' = total - Cardinality(pd[p] \intersect {nx[p]})
       /\ pc' = busy
       /\ cur' = p
    \/ /\ pd[p] = {}
       /\ pending' = pd
       /\ pendingTotal' = total
       /\ pc' = idle
       /\ cur' = NoPartition

\* commitNext up to the call of CommitMessages, on next offsets nx, buffers pd
\* and gauge total: takes the expected message out of the buffer and goes to
\* busy, or finds none and returns to idle.
CommitNext(p, nx, pd, total, idle, busy) ==
    \/ /\ nx[p] \in pd[p]
       /\ pending' = [pd EXCEPT ![p] = @ \ {nx[p]}]
       /\ pendingTotal' = total - 1
       /\ pc' = busy
       /\ cur' = p
    \/ /\ nx[p] \notin pd[p]
       /\ pending' = pd
       /\ pendingTotal' = total
       /\ pc' = idle
       /\ cur' = NoPartition

\* Mutant: the expected offset follows the latest completion.
InitialisedEachTime(p, o) == o

\* What enqueue makes of nextOffset[p]: it keeps an existing value.
Initialised(p, o) == IF nextOffset[p] = None THEN o ELSE nextOffset[p]

\* The offsets an initialisation of nextOffset[p] at o leaves behind.
Passed(p, o) ==
    IF nextOffset[p] = None THEN startAt[p]..(o - 1) ELSE {}

\* case msg := <-commitCh: enqueue, then drain up to its first CommitMessages.
Receive ==
    /\ pc = "select"
    /\ commitCh # <<>>
    /\ commitCh' = Tail(commitCh)
    /\ LET p == Head(commitCh).partition
           o == Head(commitCh).offset
       IN  /\ nextOffset' = [nextOffset EXCEPT ![p] = Initialised(p, o)]
           /\ skipped' = [skipped EXCEPT ![p] = @ \union Passed(p, o)]
           /\ CommitNext(p, nextOffset', [pending EXCEPT ![p] = @ \union {o}],
                         pendingTotal + 1, "select", "drain")
    /\ UNCHANGED <<chOpen, ctxDone, commitErrs, todo, committed, startAt, sent, handled>>

\* Where the loop around commitNext returns to.
LoopExit == IF pc = "drain" THEN "select" ELSE "flush"

\* Mutant: drain and flush commit one message instead of looping.
CommitOKOnce ==
    /\ pc \in InCommit
    /\ committed' = [committed EXCEPT ![cur] = nextOffset[cur] + 1]
    /\ nextOffset' = [nextOffset EXCEPT ![cur] = @ + 1]
    /\ pc' = LoopExit
    /\ cur' = NoPartition
    /\ UNCHANGED <<pending, pendingTotal, commitErrs, todo, procVars, handled, skipped>>

\* Mutant: advances past the offset after the committed one.
CommitOKByTwo ==
    /\ pc \in InCommit
    /\ committed' = [committed EXCEPT ![cur] = nextOffset[cur] + 1]
    /\ nextOffset' = [nextOffset EXCEPT ![cur] = @ + 2]
    /\ CommitNext(cur, nextOffset', pending, pendingTotal, LoopExit, pc)
    /\ UNCHANGED <<commitErrs, todo, procVars, handled, skipped>>

\* CommitMessages returned nil: advance nextOffset and look for the next one.
CommitOK ==
    /\ pc \in InCommit
    /\ committed' = [committed EXCEPT ![cur] = nextOffset[cur] + 1]
    /\ nextOffset' = [nextOffset EXCEPT ![cur] = @ + 1]
    /\ CommitNext(cur, nextOffset', pending, pendingTotal, LoopExit, pc)
    /\ UNCHANGED <<commitErrs, todo, procVars, handled, skipped>>

\* Mutant: a failed commit re-queues the message but not the gauge.
CommitErrGaugeForgotten(tookEffect) ==
    /\ pc \in InCommit
    /\ commitErrs < MaxCommitErrors \/ ctxDone
    /\ commitErrs' = commitErrs + 1
    /\ committed' = IF tookEffect
                    THEN [committed EXCEPT ![cur] = nextOffset[cur] + 1]
                    ELSE committed
    /\ pending' = [pending EXCEPT ![cur] = @ \union {nextOffset[cur]}]
    /\ pc' = LoopExit
    /\ cur' = NoPartition
    /\ UNCHANGED <<nextOffset, pendingTotal, todo, procVars, handled, skipped>>

\* Mutant: a failed commit is undone at the broker before it is retried.
CommitErrRollsBack(tookEffect) ==
    /\ pc \in InCommit
    /\ commitErrs < MaxCommitErrors \/ ctxDone
    /\ commitErrs' = commitErrs + 1
    /\ committed' = [committed EXCEPT ![cur] =
                        IF tookEffect THEN nextOffset[cur] + 1 ELSE nextOffset[cur]]
    /\ pending' = [pending EXCEPT ![cur] = @ \union {nextOffset[cur]}]
    /\ pendingTotal' = pendingTotal + 1
    /\ pc' = LoopExit
    /\ cur' = NoPartition
    /\ UNCHANGED <<nextOffset, todo, procVars, handled, skipped>>

\* CommitMessages failed, with or without the broker having taken the offset:
\* put the message back, keep nextOffset, leave the loop.  On a cancelled
\* context (always so in flush) the call can fail with a healthy broker.
CommitErr(tookEffect) ==
    /\ pc \in InCommit
    /\ commitErrs < MaxCommitErrors \/ ctxDone
    /\ commitErrs' = commitErrs + 1
    /\ committed' = IF tookEffect
                    THEN [committed EXCEPT ![cur] = nextOffset[cur] + 1]
                    ELSE committed
    /\ pending' = [pending EXCEPT ![cur] = @ \union {nextOffset[cur]}]
    /\ pendingTotal' = pendingTotal + 1
    /\ pc' = LoopExit
    /\ cur' = NoPartition
    /\ UNCHANGED <<nextOffset, todo, procVars, handled, skipped>>

\* case <-ctx.Done(), or commitCh closed and empty: start flush.
BeginFlush ==
    /\ pc = "select"
    /\ ctxDone \/ (~chOpen /\ commitCh = <<>>)
    /\ pc' = "flush"
    /\ todo' = Partitions
    /\ UNCHANGED <<nextOffset, pending, pendingTotal, commitErrs, cur,
                   procVars, committed, handled, skipped>>

\* flush: the next partition in Go's arbitrary map order.
FlushPartition(p) ==
    /\ pc = "flush"
    /\ p \in todo
    /\ todo' = todo \ {p}
    /\ CommitNext(p, nextOffset, pending, pendingTotal, "flush", "flushing")
    /\ UNCHANGED <<nextOffset, commitErrs, procVars, committed, handled, skipped>>

\* flush is over: run returns and marks its WaitGroup done.
FlushDone ==
    /\ pc = "flush"
    /\ todo = {}
    /\ pc' = "stopped"
    /\ UNCHANGED <<nextOffset, pending, pendingTotal, commitErrs, cur, todo,
                   procVars, committed, handled, skipped>>

Coordinator ==
    \/ Receive
    \/ CommitOK
    \/ \E tookEffect \in BOOLEAN : CommitErr(tookEffect)
    \/ BeginFlush
    \/ \E p \in Partitions : FlushPartition(p)
    \/ FlushDone

--------------------------------------------------------------------------------
\* The process dies, at any point, and its replacement resumes from what the
\* group has committed; everything in memory is lost.
Restart ==
    /\ commitCh' = <<>>
    /\ chOpen' = TRUE
    /\ ctxDone' = FALSE
    /\ nextOffset' = [p \in Partitions |-> None]
    /\ pending' = [p \in Partitions |-> {}]
    /\ pendingTotal' = 0
    /\ commitErrs' = 0
    /\ pc' = "select"
    /\ cur' = NoPartition
    /\ todo' = {}
    /\ startAt' = committed
    /\ sent' = [p \in Partitions |-> {}]
    /\ UNCHANGED <<committed, handled, skipped>>

Next ==
    \/ \E p \in Partitions, o \in Offsets : Send(p, o)
    \/ Cancel
    \/ Close
    \/ Coordinator
    \/ Restart

Spec == Init /\ [][Next]_vars

--------------------------------------------------------------------------------
(* Properties.                                                             *)

\* Every variable stays in its type; in particular the in-memory next offset
\* and the broker's offset never run past the end of the log.
TypeOK ==
    /\ commitCh \in Seq(Message)
    /\ Len(commitCh) <= ChanCap
    /\ chOpen \in BOOLEAN
    /\ ctxDone \in BOOLEAN
    /\ nextOffset \in [Partitions -> {None} \union 0..(MaxOffset + 1)]
    /\ pending \in [Partitions -> SUBSET Offsets]
    /\ pendingTotal \in Int
    /\ commitErrs \in Nat
    /\ pc \in {"select", "drain", "flush", "flushing", "stopped"}
    /\ cur \in Partitions \union {NoPartition}
    /\ todo \subseteq Partitions
    /\ committed \in [Partitions -> 0..(MaxOffset + 1)]
    /\ startAt \in [Partitions -> 0..(MaxOffset + 1)]
    /\ sent \in [Partitions -> SUBSET Offsets]
    /\ handled \in [Partitions -> SUBSET Offsets]
    /\ skipped \in [Partitions -> SUBSET Offsets]

\* Across completions in any order, failed commits and restarts, the group
\* never resumes past an offset whose job was not completed, except for the
\* offsets below the first completion a process saw on the partition (enqueue's
\* initialisation of nextOffset).
CommitCoversHandled ==
    \A p \in Partitions, o \in Offsets :
        o < committed[p] => o \in handled[p] \union skipped[p]

\* A buffered message below nextOffset is never looked up again.  Only offsets
\* left behind by the initialisation of nextOffset can get there: a failed or
\* successful commit strands nothing.
StrandedOnlyIfSkipped ==
    \A p \in Partitions : \A o \in pending[p] :
        o < nextOffset[p] => o \in skipped[p]

\* The coordinator owes nothing when it waits for the next message: if no
\* commit has failed, a contiguous run of received completions that begins at
\* the partition's start is committed to its end.
IdleMeansCommitted ==
    \A p \in Partitions, n \in Offsets :
        (/\ pc = "select"
         /\ commitErrs = 0
         /\ n >= startAt[p]
         /\ startAt[p]..n \subseteq sent[p]
         /\ \A i \in 1..Len(commitCh) : commitCh[i].partition # p)
        => committed[p] > n

\* worker_commit_pending reports exactly the number of buffered messages,
\* through failed commits and the flush.
PendingGaugeExact ==
    pendingTotal = Cardinality({m \in Message : m.offset \in pending[m.partition]})

\* The mechanism implements the promise: each step of the worker either leaves
\* the committed offsets alone or moves one of them forward over completed or
\* waived offsets.
Promise == INSTANCE InOrderCommit
ImplementsInOrderCommit == Promise!Spec

\* What commit_coordinator.go and FAILURE_MODES.MD claim without the exception:
\* an offset is committed only when it and all offsets before it completed.
NeverCommitPastUnfinished ==
    \A p \in Partitions, o \in Offsets : o < committed[p] => o \in handled[p]
================================================================================
