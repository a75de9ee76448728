--------------------------------- MODULE Worker --------------------------------
(***************************************************************************)
(* One crawl worker process (cmd/worker/main.go): the main goroutine       *)
(* fetches and dispatches messages, job goroutines process them, the       *)
(* coordinator commits them, and main shuts the three down.  Composes      *)
(* CommitCoordinator with the dispatch loop, the semaphore, the WaitGroup, *)
(* the Redis dedupe keys, shutdown, crashes and restarts.                  *)
(*                                                                         *)
(* What a job does between its start and its end is in JobProcess; here a  *)
(* job runs and ends, its outcome stored or not.  The log of a partition   *)
(* is any sequence of jobs and undecodable payloads.                       *)
(***************************************************************************)
EXTENDS Integers, Sequences, FiniteSets

CONSTANTS
    Partitions, NoPartition, MaxOffset, MaxCommitErrors,
    Keys,             \* dedupe keys (dedupeKeyForJob)
    Invalid,          \* a payload json.Unmarshal rejects
    ConcurrentJobs,   \* capacity of the semaphore
    NoMsg,            \* main holds no message
    MaxStoreErrors,   \* bound: failed SetNX calls on a live context
    MaxExpiries,      \* bound: how often the TTL of one key runs out
    MaxRestarts       \* bound: how often the process is started again

ASSUME TopicAssumption ==
    NoPartition \notin Partitions /\ MaxOffset \in Nat /\ MaxCommitErrors \in Nat
ASSUME ConcurrentJobsAssumption == ConcurrentJobs \in Nat \ {0}
ASSUME InvalidAssumption == Invalid \notin Keys
ASSUME NoMsgAssumption == NoMsg \notin [partition : Partitions, offset : 0..MaxOffset]
ASSUME BudgetAssumption ==
    MaxStoreErrors \in Nat /\ MaxExpiries \in Nat /\ MaxRestarts \in Nat

VARIABLES
    commitCh, chOpen, ctxDone, nextOffset, pending, pendingTotal, commitErrs,
    pc, cur, todo, committed, startAt, sent, handled, skipped,
    log,          \* the frontier: what each offset of each partition holds
    position,     \* reader: next offset FetchMessage returns per partition
    main,         \* where the main goroutine is
    hand,         \* the message main is dispatching
    running,      \* messages whose job goroutine holds a semaphore slot
    sending,      \* messages whose goroutine has released everything and sends
    visited,      \* Redis: dedupe keys that are set
    expired,      \* how often the TTL of a key ran out
    crawls,       \* history: jobs started per key
    crawled,      \* history: keys some job of which ended with its outcome stored
    cutShort,     \* history: keys some job of which ended with nothing stored
    orphaned,     \* history: keys set by a dispatch whose job never finished
    dropped,      \* history: offsets this process fetched and let go of
    storeErrs, restarts

coordinatorVars ==
    <<commitCh, chOpen, ctxDone, nextOffset, pending, pendingTotal, commitErrs,
      pc, cur, todo, committed, startAt, sent, handled, skipped>>
redisVars == <<visited, expired>>
jobVars == <<running, sending, crawls, crawled, cutShort>>
lossVars == <<orphaned, dropped>>
wvars == <<log, position, main, hand, redisVars, jobVars, lossVars, storeErrs, restarts>>
vars == <<coordinatorVars, wvars>>

\* The coordinator with the channel main makes for it (concurrentJobs*2).
CC == INSTANCE CommitCoordinator WITH ChanCap <- 2 * ConcurrentJobs

Key(m) == log[m.partition][m.offset]
Alive == main \notin {"exited", "panicked"}
ChannelHasRoom == Len(commitCh) < 2 * ConcurrentJobs
Send(m) == CC!SendEffect(m.partition, m.offset)

Init ==
    /\ CC!Init
    /\ log \in [Partitions -> [CC!Offsets -> Keys \union {Invalid}]]
    /\ position = [p \in Partitions |-> 0]
    /\ main = "fetch"
    /\ hand = NoMsg
    /\ running = {}
    /\ sending = {}
    /\ visited = {}
    /\ expired = [k \in Keys |-> 0]
    /\ crawls = [k \in Keys |-> 0]
    /\ crawled = {}
    /\ cutShort = {}
    /\ orphaned = {}
    /\ dropped = [p \in Partitions |-> {}]
    /\ storeErrs = 0
    /\ restarts = 0

--------------------------------------------------------------------------------
(* The main goroutine: run and dispatchMessage.                            *)

\* FetchMessage returns a message; with a cancelled context it still may.
Fetch(p) ==
    /\ main = "fetch"
    /\ position[p] <= MaxOffset
    /\ hand' = [partition |-> p, offset |-> position[p]]
    /\ position' = [position EXCEPT ![p] = @ + 1]
    /\ main' = "dispatch"
    /\ UNCHANGED <<coordinatorVars, log, redisVars, jobVars, lossVars, storeErrs, restarts>>

\* FetchMessage fails on a cancelled context: run returns.
FetchCancelled ==
    /\ main = "fetch"
    /\ ctxDone
    /\ main' = "waitJobs"
    /\ UNCHANGED <<coordinatorVars, log, position, hand, redisVars, jobVars,
                   lossVars, storeErrs, restarts>>

\* An undecodable payload goes straight to the coordinator.
DispatchInvalid ==
    /\ main = "dispatch"
    /\ Key(hand) = Invalid
    /\ main' = "send"
    /\ UNCHANGED <<coordinatorVars, log, position, hand, redisVars, jobVars,
                   lossVars, storeErrs, restarts>>

\* SetNX found the key: the message is a duplicate and goes to the coordinator.
\* SetNX only succeeds on a live context.
DispatchDuplicate ==
    /\ main = "dispatch"
    /\ ~ctxDone
    /\ Key(hand) \in visited
    /\ main' = "send"
    /\ UNCHANGED <<coordinatorVars, log, position, hand, redisVars, jobVars,
                   lossVars, storeErrs, restarts>>

\* Mutant: checks the dedupe key without setting it.
DispatchFreshCheckOnly ==
    /\ main = "dispatch"
    /\ ~ctxDone
    /\ Key(hand) \in Keys \ visited
    /\ main' = "slot"
    /\ UNCHANGED <<coordinatorVars, log, position, hand, redisVars, jobVars,
                   lossVars, storeErrs, restarts>>

\* SetNX set the key: main waits for a slot.
DispatchFresh ==
    /\ main = "dispatch"
    /\ ~ctxDone
    /\ Key(hand) \in Keys \ visited
    /\ visited' = visited \union {Key(hand)}
    /\ main' = "slot"
    /\ UNCHANGED <<coordinatorVars, log, position, hand, expired, jobVars,
                   lossVars, storeErrs, restarts>>

\* main lets go of the message in hand without sending it anywhere.
LetGo ==
    /\ main' = "fetch"
    /\ hand' = NoMsg
    /\ dropped' = [dropped EXCEPT ![hand.partition] = @ \union {hand.offset}]

\* SetNX failed, with or without the key having been set; dispatchMessage
\* returns the error and run goes on with the next message.
DispatchStoreError(tookEffect) ==
    /\ main = "dispatch"
    /\ Key(hand) \in Keys
    /\ \/ storeErrs < MaxStoreErrors /\ storeErrs' = storeErrs + 1
       \/ ctxDone /\ UNCHANGED storeErrs
    /\ LetGo
    /\ \/ /\ tookEffect
          /\ Key(hand) \notin visited
          /\ visited' = visited \union {Key(hand)}
          /\ orphaned' = orphaned \union {Key(hand)}
       \/ ~tookEffect /\ UNCHANGED <<visited, orphaned>>
    /\ UNCHANGED <<coordinatorVars, log, position, expired, jobVars, restarts>>

\* select: the context is cancelled while main waits for a slot.
SlotCancelled ==
    /\ main = "slot"
    /\ ctxDone
    /\ LetGo
    /\ orphaned' = orphaned \union {Key(hand)}
    /\ UNCHANGED <<coordinatorVars, log, position, redisVars, jobVars, storeErrs, restarts>>

\* Mutant: starts the job without taking a slot.
AcquireSlotUnbounded ==
    /\ main = "slot"
    /\ running' = running \union {hand}
    /\ crawls' = [crawls EXCEPT ![Key(hand)] = @ + 1]
    /\ main' = "fetch"
    /\ hand' = NoMsg
    /\ UNCHANGED <<coordinatorVars, log, position, redisVars, sending, crawled, cutShort,
                   lossVars, storeErrs, restarts>>

\* Mutant: signals the commit when the job starts instead of when it ends.
AcquireSlotCommitFirst ==
    /\ main = "slot"
    /\ Cardinality(running) < ConcurrentJobs
    /\ main' = "send"
    /\ crawls' = [crawls EXCEPT ![Key(hand)] = @ + 1]
    /\ UNCHANGED <<coordinatorVars, log, position, hand, redisVars, running, sending,
                   crawled, cutShort, lossVars, storeErrs, restarts>>

\* Mutant: main signals the commit when the job starts, and the deferred function
\* of the job signals it again.
AcquireSlotSendsToo ==
    /\ main = "slot"
    /\ Cardinality(running) < ConcurrentJobs
    /\ ChannelHasRoom
    /\ Send(hand)
    /\ running' = running \union {hand}
    /\ crawls' = [crawls EXCEPT ![Key(hand)] = @ + 1]
    /\ main' = "fetch"
    /\ hand' = NoMsg
    /\ UNCHANGED <<log, position, redisVars, sending, crawled, cutShort,
                   lossVars, storeErrs, restarts>>

\* select: a slot is free; wg.Add(1) and start the job goroutine.
AcquireSlot ==
    /\ main = "slot"
    /\ Cardinality(running) < ConcurrentJobs
    /\ running' = running \union {hand}
    /\ crawls' = [crawls EXCEPT ![Key(hand)] = @ + 1]
    /\ main' = "fetch"
    /\ hand' = NoMsg
    /\ UNCHANGED <<coordinatorVars, log, position, redisVars, sending, crawled, cutShort,
                   lossVars, storeErrs, restarts>>

\* Mutant: a duplicate or undecodable message is skipped without being committed.
MainSendNothing ==
    /\ main = "send"
    /\ main' = "fetch"
    /\ hand' = NoMsg
    /\ UNCHANGED <<coordinatorVars, log, position, redisVars, jobVars, lossVars,
                   storeErrs, restarts>>

\* commitCh <- msg in main itself; blocks while the channel is full.
MainSend ==
    /\ main = "send"
    /\ ChannelHasRoom
    /\ Send(hand)
    /\ main' = "fetch"
    /\ hand' = NoMsg
    /\ UNCHANGED <<log, position, redisVars, jobVars, lossVars, storeErrs, restarts>>

\* wg.Wait returned: close(commitCh).
CloseChannel ==
    /\ main = "waitJobs"
    /\ running = {}
    /\ CC!Close
    /\ main' = "waitCoord"
    /\ UNCHANGED <<log, position, hand, redisVars, jobVars, lossVars, storeErrs, restarts>>

\* coordWg.Wait returned: main returns and the process is gone.
Exit ==
    /\ main = "waitCoord"
    /\ pc = "stopped"
    /\ main' = "exited"
    /\ UNCHANGED <<coordinatorVars, log, position, hand, redisVars, jobVars,
                   lossVars, storeErrs, restarts>>

Main ==
    \/ \E p \in Partitions : Fetch(p)
    \/ FetchCancelled
    \/ DispatchInvalid
    \/ DispatchDuplicate
    \/ DispatchFresh
    \/ \E tookEffect \in BOOLEAN : DispatchStoreError(tookEffect)
    \/ SlotCancelled
    \/ AcquireSlot
    \/ MainSend
    \/ CloseChannel
    \/ Exit

--------------------------------------------------------------------------------
(* A job goroutine: processJobAsync and its deferred function.             *)

\* The deferred function gives the slot back and marks the WaitGroup done before
\* it sends.
Release(m) ==
    /\ Alive
    /\ m \in running
    /\ running' = running \ {m}
    /\ sending' = sending \union {m}

\* The job is over and a result or a DLQ entry of it is stored.
JobFinish(m) ==
    /\ Release(m)
    /\ crawled' = crawled \union {Key(m)}
    /\ UNCHANGED <<coordinatorVars, log, position, main, hand, redisVars, crawls, cutShort,
                   lossVars, storeErrs, restarts>>

\* The job is over with neither: a timeout or the shutdown ended it, or the write
\* of its result or DLQ entry failed, which is only logged.
JobCutShort(m) ==
    /\ Release(m)
    /\ cutShort' = cutShort \union {Key(m)}
    /\ UNCHANGED <<coordinatorVars, log, position, main, hand, redisVars, crawls, crawled,
                   lossVars, storeErrs, restarts>>

\* commitCh <- msg.
JobSend(m) ==
    /\ Alive
    /\ m \in sending
    /\ chOpen
    /\ ChannelHasRoom
    /\ Send(m)
    /\ sending' = sending \ {m}
    /\ UNCHANGED <<log, position, main, hand, redisVars, running, crawls, crawled, cutShort,
                   lossVars, storeErrs, restarts>>

\* commitCh <- msg after close(commitCh): the process panics.
JobSendClosed(m) ==
    /\ Alive
    /\ m \in sending
    /\ ~chOpen
    /\ main' = "panicked"
    /\ UNCHANGED <<coordinatorVars, log, position, hand, redisVars, jobVars,
                   lossVars, storeErrs, restarts>>

Job(m) == JobFinish(m) \/ JobCutShort(m) \/ JobSend(m) \/ JobSendClosed(m)

--------------------------------------------------------------------------------
(* The coordinator, signals, Redis and the pod's life cycle.               *)

CoordinatorStep ==
    /\ Alive
    /\ CC!Coordinator
    /\ UNCHANGED wvars

Signal ==
    /\ Alive
    /\ CC!Cancel
    /\ UNCHANGED wvars

\* The TTL of a dedupe key runs out.
Expire(k) ==
    /\ k \in visited
    /\ expired[k] < MaxExpiries
    /\ visited' = visited \ {k}
    /\ expired' = [expired EXCEPT ![k] = @ + 1]
    /\ UNCHANGED <<coordinatorVars, log, position, main, hand, jobVars, lossVars,
                   storeErrs, restarts>>

\* Keys set by this process whose job has not finished.
Unfinished ==
    {Key(m) : m \in running} \union (IF main = "slot" THEN {Key(hand)} ELSE {})

\* The process ended or is killed, and the pod is started again.
Restart ==
    /\ restarts < MaxRestarts
    /\ restarts' = restarts + 1
    /\ CC!Restart
    /\ position' = committed
    /\ main' = "fetch"
    /\ hand' = NoMsg
    /\ running' = {}
    /\ sending' = {}
    /\ orphaned' = orphaned \union Unfinished
    /\ dropped' = [p \in Partitions |-> {}]
    /\ UNCHANGED <<log, redisVars, crawls, crawled, cutShort, storeErrs>>

Next ==
    \/ Main
    \/ \E m \in CC!Message : Job(m)
    \/ CoordinatorStep
    \/ Signal
    \/ \E k \in Keys : Expire(k)
    \/ Restart

Spec == Init /\ [][Next]_vars

\* Go schedules every goroutine that can run, jobs end (JobProcess) and the
\* broker answers; nothing forces a signal, a crash or an expiry.
Fairness ==
    /\ WF_vars(Main)
    /\ \A m \in CC!Message : WF_vars(Job(m))
    /\ WF_vars(CoordinatorStep)

FairSpec == Spec /\ Fairness

--------------------------------------------------------------------------------
(* Properties.                                                             *)

\* Every variable stays in its type; the semaphore is never over-full.
TypeOK ==
    /\ CC!TypeOK
    /\ log \in [Partitions -> [CC!Offsets -> Keys \union {Invalid}]]
    /\ position \in [Partitions -> 0..(MaxOffset + 1)]
    /\ main \in {"fetch", "dispatch", "slot", "send", "waitJobs", "waitCoord",
                 "exited", "panicked"}
    /\ hand \in CC!Message \union {NoMsg}
    /\ hand = NoMsg <=> main \notin {"dispatch", "slot", "send"}
    /\ running \subseteq CC!Message
    /\ Cardinality(running) <= ConcurrentJobs
    /\ sending \subseteq CC!Message
    /\ visited \subseteq Keys
    /\ expired \in [Keys -> 0..MaxExpiries]
    /\ crawls \in [Keys -> Nat]
    /\ crawled \subseteq Keys
    /\ cutShort \subseteq Keys
    /\ orphaned \subseteq Keys
    /\ dropped \in [Partitions -> SUBSET CC!Offsets]
    /\ storeErrs \in 0..MaxStoreErrors
    /\ restarts \in 0..MaxRestarts

\* The worker uses the coordinator as CommitCoordinator assumes: whatever the
\* interleaving of main, the jobs, the shutdown and restarts, one process life
\* puts an offset on commitCh at most once and none below where it resumed.
UsesCoordinator == CC!Spec

\* Where a message this process has read can be; exactly one of them is true.
Places(m) ==
    << hand = m, m \in running, m \in sending,
       m.offset \in sent[m.partition], m.offset \in dropped[m.partition] >>

\* A message read by this process is in exactly one place: dispatched by main,
\* in a job, waiting to be sent, sent, or let go of.  None is forgotten and
\* none is processed twice, in any interleaving of main, jobs and coordinator.
MessageInOnePlace ==
    \A m \in CC!Message :
        LET places == {i \in 1..5 : Places(m)[i]}
        IN  Cardinality(places) =
                IF startAt[m.partition] <= m.offset /\ m.offset < position[m.partition]
                THEN 1 ELSE 0

\* A URL is crawled at most once per life of its dedupe key, whatever
\* partitions carry it and however often the process restarts.
AtMostOneCrawlPerKeyLife ==
    \A k \in Keys : crawls[k] <= 1 + expired[k]

\* When the group has moved past a job, some job for its URL ended with a result
\* or a DLQ entry stored or is running, except for the three windows the code
\* leaves open: a job for its URL was cut short with nothing stored (the deferred
\* send commits it all the same), the key was set by a dispatch whose job never
\* ended, or the offset lies below the first completion the coordinator saw.
CommittedWorkIsDone ==
    \A m \in CC!Message :
        (m.offset < committed[m.partition] /\ Key(m) \in Keys)
        => \/ Key(m) \in crawled \union cutShort \union orphaned \union Unfinished
           \/ m.offset \in skipped[m.partition]

\* With no failure and no shutdown, every message of the log is committed.
Quiet == ~ctxDone /\ commitErrs = 0 /\ storeErrs = 0 /\ restarts = 0
EveryMessageCommitted ==
    []Quiet => <>(\A p \in Partitions : committed[p] = MaxOffset + 1)

--------------------------------------------------------------------------------
(* What comments and documents say, and the code does not do.              *)

\* "Always release slot and signal commit": no goroutine finds commitCh closed.
NoSendOnClosedChannel == main # "panicked"

\* "the commit path is never blocked indefinitely": after a signal the process
\* comes to its end.
ShutdownCompletes == [](ctxDone => <>(~Alive))
================================================================================
