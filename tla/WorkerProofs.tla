------------------------------ MODULE WorkerProofs -----------------------------
(***************************************************************************)
(* Proofs about Worker, for every topic, number of slots and number of     *)
(* failures.  The coordinator's theorems are used through an instance of   *)
(* its proofs; what is proved here is that the worker keeps to what they   *)
(* assume, and what follows for messages, crawls and commits.              *)
(***************************************************************************)
EXTENDS Worker, FiniteSetTheorems, TLAPS

CP == INSTANCE CommitCoordinatorProofs WITH ChanCap <- 2 * ConcurrentJobs

--------------------------------------------------------------------------------
(* The inductive invariant.                                                *)

\* The worker's own variables; the coordinator's types are part of CP!IInv.
OwnTypeOK ==
    /\ log \in [Partitions -> [CC!Offsets -> Keys \union {Invalid}]]
    /\ position \in [Partitions -> 0..(MaxOffset + 1)]
    /\ main \in {"fetch", "dispatch", "slot", "send", "waitJobs", "waitCoord",
                 "exited", "panicked"}
    /\ hand \in CC!Message \union {NoMsg}
    /\ hand = NoMsg <=> main \notin {"dispatch", "slot", "send"}
    /\ sending \subseteq CC!Message
    /\ visited \subseteq Keys
    /\ expired \in [Keys -> 0..MaxExpiries]
    /\ crawls \in [Keys -> Nat]
    /\ crawled \subseteq Keys
    /\ cutShort \subseteq Keys
    /\ orphaned \subseteq Keys
    /\ dropped \in [Partitions -> SUBSET CC!Offsets]
    /\ storeErrs \in 0..MaxStoreErrors
    /\ restarts \in 0..MaxRestarts

SlotInv ==
    /\ running \subseteq CC!Message
    /\ IsFiniteSet(running)
    /\ Cardinality(running) <= ConcurrentJobs

\* Main closes the channel only when it leaves the dispatch loop for good.
OpenInv == main \in {"fetch", "dispatch", "slot", "send", "waitJobs"} => chOpen

\* A message of this process life is in one of the five places exactly when the
\* reader has delivered it, and no two places share one.
Read(m) == startAt[m.partition] <= m.offset /\ m.offset < position[m.partition]
OnePlace(m) ==
    /\ Read(m) <=> \/ hand = m \/ m \in running \/ m \in sending
                   \/ m.offset \in sent[m.partition]
                   \/ m.offset \in dropped[m.partition]
    /\ hand = m => m \notin running
    /\ hand = m \/ m \in running => m \notin sending
    /\ hand = m \/ m \in running \/ m \in sending =>
          m.offset \notin sent[m.partition]
    /\ hand = m \/ m \in running \/ m \in sending \/ m.offset \in sent[m.partition] =>
          m.offset \notin dropped[m.partition]

PlaceInv ==
    /\ \A p \in Partitions : startAt[p] <= position[p]
    /\ \A m \in CC!Message : OnePlace(m)

\* Only jobs are started, and a goroutine that sends has finished its job.
JobInv ==
    /\ \A m \in running \union sending : Key(m) \in Keys
    /\ \A m \in sending : Key(m) \in crawled \union cutShort
    /\ main = "slot" => Key(hand) \in Keys

\* Keys that were crawled or cut short, are being crawled, or were set in vain.
Accounted == crawled \union cutShort \union orphaned \union Unfinished

\* A key is set only on behalf of a job that is accounted for, and whatever was
\* given to the coordinator is undecodable or has such a key.
WorkInv ==
    /\ visited \subseteq Accounted
    /\ main = "send" /\ Key(hand) \in Keys => Key(hand) \in Accounted
    /\ \A m \in CC!Message :
          m.offset \in handled[m.partition] /\ Key(m) \in Keys => Key(m) \in Accounted

\* Every crawl of a key, begun or about to begin, used up one setting of it.
CountInv ==
    \A k \in Keys :
        crawls[k] + (IF main = "slot" /\ Key(hand) = k THEN 1 ELSE 0)
            <= expired[k] + (IF k \in visited THEN 1 ELSE 0)

OwnInv ==
    /\ OwnTypeOK
    /\ SlotInv
    /\ OpenInv
    /\ PlaceInv
    /\ JobInv
    /\ WorkInv
    /\ CountInv

--------------------------------------------------------------------------------
(* The two instances of the coordinator.                                   *)

\* The instance the specification uses and the one with the proofs agree.
LEMMA SameCoordinator ==
    /\ CC!Message = CP!Message
    /\ CC!vars = CP!vars
    /\ CC!Init <=> CP!Init
    /\ CC!Next <=> CP!Next
    /\ CC!TypeOK <=> CP!TypeOK
    /\ CC!CommitCoversHandled <=> CP!CommitCoversHandled
<1> USE DEF CC!None, CP!None, CC!Offsets, CP!Offsets, CC!InCommit, CP!InCommit,
            CC!coordVars, CP!coordVars, CC!procVars, CP!procVars
<1>1. CC!Message = CP!Message
  BY DEF CC!Message, CP!Message
<1>2. CC!vars = CP!vars
  BY DEF CC!vars, CP!vars
<1>3. CC!Init <=> CP!Init
  BY DEF CC!Init, CP!Init
<1>4. CC!Next <=> CP!Next
  <2>1. \A p, o : CC!Send(p, o) <=> CP!Send(p, o)
    BY DEF CC!Send, CP!Send, CC!SendEffect, CP!SendEffect
  <2>2. /\ CC!Cancel <=> CP!Cancel
        /\ CC!Close <=> CP!Close
        /\ CC!BeginFlush <=> CP!BeginFlush
        /\ CC!FlushDone <=> CP!FlushDone
        /\ CC!Restart <=> CP!Restart
    BY DEF CC!Cancel, CP!Cancel, CC!Close, CP!Close, CC!BeginFlush, CP!BeginFlush,
           CC!FlushDone, CP!FlushDone, CC!Restart, CP!Restart
  <2>3. CC!Receive <=> CP!Receive
    BY DEF CC!Receive, CP!Receive, CC!CommitNext, CP!CommitNext, CC!Initialised,
           CP!Initialised, CC!Passed, CP!Passed
  <2>4. CC!CommitOK <=> CP!CommitOK
    BY DEF CC!CommitOK, CP!CommitOK, CC!CommitNext, CP!CommitNext, CC!LoopExit, CP!LoopExit
  <2>5. \A t : CC!CommitErr(t) <=> CP!CommitErr(t)
    BY DEF CC!CommitErr, CP!CommitErr, CC!LoopExit, CP!LoopExit
  <2>6. \A p : CC!FlushPartition(p) <=> CP!FlushPartition(p)
    BY DEF CC!FlushPartition, CP!FlushPartition, CC!CommitNext, CP!CommitNext
  <2> QED BY <2>1, <2>2, <2>3, <2>4, <2>5, <2>6
          DEF CC!Next, CP!Next, CC!Coordinator, CP!Coordinator
<1>5. CC!TypeOK <=> CP!TypeOK
  BY <1>1 DEF CC!TypeOK, CP!TypeOK
<1>6. CC!CommitCoversHandled <=> CP!CommitCoversHandled
  BY DEF CC!CommitCoversHandled, CP!CommitCoversHandled
<1> QED BY <1>1, <1>2, <1>3, <1>4, <1>5, <1>6

\* The proofs' assumptions about the constants hold of this instance.
LEMMA CoordinatorConstants ==
    /\ NoPartition \notin Partitions
    /\ MaxOffset \in Nat
    /\ 2 * ConcurrentJobs \in Nat \ {0}
    /\ MaxCommitErrors \in Nat
BY TopicAssumption, ConcurrentJobsAssumption

\* CC!vars is the coordinator's part of the worker's variables.
LEMMA CoordinatorVars == UNCHANGED coordinatorVars => UNCHANGED CC!vars
BY DEF coordinatorVars, CC!vars

--------------------------------------------------------------------------------
(* The worker is an environment the coordinator allows.                    *)

\* A message in main's hand or in a goroutine that sends has not been sent in
\* this process life, so what main and the jobs do is a Send of the coordinator.
LEMMA SendAllowed ==
    ASSUME OwnInv, NEW m \in CC!Message, m = hand \/ m \in sending,
           chOpen, ChannelHasRoom, Send(m)
    PROVE  CC!Next
<1>1. m.partition \in Partitions /\ m.offset \in CC!Offsets
  BY DEF CC!Message
<1>2. m.offset >= startAt[m.partition] /\ m.offset \notin sent[m.partition]
  BY <1>1 DEF OwnInv, PlaceInv, OnePlace, Read
<1>3. CC!Send(m.partition, m.offset)
  BY <1>2 DEF CC!Send, ChannelHasRoom, Send
<1> QED BY <1>1, <1>3 DEF CC!Next

\* Every step of the worker is one of the coordinator's specification.
LEMMA StepUses ==
    ASSUME OwnInv, [Next]_vars
    PROVE  [CC!Next]_(CC!vars)
<1>1. CASE MainSend
  <2>1. main = "send" /\ hand \in CC!Message /\ chOpen /\ ChannelHasRoom /\ Send(hand)
    BY <1>1 DEF MainSend, OwnInv, OwnTypeOK, OpenInv
  <2> QED BY <2>1, SendAllowed
<1>2. CASE CloseChannel
  BY <1>2 DEF CloseChannel, CC!Next
<1>3. CASE Main /\ ~MainSend /\ ~CloseChannel
  <2>1. UNCHANGED coordinatorVars
    BY <1>3 DEF Main, Fetch, FetchCancelled, DispatchInvalid, DispatchDuplicate,
                DispatchFresh, DispatchStoreError, SlotCancelled, AcquireSlot, Exit
  <2> QED BY <2>1, CoordinatorVars
<1>4. ASSUME NEW m \in CC!Message, Job(m)
      PROVE  [CC!Next]_(CC!vars)
  <2>1. CASE JobSend(m)
    BY <2>1, SendAllowed DEF JobSend
  <2>2. CASE JobFinish(m) \/ JobCutShort(m) \/ JobSendClosed(m)
    BY <2>2, CoordinatorVars DEF JobFinish, JobCutShort, JobSendClosed
  <2> QED BY <1>4, <2>1, <2>2 DEF Job
<1>5. CASE CoordinatorStep \/ Signal \/ Restart
  BY <1>5 DEF CoordinatorStep, Signal, Restart, CC!Next
<1>6. ASSUME NEW k \in Keys, Expire(k)
      PROVE  [CC!Next]_(CC!vars)
  BY <1>6, CoordinatorVars DEF Expire
<1>7. CASE UNCHANGED vars
  BY <1>7, CoordinatorVars DEF vars
<1> QED BY <1>1, <1>2, <1>3, <1>4, <1>5, <1>6, <1>7 DEF Next

\* The coordinator goroutine and a signal leave alone what main and the jobs use.
LEMMA CoordinatorLeaves ==
    ASSUME CC!Coordinator \/ CC!Cancel
    PROVE  UNCHANGED <<chOpen, startAt, sent, handled>>
BY DEF CC!Coordinator, CC!Cancel, CC!Receive, CC!CommitOK, CC!CommitErr, CC!BeginFlush,
       CC!FlushPartition, CC!FlushDone, CC!procVars

--------------------------------------------------------------------------------
(* Every action preserves the invariant.                                   *)

\* The reader delivers the next message of a partition.
LEMMA FetchInv ==
    ASSUME OwnInv, CC!TypeOK, NEW p \in Partitions, Fetch(p)
    PROVE  OwnInv'
<1> USE DEF Fetch, coordinatorVars, redisVars, jobVars, lossVars
<1> DEFINE r == [partition |-> p, offset |-> position[p]]
<1>1. /\ main = "fetch" /\ hand = NoMsg /\ hand' = r /\ main' = "dispatch"
      /\ position[p] \in CC!Offsets
      /\ r \in CC!Message /\ r # NoMsg
  BY TopicAssumption, NoMsgAssumption DEF OwnInv, OwnTypeOK, CC!Message, CC!Offsets
<1> HIDE DEF r
<1>2. OwnTypeOK'
  BY <1>1, TopicAssumption DEF OwnInv, OwnTypeOK, CC!Offsets
<1>3. SlotInv' /\ OpenInv'
  BY <1>1 DEF OwnInv, SlotInv, OpenInv
<1>4. PlaceInv'
  <2>0. \A q \in Partitions : (startAt[q] <= position[q])'
    BY TopicAssumption DEF OwnInv, OwnTypeOK, PlaceInv, CC!TypeOK
  <2> SUFFICES ASSUME NEW m \in CC!Message
               PROVE  OnePlace(m)'
    BY <2>0 DEF PlaceInv
  <2>1. m.partition \in Partitions /\ m.offset \in CC!Offsets
    BY DEF CC!Message
  <2>2. m = r <=> m.partition = p /\ m.offset = position[p]
    BY DEF CC!Message, r
  <2>3. startAt[p] \in Int /\ position[m.partition] \in Int /\ m.offset \in Int
    BY <2>1, TopicAssumption DEF CC!TypeOK, OwnInv, OwnTypeOK, CC!Offsets
  <2>4. Read(m)' <=> (Read(m) \/ m = r)
    <3>1. startAt' = startAt /\ position' = [position EXCEPT ![p] = @ + 1]
      OBVIOUS
    <3>2. startAt[p] <= position[p] /\ position \in [Partitions -> 0..(MaxOffset + 1)]
      BY DEF OwnInv, OwnTypeOK, PlaceInv
    <3> QED BY <2>1, <2>2, <2>3, <3>1, <3>2 DEF Read
  <2>5. OnePlace(m) /\ (m = r => ~Read(m)) /\ m # NoMsg
    BY <2>2, <2>3, NoMsgAssumption DEF OwnInv, PlaceInv, Read, CC!Message, CC!Offsets
  <2> QED BY <1>1, <2>4, <2>5 DEF OnePlace
<1>5. JobInv' /\ WorkInv' /\ CountInv'
  BY <1>1 DEF OwnInv, JobInv, WorkInv, CountInv, Accounted, Unfinished, Key
<1> QED BY <1>2, <1>3, <1>4, <1>5 DEF OwnInv

\* Steps that only move main along, and never to or from the wait for a slot.
LEMMA MoveInv ==
    ASSUME OwnInv,
           \/ FetchCancelled \/ DispatchInvalid \/ DispatchDuplicate \/ Exit
           \/ \E m \in CC!Message : JobSendClosed(m)
    PROVE  OwnInv'
<1>1. /\ UNCHANGED <<coordinatorVars, log, position, hand, redisVars, jobVars, lossVars,
                     storeErrs, restarts>>
      /\ main # "slot" /\ main' # "slot"
      /\ main' \in {"waitJobs", "send", "exited", "panicked"}
      /\ main' \in {"waitJobs", "send"} => chOpen
      /\ main' = "send" <=> main = "dispatch"
      /\ main' = "send" => Key(hand) \notin Keys \/ Key(hand) \in visited
      /\ main # "send"
  BY InvalidAssumption
     DEF FetchCancelled, DispatchInvalid, DispatchDuplicate, Exit, JobSendClosed,
         OwnInv, OpenInv, OwnTypeOK
<1>2. UNCHANGED <<chOpen, startAt, sent, handled, log, position, hand, visited, expired, running,
                  sending, crawls, crawled, cutShort, orphaned, dropped, storeErrs, restarts>>
  BY <1>1 DEF coordinatorVars, redisVars, jobVars, lossVars
<1>3. OwnTypeOK'
  BY <1>1, <1>2 DEF OwnInv, OwnTypeOK
<1>4. SlotInv' /\ OpenInv' /\ PlaceInv'
  BY <1>1, <1>2 DEF OwnInv, SlotInv, OpenInv, PlaceInv, OnePlace, Read
<1>5. JobInv' /\ WorkInv' /\ CountInv'
  BY <1>1, <1>2 DEF OwnInv, JobInv, WorkInv, CountInv, Accounted, Unfinished, Key
<1> QED BY <1>3, <1>4, <1>5 DEF OwnInv

\* The coordinator goroutine and a signal.
LEMMA CoordinatorInv ==
    ASSUME OwnInv, CoordinatorStep \/ Signal
    PROVE  OwnInv'
<1>1. UNCHANGED <<chOpen, startAt, sent, handled, wvars>>
  BY CoordinatorLeaves DEF CoordinatorStep, Signal
<1>2. UNCHANGED <<chOpen, startAt, sent, handled, log, position, main, hand, visited, expired,
                  running, sending, crawls, crawled, cutShort, orphaned, dropped, storeErrs, restarts>>
  BY <1>1 DEF wvars, redisVars, jobVars, lossVars
<1>3. OwnTypeOK' /\ SlotInv' /\ OpenInv' /\ PlaceInv'
  BY <1>2 DEF OwnInv, OwnTypeOK, SlotInv, OpenInv, PlaceInv, OnePlace, Read
<1>4. JobInv' /\ WorkInv' /\ CountInv'
  BY <1>2 DEF OwnInv, JobInv, WorkInv, CountInv, Accounted, Unfinished, Key
<1> QED BY <1>3, <1>4 DEF OwnInv

\* SetNX set the key, and main goes to wait for a slot.
LEMMA DispatchFreshInv ==
    ASSUME OwnInv, DispatchFresh
    PROVE  OwnInv'
<1>1. UNCHANGED <<chOpen, startAt, sent, handled, log, position, hand, expired,
                  running, sending, crawls, crawled, cutShort, orphaned, dropped, storeErrs, restarts>>
  BY DEF DispatchFresh, coordinatorVars, jobVars, lossVars
<1>2. /\ main = "dispatch" /\ main' = "slot"
      /\ Key(hand) \in Keys /\ Key(hand) \notin visited
      /\ visited' = visited \union {Key(hand)}
  BY DEF DispatchFresh
<1>3. OwnTypeOK' /\ SlotInv' /\ OpenInv'
  BY <1>1, <1>2 DEF OwnInv, OwnTypeOK, SlotInv, OpenInv
<1>4. PlaceInv'
  BY <1>1, <1>2 DEF OwnInv, PlaceInv, OnePlace, Read
<1>5. JobInv' /\ WorkInv'
  BY <1>1, <1>2 DEF OwnInv, JobInv, WorkInv, Accounted, Unfinished, Key
<1>6. CountInv'
  BY <1>1, <1>2 DEF OwnInv, OwnTypeOK, CountInv, Key
<1> QED BY <1>3, <1>4, <1>5, <1>6 DEF OwnInv

\* The message in hand goes to the offsets let go of.
LEMMA LetGoPlaces ==
    ASSUME OwnInv, LetGo, hand # NoMsg,
           UNCHANGED <<position, startAt, running, sending, sent>>
    PROVE  PlaceInv' /\ dropped' \in [Partitions -> SUBSET CC!Offsets]
<1>1. /\ hand \in CC!Message /\ hand.partition \in Partitions /\ hand.offset \in CC!Offsets
      /\ dropped \in [Partitions -> SUBSET CC!Offsets]
  BY DEF OwnInv, OwnTypeOK, CC!Message
<1>2. dropped' = [dropped EXCEPT ![hand.partition] = @ \union {hand.offset}] /\ hand' = NoMsg
  BY DEF LetGo
<1>3. ASSUME NEW m \in CC!Message PROVE OnePlace(m)'
  <2>1. /\ OnePlace(m) /\ OnePlace(hand) /\ m # NoMsg /\ m.partition \in Partitions
        /\ m = hand <=> m.partition = hand.partition /\ m.offset = hand.offset
    BY <1>1, NoMsgAssumption DEF OwnInv, PlaceInv, CC!Message, CC!Offsets
  <2>2. m.offset \in dropped'[m.partition] <=> m.offset \in dropped[m.partition] \/ m = hand
    BY <1>1, <1>2, <2>1
  <2>3. Read(m)' <=> Read(m)
    BY DEF Read
  <2> QED BY <1>2, <2>1, <2>2, <2>3 DEF OnePlace
<1>4. dropped' \in [Partitions -> SUBSET CC!Offsets]
  BY <1>1, <1>2
<1> QED BY <1>3, <1>4 DEF OwnInv, PlaceInv

\* SetNX failed; the key may be set all the same.
LEMMA StoreErrorInv ==
    ASSUME OwnInv, NEW tookEffect \in BOOLEAN, DispatchStoreError(tookEffect)
    PROVE  OwnInv'
<1>1. UNCHANGED <<chOpen, startAt, sent, handled, log, position, expired,
                  running, sending, crawls, crawled, cutShort, restarts>>
  BY DEF DispatchStoreError, coordinatorVars, jobVars
<1>2. /\ main = "dispatch" /\ main' = "fetch" /\ LetGo /\ hand # NoMsg /\ hand' = NoMsg
      /\ Key(hand) \in Keys
      /\ \/ /\ visited' = visited \union {Key(hand)}
            /\ orphaned' = orphaned \union {Key(hand)}
            /\ Key(hand) \notin visited
         \/ UNCHANGED <<visited, orphaned>>
      /\ storeErrs' \in 0..MaxStoreErrors
  BY BudgetAssumption DEF DispatchStoreError, LetGo, OwnInv, OwnTypeOK
<1>3. PlaceInv' /\ dropped' \in [Partitions -> SUBSET CC!Offsets]
  BY <1>1, <1>2, LetGoPlaces
<1>4. OwnTypeOK' /\ SlotInv' /\ OpenInv'
  BY <1>1, <1>2, <1>3 DEF OwnInv, OwnTypeOK, SlotInv, OpenInv
<1>5. JobInv' /\ WorkInv'
  BY <1>1, <1>2 DEF OwnInv, JobInv, WorkInv, Accounted, Unfinished, Key
<1>6. CountInv'
  BY <1>1, <1>2, BudgetAssumption DEF OwnInv, OwnTypeOK, CountInv, Key
<1> QED BY <1>3, <1>4, <1>5, <1>6 DEF OwnInv

\* The context is cancelled while main waits for a slot: the key is orphaned.
LEMMA SlotCancelledInv ==
    ASSUME OwnInv, SlotCancelled
    PROVE  OwnInv'
<1>1. UNCHANGED <<chOpen, startAt, sent, handled, log, position, visited, expired,
                  running, sending, crawls, crawled, cutShort, storeErrs, restarts>>
  BY DEF SlotCancelled, coordinatorVars, redisVars, jobVars
<1>2. /\ main = "slot" /\ main' = "fetch" /\ LetGo /\ hand # NoMsg /\ hand' = NoMsg
      /\ Key(hand) \in Keys
      /\ orphaned' = orphaned \union {Key(hand)}
  BY DEF SlotCancelled, LetGo, OwnInv, OwnTypeOK, JobInv
<1>3. PlaceInv' /\ dropped' \in [Partitions -> SUBSET CC!Offsets]
  BY <1>1, <1>2, LetGoPlaces
<1>4. OwnTypeOK' /\ SlotInv' /\ OpenInv'
  BY <1>1, <1>2, <1>3 DEF OwnInv, OwnTypeOK, SlotInv, OpenInv
<1>5. JobInv' /\ WorkInv'
  BY <1>1, <1>2 DEF OwnInv, JobInv, WorkInv, Accounted, Unfinished, Key
<1>6. CountInv'
  BY <1>1, <1>2, BudgetAssumption DEF OwnInv, OwnTypeOK, CountInv, Key
<1> QED BY <1>3, <1>4, <1>5, <1>6 DEF OwnInv

\* A slot is free and the job starts.
LEMMA AcquireSlotInv ==
    ASSUME OwnInv, AcquireSlot
    PROVE  OwnInv'
<1>1. UNCHANGED <<chOpen, startAt, sent, handled, log, position, visited, expired,
                  sending, crawled, cutShort, orphaned, dropped, storeErrs, restarts>>
  BY DEF AcquireSlot, coordinatorVars, redisVars, lossVars
<1>2. /\ main = "slot" /\ main' = "fetch" /\ hand \in CC!Message /\ hand # NoMsg
      /\ hand' = NoMsg /\ Key(hand) \in Keys
      /\ running' = running \union {hand} /\ Cardinality(running) < ConcurrentJobs
      /\ crawls' = [crawls EXCEPT ![Key(hand)] = @ + 1]
  BY DEF AcquireSlot, OwnInv, OwnTypeOK, JobInv
<1>3. OwnTypeOK' /\ OpenInv'
  BY <1>1, <1>2 DEF OwnInv, OwnTypeOK, OpenInv
<1>4. SlotInv'
  <2>1. hand \notin running /\ IsFiniteSet(running)
    BY <1>2 DEF OwnInv, PlaceInv, OnePlace, SlotInv
  <2>2. IsFiniteSet(running') /\ Cardinality(running') = Cardinality(running) + 1
    BY <1>2, <2>1, FS_AddElement
  <2>3. Cardinality(running) \in Nat
    BY <2>1, FS_CardinalityType
  <2> QED BY <1>2, <2>2, <2>3, ConcurrentJobsAssumption DEF OwnInv, SlotInv
<1>5. PlaceInv'
  <2>1. ASSUME NEW m \in CC!Message PROVE OnePlace(m)'
    <3>1. OnePlace(m) /\ m # NoMsg /\ (Read(m)' <=> Read(m))
      BY <1>1, NoMsgAssumption DEF OwnInv, PlaceInv, Read, CC!Message, CC!Offsets
    <3> QED BY <1>1, <1>2, <3>1 DEF OnePlace
  <2> QED BY <1>1, <2>1 DEF OwnInv, PlaceInv
<1>6. JobInv' /\ WorkInv'
  BY <1>1, <1>2 DEF OwnInv, JobInv, WorkInv, Accounted, Unfinished, Key
<1>7. CountInv'
  BY <1>1, <1>2, BudgetAssumption DEF OwnInv, OwnTypeOK, CountInv, Key
<1> QED BY <1>3, <1>4, <1>5, <1>6, <1>7 DEF OwnInv

\* A job is over, its outcome stored or not: its goroutine gives the slot back and goes on to send.
LEMMA JobFinishInv ==
    ASSUME OwnInv, NEW j \in CC!Message, JobFinish(j) \/ JobCutShort(j)
    PROVE  OwnInv'
<1>1. UNCHANGED <<chOpen, startAt, sent, handled, log, position, main, hand, visited, expired,
                  crawls, orphaned, dropped, storeErrs, restarts>>
  BY DEF JobFinish, JobCutShort, coordinatorVars, redisVars, lossVars
<1>2. /\ j \in running /\ running' = running \ {j} /\ sending' = sending \union {j}
      /\ \/ crawled' = crawled \union {Key(j)} /\ cutShort' = cutShort
         \/ cutShort' = cutShort \union {Key(j)} /\ crawled' = crawled
      /\ Key(j) \in Keys
  BY DEF JobFinish, JobCutShort, Release, OwnInv, JobInv
<1>3. OwnTypeOK' /\ OpenInv'
  BY <1>1, <1>2 DEF OwnInv, OwnTypeOK, OpenInv
<1>4. SlotInv'
  <2>1. /\ IsFiniteSet(running') /\ Cardinality(running') = Cardinality(running) - 1
        /\ Cardinality(running) \in Nat
    BY <1>2, FS_RemoveElement, FS_CardinalityType DEF OwnInv, SlotInv
  <2> QED BY <1>2, <2>1, ConcurrentJobsAssumption DEF OwnInv, SlotInv
<1>5. PlaceInv'
  BY <1>1, <1>2 DEF OwnInv, PlaceInv, OnePlace, Read
<1>6. JobInv' /\ WorkInv'
  BY <1>1, <1>2 DEF OwnInv, JobInv, WorkInv, Accounted, Unfinished, Key
<1>7. CountInv'
  BY <1>1, <1>2 DEF OwnInv, CountInv, Key
<1> QED BY <1>3, <1>4, <1>5, <1>6, <1>7 DEF OwnInv

\* A message that main or a goroutine puts on the channel moves to the offsets
\* sent, and its key is accounted for.
LEMMA SendInv ==
    ASSUME OwnInv, CC!TypeOK, MainSend \/ \E j \in CC!Message : JobSend(j)
    PROVE  OwnInv'
<1>1. PICK s \in CC!Message :
         /\ Send(s)
         /\ \/ /\ main = "send" /\ hand = s /\ main' = "fetch" /\ hand' = NoMsg
               /\ sending' = sending
            \/ /\ s \in sending /\ sending' = sending \ {s}
               /\ UNCHANGED <<main, hand>>
         /\ UNCHANGED <<log, position, visited, expired, running, crawls, crawled, cutShort, orphaned,
                        dropped, storeErrs, restarts>>
  BY DEF MainSend, JobSend, OwnInv, OwnTypeOK, redisVars, jobVars, lossVars
<1>2. /\ s.partition \in Partitions /\ s.offset \in CC!Offsets
      /\ UNCHANGED <<chOpen, startAt>>
      /\ sent' = [sent EXCEPT ![s.partition] = @ \union {s.offset}]
      /\ handled' = [handled EXCEPT ![s.partition] = @ \union {s.offset}]
      /\ sent \in [Partitions -> SUBSET CC!Offsets]
      /\ handled \in [Partitions -> SUBSET CC!Offsets]
  BY <1>1 DEF Send, CC!SendEffect, CC!Message, CC!TypeOK
<1>3. OwnTypeOK' /\ SlotInv' /\ OpenInv'
  BY <1>1, <1>2, NoMsgAssumption DEF OwnInv, OwnTypeOK, SlotInv, OpenInv, CC!Message, CC!Offsets
<1>4. PlaceInv'
  <2>1. ASSUME NEW m \in CC!Message PROVE OnePlace(m)'
    <3>1. /\ OnePlace(m) /\ OnePlace(s) /\ m # NoMsg /\ m.partition \in Partitions
          /\ m = s <=> m.partition = s.partition /\ m.offset = s.offset
      BY NoMsgAssumption DEF OwnInv, PlaceInv, CC!Message, CC!Offsets
    <3>2. m.offset \in sent'[m.partition] <=> m.offset \in sent[m.partition] \/ m = s
      BY <1>2, <3>1
    <3>3. Read(m)' <=> Read(m)
      BY <1>1, <1>2 DEF Read
    <3> QED BY <1>1, <3>1, <3>2, <3>3 DEF OnePlace
  <2> QED BY <1>1, <1>2, <2>1 DEF OwnInv, PlaceInv
<1>5. Accounted' = Accounted /\ (Key(s) \in Keys => Key(s) \in Accounted)
  BY <1>1 DEF OwnInv, JobInv, WorkInv, Accounted, Unfinished, Key
<1>6. JobInv' /\ WorkInv'
  <2>1. JobInv'
    BY <1>1 DEF OwnInv, JobInv, Key
  <2>2. ASSUME NEW m \in CC!Message, m.offset \in handled'[m.partition], Key(m) \in Keys
        PROVE  Key(m) \in Accounted
    <3>1. m = s \/ m.offset \in handled[m.partition]
      BY <1>2, <2>2 DEF CC!Message
    <3> QED BY <1>5, <2>2, <3>1 DEF OwnInv, WorkInv
  <2> QED BY <1>1, <1>5, <2>1, <2>2 DEF OwnInv, WorkInv, Key
<1>7. CountInv'
  BY <1>1 DEF OwnInv, CountInv, Key
<1> QED BY <1>3, <1>4, <1>6, <1>7 DEF OwnInv

\* Main closes the channel: no job holds a slot, and main does not come back.
LEMMA CloseInv ==
    ASSUME OwnInv, CloseChannel
    PROVE  OwnInv'
<1>1. /\ UNCHANGED <<startAt, sent, handled, log, position, hand, visited, expired, running,
                     sending, crawls, crawled, cutShort, orphaned, dropped, storeErrs, restarts>>
      /\ main = "waitJobs" /\ main' = "waitCoord"
  BY DEF CloseChannel, CC!Close, redisVars, jobVars, lossVars
<1>2. OwnTypeOK' /\ SlotInv' /\ OpenInv' /\ PlaceInv'
  BY <1>1 DEF OwnInv, OwnTypeOK, SlotInv, OpenInv, PlaceInv, OnePlace, Read
<1>3. JobInv' /\ WorkInv' /\ CountInv'
  BY <1>1 DEF OwnInv, JobInv, WorkInv, CountInv, Accounted, Unfinished, Key
<1> QED BY <1>2, <1>3 DEF OwnInv

\* A key runs out: one more crawl is paid for.
LEMMA ExpireInv ==
    ASSUME OwnInv, NEW k \in Keys, Expire(k)
    PROVE  OwnInv'
<1>1. /\ UNCHANGED <<chOpen, startAt, sent, handled, log, position, main, hand, running,
                     sending, crawls, crawled, cutShort, orphaned, dropped, storeErrs, restarts>>
      /\ k \in visited /\ visited' = visited \ {k}
      /\ expired[k] < MaxExpiries /\ expired' = [expired EXCEPT ![k] = @ + 1]
  BY DEF Expire, coordinatorVars, jobVars, lossVars
<1>2. OwnTypeOK' /\ SlotInv' /\ OpenInv' /\ PlaceInv'
  BY <1>1, BudgetAssumption
     DEF OwnInv, OwnTypeOK, SlotInv, OpenInv, PlaceInv, OnePlace, Read
<1>3. JobInv' /\ WorkInv'
  BY <1>1 DEF OwnInv, JobInv, WorkInv, Accounted, Unfinished, Key
<1>4. CountInv'
  BY <1>1, BudgetAssumption DEF OwnInv, OwnTypeOK, CountInv, Key
<1> QED BY <1>2, <1>3, <1>4 DEF OwnInv

\* The process is started again: no message is anywhere, and what was under way
\* is orphaned.
LEMMA RestartInv ==
    ASSUME OwnInv, CC!TypeOK, Restart
    PROVE  OwnInv'
<1>1. /\ UNCHANGED <<handled, log, visited, expired, crawls, crawled, cutShort, storeErrs>>
      /\ chOpen' /\ startAt' = committed /\ position' = committed
      /\ sent' = [p \in Partitions |-> {}] /\ dropped' = [p \in Partitions |-> {}]
      /\ main' = "fetch" /\ hand' = NoMsg /\ running' = {} /\ sending' = {}
      /\ orphaned' = orphaned \union Unfinished
      /\ restarts < MaxRestarts /\ restarts' = restarts + 1
  BY DEF Restart, CC!Restart, redisVars
<1>2. Unfinished \subseteq Keys
  BY DEF OwnInv, JobInv, Unfinished
<1>3. OwnTypeOK' /\ OpenInv'
  BY <1>1, <1>2, BudgetAssumption DEF OwnInv, OwnTypeOK, OpenInv, CC!TypeOK
<1>4. SlotInv'
  BY <1>1, FS_EmptySet, ConcurrentJobsAssumption DEF SlotInv
<1>5. PlaceInv'
  <2>1. ASSUME NEW p \in Partitions PROVE committed[p] \in Int
    BY DEF CC!TypeOK
  <2>2. ASSUME NEW m \in CC!Message PROVE OnePlace(m)'
    <3>1. m.partition \in Partitions /\ m.offset \in Int /\ m # NoMsg
      BY NoMsgAssumption, TopicAssumption DEF CC!Message, CC!Offsets
    <3>2. ~Read(m)'
      BY <1>1, <2>1, <3>1 DEF Read
    <3> QED BY <1>1, <3>1, <3>2 DEF OnePlace
  <2> QED BY <1>1, <2>1, <2>2 DEF PlaceInv
<1>6. JobInv' /\ Accounted' = Accounted
  BY <1>1 DEF JobInv, Accounted, Unfinished
<1>7. WorkInv'
  BY <1>1, <1>6 DEF OwnInv, WorkInv, Key
<1>8. CountInv'
  BY <1>1, BudgetAssumption DEF OwnInv, OwnTypeOK, CountInv, Key
<1> QED BY <1>3, <1>4, <1>5, <1>6, <1>7, <1>8 DEF OwnInv

--------------------------------------------------------------------------------
(* Both invariants hold in every behaviour: the worker's makes each step one *)
(* the coordinator allows, the coordinator's types its variables.            *)

JointInv == CP!IInv /\ OwnInv

\* The initial states satisfy both.
LEMMA InitJoint == Init => JointInv
<1> SUFFICES ASSUME Init PROVE JointInv
  OBVIOUS
<1>1. CP!IInv
  BY CP!InitInv, SameCoordinator, CoordinatorConstants DEF Init
<1>2. /\ chOpen
      /\ startAt = [p \in Partitions |-> 0] /\ position = [p \in Partitions |-> 0]
      /\ sent = [p \in Partitions |-> {}] /\ handled = [p \in Partitions |-> {}]
      /\ dropped = [p \in Partitions |-> {}]
      /\ main = "fetch" /\ hand = NoMsg /\ running = {} /\ sending = {} /\ visited = {}
  BY DEF Init, CC!Init
<1>3. OwnTypeOK /\ OpenInv
  BY <1>2, TopicAssumption, BudgetAssumption DEF Init, OwnTypeOK, OpenInv
<1>4. SlotInv
  BY <1>2, FS_EmptySet, ConcurrentJobsAssumption DEF SlotInv
<1>5. PlaceInv
  <2>1. ASSUME NEW m \in CC!Message PROVE OnePlace(m)
    <3>1. m.partition \in Partitions /\ m.offset \in Int /\ m # NoMsg
      BY NoMsgAssumption, TopicAssumption DEF CC!Message, CC!Offsets
    <3> QED BY <1>2, <3>1 DEF OnePlace, Read
  <2> QED BY <1>2, <2>1 DEF PlaceInv
<1>6. JobInv /\ WorkInv
  BY <1>2 DEF JobInv, WorkInv, CC!Message
<1>7. CountInv
  BY <1>2, <1>3 DEF Init, CountInv
<1> QED BY <1>1, <1>3, <1>4, <1>5, <1>6, <1>7 DEF JointInv, OwnInv

\* Every step preserves both.
LEMMA StepJoint == JointInv /\ [Next]_vars => JointInv'
<1> SUFFICES ASSUME JointInv, [Next]_vars PROVE JointInv'
  OBVIOUS
<1>1. OwnInv /\ CP!IInv /\ CC!TypeOK
  BY SameCoordinator DEF JointInv, CP!IInv
<1>2. CP!IInv'
  <2>1. [CP!Next]_(CP!vars)
    BY <1>1, StepUses, SameCoordinator DEF CC!vars, CP!vars
  <2> QED BY <1>1, <2>1, CP!StepInv, CoordinatorConstants
<1>3. OwnInv'
  <2>1. CASE Main
    <3>1. CASE \E p \in Partitions : Fetch(p)
      BY <1>1, <3>1, FetchInv
    <3>2. CASE FetchCancelled \/ DispatchInvalid \/ DispatchDuplicate \/ Exit
      BY <1>1, <3>2, MoveInv
    <3>3. CASE DispatchFresh
      BY <1>1, <3>3, DispatchFreshInv
    <3>4. CASE \E tookEffect \in BOOLEAN : DispatchStoreError(tookEffect)
      BY <1>1, <3>4, StoreErrorInv
    <3>5. CASE SlotCancelled
      BY <1>1, <3>5, SlotCancelledInv
    <3>6. CASE AcquireSlot
      BY <1>1, <3>6, AcquireSlotInv
    <3>7. CASE MainSend
      BY <1>1, <3>7, SendInv
    <3>8. CASE CloseChannel
      BY <1>1, <3>8, CloseInv
    <3> QED BY <2>1, <3>1, <3>2, <3>3, <3>4, <3>5, <3>6, <3>7, <3>8 DEF Main
  <2>2. ASSUME NEW m \in CC!Message, Job(m)
        PROVE  OwnInv'
    <3>1. CASE JobFinish(m) \/ JobCutShort(m)
      BY <1>1, <3>1, JobFinishInv
    <3>2. CASE JobSend(m)
      BY <1>1, <3>2, SendInv
    <3>3. CASE JobSendClosed(m)
      BY <1>1, <3>3, MoveInv
    <3> QED BY <2>2, <3>1, <3>2, <3>3 DEF Job
  <2>3. CASE CoordinatorStep \/ Signal
    BY <1>1, <2>3, CoordinatorInv
  <2>4. CASE \E k \in Keys : Expire(k)
    BY <1>1, <2>4, ExpireInv
  <2>5. CASE Restart
    BY <1>1, <2>5, RestartInv
  <2>6. CASE UNCHANGED vars
    <3>1. UNCHANGED <<chOpen, startAt, sent, handled, log, position, main, hand, visited,
                      expired, running, sending, crawls, crawled, cutShort, orphaned, dropped, storeErrs,
                      restarts>>
      BY <2>6 DEF vars, coordinatorVars, wvars, redisVars, jobVars, lossVars
    <3>2. OwnTypeOK' /\ SlotInv' /\ OpenInv' /\ PlaceInv'
      BY <1>1, <3>1 DEF OwnInv, OwnTypeOK, SlotInv, OpenInv, PlaceInv, OnePlace, Read
    <3>3. JobInv' /\ WorkInv' /\ CountInv'
      BY <1>1, <3>1 DEF OwnInv, JobInv, WorkInv, CountInv, Accounted, Unfinished, Key
    <3> QED BY <3>2, <3>3 DEF OwnInv
  <2> QED BY <2>1, <2>2, <2>3, <2>4, <2>5, <2>6 DEF Next
<1> QED BY <1>2, <1>3 DEF JointInv

\* Both invariants hold in every reachable state of the worker.
THEOREM WorkerInvariant == Spec => []JointInv
<1>1. Init => JointInv
  BY InitJoint
<1>2. JointInv /\ [Next]_vars => JointInv'
  BY StepJoint
<1> QED BY <1>1, <1>2, PTL DEF Spec

--------------------------------------------------------------------------------
(* The properties.                                                         *)

\* The composition: every behaviour of main, the jobs and the coordinator is one
\* of the coordinator's specification, so that all its theorems hold of the
\* worker process.
THEOREM WorkerUsesCoordinator == Spec => UsesCoordinator
<1>1. Init => CC!Init
  BY DEF Init
<1>2. JointInv /\ [Next]_vars => [CC!Next]_(CC!vars)
  BY StepUses DEF JointInv
<1> QED BY <1>1, <1>2, WorkerInvariant, PTL DEF Spec, UsesCoordinator, CC!Spec

\* What the coordinator's runs check of it, as the worker uses it.
CoordinatorPromises ==
    /\ CC!CommitCoversHandled
    /\ CC!StrandedOnlyIfSkipped
    /\ CC!IdleMeansCommitted
    /\ CC!PendingGaugeExact

\* Main, the jobs, the signals and the restarts of a worker are the environment
\* the commit coordinator was proved for: in the process, too, it commits in
\* order, strands nothing, owes nothing when it is idle, and its gauge is exact.
THEOREM WorkerCommits == Spec => []CoordinatorPromises /\ CC!ImplementsInOrderCommit
<1>1. CC!Spec => CP!Spec
  <2>1. CC!Init => CP!Init
    BY SameCoordinator
  <2>2. [CC!Next]_(CC!vars) => [CP!Next]_(CP!vars)
    <3>1. UNCHANGED CC!vars => UNCHANGED CP!vars
      BY DEF CC!vars, CP!vars, CC!coordVars, CP!coordVars, CC!procVars, CP!procVars
    <3> QED BY <3>1, SameCoordinator
  <2> QED BY <2>1, <2>2, PTL DEF CC!Spec, CP!Spec
<1>2. /\ CP!Spec => []CP!CommitCoversHandled
      /\ CP!Spec => []CP!StrandedOnlyIfSkipped
      /\ CP!Spec => []CP!IdleMeansCommitted
      /\ CP!Spec => []CP!PendingGaugeExact
      /\ CP!Spec => CP!ImplementsInOrderCommit
  BY CP!CommitSafety, CP!StrandedSafety, CP!Promptness, CP!GaugeSafety, CP!Implementation,
     CoordinatorConstants
<1>3. /\ CP!CommitCoversHandled => CC!CommitCoversHandled
      /\ CP!StrandedOnlyIfSkipped => CC!StrandedOnlyIfSkipped
      /\ CP!IdleMeansCommitted => CC!IdleMeansCommitted
  BY SameCoordinator
  DEF CC!StrandedOnlyIfSkipped, CP!StrandedOnlyIfSkipped, CC!IdleMeansCommitted,
      CP!IdleMeansCommitted, CC!Offsets, CP!Offsets
<1>4. CP!PendingGaugeExact => CC!PendingGaugeExact
  <2>1. \A S : CC!Cardinality(S) = CP!Cardinality(S)
    BY DEF CC!Cardinality, CP!Cardinality
  <2> QED BY <2>1, SameCoordinator DEF CC!PendingGaugeExact, CP!PendingGaugeExact
<1>5. CP!ImplementsInOrderCommit => CC!ImplementsInOrderCommit
  <2>1. CP!Promise!Init => CC!Promise!Init
    BY DEF CC!Promise!Init, CP!Promise!Init
  <2>2. [CP!Promise!Next]_(CP!Promise!vars) => [CC!Promise!Next]_(CC!Promise!vars)
    BY DEF CC!Promise!Next, CP!Promise!Next, CC!Promise!vars, CP!Promise!vars,
           CC!Promise!Complete, CP!Promise!Complete, CC!Promise!Waive, CP!Promise!Waive,
           CC!Promise!Advance, CP!Promise!Advance, CC!Promise!Offsets, CP!Promise!Offsets
  <2> QED BY <2>1, <2>2, PTL
          DEF CC!ImplementsInOrderCommit, CP!ImplementsInOrderCommit,
              CC!Promise!Spec, CP!Promise!Spec
<1>6. Spec => CC!Spec
  BY WorkerUsesCoordinator DEF UsesCoordinator
<1> QED BY <1>1, <1>2, <1>3, <1>4, <1>5, <1>6, PTL DEF CoordinatorPromises

\* The types of the worker's state, with the bound of the semaphore: at most
\* ConcurrentJobs jobs run at a time, for every number of slots.
THEOREM WorkerTypes == Spec => []TypeOK
<1>1. JointInv => TypeOK
  BY SameCoordinator DEF JointInv, CP!IInv, OwnInv, OwnTypeOK, SlotInv, TypeOK
<1> QED BY <1>1, WorkerInvariant, PTL

\* In any interleaving of main, jobs and coordinator, with failures anywhere, a
\* message the process has read is in exactly one place.
THEOREM NoMessageForgotten == Spec => []MessageInOnePlace
<1>1. OwnInv => MessageInOnePlace
  <2> SUFFICES ASSUME OwnInv, NEW m \in CC!Message
               PROVE  Cardinality({i \in 1..5 : Places(m)[i]}) =
                         IF startAt[m.partition] <= m.offset
                            /\ m.offset < position[m.partition]
                         THEN 1 ELSE 0
    BY DEF MessageInOnePlace
  <2> DEFINE S == {i \in 1..5 : Places(m)[i]}
  <2>1. OnePlace(m)
    BY DEF OwnInv, PlaceInv
  <2>2. /\ Places(m)[1] <=> hand = m
        /\ Places(m)[2] <=> m \in running
        /\ Places(m)[3] <=> m \in sending
        /\ Places(m)[4] <=> m.offset \in sent[m.partition]
        /\ Places(m)[5] <=> m.offset \in dropped[m.partition]
    BY DEF Places
  <2>3. 1..5 = {1, 2, 3, 4, 5}
    OBVIOUS
  <2> HIDE DEF Places
  <2>4. CASE Read(m)
    <3>1. PICK i \in 1..5 : Places(m)[i]
      BY <2>1, <2>2, <2>4 DEF OnePlace
    <3>2. \A j \in 1..5 : Places(m)[j] => j = i
      BY <2>1, <2>2, <2>3, <3>1 DEF OnePlace
    <3>3. S = {i}
      BY <3>1, <3>2
    <3> QED BY <2>4, <3>3, FS_Singleton DEF Read
  <2>5. CASE ~Read(m)
    <3>1. S = {}
      BY <2>1, <2>2, <2>3, <2>5 DEF OnePlace
    <3> QED BY <2>5, <3>1, FS_EmptySet DEF Read
  <2> QED BY <2>4, <2>5
<1> QED BY <1>1, WorkerInvariant, PTL DEF JointInv

\* Across partitions, failed SetNX calls, signals and restarts, the crawls of a
\* URL never outnumber the lives of its dedupe key.
THEOREM CrawlOncePerKeyLife == Spec => []AtMostOneCrawlPerKeyLife
<1>1. OwnInv => AtMostOneCrawlPerKeyLife
  BY BudgetAssumption DEF OwnInv, OwnTypeOK, CountInv, AtMostOneCrawlPerKeyLife
<1> QED BY <1>1, WorkerInvariant, PTL DEF JointInv

\* What the group has moved past was worked on, or falls into one of the two
\* windows: its key was set in vain, or its offset was jumped over by enqueue.
THEOREM CommittedWork == Spec => []CommittedWorkIsDone
<1>1. JointInv => CommittedWorkIsDone
  <2> SUFFICES ASSUME JointInv, NEW m \in CC!Message,
                      m.offset < committed[m.partition], Key(m) \in Keys,
                      m.offset \notin skipped[m.partition]
               PROVE  Key(m) \in Accounted
    BY DEF CommittedWorkIsDone, Accounted
  <2>1. CC!CommitCoversHandled
    BY CP!CoverFromInv, CoordinatorConstants, SameCoordinator DEF JointInv
  <2>2. m.offset \in handled[m.partition]
    BY <2>1 DEF CC!CommitCoversHandled, CC!Message
  <2> QED BY <2>2 DEF JointInv, OwnInv, WorkInv
<1> QED BY <1>1, WorkerInvariant, PTL
================================================================================
