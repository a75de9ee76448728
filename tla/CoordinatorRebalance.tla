-------------------------- MODULE CoordinatorRebalance -------------------------
(***************************************************************************)
(* The commit coordinator under consumer-group rebalances.  The worker     *)
(* pods share a group and KEDA scales them, so a partition can move to     *)
(* another member and come back.  kafka-go's reader hides this: FetchMessage*)
(* simply starts to return the partition from the group's offset again.    *)
(* The coordinator is not told; its nextOffset and pending keep the values *)
(* of the earlier assignment, and jobs started under it still complete.    *)
(***************************************************************************)
EXTENDS CommitCoordinator

CONSTANT MaxRebalances   \* bound: how often an assignment may be interrupted

ASSUME MaxRebalancesAssumption == MaxRebalances \in Nat

VARIABLES
    late,         \* offsets of earlier assignments that may still complete
    rebalances    \* rebalances so far in this process

rvars == <<vars, late, rebalances>>

RInit ==
    /\ Init
    /\ late = [p \in Partitions |-> {}]
    /\ rebalances = 0

\* Partition p was with another member, which handled the offsets up to n and
\* committed n, and is assigned to this process again.
Rebalance(p, n) ==
    /\ rebalances < MaxRebalances
    /\ rebalances' = rebalances + 1
    /\ n >= committed[p]
    /\ committed' = [committed EXCEPT ![p] = n]
    /\ handled' = [handled EXCEPT ![p] = @ \union committed[p]..(n - 1)]
    /\ startAt' = [startAt EXCEPT ![p] = n]
    /\ late' = [late EXCEPT ![p] = @ \union (startAt[p]..MaxOffset \ sent[p])]
    /\ sent' = [sent EXCEPT ![p] = {}]
    /\ UNCHANGED <<commitCh, chOpen, ctxDone, coordVars, skipped>>

\* A job started under an earlier assignment completes now.
LateSend(p, o) ==
    /\ o \in late[p]
    /\ chOpen
    /\ Len(commitCh) < ChanCap
    /\ late' = [late EXCEPT ![p] = @ \ {o}]
    /\ commitCh' = Append(commitCh, [partition |-> p, offset |-> o])
    /\ handled' = [handled EXCEPT ![p] = @ \union {o}]
    /\ UNCHANGED <<chOpen, ctxDone, coordVars, committed, startAt, sent, skipped, rebalances>>

RNext ==
    \/ /\ \/ \E p \in Partitions, o \in Offsets : Send(p, o)
          \/ Cancel
          \/ Close
          \/ Coordinator
       /\ UNCHANGED <<late, rebalances>>
    \/ \E p \in Partitions, n \in 0..(MaxOffset + 1) : Rebalance(p, n)
    \/ \E p \in Partitions, o \in Offsets : LateSend(p, o)
    \/ /\ Restart
       /\ late' = [p \in Partitions |-> {}]
       /\ rebalances' = 0

RSpec == RInit /\ [][RNext]_rvars

--------------------------------------------------------------------------------
(* Properties.                                                             *)

\* The group's offset moves backwards only in the one way the coordinator leaves
\* open: its nextOffset dates from an earlier assignment and lies below the
\* offset this one started from.  Within an assignment it never does.
RegressOnlyByStaleOffset ==
    [][\A p \in Partitions :
          committed'[p] < committed[p] => nextOffset[p] < startAt[p]]_rvars
================================================================================
