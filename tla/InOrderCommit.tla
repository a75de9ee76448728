----------------------------- MODULE InOrderCommit -----------------------------
(***************************************************************************)
(* What the commit path of a worker promises, without saying how: the      *)
(* group's committed offset of a partition only moves forward, and only    *)
(* over offsets whose job was completed.  The one exception the code makes *)
(* is explicit: an offset can be "waived" when a process sees its first    *)
(* completion for a partition above the offset it started reading from.    *)
(* CommitCoordinator is the mechanism; it implements this specification.   *)
(***************************************************************************)
EXTENDS Integers

CONSTANTS
    Partitions,     \* partitions of the frontier topic
    MaxOffset       \* bound: the largest offset in the log

VARIABLES
    committed,      \* [Partitions -> 0..MaxOffset+1], offset the group resumes from
    handled,        \* [Partitions -> SUBSET Offsets], offsets whose job completed
    skipped         \* [Partitions -> SUBSET Offsets], offsets waived

vars == <<committed, handled, skipped>>

Offsets == 0..MaxOffset

Init ==
    /\ committed = [p \in Partitions |-> 0]
    /\ handled = [p \in Partitions |-> {}]
    /\ skipped = [p \in Partitions |-> {}]

\* A job is completed: processed, or dropped as invalid or duplicate.
Complete(p, o) ==
    /\ handled' = [handled EXCEPT ![p] = @ \union {o}]
    /\ UNCHANGED <<committed, skipped>>

\* The offsets between the committed one and a completed one are given up;
\* nothing moves yet.
Waive(p, o) ==
    /\ o \in handled[p]
    /\ skipped' = [skipped EXCEPT ![p] = @ \union committed[p]..(o - 1)]
    /\ UNCHANGED <<committed, handled>>

\* The committed offset advances to n over completed or waived offsets only.
Advance(p, n) ==
    /\ committed[p] < n
    /\ committed[p]..(n - 1) \subseteq handled[p] \union skipped[p]
    /\ committed' = [committed EXCEPT ![p] = n]
    /\ UNCHANGED <<handled, skipped>>

Next ==
    \E p \in Partitions :
        \/ \E o \in Offsets : Complete(p, o) \/ Waive(p, o)
        \/ \E n \in 1..(MaxOffset + 1) : Advance(p, n)

Spec == Init /\ [][Next]_vars
================================================================================
