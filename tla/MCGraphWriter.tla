----------------------------- MODULE MCGraphWriter -----------------------------
EXTENDS GraphWriter, TLC

CONSTANTS k1, k2, t1, t2, s1, p1, p2

\* Two messages of one partition of the results, one of another, and one edge.
ThreeResults == [s \in Sources |-> CASE s = <<"results", p1>> -> 2
                                     [] s = <<"results", p2>> -> 1
                                     [] s = <<"edges", p1>> -> 1
                                     [] OTHER -> 0]

\* Two messages of one partition of the results, and one edge.
TwoResults == [ThreeResults EXCEPT ![<<"results", p2>>] = 0]

\* Titles and relations are interchangeable.
Symmetry == Permutations(Titles) \union Permutations(Relations)
================================================================================
