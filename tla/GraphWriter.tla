------------------------------ MODULE GraphWriter ------------------------------
(***************************************************************************)
(* The graph writer (cmd/graph-writer/main.go): two goroutines that read   *)
(* the results and the edges topic, merge each message into Neo4j and      *)
(* commit it.  A write or a commit may fail, with or without effect, and   *)
(* the process may die at any point and resume from the committed offsets. *)
(*                                                                         *)
(* A topic has several partitions, each a log with an offset of its own;   *)
(* one goroutine per topic takes their messages one at a time, in order    *)
(* within a partition only.  One writer process.  A node has the           *)
(* properties the results set: session_id and one title standing for       *)
(* title, full_title, publish_date or name, all written with coalesce.     *)
(* The label of a node and the type of a relation are functions of the key *)
(* and the relation name, so a key and a relation stand for them.          *)
(***************************************************************************)
EXTENDS Integers, FiniteSets

CONSTANTS
    NodeKeys,         \* keys of nodes
    PageKeys,         \* ... of those that are pages: the others are only linked to
    Titles,           \* non-empty titles
    NoTitle,          \* an empty title, and the title of a node without one
    Sessions, NoSession,
    Bad,              \* a payload that cannot be decoded
    Ignored,          \* an empty key or endpoint, or an unknown node type
    Relations,        \* names of relations
    Partitions,       \* partitions of each of the two topics
    Length,           \* bound: how many messages each partition has
    MaxWriteErrors,   \* bound: Neo4j writes that fail
    MaxCommitErrors,  \* bound: commits that fail
    MaxRestarts       \* bound: restarts of the process

ASSUME TitleAssumption == NoTitle \notin Titles /\ NoSession \notin Sessions
ASSUME KeyAssumption == PageKeys \subseteq NodeKeys
ASSUME LogAssumption == Length \in [{"results", "edges"} \X Partitions -> Nat]
ASSUME BudgetAssumption ==
    MaxWriteErrors \in Nat /\ MaxCommitErrors \in Nat /\ MaxRestarts \in Nat

VARIABLES
    log,        \* the messages of each partition of each topic
    position,   \* next offset the reader returns of each partition
    phase,      \* where its consumer is with it: "fetch", "write" or "commit"
    committed,  \* broker: offset its group resumes from
    nodes,      \* Neo4j: [title, session] of the nodes there are
    edges,      \* Neo4j: relationships
    written,    \* history: offsets whose write returned nil
    failures,   \* history: offsets some write of which returned an error
    writeErrs, commitErrs, restarts

graph == <<nodes, edges>>
budgets == <<writeErrs, commitErrs, restarts>>
vars == <<log, position, phase, committed, graph, written, failures, budgets>>

Sources == {"results", "edges"} \X Partitions
Offsets(s) == 0..(Length[s] - 1)
Results(p) == <<"results", p>>
Edges(p) == <<"edges", p>>
Slots(t) == UNION {{p} \X Offsets(<<t, p>>) : p \in Partitions}

Result == [key : PageKeys, title : Titles \union {NoTitle}, session : Sessions]
Edge == [from : NodeKeys, to : NodeKeys, relation : Relations, session : Sessions]
Node == [title : Titles \union {NoTitle}, session : Sessions \union {NoSession}]
NoNode == [title |-> NoTitle, session |-> NoSession]
Payload(t) == (IF t = "results" THEN Result ELSE Edge) \union {Bad, Ignored}

ASSUME PayloadAssumption == {Bad, Ignored} \intersect (Result \union Edge) = {}

Init ==
    /\ \E r \in [Slots("results") -> Payload("results")], e \in [Slots("edges") -> Payload("edges")] :
          log = [s \in Sources |-> [o \in Offsets(s) |->
                   IF s[1] = "results" THEN r[<<s[2], o>>] ELSE e[<<s[2], o>>]]]
    /\ position = [s \in Sources |-> 0]
    /\ phase = [s \in Sources |-> "fetch"]
    /\ committed = [s \in Sources |-> 0]
    /\ nodes = [k \in {} |-> NoNode]
    /\ edges = {}
    /\ written = [s \in Sources |-> {}]
    /\ failures = [s \in Sources |-> {}]
    /\ writeErrs = 0
    /\ commitErrs = 0
    /\ restarts = 0

--------------------------------------------------------------------------------
(* Neo4j, through the Cypher text the code builds.                         *)

\* Mutant: SET n.title = $title.
CoalesceOverwrites(new, old) == new

\* Mutant: the arguments of coalesce swapped.
CoalesceKeepsOld(new, old) == IF old = NoTitle THEN new ELSE old

\* coalesce($title, n.title), where an empty title is sent as null.
Coalesce(new, old) == IF new = NoTitle THEN old ELSE new

\* MERGE finds the node of a key or creates an empty one.
Merged(ns, k) == IF k \in DOMAIN ns THEN ns[k] ELSE NoNode
WithNode(ns, k, n) == [j \in DOMAIN ns \union {k} |-> IF j = k THEN n ELSE ns[j]]

\* buildBookQuery, buildWorkQuery and buildAuthorQuery.
MergeResult(r) ==
    /\ nodes' = WithNode(nodes, r.key,
                         [title |-> Coalesce(r.title, Merged(nodes, r.key).title),
                          session |-> r.session])
    /\ UNCHANGED edges

\* buildEdgeQuery: both nodes, then the relationship.
MergeEdge(e) ==
    /\ LET ns == WithNode(nodes, e.from, Merged(nodes, e.from))
       IN  nodes' = WithNode(ns, e.to, Merged(ns, e.to))
    /\ edges' = edges \union {e}

\* The transaction of runWrite for the message m of source s.
Apply(s, m) ==
    \/ s[1] = "results" /\ m \in Result /\ MergeResult(m)
    \/ s[1] = "edges" /\ m \in Edge /\ MergeEdge(m)

--------------------------------------------------------------------------------
(* consumeResults and consumeEdges.                                        *)

Current(s) == log[s][position[s] - 1]    \* the message fetched last
Offset(s) == position[s] - 1
Goto(s, where) == phase' = [phase EXCEPT ![s] = where]

\* The goroutine of the topic of s has nothing in hand.
Idle(s) == \A p \in Partitions : phase[<<s[1], p>>] = "fetch"

\* FetchMessage returns the next message of any partition of the topic.
Fetch(s) ==
    /\ Idle(s)
    /\ position[s] < Length[s]
    /\ position' = [position EXCEPT ![s] = @ + 1]
    /\ Goto(s, "write")
    /\ UNCHANGED <<log, committed, graph, written, failures, budgets>>

\* Mutant: the test of an empty key or endpoint is missing, and MERGE makes a
\* node of it.
WriteOKEmptyKey(s) ==
    /\ phase[s] = "write"
    /\ Current(s) # Bad
    /\ \/ Apply(s, Current(s))
       \/ /\ Current(s) = Ignored
          /\ nodes' = WithNode(nodes, Ignored, NoNode)
          /\ UNCHANGED edges
    /\ written' = [written EXCEPT ![s] = @ \union {Offset(s)}]
    /\ Goto(s, "commit")
    /\ UNCHANGED <<log, position, committed, failures, budgets>>

\* writeResult or writeEdge returned nil.
WriteOK(s) ==
    /\ phase[s] = "write"
    /\ Current(s) # Bad
    /\ \/ Apply(s, Current(s))
       \/ Current(s) = Ignored /\ UNCHANGED graph
    /\ written' = [written EXCEPT ![s] = @ \union {Offset(s)}]
    /\ Goto(s, "commit")
    /\ UNCHANGED <<log, position, committed, failures, budgets>>

\* It returned an error: log it and go on with the next message.
WriteFailed(s) ==
    /\ phase[s] = "write"
    /\ failures' = [failures EXCEPT ![s] = @ \union {Offset(s)}]
    /\ Goto(s, "fetch")
    /\ UNCHANGED <<log, position, committed, written, commitErrs, restarts>>

\* ... because the payload cannot be decoded.
DecodeError(s) ==
    /\ WriteFailed(s)
    /\ Current(s) = Bad
    /\ UNCHANGED <<graph, writeErrs>>

\* ... because the transaction failed, or its outcome is unknown.
WriteError(s, tookEffect) ==
    /\ WriteFailed(s)
    /\ Current(s) \notin {Bad, Ignored}
    /\ writeErrs < MaxWriteErrors
    /\ writeErrs' = writeErrs + 1
    /\ \/ tookEffect /\ Apply(s, Current(s))
       \/ ~tookEffect /\ UNCHANGED graph

\* Mutant: commits the offset after the one it should resume from.
CommitOKOneTooFar(s) ==
    /\ phase[s] = "commit"
    /\ committed' = [committed EXCEPT ![s] = position[s] + 1]
    /\ Goto(s, "fetch")
    /\ UNCHANGED <<log, position, graph, written, failures, budgets>>

CommitOK(s) ==
    /\ phase[s] = "commit"
    /\ committed' = [committed EXCEPT ![s] = position[s]]
    /\ Goto(s, "fetch")
    /\ UNCHANGED <<log, position, graph, written, failures, budgets>>

\* CommitMessages failed; it is only logged.
CommitError(s, tookEffect) ==
    /\ phase[s] = "commit"
    /\ commitErrs < MaxCommitErrors
    /\ commitErrs' = commitErrs + 1
    /\ committed' = IF tookEffect THEN [committed EXCEPT ![s] = position[s]] ELSE committed
    /\ Goto(s, "fetch")
    /\ UNCHANGED <<log, position, graph, written, failures, writeErrs, restarts>>

\* main returns on a signal without waiting for the consumers, or the pod is
\* killed; the next process resumes from the committed offsets.
Restart ==
    /\ restarts < MaxRestarts
    /\ restarts' = restarts + 1
    /\ position' = committed
    /\ phase' = [s \in Sources |-> "fetch"]
    /\ UNCHANGED <<log, committed, graph, written, failures, writeErrs, commitErrs>>

Next ==
    \/ \E s \in Sources :
         \/ Fetch(s)
         \/ WriteOK(s)
         \/ DecodeError(s)
         \/ CommitOK(s)
         \/ \E tookEffect \in BOOLEAN :
              WriteError(s, tookEffect) \/ CommitError(s, tookEffect)
    \/ Restart

Spec == Init /\ [][Next]_vars

--------------------------------------------------------------------------------
(* Properties.                                                             *)

\* Every variable stays in its type.
TypeOK ==
    /\ \A s \in Sources : log[s] \in [Offsets(s) -> Payload(s[1])]
    /\ \A s \in Sources : position[s] \in 0..Length[s]
    /\ phase \in [Sources -> {"fetch", "write", "commit"}]
    /\ \A s \in Sources : phase[s] # "fetch" => position[s] > 0
    /\ \A s \in Sources : committed[s] \in 0..Length[s]
    /\ DOMAIN nodes \subseteq NodeKeys
    /\ \A k \in DOMAIN nodes : nodes[k] \in Node
    /\ edges \subseteq Edge
    /\ \A s \in Sources : written[s] \subseteq Offsets(s)
    /\ \A s \in Sources : failures[s] \subseteq Offsets(s)

\* Across failed commits and restarts the group moves past a message only when
\* it was written, or a write of it failed and a later message was written.
CommittedIsWrittenOrFailed ==
    \A s \in Sources : \A o \in Offsets(s) :
        o < committed[s] => o \in written[s] \union failures[s]

\* A title a node has is never lost to a later message without one, to an edge
\* that names the node first or again, or to a replay of older messages.
TitleNeverErased ==
    [][\A k \in DOMAIN nodes :
          /\ k \in DOMAIN nodes'
          /\ nodes[k].title # NoTitle => nodes'[k].title # NoTitle]_vars

\* The offsets of partition p of the results that give node k a title.
Titled(p, k) == {o \in Offsets(Results(p)) : /\ log[Results(p)][o] \in Result
                                            /\ log[Results(p)][o].key = k
                                            /\ log[Results(p)][o].title # NoTitle}
Newest(S) == CHOOSE o \in S : \A x \in S : x <= o

\* Replays converge within a partition: when a writer that never failed a write
\* has read every partition to its end, each node has the newest title that one
\* of the partitions holds for it, never one that its own partition replaced,
\* and the graph has exactly the edges of the logs, however often messages were
\* applied twice.  The newest title of all is not promised: the results topic
\* has three partitions and the producer spreads a page's results over them, so
\* a replay of one partition can put back a title that another one replaced.
ReplayConverges ==
    (\A s \in Sources :
        phase[s] # "write" /\ position[s] = Length[s] /\ failures[s] = {})
    => /\ \A k \in PageKeys : (\E p \in Partitions : Titled(p, k) # {}) =>
             \E p \in Partitions :
                /\ Titled(p, k) # {}
                /\ nodes[k].title = log[Results(p)][Newest(Titled(p, k))].title
       /\ edges = {e \in Edge : \E p \in Partitions :
                                 \E o \in Offsets(Edges(p)) : log[Edges(p)][o] = e}

--------------------------------------------------------------------------------
(* What documents say, and the code does not do.                           *)

\* "Fix Neo4j; then writers drain lag": a message whose write failed is still
\* there to be written when Neo4j is back, never committed unwritten.
FailedWriteStaysInLog ==
    \A s \in Sources : \A o \in Offsets(s) :
        (o < committed[s] /\ log[s][o] # Bad) => o \in written[s]
================================================================================
