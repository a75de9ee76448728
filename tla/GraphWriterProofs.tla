--------------------------- MODULE GraphWriterProofs ---------------------------
(***************************************************************************)
(* Proofs about the graph writer, for any partitions, logs of any length,  *)
(* any keys and titles, and any number of failed writes, failed commits    *)
(* and restarts.                                                           *)
(***************************************************************************)
EXTENDS GraphWriter, TLAPS

--------------------------------------------------------------------------------
(* The inductive invariant.                                                *)

\* TypeOK, and the domains it leaves open.
WTypeOK ==
    /\ TypeOK
    /\ position \in [Sources -> Int]
    /\ committed \in [Sources -> Int]
    /\ written \in [Sources -> SUBSET Int]
    /\ failures \in [Sources -> SUBSET Int]

\* How far the reader of s has dealt with its messages.
Dealt(s) == IF phase[s] = "write" THEN position[s] - 1 ELSE position[s]

\* The group is never ahead of the process, and what the process has dealt with
\* was written or has failed.
ProgressInv ==
    \A s \in Sources :
        /\ committed[s] <= Dealt(s)
        /\ \A o \in Offsets(s) : o < Dealt(s) => o \in written[s] \union failures[s]

\* Some message dealt with gives node k a title.
HasTitle(k) == \E p \in Partitions : \E x \in Titled(p, k) : x < Dealt(Results(p))

\* Node k has the title o of partition p, and no message of p dealt with gives it
\* a newer one.
FreshTitle(k, p, o) ==
    /\ nodes[k].title = log[Results(p)][o].title
    /\ \A x \in Titled(p, k) : x < Dealt(Results(p)) => x <= o

\* Going back to an older offset keeps it true, and so does applying a message
\* again: this is why replays converge.
TitleInv ==
    (\A p \in Partitions : failures[Results(p)] = {})
    => \A k \in PageKeys : HasTitle(k) =>
          k \in DOMAIN nodes /\ \E p \in Partitions : \E o \in Titled(p, k) : FreshTitle(k, p, o)

\* The edges of the graph are edges of the logs, and if no write of a partition
\* failed they include all of those dealt with.
EdgeInv ==
    /\ \A e \in edges : \E p \in Partitions : \E o \in Offsets(Edges(p)) : log[Edges(p)][o] = e
    /\ \A p \in Partitions : failures[Edges(p)] = {} =>
         \A o \in Offsets(Edges(p)) :
            o < Dealt(Edges(p)) /\ log[Edges(p)][o] \in Edge => log[Edges(p)][o] \in edges

WInv ==
    /\ WTypeOK
    /\ ProgressInv
    /\ TitleInv
    /\ EdgeInv
--------------------------------------------------------------------------------
(* What the merges do.                                                     *)

\* The nodes are well formed.
NodesOK(ns) == DOMAIN ns \subseteq NodeKeys /\ \A k \in DOMAIN ns : ns[k] \in Node

\* MERGE of a key that may be there changes no node that is.
LEMMA MergeNodeFacts ==
    ASSUME NEW ns, NodesOK(ns), NEW k \in NodeKeys
    PROVE  LET new == WithNode(ns, k, Merged(ns, k))
           IN  NodesOK(new) /\ DOMAIN ns \subseteq DOMAIN new /\ \A j \in DOMAIN ns : new[j] = ns[j]
<1>1. Merged(ns, k) \in Node /\ (k \in DOMAIN ns => Merged(ns, k) = ns[k])
  BY DEF Merged, NodesOK, NoNode, Node
<1> DEFINE n == Merged(ns, k)
           new == WithNode(ns, k, n)
<1> HIDE DEF n
<1>2. DOMAIN new = DOMAIN ns \union {k} /\ new[k] = n /\ \A j \in DOMAIN ns : j # k => new[j] = ns[j]
  BY DEF WithNode
<1>3. n \in Node /\ (k \in DOMAIN ns => n = ns[k])
  BY <1>1 DEF n
<1> HIDE DEF new
<1>4. NodesOK(new) /\ DOMAIN ns \subseteq DOMAIN new /\ \A j \in DOMAIN ns : new[j] = ns[j]
  BY <1>2, <1>3 DEF NodesOK
<1> QED BY <1>4 DEF new, n

\* A result sets the session, and the title if it has one, of its own node.
LEMMA MergeResultFacts ==
    ASSUME NodesOK(nodes), NEW r \in Result, MergeResult(r)
    PROVE  /\ edges' = edges
           /\ NodesOK(nodes')
           /\ DOMAIN nodes' = DOMAIN nodes \union {r.key}
           /\ \A k \in DOMAIN nodes : k # r.key => nodes'[k] = nodes[k]
           /\ r.title # NoTitle => nodes'[r.key].title = r.title
           /\ r.title = NoTitle /\ r.key \in DOMAIN nodes
                => nodes'[r.key].title = nodes[r.key].title
<1> DEFINE t == Coalesce(r.title, Merged(nodes, r.key).title)
           n == [title |-> t, session |-> r.session]
<1>1. /\ r.key \in NodeKeys /\ r.title \in Titles \union {NoTitle} /\ r.session \in Sessions
      /\ Merged(nodes, r.key) \in Node
  BY KeyAssumption DEF Result, NodesOK, Merged, NoNode, Node
<1>2. n \in Node
  BY <1>1 DEF Node, Coalesce
<1>3. nodes' = WithNode(nodes, r.key, n) /\ edges' = edges
  BY DEF MergeResult
<1>4. n.title = t
  OBVIOUS
<1>5. /\ r.title # NoTitle => t = r.title
      /\ r.title = NoTitle /\ r.key \in DOMAIN nodes => t = nodes[r.key].title
  BY DEF Coalesce, Merged
<1> HIDE DEF n, t
<1>6. /\ DOMAIN nodes' = DOMAIN nodes \union {r.key} /\ nodes'[r.key] = n
      /\ \A k \in DOMAIN nodes : k # r.key => nodes'[k] = nodes[k]
  <2> DEFINE w == WithNode(nodes, r.key, n)
  <2>1. /\ DOMAIN w = DOMAIN nodes \union {r.key} /\ w[r.key] = n
        /\ \A k \in DOMAIN nodes : k # r.key => w[k] = nodes[k]
    BY DEF WithNode
  <2> QED BY <1>3, <2>1
<1>7. NodesOK(nodes')
  BY <1>1, <1>2, <1>6 DEF NodesOK
<1> QED BY <1>3, <1>4, <1>5, <1>6, <1>7

\* An edge adds itself and, where they are missing, its endpoints.
LEMMA MergeEdgeFacts ==
    ASSUME NodesOK(nodes), NEW e \in Edge, MergeEdge(e)
    PROVE  /\ edges' = edges \union {e}
           /\ NodesOK(nodes') /\ DOMAIN nodes \subseteq DOMAIN nodes'
           /\ \A k \in DOMAIN nodes : nodes'[k] = nodes[k]
<1> DEFINE ns == WithNode(nodes, e.from, Merged(nodes, e.from))
<1>1. e.from \in NodeKeys /\ e.to \in NodeKeys
  BY DEF Edge
<1>2. nodes' = WithNode(ns, e.to, Merged(ns, e.to)) /\ edges' = edges \union {e}
  BY DEF MergeEdge
<1>3. NodesOK(ns) /\ DOMAIN nodes \subseteq DOMAIN ns /\ \A k \in DOMAIN nodes : ns[k] = nodes[k]
  BY <1>1, MergeNodeFacts
<1> HIDE DEF ns
<1>4. NodesOK(nodes') /\ DOMAIN ns \subseteq DOMAIN nodes' /\ \A k \in DOMAIN ns : nodes'[k] = ns[k]
  BY <1>1, <1>2, <1>3, MergeNodeFacts
<1> QED BY <1>2, <1>3, <1>4

\* No write, whatever its message and its outcome, takes a node, a title or an
\* edge away; an edge message touches no title at all.
LEMMA WriteKeeps ==
    ASSUME NodesOK(nodes), NEW s, NEW m, Apply(s, m) \/ UNCHANGED graph
    PROVE  /\ NodesOK(nodes')
           /\ \A k \in DOMAIN nodes :
                /\ k \in DOMAIN nodes'
                /\ nodes[k].title # NoTitle => nodes'[k].title # NoTitle
           /\ s[1] # "results" => \A k \in DOMAIN nodes : nodes'[k] = nodes[k]
           /\ edges \subseteq edges'
           /\ \A e \in edges' : e \in edges \/ (s[1] = "edges" /\ e \in Edge /\ e = m)
<1>1. CASE UNCHANGED graph
  BY <1>1 DEF graph
<1>2. CASE s[1] = "results" /\ m \in Result /\ MergeResult(m)
  BY <1>2, MergeResultFacts
<1>3. CASE s[1] = "edges" /\ m \in Edge /\ MergeEdge(m)
  BY <1>3, MergeEdgeFacts
<1> QED BY <1>1, <1>2, <1>3 DEF Apply

--------------------------------------------------------------------------------
(* Every action preserves the invariant.                                   *)

\* A source is a topic and a partition.
LEMMA SourceFacts ==
    /\ \A p \in Partitions : Results(p) \in Sources /\ Edges(p) \in Sources
    /\ \A p \in Partitions : Results(p)[1] = "results" /\ Edges(p)[1] = "edges"
    /\ \A s \in Sources : /\ s[1] = "results" => \E p \in Partitions : s = Results(p)
                          /\ s[1] = "edges" => \E p \in Partitions : s = Edges(p)
                          /\ s[1] \in {"results", "edges"} /\ s[2] \in Partitions
    /\ \A p, q \in Partitions : /\ Results(p) = Results(q) => p = q
                               /\ Edges(p) = Edges(q) => p = q
                               /\ Results(p) # Edges(q)
BY DEF Sources, Results, Edges

\* Every offset of a partition has a slot in its topic.
LEMMA SlotFacts ==
    ASSUME NEW t, NEW p \in Partitions, NEW o \in Offsets(<<t, p>>)
    PROVE  <<p, o>> \in Slots(t)
<1> DEFINE O(q) == Offsets(<<t, q>>)
<1>1. <<p, o>> \in {p} \X O(p)
  OBVIOUS
<1>2. Slots(t) = UNION {{q} \X O(q) : q \in Partitions}
  BY DEF Slots
<1> HIDE DEF O
<1> QED BY <1>1, <1>2

\* The invariant holds for an empty graph and any log.
LEMMA InitWInv == Init => WInv
<1> SUFFICES ASSUME Init PROVE WInv
  OBVIOUS
<1>0. PICK r \in [Slots("results") -> Payload("results")], e \in [Slots("edges") -> Payload("edges")] :
         log = [s \in Sources |-> [o \in Offsets(s) |->
                  IF s[1] = "results" THEN r[<<s[2], o>>] ELSE e[<<s[2], o>>]]]
  BY DEF Init
<1>1. ASSUME NEW s \in Sources PROVE log[s] \in [Offsets(s) -> Payload(s[1])]
  <2>1. s = <<s[1], s[2]>> /\ s[2] \in Partitions
    BY DEF Sources
  <2>2. \A o \in Offsets(s) : <<s[2], o>> \in Slots(s[1])
    <3> SUFFICES ASSUME NEW o \in Offsets(s) PROVE <<s[2], o>> \in Slots(s[1])
      OBVIOUS
    <3>1. o \in Offsets(<<s[1], s[2]>>)
      BY <2>1, Zenon
    <3> QED BY <2>1, <3>1, SlotFacts
  <2>3. s[1] = "results" \/ s[1] = "edges"
    BY SourceFacts
  <2> QED BY <1>0, <2>2, <2>3
<1>2. \A s \in Sources : 0 \in 0..Length[s]
  BY LogAssumption DEF Sources
<1>3. /\ position = [s \in Sources |-> 0] /\ committed = [s \in Sources |-> 0]
      /\ phase = [s \in Sources |-> "fetch"] /\ nodes = [k \in {} |-> NoNode] /\ edges = {}
      /\ written = [s \in Sources |-> {}] /\ failures = [s \in Sources |-> {}]
  BY DEF Init
<1>4. TypeOK
  <2>1. DOMAIN nodes = {}
    BY <1>3
  <2> QED BY <1>1, <1>2, <1>3, <2>1 DEF TypeOK, Sources
<1>5. WTypeOK
  BY <1>3, <1>4 DEF WTypeOK
<1>6. \A s \in Sources : Dealt(s) = 0 /\ committed[s] = 0
  BY <1>3 DEF Dealt
<1>7. ProgressInv
  BY <1>6 DEF ProgressInv, Offsets
<1>8. TitleInv
  BY <1>6, SourceFacts DEF TitleInv, HasTitle, Titled, Offsets
<1>9. EdgeInv
  BY <1>3, <1>6, SourceFacts DEF EdgeInv, Offsets
<1> QED BY <1>5, <1>7, <1>8, <1>9 DEF WInv

\* A step that leaves the log and the graph alone, records no success and no
\* failure, and has dealt with no more than before keeps what is said of them.
LEMMA QuietKeeps ==
    ASSUME WInv, UNCHANGED <<log, graph, written, failures>>,
           \A s \in Sources : Dealt(s) \in Int /\ Dealt(s)' \in Int /\ Dealt(s)' <= Dealt(s),
           \A s \in Sources : committed'[s] <= Dealt(s)'
    PROVE  ProgressInv' /\ TitleInv' /\ EdgeInv'
<1>1. UNCHANGED <<log, nodes, edges, written, failures>>
  BY DEF graph
<1>2. \A p, k : Titled(p, k)' = Titled(p, k)
  BY <1>1 DEF Titled
<1>3. \A p, k : Titled(p, k) \subseteq Int
  BY DEF Titled, Offsets
<1>4. ProgressInv'
  <2>1. \A s \in Sources : Offsets(s) \subseteq Int
    BY DEF Offsets
  <2> QED BY <1>1, <2>1 DEF WInv, ProgressInv, Offsets
<1>5. TitleInv'
  <2> SUFFICES ASSUME \A p \in Partitions : failures[Results(p)] = {}, NEW k \in PageKeys, HasTitle(k)'
               PROVE  /\ k \in DOMAIN nodes'
                      /\ \E p \in Partitions : \E o \in Titled(p, k)' : FreshTitle(k, p, o)'
    BY <1>1 DEF TitleInv
  <2>1. \A p \in Partitions : \A x \in Titled(p, k) : x < Dealt(Results(p))' => x < Dealt(Results(p))
    BY <1>3, SourceFacts
  <2>2. HasTitle(k)
    BY <1>2, <2>1 DEF HasTitle
  <2>3. PICK p \in Partitions : k \in DOMAIN nodes /\ \E o \in Titled(p, k) : FreshTitle(k, p, o)
    BY <2>2 DEF WInv, TitleInv
  <2>5. PICK o \in Titled(p, k) : FreshTitle(k, p, o)
    BY <2>3
  <2>4. FreshTitle(k, p, o)'
    BY <1>1, <1>2, <2>1, <2>5 DEF FreshTitle
  <2> QED BY <1>1, <1>2, <2>3, <2>5, <2>4
<1>6. EdgeInv'
  <2>1. \A p \in Partitions : \A x \in Offsets(Edges(p)) : x < Dealt(Edges(p))' => x < Dealt(Edges(p))
    BY SourceFacts DEF Offsets
  <2> QED BY <1>1, <2>1 DEF WInv, EdgeInv, Offsets
<1> QED BY <1>4, <1>5, <1>6

\* What is known of the offsets a consumer is done with.
LEMMA DealtFacts ==
    ASSUME WInv, NEW s \in Sources
    PROVE  /\ Length[s] \in Nat /\ position[s] \in 0..Length[s] /\ committed[s] \in 0..Length[s]
           /\ Dealt(s) \in 0..Length[s] /\ committed[s] <= Dealt(s)
           /\ phase[s] \in {"fetch", "write", "commit"}
           /\ phase[s] = "write" => Dealt(s) = Offset(s) /\ Offset(s) \in Offsets(s)
           /\ phase[s] # "write" => Dealt(s) = position[s]
<1>1. Length[s] \in Nat
  BY LogAssumption DEF Sources
<1>2. /\ position[s] \in 0..Length[s] /\ committed[s] \in 0..Length[s]
      /\ phase[s] # "fetch" => position[s] > 0
      /\ phase[s] \in {"fetch", "write", "commit"}
  BY DEF WInv, WTypeOK, TypeOK
<1>3. committed[s] <= Dealt(s)
  BY DEF WInv, ProgressInv
<1> QED BY <1>1, <1>2, <1>3 DEF Dealt, Offset, Offsets

\* Fetching, committing and restarting.
LEMMA FetchWInv ==
    ASSUME WInv, NEW s \in Sources, Fetch(s)
    PROVE  WInv'
<1>1. /\ UNCHANGED <<log, committed, nodes, edges, written, failures>>
      /\ phase[s] = "fetch" /\ position[s] < Length[s]
      /\ position' = [position EXCEPT ![s] = @ + 1]
      /\ phase' = [phase EXCEPT ![s] = "write"]
  <2>1. phase[s] = "fetch"
    BY DEF Fetch, Idle, Sources
  <2> QED BY <2>1 DEF Fetch, Goto, graph
<1>2. position \in [Sources -> Int] /\ phase \in [Sources -> {"fetch", "write", "commit"}]
  BY DEF WInv, WTypeOK, TypeOK
<1>3. \A q \in Sources : /\ Dealt(q) \in Int /\ Dealt(q)' = Dealt(q)
                         /\ committed'[q] <= Dealt(q)'
                         /\ position'[q] \in 0..Length[q]
                         /\ phase'[q] # "fetch" => position'[q] > 0
  <2> SUFFICES ASSUME NEW q \in Sources
               PROVE  /\ Dealt(q) \in Int /\ Dealt(q)' = Dealt(q)
                      /\ committed'[q] <= Dealt(q)'
                      /\ position'[q] \in 0..Length[q]
                      /\ phase'[q] # "fetch" => position'[q] > 0
    OBVIOUS
  <2>1. CASE q = s
    <3>1. position'[s] = position[s] + 1 /\ phase'[s] = "write"
      BY <1>1, <1>2
    <3> QED BY <1>1, <2>1, <3>1, DealtFacts DEF Dealt
  <2>2. CASE q # s
    <3>1. position'[q] = position[q] /\ phase'[q] = phase[q]
      BY <1>1, <1>2, <2>2
    <3>2. phase[q] # "fetch" => position[q] > 0
      BY DEF WInv, WTypeOK, TypeOK
    <3> QED BY <1>1, <3>1, <3>2, DealtFacts DEF Dealt
  <2> QED BY <2>1, <2>2
<1>4. ProgressInv' /\ TitleInv' /\ EdgeInv'
  BY <1>1, <1>3, QuietKeeps DEF graph
<1>5. /\ position' \in [Sources -> Int] /\ phase' \in [Sources -> {"fetch", "write", "commit"}]
  BY <1>1, <1>2
<1>6. WTypeOK'
  BY <1>1, <1>3, <1>5 DEF WInv, WTypeOK, TypeOK, Offsets, Payload
<1> QED BY <1>4, <1>6 DEF WInv

\* A commit, successful or failed, with or without effect.
LEMMA CommitWInv ==
    ASSUME WInv, NEW s \in Sources,
           CommitOK(s) \/ \E tookEffect \in BOOLEAN : CommitError(s, tookEffect)
    PROVE  WInv'
<1>1. /\ UNCHANGED <<log, position, nodes, edges, written, failures>>
      /\ phase[s] = "commit"
      /\ committed' = committed \/ committed' = [committed EXCEPT ![s] = position[s]]
      /\ phase' = [phase EXCEPT ![s] = "fetch"]
  BY DEF CommitOK, CommitError, Goto, graph
<1>2. /\ committed \in [Sources -> Int] /\ phase \in [Sources -> {"fetch", "write", "commit"}]
      /\ position[s] \in Int
  BY DEF WInv, WTypeOK, TypeOK
<1>3. /\ committed' \in [Sources -> Int] /\ phase' \in [Sources -> {"fetch", "write", "commit"}]
      /\ \A q \in Sources : committed'[q] = committed[q] \/ (q = s /\ committed'[q] = position[s])
      /\ \A q \in Sources : phase'[q] = phase[q] \/ (q = s /\ phase'[q] = "fetch")
  BY <1>1, <1>2
<1>4. \A q \in Sources : /\ Dealt(q) \in Int /\ Dealt(q)' = Dealt(q)
                         /\ committed'[q] <= Dealt(q)'
                         /\ committed'[q] \in 0..Length[q]
  BY <1>1, <1>3, DealtFacts DEF Dealt
<1>5. ProgressInv' /\ TitleInv' /\ EdgeInv'
  BY <1>1, <1>4, QuietKeeps DEF graph
<1>6. WTypeOK'
  BY <1>1, <1>3, <1>4 DEF WInv, WTypeOK, TypeOK, Offsets, Payload
<1> QED BY <1>5, <1>6 DEF WInv

\* The process dies and its successor reads from the committed offsets.
LEMMA RestartWInv ==
    ASSUME WInv, Restart
    PROVE  WInv'
<1>1. /\ UNCHANGED <<log, committed, nodes, edges, written, failures>>
      /\ position' = committed /\ phase' = [s \in Sources |-> "fetch"]
  BY DEF Restart, graph
<1>2. \A q \in Sources : /\ Dealt(q) \in Int /\ Dealt(q)' = committed[q]
                         /\ Dealt(q)' \in Int /\ Dealt(q)' <= Dealt(q)
                         /\ committed'[q] <= Dealt(q)'
  BY <1>1, DealtFacts DEF Dealt
<1>3. ProgressInv' /\ TitleInv' /\ EdgeInv'
  BY <1>1, <1>2, QuietKeeps DEF graph
<1>4. WTypeOK'
  BY <1>1 DEF WInv, WTypeOK, TypeOK, Offsets, Payload
<1> QED BY <1>3, <1>4 DEF WInv

\* A write ended: with success, the message applied unless it is to be ignored,
\* or with an error, the message applied or not.
WriteEnds(s) ==
    /\ phase[s] = "write"
    /\ UNCHANGED <<log, position, committed>>
    /\ \E where \in {"fetch", "commit"} : phase' = [phase EXCEPT ![s] = where]
    /\ Apply(s, Current(s)) \/ UNCHANGED graph
    /\ \/ /\ written' = [written EXCEPT ![s] = @ \union {Offset(s)}]
          /\ failures' = failures
          /\ Apply(s, Current(s)) \/ Current(s) = Ignored
       \/ /\ failures' = [failures EXCEPT ![s] = @ \union {Offset(s)}]
          /\ written' = written

\* A write to Neo4j, successful or failed, with or without effect.
LEMMA WriteWInv ==
    ASSUME WInv, NEW s \in Sources, WriteEnds(s)
    PROVE  WInv'
<1> DEFINE o == Offset(s)
           m == Current(s)
<1>1. /\ phase[s] = "write" /\ o \in Offsets(s) /\ o \in Int /\ o = Dealt(s)
      /\ UNCHANGED <<log, position, committed>>
      /\ position[s] = o + 1 /\ position[s] \in Int
  BY DealtFacts DEF WriteEnds, Offset, Offsets
<1>2. /\ phase \in [Sources -> {"fetch", "write", "commit"}]
      /\ written \in [Sources -> SUBSET Int] /\ failures \in [Sources -> SUBSET Int]
      /\ NodesOK(nodes) /\ edges \subseteq Edge
      /\ \A q \in Sources : written[q] \subseteq Offsets(q) /\ failures[q] \subseteq Offsets(q)
  BY DEF WInv, WTypeOK, TypeOK, NodesOK
<1>3. /\ phase' \in [Sources -> {"fetch", "write", "commit"}]
      /\ phase'[s] # "write" /\ \A q \in Sources : q # s => phase'[q] = phase[q]
  BY <1>2 DEF WriteEnds
<1>4. /\ Dealt(s)' = o + 1
      /\ \A q \in Sources : q # s => Dealt(q)' = Dealt(q)
  BY <1>1, <1>3 DEF Dealt
<1>5. /\ written' \in [Sources -> SUBSET Int] /\ failures' \in [Sources -> SUBSET Int]
      /\ \A q \in Sources : written[q] \subseteq written'[q] /\ failures[q] \subseteq failures'[q]
      /\ \A q \in Sources : written'[q] \subseteq Offsets(q) /\ failures'[q] \subseteq Offsets(q)
      /\ o \in written'[s] \union failures'[s]
      /\ failures'[s] = {} => Apply(s, m) \/ m = Ignored
  <2> HIDE DEF o, m
  <2>1. CASE /\ written' = [written EXCEPT ![s] = @ \union {o}]
             /\ failures' = failures /\ (Apply(s, m) \/ m = Ignored)
    BY <1>1, <1>2, <2>1
  <2>2. CASE failures' = [failures EXCEPT ![s] = @ \union {o}] /\ written' = written
    BY <1>1, <1>2, <2>2
  <2> QED BY <2>1, <2>2 DEF WriteEnds, o, m
<1>6. /\ NodesOK(nodes')
      /\ s[1] # "results" => \A k \in DOMAIN nodes : k \in DOMAIN nodes' /\ nodes'[k] = nodes[k]
      /\ edges \subseteq edges'
      /\ \A e \in edges' : e \in edges \/ (s[1] = "edges" /\ e \in Edge /\ e = m)
  <2>1. Apply(s, m) \/ UNCHANGED graph
    BY DEF WriteEnds
  <2> HIDE DEF m
  <2> QED BY <1>2, <2>1, WriteKeeps
<1>7. m = log[s][o]
  BY DEF Current, Offset
<1> HIDE DEF o, m
<1>8. WTypeOK'
  <2>1. /\ DOMAIN nodes' \subseteq NodeKeys /\ \A k \in DOMAIN nodes' : nodes'[k] \in Node
        /\ edges' \subseteq Edge
    BY <1>2, <1>6 DEF NodesOK
  <2>2. \A q \in Sources : phase'[q] # "fetch" => position[q] > 0
    BY <1>1, <1>3 DEF WInv, WTypeOK, TypeOK
  <2> QED BY <1>1, <1>3, <1>5, <2>1, <2>2 DEF WInv, WTypeOK, TypeOK, Offsets, Payload
<1>9. ProgressInv'
  <2> SUFFICES ASSUME NEW q \in Sources
               PROVE  /\ committed[q] <= Dealt(q)'
                      /\ \A x \in Offsets(q) : x < Dealt(q)' => x \in written'[q] \union failures'[q]
    BY <1>1 DEF ProgressInv, Offsets
  <2>1. /\ committed[q] <= Dealt(q) /\ committed[q] \in Int /\ Dealt(q) \in Int
        /\ \A x \in Offsets(q) : x < Dealt(q) => x \in written[q] \union failures[q]
        /\ Offsets(q) \subseteq Int
    BY DealtFacts DEF WInv, ProgressInv, Offsets
  <2>2. CASE q = s
    <3>1. \A x \in Offsets(q) : x < Dealt(q)' => x = o \/ x < Dealt(q)
      BY <1>1, <1>4, <2>1, <2>2
    <3> QED BY <1>1, <1>4, <1>5, <2>1, <2>2, <3>1
  <2>3. CASE q # s
    BY <1>4, <1>5, <2>1, <2>3
  <2> QED BY <2>2, <2>3
<1>10. TitleInv'
  <2> SUFFICES ASSUME \A p \in Partitions : failures'[Results(p)] = {}, NEW k \in PageKeys, HasTitle(k)'
               PROVE  /\ k \in DOMAIN nodes'
                      /\ \E p \in Partitions : \E y \in Titled(p, k)' : FreshTitle(k, p, y)'
    BY DEF TitleInv
  <2>1. \A p \in Partitions : /\ failures[Results(p)] = {}
                             /\ Titled(p, k)' = Titled(p, k) /\ Titled(p, k) \subseteq Int
    BY <1>1, <1>5, SourceFacts DEF Titled, Offsets
  <2>2. HasTitle(k) => /\ k \in DOMAIN nodes
                       /\ \E p \in Partitions : \E y \in Titled(p, k) : FreshTitle(k, p, y)
    BY <2>1 DEF WInv, TitleInv
  <2>5. PICK y0 \in Int : y0 = o
    BY <1>1
  <2>3. ASSUME NEW p \in Partitions, s = Results(p), o \in Titled(p, k)
        PROVE  k \in DOMAIN nodes' /\ y0 \in Titled(p, k)' /\ FreshTitle(k, p, y0)'
    <3>1. m \in Result /\ m.key = k /\ m.title # NoTitle
      BY <1>7, <2>3 DEF Titled
    <3>2. s[1] = "results" /\ failures'[s] = {}
      BY <2>3, SourceFacts
    <3>3. MergeResult(m)
      BY <1>5, <3>1, <3>2, PayloadAssumption DEF Apply
    <3>4. k \in DOMAIN nodes' /\ nodes'[k].title = m.title
      BY <1>2, <3>1, <3>3, MergeResultFacts
    <3>5. \A x \in Titled(p, k) : x < o + 1 => x <= o
      BY <1>1, <2>1
    <3>6. nodes'[k].title = log'[Results(p)][y0].title
      BY <1>1, <1>7, <2>3, <2>5, <3>4
    <3>7. \A x \in Titled(p, k)' : x < Dealt(Results(p))' => x <= y0
      BY <1>4, <2>1, <2>3, <2>5, <3>5
    <3> QED BY <2>1, <2>3, <2>5, <3>4, <3>6, <3>7 DEF FreshTitle
  <2>4. ASSUME \A p \in Partitions : ~(s = Results(p) /\ o \in Titled(p, k))
        PROVE  /\ k \in DOMAIN nodes'
               /\ \E p \in Partitions : \E y \in Titled(p, k)' : FreshTitle(k, p, y)'
    <3>1. \A p \in Partitions : \A x \in Titled(p, k) : x < Dealt(Results(p))' => x < Dealt(Results(p))
      <4> SUFFICES ASSUME NEW p \in Partitions, NEW x \in Titled(p, k), x < Dealt(Results(p))'
                   PROVE  x < Dealt(Results(p))
        OBVIOUS
      <4>1. CASE s = Results(p)
        <5>1. x # o /\ x \in Int
          BY <2>1, <2>4, <4>1
        <5> QED BY <1>1, <1>4, <4>1, <5>1
      <4>2. CASE s # Results(p)
        BY <1>4, <4>2, SourceFacts
      <4> QED BY <4>1, <4>2
    <3>2. HasTitle(k)
      BY <2>1, <3>1 DEF HasTitle
    <3>3. PICK p \in Partitions : k \in DOMAIN nodes /\ \E y \in Titled(p, k) : FreshTitle(k, p, y)
      BY <2>2, <3>2
    <3>6. PICK y \in Titled(p, k) : FreshTitle(k, p, y)
      BY <3>3
    <3>4. k \in DOMAIN nodes' /\ nodes'[k].title = nodes[k].title
      <4>1. CASE s[1] # "results"
        BY <1>6, <3>3, <4>1
      <4>2. CASE s[1] = "results"
        <5>0. PICK q \in Partitions : s = Results(q)
          BY <4>2, SourceFacts
        <5>1. CASE m = Ignored
          <6>1. UNCHANGED graph
            BY <5>1, <4>2, PayloadAssumption DEF WriteEnds, Apply, m
          <6> QED BY <3>3, <6>1 DEF graph
        <5>2. CASE Apply(s, m)
          <6>1. m \in Result /\ MergeResult(m)
            BY <5>2, <4>2 DEF Apply
          <6>2. m.key = k => m.title = NoTitle
            BY <1>1, <1>7, <2>4, <5>0, <6>1 DEF Titled
          <6> QED BY <1>2, <3>3, <6>1, <6>2, MergeResultFacts
        <5> QED BY <1>5, <5>0, <5>1, <5>2
      <4> QED BY <4>1, <4>2
    <3>5. FreshTitle(k, p, y)'
      BY <1>1, <2>1, <3>1, <3>6, <3>4 DEF FreshTitle
    <3> QED BY <2>1, <3>4, <3>5, <3>6
  <2> QED BY <2>3, <2>4
<1>11. EdgeInv'
  <2>1. \A e \in edges' : \E p \in Partitions : \E x \in Offsets(Edges(p)) : log[Edges(p)][x] = e
    <3> SUFFICES ASSUME NEW e \in edges'
                 PROVE  \E p \in Partitions : \E x \in Offsets(Edges(p)) : log[Edges(p)][x] = e
      OBVIOUS
    <3>1. CASE e \in edges
      BY <3>1 DEF WInv, EdgeInv
    <3>2. CASE s[1] = "edges" /\ e = m
      <4>1. PICK p \in Partitions : s = Edges(p)
        BY <3>2, SourceFacts
      <4> QED BY <1>1, <1>7, <3>2, <4>1
    <3> QED BY <1>6, <3>1, <3>2
  <2>2. ASSUME NEW p \in Partitions, failures'[Edges(p)] = {}, NEW x \in Offsets(Edges(p)),
               x < Dealt(Edges(p))', log[Edges(p)][x] \in Edge
        PROVE  log[Edges(p)][x] \in edges'
    <3>1. /\ failures[Edges(p)] = {} /\ Edges(p) \in Sources /\ Edges(p)[1] = "edges"
          /\ x \in Int /\ Dealt(Edges(p)) \in Int
      BY <1>5, <2>2, DealtFacts, SourceFacts DEF Offsets
    <3>2. CASE x < Dealt(Edges(p))
      BY <1>6, <2>2, <3>1, <3>2 DEF WInv, EdgeInv
    <3>3. CASE s = Edges(p) /\ x = o
      <4>1. m \in Edge /\ Apply(s, m)
        BY <1>5, <1>7, <2>2, <3>3, PayloadAssumption
      <4>2. MergeEdge(m)
        BY <3>1, <3>3, <4>1 DEF Apply
      <4> QED BY <1>2, <1>7, <3>3, <4>1, <4>2, MergeEdgeFacts
    <3> QED BY <1>1, <1>4, <2>2, <3>1, <3>2, <3>3
  <2> QED BY <1>1, <2>1, <2>2 DEF EdgeInv, Offsets
<1> QED BY <1>8, <1>9, <1>10, <1>11 DEF WInv

\* Every step of the writer preserves the invariant.
LEMMA StepWInv ==
    ASSUME WInv, [Next]_vars
    PROVE  WInv'
<1>1. ASSUME NEW s \in Sources, Fetch(s) PROVE WInv'
  BY <1>1, FetchWInv
<1>2. ASSUME NEW s \in Sources, WriteOK(s) PROVE WInv'
  <2>1. WriteEnds(s)
    BY <1>2, Zenon DEF WriteOK, WriteEnds, Goto
  <2> QED BY <2>1, WriteWInv
<1>3. ASSUME NEW s \in Sources, DecodeError(s) \/ \E tookEffect \in BOOLEAN : WriteError(s, tookEffect)
      PROVE  WInv'
  <2>1. WriteEnds(s)
    BY <1>3, Zenon DEF DecodeError, WriteError, WriteFailed, WriteEnds, Goto
  <2> QED BY <2>1, WriteWInv
<1>4. ASSUME NEW s \in Sources, CommitOK(s) \/ \E tookEffect \in BOOLEAN : CommitError(s, tookEffect)
      PROVE  WInv'
  BY <1>4, CommitWInv
<1>5. CASE Restart
  BY <1>5, RestartWInv
<1>6. CASE UNCHANGED vars
  <2>1. UNCHANGED <<log, position, phase, committed, nodes, edges, written, failures>>
    BY <1>6 DEF vars, graph
  <2>2. \A s \in Sources : Dealt(s)' = Dealt(s) /\ Dealt(s) \in Int /\ committed'[s] <= Dealt(s)
    BY <2>1, DealtFacts DEF Dealt
  <2>3. ProgressInv' /\ TitleInv' /\ EdgeInv'
    BY <2>1, <2>2, QuietKeeps DEF graph
  <2>4. WTypeOK'
    BY <2>1 DEF WInv, WTypeOK, TypeOK, Offsets, Payload
  <2> QED BY <2>3, <2>4 DEF WInv
<1> QED BY <1>1, <1>2, <1>3, <1>4, <1>5, <1>6 DEF Next

--------------------------------------------------------------------------------
(* The theorems.                                                           *)

\* The inductive invariant holds in every reachable state.
THEOREM WriterInvariant == Spec => []WInv
<1>1. WInv /\ [Next]_vars => WInv'
  BY StepWInv
<1> QED BY <1>1, InitWInv, PTL DEF Spec

\* Every variable keeps its type.
THEOREM WriterTypes == Spec => []TypeOK
<1>1. WInv => TypeOK
  BY DEF WInv, WTypeOK
<1> QED BY <1>1, WriterInvariant, PTL

\* Across failed commits and restarts the group moves past a message only when
\* it was written or a write of it failed.
THEOREM WriterCoverage == Spec => []CommittedIsWrittenOrFailed
<1>1. WInv => CommittedIsWrittenOrFailed
  <2> SUFFICES ASSUME WInv, NEW s \in Sources, NEW o \in Offsets(s), o < committed[s]
               PROVE  o \in written[s] \union failures[s]
    BY DEF CommittedIsWrittenOrFailed
  <2>1. o < Dealt(s)
    BY DealtFacts DEF Offsets
  <2> QED BY <2>1 DEF WInv, ProgressInv
<1> QED BY <1>1, WriterInvariant, PTL

\* However often messages are applied again after a restart, a writer that never
\* failed a write ends with the newest title of some partition for every page,
\* and with exactly the edges of the logs.
THEOREM WriterConverges == Spec => []ReplayConverges
<1>1. WInv => ReplayConverges
  <2> SUFFICES ASSUME WInv,
                      \A s \in Sources :
                        phase[s] # "write" /\ position[s] = Length[s] /\ failures[s] = {}
               PROVE  /\ \A k \in PageKeys : (\E p \in Partitions : Titled(p, k) # {}) =>
                           \E p \in Partitions :
                              /\ Titled(p, k) # {}
                              /\ nodes[k].title = log[Results(p)][Newest(Titled(p, k))].title
                      /\ edges = {e \in Edge : \E p \in Partitions :
                                    \E o \in Offsets(Edges(p)) : log[Edges(p)][o] = e}
    BY DEF ReplayConverges
  <2>1. \A s \in Sources : /\ Dealt(s) = Length[s] /\ failures[s] = {} /\ Length[s] \in Nat
                           /\ \A o \in Offsets(s) : o \in Int /\ o < Dealt(s)
    BY LogAssumption DEF Dealt, Offsets, Sources
  <2>2. ASSUME NEW k \in PageKeys, \E p \in Partitions : Titled(p, k) # {}
        PROVE  \E p \in Partitions :
                  /\ Titled(p, k) # {}
                  /\ nodes[k].title = log[Results(p)][Newest(Titled(p, k))].title
    <3>1. \A p \in Partitions : \A x \in Titled(p, k) : x \in Int /\ x < Dealt(Results(p))
      BY <2>1, SourceFacts DEF Titled
    <3>2. HasTitle(k)
      BY <2>2, <3>1 DEF HasTitle
    <3>3. PICK p \in Partitions : \E y \in Titled(p, k) : FreshTitle(k, p, y)
      BY <2>1, <3>2, SourceFacts DEF WInv, TitleInv
    <3>7. PICK y \in Titled(p, k) : FreshTitle(k, p, y)
      BY <3>3
    <3>4. nodes[k].title = log[Results(p)][y].title /\ \A x \in Titled(p, k) : x <= y
      BY <3>1, <3>7 DEF FreshTitle
    <3>5. /\ Newest(Titled(p, k)) \in Titled(p, k)
          /\ \A x \in Titled(p, k) : x <= Newest(Titled(p, k))
      BY <3>4 DEF Newest
    <3>6. Newest(Titled(p, k)) = y
      BY <3>1, <3>4, <3>5
    <3> QED BY <3>3, <3>4, <3>6
  <2>3. edges = {e \in Edge : \E p \in Partitions :
                  \E o \in Offsets(Edges(p)) : log[Edges(p)][o] = e}
    <3>1. edges \subseteq Edge
      BY DEF WInv, WTypeOK, TypeOK
    <3> QED BY <2>1, <3>1, SourceFacts DEF WInv, EdgeInv
  <2> QED BY <2>2, <2>3
<1> QED BY <1>1, WriterInvariant, PTL

\* No step of the writer takes a node or a title away.
THEOREM TitlesStay == Spec => TitleNeverErased
<1> DEFINE Kept == \A k \in DOMAIN nodes :
                      /\ k \in DOMAIN nodes'
                      /\ nodes[k].title # NoTitle => nodes'[k].title # NoTitle
<1>1. WInv /\ [Next]_vars => [Kept]_vars
  <2> SUFFICES ASSUME WInv, Next PROVE Kept
    OBVIOUS
  <2>1. CASE UNCHANGED graph
    BY <2>1 DEF graph
  <2>2. CASE \E s \in Sources : Apply(s, Current(s))
    <3>1. NodesOK(nodes)
      BY DEF WInv, WTypeOK, TypeOK, NodesOK
    <3> QED BY <2>2, <3>1, WriteKeeps
  <2> QED BY <2>1, <2>2, Zenon
          DEF Next, Fetch, WriteOK, DecodeError, WriteError, CommitOK, CommitError, Restart
<1> QED BY <1>1, WriterInvariant, PTL DEF Spec, TitleNeverErased

================================================================================
