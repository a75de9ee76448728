------------------------------ MODULE CrawlProofs ------------------------------
(***************************************************************************)
(* Proofs about the crawl, for every finite site, any number of slots and  *)
(* sessions, and any number of faults, redeliveries and expired keys.      *)
(*                                                                         *)
(* The completeness of a crawl at rest is an induction along a chain of    *)
(* links, and its bound on the length of the chain a pigeonhole argument;  *)
(* both are taken from the least element of a set of numbers.              *)
(***************************************************************************)
EXTENDS Crawl, FiniteSetTheorems, WellFoundedInduction, TLAPS

--------------------------------------------------------------------------------
(* Bags, numbers and chains of links.                                      *)

Queued == BagToSet(frontier)

\* A job written to the topic is in it, and nothing else is new.
LEMMA PutFacts ==
    ASSUME NEW B, IsABag(B), NEW x
    PROVE  /\ IsABag(B (+) SetToBag({x}))
           /\ BagToSet(B (+) SetToBag({x})) = BagToSet(B) \union {x}
BY DEF (+), IsABag, BagToSet, SetToBag

\* Taking a job that is in the topic leaves the other jobs where they are.
LEMMA TakeFacts ==
    ASSUME NEW B, IsABag(B), NEW x
    PROVE  /\ IsABag(B (-) SetToBag({x}))
           /\ BagToSet(B (-) SetToBag({x})) \subseteq BagToSet(B)
           /\ BagToSet(B) \ {x} \subseteq BagToSet(B (-) SetToBag({x}))
BY DEF (-), IsABag, BagToSet, SetToBag

\* The empty topic holds no job.
LEMMA EmptyFacts == IsABag(EmptyBag) /\ BagToSet(EmptyBag) = {}
BY DEF EmptyBag, IsABag, BagToSet, SetToBag

\* A non-empty set of natural numbers has a least one; inductions below use it.
LEMMA LeastElement ==
    ASSUME NEW T, T \subseteq Nat, T # {}
    PROVE  \E x \in T : \A y \in T : x <= y
<1> DEFINE R == OpToRel(<, Nat)
<1>1. IsWellFoundedOn(R, Nat)
  BY NatLessThanWellFounded
<1>2. \A x, y \in Nat : x < y => <<x, y>> \in R
  BY DEF OpToRel
<1> HIDE DEF R
<1>3. PICK x \in T : \A y \in T : ~ (<<y, x>> \in R)
  BY <1>1, WFMin
<1>4. ASSUME NEW y \in T PROVE x <= y
  <2>1. x \in Nat /\ y \in Nat /\ ~ (y < x)
    BY <1>2, <1>3
  <2> QED BY <2>1
<1> QED BY <1>4

\* A page is at distance 0 from itself, and a link leads one step further.
LEMMA LinkedZero ==
    ASSUME NEW a \in URLs
    PROVE  Linked(a, a, 0)
<1> DEFINE chain == [i \in 0..0 |-> a]
<1>1. chain \in [0..0 -> URLs] /\ chain[0] = a
  OBVIOUS
<1>2. \A i \in 1..0 : chain[i] \in links[chain[i - 1]]
  OBVIOUS
<1> QED BY <1>1, <1>2 DEF Linked

\* One more link makes a chain one longer.
LEMMA LinkedNext ==
    ASSUME NEW a, NEW b, NEW c \in URLs, NEW d \in Nat, Linked(a, b, d), c \in links[b]
    PROVE  Linked(a, c, d + 1)
<1>1. PICK chain \in [0..d -> URLs] :
        chain[0] = a /\ chain[d] = b /\ \A i \in 1..d : chain[i] \in links[chain[i - 1]]
  BY DEF Linked
<1> DEFINE longer == [i \in 0..(d + 1) |-> IF i = d + 1 THEN c ELSE chain[i]]
<1>2. longer \in [0..(d + 1) -> URLs] /\ longer[0] = a /\ longer[d + 1] = c
  BY <1>1
<1>3. ASSUME NEW i \in 1..(d + 1) PROVE longer[i] \in links[longer[i - 1]]
  <2>1. CASE i = d + 1
    <3>1. longer[i - 1] = b /\ longer[i] = c
      BY <1>1, <2>1
    <3> QED BY <3>1
  <2>2. CASE i \in 1..d
    <3>1. longer[i - 1] = chain[i - 1] /\ longer[i] = chain[i]
      BY <2>2
    <3> QED BY <1>1, <2>2, <3>1
  <2> QED BY <2>1, <2>2
<1> QED BY <1>2, <1>3 DEF Linked

\* A chain that meets a page twice can be shortened.
LEMMA LinkedShorter ==
    ASSUME NEW a, NEW b, NEW d \in Nat, NEW chain \in [0..d -> URLs],
           chain[0] = a, chain[d] = b,
           \A i \in 1..d : chain[i] \in links[chain[i - 1]],
           NEW p \in 0..d, NEW q \in 0..d, p < q, chain[p] = chain[q]
    PROVE  Linked(a, b, d - (q - p))
<1> DEFINE k == q - p
           n == d - k
           short == [i \in 0..n |-> IF i <= p THEN chain[i] ELSE chain[i + k]]
<1>1. n \in Nat /\ k \in Nat \ {0} /\ p <= n /\ n + k = d /\ p + k = q /\ p \in Nat
  OBVIOUS
<1> HIDE DEF n, k
<1>2. short \in [0..n -> URLs]
  BY <1>1
<1>3. short[0] = a
  BY <1>1
<1>4. short[n] = b
  BY <1>1
<1>5. ASSUME NEW i \in 1..n PROVE short[i] \in links[short[i - 1]]
  <2>1. CASE i <= p
    <3>1. i \in 1..d /\ short[i] = chain[i] /\ short[i - 1] = chain[i - 1]
      BY <1>1, <2>1
    <3> QED BY <3>1
  <2>2. CASE i = p + 1
    <3>1. i + k \in 1..d /\ (i + k) - 1 = q
      BY <1>1, <2>2
    <3>2. short[i] = chain[i + k]
      BY <1>1, <2>2
    <3>3. i - 1 = p /\ p \in 0..n /\ short[p] = chain[p]
      BY <1>1, <2>2
    <3> QED BY <3>1, <3>2, <3>3
  <2>3. CASE i > p + 1
    <3>1. i + k \in 1..d /\ (i + k) - 1 = (i - 1) + k
      BY <1>1, <2>3
    <3>2. short[i] = chain[i + k]
      BY <1>1, <2>3
    <3>3. short[i - 1] = chain[(i - 1) + k]
      BY <1>1, <2>3
    <3> QED BY <3>1, <3>2, <3>3
  <2> QED BY <1>1, <2>1, <2>2, <2>3
<1>6. Linked(a, b, n)
  BY <1>2, <1>3, <1>4, <1>5 DEF Linked
<1> QED BY <1>6 DEF n, k

\* What can be reached at all can be reached over no more links than pages.
LEMMA LinkedBounded ==
    ASSUME NEW a, NEW b, NEW d \in Nat, Linked(a, b, d)
    PROVE  \E e \in 0..Cardinality(URLs) : Linked(a, b, e)
<1>1. PICK m \in Nat : Linked(a, b, m) /\ \A y \in Nat : Linked(a, b, y) => m <= y
  <2> DEFINE T == {n \in Nat : Linked(a, b, n)}
  <2>1. T \subseteq Nat /\ T # {}
    OBVIOUS
  <2>2. PICK x \in T : \A y \in T : x <= y
    BY <2>1, LeastElement
  <2> QED BY <2>2
<1>2. PICK chain \in [0..m -> URLs] :
        chain[0] = a /\ chain[m] = b /\ \A i \in 1..m : chain[i] \in links[chain[i - 1]]
  BY <1>1 DEF Linked
<1>3. ASSUME NEW p \in 0..m, NEW q \in 0..m, p < q PROVE chain[p] # chain[q]
  <2>1. SUFFICES ASSUME chain[p] = chain[q] PROVE FALSE
    OBVIOUS
  <2>2. Linked(a, b, m - (q - p))
    BY <1>2, <1>3, <2>1, LinkedShorter
  <2>3. m - (q - p) \in Nat /\ m - (q - p) < m
    BY <1>3
  <2> QED BY <1>1, <2>2, <2>3
<1>4. IsFiniteSet(0..m) /\ Cardinality(0..m) = m + 1
  BY FS_Interval
<1>5. IsFiniteSet(URLs) /\ Cardinality(URLs) \in Nat
  BY URLAssumption, FS_CardinalityType
<1>6. chain \in Injection(0..m, URLs)
  BY <1>2, <1>3 DEF Injection, IsInjective
<1>7. Cardinality(0..m) <= Cardinality(URLs)
  BY <1>4, <1>5, <1>6, FS_Injection
<1>8. m \in 0..Cardinality(URLs)
  BY <1>4, <1>5, <1>7
<1> QED BY <1>1, <1>8

--------------------------------------------------------------------------------
(* The inductive invariant.                                                *)

Work == [job : Job, left : SUBSET URLs]

CrawlTypeOK ==
    /\ links \in [URLs -> SUBSET URLs]
    /\ maxDepth \in Int
    /\ IsABag(frontier) /\ Queued \subseteq Job
    /\ slot \in [Slots -> {Idle} \union Work]
    /\ submitted \subseteq Job
    /\ taken \subseteq Job
    /\ expanded \subseteq taken
    /\ seen \subseteq URLs
    /\ visited \subseteq seen

\* Job j belongs to a crawl somebody asked for and is within its reach.
InReach(j) ==
    /\ SeedJob(j.session, j.seed) \in submitted
    /\ Linked(j.seed, j.url, j.depth)
    /\ maxDepth > 0 => j.depth <= maxDepth

ReachInv == \A j \in Queued \union taken : InReach(j)

\* The pages that were claimed, wait, or were let go of; the links of a job
\* above the limit that it has dealt with are among them.
Kept(u) == u \in seen \/ u \in dropped \/ \E k \in Queued : k.url = u
Above(j) == maxDepth <= 0 \/ j.depth < maxDepth
LinksKept(j, left) == Above(j) => \A u \in links[j.url] \ left : Kept(u)

SlotOK(w) ==
    slot[w] # Idle => /\ slot[w].job \in taken
                      /\ slot[w].left \subseteq links[slot[w].job.url]
                      /\ LinksKept(slot[w].job, slot[w].left)

KeepInv ==
    /\ \A w \in Slots : SlotOK(w)
    /\ \A j \in expanded : LinksKept(j, {})
    /\ \A j \in submitted : Kept(j.url)

\* A page whose key was ever set was expanded, is being expanded, or the job
\* that set it was interrupted.
Owned(u) ==
    \/ \E j \in expanded : j.url = u
    \/ \E w \in Slots : slot[w] # Idle /\ slot[w].job.url = u
    \/ u \in interrupted

OwnerInv == \A u \in seen : Owned(u)

CInv ==
    /\ CrawlTypeOK
    /\ ReachInv
    /\ KeepInv
    /\ OwnerInv

--------------------------------------------------------------------------------
(* Every action preserves it.                                              *)

\* What a step has to show: nothing kept is lost, new jobs are within reach,
\* and slots, finished jobs, submissions and keys are accounted for.
LEMMA FrameCInv ==
    ASSUME CInv, UNCHANGED <<links, maxDepth>>, CrawlTypeOK',
           submitted \subseteq submitted',
           \A u \in URLs : Kept(u) => Kept(u)',
           \A j \in Queued' \union taken' : j \in Queued \union taken \/ InReach(j)',
           \A w \in Slots : SlotOK(w)',
           \A j \in expanded' : j \in expanded \/ LinksKept(j, {})',
           \A j \in submitted' : j \in submitted \/ Kept(j.url)',
           \A u \in seen' : Owned(u)'
    PROVE  CInv'
<1>1. ReachInv'
  <2>1. \A j : InReach(j) => InReach(j)'
    BY DEF InReach, Linked
  <2> QED BY <2>1 DEF CInv, ReachInv
<1>2. KeepInv'
  <2>1. ASSUME NEW j \in expanded' PROVE LinksKept(j, {})'
    <3>1. CASE j \in expanded
      <4>1. LinksKept(j, {}) /\ j \in Job /\ links[j.url] \subseteq URLs
        BY <3>1 DEF CInv, KeepInv, CrawlTypeOK, Job
      <4> QED BY <4>1 DEF LinksKept, Above
    <3> QED BY <3>1
  <2>2. ASSUME NEW j \in submitted' PROVE Kept(j.url)'
    BY DEF CInv, KeepInv, CrawlTypeOK, Job
  <2> QED BY <2>1, <2>2 DEF KeepInv
<1> QED BY <1>1, <1>2 DEF CInv, OwnerInv

\* What stays true of slots and owners when their variables do not change.
LEMMA SameSlots ==
    ASSUME CInv, UNCHANGED <<links, maxDepth>>, NEW w \in Slots, slot'[w] = slot[w],
           taken \subseteq taken', \A u \in URLs : Kept(u) => Kept(u)'
    PROVE  SlotOK(w)'
<1> SUFFICES ASSUME slot[w] # Idle
             PROVE  /\ slot[w].job \in taken'
                    /\ slot[w].left \subseteq links[slot[w].job.url]
                    /\ LinksKept(slot[w].job, slot[w].left)'
  BY DEF SlotOK, LinksKept, Above
<1>1. /\ slot[w].job \in taken /\ slot[w].left \subseteq links[slot[w].job.url]
      /\ LinksKept(slot[w].job, slot[w].left)
  BY DEF CInv, KeepInv, SlotOK
<1>2. slot[w].job \in Job /\ links[slot[w].job.url] \subseteq URLs
  BY <1>1 DEF CInv, CrawlTypeOK, Job
<1> QED BY <1>1, <1>2 DEF LinksKept, Above

\* The invariant holds before the first crawl request.
LEMMA InitCInv == CrawlInit => CInv
<1> SUFFICES ASSUME CrawlInit PROVE CInv
  OBVIOUS
<1>1. IsABag(frontier) /\ Queued = {}
  BY EmptyFacts DEF CrawlInit, Queued
<1>2. links \in [URLs -> SUBSET URLs] /\ maxDepth \in Int
  BY SiteAssumption DEF CrawlInit
<1>3. CrawlTypeOK
  BY <1>1, <1>2 DEF CrawlInit, CrawlTypeOK
<1> QED BY <1>1, <1>3 DEF CrawlInit, CInv, ReachInv, KeepInv, OwnerInv, SlotOK

\* The API writes a seed's job to the topic (EnqueueCrawlJob).
LEMMA SubmitCInv ==
    ASSUME CInv, NEW s \in Sessions, NEW u \in URLs, Submit(s, u)
    PROVE  CInv'
<1> DEFINE j == SeedJob(s, u)
<1>1. /\ UNCHANGED <<links, maxDepth, slot, visited, taken, seen, expanded, interrupted, dropped>>
      /\ frontier' = frontier (+) SetToBag({j})
      /\ submitted' = submitted \union {j}
  BY DEF Submit, siteVars, budgetVars
<1>2. j \in Job /\ j.session = s /\ j.seed = u /\ j.url = u /\ j.depth = 0
  BY DEF SeedJob, Job
<1>3. SeedJob(j.session, j.seed) = j
  BY <1>2 DEF SeedJob
<1> HIDE DEF j
<1>4. IsABag(frontier') /\ Queued' = Queued \union {j}
  BY <1>1, PutFacts DEF Queued, CInv, CrawlTypeOK
<1>5. CrawlTypeOK'
  BY <1>1, <1>2, <1>4 DEF CInv, CrawlTypeOK
<1>6. \A x \in URLs : Kept(x) => Kept(x)'
  BY <1>1, <1>4 DEF Kept
<1>7. InReach(j)'
  <2>1. Linked(u, u, 0)'
    BY <1>1, LinkedZero DEF Linked
  <2>2. maxDepth' > 0 => 0 <= maxDepth'
    BY <1>5 DEF CrawlTypeOK
  <2> QED BY <1>1, <1>2, <1>3, <2>1, <2>2 DEF InReach
<1>8. \A w \in Slots : SlotOK(w)'
  BY <1>1, <1>6, SameSlots
<1>9. \A x \in seen' : Owned(x)'
  BY <1>1 DEF CInv, OwnerInv, Owned
<1>10. Kept(j.url)'
  BY <1>4 DEF Kept
<1> QED BY <1>1, <1>4, <1>5, <1>6, <1>7, <1>8, <1>9, <1>10, FrameCInv

\* A message that was taken is delivered again.
LEMMA RedeliverCInv ==
    ASSUME CInv, NEW j \in taken, Redeliver(j)
    PROVE  CInv'
<1>1. /\ UNCHANGED <<links, maxDepth, slot, visited, submitted, taken, seen, expanded, interrupted,
                     dropped>>
      /\ frontier' = frontier (+) SetToBag({j})
  BY DEF Redeliver, siteVars, historyVars
<1>2. IsABag(frontier') /\ Queued' = Queued \union {j} /\ j \in Job
  BY <1>1, PutFacts DEF Queued, CInv, CrawlTypeOK
<1>3. CrawlTypeOK'
  BY <1>1, <1>2 DEF CInv, CrawlTypeOK
<1>4. \A x \in URLs : Kept(x) => Kept(x)'
  BY <1>1, <1>2 DEF Kept
<1>5. \A w \in Slots : SlotOK(w)'
  BY <1>1, <1>4, SameSlots
<1>6. \A x \in seen' : Owned(x)'
  BY <1>1 DEF CInv, OwnerInv, Owned
<1> QED BY <1>1, <1>2, <1>3, <1>4, <1>5, <1>6, FrameCInv

\* The TTL of a dedupe key runs out.
LEMMA ExpireCInv ==
    ASSUME CInv, NEW u \in URLs, Expire(u)
    PROVE  CInv'
<1>1. /\ UNCHANGED <<links, maxDepth, frontier, slot, submitted, taken, seen, expanded, interrupted,
                     dropped>>
      /\ visited' = visited \ {u}
  BY DEF Expire, siteVars, historyVars
<1>2. CrawlTypeOK' /\ Queued' = Queued
  BY <1>1 DEF CInv, CrawlTypeOK, Queued
<1>3. \A x \in URLs : Kept(x) => Kept(x)'
  BY <1>1, <1>2 DEF Kept
<1>4. \A w \in Slots : SlotOK(w)'
  BY <1>1, <1>3, SameSlots
<1>5. \A x \in seen' : Owned(x)'
  BY <1>1 DEF CInv, OwnerInv, Owned
<1> QED BY <1>1, <1>2, <1>3, <1>4, <1>5, FrameCInv

\* A message is taken: by a fresh job, as a duplicate, or with an error.
LEMMA DispatchCInv ==
    ASSUME CInv, NEW j \in BagToSet(frontier),
           \/ DispatchDuplicate(j)
           \/ \E w \in Slots : DispatchFresh(w, j)
           \/ \E tookEffect \in BOOLEAN : DispatchError(j, tookEffect)
    PROVE  CInv'
<1>0. j \in Queued /\ j \in Job /\ j.url \in URLs
  BY DEF Queued, CInv, CrawlTypeOK, Job
<1>1. /\ UNCHANGED <<links, maxDepth, submitted, expanded>>
      /\ frontier' = frontier (-) SetToBag({j})
      /\ taken' = taken \union {j}
  BY DEF DispatchFresh, DispatchDuplicate, DispatchError, Take, siteVars
<1>2. /\ IsABag(frontier') /\ Queued' \subseteq Queued /\ Queued \ {j} \subseteq Queued'
  BY <1>1, TakeFacts DEF Queued, CInv, CrawlTypeOK
<1>3. /\ seen \subseteq seen' /\ dropped \subseteq dropped' /\ interrupted \subseteq interrupted'
      /\ seen' \subseteq seen \union {j.url}
      /\ visited' \subseteq visited \union (seen' \intersect {j.url})
      /\ j.url \in seen' \union dropped'
  <2>1. CASE DispatchDuplicate(j)
    BY <2>1 DEF DispatchDuplicate, CInv, CrawlTypeOK
  <2>2. CASE \E w \in Slots : DispatchFresh(w, j)
    BY <2>2 DEF DispatchFresh
  <2>3. CASE \E tookEffect \in BOOLEAN : DispatchError(j, tookEffect)
    BY <2>3 DEF DispatchError
  <2> QED BY <2>1, <2>2, <2>3
<1>4. \A x \in URLs : Kept(x) => Kept(x)'
  BY <1>2, <1>3 DEF Kept
<1>5. /\ slot' \in [Slots -> {Idle} \union Work]
      /\ \A w \in Slots : SlotOK(w)'
      /\ \A x \in seen' : Owned(x)'
  <2>1. CASE slot' = slot
    <3>1. \A w \in Slots : SlotOK(w)'
      BY <1>1, <1>4, <2>1, SameSlots
    <3>2. j.url \in seen' => j.url \in seen \/ j.url \in interrupted'
      <4>1. CASE \E w \in Slots : DispatchFresh(w, j)
        <5>1. PICK w \in Slots : DispatchFresh(w, j)
          BY <4>1
        <5>2. slot[w] = Idle /\ slot' = [slot EXCEPT ![w] = [job |-> j, left |-> links[j.url]]]
          BY <5>1 DEF DispatchFresh
        <5>3. [job |-> j, left |-> links[j.url]] \in Work
          BY <1>0 DEF Work, CInv, CrawlTypeOK
        <5>4. slot'[w] = [job |-> j, left |-> links[j.url]]
          BY <5>2 DEF CInv, CrawlTypeOK
        <5> QED BY <2>1, <5>2, <5>3, <5>4, IdleAssumption DEF Work
      <4>2. CASE DispatchDuplicate(j)
        BY <4>2 DEF DispatchDuplicate
      <4>3. CASE \E tookEffect \in BOOLEAN : DispatchError(j, tookEffect)
        BY <4>3 DEF DispatchError
      <4> QED BY <4>1, <4>2, <4>3
    <3>3. \A x \in seen' : Owned(x)'
      BY <1>1, <1>3, <2>1, <3>2 DEF CInv, OwnerInv, Owned
    <3> QED BY <2>1, <3>1, <3>3 DEF CInv, CrawlTypeOK
  <2>2. ASSUME NEW w \in Slots, DispatchFresh(w, j)
        PROVE  <1>5!1 /\ <1>5!2 /\ <1>5!3
    <3> DEFINE new == [job |-> j, left |-> links[j.url]]
    <3>1. slot[w] = Idle /\ slot' = [slot EXCEPT ![w] = new]
      BY <2>2 DEF DispatchFresh
    <3>2. new \in Work /\ new.job = j /\ new.left = links[j.url] /\ new # Idle
      BY <1>0, IdleAssumption DEF Work, CInv, CrawlTypeOK
    <3> HIDE DEF new
    <3>3. /\ slot' \in [Slots -> {Idle} \union Work]
          /\ slot'[w] = new /\ \A x \in Slots : x # w => slot'[x] = slot[x]
      BY <3>1, <3>2 DEF CInv, CrawlTypeOK
    <3>4. SlotOK(w)'
      BY <1>1, <3>2, <3>3 DEF SlotOK, LinksKept
    <3>5. \A x \in Slots : SlotOK(x)'
      BY <1>1, <1>4, <3>3, <3>4, SameSlots
    <3>6. \A x \in seen : Owned(x)'
      BY <1>1, <1>3, <3>1, <3>3 DEF CInv, OwnerInv, Owned
    <3>7. Owned(j.url)'
      BY <3>2, <3>3 DEF Owned
    <3> QED BY <1>3, <3>3, <3>5, <3>6, <3>7
  <2> QED BY <2>1, <2>2 DEF DispatchDuplicate, DispatchError
<1>6. CrawlTypeOK'
  BY <1>0, <1>1, <1>2, <1>3, <1>5 DEF CInv, CrawlTypeOK
<1>7. \A k \in Queued' \union taken' : k \in Queued \union taken
  BY <1>0, <1>1, <1>2
<1> QED BY <1>1, <1>4, <1>5, <1>6, <1>7, FrameCInv

\* The job enqueueURLToFronter makes for a link is one deeper, of the same session
\* and seed.
LEMMA ChildFacts ==
    ASSUME NEW j \in Job, NEW v \in URLs
    PROVE  /\ Child(j, v) \in Job /\ Child(j, v).url = v /\ Child(j, v).depth = j.depth + 1
           /\ Child(j, v).session = j.session /\ Child(j, v).seed = j.seed
BY DEF Child, Job

\* What enqueueURLToFronter makes of the topic for a link of the job in slot w.
LEMMA EnqueueFacts ==
    ASSUME CInv, NEW w \in Slots, slot[w] # Idle, NEW v \in slot[w].left
    PROVE  LET j == slot[w].job
               f == Enqueue(j, v)
           IN  /\ IsABag(f) /\ Queued \subseteq BagToSet(f)
               /\ \A k \in BagToSet(f) : k \in Queued \/ (k \in Job /\ InReach(k))
               /\ Above(j) => \E k \in BagToSet(f) : k.url = v
<1> DEFINE j == slot[w].job
           c == Child(j, v)
           f == Enqueue(j, v)
<1>1. /\ j \in taken /\ j \in Job /\ v \in URLs /\ v \in links[j.url] /\ InReach(j)
      /\ IsABag(frontier) /\ maxDepth \in Int
  <2>1. j \in taken /\ slot[w].left \subseteq links[j.url]
    BY DEF CInv, KeepInv, SlotOK
  <2>2. j \in Job /\ InReach(j)
    BY <2>1 DEF CInv, CrawlTypeOK, ReachInv
  <2>3. links[j.url] \subseteq URLs
    BY <2>2 DEF CInv, CrawlTypeOK, Job
  <2> QED BY <2>1, <2>2, <2>3 DEF CInv, CrawlTypeOK
<1>2. j.depth \in Nat /\ (Above(j) <=> ~AtLimit(j))
  BY <1>1 DEF Job, Above, AtLimit
<1>3. f = IF AtLimit(j) THEN frontier ELSE frontier (+) SetToBag({c})
  BY DEF Enqueue
<1>4. /\ c \in Job /\ c.url = v /\ c.depth = j.depth + 1
      /\ c.session = j.session /\ c.seed = j.seed
  BY <1>1, ChildFacts
<1> HIDE DEF j, c, f
<1>5. ASSUME ~AtLimit(j) PROVE InReach(c)
  <2>1. Linked(j.seed, v, j.depth + 1)
    BY <1>1, <1>2, LinkedNext DEF InReach
  <2>2. maxDepth > 0 => j.depth + 1 <= maxDepth
    BY <1>1, <1>2, <1>5 DEF AtLimit
  <2> QED BY <1>1, <1>4, <2>1, <2>2 DEF InReach
<1>6. /\ IsABag(f) /\ Queued \subseteq BagToSet(f)
      /\ \A k \in BagToSet(f) : k \in Queued \/ (k \in Job /\ InReach(k))
      /\ Above(j) => \E k \in BagToSet(f) : k.url = v
  <2>1. CASE AtLimit(j)
    BY <1>1, <1>2, <1>3, <2>1 DEF Queued
  <2>2. CASE ~AtLimit(j)
    <3>1. f = frontier (+) SetToBag({c})
      BY <1>3, <2>2
    <3>2. IsABag(f) /\ BagToSet(f) = Queued \union {c}
      BY <1>1, <3>1, PutFacts DEF Queued
    <3> QED BY <1>4, <1>5, <2>2, <3>2
  <2> QED BY <2>1, <2>2
<1> QED BY <1>6 DEF f, j

\* The next link of a page is published.
LEMMA PublishLinkCInv ==
    ASSUME CInv, NEW w \in Slots, NEW v \in URLs, PublishLink(w, v)
    PROVE  CInv'
<1> DEFINE j == slot[w].job
<1>1. /\ UNCHANGED <<links, maxDepth, visited, submitted, taken, seen, expanded, interrupted,
                     dropped>>
      /\ slot[w] # Idle /\ v \in slot[w].left
      /\ frontier' = Enqueue(j, v)
      /\ slot' = [slot EXCEPT ![w].left = @ \ {v}]
  BY DEF PublishLink, siteVars, historyVars
<1>2. /\ IsABag(frontier') /\ Queued \subseteq Queued'
      /\ \A k \in Queued' : k \in Queued \/ (k \in Job /\ InReach(k))
      /\ Above(j) => \E k \in Queued' : k.url = v
  BY <1>1, EnqueueFacts DEF Queued
<1>3. slot[w] \in Work /\ slot \in [Slots -> {Idle} \union Work]
  BY <1>1 DEF CInv, CrawlTypeOK
<1>4. /\ slot' \in [Slots -> {Idle} \union Work]
      /\ slot'[w].job = j /\ slot'[w].left = slot[w].left \ {v}
      /\ \A x \in Slots : x # w => slot'[x] = slot[x]
      /\ slot'[w] \in Work
  BY <1>1, <1>3 DEF Work
<1>5. CrawlTypeOK'
  BY <1>1, <1>2, <1>4 DEF CInv, CrawlTypeOK
<1>6. \A x \in URLs : Kept(x) => Kept(x)'
  BY <1>1, <1>2 DEF Kept
<1>7. SlotOK(w)'
  <2>1. j \in taken /\ slot[w].left \subseteq links[j.url] /\ LinksKept(j, slot[w].left)
    BY <1>1 DEF CInv, KeepInv, SlotOK
  <2>2. links[j.url] \subseteq URLs
    BY <2>1 DEF CInv, CrawlTypeOK, Job
  <2>3. Above(j) => Kept(v)'
    BY <1>2 DEF Kept
  <2>4. \A u \in links[j.url] \ (slot[w].left \ {v}) : Above(j) => Kept(u)'
    BY <1>1, <1>6, <2>1, <2>2, <2>3 DEF LinksKept
  <2>5. Above(slot[w].job)' => Above(j)
    BY <1>1, <1>4 DEF Above
  <2> QED BY <1>1, <1>4, <2>1, <2>4, <2>5 DEF SlotOK, LinksKept
<1>8. \A x \in Slots : SlotOK(x)'
  BY <1>1, <1>4, <1>6, <1>7, SameSlots
<1>9. \A x \in seen' : Owned(x)'
  <2>1. slot'[w] # Idle
    BY <1>4, IdleAssumption DEF Work
  <2> QED BY <1>1, <1>4, <2>1 DEF CInv, OwnerInv, Owned
<1>10. \A k \in Queued' \union taken' : k \in Queued \union taken \/ InReach(k)'
  BY <1>1, <1>2 DEF InReach, Linked
<1> QED BY <1>1, <1>5, <1>6, <1>8, <1>9, <1>10, FrameCInv

\* The job in slot w is over: finished, or interrupted with or without one more
\* link stored.
LEMMA FreeCInv ==
    ASSUME CInv, NEW w \in Slots,
           \/ HandleFails(w) \/ Crash(w) \/ Finish(w)
           \/ \E v \in URLs, stored \in BOOLEAN : PublishFails(w, v, stored)
    PROVE  CInv'
<1> DEFINE j == slot[w].job
<1>1. /\ UNCHANGED <<links, maxDepth, visited, submitted, taken, seen, dropped>>
      /\ slot[w] # Idle /\ slot' = [slot EXCEPT ![w] = Idle]
      /\ \/ slot[w].left = {} /\ expanded' = expanded \union {j} /\ interrupted' = interrupted
         \/ expanded' = expanded /\ interrupted' = interrupted \union {j.url}
  BY DEF HandleFails, Crash, Finish, PublishFails, Free, siteVars, historyVars
<1>2. /\ IsABag(frontier') /\ Queued \subseteq Queued'
      /\ \A k \in Queued' : k \in Queued \/ (k \in Job /\ InReach(k))
  <2>1. CASE frontier' = frontier
    BY <2>1 DEF Queued, CInv, CrawlTypeOK
  <2>2. CASE \E v \in slot[w].left : frontier' = Enqueue(j, v)
    BY <1>1, <2>2, EnqueueFacts DEF Queued
  <2> QED BY <2>1, <2>2 DEF HandleFails, Crash, Finish, PublishFails
<1>3. /\ j \in taken /\ j \in Job /\ LinksKept(j, slot[w].left) /\ links[j.url] \subseteq URLs
  <2>1. j \in taken /\ LinksKept(j, slot[w].left)
    BY <1>1 DEF CInv, KeepInv, SlotOK
  <2> QED BY <2>1 DEF CInv, CrawlTypeOK, Job
<1>4. /\ slot' \in [Slots -> {Idle} \union Work]
      /\ slot'[w] = Idle /\ \A x \in Slots : x # w => slot'[x] = slot[x]
  BY <1>1 DEF CInv, CrawlTypeOK
<1> HIDE DEF j
<1>5. CrawlTypeOK'
  BY <1>1, <1>2, <1>3, <1>4 DEF CInv, CrawlTypeOK
<1>6. \A x \in URLs : Kept(x) => Kept(x)'
  BY <1>1, <1>2 DEF Kept
<1>7. \A x \in Slots : SlotOK(x)'
  <2>1. SlotOK(w)'
    BY <1>4 DEF SlotOK
  <2> QED BY <1>1, <1>4, <1>6, <2>1, SameSlots
<1>8. \A k \in expanded' : k \in expanded \/ LinksKept(k, {})'
  BY <1>1, <1>3, <1>6 DEF LinksKept, Above
<1>9. \A x \in seen' : Owned(x)'
  <2> SUFFICES ASSUME NEW x \in seen PROVE Owned(x)'
    BY <1>1
  <2>1. Owned(x)
    BY DEF CInv, OwnerInv
  <2>2. CASE \E k \in expanded : k.url = x
    BY <1>1, <2>2 DEF Owned
  <2>3. CASE x \in interrupted
    BY <1>1, <2>3 DEF Owned
  <2>4. ASSUME NEW y \in Slots, slot[y] # Idle, slot[y].job.url = x PROVE Owned(x)'
    <3>1. CASE y = w
      <4>1. x = j.url
        BY <2>4, <3>1 DEF j
      <4> QED BY <1>1, <4>1 DEF Owned
    <3>2. CASE y # w
      BY <1>4, <2>4, <3>2 DEF Owned
    <3> QED BY <3>1, <3>2
  <2> QED BY <2>1, <2>2, <2>3, <2>4 DEF Owned
<1>10. \A k \in Queued' \union taken' : k \in Queued \union taken \/ InReach(k)'
  BY <1>1, <1>2 DEF InReach, Linked
<1> QED BY <1>1, <1>5, <1>6, <1>7, <1>8, <1>9, <1>10, FrameCInv

\* Every step of the crawl preserves the invariant.
LEMMA StepCInv ==
    ASSUME CInv, [CrawlNext]_crawlVars
    PROVE  CInv'
<1>1. CASE \E s \in Sessions, u \in URLs : Submit(s, u)
  BY <1>1, SubmitCInv
<1>2. CASE WorkerStep
  BY <1>2, DispatchCInv, FreeCInv, PublishLinkCInv DEF WorkerStep
<1>3. CASE Failure
  BY <1>3, DispatchCInv, FreeCInv, RedeliverCInv, ExpireCInv DEF Failure
<1>4. CASE UNCHANGED crawlVars
  <2>1. UNCHANGED <<links, maxDepth, frontier, slot, visited, submitted, taken, seen, expanded,
                    interrupted, dropped>>
    BY <1>4 DEF crawlVars, siteVars, historyVars
  <2>2. Queued' = Queued /\ CrawlTypeOK'
    BY <2>1 DEF Queued, CInv, CrawlTypeOK
  <2>3. \A x \in URLs : Kept(x) => Kept(x)'
    BY <2>1, <2>2 DEF Kept
  <2>4. \A w \in Slots : SlotOK(w)'
    BY <2>1, <2>3, SameSlots
  <2>5. \A x \in seen' : Owned(x)'
    BY <2>1 DEF CInv, OwnerInv, Owned
  <2> QED BY <2>1, <2>2, <2>3, <2>4, <2>5, FrameCInv
<1> QED BY <1>1, <1>2, <1>3, <1>4 DEF CrawlNext

--------------------------------------------------------------------------------
(* The theorems.                                                           *)

\* CInv is an invariant of the crawl.
THEOREM CrawlInvariant == CrawlSpec => []CInv
<1>1. CInv /\ [CrawlNext]_crawlVars => CInv'
  BY StepCInv
<1> QED BY InitCInv, <1>1, PTL DEF CrawlSpec

\* Every job in the frontier, and every job ever taken from it, descends from a
\* crawl request over as many links as its depth says and no more than
\* MAX_DEPTH (enqueueURLToFronter).
THEOREM CrawlReach == CrawlSpec => []JobsAreWithinReach
<1>1. CInv => JobsAreWithinReach
  BY DEF CInv, ReachInv, InReach, Queued, JobsAreWithinReach
<1> QED BY CrawlInvariant, <1>1, PTL

\* A finished job above the depth limit leaves none of its links behind
\* (processJobAsync, enqueueURLToFronter).
THEOREM CrawlLinks == CrawlSpec => []LinksAreKept
<1>1. CInv => LinksAreKept
  <2> SUFFICES ASSUME CInv, NEW j \in expanded, maxDepth <= 0 \/ j.depth < maxDepth,
                      NEW u \in links[j.url]
               PROVE  u \in seen \union {k.url : k \in BagToSet(frontier)} \union dropped
    BY DEF LinksAreKept
  <2>1. Kept(u)
    BY DEF CInv, KeepInv, LinksKept, Above
  <2> QED BY <2>1 DEF Kept, Queued
<1> QED BY CrawlInvariant, <1>1, PTL

\* At rest and undisturbed, a kept page was expanded.
LEMMA RestExpands ==
    ASSUME CInv, Quiet, interrupted \union dropped = {}, NEW u, Kept(u)
    PROVE  \E j \in expanded : j.url = u
<1>1. Queued = {}
  BY EmptyFacts DEF Quiet, Queued
<1>2. u \in seen /\ Owned(u)
  BY <1>1 DEF Kept, CInv, OwnerInv
<1> QED BY <1>2 DEF Owned, Quiet

\* Then every page of a chain that begins at a seed was expanded.
LEMMA RestFollowsChain ==
    ASSUME CInv, Quiet, maxDepth <= 0, interrupted \union dropped = {},
           NEW s \in submitted, NEW d \in Nat, NEW chain \in [0..d -> URLs],
           chain[0] = s.url,
           \A i \in 1..d : chain[i] \in links[chain[i - 1]]
    PROVE  \E j \in expanded : j.url = chain[d]
<1> DEFINE T == {i \in 0..d : ~ \E j \in expanded : j.url = chain[i]}
<1>1. CASE T = {}
  BY <1>1
<1>2. CASE T # {}
  <2>1. T \subseteq Nat
    OBVIOUS
  <2>2. PICK i \in T : \A k \in T : i <= k
    BY <1>2, <2>1, LeastElement
  <2>3. i # 0
    <3>1. Kept(s.url)
      BY DEF CInv, KeepInv
    <3> QED BY <3>1, <2>2, RestExpands
  <2>4. i \in 1..d /\ i - 1 \in 0..d /\ i - 1 < i
    BY <2>2, <2>3
  <2>5. i - 1 \notin T
    BY <2>2, <2>4
  <2>6. PICK j \in expanded : j.url = chain[i - 1]
    BY <2>4, <2>5
  <2>7. LinksKept(j, {}) /\ Above(j)
    BY DEF CInv, KeepInv, Above
  <2>8. Kept(chain[i])
    BY <2>4, <2>6, <2>7 DEF LinksKept
  <2>9. \E k \in expanded : k.url = chain[i]
    BY <2>8, RestExpands
  <2> QED BY <2>2, <2>9
<1> QED BY <1>1, <1>2

\* When an undisturbed crawl without a depth limit comes to rest, the pages
\* expanded are exactly those that links lead to from the seeds.
THEOREM CrawlComplete == CrawlSpec => []RestMeansComplete
<1>1. CInv => RestMeansComplete
  <2> DEFINE Reachable == {u \in URLs : \E j \in submitted : \E d \in 0..Cardinality(URLs) :
                                           Linked(j.url, u, d)}
  <2> SUFFICES ASSUME CInv, Quiet, maxDepth <= 0, interrupted \union dropped = {}
               PROVE  {j.url : j \in expanded} = Reachable
    BY DEF RestMeansComplete
  <2>1. ASSUME NEW j \in expanded PROVE j.url \in Reachable
    <3>1. j \in Job /\ InReach(j)
      BY DEF CInv, CrawlTypeOK, ReachInv
    <3>2. j.url \in URLs /\ j.depth \in Nat /\ Linked(j.seed, j.url, j.depth)
      BY <3>1 DEF InReach, Job
    <3>3. PICK e \in 0..Cardinality(URLs) : Linked(j.seed, j.url, e)
      BY <3>2, LinkedBounded
    <3>4. SeedJob(j.session, j.seed) \in submitted /\ SeedJob(j.session, j.seed).url = j.seed
      BY <3>1 DEF InReach, SeedJob
    <3>5. \E k \in submitted : k.url = j.seed
      BY <3>4
    <3> QED BY <3>2, <3>3, <3>5
  <2>2. ASSUME NEW u \in Reachable PROVE u \in {j.url : j \in expanded}
    <3>1. PICK s \in submitted, d \in 0..Cardinality(URLs) : Linked(s.url, u, d)
      OBVIOUS
    <3>2. d \in Nat
      BY URLAssumption, FS_CardinalityType
    <3>3. PICK chain \in [0..d -> URLs] :
            chain[0] = s.url /\ chain[d] = u /\ \A i \in 1..d : chain[i] \in links[chain[i - 1]]
      BY <3>1 DEF Linked
    <3>4. \E j \in expanded : j.url = chain[d]
      BY <3>2, <3>3, RestFollowsChain
    <3> QED BY <3>3, <3>4
  <2> QED BY <2>1, <2>2
<1> QED BY CrawlInvariant, <1>1, PTL

\* Whatever the depth limit, an undisturbed crawl at rest has crawled the page of
\* every seed and all that was linked to above the limit.
THEOREM CrawlClosed == CrawlSpec => []LimitedRestIsClosed
<1>1. CInv => LimitedRestIsClosed
  <2> SUFFICES ASSUME CInv, Quiet, interrupted \union dropped = {}
               PROVE  /\ \A j \in submitted : \E k \in expanded : k.url = j.url
                      /\ \A j \in expanded : (maxDepth <= 0 \/ j.depth < maxDepth) =>
                            \A u \in links[j.url] : \E k \in expanded : k.url = u
    BY DEF LimitedRestIsClosed
  <2>1. ASSUME NEW j \in submitted PROVE \E k \in expanded : k.url = j.url
    <3>1. Kept(j.url)
      BY DEF CInv, KeepInv
    <3> QED BY <3>1, RestExpands
  <2>2. ASSUME NEW j \in expanded, maxDepth <= 0 \/ j.depth < maxDepth, NEW u \in links[j.url]
        PROVE  \E k \in expanded : k.url = u
    <3>1. Kept(u)
      BY <2>2 DEF CInv, KeepInv, LinksKept, Above
    <3> QED BY <3>1, RestExpands
  <2> QED BY <2>1, <2>2
<1> QED BY CrawlInvariant, <1>1, PTL

================================================================================
