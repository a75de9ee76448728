--------------------------- MODULE WorkerProcessProofs ---------------------------
(***************************************************************************)
(* Proofs about a worker process: that it comes up with usable limits and  *)
(* a proxy of its pool for every environment, and that its responses to    *)
(* scrapes are histograms for any number of observers, observations,       *)
(* scrapes and buckets.                                                    *)
(***************************************************************************)
EXTENDS WorkerProcess, FiniteSetTheorems, WellFoundedInduction, TLAPS

--------------------------------------------------------------------------------
(* Numbers.                                                                *)

\* A set of natural numbers has a least one: < is well-founded.
LEMMA HasLeast ==
    ASSUME NEW S, S \subseteq Nat, S # {}
    PROVE  \E n \in S : \A m \in S : n <= m
<1> DEFINE Less == OpToRel(<, Nat)
<1>1. \A m, n \in Nat : m < n => <<m, n>> \in Less
  BY DEF OpToRel
<1>2. IsWellFoundedOn(Less, Nat)
  BY NatLessThanWellFounded
<1> HIDE DEF Less
<1>3. PICK n \in S : \A m \in S : <<m, n>> \notin Less
  BY <1>2, WFMin
<1>4. \A m \in S : m \in Nat /\ n \in Nat /\ ~(m < n)
  BY <1>1, <1>3
<1> QED BY <1>4

\* f[k] is what n steps F from base on have come to after k of them.
IsRun(f, n, S, base, F) ==
    f \in [0..n -> S] /\ f[0] = base /\ \A k \in 1..n : f[k] = F[k][f[k - 1]]

\* Steps can be taken one after the other: this is what makes a recursive function
\* over the numbers up to n well-defined.
LEMMA Iteration ==
    ASSUME NEW n \in Nat, NEW S, NEW base \in S, NEW F \in [1..n -> [S -> S]]
    PROVE  \E f : IsRun(f, n, S, base, F)
<1> USE DEF IsRun
<1> DEFINE Run(m) == \E f \in [0..m -> S] :
                      f[0] = base /\ \A k \in 1..m : f[k] = F[k][f[k - 1]]
           Stuck == {m \in 0..n : ~Run(m)}
<1>1. SUFFICES ASSUME Stuck # {} PROVE FALSE
  <2>1. n \in 0..n
    OBVIOUS
  <2> QED BY <1>1, <2>1
<1>2. PICK m \in Stuck : \A k \in Stuck : m <= k
  <2>1. Stuck \subseteq Nat
    OBVIOUS
  <2> HIDE DEF Stuck
  <2> QED BY <1>1, <2>1, HasLeast
<1>3. m \in 0..n /\ ~Run(m)
  BY <1>2
<1>4. CASE m = 0
  <2> DEFINE f == [k \in 0..0 |-> base]
  <2>1. f \in [0..0 -> S] /\ f[0] = base /\ \A k \in 1..0 : f[k] = F[k][f[k - 1]]
    OBVIOUS
  <2>2. Run(0)
    BY <2>1
  <2> QED BY <1>3, <1>4, <2>2
<1>5. CASE m # 0
  <2>1. m - 1 \in 0..n /\ m \in 1..n /\ ~(m <= m - 1)
    BY <1>3, <1>5
  <2>2. Run(m - 1)
    BY <1>2, <2>1
  <2>3. PICK g \in [0..(m - 1) -> S] : g[0] = base /\ \A k \in 1..(m - 1) : g[k] = F[k][g[k - 1]]
    BY <2>2
  <2> DEFINE f == [k \in 0..m |-> IF k = m THEN F[m][g[m - 1]] ELSE g[k]]
  <2>4. f \in [0..m -> S]
    <3>1. ASSUME NEW k \in 0..m PROVE f[k] \in S
      <4>1. CASE k = m
        <5>1. g[m - 1] \in S /\ F[m] \in [S -> S]
          BY <2>1, <2>3
        <5> QED BY <4>1, <5>1
      <4>2. CASE k # m
        <5>1. k \in 0..(m - 1)
          BY <2>1, <4>2
        <5> QED BY <4>2, <5>1
      <4> QED BY <4>1, <4>2
    <3> QED BY <3>1
  <2>5. f[0] = base
    BY <2>1, <2>3
  <2>6. ASSUME NEW k \in 1..m PROVE f[k] = F[k][f[k - 1]]
    <3>1. k - 1 \in 0..m /\ k \in 0..m /\ k - 1 # m
      BY <2>1
    <3>2. f[k - 1] = g[k - 1]
      BY <3>1
    <3>3. CASE k = m
      BY <3>1, <3>2, <3>3
    <3>4. CASE k # m
      <4>1. k \in 1..(m - 1)
        BY <2>1, <3>4
      <4>2. f[k] = g[k]
        BY <3>1, <3>4
      <4> QED BY <2>3, <3>2, <4>1, <4>2
    <3> QED BY <3>3, <3>4
  <2> HIDE DEF f
  <2>7. Run(m)
    BY <2>4, <2>5, <2>6
  <2> QED BY <1>3, <2>7
<1> QED BY <1>4, <1>5

\* Remainders of numbers below twice the divisor.
LEMMA Remainder ==
    ASSUME NEW n \in Nat \ {0}, NEW x \in Int
    PROVE  /\ x \in 0..(n - 1) => x % n = x
           /\ x \in n..(2 * n - 1) => x % n = x - n
           /\ x % n \in 0..(n - 1)
OBVIOUS

\* In a finite set of numbers, some element has exactly r others below it.
LEMMA HasRank ==
    ASSUME NEW S, S \subseteq Nat, IsFiniteSet(S), NEW r \in 0..(Cardinality(S) - 1)
    PROVE  \E i \in S : Cardinality({j \in S : j < i}) = r
<1> DEFINE Below(i) == {j \in S : j < i}
           T == {k \in 0..r : ~ \E i \in S : Cardinality(Below(i)) = k}
<1>0. Cardinality(S) \in Nat
  BY FS_CardinalityType
<1>1. CASE T = {}
  <2>1. r \in 0..r
    BY <1>0
  <2> QED BY <1>1, <2>1
<1>2. CASE T # {}
  <2>0. T \subseteq Nat
    BY <1>0
  <2>1. PICK k \in T : \A m \in T : k <= m
    BY <1>2, <2>0, HasLeast
  <2>2. k \in 0..r /\ r < Cardinality(S)
    BY <1>0
  <2>3. CASE k = 0
    <3>1. S # {}
      BY <1>0, <2>2, FS_EmptySet
    <3>2. PICK i \in S : \A m \in S : i <= m
      BY <3>1, HasLeast
    <3>3. Below(i) = {}
      <4>1. \A m \in S : m \in Nat /\ i \in Nat /\ ~(m < i)
        BY <3>2
      <4> QED BY <4>1
    <3> QED BY <2>1, <2>3, <3>3, FS_EmptySet
  <2>4. CASE k # 0
    <3>1. k - 1 \in 0..r /\ k - 1 \notin T
      BY <2>1, <2>2, <2>4
    <3>2. PICK i \in S : Cardinality(Below(i)) = k - 1
      BY <3>1
    <3>3. IsFiniteSet(Below(i)) /\ i \notin Below(i)
      BY FS_Subset
    <3>4. Cardinality(Below(i) \union {i}) = k
      <4> HIDE DEF Below
      <4>1. Cardinality(Below(i) \union {i}) = Cardinality(Below(i)) + 1
        BY <3>3, FS_AddElement
      <4> QED BY <2>2, <3>2, <4>1
    <3>5. S \ (Below(i) \union {i}) # {}
      <4>1. SUFFICES ASSUME S \subseteq Below(i) \union {i} PROVE FALSE
        OBVIOUS
      <4>2. S = Below(i) \union {i}
        BY <4>1
      <4> HIDE DEF Below
      <4> QED BY <2>2, <3>4, <4>2
    <3>6. PICK n \in S \ (Below(i) \union {i}) : \A m \in S \ (Below(i) \union {i}) : n <= m
      BY <3>5, HasLeast
    <3>7. Below(n) = Below(i) \union {i}
      <4>1. \A x \in S : x \in Nat /\ n \in Nat /\ i \in Nat /\ n # i /\ ~(n < i)
        BY <3>6
      <4>2. \A x \in S : x < n <=> x < i \/ x = i
        BY <3>6, <4>1
      <4> QED BY <4>2
    <3> QED BY <2>1, <3>4, <3>6, <3>7
  <2> QED BY <2>3, <2>4
<1> QED BY <1>1, <1>2

--------------------------------------------------------------------------------
(* What main makes of its environment.                                     *)

\* Whatever the environment holds, main reads numbers from it.
LEMMA SettingFacts ==
    ASSUME env \in Environments
    PROVE  /\ concurrentJobs \in -(IntMax + 1)..IntMax
           /\ jobTimeout \in Int /\ publishTimeout \in Int
<1>1. \A v \in {env.jobs, env.jobTimeout, env.publishTimeout} : v.kind = "number" => v.n \in Int
  BY EnvironmentAssumption
<1>2. IntMax \in Nat /\ IntMax >= 10
  BY WidthAssumption
<1>3. concurrentJobs \in -(IntMax + 1)..IntMax
  BY <1>1, <1>2 DEF concurrentJobs, ParseInt, GetEnv, Number
<1>4. jobTimeout \in Int
  BY <1>1 DEF jobTimeout, ParseDuration, GetEnv, Number
<1>5. publishTimeout \in Int
  BY <1>1 DEF publishTimeout, ParseDuration, GetEnv, Number
<1> QED BY <1>3, <1>4, <1>5

\* make(chan) is given a size it can grant only where doubling does not wrap
\* around, or wraps all the way.
LEMMA ChannelFacts ==
    ASSUME env \in Environments, ChannelSize \in 0..MaxChan
    PROVE  \/ concurrentJobs >= 0 /\ ChannelSize = 2 * concurrentJobs
           \/ 2 * concurrentJobs < -(IntMax + 1)
<1> DEFINE n == concurrentJobs
           m == IntMax + 1
<1>1. n \in -m..(m - 1) /\ m \in Nat \ {0} /\ IntMax \in Nat
  BY SettingFacts, WidthAssumption
<1>2. ChannelSize = ((2 * n + m) % (2 * m)) - m
  <2>1. 2 * n + IntMax + 1 = 2 * n + m
    BY <1>1
  <2> QED BY <2>1 DEF ChannelSize, Doubled
<1>3. ChannelSize >= 0
  BY WidthAssumption
<1> HIDE DEF n, m
<1> DEFINE x == 2 * n + m
           w == 2 * m
<1>4. x \in Int /\ w \in Nat \ {0}
  BY <1>1
<1>5. (x \in 0..(w - 1) => x % w = x) /\ (x \in w..(2 * w - 1) => x % w = x - w)
  <2> HIDE DEF x, w
  <2> QED BY <1>4, Remainder
<1>6. CASE 2 * n + m \in 0..(2 * m - 1)
  <2>1. (2 * n + m) % (2 * m) = 2 * n + m
    BY <1>1, <1>6, <1>5
  <2>2. ChannelSize = 2 * n
    BY <1>1, <1>2, <2>1
  <2> QED BY <1>1, <1>3, <2>2 DEF n, m
<1>7. CASE 2 * n + m \in (2 * m)..(2 * (2 * m) - 1)
  <2>1. (2 * n + m) % (2 * m) = 2 * n + m - 2 * m
    BY <1>1, <1>7, <1>5
  <2> QED BY <1>1, <1>2, <1>3, <2>1
<1>8. CASE 2 * n + m < 0
  BY <1>1, <1>8 DEF n, m
<1> QED BY <1>1, <1>6, <1>7, <1>8

\* A pool with a proxy yields one.
LEMMA PoolFacts ==
    ASSUME env \in Environments, Valid(env.pool) # {}
    PROVE  \E i \in Valid(env.pool) : selectProxyFromPool(env.pool, env.hash) = env.pool[i]
<1> DEFINE V == Valid(env.pool)
           r == Index(env.hash, Cardinality(V))
<1>1. env.pool \in Seq(STRING) /\ env.hash \in 0..HashMax /\ HashMax \in Nat
  BY EnvironmentAssumption, WidthAssumption
<1>2. V \subseteq Nat /\ V \subseteq 1..Len(env.pool) /\ Len(env.pool) \in Nat
  <2>1. DOMAIN env.pool = 1..Len(env.pool) /\ Len(env.pool) \in Nat
    BY <1>1
  <2>2. V \subseteq DOMAIN env.pool
    BY DEF Valid
  <2> HIDE DEF V
  <2>3. V \subseteq 1..Len(env.pool)
    BY <2>1, <2>2
  <2> QED BY <2>1, <2>3
<1>3. IsFiniteSet(V)
  <2>1. IsFiniteSet(1..Len(env.pool))
    BY <1>2, FS_Interval
  <2> HIDE DEF V
  <2> QED BY <1>2, <2>1, FS_Subset
<1>4. Cardinality(V) \in Nat \ {0}
  BY <1>3, FS_CardinalityType, FS_EmptySet
<1>5. AsInt(env.hash) \in Int
  BY <1>1 DEF AsInt
<1>6. r \in 0..(Cardinality(V) - 1)
  <2> DEFINE c == Cardinality(V)
             a == AsInt(env.hash)
  <2>1. r = IF a < 0 THEN (-a) % c ELSE a % c
    BY DEF Index
  <2>2. c \in Nat \ {0} /\ a \in Int /\ -a \in Int
    BY <1>4, <1>5
  <2> HIDE DEF c, a, r
  <2>3. a % c \in 0..(c - 1) /\ (-a) % c \in 0..(c - 1)
    BY <2>2, Remainder
  <2>4. r \in 0..(c - 1)
    BY <2>1, <2>3
  <2> QED BY <2>4 DEF c
<1> HIDE DEF V, r
<1>7. \E i \in V : Cardinality({j \in V : j < i}) = r
  BY <1>2, <1>3, <1>6, HasRank
<1>8. selectProxyFromPool(env.pool, env.hash) =
        env.pool[CHOOSE i \in V : Cardinality({j \in V : j < i}) = r]
  BY DEF selectProxyFromPool, V, r
<1> QED BY <1>7, <1>8 DEF V

\* The proxy buildHTTPClient is given is a text, wherever it comes from.
LEMMA ProxyFacts ==
    ASSUME env \in Environments
    PROVE  proxyURL \in STRING
<1>1. env.proxyURL \in STRING /\ env.pool \in Seq(STRING)
  BY EnvironmentAssumption
<1>2. CASE Valid(env.pool) = {}
  BY <1>1, <1>2 DEF proxyURL, selectProxyFromPool
<1>3. CASE Valid(env.pool) # {}
  <2>1. PICK i \in Valid(env.pool) : selectProxyFromPool(env.pool, env.hash) = env.pool[i]
    BY <1>3, PoolFacts
  <2>2. env.pool[i] \in STRING
    <3>1. i \in DOMAIN env.pool
      BY DEF Valid
    <3> QED BY <1>1, <3>1
  <2> QED BY <1>1, <2>1, <2>2 DEF proxyURL
<1> QED BY <1>2, <1>3

--------------------------------------------------------------------------------
(* robots.txt.                                                             *)

\* A line sets the flag or clears it.
LEMMA AfterLineType ==
    ASSUME NEW b \in BOOLEAN, NEW line
    PROVE  AfterLine(b, line) \in BOOLEAN
BY DEF AfterLine, Matches

\* The flag is clear at the start and then goes from line to line.
LEMMA FlagFacts ==
    ASSUME NEW file, Len(file) \in Nat
    PROVE  /\ InMatchingBlock(file) \in [0..Len(file) -> BOOLEAN]
           /\ ~InMatchingBlock(file)[0]
           /\ \A k \in 1..Len(file) :
                InMatchingBlock(file)[k] = AfterLine(InMatchingBlock(file)[k - 1], file[k])
<1> DEFINE n == Len(file)
           F == [k \in 1..n |-> [b \in BOOLEAN |-> AfterLine(b, file[k])]]
           Body(g) == [k \in 0..n |-> k # 0 /\ AfterLine(g[k - 1], file[k])]
<1>1. F \in [1..n -> [BOOLEAN -> BOOLEAN]]
  BY AfterLineType
<1>2. PICK f \in [0..n -> BOOLEAN] : f[0] = FALSE /\ \A k \in 1..n : f[k] = F[k][f[k - 1]]
  <2> DEFINE B == BOOLEAN
             start == FALSE
  <2>1. n \in Nat /\ start \in B /\ F \in [1..n -> [B -> B]]
    BY <1>1
  <2> HIDE DEF F, n, B, start
  <2>2. PICK f : IsRun(f, n, B, start, F)
    BY <2>1, Iteration
  <2> QED BY <2>2 DEF IsRun, B, start
<1>3. ASSUME NEW k \in 1..n PROVE f[k] = AfterLine(f[k - 1], file[k])
  <2>1. k - 1 \in 0..n
    OBVIOUS
  <2>2. f[k - 1] \in BOOLEAN /\ f[k] = F[k][f[k - 1]]
    BY <1>2, <2>1, Zenon
  <2>3. F[k] = [b \in BOOLEAN |-> AfterLine(b, file[k])]
    OBVIOUS
  <2> HIDE DEF F, n
  <2> QED BY <2>2, <2>3, Zenon
<1>4. f = Body(f)
  <2>1. ASSUME NEW k \in 0..n PROVE f[k] = (k # 0 /\ AfterLine(f[k - 1], file[k]))
    BY <1>2, <1>3
  <2> QED BY <2>1
<1>5. InMatchingBlock(file) = CHOOSE g : g = Body(g)
  BY DEF InMatchingBlock
<1>6. InMatchingBlock(file) = Body(InMatchingBlock(file))
  BY <1>4, <1>5
<1> DEFINE I == InMatchingBlock(file)
<1>7. I = [k \in 0..n |-> k # 0 /\ AfterLine(I[k - 1], file[k])]
  BY <1>6
<1> HIDE DEF I
<1>8. ASSUME NEW k \in 0..n PROVE I[k] = (k # 0 /\ AfterLine(I[k - 1], file[k]))
  BY <1>7
<1>9. ASSUME NEW k \in 0..n PROVE I[k] \in BOOLEAN
  BY <1>8
<1>10. I \in [0..n -> BOOLEAN]
  BY <1>7, <1>9
<1>11. ~I[0]
  <2>1. 0 \in 0..n
    OBVIOUS
  <2>2. I[0] = (FALSE /\ AfterLine(I[0 - 1], file[0]))
    BY <1>8, <2>1
  <2> QED BY <2>2
<1>12. ASSUME NEW k \in 1..n PROVE I[k] = AfterLine(I[k - 1], file[k])
  <2>1. k \in 0..n /\ k - 1 \in 0..n /\ k # 0
    OBVIOUS
  <2>2. AfterLine(I[k - 1], file[k]) \in BOOLEAN
    BY <1>9, <2>1, AfterLineType
  <2>3. I[k] = (TRUE /\ AfterLine(I[k - 1], file[k]))
    BY <1>8, <2>1
  <2> QED BY <2>2, <2>3
<1> QED BY <1>10, <1>11, <1>12 DEF I

\* A non-empty set of line numbers has a greatest one, and Max is it.
LEMMA HasGreatest ==
    ASSUME NEW n \in Nat, NEW S, S \subseteq 1..n, S # {}
    PROVE  Max(S) \in S /\ \A x \in S : x <= Max(S)
<1> DEFINE R == {k \in 0..n : n - k \in S}
<1>1. ASSUME NEW x \in S PROVE n - x \in R /\ x \in 1..n
  <2>1. x \in 1..n
    OBVIOUS
  <2>2. n - x \in 0..n /\ n - (n - x) = x
    BY <2>1
  <2> QED BY <2>1, <2>2
<1>2. PICK k \in R : \A m \in R : k <= m
  <2>1. R \subseteq Nat
    OBVIOUS
  <2> HIDE DEF R
  <2>2. R # {}
    BY <1>1
  <2> QED BY <2>1, <2>2, HasLeast
<1>3. n - k \in S
  BY <1>2
<1>4. ASSUME NEW y \in S PROVE n - k >= y
  <2>1. y \in 1..n /\ k <= n - y /\ k \in 0..n
    BY <1>1, <1>2
  <2> QED BY <2>1
<1>5. Max(S) = CHOOSE z \in S : \A y \in S : z >= y
  BY DEF Max
<1>6. Max(S) \in S /\ \A y \in S : Max(S) >= y
  BY <1>3, <1>4, <1>5
<1>7. Max(S) \in 1..n
  BY <1>6
<1>8. \A y \in S : y \in 1..n
  OBVIOUS
<1> QED BY <1>6, <1>7, <1>8

\* A non-empty set of line numbers has a least one, and Min is it.
LEMMA MinFacts ==
    ASSUME NEW S, S \subseteq Nat, S # {}
    PROVE  Min(S) \in S /\ \A x \in S : Min(S) <= x
<1>1. Min(S) = CHOOSE z \in S : \A y \in S : z <= y
  BY DEF Min
<1>2. \E z \in S : \A y \in S : z <= y
  BY HasLeast
<1> QED BY <1>1, <1>2

\* Between agent lines the flag stays as it is.
LEMMA FlagStays ==
    ASSUME NEW file, Len(file) \in Nat, NEW a \in 0..Len(file), NEW k \in a..Len(file),
           InMatchingBlock(file)[a], \A j \in (a + 1)..k : file[j].kind # "agent"
    PROVE  InMatchingBlock(file)[k]
<1> DEFINE I == InMatchingBlock(file)
           Bad == {m \in a..k : ~I[m]}
<1>1. I[a] /\ \A m \in 1..Len(file) : I[m] = AfterLine(I[m - 1], file[m])
  BY FlagFacts
<1> HIDE DEF I
<1>2. SUFFICES ASSUME Bad # {} PROVE FALSE
  <2>1. k \in a..k
    OBVIOUS
  <2> QED BY <1>2, <2>1 DEF I
<1>3. PICK m \in Bad : \A x \in Bad : m <= x
  <2>1. Bad \subseteq Nat
    OBVIOUS
  <2> HIDE DEF Bad
  <2> QED BY <1>2, <2>1, HasLeast
<1>4. m \in (a + 1)..k /\ ~I[m]
  BY <1>1, <1>3
<1>5. m - 1 \in a..k /\ m \in 1..Len(file) /\ ~(m <= m - 1)
  BY <1>4
<1>6. I[m - 1]
  BY <1>3, <1>5
<1>7. ~AfterLine(I[m - 1], file[m]) /\ file[m].kind # "agent"
  BY <1>1, <1>4, <1>5
<1> QED BY <1>6, <1>7 DEF AfterLine

\* A flag that is set was set by the last agent line, and that one is for us.
LEMMA FlagSetBy ==
    ASSUME NEW file, Len(file) \in Nat, NEW k \in 0..Len(file), InMatchingBlock(file)[k]
    PROVE  \E a \in 1..k : Matches(file[a]) /\ \A j \in (a + 1)..k : file[j].kind # "agent"
<1> DEFINE I == InMatchingBlock(file)
           SetBy(m) == \E a \in 1..m : Matches(file[a]) /\ \A j \in (a + 1)..m : file[j].kind # "agent"
           Bad == {m \in 0..k : I[m] /\ ~SetBy(m)}
<1>1. ~I[0] /\ \A m \in 1..Len(file) : I[m] = AfterLine(I[m - 1], file[m])
  BY FlagFacts
<1>a. I[k]
  OBVIOUS
<1> HIDE DEF I
<1>2. SUFFICES ASSUME Bad # {} PROVE FALSE
  <2>1. k \in 0..k
    OBVIOUS
  <2> QED BY <1>a, <1>2, <2>1
<1>3. PICK m \in Bad : \A x \in Bad : m <= x
  <2>1. Bad \subseteq Nat
    OBVIOUS
  <2> HIDE DEF Bad
  <2> QED BY <1>2, <2>1, HasLeast
<1>4. m \in 1..k /\ I[m] /\ ~SetBy(m)
  BY <1>1, <1>3
<1>5. m - 1 \in 0..k /\ m \in 1..Len(file) /\ ~(m <= m - 1)
  BY <1>4
<1>6. AfterLine(I[m - 1], file[m])
  BY <1>1, <1>4, <1>5
<1>7. CASE file[m].kind = "agent"
  <2>1. Matches(file[m])
    BY <1>6, <1>7 DEF AfterLine
  <2>2. \A j \in (m + 1)..m : file[j].kind # "agent"
    BY <1>4
  <2> QED BY <1>4, <2>1, <2>2
<1>8. CASE file[m].kind # "agent"
  <2>1. I[m - 1]
    BY <1>6, <1>8 DEF AfterLine
  <2>2. SetBy(m - 1)
    BY <1>3, <1>5, <2>1
  <2>3. PICK a \in 1..(m - 1) : Matches(file[a]) /\ \A j \in (a + 1)..(m - 1) : file[j].kind # "agent"
    BY <2>2
  <2>4. a \in 1..m /\ \A j \in (a + 1)..m : j = m \/ j \in (a + 1)..(m - 1)
    BY <1>4
  <2>5. SetBy(m)
    BY <1>8, <2>3, <2>4
  <2> QED BY <1>4, <2>5
<1> QED BY <1>7, <1>8

\* LastAgent is what its name says.
LEMMA AgentFacts ==
    ASSUME env.file \in Seq(Line), NEW i \in DOMAIN env.file
    PROVE  /\ \A a \in 1..(i - 1) :
                (env.file[a].kind = "agent" /\ \A j \in (a + 1)..(i - 1) : env.file[j].kind # "agent")
                => LastAgent(i) = a
           /\ LastAgent(i) # 0 =>
                /\ LastAgent(i) \in 1..(i - 1)
                /\ \A j \in (LastAgent(i) + 1)..(i - 1) : env.file[j].kind # "agent"
<1> DEFINE A == {j \in 1..(i - 1) : env.file[j].kind = "agent"}
           n == i - 1
<1>1. Len(env.file) \in Nat /\ i \in 1..Len(env.file) /\ n \in Nat
  OBVIOUS
<1>2. LastAgent(i) = IF A # {} THEN Max(A) ELSE 0
  BY DEF LastAgent, SelectLastInSubSeq
<1>3. A # {} => Max(A) \in A /\ \A x \in A : x <= Max(A)
  <2>1. A \subseteq 1..n
    OBVIOUS
  <2> HIDE DEF A, n
  <2> QED BY <1>1, <2>1, HasGreatest
<1>4. ASSUME NEW a \in 1..(i - 1), env.file[a].kind = "agent",
             \A j \in (a + 1)..(i - 1) : env.file[j].kind # "agent"
      PROVE  LastAgent(i) = a
  <2>1. a \in A
    BY <1>4
  <2>2. Max(A) \in A /\ a <= Max(A)
    BY <1>3, <2>1
  <2>3. Max(A) \notin (a + 1)..(i - 1)
    BY <1>4, <2>2
  <2>4. Max(A) \in 1..(i - 1)
    BY <2>2
  <2>5. Max(A) = a
    <3> HIDE DEF A
    <3> QED BY <1>1, <2>2, <2>3, <2>4
  <2> QED BY <1>2, <2>1, <2>5
<1>5. ASSUME LastAgent(i) # 0
      PROVE  /\ LastAgent(i) \in 1..(i - 1)
             /\ \A j \in (LastAgent(i) + 1)..(i - 1) : env.file[j].kind # "agent"
  <2>1. A # {} /\ LastAgent(i) = Max(A)
    BY <1>2, <1>5
  <2>2. LastAgent(i) \in A /\ \A x \in A : x <= LastAgent(i)
    BY <1>3, <2>1
  <2>3. LastAgent(i) \in 1..(i - 1)
    BY <2>2
  <2>4. ASSUME NEW j \in (LastAgent(i) + 1)..(i - 1) PROVE env.file[j].kind # "agent"
    <3>1. j \in 1..(i - 1) /\ ~(j <= LastAgent(i))
      BY <1>1, <2>3
    <3> QED BY <2>2, <3>1
  <2> QED BY <2>3, <2>4
<1> QED BY <1>4, <1>5

\* The first of some places of a text is a place of it, or 0 if there are none.
LEMMA FirstPlace ==
    ASSUME NEW n \in Nat, NEW Q, Q \subseteq 1..n, NEW k, k = IF Q # {} THEN Min(Q) ELSE 0
    PROVE  k \in 0..n
<1>1. Q \subseteq Nat
  OBVIOUS
<1>2. Q # {} => Min(Q) \in Q
  BY <1>1, MinFacts
<1>3. k \in 1..n \/ k = 0
  BY <1>2
<1>4. 0 \in 0..n /\ \A i \in 1..n : i \in 0..n
  OBVIOUS
<1> QED BY <1>3, <1>4, Zenon

\* A part of a text is a text.
LEMMA PartFacts ==
    ASSUME NEW S, NEW t \in Seq(S), NEW a \in Nat \ {0}, NEW b \in Int, b <= Len(t)
    PROVE  SubSeq(t, a, b) \in Seq(S)
<1>1. ASSUME NEW i \in a..b PROVE t[i] \in S
  BY <1>1
<1> QED BY <1>1

\* Allowed asks for the path that PathFromURL found, or the root.
LEMMA PathFacts ==
    ASSUME NEW u \in Seq(STRING)
    PROVE  normalizePath(PathFromURL(u)) = PathAsked(u)
<1>1. ASSUME NEW p \in Seq(STRING)
      PROVE  normalizePath(p) # <<>> /\ Head(normalizePath(p)) = "/"
  BY DEF normalizePath
<1>2. CASE PathFromURL(u) = <<>>
  BY <1>2 DEF normalizePath, PathAsked
<1>3. CASE PathFromURL(u) # <<>>
  <2> DEFINE query == SelectInSeq(u, LAMBDA c : c = "?")
             bare == IF query = 0 THEN u ELSE SubSeq(u, 1, query - 1)
             slash == SelectInSeq(bare, LAMBDA c : c = "/")
             path == IF slash = 0 THEN <<>> ELSE SubSeq(bare, slash, Len(bare))
  <2>1. PathFromURL(u) = normalizePath(path)
    BY <1>3 DEF PathFromURL
  <2>2. query \in 0..Len(u)
    <3> DEFINE Q == {i \in 1..Len(u) : u[i] = "?"}
    <3>1. query = IF Q # {} THEN Min(Q) ELSE 0
      BY DEF SelectInSeq
    <3>2. Len(u) \in Nat /\ Q \subseteq 1..Len(u)
      OBVIOUS
    <3> HIDE DEF query, Q
    <3> QED BY <3>1, <3>2, FirstPlace
  <2>3. bare \in Seq(STRING)
    <3> HIDE DEF query
    <3>1. query # 0 => 1 \in Nat \ {0} /\ query - 1 \in Int /\ query - 1 <= Len(u)
      BY <2>2
    <3>2. query # 0 => SubSeq(u, 1, query - 1) \in Seq(STRING)
      BY <3>1, PartFacts
    <3>3. bare = u \/ (query # 0 /\ bare = SubSeq(u, 1, query - 1))
      OBVIOUS
    <3> HIDE DEF bare
    <3> QED BY <3>2, <3>3, Zenon
  <2> HIDE DEF bare
  <2>4. Len(bare) \in Nat
    BY <2>3
  <2>5. slash \in 0..Len(bare)
    <3> DEFINE Q == {i \in 1..Len(bare) : bare[i] = "/"}
    <3>1. slash = IF Q # {} THEN Min(Q) ELSE 0
      BY DEF SelectInSeq
    <3>2. Q \subseteq 1..Len(bare)
      OBVIOUS
    <3> HIDE DEF slash, Q
    <3> QED BY <2>4, <3>1, <3>2, FirstPlace
  <2> HIDE DEF slash
  <2>6. path \in Seq(STRING)
    <3>1. slash # 0 => slash \in Nat \ {0} /\ Len(bare) \in Int /\ Len(bare) <= Len(bare)
      BY <2>4, <2>5
    <3>2. slash # 0 => SubSeq(bare, slash, Len(bare)) \in Seq(STRING)
      BY <2>3, <3>1, PartFacts
    <3>3. path = <<>> \/ (slash # 0 /\ path = SubSeq(bare, slash, Len(bare)))
      OBVIOUS
    <3>4. <<>> \in Seq(STRING)
      OBVIOUS
    <3> HIDE DEF path
    <3> QED BY <3>2, <3>3, <3>4, Zenon
  <2> HIDE DEF path
  <2>7. Head(PathFromURL(u)) = "/"
    BY <1>1, <2>1, <2>6
  <2> QED BY <1>3, <2>7 DEF normalizePath, PathAsked
<1> QED BY <1>2, <1>3

--------------------------------------------------------------------------------
(* The start.                                                              *)

StartTypeOK ==
    /\ env \in Environments
    /\ pc \in {"metrics", "channel", "client", "label", "robots", "worker", "running", "panicked"}

\* What main has settled by the time it is at pc.
SettledInv ==
    /\ pc \in {"metrics", "channel", "client", "label", "panicked"} => label = ""
    /\ pc \in {"client", "label", "robots", "worker", "running"} =>
           capacity = ChannelSize /\ ChannelSize \in 0..MaxChan
    /\ pc \in {"robots", "worker", "running"} =>
           label = proxyURL /\ proxy = (IF proxyURL \in BadURLs THEN "" ELSE proxyURL)
    /\ pc = "running" => limits = Clamped
    /\ rules \in {NoRules, ParseRobots(env.file)}

StartInv == StartTypeOK /\ SettledInv

\* The environment does not change, nor does what is computed from it.
LEMMA SameSettings ==
    ASSUME env' = env
    PROVE  /\ proxyURL' = proxyURL /\ ChannelSize' = ChannelSize /\ Clamped' = Clamped
           /\ concurrentJobs' = concurrentJobs
<1>1. concurrentJobs' = concurrentJobs /\ jobTimeout' = jobTimeout /\ publishTimeout' = publishTimeout
  BY DEF concurrentJobs, jobTimeout, publishTimeout
<1>2. ChannelSize' = ChannelSize /\ Clamped' = Clamped
  BY <1>1 DEF ChannelSize, Clamped
<1>3. proxyURL' = proxyURL
  BY DEF proxyURL, selectProxyFromPool, Index, AsInt
<1> QED BY <1>1, <1>2, <1>3

\* The invariant holds when main starts.
LEMMA InitStartInv == Init => StartInv
BY DEF Init, StartInit, StartInv, StartTypeOK, SettledInv

\* Every step of the process preserves it.
LEMMA StepStartInv ==
    ASSUME StartInv, [Next]_vars
    PROVE  StartInv'
<1>1. CASE UNCHANGED startVars
  BY <1>1, SameSettings DEF startVars, StartInv, StartTypeOK, SettledInv
<1>2. CASE StartMetricsServer
  BY <1>2, SameSettings DEF StartMetricsServer, StartInv, StartTypeOK, SettledInv
<1>3. CASE MakeCommitChannel
  BY <1>3, SameSettings DEF MakeCommitChannel, StartInv, StartTypeOK, SettledInv
<1>4. CASE BeginLabel
  BY <1>4, SameSettings DEF BeginLabel, StartInv, StartTypeOK, SettledInv
<1>5. CASE BuildHTTPClient
  BY <1>5, SameSettings DEF BuildHTTPClient, StartInv, StartTypeOK, SettledInv
<1>6. CASE RobotsLoaded \/ RobotsFail
  BY <1>6, SameSettings DEF RobotsLoaded, RobotsFail, StartInv, StartTypeOK, SettledInv
<1>7. CASE NewWorker
  BY <1>7, SameSettings DEF NewWorker, StartInv, StartTypeOK, SettledInv
<1> QED BY <1>1, <1>2, <1>3, <1>4, <1>5, <1>6, <1>7
        DEF Next, Starting, MainStep, Serving, Working, vars

\* StartInv is an invariant of the process.
THEOREM StartInvariant == Spec => []StartInv
<1>1. StartInv /\ [Next]_vars => StartInv'
  BY StepStartInv
<1> QED BY InitStartInv, <1>1, PTL DEF Spec

\* For every setting of CONCURRENT_JOBS, JOB_TIMEOUT and PUBLISH_TIMEOUT and every
\* width of an int: a worker that comes up has slots, room in its commit channel
\* and time for both phases of a job (main, newWorker).
THEOREM StartLimits == Spec => []LimitsAreUsable
<1>1. StartInv => LimitsAreUsable
  <2> SUFFICES ASSUME StartInv, Running PROVE LimitsAreUsable!2
    BY DEF LimitsAreUsable
  <2>1. /\ env \in Environments /\ capacity = ChannelSize /\ ChannelSize \in 0..MaxChan
        /\ limits = Clamped
    BY DEF StartInv, StartTypeOK, SettledInv, Running
  <2>2. concurrentJobs \in Int /\ jobTimeout \in Int /\ publishTimeout \in Int /\ IntMax \in Nat
    BY <2>1, SettingFacts, WidthAssumption
  <2>3. limits.slots = IF concurrentJobs < 1 THEN 1 ELSE concurrentJobs
    BY <2>1 DEF Clamped
  <2>4. \/ capacity = 2 * limits.slots
        \/ concurrentJobs = 0 /\ capacity = 0
        \/ 2 * concurrentJobs < -(IntMax + 1)
    BY <2>1, <2>2, <2>3, ChannelFacts
  <2>5. limits.job > 0 /\ limits.publish > 0 /\ (limits.job > 30 => limits.publish < limits.job)
    BY <2>1, <2>2 DEF Clamped, CappedPublish
  <2> QED BY <2>2, <2>3, <2>4, <2>5
<1> QED BY StartInvariant, <1>1, PTL

\* selectProxyFromPool gives every hostname an entry of the pool that is not
\* empty, where an int has the width of the hash and where it is wider.
THEOREM StartProxy == Spec => []ProxyIsFromPool
<1>1. StartInv => ProxyIsFromPool
  <2> SUFFICES ASSUME StartInv, Running, env.proxyURL = "",
                      NEW i \in DOMAIN env.pool, env.pool[i] # ""
               PROVE  \E j \in DOMAIN env.pool : label = env.pool[j] /\ label # ""
    BY DEF ProxyIsFromPool
  <2>1. env \in Environments /\ label = selectProxyFromPool(env.pool, env.hash)
    BY DEF StartInv, StartTypeOK, SettledInv, Running, proxyURL
  <2>2. i \in Valid(env.pool)
    BY DEF Valid
  <2>3. PICK j \in Valid(env.pool) : label = env.pool[j]
    BY <2>1, <2>2, PoolFacts
  <2> QED BY <2>3 DEF Valid
<1> QED BY StartInvariant, <1>1, PTL

\* A worker with rules refuses what a Disallow line forbids that the scanner came
\* to with the flag set, and nothing else.
LEMMA RulesFacts ==
    ASSUME StartInv, rules # NoRules, NEW u \in env.pages
    PROVE  /\ env.file \in Seq(Line) /\ Len(env.file) \in Nat /\ DOMAIN env.file = 1..Len(env.file)
           /\ ~Permitted(u) <=>
                \E i \in Scanned(env.file) : Forbids(i, u) /\ InMatchingBlock(env.file)[i - 1]
<1>1. env.file \in Seq(Line) /\ u \in Seq(STRING) /\ rules = ParseRobots(env.file)
  BY EnvironmentAssumption DEF StartInv, StartTypeOK, SettledInv
<1>2. Len(env.file) \in Nat /\ DOMAIN env.file = 1..Len(env.file)
  BY <1>1
<1>3. ~Permitted(u) <=> \E prefix \in rules : IsPrefix(prefix, PathAsked(u))
  BY <1>1, PathFacts DEF Permitted, Allowed
<1>4. (\E prefix \in rules : IsPrefix(prefix, PathAsked(u))) <=>
        \E i \in Scanned(env.file) : Forbids(i, u) /\ InMatchingBlock(env.file)[i - 1]
  BY <1>1 DEF ParseRobots, Forbids
<1> QED BY <1>1, <1>2, <1>3, <1>4

\* For every robots.txt: handleJob refuses what a block for us forbids, unless the
\* block follows right after another one for us or the scanner gave up before it
\* (ParseRobots, Allowed).  The flag is clear before the block's agent line, for
\* whoever sets it is the last agent line, and that one is not for us.
THEOREM RobotsObeyed == Spec => []OurBlocksAreObeyed
<1>1. StartInv => OurBlocksAreObeyed
  <2> SUFFICES ASSUME StartInv, rules # NoRules, NEW u \in env.pages, NEW i \in Scanned(env.file),
                      Forbids(i, u), OpensOurBlock(LastAgent(i))
               PROVE  ~Permitted(u)
    BY DEF OurBlocksAreObeyed
  <2> DEFINE I == InMatchingBlock(env.file)
             a == LastAgent(i)
  <2>1. /\ env.file \in Seq(Line) /\ Len(env.file) \in Nat /\ DOMAIN env.file = 1..Len(env.file)
        /\ i \in 1..Len(env.file)
    BY RulesFacts DEF Scanned
  <2>2. /\ a # 0 /\ Matches(env.file[a])
        /\ LastAgent(a) = 0 \/ ~Matches(env.file[LastAgent(a)])
    BY DEF OpensOurBlock
  <2>3. a \in 1..(i - 1) /\ \A j \in (a + 1)..(i - 1) : env.file[j].kind # "agent"
    BY <2>1, <2>2, AgentFacts
  <2> HIDE DEF a
  <2>4. a \in DOMAIN env.file /\ a - 1 \in 0..Len(env.file) /\ a \in 1..Len(env.file)
    BY <2>1, <2>3
  <2>5. ~I[a - 1]
    <3> SUFFICES ASSUME I[a - 1] PROVE FALSE
      OBVIOUS
    <3>1. PICK b \in 1..(a - 1) : /\ Matches(env.file[b])
                                  /\ \A j \in (b + 1)..(a - 1) : env.file[j].kind # "agent"
      BY <2>1, <2>4, FlagSetBy
    <3>2. LastAgent(a) = b /\ b # 0
      BY <2>1, <2>4, <3>1, AgentFacts DEF Matches
    <3> QED BY <2>2, <3>1, <3>2
  <2>6. I[a]
    <3>1. I[a] = AfterLine(I[a - 1], env.file[a])
      BY <2>1, <2>4, FlagFacts
    <3> HIDE DEF I
    <3> QED BY <2>2, <2>5, <3>1 DEF AfterLine, Matches
  <2>7. I[i - 1]
    <3>1. a \in 0..Len(env.file) /\ i - 1 \in a..Len(env.file)
      BY <2>1, <2>3
    <3> QED BY <2>1, <2>3, <2>6, <3>1, FlagStays
  <2> QED BY <2>7, RulesFacts
<1> QED BY StartInvariant, <1>1, PTL

\* For every robots.txt: a URL is refused only for a line of a block for us.
THEOREM RobotsRefuseNoMore == Spec => []OnlyOurBlocksForbid
<1>1. StartInv => OnlyOurBlocksForbid
  <2> SUFFICES ASSUME StartInv, rules # NoRules, NEW u \in env.pages, ~Permitted(u)
               PROVE  \E i \in DOMAIN env.file :
                        Forbids(i, u) /\ LastAgent(i) # 0 /\ Matches(env.file[LastAgent(i)])
    BY DEF OnlyOurBlocksForbid
  <2>1. PICK i \in Scanned(env.file) : Forbids(i, u) /\ InMatchingBlock(env.file)[i - 1]
    BY RulesFacts
  <2>2. /\ env.file \in Seq(Line) /\ Len(env.file) \in Nat /\ DOMAIN env.file = 1..Len(env.file)
        /\ i \in 1..Len(env.file)
    BY RulesFacts DEF Scanned
  <2>3. i - 1 \in 0..Len(env.file)
    BY <2>2
  <2>4. PICK a \in 1..(i - 1) : /\ Matches(env.file[a])
                                /\ \A j \in (a + 1)..(i - 1) : env.file[j].kind # "agent"
    BY <2>1, <2>2, <2>3, FlagSetBy
  <2>5. LastAgent(i) = a
    BY <2>2, <2>4, AgentFacts DEF Matches
  <2> QED BY <2>1, <2>2, <2>4, <2>5
<1> QED BY StartInvariant, <1>1, PTL

--------------------------------------------------------------------------------
(* The histogram.                                                          *)

PlusInf == Len(Bounds) + 1     \* the +Inf bucket

Response ==
    [at : 0..(PlusInf + 2), label : STRING \union {""}, buckets : Seq(Nat), sum : Nat, count : Nat]

MetricsTypeOK ==
    /\ counts \in [Buckets -> Nat]
    /\ sum \in Nat /\ count \in Nat
    /\ observer \in [Observers -> [at : {"idle", "sum", "count"}, duration : Nat]]
    /\ observed \in Seq(Nat)
    /\ scrape \in Response
    /\ reports \in Seq(Response)

\* The observations of bucket b, and those of buckets up to b.
In(b) == {i \in DOMAIN observed : BucketOf(observed[i]) = b}
Through(b) == {i \in DOMAIN observed : BucketOf(observed[i]) <= b}
Active == {o \in Observers : observer[o].at # "idle"}

\* A bucket holds the observations that belong to it, and the count lags behind
\* by the observations under way.
CountInv ==
    /\ \A b \in Buckets : counts[b] = Cardinality(In(b))
    /\ Len(observed) = count + Cardinality(Active)

\* What the bucket before b shows in response r.
Before(r, b) == IF b = 1 THEN 0 ELSE r.buckets[b - 1]

\* Response r has no more than the histogram has now: a bucket of r grew from the
\* one before it by no more than the histogram's own bucket holds.
Behind(r) ==
    /\ \A b \in DOMAIN r.buckets :
         /\ Before(r, b) <= r.buckets[b]
         /\ r.buckets[b] <= Before(r, b) + counts[b]
         /\ r.buckets[b] <= Cardinality(Through(b))
    /\ r.sum <= sum
    /\ r.count <= count

\* How far the response being written is.
ScrapeInv ==
    /\ scrape.at = 0 => scrape = NoScrape
    /\ scrape.at \in 1..PlusInf => Len(scrape.buckets) = scrape.at - 1
    /\ scrape.at > PlusInf => Len(scrape.buckets) = PlusInf
    /\ Behind(scrape)

\* Series of s are not below those of r, as far as s has them.
NotBelow(r, s) ==
    /\ \A b \in DOMAIN s.buckets : r.buckets[b] <= s.buckets[b]
    /\ s.at = PlusInf + 2 => r.sum <= s.sum

\* The last response, which the next will be compared with.
LatestInv ==
    reports # <<>> => /\ Behind(reports[Len(reports)])
                      /\ NotBelow(reports[Len(reports)], scrape)

Whole(r) ==
    /\ Len(r.buckets) = PlusInf
    /\ r.label \in {"", proxyURL}
ReportInv == (\A k \in DOMAIN reports : Whole(reports[k])) /\ scrape.label \in {"", proxyURL}

HInv ==
    /\ MetricsTypeOK
    /\ CountInv
    /\ ScrapeInv
    /\ LatestInv
    /\ ReportInv
    /\ ReportsAreHistograms

--------------------------------------------------------------------------------
\* There is one bucket per bound, and +Inf.
LEMMA BoundFacts == Len(Bounds) \in Nat /\ PlusInf \in Nat \ {0} /\ Buckets = 1..PlusInf
BY BoundsAssumption DEF PlusInf, Buckets

\* Every duration has a bucket (observeFetchLatency).
LEMMA BucketFacts ==
    ASSUME NEW d \in Nat
    PROVE  BucketOf(d) \in Buckets
<1> DEFINE S == {b \in DOMAIN Bounds : d <= Bounds[b]} \union {Len(Bounds) + 1}
<1>1. S \subseteq Buckets /\ S # {}
  BY BoundsAssumption DEF Buckets
<1>2. S \subseteq Nat
  BY <1>1, BoundFacts
<1>3. BucketOf(d) = CHOOSE b \in S : \A c \in S : b <= c
  BY DEF BucketOf, Min
<1> HIDE DEF S
<1>4. \E b \in S : \A c \in S : b <= c
  BY <1>1, <1>2, HasLeast
<1> QED BY <1>1, <1>3, <1>4

\* Observations and observers are finitely many.
LEMMA InFacts ==
    ASSUME MetricsTypeOK, NEW b \in Buckets
    PROVE  /\ IsFiniteSet(DOMAIN observed) /\ Cardinality(DOMAIN observed) = Len(observed)
           /\ IsFiniteSet(In(b)) /\ Cardinality(In(b)) \in Nat
           /\ IsFiniteSet(Through(b)) /\ Cardinality(Through(b)) \in Nat
           /\ Cardinality(Through(b)) <= Len(observed)
           /\ IsFiniteSet(Active) /\ Cardinality(Active) \in Nat
           /\ Cardinality(Active) <= Cardinality(Observers) /\ Cardinality(Observers) \in Nat
<1>1. DOMAIN observed = 1..Len(observed) /\ Len(observed) \in Nat
  BY DEF MetricsTypeOK
<1>2. IsFiniteSet(DOMAIN observed) /\ Cardinality(DOMAIN observed) = Len(observed)
  <2>1. ASSUME NEW n \in Nat PROVE IsFiniteSet(1..n) /\ Cardinality(1..n) = n
    <3>1. /\ IsFiniteSet(1..n)
          /\ Cardinality(1..n) = IF 1 > n THEN 0 ELSE n - 1 + 1
      BY FS_Interval
    <3> QED BY <3>1
  <2> QED BY <1>1, <2>1
<1>3. In(b) \subseteq DOMAIN observed /\ Through(b) \subseteq DOMAIN observed
  BY DEF In, Through
<1>4. IsFiniteSet(In(b)) /\ Cardinality(In(b)) \in Nat
  BY <1>2, <1>3, FS_Subset, FS_CardinalityType
<1>5. /\ IsFiniteSet(Through(b)) /\ Cardinality(Through(b)) \in Nat
      /\ Cardinality(Through(b)) <= Len(observed)
  BY <1>2, <1>3, FS_Subset, FS_CardinalityType
<1>6. /\ IsFiniteSet(Active) /\ Cardinality(Active) \in Nat
      /\ Cardinality(Active) <= Cardinality(Observers) /\ Cardinality(Observers) \in Nat
  <2>1. Active \subseteq Observers
    BY DEF Active
  <2> QED BY <2>1, ObserverAssumption, FS_Subset, FS_CardinalityType
<1> QED BY <1>2, <1>4, <1>5, <1>6

\* Through(b) is what was through the bucket before, and bucket b.
LEMMA ThroughNext ==
    ASSUME MetricsTypeOK, NEW b \in Buckets
    PROVE  /\ b = 1 => Through(b) = In(b)
           /\ b # 1 => /\ b - 1 \in Buckets
                       /\ Cardinality(Through(b)) = Cardinality(Through(b - 1)) + Cardinality(In(b))
<1>1. \A i \in DOMAIN observed : BucketOf(observed[i]) \in Buckets
  BY BucketFacts DEF MetricsTypeOK
<1>2. b \in Nat /\ b >= 1 /\ \A c \in Buckets : c \in Nat /\ c >= 1
  BY BoundFacts
<1>3. b = 1 => Through(b) = In(b)
  <2>1. \A c \in Buckets : c <= 1 <=> c = 1
    BY <1>2
  <2> QED BY <1>1, <2>1 DEF Through, In
<1>4. CASE b # 1
  <2>1. b - 1 \in Buckets
    BY <1>4, BoundFacts
  <2>2. /\ Through(b) = Through(b - 1) \union In(b)
        /\ Through(b - 1) \intersect In(b) = {}
    <3>1. \A c \in Buckets : (c <= b <=> c <= b - 1 \/ c = b) /\ ~(c <= b - 1 /\ c = b)
      BY <1>2
    <3> QED BY <1>1, <3>1 DEF Through, In
  <2>3. IsFiniteSet(Through(b - 1)) /\ IsFiniteSet(In(b))
    BY <2>1, InFacts
  <2>4. Cardinality(Through(b)) = Cardinality(Through(b - 1)) + Cardinality(In(b))
    <3>1. Cardinality(Through(b - 1) \union In(b)) =
            Cardinality(Through(b - 1)) + Cardinality(In(b)) - Cardinality({})
      BY <2>2, <2>3, FS_Union
    <3>2. Cardinality({}) = 0 /\ Cardinality(Through(b - 1)) \in Nat /\ Cardinality(In(b)) \in Nat
      BY <2>3, FS_EmptySet, FS_CardinalityType
    <3> QED BY <2>2, <3>1, <3>2
  <2> QED BY <1>4, <2>1, <2>4
<1> QED BY <1>3, <1>4

\* Between scrapes nothing is written.
LEMMA NoScrapeFacts ==
    /\ NoScrape \in Response /\ NoScrape.at = 0 /\ NoScrape.label = "" /\ NoScrape.buckets = <<>>
    /\ NoScrape.sum = 0 /\ NoScrape.count = 0
<1>1. /\ NoScrape.at = 0 /\ NoScrape.label = "" /\ NoScrape.buckets = <<>>
      /\ NoScrape.sum = 0 /\ NoScrape.count = 0
  BY DEF NoScrape
<1>2. 0 \in 0..(PlusInf + 2)
  BY BoundFacts
<1>3. NoScrape \in Response
  BY <1>2 DEF NoScrape, Response
<1> QED BY <1>1, <1>3

\* A response that has just begun is behind every histogram.
LEMMA EmptyResponse ==
    ASSUME MetricsTypeOK
    PROVE  Behind(NoScrape) /\ DOMAIN NoScrape.buckets = {} /\ Len(NoScrape.buckets) = 0
<1>1. DOMAIN NoScrape.buckets = {} /\ Len(NoScrape.buckets) = 0
  <2>1. NoScrape.buckets = <<>>
    BY NoScrapeFacts
  <2> QED BY <2>1
<1>2. NoScrape.sum <= sum /\ NoScrape.count <= count
  <2>1. NoScrape.sum = 0 /\ NoScrape.count = 0
    BY NoScrapeFacts
  <2> QED BY <2>1 DEF MetricsTypeOK
<1> QED BY <1>1, <1>2 DEF Behind

\* The invariant holds for a histogram without observations.
LEMMA InitHInv == Init => HInv
<1> SUFFICES ASSUME Init PROVE HInv
  OBVIOUS
<1>1. /\ counts = [b \in Buckets |-> 0] /\ sum = 0 /\ count = 0 /\ observed = <<>>
      /\ observer = [o \in Observers |-> [at |-> "idle", duration |-> 0]]
      /\ scrape = NoScrape /\ reports = <<>>
  BY DEF Init, MetricsInit
<1>2. scrape \in Response
  BY <1>1, NoScrapeFacts
<1>3. MetricsTypeOK
  BY <1>1, <1>2 DEF MetricsTypeOK
<1>4. CountInv
  <2>1. Active = {} /\ \A b \in Buckets : In(b) = {}
    BY <1>1 DEF Active, In
  <2>2. Cardinality({}) = 0
    BY FS_EmptySet
  <2>3. Len(observed) = 0 + 0
    BY <1>1
  <2> QED BY <1>1, <2>1, <2>2, <2>3 DEF CountInv
<1>5. ScrapeInv
  <2>1. scrape.at = 0
    BY <1>1, NoScrapeFacts
  <2>2. Behind(scrape)
    BY <1>1, <1>3, EmptyResponse
  <2> QED BY <1>1, <2>1, <2>2, BoundFacts DEF ScrapeInv
<1>6. ReportInv
  <2>1. scrape.label = ""
    BY <1>1, NoScrapeFacts
  <2>2. DOMAIN reports = {}
    BY <1>1
  <2> QED BY <2>1, <2>2 DEF ReportInv
<1>7. LatestInv /\ ReportsAreHistograms
  BY <1>1 DEF LatestInv, ReportsAreHistograms
<1> QED BY <1>3, <1>4, <1>5, <1>6, <1>7 DEF HInv

\* A response stays behind a histogram that grows.
LEMMA BehindGrows ==
    ASSUME MetricsTypeOK, MetricsTypeOK', NEW r \in Response, Len(r.buckets) <= PlusInf, Behind(r),
           \A b \in Buckets : /\ counts[b] <= counts'[b]
                              /\ Cardinality(Through(b)) <= Cardinality(Through(b)'),
           sum <= sum', count <= count'
    PROVE  Behind(r)'
<1>1. r.sum \in Nat /\ r.count \in Nat /\ r.buckets \in Seq(Nat) /\ DOMAIN r.buckets \subseteq Buckets
  <2>1. r.sum \in Nat /\ r.count \in Nat /\ r.buckets \in Seq(Nat)
    BY DEF Response
  <2>2. DOMAIN r.buckets = 1..Len(r.buckets) /\ Len(r.buckets) \in Nat
    BY <2>1
  <2> QED BY <2>1, <2>2, BoundFacts
<1>2. r.sum <= sum' /\ r.count <= count'
  BY <1>1 DEF Behind, MetricsTypeOK
<1>3. ASSUME NEW b \in DOMAIN r.buckets
      PROVE  /\ Before(r, b) <= r.buckets[b]
             /\ r.buckets[b] <= Before(r, b) + counts'[b]
             /\ r.buckets[b] <= Cardinality(Through(b)')
  <2>1. /\ Before(r, b) <= r.buckets[b] /\ r.buckets[b] <= Before(r, b) + counts[b]
        /\ r.buckets[b] <= Cardinality(Through(b))
    BY DEF Behind
  <2>2. b \in Buckets /\ r.buckets[b] \in Nat /\ Before(r, b) \in Nat
    BY <1>1, BoundFacts DEF Before
  <2>3. counts[b] \in Nat /\ counts'[b] \in Nat
    BY <2>2 DEF MetricsTypeOK
  <2>4. Cardinality(Through(b)) \in Nat
    BY <2>2, InFacts
  <2>5. Cardinality(Through(b)') \in Nat
    <3>1. Through(b)' \subseteq DOMAIN observed' /\ observed' \in Seq(Nat)
      BY DEF Through, MetricsTypeOK
    <3>2. DOMAIN observed' = 1..Len(observed') /\ Len(observed') \in Nat
      BY <3>1
    <3>3. IsFiniteSet(DOMAIN observed')
      <4>1. \A n \in Nat : IsFiniteSet(1..n)
        BY FS_Interval
      <4> QED BY <3>2, <4>1
    <3> QED BY <3>1, <3>3, FS_Subset, FS_CardinalityType
  <2> QED BY <2>1, <2>2, <2>3, <2>4, <2>5
<1> QED BY <1>2, <1>3 DEF Behind, Before

\* A step of an observer: the scrape and the responses are not touched.
LEMMA GrowHInv ==
    ASSUME HInv, MetricsTypeOK', CountInv', UNCHANGED <<env, scrape, reports>>,
           \A b \in Buckets : /\ counts[b] <= counts'[b]
                              /\ Cardinality(Through(b)) <= Cardinality(Through(b)'),
           sum <= sum', count <= count'
    PROVE  HInv'
<1>0. /\ MetricsTypeOK /\ scrape \in Response
      /\ reports # <<>> => reports[Len(reports)] \in Response /\ Len(reports) \in DOMAIN reports
  BY DEF HInv, MetricsTypeOK
<1>1. ScrapeInv'
  <2>1. Len(scrape.buckets) <= PlusInf
    <3>1. scrape.at \in 0..(PlusInf + 2)
      BY <1>0 DEF Response
    <3>2. scrape.at = 0 => Len(scrape.buckets) = 0
      BY EmptyResponse DEF HInv, ScrapeInv
    <3> QED BY <3>1, <3>2, BoundFacts DEF HInv, ScrapeInv
  <2>2. ASSUME NEW r, r = scrape PROVE Behind(r)'
    BY <1>0, <2>1, <2>2, BehindGrows DEF HInv, ScrapeInv
  <2>3. Behind(scrape)'
    BY <2>2 DEF Behind, Before
  <2> QED BY <2>3 DEF HInv, ScrapeInv
<1>2. LatestInv'
  <2> SUFFICES ASSUME reports # <<>>
               PROVE  Behind(reports[Len(reports)])' /\ NotBelow(reports[Len(reports)], scrape)'
    BY DEF LatestInv
  <2>1. Len(reports[Len(reports)].buckets) <= PlusInf
    <3>1. Len(reports[Len(reports)].buckets) = PlusInf
      BY <1>0 DEF HInv, ReportInv, Whole
    <3> QED BY <3>1, BoundFacts
  <2>2. ASSUME NEW r, r = reports[Len(reports)] PROVE Behind(r)'
    BY <1>0, <2>1, <2>2, BehindGrows DEF HInv, LatestInv
  <2>3. Behind(reports[Len(reports)])'
    BY <2>2 DEF Behind, Before
  <2>4. NotBelow(reports[Len(reports)], scrape)'
    BY DEF HInv, LatestInv, NotBelow
  <2> QED BY <2>3, <2>4
<1>3. ReportInv'
  BY SameSettings DEF HInv, ReportInv, Whole
<1>4. ReportsAreHistograms'
  BY DEF HInv, ReportsAreHistograms
<1> QED BY <1>1, <1>2, <1>3, <1>4 DEF HInv

\* An observer adds to its bucket.
LEMMA ObserveHInv ==
    ASSUME HInv, NEW o \in Observers, NEW d \in Durations, Observe(o, d), UNCHANGED startVars
    PROVE  HInv'
<1> DEFINE e == BucketOf(d)
           n == Len(observed) + 1
<1>1. /\ observer[o].at = "idle"
      /\ counts' = [counts EXCEPT ![e] = @ + 1]
      /\ observer' = [observer EXCEPT ![o] = [at |-> "sum", duration |-> d]]
      /\ observed' = Append(observed, d)
      /\ UNCHANGED <<env, sum, count, scrape, reports>>
  BY DEF Observe, startVars
<1>2. d \in Nat /\ e \in Buckets /\ MetricsTypeOK
  BY ObserverAssumption, BucketFacts DEF HInv
<1>3. /\ observed \in Seq(Nat) /\ Len(observed) \in Nat
      /\ DOMAIN observed = 1..Len(observed) /\ n \notin DOMAIN observed
      /\ DOMAIN observed' = DOMAIN observed \union {n} /\ Len(observed') = n
      /\ observed'[n] = d /\ \A i \in DOMAIN observed : observed'[i] = observed[i]
  BY <1>1, <1>2 DEF MetricsTypeOK
<1> HIDE DEF e, n
<1>4. MetricsTypeOK'
  <2>1. counts' \in [Buckets -> Nat]
    BY <1>1, <1>2 DEF MetricsTypeOK
  <2>2. observer' \in [Observers -> [at : {"idle", "sum", "count"}, duration : Nat]]
    BY <1>1, <1>2 DEF MetricsTypeOK
  <2>3. observed' \in Seq(Nat)
    BY <1>1, <1>2, <1>3
  <2> QED BY <1>1, <1>2, <2>1, <2>2, <2>3 DEF MetricsTypeOK
<1>5. \A b \in Buckets : /\ In(b)' = IF b = e THEN In(b) \union {n} ELSE In(b)
                         /\ Through(b) \subseteq Through(b)'
                         /\ n \notin In(b)
  BY <1>3 DEF In, Through, e
<1>6. ASSUME NEW b \in Buckets
      PROVE  /\ counts[b] <= counts'[b] /\ counts'[b] = Cardinality(In(b)')
             /\ Cardinality(Through(b)) <= Cardinality(Through(b)')
  <2>1. counts[b] = Cardinality(In(b)) /\ counts[b] \in Nat /\ IsFiniteSet(In(b))
    BY <1>2, InFacts DEF HInv, CountInv, MetricsTypeOK
  <2>2. counts'[b] = IF b = e THEN counts[b] + 1 ELSE counts[b]
    BY <1>1, <1>2 DEF MetricsTypeOK
  <2>3. Cardinality(In(b) \union {n}) = Cardinality(In(b)) + 1
    BY <1>5, <2>1, FS_AddElement
  <2>4. IsFiniteSet(Through(b)')
    <3>1. IsFiniteSet(DOMAIN observed \union {n})
      BY <1>2, InFacts, FS_AddElement
    <3>2. Through(b)' \subseteq DOMAIN observed'
      BY DEF Through
    <3> QED BY <1>3, <3>1, <3>2, FS_Subset
  <2>5. Cardinality(Through(b)) <= Cardinality(Through(b)')
    BY <1>5, <2>4, FS_Subset
  <2>6. counts[b] <= counts'[b]
    BY <2>1, <2>2
  <2>7. counts'[b] = Cardinality(In(b)')
    <3>1. CASE b = e
      BY <1>5, <2>1, <2>2, <2>3, <3>1
    <3>2. CASE b # e
      BY <1>5, <2>1, <2>2, <3>2
    <3> QED BY <3>1, <3>2
  <2> QED BY <2>5, <2>6, <2>7
<1>7. CountInv'
  <2>1. Active' = Active \union {o} /\ o \notin Active
    BY <1>1, <1>2 DEF Active, MetricsTypeOK
  <2>2. IsFiniteSet(Active) /\ Cardinality(Active) \in Nat
    BY <1>2, InFacts
  <2>3. Cardinality(Active') = Cardinality(Active) + 1
    BY <2>1, <2>2, FS_AddElement
  <2>4. Len(observed) = count + Cardinality(Active) /\ count \in Nat
    BY DEF HInv, CountInv, MetricsTypeOK
  <2>5. Len(observed') = count' + Cardinality(Active')
    BY <1>1, <1>3, <2>2, <2>3, <2>4 DEF n
  <2> QED BY <1>6, <2>5 DEF CountInv
<1>8. sum <= sum' /\ count <= count'
  BY <1>1, <1>2 DEF MetricsTypeOK
<1> QED BY <1>1, <1>4, <1>6, <1>7, <1>8, GrowHInv

\* An observer adds to the sum or to the count.
LEMMA AddHInv ==
    ASSUME HInv, NEW o \in Observers, AddSum(o) \/ AddCount(o), UNCHANGED startVars
    PROVE  HInv'
<1>0. MetricsTypeOK
  BY DEF HInv
<1>1. UNCHANGED <<env, counts, observed, scrape, reports>>
  BY DEF AddSum, AddCount, startVars
<1>2. /\ \A b \in Buckets : In(b)' = In(b) /\ Through(b)' = Through(b)
      /\ \A b \in Buckets : counts[b] \in Nat /\ Cardinality(Through(b)) \in Nat
  BY <1>0, <1>1, InFacts DEF In, Through, MetricsTypeOK
<1>3. \A b \in Buckets : /\ counts[b] <= counts'[b]
                         /\ Cardinality(Through(b)) <= Cardinality(Through(b)')
  BY <1>1, <1>2
<1>4. \A b \in Buckets : counts'[b] = Cardinality(In(b)')
  BY <1>1, <1>2 DEF HInv, CountInv
<1>5. Len(observed) = count + Cardinality(Active) /\ count \in Nat /\ sum \in Nat
  BY DEF HInv, CountInv, MetricsTypeOK
<1>6. CASE AddSum(o)
  <2>1. /\ observer[o].at = "sum" /\ sum' = sum + observer[o].duration /\ count' = count
        /\ observer' = [observer EXCEPT ![o].at = "count"]
    BY <1>6 DEF AddSum
  <2>2. observer[o].duration \in Nat
    BY <1>0 DEF MetricsTypeOK
  <2>3. sum' \in Nat /\ sum <= sum' /\ count <= count'
    BY <1>5, <2>1, <2>2
  <2>4. /\ observer' \in [Observers -> [at : {"idle", "sum", "count"}, duration : Nat]]
        /\ observer'[o].at = "count" /\ \A x \in Observers : x # o => observer'[x] = observer[x]
    BY <1>0, <2>1 DEF MetricsTypeOK
  <2>5. MetricsTypeOK'
    BY <1>0, <1>1, <2>1, <2>3, <2>4 DEF MetricsTypeOK
  <2>6. Active' = Active
    BY <2>1, <2>4 DEF Active
  <2>7. CountInv'
    BY <1>1, <1>4, <1>5, <2>1, <2>6 DEF CountInv
  <2> QED BY <1>1, <1>3, <2>3, <2>5, <2>7, GrowHInv
<1>7. CASE AddCount(o)
  <2>1. /\ observer[o].at = "count" /\ count' = count + 1 /\ sum' = sum
        /\ observer' = [observer EXCEPT ![o] = [at |-> "idle", duration |-> 0]]
    BY <1>7 DEF AddCount
  <2>2. count' \in Nat /\ sum <= sum' /\ count <= count'
    BY <1>5, <2>1
  <2>3. /\ observer' \in [Observers -> [at : {"idle", "sum", "count"}, duration : Nat]]
        /\ observer'[o].at = "idle" /\ \A x \in Observers : x # o => observer'[x] = observer[x]
    BY <1>0, <2>1 DEF MetricsTypeOK
  <2>4. MetricsTypeOK'
    BY <1>0, <1>1, <2>1, <2>2, <2>3 DEF MetricsTypeOK
  <2>5. Active' = Active \ {o} /\ o \in Active
    BY <2>1, <2>3 DEF Active
  <2>6. IsFiniteSet(Active) /\ Cardinality(Active) \in Nat
    <3>1. Active \subseteq Observers
      BY DEF Active
    <3> QED BY <3>1, ObserverAssumption, FS_Subset, FS_CardinalityType
  <2>7. Cardinality(Active') = Cardinality(Active) - 1
    BY <2>5, <2>6, FS_RemoveElement
  <2>8. CountInv'
    BY <1>1, <1>4, <1>5, <2>1, <2>6, <2>7 DEF CountInv
  <2> QED BY <1>1, <1>3, <2>2, <2>4, <2>8, GrowHInv
<1> QED BY <1>6, <1>7

\* A step of the handler leaves the histogram alone.
LEMMA ScrapeFrame ==
    ASSUME HInv, UNCHANGED <<env, counts, sum, count, observer, observed>>
    PROVE  /\ CountInv' /\ proxyURL' = proxyURL
           /\ \A r : Behind(r)' <=> Behind(r)
<1>1. proxyURL' = proxyURL
  BY SameSettings
<1>2. CountInv'
  BY DEF HInv, CountInv, In, Active
<1>3. \A r : Behind(r)' <=> Behind(r)
  BY DEF Behind, Before, Through
<1> QED BY <1>1, <1>2, <1>3

\* handleMetrics reads the label.
LEMMA BeginScrapeHInv ==
    ASSUME StartInv, HInv, NEW l \in LabelRead, BeginScrape(l), UNCHANGED startVars
    PROVE  HInv'
<1> DEFINE s == [at |-> 1, label |-> l, buckets |-> <<>>, sum |-> 0, count |-> 0]
<1>1. /\ scrape' = s
      /\ UNCHANGED <<env, counts, sum, count, observer, observed, reports>>
  BY DEF BeginScrape, startVars
<1>2. l \in {"", proxyURL} /\ l \in STRING \union {""}
  BY ProxyFacts DEF LabelRead, StartInv, StartTypeOK, SettledInv
<1>3. /\ s.at = 1 /\ s.label = l /\ s.sum = 0 /\ s.count = 0
      /\ Len(s.buckets) = 0 /\ DOMAIN s.buckets = {}
  OBVIOUS
<1>4. s \in Response
  <2>1. 1 \in 0..(PlusInf + 2)
    BY BoundFacts
  <2>2. <<>> \in Seq(Nat)
    OBVIOUS
  <2>3. l \in STRING \union {""}
    BY <1>2
  <2> QED BY <2>1, <2>2, <2>3 DEF Response
<1> HIDE DEF s
<1>5. MetricsTypeOK'
  BY <1>1, <1>4 DEF HInv, MetricsTypeOK
<1>6. Behind(s)
  BY <1>3 DEF Behind, HInv, MetricsTypeOK
<1>7. ScrapeInv'
  <2>1. Behind(scrape)'
    BY <1>1, <1>6 DEF Behind, Before, Through
  <2> QED BY <1>1, <1>3, <2>1, BoundFacts DEF ScrapeInv
<1>8. LatestInv'
  <2> SUFFICES ASSUME reports # <<>>
               PROVE  /\ Behind(reports[Len(reports)])'
                      /\ NotBelow(reports[Len(reports)], s)
    BY <1>1 DEF LatestInv, NotBelow
  <2>1. Behind(reports[Len(reports)])'
    BY <1>1 DEF HInv, LatestInv, Behind, Before, Through
  <2>2. 1 # PlusInf + 2
    BY BoundFacts
  <2> QED BY <1>3, <2>1, <2>2 DEF NotBelow
<1>9. ReportInv' /\ ReportsAreHistograms'
  BY <1>1, <1>2, <1>3, ScrapeFrame DEF HInv, ReportInv, Whole, ReportsAreHistograms
<1> QED BY <1>1, <1>5, <1>7, <1>8, <1>9, ScrapeFrame DEF HInv

\* appendHistogram reads a bucket.
LEMMA ReadBucketHInv ==
    ASSUME HInv, ReadBucket, UNCHANGED startVars
    PROVE  HInv'
<1> DEFINE b == scrape.at
           v == Cumulative(b)
           s == Written(Append(scrape.buckets, v), 0)
<1>1. /\ scrape' = s /\ b \in Buckets
      /\ UNCHANGED <<env, counts, sum, count, observer, observed, reports>>
  BY DEF ReadBucket, startVars
<1>2. MetricsTypeOK /\ scrape \in Response /\ Behind(scrape)
  BY DEF HInv, MetricsTypeOK, ScrapeInv
<1>3. b \in Nat /\ b >= 1 /\ b <= PlusInf /\ PlusInf \in Nat
  BY <1>1, BoundFacts
<1>4. scrape.buckets \in Seq(Nat) /\ Len(scrape.buckets) = b - 1 /\ DOMAIN scrape.buckets = 1..(b - 1)
  <2>1. scrape.buckets \in Seq(Nat)
    BY <1>2 DEF Response
  <2>2. scrape.at \in 1..PlusInf
    BY <1>3
  <2>3. Len(scrape.buckets) = b - 1
    BY <2>2 DEF HInv, ScrapeInv
  <2> QED BY <2>1, <2>3
<1>5. v = counts[b] + Before(scrape, b) /\ counts[b] \in Nat /\ Before(scrape, b) \in Nat
  <2>1. counts[b] \in Nat
    BY <1>1, <1>2 DEF MetricsTypeOK
  <2>2. Before(scrape, b) \in Nat
    BY <1>3, <1>4 DEF Before
  <2> QED BY <2>1, <2>2 DEF Cumulative, Before
<1>6. /\ s.at = b + 1 /\ s.label = scrape.label /\ s.sum = 0 /\ s.count = 0
      /\ s.buckets = Append(scrape.buckets, v)
  BY DEF Written
<1>7. /\ s.buckets \in Seq(Nat) /\ Len(s.buckets) = b /\ DOMAIN s.buckets = 1..b
      /\ s.buckets[b] = v /\ \A c \in 1..(b - 1) : s.buckets[c] = scrape.buckets[c]
  <2> HIDE DEF b, v, s
  <2>1. v \in Nat
    BY <1>5
  <2> QED BY <1>3, <1>4, <1>6, <2>1
<1>8. s \in Response
  <2>1. scrape.label \in STRING \union {""}
    BY <1>2 DEF Response
  <2>4. b + 1 \in 0..(PlusInf + 2)
    <3> HIDE DEF b
    <3> QED BY <1>3
  <2>2. s = [at |-> b + 1, label |-> scrape.label, buckets |-> Append(scrape.buckets, v),
             sum |-> 0, count |-> 0]
    BY DEF Written
  <2>3. Append(scrape.buckets, v) \in Seq(Nat)
    BY <1>6, <1>7
  <2> HIDE DEF s
  <2> QED BY <2>1, <2>2, <2>3, <2>4 DEF Response
<1> HIDE DEF s, v, b
<1>9. \A c \in 1..b : Before(s, c) = Before(scrape, c)
  BY <1>3, <1>7 DEF Before
<1>10. v <= Cardinality(Through(b))
  <2>1. counts[b] = Cardinality(In(b))
    BY <1>1 DEF HInv, CountInv
  <2>2. CASE b = 1
    <3>1. Through(b) = In(b)
      BY <1>1, <1>2, <2>2, ThroughNext
    <3>2. Before(scrape, b) = 0
      BY <2>2 DEF Before
    <3> QED BY <1>5, <2>1, <3>1, <3>2
  <2>3. CASE b # 1
    <3>1. /\ b - 1 \in Buckets
          /\ Cardinality(Through(b)) = Cardinality(Through(b - 1)) + Cardinality(In(b))
      BY <1>1, <1>2, <2>3, ThroughNext
    <3>2. Before(scrape, b) = scrape.buckets[b - 1] /\ b - 1 \in DOMAIN scrape.buckets
      BY <1>3, <1>4, <2>3 DEF Before
    <3>3. Before(scrape, b) <= Cardinality(Through(b - 1))
      BY <1>2, <3>2 DEF Behind
    <3>4. Cardinality(Through(b - 1)) \in Nat
      BY <1>2, <3>1, InFacts
    <3> QED BY <1>5, <2>1, <3>1, <3>3, <3>4
  <2> QED BY <2>2, <2>3
<1>11. Behind(s)
  <2>1. ASSUME NEW c \in DOMAIN s.buckets
        PROVE  /\ Before(s, c) <= s.buckets[c] /\ s.buckets[c] <= Before(s, c) + counts[c]
               /\ s.buckets[c] <= Cardinality(Through(c))
    <3>1. CASE c = b
      BY <1>3, <1>5, <1>7, <1>9, <1>10, <3>1
    <3>2. CASE c # b
      <4>1. c \in DOMAIN scrape.buckets /\ s.buckets[c] = scrape.buckets[c]
        BY <1>3, <1>4, <1>7, <3>2
      <4>2. Before(s, c) = Before(scrape, c)
        BY <1>7, <1>9
      <4> QED BY <1>2, <4>1, <4>2 DEF Behind
    <3> QED BY <3>1, <3>2
  <2>2. s.sum <= sum /\ s.count <= count
    BY <1>2, <1>6 DEF MetricsTypeOK
  <2> QED BY <2>1, <2>2 DEF Behind
<1>12. MetricsTypeOK'
  BY <1>1, <1>2, <1>8 DEF MetricsTypeOK
<1>13. ScrapeInv'
  <2>1. Behind(scrape)'
    BY <1>1, <1>11 DEF Behind, Before, Through
  <2> QED BY <1>1, <1>3, <1>6, <1>7, <2>1 DEF ScrapeInv
<1>14. LatestInv'
  <2> DEFINE r == reports[Len(reports)]
  <2> SUFFICES ASSUME reports # <<>>
               PROVE  Behind(r)' /\ NotBelow(r, s)
    BY <1>1 DEF LatestInv, NotBelow
  <2>1. Behind(r) /\ NotBelow(r, scrape)
    BY DEF HInv, LatestInv
  <2>2. Behind(r)'
    BY <1>1, <2>1 DEF Behind, Before, Through
  <2>3. r.buckets \in Seq(Nat) /\ Len(r.buckets) = PlusInf
    <3>1. Len(reports) \in DOMAIN reports /\ r \in Response
      BY <1>2 DEF MetricsTypeOK
    <3> QED BY <3>1 DEF HInv, ReportInv, Whole, Response
  <2>4. DOMAIN r.buckets = 1..PlusInf /\ b \in DOMAIN r.buckets
    BY <1>3, <2>3
  <2> HIDE DEF r
  <2>5. r.buckets[b] <= v
    <3>1. r.buckets[b] <= Before(r, b) + counts[b]
      BY <2>1, <2>4 DEF Behind
    <3>2. Before(r, b) <= Before(scrape, b) /\ Before(r, b) \in Nat
      BY <1>3, <1>4, <2>1, <2>3, <2>4 DEF Before, NotBelow
    <3>3. r.buckets[b] \in Nat
      BY <2>3, <2>4
    <3> QED BY <1>5, <3>1, <3>2, <3>3
  <2>6. \A c \in DOMAIN s.buckets : r.buckets[c] <= s.buckets[c]
    <3>1. \A c \in 1..b : c = b \/ c \in 1..(b - 1)
      BY <1>3
    <3>2. \A c \in 1..(b - 1) : r.buckets[c] <= s.buckets[c]
      BY <1>4, <1>7, <2>1 DEF NotBelow
    <3> QED BY <1>7, <2>5, <3>1, <3>2
  <2>7. s.at # PlusInf + 2
    BY <1>3, <1>6
  <2> QED BY <2>2, <2>6, <2>7 DEF NotBelow
<1>15. ReportInv' /\ ReportsAreHistograms'
  BY <1>1, <1>6, ScrapeFrame DEF HInv, ReportInv, Whole, ReportsAreHistograms
<1> QED BY <1>1, <1>12, <1>13, <1>14, <1>15, ScrapeFrame DEF HInv

\* appendHistogram reads the sum.
LEMMA ReadSumHInv ==
    ASSUME HInv, ReadSum, UNCHANGED startVars
    PROVE  HInv'
<1> DEFINE s == Written(scrape.buckets, sum)
<1>1. /\ scrape' = s /\ scrape.at = PlusInf + 1
      /\ UNCHANGED <<env, counts, sum, count, observer, observed, reports>>
  <2>1. Len(Bounds) + 2 = PlusInf + 1
    BY BoundFacts DEF PlusInf
  <2> QED BY <2>1 DEF ReadSum, startVars
<1>2. MetricsTypeOK /\ scrape \in Response /\ Behind(scrape) /\ sum \in Nat /\ PlusInf \in Nat
  BY BoundFacts DEF HInv, MetricsTypeOK, ScrapeInv
<1>3. /\ s.at = PlusInf + 2 /\ s.label = scrape.label /\ s.sum = sum /\ s.count = 0
      /\ s.buckets = scrape.buckets
  <2>1. scrape.at + 1 = PlusInf + 2
    BY <1>1, <1>2
  <2> QED BY <2>1 DEF Written
<1>4. s \in Response
  <2>1. scrape.label \in STRING \union {""} /\ scrape.buckets \in Seq(Nat)
    BY <1>2 DEF Response
  <2>2. scrape.at + 1 \in 0..(PlusInf + 2)
    BY <1>1, <1>2
  <2> QED BY <1>2, <2>1, <2>2 DEF Written, Response
<1> HIDE DEF s
<1>5. MetricsTypeOK'
  BY <1>1, <1>2, <1>4 DEF MetricsTypeOK
<1>6. Behind(scrape)'
  <2>1. \A b \in DOMAIN s.buckets : Before(s, b) = Before(scrape, b)
    BY <1>3 DEF Before
  <2>2. s.sum <= sum /\ s.count <= count
    BY <1>2, <1>3 DEF MetricsTypeOK
  <2>3. Behind(s)
    BY <1>2, <1>3, <2>1, <2>2 DEF Behind
  <2> QED BY <1>1, <2>3 DEF Behind, Before, Through
<1>7. ScrapeInv'
  <2>1. Len(scrape.buckets) = PlusInf
    BY <1>1, <1>2 DEF HInv, ScrapeInv
  <2> QED BY <1>1, <1>2, <1>3, <1>6, <2>1 DEF ScrapeInv
<1>8. LatestInv'
  <2> DEFINE r == reports[Len(reports)]
  <2> SUFFICES ASSUME reports # <<>>
               PROVE  Behind(r)' /\ NotBelow(r, s)
    BY <1>1 DEF LatestInv, NotBelow
  <2>1. Behind(r) /\ NotBelow(r, scrape)
    BY DEF HInv, LatestInv
  <2>2. Behind(r)'
    BY <1>1, <2>1 DEF Behind, Before, Through
  <2> HIDE DEF r
  <2> QED BY <1>3, <2>1, <2>2 DEF NotBelow, Behind
<1>9. ReportInv' /\ ReportsAreHistograms'
  BY <1>1, <1>3, ScrapeFrame DEF HInv, ReportInv, Whole, ReportsAreHistograms
<1> QED BY <1>1, <1>5, <1>7, <1>8, <1>9, ScrapeFrame DEF HInv

\* appendHistogram reads the count, and the response is sent.
LEMMA ReadCountHInv ==
    ASSUME HInv, ReadCount, UNCHANGED startVars
    PROVE  HInv'
<1> DEFINE s == [scrape EXCEPT !.count = count]
           n == Len(reports) + 1
<1>1. /\ scrape' = NoScrape /\ scrape.at = PlusInf + 2 /\ reports' = Append(reports, s)
      /\ UNCHANGED <<env, counts, sum, count, observer, observed>>
  <2>1. Len(Bounds) + 3 = PlusInf + 2
    BY BoundFacts DEF PlusInf
  <2> QED BY <2>1 DEF ReadCount, startVars
<1>2. /\ MetricsTypeOK /\ scrape \in Response /\ Behind(scrape) /\ count \in Nat
      /\ PlusInf \in Nat \ {0} /\ Buckets = 1..PlusInf
  BY BoundFacts DEF HInv, MetricsTypeOK, ScrapeInv
<1>3. /\ s \in Response /\ s.count = count /\ s.label = scrape.label /\ s.sum = scrape.sum
      /\ s.buckets = scrape.buckets
  BY <1>2 DEF Response
<1>4. scrape.buckets \in Seq(Nat) /\ Len(s.buckets) = PlusInf /\ DOMAIN s.buckets = 1..PlusInf
  <2>1. scrape.buckets \in Seq(Nat)
    BY <1>2 DEF Response
  <2>2. Len(scrape.buckets) = PlusInf
    BY <1>1, <1>2 DEF HInv, ScrapeInv
  <2> QED BY <1>3, <2>1, <2>2
<1> HIDE DEF s
<1>5. /\ reports \in Seq(Response) /\ Len(reports) \in Nat /\ n \in Nat
      /\ DOMAIN reports = 1..Len(reports) /\ DOMAIN reports' = 1..n /\ Len(reports') = n
      /\ reports'[n] = s /\ \A k \in 1..Len(reports) : reports'[k] = reports[k]
      /\ reports' \in Seq(Response)
  BY <1>1, <1>2, <1>3 DEF MetricsTypeOK
<1>6. MetricsTypeOK'
  BY <1>1, <1>2, <1>5, NoScrapeFacts DEF MetricsTypeOK
<1>7. Behind(s)
  <2>1. \A b \in DOMAIN s.buckets : Before(s, b) = Before(scrape, b)
    BY <1>3 DEF Before
  <2> QED BY <1>2, <1>3, <2>1 DEF Behind
<1>8. ScrapeInv'
  <2>1. Behind(NoScrape)
    BY <1>2, EmptyResponse
  <2>2. Behind(scrape)'
    BY <1>1, <2>1 DEF Behind, Before, Through
  <2>3. scrape'.at = 0
    BY <1>1, NoScrapeFacts
  <2> QED BY <1>1, <1>2, <2>2, <2>3 DEF ScrapeInv
<1>9. LatestInv'
  <2>1. Behind(reports[Len(reports)])'
    BY <1>1, <1>5, <1>7 DEF Behind, Before, Through
  <2>2. NotBelow(s, NoScrape)
    <3>1. DOMAIN NoScrape.buckets = {} /\ NoScrape.at = 0
      BY <1>2, EmptyResponse, NoScrapeFacts
    <3> QED BY <1>2, <3>1 DEF NotBelow
  <2> QED BY <1>1, <1>5, <2>1, <2>2 DEF LatestInv, NotBelow
<1>10. ReportInv'
  <2>1. Whole(s)
    BY <1>3, <1>4 DEF HInv, ReportInv, Whole
  <2>2. \A k \in 1..n : k = n \/ k \in 1..Len(reports)
    BY <1>5
  <2>3. \A k \in 1..n : Whole(reports'[k])
    BY <1>5, <2>1, <2>2 DEF HInv, ReportInv
  <2>4. proxyURL' = proxyURL /\ scrape'.label = ""
    BY <1>1, ScrapeFrame, NoScrapeFacts
  <2> QED BY <1>5, <2>3, <2>4 DEF ReportInv, Whole
<1>11. ReportsAreHistograms'
  <2>1. \A b \in DOMAIN Bounds : s.buckets[b] <= s.buckets[b + 1]
    <3> SUFFICES ASSUME NEW b \in DOMAIN Bounds PROVE s.buckets[b] <= s.buckets[b + 1]
      OBVIOUS
    <3>1. b \in Nat /\ b >= 1 /\ b + 1 \in 1..PlusInf
      BY BoundsAssumption DEF PlusInf
    <3>2. Before(s, b + 1) <= s.buckets[b + 1]
      BY <1>4, <1>7, <3>1 DEF Behind
    <3>3. b + 1 # 1 /\ (b + 1) - 1 = b
      BY <3>1
    <3> QED BY <3>2, <3>3 DEF Before
  <2>2. s.buckets[PlusInf] - s.count <= Cardinality(Observers)
    <3>1. PlusInf \in Buckets /\ PlusInf \in DOMAIN s.buckets
      BY <1>2, <1>4
    <3>2. s.buckets[PlusInf] <= Cardinality(Through(PlusInf)) /\ s.buckets[PlusInf] \in Nat
      BY <1>3, <1>4, <1>7, <3>1 DEF Behind
    <3>3. /\ Cardinality(Through(PlusInf)) \in Nat /\ Cardinality(Through(PlusInf)) <= Len(observed)
          /\ Cardinality(Active) \in Nat /\ Cardinality(Active) <= Cardinality(Observers)
          /\ Cardinality(Observers) \in Nat
      BY <1>2, <3>1, InFacts
    <3>4. Len(observed) = count + Cardinality(Active)
      BY DEF HInv, CountInv
    <3> QED BY <1>2, <1>3, <3>2, <3>3, <3>4
  <2>3. ASSUME NEW k \in 1..n
        PROVE  /\ \A b \in DOMAIN Bounds : reports'[k].buckets[b] <= reports'[k].buckets[b + 1]
               /\ reports'[k].buckets[Len(Bounds) + 1] - reports'[k].count <= Cardinality(Observers)
    <3>1. CASE k = n
      BY <1>5, <2>1, <2>2, <3>1 DEF PlusInf
    <3>2. CASE k # n
      <4>1. k \in DOMAIN reports /\ reports'[k] = reports[k]
        BY <1>5, <3>2
      <4> QED BY <4>1 DEF HInv, ReportsAreHistograms
    <3> QED BY <3>1, <3>2
  <2>4. ASSUME NEW k \in 1..(n - 1)
        PROVE  /\ \A b \in Buckets : reports'[k].buckets[b] <= reports'[k + 1].buckets[b]
               /\ reports'[k].sum <= reports'[k + 1].sum
               /\ reports'[k].count <= reports'[k + 1].count
    <3>1. CASE k = n - 1
      <4>1. /\ k = Len(reports) /\ k + 1 = n /\ reports # <<>>
            /\ reports'[k] = reports[Len(reports)] /\ reports'[k + 1] = s
        BY <1>5, <3>1
      <4>2. Behind(reports[Len(reports)]) /\ NotBelow(reports[Len(reports)], scrape)
        BY <4>1 DEF HInv, LatestInv
      <4> QED BY <1>1, <1>2, <1>3, <1>4, <4>1, <4>2 DEF Behind, NotBelow
    <3>2. CASE k # n - 1
      <4>1. /\ k \in 1..(Len(reports) - 1)
            /\ reports'[k] = reports[k] /\ reports'[k + 1] = reports[k + 1]
        BY <1>5, <3>2
      <4> QED BY <4>1 DEF HInv, ReportsAreHistograms
    <3> QED BY <3>1, <3>2
  <2> QED BY <1>5, <2>3, <2>4 DEF ReportsAreHistograms
<1> QED BY <1>1, <1>6, <1>8, <1>9, <1>10, <1>11, ScrapeFrame DEF HInv

\* Every step of the process preserves the invariant of the histogram.
LEMMA StepHInv ==
    ASSUME StartInv, HInv, [Next]_vars
    PROVE  HInv'
<1>1. CASE Starting \/ UNCHANGED vars
  <2>1. UNCHANGED <<env, counts, sum, count, observer, observed, scrape, reports>>
    BY <1>1 DEF Starting, MainStep, StartMetricsServer, MakeCommitChannel, BeginLabel, BuildHTTPClient,
                RobotsFail, NewWorker, RobotsLoaded, metricVars, vars, startVars
  <2>2. MetricsTypeOK' /\ CountInv'
    BY <2>1, ScrapeFrame DEF HInv, MetricsTypeOK
  <2>3. \A b \in Buckets : counts[b] \in Nat /\ Cardinality(Through(b)) \in Nat
    BY InFacts DEF HInv, MetricsTypeOK
  <2>4. \A b \in Buckets : /\ counts[b] <= counts'[b]
                           /\ Cardinality(Through(b)) <= Cardinality(Through(b)')
    BY <2>1, <2>3 DEF Through
  <2>5. sum <= sum' /\ count <= count'
    BY <2>1 DEF HInv, MetricsTypeOK
  <2> QED BY <2>1, <2>2, <2>4, <2>5, GrowHInv
<1>2. CASE Serving
  BY <1>2, BeginScrapeHInv, AddHInv, ReadBucketHInv, ReadSumHInv, ReadCountHInv
  DEF Serving, MetricsStep
<1>3. CASE Working
  BY <1>3, ObserveHInv DEF Working
<1> QED BY <1>1, <1>2, <1>3 DEF Next

--------------------------------------------------------------------------------
(* Sums.                                                                   *)

\* s[k] is the sum of the first k values of f.
IsSum(s, f, n) ==
    s \in [0..n -> Nat] /\ s[0] = 0 /\ \A k \in 1..n : s[k] = s[k - 1] + f[k]

\* The recursive function of SumTo exists.
LEMMA SumFacts ==
    ASSUME NEW n \in Nat, NEW f, \A k \in 1..n : f[k] \in Nat
    PROVE  \E s : IsSum(s, f, n) /\ SumTo(f, n) = s[n]
<1> DEFINE F == [k \in 1..n |-> [t \in Nat |-> t + f[k]]]
           Body(g) == [k \in 0..n |-> IF k = 0 THEN 0 ELSE g[k - 1] + f[k]]
           zero == 0
<1>1. F \in [1..n -> [Nat -> Nat]] /\ zero \in Nat
  OBVIOUS
<1>2. PICK r : IsRun(r, n, Nat, zero, F)
  <2> HIDE DEF F, zero
  <2> QED BY <1>1, Iteration
<1>3. r \in [0..n -> Nat] /\ r[0] = 0 /\ \A k \in 1..n : r[k] = F[k][r[k - 1]]
  BY <1>2 DEF IsRun
<1>4. ASSUME NEW k \in 1..n PROVE r[k] = r[k - 1] + f[k]
  <2>1. k - 1 \in 0..n
    OBVIOUS
  <2>2. r[k - 1] \in Nat
    BY <1>3, <2>1
  <2> QED BY <1>3, <2>2
<1>5. r = Body(r)
  <2>1. ASSUME NEW k \in 0..n PROVE r[k] = IF k = 0 THEN 0 ELSE r[k - 1] + f[k]
    BY <1>3, <1>4
  <2> QED BY <1>3, <2>1
<1> DEFINE s == CHOOSE g : g = Body(g)
<1>6. SumTo(f, n) = s[n]
  BY DEF SumTo
<1>7. s = Body(s)
  BY <1>5
<1> HIDE DEF s
<1>8. \A k \in 0..n : s[k] = IF k = 0 THEN 0 ELSE s[k - 1] + f[k]
  BY <1>7
<1>9. ASSUME NEW k \in 0..n PROVE s[k] = r[k]
  <2> DEFINE Odd == {i \in 0..n : s[i] # r[i]}
  <2>1. SUFFICES ASSUME Odd # {} PROVE FALSE
    BY <2>1
  <2>2. Odd \subseteq Nat
    OBVIOUS
  <2>3. PICK i \in Odd : \A j \in Odd : i <= j
    <3> HIDE DEF Odd
    <3> QED BY <2>1, <2>2, HasLeast
  <2>4. i \in 1..n /\ i - 1 \in 0..n /\ ~(i <= i - 1)
    BY <1>3, <1>8, <2>3
  <2>5. s[i - 1] = r[i - 1]
    BY <2>3, <2>4
  <2>6. s[i] = r[i]
    BY <1>4, <1>8, <2>4, <2>5
  <2> QED BY <2>3, <2>6
<1>10. s = r
  BY <1>3, <1>7, <1>9
<1>11. IsSum(s, f, n)
  BY <1>3, <1>4, <1>10 DEF IsSum
<1> QED BY <1>6, <1>11

\* g is f with d more at j.
MoreAt(f, g, n, j, d) ==
    \A k \in 1..n : f[k] \in Nat /\ g[k] = f[k] + (IF k = j THEN d ELSE 0)
\* t is s with d more from j on.
MoreFrom(s, t, n, j, d) == \A k \in 0..n : t[k] = s[k] + (IF j <= k THEN d ELSE 0)

\* What a change of one value by d does to the sums.
LEMMA SumChange ==
    ASSUME NEW n \in Nat, NEW f, NEW g, NEW s, NEW t, IsSum(s, f, n), IsSum(t, g, n),
           NEW j \in Nat \ {0}, NEW d \in Nat, MoreAt(f, g, n, j, d)
    PROVE  MoreFrom(s, t, n, j, d)
<1> USE DEF MoreAt, MoreFrom
<1> DEFINE Odd == {k \in 0..n : t[k] # s[k] + (IF j <= k THEN d ELSE 0)}
<1>1. SUFFICES ASSUME Odd # {} PROVE FALSE
  BY <1>1
<1>2. Odd \subseteq Nat
  OBVIOUS
<1>3. PICK i \in Odd : \A k \in Odd : i <= k
  <2> HIDE DEF Odd
  <2> QED BY <1>1, <1>2, HasLeast
<1>4. i # 0
  BY <1>3 DEF IsSum
<1>5. i \in 1..n /\ i - 1 \in 0..n /\ ~(i <= i - 1)
  BY <1>3, <1>4
<1>6. t[i - 1] = s[i - 1] + (IF j <= i - 1 THEN d ELSE 0)
  BY <1>3, <1>5
<1>7. s[i] = s[i - 1] + f[i] /\ t[i] = t[i - 1] + g[i] /\ s[i - 1] \in Nat /\ f[i] \in Nat
  BY <1>5 DEF IsSum
<1>8. g[i] = f[i] + (IF i = j THEN d ELSE 0)
  BY <1>5
<1>9. t[i] = s[i] + (IF j <= i THEN d ELSE 0)
  BY <1>5, <1>6, <1>7, <1>8
<1> QED BY <1>3, <1>9

\* One value more by d makes the sum more by d.
LEMMA SumMore ==
    ASSUME NEW n \in Nat, NEW f, NEW g, NEW j \in 1..n, NEW d \in Nat, MoreAt(f, g, n, j, d)
    PROVE  SumTo(g, n) = SumTo(f, n) + d
<1>1. \A k \in 1..n : f[k] \in Nat /\ g[k] \in Nat
  BY DEF MoreAt
<1>2. PICK s : IsSum(s, f, n) /\ SumTo(f, n) = s[n]
  BY <1>1, SumFacts
<1>3. PICK t : IsSum(t, g, n) /\ SumTo(g, n) = t[n]
  BY <1>1, SumFacts
<1>4. j \in Nat \ {0} /\ n \in 0..n /\ j <= n
  OBVIOUS
<1>5. MoreFrom(s, t, n, j, d)
  BY <1>2, <1>3, <1>4, SumChange
<1> QED BY <1>2, <1>3, <1>4, <1>5 DEF MoreFrom

\* g begins with the n values of f.
Begins(f, g, n) == \A k \in 1..n : f[k] \in Nat /\ g[k] = f[k]

\* One value more at the end is added to the sum.
LEMMA SumNext ==
    ASSUME NEW n \in Nat, NEW f, NEW g, g[n + 1] \in Nat, Begins(f, g, n)
    PROVE  SumTo(g, n + 1) = SumTo(f, n) + g[n + 1] /\ SumTo(f, n) \in Nat
<1>0. \A k \in 1..n : f[k] \in Nat /\ g[k] = f[k]
  BY DEF Begins
<1>1. \A k \in 1..(n + 1) : g[k] \in Nat
  BY <1>0
<1>2. PICK s : IsSum(s, f, n) /\ SumTo(f, n) = s[n]
  BY <1>0, SumFacts
<1>3. PICK t : IsSum(t, g, n + 1) /\ SumTo(g, n + 1) = t[n + 1]
  BY <1>1, SumFacts
<1> DEFINE r == [k \in 0..n |-> t[k]]
<1>4. IsSum(r, g, n)
  BY <1>3 DEF IsSum
<1>5. \A k \in 1..n : f[k] \in Nat /\ g[k] = f[k] + (IF k = 1 THEN 0 ELSE 0)
  BY <1>0
<1>6. r[n] = t[n] /\ n \in 0..n /\ s[n] \in Nat /\ t[n + 1] = t[n] + g[n + 1]
  BY <1>2, <1>3 DEF IsSum
<1> DEFINE one == 1
           zero == 0
<1>7. one \in Nat \ {0} /\ zero \in Nat
  OBVIOUS
<1>8. MoreAt(f, g, n, one, zero)
  BY <1>5 DEF MoreAt
<1> HIDE DEF r, one, zero
<1>9. MoreFrom(s, r, n, one, zero)
  BY <1>2, <1>4, <1>7, <1>8, SumChange
<1>10. r[n] = s[n]
  BY <1>6, <1>9 DEF zero, MoreFrom
<1> QED BY <1>2, <1>3, <1>6, <1>10

\* Nothing sums to 0.
LEMMA SumNone ==
    ASSUME NEW f
    PROVE  SumTo(f, 0) = 0
<1> DEFINE zero == 0
<1>1. zero \in Nat /\ \A k \in 1..zero : f[k] \in Nat
  OBVIOUS
<1> HIDE DEF zero
<1>2. PICK s : IsSum(s, f, zero) /\ SumTo(f, zero) = s[zero]
  BY <1>1, SumFacts
<1> QED BY <1>2 DEF IsSum, zero

--------------------------------------------------------------------------------
(* The sum of the histogram.                                               *)

\* Observers whose duration is in a bucket and not yet in the sum.
Summing == {o \in Observers : observer[o].at = "sum"}

\* The observations, with 0 for those that have yet to be added.  place says which
\* observation is whose.
Added(place) ==
    [i \in DOMAIN observed |-> IF \E o \in Summing : place[o] = i THEN 0 ELSE observed[i]]

\* Every observer that has yet to add has an observation of its own, and the sum
\* is that of the others.
Places(place) ==
    /\ \A o \in Summing : place[o] \in DOMAIN observed /\ observed[place[o]] = observer[o].duration
    /\ \A o, x \in Summing : place[o] = place[x] => o = x
    /\ sum = SumTo(Added(place), Len(observed))

SumInv == \E place : Places(place)

\* At the start there is nothing to add.
LEMMA InitSumInv == Init => SumInv
<1> SUFFICES ASSUME Init PROVE SumInv
  OBVIOUS
<1>1. Summing = {} /\ Len(observed) = 0 /\ sum = 0
  BY DEF Init, MetricsInit, Summing
<1>2. SumTo(Added(<<>>), 0) = 0
  BY SumNone
<1>3. Places(<<>>)
  BY <1>1, <1>2 DEF Places
<1> QED BY <1>3 DEF SumInv

\* A new observation is its observer's, which has yet to add it.
LEMMA ObserveSumInv ==
    ASSUME MetricsTypeOK, SumInv, NEW o \in Observers, NEW d \in Durations, Observe(o, d)
    PROVE  SumInv'
<1> DEFINE n == Len(observed)
<1>1. PICK place : Places(place)
  BY DEF SumInv
<1>2. /\ observer[o].at = "idle" /\ d \in Nat /\ sum' = sum
      /\ observer' = [observer EXCEPT ![o] = [at |-> "sum", duration |-> d]]
      /\ observed' = Append(observed, d)
  BY ObserverAssumption DEF Observe
<1>3. /\ n \in Nat /\ DOMAIN observed = 1..n /\ Len(observed') = n + 1
      /\ DOMAIN observed' = 1..(n + 1) /\ observed'[n + 1] = d
      /\ \A i \in 1..n : observed'[i] = observed[i] /\ observed[i] \in Nat
  BY <1>2 DEF MetricsTypeOK
<1>4. /\ observer'[o] = [at |-> "sum", duration |-> d]
      /\ \A x \in Observers : x # o => observer'[x] = observer[x]
  BY <1>2 DEF MetricsTypeOK
<1>5. Summing' = Summing \union {o} /\ o \notin Summing
  BY <1>2, <1>4 DEF Summing
<1>0. PICK new : new = [x \in Summing' |-> IF x = o THEN n + 1 ELSE place[x]]
  OBVIOUS
<1>6. new[o] = n + 1 /\ \A x \in Summing : new[x] = place[x] /\ place[x] \in 1..n
  BY <1>0, <1>1, <1>3, <1>5 DEF Places
<1> DEFINE f == Added(place)
           g == [i \in 1..(n + 1) |-> IF \E x \in Summing' : new[x] = i THEN 0 ELSE observed'[i]]
<1>7. Added(new)' = g
  BY <1>3 DEF Added
<1> HIDE DEF n
<1>8. g[n + 1] = 0
  BY <1>3, <1>5, <1>6
<1>9. Begins(f, g, n)
  <2> SUFFICES ASSUME NEW k \in 1..n PROVE f[k] \in Nat /\ g[k] = f[k]
    BY DEF Begins
  <2>1. k # n + 1 /\ k \in 1..(n + 1) /\ observed'[k] = observed[k] /\ observed[k] \in Nat
    BY <1>3
  <2>2. (\E x \in Summing' : new[x] = k) <=> (\E x \in Summing : place[x] = k)
    BY <1>5, <1>6, <2>1
  <2>3. f[k] = IF \E x \in Summing : place[x] = k THEN 0 ELSE observed[k]
    BY <1>3 DEF Added
  <2>4. g[k] = IF \E x \in Summing' : new[x] = k THEN 0 ELSE observed'[k]
    BY <2>1
  <2> HIDE DEF f, g
  <2> QED BY <2>1, <2>2, <2>3, <2>4
<1>10. SumTo(g, n + 1) = SumTo(f, n)
  <2> HIDE DEF f, g
  <2>1. SumTo(g, n + 1) = SumTo(f, n) + g[n + 1] /\ SumTo(f, n) \in Nat
    BY <1>3, <1>8, <1>9, SumNext
  <2> QED BY <1>8, <2>1
<1>11. sum' = SumTo(Added(new)', Len(observed'))
  BY <1>1, <1>2, <1>3, <1>7, <1>10 DEF Places, n
<1>12. \A x \in Summing' : new[x] \in DOMAIN observed' /\ observed'[new[x]] = observer'[x].duration
  <2> SUFFICES ASSUME NEW x \in Summing'
               PROVE  new[x] \in 1..(n + 1) /\ observed'[new[x]] = observer'[x].duration
    BY <1>3
  <2>1. CASE x = o
    BY <1>3, <1>4, <1>6, <2>1
  <2>2. CASE x # o
    <3>1. x \in Summing /\ x \in Observers
      BY <1>5, <2>2 DEF Summing
    <3>2. new[x] = place[x] /\ place[x] \in 1..n /\ observed[place[x]] = observer[x].duration
      BY <1>1, <1>6, <3>1 DEF Places
    <3> QED BY <1>3, <1>4, <2>2, <3>1, <3>2
  <2> QED BY <2>1, <2>2
<1>13. \A x, y \in Summing' : new[x] = new[y] => x = y
  <2>1. \A x \in Summing : new[x] \in 1..n /\ new[x] # n + 1
    BY <1>3, <1>6
  <2>2. \A x, y \in Summing : new[x] = new[y] => x = y
    BY <1>1, <1>6 DEF Places
  <2> QED BY <1>5, <1>6, <2>1, <2>2
<1>14. Places(new)'
  <2>1. (\A x \in Summing : new[x] \in DOMAIN observed /\ observed[new[x]] = observer[x].duration)'
    BY <1>12
  <2> QED BY <1>11, <1>13, <2>1 DEF Places
<1> QED BY <1>14 DEF SumInv

\* An observer adds its duration, which was missing.
LEMMA AddSumSumInv ==
    ASSUME MetricsTypeOK, SumInv, NEW o \in Observers, AddSum(o)
    PROVE  SumInv'
<1> DEFINE n == Len(observed)
           d == observer[o].duration
<1>1. PICK place : Places(place)
  BY DEF SumInv
<1>2. /\ observer[o].at = "sum" /\ sum' = sum + d /\ observed' = observed
      /\ observer' = [observer EXCEPT ![o].at = "count"]
  BY DEF AddSum
<1>3. /\ n \in Nat /\ DOMAIN observed = 1..n /\ d \in Nat
      /\ \A i \in 1..n : observed[i] \in Nat
  BY DEF MetricsTypeOK
<1>4. /\ observer'[o].at = "count"
      /\ \A x \in Observers : x # o => observer'[x] = observer[x]
  BY <1>2 DEF MetricsTypeOK
<1>5. Summing' = Summing \ {o} /\ o \in Summing
  BY <1>2, <1>4 DEF Summing
<1> DEFINE j == place[o]
           f == Added(place)
           g == [i \in 1..n |-> IF \E x \in Summing' : place[x] = i THEN 0 ELSE observed[i]]
<1>6. j \in 1..n /\ observed[j] = d /\ \A x \in Summing : place[x] = j => x = o
  BY <1>1, <1>3, <1>5 DEF Places
<1>7. Added(place)' = g
  BY <1>2, <1>3 DEF Added
<1> HIDE DEF n, d
<1>8. MoreAt(f, g, n, j, d)
  <2> SUFFICES ASSUME NEW k \in 1..n
               PROVE  f[k] \in Nat /\ g[k] = f[k] + (IF k = j THEN d ELSE 0)
    BY DEF MoreAt
  <2>1. f[k] = IF \E x \in Summing : place[x] = k THEN 0 ELSE observed[k]
    BY <1>3 DEF Added
  <2>2. g[k] = IF \E x \in Summing' : place[x] = k THEN 0 ELSE observed[k]
    OBVIOUS
  <2>3. observed[k] \in Nat
    BY <1>3
  <2> HIDE DEF f, g, j
  <2>4. CASE k = j
    <3>1. f[k] = 0
      BY <1>5, <2>1, <2>4 DEF j
    <3>2. g[k] = d
      BY <1>5, <1>6, <2>2, <2>4
    <3> QED BY <1>3, <2>4, <3>1, <3>2
  <2>5. CASE k # j
    <3>1. (\E x \in Summing' : place[x] = k) <=> (\E x \in Summing : place[x] = k)
      BY <1>5, <2>5 DEF j
    <3> QED BY <2>1, <2>2, <2>3, <2>5, <3>1
  <2> QED BY <2>4, <2>5
<1>9. SumTo(g, n) = SumTo(f, n) + d
  <2> HIDE DEF f, g, j
  <2> QED BY <1>3, <1>6, <1>8, SumMore
<1>10. sum' = SumTo(Added(place)', Len(observed'))
  BY <1>1, <1>2, <1>7, <1>9 DEF Places, n, d
<1>11. \A x \in Summing' : place[x] \in DOMAIN observed' /\ observed'[place[x]] = observer'[x].duration
  <2> SUFFICES ASSUME NEW x \in Summing'
               PROVE  place[x] \in DOMAIN observed /\ observed[place[x]] = observer'[x].duration
    BY <1>2
  <2>1. x \in Summing /\ x # o /\ x \in Observers
    BY <1>5 DEF Summing
  <2> QED BY <1>1, <1>4, <2>1 DEF Places
<1>12. \A x, y \in Summing' : place[x] = place[y] => x = y
  BY <1>1, <1>5 DEF Places
<1>13. Places(place)'
  BY <1>10, <1>11, <1>12 DEF Places
<1> QED BY <1>13 DEF SumInv

\* The other steps leave the sum and who adds to it alone.
LEMMA StepSumInv ==
    ASSUME MetricsTypeOK, SumInv, [Next]_vars
    PROVE  SumInv'
<1>1. CASE \E o \in Observers : AddSum(o)
  BY <1>1, AddSumSumInv
<1>2. CASE Working
  BY <1>2, ObserveSumInv DEF Working
<1>3. CASE UNCHANGED <<sum, observed, observer>> \/ \E o \in Observers : AddCount(o)
  <2>1. UNCHANGED <<sum, observed, Summing>> /\ \A x \in Summing : observer'[x] = observer[x]
    <3>1. CASE UNCHANGED <<sum, observed, observer>>
      BY <3>1 DEF Summing
    <3>2. ASSUME NEW o \in Observers, AddCount(o)
          PROVE  UNCHANGED <<sum, observed, Summing>> /\ \A x \in Summing : observer'[x] = observer[x]
      <4>1. /\ UNCHANGED <<sum, observed>> /\ observer[o].at = "count"
            /\ observer' = [observer EXCEPT ![o] = [at |-> "idle", duration |-> 0]]
        BY <3>2 DEF AddCount
      <4>2. observer'[o].at = "idle" /\ \A x \in Observers : x # o => observer'[x] = observer[x]
        BY <4>1 DEF MetricsTypeOK
      <4> QED BY <4>1, <4>2 DEF Summing
    <3> QED BY <1>3, <3>1, <3>2
  <2>2. PICK place : Places(place)
    BY DEF SumInv
  <2>3. Added(place)' = Added(place)
    BY <2>1 DEF Added
  <2>4. Places(place)'
    BY <2>1, <2>2, <2>3 DEF Places
  <2> QED BY <2>4 DEF SumInv
<1>4. \/ \E o \in Observers : AddSum(o)
      \/ Working
      \/ UNCHANGED <<sum, observed, observer>> \/ \E o \in Observers : AddCount(o)
  BY DEF Next, Starting, Serving, MetricsStep, BeginScrape, ReadBucket, ReadSum, ReadCount, vars, metricVars
<1> QED BY <1>1, <1>2, <1>3, <1>4

--------------------------------------------------------------------------------
(* The theorems about the histogram.                                       *)

\* HInv is an invariant of the process.
THEOREM HistogramInvariant == Spec => []HInv
<1>1. StartInv /\ HInv /\ [Next]_vars => HInv'
  BY StepHInv
<1> QED BY InitHInv, <1>1, StartInvariant, PTL DEF Spec

\* handleMetrics reads bucket after bucket while observers add to them; still
\* each response is a histogram, at most one observation per observer ahead of
\* its count, and no series goes back from a response to the next.
THEOREM HistogramReports == Spec => []ReportsAreHistograms
<1>1. HInv => ReportsAreHistograms
  BY DEF HInv
<1> QED BY HistogramInvariant, <1>1, PTL

\* A scrape that races buildHTTPClient finds no proxy or the one the requests
\* will go through.
THEOREM HistogramProxy == Spec => []NamedProxyIsUsed
<1>1. StartInv /\ HInv => NamedProxyIsUsed
  BY DEF StartInv, SettledInv, HInv, ReportInv, Whole, NamedProxyIsUsed, Running
<1> QED BY StartInvariant, HistogramInvariant, <1>1, PTL

\* The buckets up to b are those for the durations up to b's bound.
LEMMA BucketRange ==
    ASSUME NEW d \in Nat, NEW b \in DOMAIN Bounds
    PROVE  BucketOf(d) <= b <=> d <= Bounds[b]
<1> DEFINE S == {c \in DOMAIN Bounds : d <= Bounds[c]} \union {Len(Bounds) + 1}
           m == BucketOf(d)
<1>1. S \subseteq Buckets /\ S # {}
  BY BoundsAssumption DEF Buckets
<1>2. S \subseteq Nat
  BY <1>1, BoundFacts
<1>3. m = CHOOSE c \in S : \A e \in S : c <= e
  BY DEF BucketOf, Min
<1>4. m \in S /\ \A e \in S : m <= e
  <2> HIDE DEF S, m
  <2> QED BY <1>1, <1>2, <1>3, HasLeast
<1>5. /\ Len(Bounds) \in Nat /\ b \in 1..Len(Bounds) /\ m \in Nat
      /\ \A c \in 1..Len(Bounds) : Bounds[c] \in Nat
  BY <1>2, <1>4, BoundsAssumption
<1>6. ASSUME d <= Bounds[b] PROVE m <= b
  BY <1>4, <1>6
<1>7. ASSUME m <= b PROVE d <= Bounds[b]
  <2>1. m \in 1..Len(Bounds) /\ d <= Bounds[m]
    <3> HIDE DEF m
    <3> QED BY <1>4, <1>5, <1>7, BoundsAssumption
  <2> HIDE DEF m, S
  <2> DEFINE T == {c \in m..b : ~(d <= Bounds[c])}
  <2>2. CASE T = {}
    BY <1>5, <1>7, <2>2
  <2>3. CASE T # {}
    <3>1. T \subseteq Nat
      BY <1>5
    <3>2. PICK c \in T : \A e \in T : c <= e
      BY <2>3, <3>1, HasLeast
    <3>3. c \in m..b /\ c # m /\ ~(d <= Bounds[c])
      BY <2>1, <3>2
    <3>4. c - 1 \in m..b /\ c - 1 \in 1..(Len(Bounds) - 1) /\ c \in 1..Len(Bounds) /\ c - 1 < c
      BY <1>5, <2>1, <3>3
    <3>5. d <= Bounds[c - 1]
      BY <3>2, <3>4
    <3>6. Bounds[c - 1] < Bounds[(c - 1) + 1] /\ (c - 1) + 1 = c
      BY <3>4, BoundsAssumption
    <3>7. Bounds[c] \in Nat /\ Bounds[c - 1] \in Nat
      BY <1>5, <3>4
    <3> QED BY <3>3, <3>5, <3>6, <3>7
  <2> QED BY <2>2, <2>3
<1> QED BY <1>6, <1>7

\* What HistogramExactAtRest says of count and buckets, at any time: an observer
\* is missing from the count only while it observes, and a bucket has the
\* durations up to its bound that are not up to the bound before it.
HistogramExact ==
    /\ count = Len(observed) - Cardinality(Active)
    /\ \A b \in DOMAIN Bounds :
         counts[b] = UpTo(Bounds[b]) - (IF b = 1 THEN 0 ELSE UpTo(Bounds[b - 1]))

\* HInv says so.
LEMMA HistogramFacts == HInv => HistogramExact
<1> SUFFICES ASSUME HInv PROVE HistogramExact
  OBVIOUS
<1>0. MetricsTypeOK /\ 1 \in Buckets
  BY BoundFacts DEF HInv
<1>1. count = Len(observed) - Cardinality(Active)
  <2>1. Len(observed) = count + Cardinality(Active) /\ count \in Nat
    BY DEF HInv, CountInv, MetricsTypeOK
  <2>2. Cardinality(Active) \in Nat
    BY <1>0, InFacts
  <2> QED BY <2>1, <2>2
<1>2. ASSUME NEW b \in DOMAIN Bounds PROVE UpTo(Bounds[b]) = Cardinality(Through(b))
  <2>1. \A i \in DOMAIN observed : observed[i] \in Nat
    BY <1>0 DEF MetricsTypeOK
  <2>2. {i \in DOMAIN observed : observed[i] <= Bounds[b]} = Through(b)
    BY <2>1, BucketRange DEF Through
  <2> QED BY <2>2 DEF UpTo
<1>3. ASSUME NEW b \in DOMAIN Bounds
      PROVE  counts[b] = UpTo(Bounds[b]) - (IF b = 1 THEN 0 ELSE UpTo(Bounds[b - 1]))
  <2>0. b \in Buckets /\ (b # 1 => b - 1 \in DOMAIN Bounds)
    BY BoundsAssumption DEF Buckets
  <2>1. counts[b] = Cardinality(In(b)) /\ Cardinality(In(b)) \in Nat
    BY <1>0, <2>0, InFacts DEF HInv, CountInv
  <2>2. CASE b = 1
    <3>1. UpTo(Bounds[b]) = counts[b]
      BY <1>0, <1>2, <2>0, <2>1, <2>2, ThroughNext
    <3> QED BY <2>1, <2>2, <3>1
  <2>3. CASE b # 1
    <3>1. /\ b - 1 \in Buckets
          /\ Cardinality(Through(b)) = Cardinality(Through(b - 1)) + Cardinality(In(b))
      BY <1>0, <2>0, <2>3, ThroughNext
    <3>2. Cardinality(Through(b - 1)) \in Nat
      BY <1>0, <3>1, InFacts
    <3>3. /\ UpTo(Bounds[b]) = Cardinality(Through(b))
          /\ UpTo(Bounds[b - 1]) = Cardinality(Through(b - 1))
      BY <1>2, <2>0, <2>3
    <3> QED BY <2>1, <2>3, <3>1, <3>2, <3>3
  <2> QED BY <2>2, <2>3
<1> QED BY <1>1, <1>3 DEF HistogramExact

\* No observation is lost or counted twice between concurrent observers
\* (observeFetchLatency, observeCommitLatency).
THEOREM HistogramCounts == Spec => []HistogramExact
<1>1. HInv => HistogramExact
  BY HistogramFacts
<1> QED BY HistogramInvariant, <1>1, PTL

\* The buckets up to b's bound sum to the observations up to it.
LEMMA BucketsSum ==
    ASSUME HInv, HistogramExact, NEW b \in DOMAIN Bounds
    PROVE  UpTo(Bounds[b]) = SumTo(counts, b)
<1> DEFINE Odd == {c \in DOMAIN Bounds : UpTo(Bounds[c]) # SumTo(counts, c)}
<1>0. /\ DOMAIN Bounds = 1..Len(Bounds) /\ Len(Bounds) \in Nat
      /\ \A c \in DOMAIN Bounds : c \in Buckets /\ counts[c] \in Nat
  BY BoundsAssumption DEF Buckets, HInv, MetricsTypeOK
<1>1. SUFFICES ASSUME Odd # {} PROVE FALSE
  BY <1>1
<1>2. PICK c \in Odd : \A e \in Odd : c <= e
  <2>1. Odd \subseteq Nat
    BY <1>0
  <2> HIDE DEF Odd
  <2> QED BY <1>1, <2>1, HasLeast
<1>3. /\ c \in 1..Len(Bounds) /\ counts[c] \in Nat
      /\ counts[c] = UpTo(Bounds[c]) - (IF c = 1 THEN 0 ELSE UpTo(Bounds[c - 1]))
  BY <1>0, <1>2 DEF HistogramExact
<1> DEFINE m == c - 1
<1>4. m \in Nat /\ m + 1 = c /\ Begins(counts, counts, m)
  BY <1>0, <1>3 DEF Begins
<1>5. SumTo(counts, c) = SumTo(counts, m) + counts[c] /\ SumTo(counts, m) \in Nat
  <2>1. counts[m + 1] \in Nat
    BY <1>3, <1>4
  <2> HIDE DEF m
  <2>2. SumTo(counts, m + 1) = SumTo(counts, m) + counts[m + 1] /\ SumTo(counts, m) \in Nat
    BY <1>4, <2>1, SumNext
  <2> QED BY <1>4, <2>2
<1>6. UpTo(Bounds[c]) \in Nat
  <2>1. IsFiniteSet(DOMAIN observed)
    BY <1>0, <1>3, InFacts DEF HInv
  <2>2. {i \in DOMAIN observed : observed[i] <= Bounds[c]} \subseteq DOMAIN observed
    OBVIOUS
  <2> QED BY <2>1, <2>2, FS_Subset, FS_CardinalityType DEF UpTo
<1>7. CASE c = 1
  <2>1. SumTo(counts, m) = 0
    BY <1>7, SumNone
  <2> HIDE DEF m
  <2>2. UpTo(Bounds[c]) = SumTo(counts, c)
    BY <1>3, <1>5, <1>6, <1>7, <2>1
  <2> QED BY <1>2, <2>2
<1>8. CASE c # 1
  <2>1. m \in DOMAIN Bounds /\ ~(c <= m)
    BY <1>0, <1>3, <1>8
  <2>2. UpTo(Bounds[m]) = SumTo(counts, m)
    BY <1>2, <2>1
  <2>3. counts[c] = UpTo(Bounds[c]) - UpTo(Bounds[m])
    BY <1>3, <1>8
  <2> HIDE DEF m
  <2>4. UpTo(Bounds[c]) = SumTo(counts, c)
    BY <1>3, <1>5, <1>6, <2>2, <2>3
  <2> QED BY <1>2, <2>4
<1> QED BY <1>7, <1>8

\* When no observer is between its three atomic additions, the histogram has
\* every observation once: in the count, in the sum and in the buckets.
THEOREM HistogramAtRest == Spec => []HistogramExactAtRest
<1>1. Init => SumInv
  BY InitSumInv
<1>2. HInv /\ SumInv /\ [Next]_vars => SumInv'
  BY StepSumInv DEF HInv
<1>3. HInv /\ SumInv => HistogramExactAtRest
  <2> SUFFICES ASSUME HInv, SumInv, \A o \in Observers : observer[o].at = "idle"
               PROVE  /\ count = Len(observed)
                      /\ sum = SumTo(observed, Len(observed))
                      /\ \A b \in DOMAIN Bounds : UpTo(Bounds[b]) = SumTo(counts, b)
    BY DEF HistogramExactAtRest
  <2>1. HistogramExact
    BY HistogramFacts
  <2>2. \A b \in DOMAIN Bounds : UpTo(Bounds[b]) = SumTo(counts, b)
    BY <2>1, BucketsSum
  <2>3. count = Len(observed)
    <3>1. Active = {}
      BY DEF Active
    <3>2. Cardinality(Active) = 0
      BY <3>1, FS_EmptySet
    <3>3. Len(observed) \in Nat
      BY DEF HInv, MetricsTypeOK
    <3> QED BY <2>1, <3>2, <3>3 DEF HistogramExact
  <2>4. sum = SumTo(observed, Len(observed))
    <3>1. PICK place : Places(place)
      BY DEF SumInv
    <3>2. Summing = {}
      BY DEF Summing
    <3>3. Added(place) = [i \in DOMAIN observed |-> observed[i]]
      BY <3>2 DEF Added
    <3>4. Added(place) = observed
      BY <3>3 DEF HInv, MetricsTypeOK
    <3> QED BY <3>1, <3>4 DEF Places
  <2> QED BY <2>2, <2>3, <2>4
<1> QED BY <1>1, <1>2, <1>3, HistogramInvariant, PTL DEF Spec

================================================================================
