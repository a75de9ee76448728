--------------------------------- MODULE Metrics ---------------------------------
(***************************************************************************)
(* The latency histograms of a worker and the /metrics handler             *)
(* (cmd/worker/worker_metrics.go).  Job goroutines, or the coordinator,    *)
(* add an observation in three atomic steps; a scrape reads the parts one  *)
(* by one.  The module has one histogram; the fetch and the commit         *)
(* histogram have the same code.                                           *)
(***************************************************************************)
EXTENDS Integers, Sequences, FiniteSets, FiniteSetsExt, SequencesExt

CONSTANTS
    Observers,    \* goroutines that observe
    Durations,    \* bound: what a request may take
    Bounds        \* the upper bounds of the buckets; the last bucket is +Inf

ASSUME BoundsAssumption ==
    /\ Bounds \in Seq(Nat)
    /\ \A i \in 1..(Len(Bounds) - 1) : Bounds[i] < Bounds[i + 1]

ASSUME ObserverAssumption == IsFiniteSet(Observers) /\ Durations \subseteq Nat

VARIABLES
    counts,       \* observations per bucket
    sum, count,
    observer,     \* the observation each goroutine is making
    observed,     \* history: durations of the observations begun, in order
    scrape,       \* the response being written
    reports       \* history: responses

metricVars == <<counts, sum, count, observer, observed, scrape, reports>>

Buckets == 1..(Len(Bounds) + 1)
NoScrape == [at |-> 0, label |-> "", buckets |-> <<>>, sum |-> 0, count |-> 0]

MetricsInit ==
    /\ counts = [b \in Buckets |-> 0]
    /\ sum = 0
    /\ count = 0
    /\ observer = [o \in Observers |-> [at |-> "idle", duration |-> 0]]
    /\ observed = <<>>
    /\ scrape = NoScrape
    /\ reports = <<>>

--------------------------------------------------------------------------------
(* observeFetchLatency, observeCommitLatency.                               *)

\* The first bound that is not exceeded, or +Inf.
BucketOf(d) == Min({b \in DOMAIN Bounds : d <= Bounds[b]} \union {Len(Bounds) + 1})

\* A duration of 0, which a coarse clock may give, is not counted.
Observe(o, d) ==
    /\ observer[o].at = "idle"
    /\ d > 0
    /\ counts' = [counts EXCEPT ![BucketOf(d)] = @ + 1]
    /\ observer' = [observer EXCEPT ![o] = [at |-> "sum", duration |-> d]]
    /\ observed' = Append(observed, d)
    /\ UNCHANGED <<sum, count, scrape, reports>>

AddSum(o) ==
    /\ observer[o].at = "sum"
    /\ sum' = sum + observer[o].duration
    /\ observer' = [observer EXCEPT ![o].at = "count"]
    /\ UNCHANGED <<counts, count, observed, scrape, reports>>

\* Mutant: the counter is set from a bucket's, not added to.
AddCountFromBucket(o) ==
    /\ observer[o].at = "count"
    /\ count' = counts[BucketOf(observer[o].duration)]
    /\ observer' = [observer EXCEPT ![o] = [at |-> "idle", duration |-> 0]]
    /\ UNCHANGED <<counts, sum, observed, scrape, reports>>

AddCount(o) ==
    /\ observer[o].at = "count"
    /\ count' = count + 1
    /\ observer' = [observer EXCEPT ![o] = [at |-> "idle", duration |-> 0]]
    /\ UNCHANGED <<counts, sum, observed, scrape, reports>>

--------------------------------------------------------------------------------
(* handleMetrics and appendHistogram.  What a step reads is at its place in *)
(* the response: the proxy label, the buckets, the sum, the count.          *)

\* proxyLabel is what the handler finds in metricsProxyURL.
BeginScrape(proxyLabel) ==
    /\ scrape.at = 0
    /\ scrape' = [at |-> 1, label |-> proxyLabel, buckets |-> <<>>, sum |-> 0, count |-> 0]
    /\ UNCHANGED <<counts, sum, count, observer, observed, reports>>

\* The response, one step further.
Written(buckets, total) ==
    [at |-> scrape.at + 1, label |-> scrape.label, buckets |-> buckets, sum |-> total, count |-> 0]

Cumulative(b) == counts[b] + (IF b = 1 THEN 0 ELSE scrape.buckets[b - 1])

ReadBucket ==
    /\ scrape.at \in Buckets
    /\ scrape' = Written(Append(scrape.buckets, Cumulative(scrape.at)), 0)
    /\ UNCHANGED <<counts, sum, count, observer, observed, reports>>

\* Mutant: the sum is that of the time since the last response.
ReadSumDelta ==
    /\ scrape.at = Len(Bounds) + 2
    /\ scrape' = Written(scrape.buckets,
                          IF reports = <<>> THEN sum ELSE sum - Last(reports).sum)
    /\ UNCHANGED <<counts, sum, count, observer, observed, reports>>

ReadSum ==
    /\ scrape.at = Len(Bounds) + 2
    /\ scrape' = Written(scrape.buckets, sum)
    /\ UNCHANGED <<counts, sum, count, observer, observed, reports>>

ReadCount ==
    /\ scrape.at = Len(Bounds) + 3
    /\ reports' = Append(reports, [scrape EXCEPT !.count = count])
    /\ scrape' = NoScrape
    /\ UNCHANGED <<counts, sum, count, observer, observed>>

MetricsStep ==
    (\E o \in Observers : AddSum(o) \/ AddCount(o)) \/ ReadBucket \/ ReadSum \/ ReadCount

--------------------------------------------------------------------------------
(* Properties.                                                              *)

UpTo(bound) == Cardinality({i \in DOMAIN observed : observed[i] <= bound})

\* The sum of the first n values of f.
SumTo(f, n) ==
    LET s[k \in 0..n] == IF k = 0 THEN 0 ELSE s[k - 1] + f[k]
    IN  s[n]

\* When nobody is in the middle of an observation the histogram is exact:
\* nothing is lost between concurrent observers, and a bucket counts the
\* durations up to its bound.
HistogramExactAtRest ==
    (\A o \in Observers : observer[o].at = "idle") =>
        /\ count = Len(observed)
        /\ sum = SumTo(observed, Len(observed))
        /\ \A b \in DOMAIN Bounds : UpTo(Bounds[b]) = SumTo(counts, b)

\* Every response is a histogram, whatever is observed while it is written: its
\* buckets do not decrease, and what +Inf has above the count is no more than
\* observations under way.  And to the server that scrapes, every series is a
\* counter: it never goes back from one response to the next.
ReportsAreHistograms ==
    /\ \A k \in DOMAIN reports :
         LET buckets == reports[k].buckets
         IN  /\ \A b \in DOMAIN Bounds : buckets[b] <= buckets[b + 1]
             /\ buckets[Len(Bounds) + 1] - reports[k].count <= Cardinality(Observers)
    /\ \A k \in 1..(Len(reports) - 1) :
         /\ \A b \in Buckets : reports[k].buckets[b] <= reports[k + 1].buckets[b]
         /\ reports[k].sum <= reports[k + 1].sum
         /\ reports[k].count <= reports[k + 1].count
================================================================================
