------------------------------ MODULE WorkerProcess ------------------------------
(***************************************************************************)
(* A worker process from its start: main brings it up while the metrics    *)
(* server it started first is being scraped; then jobs run and observe.    *)
(***************************************************************************)
EXTENDS Startup, Metrics

vars == <<startVars, metricVars>>

Init == StartInit /\ MetricsInit

Starting == (MainStep \/ RobotsLoaded) /\ UNCHANGED metricVars

\* What a scrape finds in metricsProxyURL.  While main is writing it, the old or
\* the new value; a torn one ends the request with a recovered panic, and
\* nothing is reported.
LabelRead == IF pc = "label" THEN {label, proxyURL} ELSE {label}

Serving ==
    /\ pc \notin {"metrics", "panicked"}
    /\ \/ Len(reports) < env.scrapes /\ \E l \in LabelRead : BeginScrape(l)
       \/ MetricsStep
    /\ UNCHANGED startVars

\* A job goroutine has fetched a page, or the coordinator has committed.
Working ==
    /\ Running
    /\ Len(observed) < env.load
    /\ \E o \in Observers, d \in Durations : Observe(o, d)
    /\ UNCHANGED startVars

Next == Starting \/ Serving \/ Working

\* main runs on, and the timeout of the robots.txt fetch fires; no answer to
\* that fetch is assumed.
Spec == Init /\ [][Next]_vars /\ WF_vars(MainStep /\ UNCHANGED metricVars)

--------------------------------------------------------------------------------
(* Properties.                                                              *)

\* A scrape may come before main has chosen a proxy.  But a proxy it names is
\* the one the process ends up with, and requests go through it unless it is no
\* URL at all.
NamedProxyIsUsed ==
    \A k \in DOMAIN reports :
        (Running /\ reports[k].label # "") =>
            /\ label = reports[k].label
            /\ proxy = (IF label \in BadURLs THEN "" ELSE label)

\* The process comes up, or says that it cannot, even if the site never answers
\* the request for robots.txt.
StartEnds == <>(pc \in {"running", "panicked"})
================================================================================
