----------------------------- MODULE MCWorkerProcess -----------------------------
(* One part of the environment varies at a time.                               *)
EXTENDS WorkerProcess

Unset == [kind |-> "unset"]
Junk == [kind |-> "junk"]
Plain ==
    [jobs |-> Unset, jobTimeout |-> Unset, publishTimeout |-> Unset, proxyURL |-> "",
     pool |-> <<>>, hash |-> 0, narrow |-> FALSE, respect |-> FALSE, file |-> <<>>,
     pages |-> {}, load |-> 0, scrapes |-> 0]

\* Around 0, the default, and where doubling wraps around (IntMax = 127).
Sizes == {[Plain EXCEPT !.jobs = v] :
            v \in {Unset, Junk} \union
                  {Number(n) : n \in {-128, -126, -65, -64, -1, 0, 1, 40, 63, 64, 127, 128}}}

\* Around the bounds of newWorker.
Seconds == {Unset, Junk} \union {Number(n) : n \in {-1, 0, 1, 30, 31, 60, 89, 90, 91, 300, 400}}
Timeouts == {[Plain EXCEPT !.jobTimeout = j, !.publishTimeout = p] : j, p \in Seconds}

Proxies == {[Plain EXCEPT !.proxyURL = u, !.pool = p, !.hash = h, !.narrow = n, !.scrapes = 1] :
              u \in {"", "p1", "bad"}, p \in {<<>>, <<"", "p2">>, <<"p2", "", "p3", "bad">>},
              h \in {0, 7, 8, 15}, n \in BOOLEAN}

\* Every robots.txt of up to four lines, and a site that does not answer.
Lines == {[kind |-> "agent", agent |-> a] : a \in {"*", DefaultUserAgent, "RelentlessBookworm"}}
         \union {[kind |-> "disallow", path |-> p] :
                   p \in {<<>>, <<"/">>, <<"/", "search">>, <<"works", "/">>}}
         \union {[kind |-> k] : k \in {"other", "overlong"}}
Pages == {SearchURL(<<"tolkien">>), OnSite(<<"/", "works", "/", "OL1W", ".json">>),
          OnSite(<<".json">>), OnSite(<<"/", Invalid>>)}
Robots == {[Plain EXCEPT !.respect = TRUE, !.file = f, !.pages = Pages] :
             f \in UNION {[1..n -> Lines] : n \in 0..4}}

Load == {[Plain EXCEPT !.load = 3, !.scrapes = 2]}

MCEnvironments == Sizes \union Timeouts \union Proxies \union Robots \union Load
MCBounds == <<1, 2>>
================================================================================
