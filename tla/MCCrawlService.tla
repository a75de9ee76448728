----------------------------- MODULE MCCrawlService -----------------------------
(* Two requests for a work, a search or a page of another site, written in    *)
(* several ways.                                                              *)
EXTENDS CrawlService

Work == OnSite(<<"/", "works", "/", "OL1W", ".json">>)
Author == OnSite(<<"/", "authors", "/", "OL1A", ".json">>)
Elsewhere == <<"http://", "example.org", "/", "works", "/", "OL1W", ".json">>
Search == SearchURL(<<"tolkien", "/", "lotr">>)

CONSTANTS r1, r2
Slash == OnSite(<<"/", "works", "/", "OL1W", "/">>)
Bare == <<"http://", "example.org", "/", "works", "/", "OL1W">>
Query == <<"tolkien", "/", "lotr">>

MCPageOf ==
    Slash :> Work @@ Work :> Work @@ Query :> Search @@ Bare :> Elsewhere
Two(t1, k1, t2, k2) == r1 :> [text |-> t1, tick |-> k1] @@ r2 :> [text |-> t2, tick |-> k2]
MCInputs == {Two(Slash, 0, Work, 0), Two(Slash, 0, Query, 1), Two(Query, 0, <<>>, 1),
             Two(Bare, 0, Slash, 1)}

\* Without a limit, a work, its author and a search lead to each other and to
\* themselves; with one, a page is reached at two depths.  Another site's page has no
\* links a job would follow.
Site(limit, w, a, s) ==
    [maxDepth |-> limit, links |-> Work :> w @@ Author :> a @@ Search :> s @@ Elsewhere :> {}]
MCURLs == {Work, Author, Search, Elsewhere}
MCSearches == {Search}
MCSites == {Site(0, {Author}, {Search}, {Work, Search}), Site(1, {Author, Search}, {Search}, {})}

ASSUME MCSpellings == SpellingsAgree
================================================================================
