------------------------------ MODULE OpenLibrary ------------------------------
(***************************************************************************)
(* URLs and robots.txt rules (internal/ol/client.go, internal/ol/robots.go).*)
(*                                                                         *)
(* A text is a sequence of tokens, cut where the code looks at it: the     *)
(* scheme and the host of a URL, "/", ".json" and "?" are tokens of their  *)
(* own, and two texts are prefix, suffix or part of each other exactly     *)
(* when their token sequences are.                                         *)
(***************************************************************************)
EXTENDS Integers, Sequences, SequencesExt

Schemes == {"http://", "https://"}
OnSite(path) == <<"https://", "openlibrary.org">> \o path
Invalid == "%"       \* a token that makes url.Parse fail

HasPart(t, part) == \E i \in 0..(Len(t) - Len(part)) :
                        SubSeq(t, i + 1, i + Len(part)) = part

TrimSlashes(t) == SubSeq(t, 1, SelectLastInSeq(t, LAMBDA c : c # "/"))

\* A query is not told from a path: the suffix lands behind it.
EnsureJSONURL(u) ==
    IF IsSuffix(<<".json">>, u) THEN u ELSE TrimSlashes(u) \o <<".json">>

\* url.QueryEscape: what would end the query or start a path is escaped.
QueryEscape(t) == [i \in DOMAIN t |-> CASE t[i] = "/" -> "%2F" [] t[i] = "?" -> "%3F"
                                       [] t[i] = Invalid -> "%25" [] OTHER -> t[i]]

SearchURL(query) == OnSite(<<"/", "search", ".json", "?">>) \o QueryEscape(query)

isSearchURL(u) == HasPart(u, <<"/", "search", ".json">>)

\* What the API takes a client's text for: a URL of any site, or words.
normalizeSeedURL(t) == IF Head(t) \in Schemes THEN EnsureJSONURL(t) ELSE SearchURL(t)

--------------------------------------------------------------------------------
(* robots.txt.  A line is the agent of a User-agent line, the path of a     *)
(* Disallow line, a line the parser skips, or one longer than the scanner  *)
(* takes (64 KiB).  The parser ignores the letter case of an agent, so an  *)
(* agent stands for all spellings of it.                                   *)

Line == [kind : {"agent"}, agent : STRING] \union [kind : {"disallow"}, path : Seq(STRING)]
        \union [kind : {"other", "overlong"}]

normalizePath(p) == IF p # <<>> /\ Head(p) = "/" THEN p ELSE <<"/">> \o p

\* The path of a URL begins at its first slash and ends before its query.
PathFromURL(u) ==
    LET query == SelectInSeq(u, LAMBDA c : c = "?")
        bare == IF query = 0 THEN u ELSE SubSeq(u, 1, query - 1)
        slash == SelectInSeq(bare, LAMBDA c : c = "/")
    IN  IF Contains(u, Invalid) THEN <<>>
        ELSE normalizePath(IF slash = 0 THEN <<>> ELSE SubSeq(bare, slash, Len(bare)))

DefaultUserAgent == "RelentlessBookworm/1.0 (+https://github.com/relentless-bookworm)"

\* The agent is compared with the whole header, not with the crawler's name.
Matches(line) == line.kind = "agent" /\ line.agent \in {"*", DefaultUserAgent}

\* Mutant: the flag stays set at an agent line of somebody else.
AfterLineSticky(inMatchingBlock, line) == inMatchingBlock \/ Matches(line)

\* The flag after a line: an agent line sets it if it is for us and the flag is
\* not set, and otherwise clears it.
AfterLine(inMatchingBlock, line) ==
    IF line.kind = "agent" THEN Matches(line) /\ ~inMatchingBlock ELSE inMatchingBlock

\* The flag after each number of lines.
InMatchingBlock(file) ==
    LET flag[n \in 0..Len(file)] == n # 0 /\ AfterLine(flag[n - 1], file[n])
    IN  flag

\* Scan returns false at an overlong line, and nobody asks scanner.Err: the rest of
\* the file is not read.
Scanned(file) == {i \in DOMAIN file : \A j \in 1..i : file[j].kind # "overlong"}

\* The paths of the Disallow lines the loop meets with the flag set.
ParseRobots(file) ==
    {normalizePath(file[i].path) :
       i \in {j \in Scanned(file) : /\ file[j].kind = "disallow" /\ file[j].path # <<>>
                                    /\ InMatchingBlock(file)[j - 1]}}

\* Mutant: a rule forbids the path it names and no longer one.
AllowedExact(rules, path) == normalizePath(path) \notin rules

\* Whether the rules let the worker fetch a path.  No rules allow everything.
Allowed(rules, path) ==
    rules = {} \/ \A prefix \in rules : ~IsPrefix(prefix, normalizePath(path))
================================================================================
