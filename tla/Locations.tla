------------------------------ MODULE Locations ------------------------------
(***************************************************************************)
(* location_normalize.py and the parsers that identify what they report by *)
(* it (nuclei's and katana's): the lines of a tool's output become findings *)
(* one per location, so one endpoint must have one normal form and two     *)
(* endpoints two.                                                          *)
(*                                                                         *)
(* A URL is its parts; a path or query is a sequence of tokens, a percent  *)
(* escape being one token. Any other location is a text, cut at its path   *)
(* separators into parts, with what follows the first colon in `rest`.     *)
(***************************************************************************)
EXTENDS Integers, Sequences, FiniteSets

CONSTANTS Urls,         \* the URLs that are reported
          Plain,        \* the other locations that are reported
          LowerOf,      \* text -> its lower-case form
          Templates,    \* nuclei's checks
          MAX_URLS,     \* findings katana's parser keeps
          MaxLines      \* bound on the lines of an output

Authority == [user : STRING, host : STRING, port : STRING]
Escaped == Seq(STRING \X STRING)
Url == [kind : {"url"}, splits : BOOLEAN, scheme : STRING, authority : Authority,
        path : Escaped, query : Escaped, fragment : STRING]
Text == [kind : {"plain"}, parts : Seq(STRING), seps : Seq(STRING), rest : STRING]

Lower(t) == IF t \in DOMAIN LowerOf THEN LowerOf[t] ELSE t

ASSUME LocationsAssumption ==
    /\ Urls \subseteq Url
    /\ Plain \subseteq Text /\ \A p \in Plain : Len(p.seps) = Len(p.parts) - 1
    /\ \A t \in DOMAIN LowerOf : t # "" /\ LowerOf[t] \in STRING \ {""}
    /\ Lower("http") = "http" /\ Lower("https") = "https"
    /\ MAX_URLS \in Nat

VARIABLES parser,       \* the runner whose output is parsed
          lines,        \* the lines read so far
          found         \* the findings made of them, in order
locationVars == <<parser, lines, found>>

\* A percent escape is the token <<"%", digits>>; its digits lose their case.
_lowercase_percent_escapes(ts) ==
    [i \in DOMAIN ts |-> IF ts[i][1] = "%" THEN <<"%", Lower(ts[i][2])>> ELSE ts[i]]

_DEFAULT_PORTS == [http |-> "80", https |-> "443"]

\* Mutant: a default port is dropped whatever the scheme.
_normalize_authorityAnyScheme(a, scheme) ==
    [a EXCEPT !.host = Lower(@), !.port = IF @ \in {"", "80", "443"} THEN "none" ELSE @]

\* User information stays; an empty or default port goes.
_normalize_authority(a, scheme) ==
    [a EXCEPT !.host = Lower(@),
              !.port = IF @ \in {"", _DEFAULT_PORTS[scheme]} THEN "none" ELSE @]

NoAuthority == [user |-> "", host |-> "", port |-> "none"]

\* A URL that cannot be split (an unclosed bracket), one of another scheme and
\* one without an authority stay as they are.
normalize_url(u) ==
    LET scheme == Lower(u.scheme) IN
    IF ~u.splits \/ scheme \notin DOMAIN _DEFAULT_PORTS \/ u.authority = NoAuthority THEN u
    ELSE [u EXCEPT !.scheme = scheme,
                   !.authority = _normalize_authority(@, scheme),
                   !.path = IF @ = <<>> THEN <<<<"text", "/">>>> ELSE _lowercase_percent_escapes(@),
                   !.query = _lowercase_percent_escapes(@),
                   !.fragment = ""]

\* path:line or path:line:column, where the path has a separator
looks_like_source_location(p) == Len(p.parts) > 1 /\ p.rest \in {"line", "line:col"}

\* Leading "./" parts, of which there may be several.
Dots(p) ==
    CHOOSE k \in 0..Len(p.parts) - 1 :
        /\ \A i \in 1..k : p.parts[i] = "."
        /\ k = Len(p.parts) - 1 \/ p.parts[k + 1] # "."

normalize_source_location(p) ==
    [p EXCEPT !.parts = SubSeq(@, Dots(p) + 1, Len(@)),
              !.seps = [i \in 1..Len(@) - Dots(p) |-> "/"]]

normalize_host_port(p) == [p EXCEPT !.parts = [i \in DOMAIN @ |-> Lower(@[i])]]

normalize_location(x) ==
    CASE x.kind = "url" -> normalize_url(x)
      [] x.kind = "plain" /\ looks_like_source_location(x) -> normalize_source_location(x)
      [] OTHER -> normalize_host_port(x)

\* A line of nuclei's output: a check and where it matched, or junk.
Line == [template : Templates, at : Urls \cup Plain] \cup {[template |-> "junk"]}

fingerprint(l) == <<l.template, normalize_location(l.at)>>

\* Lines that are no complete record, and fingerprints already seen, are skipped.
parse_vulnerabilities(l) ==
    IF l.template = "junk" \/ \E i \in DOMAIN found : fingerprint(found[i]) = fingerprint(l)
    THEN found ELSE Append(found, l)

\* katana keeps web addresses, each once, until MAX_URLS are kept.
parse(l) ==
    IF \/ l.template = "junk" \/ Len(found) >= MAX_URLS
       \/ l.at.kind # "url" \/ Lower(l.at.scheme) \notin {"http", "https"}
       \/ \E i \in DOMAIN found : normalize_location(found[i].at) = normalize_location(l.at)
    THEN found ELSE Append(found, l)

LocationsInit == parser \in {"nuclei", "katana"} /\ lines = <<>> /\ found = <<>>

ParseLine(l) ==
    /\ Len(lines) < MaxLines /\ lines' = Append(lines, l)
    /\ found' = IF parser = "nuclei" THEN parse_vulnerabilities(l) ELSE parse(l)
    /\ UNCHANGED parser

LocationsNext == \E l \in Line : ParseLine(l)

-----------------------------------------------------------------------------
(* Properties                                                              *)

\* What a request for u asks of which server (RFC 3986): independent of the
\* normalization above.
RequestOf(u) ==
    LET scheme == Lower(u.scheme)
        port == IF u.authority.port \notin {"none", ""} THEN u.authority.port
                ELSE IF scheme = "http" THEN "80" ELSE "443"
    IN  <<scheme, u.authority.user, Lower(u.authority.host), port,
          IF u.path = <<>> THEN <<<<"text", "/">>>>
          ELSE [i \in DOMAIN u.path |-> <<u.path[i][1],
                    IF u.path[i][1] = "%" THEN Lower(u.path[i][2]) ELSE u.path[i][2]>>],
          [i \in DOMAIN u.query |-> <<u.query[i][1],
                    IF u.query[i][1] = "%" THEN Lower(u.query[i][2]) ELSE u.query[i][2]>>]>>

Comparable(u) == u.kind = "url" /\ u.splits /\ u.authority.host # "" /\ Lower(u.scheme) \in {"http", "https"}

WebLines == {i \in DOMAIN lines : lines[i].template # "junk" /\ Comparable(lines[i].at)}

LocationsTypeOK == Len(found) <= Len(lines) /\ (parser = "katana" => Len(found) <= MAX_URLS)

(* Web findings are one per request and check: spelling neither splits an  *)
(* endpoint into two vulnerability rows nor merges two endpoints into one, *)
(* and the first observation of each is the one that is kept.              *)
OneFindingPerRequest ==
    parser = "nuclei" =>
        \A i \in WebLines :
            Cardinality({k \in DOMAIN found : /\ found[k].template = lines[i].template
                                              /\ Comparable(found[k].at)
                                              /\ RequestOf(found[k].at) = RequestOf(lines[i].at)}) = 1

(* The module's own promise: "idempotent                                   *)
(* (normalize(normalize(x)) == normalize(x))".                             *)
NormalizeIdempotent ==
    \A i \in DOMAIN found :
        LET x == found[i].at IN normalize_location(normalize_location(x)) = normalize_location(x)
=============================================================================
