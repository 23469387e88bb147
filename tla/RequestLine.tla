---------------------------- MODULE RequestLine ----------------------------
(***************************************************************************)
(* connection::parse_request_line(): the automaton that reads a request    *)
(* line as its bytes arrive and keeps where the parts of the URL are.      *)
(* A byte is a letter, a digit, "/", ":", ".", "[", "]", "?", "#", "sp",   *)
(* "cr", "lf", "ctl" (a control character) or "quote" (printable, but with *)
(* no place in a URL).  Offsets count from 0.                              *)
(***************************************************************************)
EXTENDS Tables, FiniteSets

CONSTANTS
  Alpha,              \* letters
  Upper,              \* upper case letters
  HexLetter,          \* letters that are hexadecimal digits
  LowerOf,            \* the lower case of a byte
  MethodTable,        \* _M_methods
  SchemeTable,        \* _M_schemes
  SchemeKind,         \* "http", "https" or "other" for each of them
  Digits,             \* a function from the digits that occur to their values
  MethodMaxLen,       \* METHOD_MAX_LEN
  SchemeMaxLen,       \* scheme::kMaxLen
  HostMaxLen,         \* HOST_MAX_LEN
  IPv6MaxLen,         \* IPv6_ADDRESS_MAX_LEN
  MaxPort,            \* 65535
  RequestLineMaxLen,  \* kRequestLineMaxLen
  Byte,               \* the bytes that arrive
  Beginning,          \* texts read so far in the initial states
  MaxMore             \* bound on the bytes read after one of them

VARIABLES
  text,     \* the bytes received
  q,        \* the members of the connection
  left      \* how many more may be received

vars == <<text, q, left>>

Digit == DOMAIN Digits
White == {"sp"}
HexDigit == Digit \cup HexLetter
HostByte == Alpha \cup Digit \cup {"."}
QueryByte == Alpha \cup Digit \cup {".", ":", "/", "?"}

\* What the code takes for granted of its tables.
TablesAreOrdered ==
  /\ InOrderOfNames(MethodTable) /\ InOrderOfNames(SchemeTable)
  /\ DOMAIN SchemeKind = DOMAIN SchemeTable

\* The members of the connection: _M_substate, _M_method, _M_http_version and
\* so on; result is what the function returns.  A new request finds what the
\* one before left, of which the lengths n stand for all.
Fresh(method, n) ==
  [substate |-> 0, method |-> method, version |-> "0.9", port |-> n, https |-> FALSE,
   ip_literal |-> FALSE, token |-> 0, url |-> 0, host |-> 0, hostlen |-> n, urllen |-> n,
   pathlen |-> n, query |-> 0, querylen |-> n, fragment |-> 0, fragmentlen |-> n,
   inp |-> 0, result |-> "more"]

Goto(r, s) == [r EXCEPT !.substate = s]
Refuse(r, code) == [r EXCEPT !.result = code]
BadRequest(r) == Refuse(r, "400")

\* The line is complete.
Complete(r) == [Goto(r, 26) EXCEPT !.result = "done"]

Word(from, to) == SubSeq(text, from + 1, to)
Folded(word) == [k \in 1 .. Len(word) |-> LowerOf[word[k]]]

Method(r) == SearchTable(MethodTable, Word(r.token, r.inp))

\* The URL is followed by a blank or by the end of the line.
UrlEnds(r, c) ==
  LET ended == [r EXCEPT !.urllen = r.inp - r.url]
  IN CASE c \in White -> Goto(ended, 16)
       [] c = "cr" -> [Goto(ended, 25) EXCEPT !.version = "0.9"]
       [] c = "lf" -> [Complete(ended) EXCEPT !.version = "0.9"]

EndOfUrl == White \cup {"cr", "lf"}

NoPath(r) == [r EXCEPT !.pathlen = 0, !.querylen = 0, !.fragmentlen = 0]

PathStarts(r) == [Goto(r, 13) EXCEPT !.token = r.inp]

-----------------------------------------------------------------------------
BeforeMethod(r, c) ==
  CASE r.substate = 0 /\ c \in Upper -> [Goto(r, 2) EXCEPT !.token = r.inp]
    [] r.substate = 0 /\ c = "cr" -> Goto(r, 1)
    [] c = "lf" -> Goto(r, 0)
    [] OTHER -> [BadRequest(r) EXCEPT !.method = Unknown]

InMethod(r, c) ==
  CASE c \in White ->
         IF Method(r) = Unknown THEN [BadRequest(r) EXCEPT !.method = Unknown]
         ELSE [Goto(r, 3) EXCEPT !.method = Method(r)]
    [] c \in Upper /\ r.inp - r.token <= MethodMaxLen -> r
    [] OTHER -> [BadRequest(r) EXCEPT !.method = Unknown]

\* Defect: a URL that keeps the host of the request before it.
UrlStartsKeepingHost(r, c) ==
  CASE c = "/" -> [PathStarts(r) EXCEPT !.url = r.inp]
    [] c \in Alpha -> [Goto(r, 4) EXCEPT !.url = r.inp]
    [] c \in White -> r
    [] OTHER -> BadRequest(r)

UrlStarts(r, c) ==
  CASE c = "/" -> [PathStarts(r) EXCEPT !.url = r.inp, !.hostlen = 0]
    [] c \in Alpha -> [Goto(r, 4) EXCEPT !.url = r.inp]
    [] c \in White -> r
    [] OTHER -> BadRequest(r)

InScheme(r, c) ==
  LET s == SearchTable(SchemeTable, Folded(Word(r.url, r.inp)))
      kind == IF s = Unknown THEN "unknown" ELSE SchemeKind[s]
  IN CASE c = ":" /\ kind = "http" -> [Goto(r, 5) EXCEPT !.port = 80, !.https = FALSE]
       [] c = ":" /\ kind = "https" -> [Goto(r, 5) EXCEPT !.port = 443, !.https = TRUE]
       [] c = ":" /\ kind = "other" -> Refuse(r, "404")
       [] c \in Alpha \cup Digit \cup {"."} /\ r.inp - r.url <= SchemeMaxLen -> r
       [] OTHER -> BadRequest(r)

AfterScheme(r, c) == IF c = "/" THEN Goto(r, r.substate + 1) ELSE BadRequest(r)

HostStarts(r, c) ==
  CASE c \in HostByte -> [Goto(r, 8) EXCEPT !.host = r.inp, !.hostlen = 1, !.ip_literal = FALSE]
    [] c = "[" -> Goto(r, 9)
    [] OTHER -> BadRequest(r)

\* A byte of a host that may have at most max of them.
HostGoesOn(r, max) ==
  IF r.hostlen + 1 > max THEN BadRequest(r) ELSE [r EXCEPT !.hostlen = @ + 1]

\* What may follow a host.
AfterHost(r, c) ==
  CASE c = "/" -> PathStarts(r)
    [] c = ":" -> [Goto(r, 12) EXCEPT !.port = 0]
    [] c \in EndOfUrl -> UrlEnds(NoPath(r), c)
    [] OTHER -> BadRequest(r)

InHost(r, c) == IF c \in HostByte THEN HostGoesOn(r, HostMaxLen) ELSE AfterHost(r, c)

IPLiteralStarts(r, c) ==
  IF c \in HexDigit \cup {":", "."}
    THEN [Goto(r, 10) EXCEPT !.host = r.inp, !.hostlen = 1, !.ip_literal = TRUE]
    ELSE BadRequest(r)

InIPLiteral(r, c) ==
  CASE c = "]" -> Goto(r, 11)
    [] c \in HexDigit \cup {":", "."} -> HostGoesOn(r, IPv6MaxLen)
    [] OTHER -> BadRequest(r)

InPort(r, c) ==
  CASE c \in Digit /\ r.port * 10 + Digits[c] <= MaxPort -> [r EXCEPT !.port = @ * 10 + Digits[c]]
    [] c \notin Digit \cup {":"} /\ r.port # 0 -> AfterHost(r, c)
    [] OTHER -> BadRequest(r)

-----------------------------------------------------------------------------
InPath(r, c) ==
  LET measured == [r EXCEPT !.pathlen = r.inp - r.token]
  IN CASE c = "?" -> [Goto(measured, 14) EXCEPT !.query = r.inp]
       [] c = "#" -> [Goto(measured, 15) EXCEPT !.querylen = 0, !.fragment = r.inp]
       [] c \in EndOfUrl -> UrlEnds([measured EXCEPT !.querylen = 0, !.fragmentlen = 0], c)
       [] c = "ctl" -> BadRequest(r)
       [] OTHER -> r

InQuery(r, c) ==
  LET measured == [r EXCEPT !.querylen = r.inp - r.query]
  IN CASE c \in QueryByte -> r
       [] c = "#" -> [Goto(measured, 15) EXCEPT !.fragment = r.inp]
       [] c \in EndOfUrl -> UrlEnds([measured EXCEPT !.fragmentlen = 0], c)
       [] OTHER -> BadRequest(r)

InFragment(r, c) ==
  CASE c \in QueryByte -> r
    [] c \in EndOfUrl -> UrlEnds([r EXCEPT !.fragmentlen = r.inp - r.fragment], c)
    [] OTHER -> BadRequest(r)

AfterUrl(r, c) ==
  CASE c \in {"H", "h"} -> Goto(r, 17)
    [] c \in White -> r
    [] c = "cr" -> [r EXCEPT !.version = "0.9"]
    [] c = "lf" -> [Complete(r) EXCEPT !.version = "0.9"]
    [] OTHER -> BadRequest(r)

\* The bytes that substates 17 to 22 wait for.
VersionText == <<{"T"}, {"T"}, {"P"}, {"/"}, {"1"}, {"."}>>

InVersion(r, c) ==
  IF c \in VersionText[r.substate - 16] THEN Goto(r, r.substate + 1) ELSE BadRequest(r)

Minor(r, c) ==
  CASE c = "1" -> [Goto(r, 24) EXCEPT !.version = "1.1"]
    [] c = "0" -> [Goto(r, 24) EXCEPT !.version = "1.0"]
    [] OTHER -> BadRequest(r)

AfterVersion(r, c) ==
  CASE c = "cr" -> Goto(r, 25)
    [] c = "lf" -> Complete(r)
    [] c \in White -> r
    [] OTHER -> BadRequest(r)

AfterCr(r, c) == IF c = "lf" THEN Complete(r) ELSE BadRequest(r)

Turn(r, c) ==
  CASE r.substate \in {0, 1} -> BeforeMethod(r, c)
    [] r.substate = 2 -> InMethod(r, c)
    [] r.substate = 3 -> UrlStarts(r, c)
    [] r.substate = 4 -> InScheme(r, c)
    [] r.substate \in {5, 6} -> AfterScheme(r, c)
    [] r.substate = 7 -> HostStarts(r, c)
    [] r.substate = 8 -> InHost(r, c)
    [] r.substate = 9 -> IPLiteralStarts(r, c)
    [] r.substate = 10 -> InIPLiteral(r, c)
    [] r.substate = 11 -> AfterHost(r, c)
    [] r.substate = 12 -> InPort(r, c)
    [] r.substate = 13 -> InPath(r, c)
    [] r.substate = 14 -> InQuery(r, c)
    [] r.substate = 15 -> InFragment(r, c)
    [] r.substate = 16 -> AfterUrl(r, c)
    [] r.substate \in 17 .. 22 -> InVersion(r, c)
    [] r.substate = 23 -> Minor(r, c)
    [] r.substate = 24 -> AfterVersion(r, c)
    [] r.substate = 25 -> AfterCr(r, c)

\* One turn of the loop, and the limit on the line.
Advance(r, c) ==
  LET t == Turn(r, c)
      moved == [t EXCEPT !.inp = @ + 1]
  IN CASE t.result = "done" -> moved
       [] t.result = "more" -> IF moved.inp > RequestLineMaxLen THEN Refuse(moved, "413") ELSE moved
       [] OTHER -> t

-----------------------------------------------------------------------------
Init ==
  /\ text \in Beginning
  /\ \E method \in 0 .. Len(MethodTable) : q = FoldLeft(Advance, Fresh(method, 1), text)
  /\ left = MaxMore

Receive(c) ==
  /\ q.result = "more" /\ left > 0
  /\ text' = Append(text, c)
  /\ q' = Advance(q, c)
  /\ left' = left - 1

Next == \E c \in Byte : Receive(c)

Spec == Init /\ [][Next]_vars

-----------------------------------------------------------------------------
\* The grammar of a request line, as sets of positions: where in t each part
\* that starts at one of the positions S may end.
One(t, S, C) == {p + 1 : p \in {n \in S : n < Len(t) /\ t[n + 1] \in C}}
Many(t, S, C) == UNION {{e \in p .. Len(t) : \A i \in p + 1 .. e : t[i] \in C} : p \in S}
Some(t, S, C) == Many(t, One(t, S, C), C)
Maybe(t, S, C) == S \cup One(t, S, C)
OneOf(t, S, words) == {e \in 1 .. Len(t) : \E p \in S : p < e /\ SubSeq(t, p + 1, e) \in words}

EmptyLines(t) ==
  {e \in 0 .. Len(t) : \A i \in 1 .. e : t[i] = "lf" \/ (t[i] = "cr" /\ i < e /\ t[i + 1] = "lf")}

Schemes(t, S) ==
  {e \in 1 .. Len(t) : \E p \in S, s \in DOMAIN SchemeTable :
     p < e /\ Folded(SubSeq(t, p + 1, e)) = SchemeTable[s] /\ SchemeKind[s] # "other"}

Hosts(t, S) ==
  {e \in Some(t, S, HostByte) : \E p \in S : e - p \in 1 .. HostMaxLen /\ e \in Some(t, {p}, HostByte)}

IPLiterals(t, S) ==
  LET from == One(t, S, {"["})
      C == HexDigit \cup {":", "."}
  IN One(t, {e \in Some(t, from, C) : \E p \in from : e - p \in 1 .. IPv6MaxLen /\ e \in Some(t, {p}, C)}, {"]"})

PortOf(digits) ==
  LET value(n, d) == n * 10 + Digits[d] IN FoldLeft(value, 0, digits)

Ports(t, S) ==
  {e \in 1 .. Len(t) : \E p \in One(t, S, {":"}) :
     e \in Some(t, {p}, Digit) /\ PortOf(SubSeq(t, p + 1, e)) \in 1 .. MaxPort}

URLs(t, S) ==
  LET slashes == One(t, One(t, One(t, Schemes(t, S), {":"}), {"/"}), {"/"})
      hosts == Hosts(t, slashes) \cup IPLiterals(t, slashes)
      authority == hosts \cup Ports(t, hosts)
      paths == Many(t, One(t, S \cup authority, {"/"}), Byte \ (EndOfUrl \cup {"?", "#", "ctl"}))
      queries == Many(t, One(t, paths, {"?"}), QueryByte)
      fragments == Many(t, One(t, paths \cup queries, {"#"}), QueryByte)
  IN authority \cup paths \cup queries \cup fragments

VersionAt(t, S) ==
  LET name == One(t, One(t, One(t, One(t, S, {"H", "h"}), {"T"}), {"T"}), {"P"})
  IN One(t, One(t, One(t, One(t, name, {"/"}), {"1"}), {"."}), {"0", "1"})

RequestLines(t) ==
  LET methods == OneOf(t, EmptyLines(t), Range(MethodTable))
      urls == URLs(t, Some(t, methods, White))
      apart == Many(t, One(t, urls, White), White \cup {"cr"})
      ends == Maybe(t, urls, {"cr"}) \cup apart
              \cup Maybe(t, Many(t, VersionAt(t, apart), White), {"cr"})
  IN One(t, ends, {"lf"})

IsRequestLine(t) == Len(t) \in RequestLines(t)

-----------------------------------------------------------------------------
\* Type invariant.
TypeOK ==
  /\ text \in Seq(Byte)
  /\ q.substate \in 0 .. 26
  /\ q.method \in 0 .. Len(MethodTable)
  /\ q.version \in {"0.9", "1.0", "1.1"}
  /\ {q.https, q.ip_literal} \subseteq BOOLEAN
  /\ q.port \in 0 .. MaxPort \cup {80, 443}
  /\ q.hostlen <= HostMaxLen \/ (q.ip_literal /\ q.hostlen <= IPv6MaxLen)
  /\ q.inp <= RequestLineMaxLen + 1
  /\ q.result \in {"more", "done", "400", "404", "413"}

\* A line is complete exactly when it is one of the grammar, however its bytes
\* are cut into reads, and only if it is not too long.
CompleteIfALine == q.result = "done" <=> IsRequestLine(text) /\ q.result # "413"

\* Some ends of a line, one for each part it may have stopped in.
Completion ==
  {<<"lf">>, <<"/", "lf">>, <<"sp", "/", "lf">>, <<"/", "/", "1", "lf">>, <<"1", "lf">>,
   <<"]", "lf">>, <<"T", "T", "P", "/", "1", ".", "1", "lf">>, <<"/", "1", ".", "1", "lf">>,
   <<".", "1", "lf">>}

\* A line is refused, before its end, only when no end could make it one.
RefusesNoLine ==
  q.result \in {"400", "404"} => \A e \in Completion : ~IsRequestLine(text \o e)

\* What process_request() and the error pages rely on: the parts of the URL
\* follow each other without a gap, begin with their mark and none is left
\* from the request before.
PartsOfTheUrl ==
  q.result = "done" =>
    LET before == q.urllen - q.pathlen - q.querylen - q.fragmentlen
        Part(from, len) == Word(from, from + len)
        path == Part(q.url + before, q.pathlen)
        query == Part(q.url + before + q.pathlen, q.querylen)
        fragment == Part(q.url + q.urllen - q.fragmentlen, q.fragmentlen)
    IN /\ before >= 0
       /\ q.pathlen > 0 => q.token = q.url + before /\ path[1] = "/"
       /\ q.querylen > 0 => q.query = q.url + before + q.pathlen /\ query[1] = "?"
       /\ q.fragmentlen > 0 => q.fragment = q.url + q.urllen - q.fragmentlen /\ fragment[1] = "#"
       /\ \A k \in 1 .. q.pathlen : path[k] \notin {"?", "#"}
       /\ \A k \in 1 .. q.querylen : query[k] # "#"
       /\ text[q.url] \in White /\ text[q.url + q.urllen + 1] \in EndOfUrl

\* The host and the port by which the virtual host is found are those of this
\* URL, and there is none when the URL is a path.
HostOfTheUrl ==
  q.result = "done" =>
    IF text[q.url + 1] = "/" THEN q.hostlen = 0
    ELSE LET url == Word(q.url, q.url + q.urllen)
             hosts == q.host + q.hostlen + (IF q.ip_literal THEN 1 ELSE 0)
             scheme == Folded(Word(q.url, q.host - 3 - (IF q.ip_literal THEN 1 ELSE 0)))
             rest == Word(hosts, q.url + q.urllen - q.pathlen - q.querylen - q.fragmentlen)
         IN /\ \E s \in DOMAIN SchemeTable :
                 SchemeTable[s] = scheme /\ q.https = (SchemeKind[s] = "https")
            /\ q.ip_literal <=> text[q.host] = "["
            /\ q.port = IF rest = <<>> THEN (IF q.https THEN 443 ELSE 80) ELSE PortOf(Tail(rest))
=============================================================================
