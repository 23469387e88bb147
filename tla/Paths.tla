------------------------------- MODULE Paths -------------------------------
(***************************************************************************)
(* connection::parse_path(): the path of a URL is decoded and its "." and  *)
(* ".." segments resolved into _M_path, in one pass and in place of a      *)
(* buffer of the length of the path; _M_extension is where the extension   *)
(* of the file begins.  One connection serves several requests.            *)
(*                                                                         *)
(* A path is a sequence of characters <<c, encoded>>: c is a letter, ".",  *)
(* "/" or "bad" for a "%" that no two hexadecimal digits follow.           *)
(***************************************************************************)
EXTENDS Integers, SequencesExt, FiniteSetsExt, Positions

CONSTANTS
  Char,        \* the characters of paths
  MaxBytes,    \* bound on the bytes of a path after its first "/"
  NoSuffix     \* values of _M_extension before the first request: never set

VARIABLES
  path,        \* the path of the URL that has been read
  r,           \* state, _M_path up to dest, and the result of parse_path()
  extension    \* _M_extension

vars == <<path, r, extension>>

\* hex() takes three bytes for one.
SizeOf(c) == IF c[2] THEN 3 ELSE 1

PathLen(chars) == 1 + FoldLeft(LAMBDA n, c : n + SizeOf(c), 0, chars)

Fresh == [state |-> 0, out |-> <<>>, result |-> "more"]

Goto(p, state) == [p EXCEPT !.state = state]
Write(p, chars) == [p EXCEPT !.out = @ \o chars]
Refuse(p, code) == [p EXCEPT !.result = code]

\* The output up to the last "/", which is removed: dest goes back.
Parent(out) ==
  LET slashes == {k \in 1 .. Len(out) : out[k] = "/"}
  IN SubSeq(out, 1, Max(slashes) - 1)

\* Defect: no test for a ".." above the root.
UpUnguarded(p) == Goto([p EXCEPT !.out = IF @ = <<>> THEN <<>> ELSE Parent(@)], 4)

Up(p) == IF p.out = <<>> THEN Refuse(p, "403") ELSE Goto([p EXCEPT !.out = Parent(@)], 4)

-----------------------------------------------------------------------------
\* A segment begins: the dots read before c were the beginning of its name.
Begin(p, dots, c) == Goto(Write(p, <<"/">> \o dots \o <<c>>), 3)

\* States 0 and 4: after a "/".
AfterSlash(p, c) ==
  CASE c = "." -> Goto(p, p.state + 1)
    [] c = "/" -> p
    [] OTHER -> Begin(p, <<>>, c)

\* States 1 and 5: after a segment's first ".".
AfterDot(p, c) ==
  CASE c = "." -> Goto(p, p.state + 1)
    [] c = "/" -> Goto(p, p.state - 1)
    [] OTHER -> Begin(p, <<".">>, c)

\* Defect: a third "." taken for one more step.
AfterDotDotFallsThrough(p, c) ==
  CASE c = "." -> Goto(p, p.state + 1)
    [] c = "/" /\ p.state = 2 -> Goto(p, 0)
    [] c = "/" /\ p.state = 6 -> Up(p)
    [] OTHER -> Begin(p, <<".", ".">>, c)

\* States 2 and 6: after "..", which is ignored at the beginning of a path.
AfterDotDot(p, c) ==
  CASE c = "/" /\ p.state = 2 -> Goto(p, 0)
    [] c = "/" /\ p.state = 6 -> Up(p)
    [] OTHER -> Begin(p, <<".", ".">>, c)

InSegment(p, c) == IF c = "/" THEN Goto(p, 4) ELSE Write(p, <<c>>)

\* One turn of the loop for the character c.
Turn(p, c) ==
  CASE c = "bad" -> Refuse(p, "400")
    [] c # "bad" /\ p.state \in {0, 4} -> AfterSlash(p, c)
    [] c # "bad" /\ p.state \in {1, 5} -> AfterDot(p, c)
    [] c # "bad" /\ p.state \in {2, 6} -> AfterDotDot(p, c)
    [] OTHER -> InSegment(p, c)

\* _M_extension: set in a segment only, where a "." or a "/" is read.
ExtensionAfter(p, c, ext) ==
  CASE p.state = 3 /\ c = "/" -> 0
    [] p.state = 3 /\ c = "." -> Len(p.out) + 1
    [] OTHER -> ext

\* After the loop.
AtEnd(p) ==
  LET parent == Parent(p.out)
      slash == IF parent = <<>> THEN <<>> ELSE <<"/">>
  IN CASE p.state \in 0 .. 3 -> [p EXCEPT !.result = "done"]
       [] p.state \in {4, 5} -> [Write(p, <<"/">>) EXCEPT !.result = "done"]
       [] p.state = 6 /\ p.out = <<>> -> Refuse(p, "403")
       [] OTHER -> [p EXCEPT !.out = parent \o slash, !.result = "done"]

Step(p, c) == IF p.result = "more" THEN Turn(p, c) ELSE p

Parse(chars) ==
  LET p == FoldLeft(LAMBDA q, c : Step(q, c[1]), Fresh, chars)
  IN IF p.result = "more" THEN AtEnd(p) ELSE p

-----------------------------------------------------------------------------
Init ==
  /\ path = <<>>
  /\ r = Fresh
  /\ extension \in NoSuffix

Read(c) ==
  /\ r.result = "more" /\ PathLen(Append(path, c)) <= 1 + MaxBytes
  /\ path' = Append(path, c)
  /\ r' = Turn(r, c[1])
  /\ extension' = ExtensionAfter(r, c[1], extension)

\* The end of the path; a path that is only "/" is not parsed at all.
End ==
  /\ r.result = "more"
  /\ r' = AtEnd(r)
  /\ extension' = IF path = <<>> THEN 0 ELSE extension
  /\ UNCHANGED path

\* The next request on the connection: _reset() clears _M_path.
NextRequest ==
  /\ r.result # "more"
  /\ path' = <<>> /\ r' = Fresh
  /\ UNCHANGED extension

Next == (\E c \in Char : Read(c)) \/ End \/ NextRequest

Spec == Init /\ [][Next]_vars

-----------------------------------------------------------------------------
\* The segments of a path, by the positions of the "/"s around them, and its
\* canonical form, stated without the automaton.
Text == [k \in 1 .. Len(path) |-> path[k][1]]

Slashes(text) == {k \in 1 .. Len(text) : text[k] = "/"}

\* Complete segments, then what follows the last "/".
SegmentsOf(text) ==
  LET ends == Ascending(Slashes(text) \cup {Len(text) + 1})
      From(n) == IF n = 1 THEN 1 ELSE ends[n - 1] + 1
  IN [n \in 1 .. Len(ends) |-> SubSeq(text, From(n), ends[n] - 1)]

Dots == {<<>>, <<".">>, <<".", ".">>}
IsUp(s) == s = <<".", ".">>

\* The segments that count: those after the first one with a name.
Counted(segments) ==
  LET named == {n \in 1 .. Len(segments) : segments[n] \notin Dots}
  IN IF named = {} THEN <<>> ELSE SubSeq(segments, Min(named), Len(segments))

Names(s, from, to) == Cardinality({n \in from .. to : s[n] \notin Dots})
Ups(s, from, to) == Cardinality({n \in from .. to : IsUp(s[n])})

\* A ".." has nothing above it to remove.
Escapes(s) == \E n \in 1 .. Len(s) : IsUp(s[n]) /\ Ups(s, 1, n) > Names(s, 1, n)

\* The names that no later ".." removes.
Kept(s) ==
  LET kept == {n \in 1 .. Len(s) :
                 s[n] \notin Dots /\ \A m \in n .. Len(s) : Names(s, n, m) > Ups(s, n, m)}
  IN [k \in 1 .. Cardinality(kept) |-> s[Ascending(kept)[k]]]

Rendered(s) ==
  LET names == Kept(s)
      joined == FlattenSeq([n \in 1 .. Len(names) |-> <<"/">> \o names[n]])
      directory == s # <<>> /\ s[Len(s)] \in Dots
  IN CASE names = <<>> /\ s # <<>> /\ IsUp(s[Len(s)]) -> <<>>
       [] directory /\ ~(names = <<>> /\ IsUp(s[Len(s)])) -> joined \o <<"/">>
       [] OTHER -> joined

Malformed == {k \in 1 .. Len(path) : path[k][1] = "bad"}

\* Type invariant.
TypeOK ==
  /\ path \in Seq(Char) /\ PathLen(path) <= 1 + MaxBytes
  /\ r.state \in 0 .. 6
  /\ r.result \in {"more", "done", "400", "403"}
  /\ extension \in Nat

\* What is served is the path with its "." and ".." resolved and its
\* characters decoded, once: a ".." or a "/" counts whether it is encoded or
\* not, and a ".." above the first segment is refused.
PathIsResolved ==
  /\ r.result = "done" =>
       /\ Malformed = {} /\ ~Escapes(Counted(SegmentsOf(Text)))
       /\ r.out = Rendered(Counted(SegmentsOf(Text)))
  /\ r.result = "403" => Malformed = {} /\ Escapes(Counted(SegmentsOf(Text)))
  /\ r.result = "400" => Malformed = {Len(path)}

\* dest never overtakes src: the "/" that a segment needs has been read, so
\* _M_pathlen bytes are enough for _M_path, without a test while parsing.
WithinBuffer ==
  LET pending == IF r.result = "more" /\ r.state > 3 THEN r.state - 3 ELSE r.state % 3
  IN /\ Len(r.out) <= PathLen(path)
     /\ r.result = "more" => Len(r.out) + pending <= PathLen(path)

\* The redirection of a directory: the path with a "/" behind it, requested
\* again, is the same directory.  (The path is not encoded again: letters that
\* have a meaning in a URL are not in Char.)
RedirectLeadsThere ==
  r.result = "done" /\ r.out # <<>> /\ Last(r.out) # "/" =>
    LET location == [k \in 1 .. Len(r.out) |-> <<r.out[k], FALSE>>] \o <<<<"/", FALSE>>>>
        again == Parse(Tail(location))
    IN again.result = "done" /\ again.out = r.out \o <<"/">>

\* The letters after the last "." of a file are its extension.
LastDots == {k \in 2 .. Len(r.out) : r.out[k] = "." /\ \E i \in 1 .. k - 1 :
               r.out[i] \notin {".", "/"} /\ \A j \in i .. k : r.out[j] # "/"}
InLastSegment(k) == \A j \in k .. Len(r.out) : r.out[j] # "/"

ExtensionOfAFile ==
  r.result = "done" =>
    \A k \in LastDots :
      InLastSegment(k) /\ (\A j \in k + 1 .. Len(r.out) : r.out[j] # ".") => extension = k
=============================================================================
