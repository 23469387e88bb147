------------------------------ MODULE Headers ------------------------------
(***************************************************************************)
(* http::headers: the store of headers, grouped by their type, and the     *)
(* automaton that fills it from a request, one byte a turn.  A byte is a   *)
(* letter (valid in names), ":" (valid in values), "sp", "cr", "lf" or     *)
(* "ctl", a control character that is valid nowhere.                       *)
(***************************************************************************)
EXTENDS Tables

CONSTANTS
  Standard,       \* _M_standard_headers: name, type, list, single
  MaxNameLen,     \* header_name::MAX_LEN
  HeadersMaxLen   \* HEADERS_MAX_LEN

TypeNumber == 1 .. 4    \* general, request, response, entity

\* What the code takes for granted of its table.
TableIsOrdered ==
  /\ \A i \in 1 .. Len(Standard) :
       /\ Standard[i].name \in Seq(Letters) /\ Standard[i].name # <<>>
       /\ Standard[i].type \in TypeNumber
       /\ {Standard[i].list, Standard[i].single} \subseteq BOOLEAN
  /\ InOrderOfNames([i \in 1 .. Len(Standard) |-> Standard[i].name])

\* search_standard_header()
SearchStandardHeader(name) == SearchTable([i \in 1 .. Len(Standard) |-> Standard[i].name], name)

-----------------------------------------------------------------------------
\* The store: a sequence of headers, each with the id of a standard header or
\* Unknown, its name and its value.

\* A header as add() keeps it: the name of a standard header is the table's.
Header(id, name, value) ==
  [id |-> id, name |-> IF id = Unknown THEN name ELSE Standard[id].name, value |-> value]

SameName(h, id, name) == h.id = id /\ (id = Unknown => h.name = name)

\* Defect: search() that goes on to the end when the header is not there.
SearchToTheEnd(store, id, name) ==
  LET at == {p \in 1 .. Len(store) : SameName(store[p], id, name)}
  IN [found |-> at # {}, pos |-> IF at # {} THEN Max(at) ELSE Len(store) + 1]

\* search(): whether a header is there, and the position of the last one with
\* its name, or else the position where it belongs.
Search(store, id, name) ==
  LET Past(h) == id # Unknown /\ (h.id = Unknown \/ Standard[id].type < Standard[h.id].type)
      Other(h) == ~SameName(h, id, name) /\ (id = Unknown => h.id = Unknown)
      scan[p \in 1 .. Len(store) + 1, ret \in BOOLEAN] ==
        CASE p > Len(store) -> [found |-> ret, pos |-> IF ret THEN p - 1 ELSE p]
          [] p <= Len(store) /\ SameName(store[p], id, name) -> scan[p + 1, TRUE]
          [] p <= Len(store) /\ ret /\ Other(store[p]) -> [found |-> TRUE, pos |-> p - 1]
          [] p <= Len(store) /\ ~ret /\ Past(store[p]) -> [found |-> FALSE, pos |-> p]
          [] OTHER -> scan[p + 1, ret]
  IN scan[1, FALSE]

\* add(): behind the headers of the same name, or of the same type.
AddHeader(store, h) ==
  LET s == Search(store, h.id, h.name)
  IN InsertAt(store, IF s.found THEN s.pos + 1 ELSE s.pos, h)

\* remove(): the last header of that name, if there is one.
RemoveHeader(store, id, name) ==
  LET s == Search(store, id, name)
  IN IF s.found THEN RemoveAt(store, s.pos) ELSE store

\* get_header_value(): the value of the last header of that name, if any.
GetHeaderValue(store, id, name) ==
  LET s == Search(store, id, name) IN IF s.found THEN {store[s.pos].value} ELSE {}

\* serialize()
Serialize(store) ==
  FlattenSeq([n \in 1 .. Len(store) |->
               store[n].name \o <<":", "sp">> \o store[n].value \o <<"cr", "lf">>])
  \o <<"cr", "lf">>

-----------------------------------------------------------------------------
\* clean(): words separated by one space, lines unfolded.  Fails (ok = FALSE)
\* when a line end is not followed by a space, or nothing is left.
Clean(value) ==
  LET put(a, c) ==
        CASE a.at \in {"text", "space"} /\ c = "cr" -> [a EXCEPT !.at = "cr"]
          [] a.at \in {"text", "space"} /\ c = "lf" -> [a EXCEPT !.at = "lf"]
          [] a.at \in {"text", "space"} /\ c = "sp" -> [a EXCEPT !.at = "space"]
          [] a.at \in {"text", "space"} /\ c = "ctl" -> [a EXCEPT !.ok = FALSE]
          [] a.at = "text" /\ c \notin {"cr", "lf", "sp", "ctl"} ->
               [a EXCEPT !.out = Append(@, c)]
          [] a.at = "space" /\ c \notin {"cr", "lf", "sp", "ctl"} ->
               [a EXCEPT !.out = (IF @ = <<>> THEN @ ELSE Append(@, "sp")) \o <<c>>,
                         !.at = "text"]
          [] a.at = "cr" -> IF c = "lf" THEN [a EXCEPT !.at = "lf"] ELSE [a EXCEPT !.ok = FALSE]
          [] OTHER -> IF c = "sp" THEN [a EXCEPT !.at = "space"] ELSE [a EXCEPT !.ok = FALSE]
      all == FoldLeft(put, [at |-> "text", out |-> <<>>, ok |-> TRUE], value)
  IN [all EXCEPT !.ok = @ /\ all.out # <<>>]

-----------------------------------------------------------------------------
\* parse().  The state it keeps between two calls, all offsets from 0: state,
\* name, namelen, value and value_end as in the code, header the id, size the
\* bytes consumed; store the headers added so far; result what parse() says.
Fresh == [state |-> 0, header |-> Unknown, name |-> 0, namelen |-> 0, value |-> 0,
          value_end |-> 0, size |-> 0, store |-> <<>>, result |-> "more"]

ValidInName(c) == c \in Letters
ValidInValue(c) == c \notin {"cr", "lf", "ctl"}

Part(b, from, to) == SubSeq(b, from + 1, to)

Invalid(st) == [st EXCEPT !.result = "invalid"]
EndOfHeader(st) == [st EXCEPT !.size = @ + 1, !.result = "end"]

\* The end of a turn that goes on.
Onwards(st) ==
  [st EXCEPT !.size = @ + 1,
             !.result = IF st.size + 1 = HeadersMaxLen THEN "too_large" ELSE @]

To(st, s) == Onwards([st EXCEPT !.state = s])

NameStarts(st) == Onwards([st EXCEPT !.name = st.size, !.namelen = 1, !.state = 1])

\* Where the value ends, unless trailing spaces have set it already.
MarkEnd(st) == [st EXCEPT !.value_end = IF @ = 0 THEN st.size ELSE @]

\* The field is complete: it is added unless it has no value.
Flush(st, b, ignore_errors) ==
  LET field == Part(b, st.name, st.name + st.namelen)
      value == Clean(Part(b, st.value, st.value_end))
      std == Standard[st.header]
  IN CASE st.value = 0 -> st
       [] /\ st.value # 0 /\ ~ignore_errors /\ st.header # Unknown
          /\ ~std.list /\ Search(st.store, st.header, field).found -> Invalid(st)
       [] OTHER ->
            IF value.ok
              THEN [st EXCEPT !.store = AddHeader(@, Header(st.header, field, value.out))]
              ELSE [st EXCEPT !.result = "no_memory"]

\* What comes after st unless it has ended.
Then(st, next) == IF st.result = "more" THEN next ELSE st

InitialState(st, c) ==
  CASE c = "cr" -> To(st, 6)
    [] c = "lf" -> EndOfHeader(st)
    [] ValidInName(c) -> NameStarts(st)
    [] OTHER -> Invalid(st)

ParsingName(st, b, c) ==
  CASE c = ":" -> To([st EXCEPT !.header = SearchStandardHeader(Part(b, st.name, st.name + st.namelen)),
                                !.value = 0], 2)
    [] ValidInName(c) /\ st.namelen < MaxNameLen -> Onwards([st EXCEPT !.namelen = @ + 1])
    [] OTHER -> Invalid(st)

AfterColon(st, c) ==
  CASE c = "cr" -> To(st, 4)
    [] c = "lf" -> To(st, 5)
    [] c = "sp" -> Onwards(st)
    [] ValidInValue(c) /\ c # "sp" -> To([st EXCEPT !.value = st.size, !.value_end = 0], 3)
    [] OTHER -> Invalid(st)

ParsingValue(st, c, ignore_errors) ==
  CASE c = "cr" -> To(MarkEnd(st), 4)
    [] c = "lf" -> To(MarkEnd(st), 5)
    [] c = "sp" -> Onwards(MarkEnd(st))
    [] ValidInValue(c) /\ c # "sp" ->
         IF /\ ~ignore_errors /\ st.value_end # 0
            /\ st.header # Unknown /\ Standard[st.header].single
           THEN Invalid(st) ELSE Onwards([st EXCEPT !.value_end = 0])
    [] OTHER -> Invalid(st)

\* Defect: a folded line that always starts a value of its own.
AfterLineFeedRestarting(st, b, c, ignore_errors) ==
  LET flushed == Flush(st, b, ignore_errors)
  IN CASE c = "cr" -> Then(flushed, To(flushed, 6))
       [] c = "lf" -> Then(flushed, EndOfHeader(flushed))
       [] c = "sp" -> To(st, 2)
       [] ValidInName(c) -> Then(flushed, NameStarts(flushed))
       [] OTHER -> Invalid(st)

\* The line after a folded one goes on with the value it began.
AfterLineFeed(st, b, c, ignore_errors) ==
  LET flushed == Flush(st, b, ignore_errors)
  IN CASE c = "cr" -> Then(flushed, To(flushed, 6))
       [] c = "lf" -> Then(flushed, EndOfHeader(flushed))
       [] c = "sp" -> To(st, IF st.value = 0 THEN 2 ELSE 3)
       [] ValidInName(c) -> Then(flushed, NameStarts(flushed))
       [] OTHER -> Invalid(st)

\* One turn of the loop over the byte at size.
Turn(st, b, ignore_errors) ==
  LET c == b[st.size + 1]
  IN CASE st.state = 0 -> InitialState(st, c)
       [] st.state = 1 -> ParsingName(st, b, c)
       [] st.state = 2 -> AfterColon(st, c)
       [] st.state = 3 -> ParsingValue(st, c, ignore_errors)
       [] st.state = 4 -> IF c = "lf" THEN To(st, 5) ELSE Invalid(st)
       [] st.state = 5 -> AfterLineFeed(st, b, c, ignore_errors)
       [] st.state = 6 -> IF c = "lf" THEN EndOfHeader(st) ELSE Invalid(st)

\* parse() of the bytes received so far.
ParseAll(st, b, ignore_errors) ==
  LET run(s, c) == IF s.result = "more" THEN Turn(s, b, ignore_errors) ELSE s
  IN FoldLeft(run, st, Part(b, st.size, Len(b)))
=============================================================================
