---------------------------- MODULE HeaderStore ----------------------------
(***************************************************************************)
(* The store of http::headers under any sequence of add() and remove(), by *)
(* the number of a standard header or by name: what a reply is built from. *)
(***************************************************************************)
EXTENDS HeaderText

CONSTANTS Name,         \* the names of headers that are not standard
          Value,        \* values as they are given
          MaxHeaders    \* bound on the number of headers

VARIABLES store,    \* _M_headers
          added     \* for each name, the values added and not removed, in order

vars == <<store, added>>

Field == {<<i, Standard[i].name>> : i \in 1 .. Len(Standard)} \cup ({Unknown} \X Name)

Init ==
  /\ store = <<>>
  /\ added = [f \in Field |-> <<>>]

\* add(): fails when clean() finds no value.
Add(f, v) ==
  /\ Len(store) < MaxHeaders
  /\ store' = IF Clean(v).ok THEN AddHeader(store, Header(f[1], f[2], Clean(v).out)) ELSE store
  /\ added' = [added EXCEPT ![f] = IF Words(v) = <<>> THEN @ ELSE Append(@, Joined(Words(v)))]

Remove1(f) ==
  /\ store' = RemoveHeader(store, f[1], f[2])
  /\ added' = [added EXCEPT ![f] = IF @ = <<>> THEN @ ELSE Front(@)]

Reset == store' = <<>> /\ added' = [f \in Field |-> <<>>]

Next ==
  \/ \E f \in Field, v \in Value : Add(f, v)
  \/ \E f \in Field : Remove1(f)
  \/ Reset

Spec == Init /\ [][Next]_vars

-----------------------------------------------------------------------------
ValuesOf(f) ==
  LET Mine(h) == SameName(h, f[1], f[2])
      mine == SelectSeq(store, Mine)
  IN [n \in 1 .. Len(mine) |-> mine[n].value]

\* Type invariant.
TypeOK ==
  /\ store \in Seq([id : 0 .. Len(Standard), name : Seq(Letters),
                     value : {Joined(Words(v)) : v \in Value} \ {<<>>}])
  /\ Len(store) <= MaxHeaders

\* The binary and linear searches, the insertion behind the last of a name and
\* the removal of the last together keep, for every name, exactly the values
\* that were added and not removed, in the order they were added.
KeepsWhatWasAdded == \A f \in Field : ValuesOf(f) = added[f]

\* A header is found if and only if it is there, and the value returned is the
\* one added last, although a search stops at the first header of a later type.
FindsTheLast ==
  \A f \in Field :
    GetHeaderValue(store, f[1], f[2]) =
      IF added[f] = <<>> THEN {} ELSE {Last(added[f])}

TypeOf(h) == IF h.id = Unknown THEN 5 ELSE Standard[h.id].type

\* The order of a reply: general headers, then request, response and entity
\* headers, then the others, and headers of one name next to each other.
GroupedByType ==
  \A m, n \in 1 .. Len(store) : m < n =>
    /\ TypeOf(store[m]) <= TypeOf(store[n])
    /\ SameName(store[m], store[n].id, store[n].name) =>
         SameName(store[m], store[m + 1].id, store[m + 1].name)

\* What serialize() writes is what parse() reads back.
RoundTrip ==
  LET parsed == ParseAll(Fresh, Serialize(store), TRUE)
  IN /\ parsed.result = "end"
     /\ parsed.size = Len(Serialize(store))
     /\ parsed.store = store
=============================================================================
