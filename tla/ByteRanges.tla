----------------------------- MODULE ByteRanges -----------------------------
(***************************************************************************)
(* headers::get_ranges(): the value of a Range header read byte by byte    *)
(* against the size of a file, in off_t arithmetic of Width bits.  A byte  *)
(* is a digit, "=", "-", ",", "sp" or another.  The value starts behind    *)
(* "bytes", and is a value that clean() leaves: no blank at its ends, no   *)
(* two in a row.                                                           *)
(***************************************************************************)
EXTENDS Integers, SequencesExt

CONSTANTS
  Digit,        \* the digits that occur, of those of DigitValue
  Other,        \* bytes of no meaning here
  Width,        \* bits of off_t
  MaxRanges,    \* MAX_RANGES
  FileSizes,    \* sizes of files
  MaxLen        \* bound on the length of the value

VARIABLES filesize, text, p, answer

vars == <<filesize, text, p, answer>>

Modulus == 2 ^ Width
MaxOffset == Modulus \div 2 - 1     \* the largest off_t

Smaller(a, b) == IF a < b THEN a ELSE b
Larger(a, b) == IF a > b THEN a ELSE b

DigitValue == [d \in {"0", "1", "2", "3", "4", "5", "6", "7", "8", "9"} |->
  CASE d = "0" -> 0 [] d = "1" -> 1 [] d = "2" -> 2 [] d = "3" -> 3 [] d = "4" -> 4
    [] d = "5" -> 5 [] d = "6" -> 6 [] d = "7" -> 7 [] d = "8" -> 8 [] d = "9" -> 9]

\* An off_t that has overflowed, as two's complement wraps it.
Wrapped(n) ==
  LET r == n % Modulus IN IF r > MaxOffset THEN r - Modulus ELSE r

-----------------------------------------------------------------------------
\* The locals of get_ranges(): state, from, to, count, the ranges added, and
\* whether it has returned false.
Start == [state |-> 0, from |-> 0, to |-> 0, count |-> 0, ranges |-> <<>>, failed |-> FALSE]

Fail(q) == [q EXCEPT !.failed = TRUE]
Goto(q, s) == [q EXCEPT !.state = s]

AddRange(q, from, to) ==
  IF Len(q.ranges) = MaxRanges THEN Fail(q)
  ELSE [q EXCEPT !.ranges = Append(@, [from |-> from, to |-> to])]

\* "from-": to the end of the file.
AddFrom(q) == IF q.from < filesize THEN AddRange(q, q.from, filesize - 1) ELSE q

\* Defect: "from-to" that is added as it was asked for.
AddFromToUncut(q) ==
  CASE q.from > q.to -> Fail(q)
    [] q.from <= q.to /\ q.from < filesize -> AddRange(q, q.from, q.to)
    [] OTHER -> q

\* "from-to", cut at the end of the file.
AddFromTo(q) ==
  CASE q.from > q.to -> Fail(q)
    [] q.from <= q.to /\ q.from < filesize -> AddRange(q, q.from, Smaller(q.to, filesize - 1))
    [] OTHER -> q

\* "-count": the last bytes of the file.
AddLast(q) ==
  IF q.count > 0 /\ filesize > 0
    THEN AddRange(q, Larger(filesize - q.count, 0), filesize - 1) ELSE q

\* A number that goes on; refused when it has become smaller.
Continued(n, c) ==
  LET tmp == Wrapped(n * 10 + DigitValue[c]) IN [value |-> tmp, ok |-> tmp >= n]

\* State s again at a blank, or else refused.
Blank(q, c) == IF c = "sp" THEN q ELSE Fail(q)

\* States 1 and 7: a range starts.
RangeStarts(q, c) ==
  CASE c \in Digit -> [Goto(q, 2) EXCEPT !.from = DigitValue[c]]
    [] c = "-" -> Goto(q, 8)
    [] OTHER -> Blank(q, c)

ParsingFrom(q, c) ==
  CASE c \in Digit /\ Continued(q.from, c).ok -> [q EXCEPT !.from = Continued(q.from, c).value]
    [] c = "-" -> Goto(q, 4)
    [] c = "sp" -> Goto(q, 3)
    [] OTHER -> Fail(q)

AfterDash(q, c) ==
  CASE c \in Digit -> [Goto(q, 5) EXCEPT !.to = DigitValue[c]]
    [] c = "," -> Goto(AddFrom(q), 7)
    [] OTHER -> Blank(q, c)

ParsingTo(q, c) ==
  CASE c \in Digit /\ Continued(q.to, c).ok -> [q EXCEPT !.to = Continued(q.to, c).value]
    [] c = "," -> Goto(AddFromTo(q), 7)
    [] c = "sp" -> Goto(AddFromTo(q), 6)
    [] OTHER -> Fail(q)

ParsingSuffix(q, c) ==
  CASE c \in Digit /\ Continued(q.count, c).ok -> [q EXCEPT !.count = Continued(q.count, c).value]
    [] c = "," -> Goto(AddLast(q), 7)
    [] c = "sp" -> Goto(AddLast(q), 10)
    [] OTHER -> Fail(q)

Turn(q, c) ==
  CASE q.state = 0 -> IF c = "=" THEN Goto(q, 1) ELSE Blank(q, c)
    [] q.state \in {1, 7} -> RangeStarts(q, c)
    [] q.state = 2 -> ParsingFrom(q, c)
    [] q.state = 3 -> IF c = "-" THEN Goto(q, 4) ELSE Blank(q, c)
    [] q.state = 4 -> AfterDash(q, c)
    [] q.state = 5 -> ParsingTo(q, c)
    [] q.state \in {6, 10} -> IF c = "," THEN Goto(q, 7) ELSE Blank(q, c)
    [] q.state = 8 -> IF c \in Digit THEN [Goto(q, 9) EXCEPT !.count = DigitValue[c]]
                      ELSE Blank(q, c)
    [] q.state = 9 -> ParsingSuffix(q, c)

\* The end of the value.
AtEnd(q) ==
  CASE q.state = 4 -> AddFrom(q)
    [] q.state = 5 -> AddFromTo(q)
    [] q.state \in {6, 10} -> q
    [] q.state = 9 -> AddLast(q)
    [] OTHER -> Fail(q)

-----------------------------------------------------------------------------
Init ==
  /\ filesize \in FileSizes
  /\ text = <<>>
  /\ p = Start
  /\ answer = "none"

Read(c) ==
  /\ answer = "none" /\ ~p.failed
  /\ Len(text) < MaxLen
  /\ ~(c = "sp" /\ text # <<>> /\ Last(text) = "sp")
  /\ text' = Append(text, c)
  /\ p' = Turn(p, c)
  /\ UNCHANGED <<filesize, answer>>

\* get_ranges() returns; process_request() resets the ranges and sends the
\* whole file, or says that no range can be satisfied, or sends the ranges.
Return ==
  /\ answer = "none"
  /\ p.failed \/ (Len(text) >= 2 /\ Last(text) # "sp")
  /\ LET q == IF p.failed THEN p ELSE AtEnd(p)
     IN /\ p' = IF q.failed THEN [q EXCEPT !.ranges = <<>>] ELSE q
        /\ answer' = CASE q.failed -> "200"
                       [] ~q.failed /\ q.ranges = <<>> -> "416"
                       [] OTHER -> "206"
  /\ UNCHANGED <<filesize, text>>

Next == Return \/ \E c \in Digit \cup Other \cup {"=", "-", ",", "sp"} : Read(c)

Spec == Init /\ [][Next]_vars

-----------------------------------------------------------------------------
\* What the text says, with numbers of any size: the items between the commas
\* behind the "=", blanks around the numbers dropped.
NoBlanks(s) == LET Visible(c) == c # "sp" IN SelectSeq(s, Visible)

Number(s) ==
  LET value(n, c) == n * 10 + DigitValue[c] IN FoldLeft(value, 0, s)

AllDigits(s) == s # <<>> /\ \A k \in 1 .. Len(s) : s[k] \in Digit

Items ==
  LET body == Tail(NoBlanks(text))
      cuts == <<0>> \o SetToSortSeq({k \in 1 .. Len(body) : body[k] = ","}, <) \o <<Len(body) + 1>>
  IN [n \in 1 .. Len(cuts) - 1 |-> SubSeq(body, cuts[n] + 1, cuts[n + 1] - 1)]

\* The position of the only dash of an item.
DashOf(item) == {k \in 1 .. Len(item) : item[k] = "-" /\ \A j \in 1 .. Len(item) : item[j] = "-" => j = k}

IsItem(item) ==
  \E k \in DashOf(item) :
    LET before == SubSeq(item, 1, k - 1)
        after == SubSeq(item, k + 1, Len(item))
    IN /\ before = <<>> \/ AllDigits(before)
       /\ after = <<>> \/ AllDigits(after)
       /\ before # <<>> \/ after # <<>>

\* No blank inside a number.
DigitsTogether ==
  \A k \in 2 .. Len(text) - 1 : text[k] = "sp" => ~(text[k - 1] \in Digit /\ text[k + 1] \in Digit)

IsRangeSet ==
  /\ NoBlanks(text) # <<>> /\ NoBlanks(text)[1] = "="
  /\ DigitsTogether
  /\ \A n \in 1 .. Len(Items) : IsItem(Items[n])

\* An item as the numbers it gives; None where it gives none.
None == -1
Meant(item) ==
  LET k == CHOOSE k \in DashOf(item) : TRUE
      before == SubSeq(item, 1, k - 1)
      after == SubSeq(item, k + 1, Len(item))
  IN [first |-> IF before = <<>> THEN None ELSE Number(before),
      last |-> IF after = <<>> THEN None ELSE Number(after)]

\* An item that names its bytes from the wrong end.
Backwards(item) == LET m == Meant(item) IN m.first # None /\ m.last # None /\ m.first > m.last

HasHugeNumber(item) == LET m == Meant(item) IN m.first > MaxOffset \/ m.last > MaxOffset

\* The bytes of the file an item names, as a range, or none.
Satisfied(item) ==
  LET m == Meant(item)
      suffix == Larger(filesize - m.last, 0)
  IN CASE m.first = None /\ m.last > 0 /\ filesize > 0 -> <<[from |-> suffix, to |-> filesize - 1]>>
       [] m.first # None /\ m.first < filesize ->
            <<[from |-> m.first,
               to |-> IF m.last = None THEN filesize - 1 ELSE Smaller(m.last, filesize - 1)]>>
       [] OTHER -> <<>>

AllSatisfied == FlattenSeq([n \in 1 .. Len(Items) |-> Satisfied(Items[n])])

-----------------------------------------------------------------------------
\* Type invariant: no number of the parser is ever negative.
TypeOK ==
  /\ text \in Seq(Digit \cup Other \cup {"=", "-", ",", "sp"})
  /\ p.state \in 0 .. 10
  /\ {p.from, p.to, p.count} \subseteq 0 .. MaxOffset
  /\ Len(p.ranges) <= MaxRanges
  /\ answer \in {"none", "200", "206", "416"}

\* Every range is a piece of the file, whatever the numbers overflow to: the
\* offsets given to sendfile().
RangesInFile ==
  \A n \in 1 .. Len(p.ranges) :
    0 <= p.ranges[n].from /\ p.ranges[n].from <= p.ranges[n].to /\ p.ranges[n].to < filesize

\* The test "it has become smaller" misses some overflows.  For a file of at
\* most a tenth of the largest off_t it makes no difference: what is sent is
\* what the numbers, without any overflow, ask for, in that order; the whole
\* file is sent only when the header is malformed, has a number no off_t holds,
\* or asks for too many pieces.
RangesAsAsked ==
  filesize <= MaxOffset \div 10 =>
    CASE answer \in {"206", "416"} ->
           /\ IsRangeSet
           /\ \A n \in 1 .. Len(Items) : Backwards(Items[n]) => HasHugeNumber(Items[n])
           /\ p.ranges = AllSatisfied
      [] answer = "200" ->
           \/ ~IsRangeSet
           \/ \E n \in 1 .. Len(Items) : Backwards(Items[n]) \/ HasHugeNumber(Items[n])
           \/ Len(AllSatisfied) > MaxRanges
      [] OTHER -> TRUE
=============================================================================
