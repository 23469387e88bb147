------------------------------ MODULE Numbers ------------------------------
(***************************************************************************)
(* util::number::parse(), its four overloads: the digits of a number are   *)
(* read one by one into an integer of a fixed width.  The test for an      *)
(* overflow is that a step makes the number smaller; a signed integer      *)
(* wraps as well, which is what the compiler makes of these loops.         *)
(***************************************************************************)
EXTENDS Integers

CONSTANTS
  Modulus,      \* 2^32 or 2^64
  Signed,       \* int32_t and int64_t or uint32_t and uint64_t
  Min, Max,     \* the range the caller asks for
  MaxLen        \* bound on the length of a text

\* One more than the largest number of the type.
Limit == IF Signed THEN Modulus \div 2 ELSE Modulus

ASSUME WidthAssumption ==
  /\ Modulus \in Nat /\ Modulus > 20 /\ Modulus % 2 = 0
  /\ Signed \in BOOLEAN
ASSUME RangeAssumption ==
  /\ Min \in Int /\ Max \in Int
  /\ Max < Limit /\ Min >= (IF Signed THEN -Limit ELSE 0)
ASSUME LengthAssumption == MaxLen \in Nat

VARIABLES
  len,      \* how many characters have been read
  sign,     \* -1 or 1
  n,        \* what they amount to for the code
  exact,    \* the number they write
  last,     \* what the last character was: "none", "sign", "digit" or "other"
  result    \* "more" while reading, then what parse() returns

vars == <<len, sign, n, exact, last, result>>

Digit == 0 .. 9

\* A number that the type cannot hold.
Wrapped(x) == IF Signed THEN ((x + Limit) % Modulus) - Limit ELSE x % Modulus

Init ==
  /\ len = 0 /\ sign = 1 /\ n = 0 /\ exact = 0
  /\ last = "none" /\ result = "more"

\* A sign, only as the first character and with something behind it.
Sign(s) ==
  /\ result = "more" /\ last = "none" /\ len < MaxLen
  /\ Signed
  /\ sign' = s /\ last' = "sign" /\ len' = 1
  /\ UNCHANGED <<n, exact, result>>

\* Defect: no test at all.
ReadUntested(d) ==
  /\ result = "more" /\ len < MaxLen
  /\ len' = len + 1 /\ exact' = exact * 10 + d /\ last' = "digit"
  /\ n' = Wrapped(n * 10 + d) /\ UNCHANGED result
  /\ UNCHANGED sign

\* A digit.
Read(d) ==
  /\ result = "more" /\ len < MaxLen
  /\ len' = len + 1 /\ exact' = exact * 10 + d /\ last' = "digit"
  /\ IF Wrapped(n * 10 + d) < n THEN result' = "error" /\ UNCHANGED n
     ELSE n' = Wrapped(n * 10 + d) /\ UNCHANGED result
  /\ UNCHANGED sign

\* Anything else.
ReadOther ==
  /\ result = "more" /\ len < MaxLen
  /\ len' = len + 1 /\ result' = "error" /\ last' = "other"
  /\ UNCHANGED <<sign, n, exact>>

\* The end of the text.
End ==
  /\ result = "more"
  /\ IF last # "digit" THEN result' = "error" ELSE
     \/ sign * n < Min /\ result' = "underflow"
     \/ sign * n >= Min /\ sign * n > Max /\ result' = "overflow"
     \/ sign * n \in Min .. Max /\ result' = "succeeded"
  /\ n' = sign * n
  /\ UNCHANGED <<len, sign, exact, last>>

Next ==
  \/ \E s \in {-1, 1} : Sign(s)
  \/ \E d \in Digit : Read(d)
  \/ ReadOther
  \/ End

Spec == Init /\ [][Next]_vars

-----------------------------------------------------------------------------
\* Type invariant.
TypeOK ==
  /\ len \in 0 .. MaxLen
  /\ sign \in {-1, 1}
  /\ n \in (IF Signed THEN -Limit ELSE 0) .. Limit - 1
  /\ exact \in Nat
  /\ last \in {"none", "sign", "digit", "other"}
  /\ len = 0 => last = "none"
  /\ result \in {"more", "error", "underflow", "overflow", "succeeded"}

\* A range in which one more digit always fits the type.  All the callers in
\* the server ask for the ports 1 .. 65535 in 32 bits.
SmallRange == 10 * Max + 9 < Limit /\ 10 * (-Min) + 9 < Limit

\* The test for an overflow misses some, but never one that leads back into a
\* small range: what is returned for it is the number that was written.
ExactInSmallRange == SmallRange /\ result = "succeeded" => n = sign * exact

\* A number whose digits the type can hold is read as it is and refused only for
\* its range.  (Those of the smallest signed number it cannot, and it is refused.)
FittingNumbersAreRead ==
  last = "digit" /\ exact < Limit =>
    /\ result # "error"
    /\ result = "more" => n = exact
    /\ result = "underflow" => sign * exact < Min
    /\ result = "overflow" => sign * exact > Max
    /\ result = "succeeded" => n = sign * exact /\ n \in Min .. Max
=============================================================================
