--------------------------- MODULE NumbersProofs ---------------------------
(***************************************************************************)
(* Numbers, for every width and every range: a small range makes the test  *)
(* for an overflow, which misses some, good enough, and what fits is read. *)
(***************************************************************************)
EXTENDS Numbers, TLAPS

\* What a step of the loop needs to know of the arithmetic of a type.
LEMMA LimitType == Limit \in Nat /\ Limit > 9 /\ (Signed => Modulus = 2 * Limit) /\ (~Signed => Modulus = Limit)
  BY WidthAssumption DEF Limit

\* Wrapping changes only what does not fit.
LEMMA WrapFits ==
  ASSUME NEW x \in Nat, x < Limit
  PROVE  Wrapped(x) = x
<1>1. CASE Signed
  <2>1. x + Limit \in Nat /\ x + Limit < Modulus
    BY <1>1, LimitType
  <2>2. (x + Limit) % Modulus = x + Limit
    BY <2>1, WidthAssumption
  <2> QED BY <1>1, <2>2, LimitType DEF Wrapped
<1>2. CASE ~Signed
  BY <1>2, LimitType, WidthAssumption DEF Wrapped
<1> QED BY <1>1, <1>2

\* Wrapping gives a number of the type.
LEMMA WrapType ==
  ASSUME NEW x \in Nat
  PROVE  Wrapped(x) \in Int /\ Wrapped(x) < Limit
<1>1. Modulus \in Nat \ {0}
  BY WidthAssumption
<1>2. CASE Signed
  <2>1. (x + Limit) % Modulus \in 0 .. Modulus - 1
    BY <1>1, LimitType
  <2> QED BY <1>2, <2>1, LimitType DEF Wrapped
<1>3. CASE ~Signed
  <2>1. x % Modulus \in 0 .. Modulus - 1
    BY <1>1
  <2> QED BY <1>3, <2>1, LimitType DEF Wrapped
<1> QED BY <1>2, <1>3

-----------------------------------------------------------------------------
\* Why: a number that has lost something is at least a tenth of what the type
\* can hold, and the test never lets it become smaller.
OnlyLargeNumbersAreWrong ==
  /\ result = "more" => n >= 0 /\ (n = exact \/ 10 * n + 9 >= Limit)
  /\ result \in {"underflow", "overflow", "succeeded"} =>
       \E m \in 0 .. Limit - 1 : n = sign * m /\ (m = exact \/ 10 * m + 9 >= Limit)

\* While reading, what fits is exact; the other parts are the properties.
IInv ==
  /\ TypeOK
  /\ OnlyLargeNumbersAreWrong
  /\ FittingNumbersAreRead
  /\ result = "more" /\ exact < Limit => n = exact
  /\ result = "more" /\ sign = -1 => Signed
  /\ result = "succeeded" => n \in Min .. Max

USE DEF IInv, TypeOK

LEMMA InitIInv == Init => IInv
BY LimitType, LengthAssumption, RangeAssumption
DEF Init, OnlyLargeNumbersAreWrong, FittingNumbersAreRead

LEMMA SignIInv ==
  ASSUME IInv, NEW s \in {-1, 1}, Sign(s)
  PROVE  IInv'
BY LimitType, LengthAssumption, RangeAssumption
DEF Sign, OnlyLargeNumbersAreWrong, FittingNumbersAreRead

\* A digit: an overflow that the test does not notice leaves a large number.
LEMMA ReadIInv ==
  ASSUME IInv, NEW d \in Digit, Read(d)
  PROVE  IInv'
<1> DEFINE x == n * 10 + d
<1>1. /\ n \in Nat /\ d \in 0 .. 9 /\ x \in Nat /\ exact \in Nat /\ result = "more"
      /\ Wrapped(x) \in Int /\ Wrapped(x) < Limit /\ Limit \in Nat
      /\ n = exact \/ 10 * n + 9 >= Limit
  BY WrapType, LimitType DEF Read, Digit, OnlyLargeNumbersAreWrong
<1>2. x < Limit => Wrapped(x) = x
  BY <1>1, WrapFits
<1>3. exact' = exact * 10 + d /\ (exact' < Limit => exact < Limit /\ x = exact')
  BY <1>1, LimitType DEF Read
<1>4. CASE Wrapped(x) < n
  <2>1. x >= Limit
    BY <1>1, <1>2, <1>4
  <2>2. result' = "error" /\ n' = n /\ sign' = sign /\ len' = len + 1 /\ last' = "digit"
    BY <1>4 DEF Read
  <2>3. ~(exact' < Limit)
    BY <1>1, <1>3, <2>1
  <2> QED
    BY <1>1, <1>3, <2>2, <2>3, LimitType, LengthAssumption
    DEF Read, OnlyLargeNumbersAreWrong, FittingNumbersAreRead
<1>5. CASE ~(Wrapped(x) < n)
  <2>1. n' = Wrapped(x) /\ result' = "more" /\ sign' = sign /\ len' = len + 1 /\ last' = "digit"
    BY <1>1, <1>5 DEF Read
  <2>2. n' \in Nat /\ n' >= n /\ n' < Limit
    BY <1>1, <1>5, <2>1
  <2>3. exact' < Limit => n' = exact'
    BY <1>1, <1>2, <1>3, <2>1
  <2>4. n' = exact' \/ 10 * n' + 9 >= Limit
    <3>1. CASE x < Limit /\ n = exact
      BY <1>1, <1>2, <1>3, <2>1, <3>1
    <3>2. CASE 10 * n + 9 >= Limit
      <4>1. \A a, b, c \in Nat : a >= b /\ 10 * b + 9 >= c => 10 * a + 9 >= c
        OBVIOUS
      <4> QED BY <1>1, <2>2, <3>2, <4>1
    <3>3. x < Limit \/ 10 * n + 9 >= Limit
      BY <1>1
    <3> QED BY <1>1, <3>1, <3>2, <3>3
  <2>5. TypeOK'
    BY <1>1, <1>3, <2>1, <2>2, LimitType, LengthAssumption DEF Read
  <2>6. OnlyLargeNumbersAreWrong'
    BY <2>1, <2>2, <2>4 DEF OnlyLargeNumbersAreWrong
  <2>7. FittingNumbersAreRead'
    BY <2>1, <2>3 DEF FittingNumbersAreRead
  <2> QED BY <1>1, <2>1, <2>3, <2>5, <2>6, <2>7
<1> QED BY <1>4, <1>5

LEMMA ReadOtherIInv ==
  ASSUME IInv, ReadOther
  PROVE  IInv'
BY LimitType, LengthAssumption DEF ReadOther, OnlyLargeNumbersAreWrong, FittingNumbersAreRead

LEMMA EndIInv ==
  ASSUME IInv, End
  PROVE  IInv'
<1>1. /\ n \in 0 .. Limit - 1 /\ sign \in {-1, 1} /\ exact \in Nat /\ result = "more"
      /\ n = exact \/ 10 * n + 9 >= Limit
      /\ exact < Limit => n = exact
      /\ Limit \in Nat
  BY LimitType DEF End, OnlyLargeNumbersAreWrong
<1>2. n' = sign * n /\ UNCHANGED <<len, sign, exact, last>>
  BY DEF End
<1>3. sign * n \in Int /\ (sign = 1 => sign * n = n) /\ (sign = -1 => sign * n = -n /\ Signed)
  BY <1>1
<1>4. \/ result' = "error" /\ last # "digit"
      \/ result' = "underflow" /\ sign * n < Min
      \/ result' = "overflow" /\ sign * n > Max
      \/ result' = "succeeded" /\ sign * n \in Min .. Max
  BY DEF End
<1>5. TypeOK'
  BY <1>1, <1>2, <1>3, <1>4, LengthAssumption
<1>6. OnlyLargeNumbersAreWrong'
  BY <1>1, <1>2, <1>4 DEF OnlyLargeNumbersAreWrong
<1>7. FittingNumbersAreRead'
  BY <1>1, <1>2, <1>4 DEF FittingNumbersAreRead
<1> QED BY <1>2, <1>4, <1>5, <1>6, <1>7

LEMMA NextIInv == IInv /\ [Next]_vars => IInv'
<1> SUFFICES ASSUME IInv, [Next]_vars PROVE IInv'
  OBVIOUS
<1>1. CASE \E s \in {-1, 1} : Sign(s)
  BY <1>1, SignIInv
<1>2. CASE \E d \in Digit : Read(d)
  BY <1>2, ReadIInv
<1>3. CASE ReadOther
  BY <1>3, ReadOtherIInv
<1>4. CASE End
  BY <1>4, EndIInv
<1>5. CASE UNCHANGED vars
  BY <1>5 DEF vars, OnlyLargeNumbersAreWrong, FittingNumbersAreRead
<1> QED BY <1>1, <1>2, <1>3, <1>4, <1>5 DEF Next

THEOREM Invariance == Spec => []IInv
<1> QED BY InitIInv, NextIInv, PTL DEF Spec

\* parse() keeps the number it reads within its type (number.cpp).
THEOREM TypeCorrect == Spec => []TypeOK
<1>1. IInv => TypeOK
  OBVIOUS
<1> QED BY <1>1, Invariance, PTL

\* What a caller with a small range gets from parse() is what was written:
\* the ports of Host headers and of the configuration.
THEOREM SmallRangesAreExact == Spec => []ExactInSmallRange
<1>1. IInv => ExactInSmallRange
  <2> SUFFICES ASSUME IInv, SmallRange, result = "succeeded"
               PROVE  n = sign * exact
    BY DEF ExactInSmallRange
  <2>1. PICK m \in 0 .. Limit - 1 : n = sign * m /\ (m = exact \/ 10 * m + 9 >= Limit)
    BY DEF OnlyLargeNumbersAreWrong
  <2>2. m \in Int /\ sign \in {-1, 1} /\ n \in Min .. Max /\ (n = m \/ n = -m)
    BY <2>1, LimitType
  <2>3. 10 * m + 9 < Limit
    BY <2>2, LimitType, RangeAssumption DEF SmallRange
  <2> QED BY <2>1, <2>2, <2>3, LimitType
<1> QED BY <1>1, Invariance, PTL

\* parse() refuses a number that its type can hold only for its range.
THEOREM FittingNumbers == Spec => []FittingNumbersAreRead
<1>1. IInv => FittingNumbersAreRead
  OBVIOUS
<1> QED BY <1>1, Invariance, PTL
=============================================================================
