-------------------------- MODULE RangeReplyProofs --------------------------
(***************************************************************************)
(* Proof that a reply has as many bytes as its Content-Length announces,   *)
(* for files of any size, any number of ranges, any lengths of headers, of *)
(* the MIME type and of the boundary, any portions that the kernel takes,  *)
(* and a file that is cut short at any time.                               *)
(*                                                                         *)
(* First the two ways to find the length of a number agree: divisions by   *)
(* ten in compute_content_length(), the digits that build_part_header()    *)
(* writes.  Then the sum is compared with what is sent, part by part       *)
(* (SentSoFar).                                                            *)
(***************************************************************************)
EXTENDS RangeReply, WellFoundedInduction, TLAPS

\* A set of naturals has a least element.
LEMMA LeastOf ==
  ASSUME NEW T \in SUBSET Nat, T # {}
  PROVE  \E m \in T : \A n \in T : m <= n
<1>1. \E x \in T : \A y \in T : <<y, x>> \notin OpToRel(<, Nat)
  BY NatLessThanWellFounded, WFMin
<1>2. \A x, y \in Nat : x < y => <<x, y>> \in OpToRel(<, Nat)
  BY DEF OpToRel
<1>3. PICK R : /\ \E x \in T : \A y \in T : <<y, x>> \notin R
               /\ \A x, y \in Nat : x < y => <<x, y>> \in R
  BY <1>1, <1>2, Zenon
<1>4. PICK m \in T : \A y \in T : <<y, m>> \notin R
  BY <1>3
<1>5. \A y \in T : ~(y < m)
  BY <1>3, <1>4
<1>. QED
  BY <1>5

\* What holds of 0 and is handed on holds of all naturals.
LEMMA ByInduction ==
  ASSUME NEW T, 0 \in T, \A n \in Nat : n \in T => n + 1 \in T
  PROVE  Nat \subseteq T
<1>1. SUFFICES ASSUME Nat \ T # {}
               PROVE  FALSE
  OBVIOUS
<1>2. PICK m \in Nat \ T : \A n \in Nat \ T : m <= n
  BY <1>1, LeastOf
<1>3. m - 1 \in Nat /\ m - 1 \in T
  BY <1>2
<1>. QED
  BY <1>2, <1>3

-----------------------------------------------------------------------------
(* The length of a number.                                                 *)

\* len has the results of number::length() up to n.
Divides(len, n) ==
  /\ len \in [0 .. n -> Nat]
  /\ \A m \in 0 .. n : len[m] = IF m > 9 THEN 1 + len[m \div 10] ELSE 1

\* There is such a function.
LEMMA DivisionsExist ==
  ASSUME NEW n \in Nat
  PROVE  \E len : Divides(len, n)
<1>. DEFINE T == {e \in Nat : \E len : Divides(len, e)}
<1>1. 0 \in T
  <2>. DEFINE f == [m \in 0 .. 0 |-> 1]
  <2>1. Divides(f, 0)
    BY DEF Divides
  <2>. QED
    BY <2>1, Zenon
<1>2. ASSUME NEW e \in Nat, e \in T
      PROVE  e + 1 \in T
  <2>1. PICK f : Divides(f, e)
    BY <1>2
  <2>. DEFINE g == [m \in 0 .. e + 1 |-> IF m <= e THEN f[m]
                                         ELSE IF m > 9 THEN 1 + f[m \div 10] ELSE 1]
  <2>2. \A m \in 0 .. e + 1 : m > 9 => m \div 10 \in 0 .. e
    OBVIOUS
  <2>3. g \in [0 .. e + 1 -> Nat]
    BY <2>1, <2>2 DEF Divides
  <2>4. ASSUME NEW m \in 0 .. e + 1
        PROVE  g[m] = IF m > 9 THEN 1 + g[m \div 10] ELSE 1
    <3>1. m > 9 => g[m \div 10] = f[m \div 10]
      BY <2>2
    <3>2. CASE m <= e
      <4>1. m \in 0 .. e /\ g[m] = f[m]
        BY <3>2
      <4>. QED
        BY <2>1, <3>1, <4>1 DEF Divides
    <3>3. CASE ~(m <= e)
      <4>1. g[m] = IF m > 9 THEN 1 + f[m \div 10] ELSE 1
        BY <3>3
      <4>. QED
        BY <3>1, <4>1
    <3>. QED
      BY <3>2, <3>3
  <2>5. Divides(g, e + 1)
    <3>. HIDE DEF g
    <3>. QED
      BY <2>3, <2>4 DEF Divides
  <2>6. \E len : Divides(len, e + 1)
    BY <2>5, Zenon
  <2>. QED
    BY <2>6
<1>3. n \in T
  BY <1>1, <1>2, ByInduction
<1>. QED
  BY <1>3

\* number::length() is its last value.
LEMMA LengthIs ==
  ASSUME NEW n \in Nat
  PROVE  \E len : Divides(len, n) /\ LengthOf(n) = len[n]
<1>. DEFINE Def(f) == [m \in 0 .. n |-> IF m > 9 THEN 1 + f[m \div 10] ELSE 1]
            g == CHOOSE f : f = Def(f)
<1>1. LengthOf(n) = g[n]
  BY Zenon DEF LengthOf
<1>2. PICK len : Divides(len, n)
  BY DivisionsExist
<1>3. len = Def(len)
  BY <1>2 DEF Divides
<1>4. g = Def(g)
  BY <1>3, Zenon
<1>. HIDE DEF g
<1>. DEFINE D == {m \in 0 .. n : g[m] # len[m]}
<1>5. ASSUME D # {}
      PROVE  FALSE
  <2>1. D \in SUBSET Nat
    OBVIOUS
  <2>2. PICK m \in D : \A k \in D : m <= k
    <3>. HIDE DEF D
    <3>. QED
      BY <1>5, <2>1, LeastOf
  <2>3. /\ g[m] = IF m > 9 THEN 1 + g[m \div 10] ELSE 1
        /\ len[m] = IF m > 9 THEN 1 + len[m \div 10] ELSE 1
    BY <1>2, <1>4 DEF Divides
  <2>4. m > 9 => m \div 10 \in 0 .. n /\ ~(m <= m \div 10)
    OBVIOUS
  <2>5. m > 9 => g[m \div 10] = len[m \div 10]
    BY <2>2, <2>4
  <2>. QED
    BY <2>2, <2>3, <2>5
<1>6. g[n] = len[n]
  <2>1. n \notin D
    <3>. HIDE DEF D
    <3>. QED
      BY <1>5
  <2>. QED
    BY <2>1
<1>. QED
  BY <1>1, <1>2, <1>6

\* ten has the powers of ten up to n.
Powers(ten, n) ==
  /\ ten \in [0 .. n -> Nat]
  /\ ten[0] = 1
  /\ \A d \in 1 .. n : ten[d] = 10 * ten[d - 1]

\* There is such a function.
LEMMA PowersExist ==
  ASSUME NEW n \in Nat
  PROVE  \E ten : Powers(ten, n)
<1>. DEFINE T == {e \in Nat : \E ten : Powers(ten, e)}
<1>1. 0 \in T
  <2>. DEFINE f == [d \in 0 .. 0 |-> 1]
  <2>1. Powers(f, 0)
    BY DEF Powers
  <2>. QED
    BY <2>1, Zenon
<1>2. ASSUME NEW e \in Nat, e \in T
      PROVE  e + 1 \in T
  <2>1. PICK f : Powers(f, e)
    BY <1>2
  <2>. DEFINE g == [d \in 0 .. e + 1 |-> IF d <= e THEN f[d] ELSE 10 * f[e]]
  <2>2. g \in [0 .. e + 1 -> Nat] /\ g[0] = 1
    BY <2>1 DEF Powers
  <2>3. ASSUME NEW d \in 1 .. e + 1
        PROVE  g[d] = 10 * g[d - 1]
    <3>1. d - 1 \in 0 .. e /\ g[d - 1] = f[d - 1]
      OBVIOUS
    <3>2. CASE d <= e
      <4>1. d \in 1 .. e /\ g[d] = f[d]
        BY <3>2
      <4>. QED
        BY <2>1, <3>1, <4>1 DEF Powers
    <3>3. CASE d = e + 1
      <4>1. g[d] = 10 * f[e]
        BY <3>3
      <4>. QED
        BY <3>1, <3>3, <4>1
    <3>. QED
      BY <3>2, <3>3
  <2>4. Powers(g, e + 1)
    <3>. HIDE DEF g
    <3>. QED
      BY <2>2, <2>3 DEF Powers
  <2>5. \E ten : Powers(ten, e + 1)
    BY <2>4, Zenon
  <2>. QED
    BY <2>5
<1>3. n \in T
  BY <1>1, <1>2, ByInduction
<1>. QED
  BY <1>3

\* A number of digits that n has.
Digits(ten, n, d) == d \in 1 .. n + 1 /\ ten[d] > n /\ (d = 1 \/ ten[d - 1] <= n)

\* "%lld" writes such a number of digits.
LEMMA DecimalsAre ==
  ASSUME NEW n \in Nat
  PROVE  \E ten : Powers(ten, n + 1) /\ Decimals(n) = CHOOSE d \in 1 .. n + 1 : Digits(ten, n, d)
<1>. DEFINE Def(f) == [d \in 0 .. n + 1 |-> IF d = 0 THEN 1 ELSE 10 * f[d - 1]]
            g == CHOOSE f : f = Def(f)
<1>1. Decimals(n) = CHOOSE d \in 1 .. n + 1 : g[d] > n /\ (d = 1 \/ g[d - 1] <= n)
  BY Zenon DEF Decimals
<1>2. PICK ten : Powers(ten, n + 1)
  BY PowersExist
<1>3. ten = Def(ten)
  BY <1>2 DEF Powers
<1>4. g = Def(g)
  BY <1>3, Zenon
<1>. HIDE DEF g
<1>5. g[0] = 1 /\ \A d \in 1 .. n + 1 : g[d] = 10 * g[d - 1]
  BY <1>4
<1>. DEFINE D == {d \in 0 .. n + 1 : g[d] # ten[d]}
<1>6. ASSUME D # {}
      PROVE  FALSE
  <2>1. D \in SUBSET Nat
    OBVIOUS
  <2>2. PICK d \in D : \A k \in D : d <= k
    <3>. HIDE DEF D
    <3>. QED
      BY <1>6, <2>1, LeastOf
  <2>3. d # 0
    BY <1>2, <1>5 DEF Powers
  <2>4. d - 1 \in 0 .. n + 1 /\ g[d - 1] = ten[d - 1]
    BY <2>2, <2>3
  <2>5. g[d] = 10 * g[d - 1] /\ ten[d] = 10 * ten[d - 1]
    BY <1>2, <1>5, <2>3 DEF Powers
  <2>. QED
    BY <2>2, <2>4, <2>5
<1>7. g = ten
  <2>1. D = {}
    <3>. HIDE DEF D
    <3>. QED
      BY <1>6
  <2>2. \A d \in 0 .. n + 1 : g[d] = ten[d]
    BY <2>1
  <2>. QED
    BY <1>2, <1>4, <2>2 DEF Powers
<1>. QED
  BY <1>1, <1>2, <1>7, Zenon DEF Digits

\* Powers of ten grow, and faster than their exponents.
LEMMA PowersGrow ==
  ASSUME NEW n \in Nat, NEW ten, Powers(ten, n)
  PROVE  /\ \A e \in 0 .. n : ten[e] > e
         /\ \A e \in 0 .. n : \A d \in 0 .. e : ten[d] <= ten[e]
<1>. DEFINE T == {e \in Nat : e <= n => ten[e] > e /\ \A d \in 0 .. e : ten[d] <= ten[e]}
<1>1. 0 \in T
  BY DEF Powers
<1>2. ASSUME NEW e \in Nat, e \in T
      PROVE  e + 1 \in T
  <2>1. SUFFICES ASSUME e + 1 <= n
                 PROVE  ten[e + 1] > e + 1 /\ \A d \in 0 .. e + 1 : ten[d] <= ten[e + 1]
    OBVIOUS
  <2>2. ten[e] \in Nat /\ ten[e] > e /\ \A d \in 0 .. e : ten[d] <= ten[e]
    BY <1>2, <2>1 DEF Powers
  <2>3. e + 1 \in 1 .. n /\ ten[e + 1] = 10 * ten[e]
    BY <2>1 DEF Powers
  <2>4. ten[e + 1] >= ten[e] /\ ten[e + 1] > e + 1 /\ ten[e + 1] \in Nat
    BY <2>2, <2>3
  <2>5. \A d \in 0 .. e : ten[d] \in Nat
    BY <2>1 DEF Powers
  <2>. QED
    BY <2>2, <2>4, <2>5
<1>3. Nat \subseteq T
  <2>. HIDE DEF T
  <2>. QED
    BY <1>1, <1>2, ByInduction
<1>. QED
  BY <1>3

\* number::length() of a number is how many digits it has.
LEMMA LengthHasDigits ==
  ASSUME NEW n \in Nat, NEW ten, Powers(ten, n + 1), NEW len, Divides(len, n)
  PROVE  Digits(ten, n, len[n])
<1>1. /\ \A e \in 0 .. n + 1 : ten[e] \in Nat /\ ten[e] > e
      /\ \A d \in 0 .. n : ten[d + 1] = 10 * ten[d]
      /\ ten[0] = 1
  <2>1. \A d \in 0 .. n : d + 1 \in 1 .. n + 1 /\ (d + 1) - 1 = d
    OBVIOUS
  <2>2. \A d \in 0 .. n : ten[d + 1] = 10 * ten[d]
    BY <2>1 DEF Powers
  <2>3. n + 1 \in Nat
    OBVIOUS
  <2>4. \A e \in 0 .. n + 1 : ten[e] > e
    BY <2>3, PowersGrow
  <2>. QED
    BY <2>2, <2>4 DEF Powers
<1>. DEFINE D == {m \in 0 .. n : ~Digits(ten, m, len[m])}
<1>2. ASSUME D # {}
      PROVE  FALSE
  <2>1. D \in SUBSET Nat
    OBVIOUS
  <2>2. PICK m \in D : \A k \in D : m <= k
    <3>. HIDE DEF D
    <3>. QED
      BY <1>2, <2>1, LeastOf
  <2>3. len[m] \in Nat /\ len[m] = IF m > 9 THEN 1 + len[m \div 10] ELSE 1
    BY DEF Divides
  <2>4. CASE ~(m > 9)
    <3>1. len[m] = 1 /\ ten[1] = 10 * ten[0] /\ ten[0] = 1
      BY <1>1, <2>3, <2>4
    <3>. QED
      BY <2>2, <2>4, <3>1 DEF Digits
  <2>5. CASE m > 9
    <3>. DEFINE k == m \div 10
                l == len[k]
    <3>1. k \in 0 .. n /\ k \in Nat /\ ~(m <= k) /\ 10 * k <= m /\ m < 10 * k + 10 /\ k >= 1
      BY <2>5
    <3>2. Digits(ten, k, l)
      BY <2>2, <3>1
    <3>3. l \in 1 .. k + 1 /\ ten[l] > k /\ (l = 1 \/ ten[l - 1] <= k)
      BY <3>2 DEF Digits
    <3>4. len[m] = 1 + l
      BY <2>3, <2>5
    <3>5. l \in 0 .. n /\ ten[l] \in Nat /\ ten[l + 1] = 10 * ten[l]
      BY <1>1, <3>1, <3>3
    <3>6. ten[l + 1] > m
      BY <3>1, <3>3, <3>5
    <3>7. ten[l] <= m
      <4>1. CASE l = 1
        <5>1. ten[1] = 10
          BY <1>1, <3>5, <4>1
        <5>. QED
          BY <2>5, <4>1, <5>1
      <4>2. CASE l # 1
        <5>1. l - 1 \in 0 .. n /\ (l - 1) + 1 = l
          BY <3>3, <3>5, <4>2
        <5>2. ten[l - 1] \in Nat /\ ten[l] = 10 * ten[l - 1] /\ ten[l - 1] <= k
          BY <1>1, <3>3, <4>2, <5>1
        <5>. QED
          BY <3>1, <5>2
      <4>. QED
        BY <4>1, <4>2
    <3>8. l + 1 \in 1 .. m + 1 /\ (l + 1) - 1 = l
      BY <3>1, <3>3
    <3>9. Digits(ten, m, 1 + l)
      <4>1. 1 + l = l + 1
        BY <3>3
      <4>. HIDE DEF l
      <4>. QED
        BY <3>6, <3>7, <3>8, <4>1 DEF Digits
    <3>. QED
      BY <2>2, <3>4, <3>9
  <2>. QED
    BY <2>4, <2>5
<1>3. n \notin D
  <2>. HIDE DEF D
  <2>. QED
    BY <1>2
<1>. QED
  BY <1>3

\* It has one number of digits.
LEMMA DigitsAreOne ==
  ASSUME NEW n \in Nat, NEW ten, Powers(ten, n + 1), NEW c, NEW d, Digits(ten, n, c), Digits(ten, n, d)
  PROVE  ~(c < d)
<1>1. SUFFICES ASSUME c < d
               PROVE  FALSE
  OBVIOUS
<1>2. c \in 1 .. n + 1 /\ d \in 1 .. n + 1 /\ ten[c] > n /\ ten[d - 1] <= n
  BY <1>1 DEF Digits
<1>3. d - 1 \in 0 .. n + 1 /\ c \in 0 .. d - 1
  BY <1>1, <1>2
<1>4. ten[c] <= ten[d - 1]
  BY <1>3, PowersGrow
<1>5. ten[c] \in Nat /\ ten[d - 1] \in Nat
  BY <1>2, <1>3 DEF Powers
<1>. QED
  BY <1>2, <1>4, <1>5

\* So both lengths are the same.
LEMMA LengthsAgree ==
  ASSUME NEW n \in Nat
  PROVE  LengthOf(n) = Decimals(n) /\ LengthOf(n) \in Nat
<1>1. PICK len : Divides(len, n) /\ LengthOf(n) = len[n]
  BY LengthIs
<1>2. PICK ten : Powers(ten, n + 1) /\ Decimals(n) = CHOOSE d \in 1 .. n + 1 : Digits(ten, n, d)
  BY DecimalsAre
<1>3. Digits(ten, n, LengthOf(n))
  BY <1>1, <1>2, LengthHasDigits
<1>4. LengthOf(n) \in 1 .. n + 1
  BY <1>3 DEF Digits
<1>5. Decimals(n) \in 1 .. n + 1 /\ Digits(ten, n, Decimals(n))
  BY <1>2, <1>3, <1>4, Zenon
<1>6. ~(LengthOf(n) < Decimals(n)) /\ ~(Decimals(n) < LengthOf(n))
  BY <1>2, <1>3, <1>5, DigitsAreOne
<1>. QED
  BY <1>4, <1>5, <1>6

-----------------------------------------------------------------------------
(* The length of the parts.                                                *)

\* The bytes of a part: its header and its piece of the file.
PartLen(size, range) == PartHeaderLen(size, range) + (range.to - range.from + 1)

\* sum[k] counts the footer and the first k parts.
Sums(sum, size, pieces) ==
  /\ sum \in [0 .. Len(pieces) -> Nat]
  /\ sum[0] = FooterLen
  /\ \A k \in 1 .. Len(pieces) : sum[k] = sum[k - 1] + PartLen(size, pieces[k])

\* What a piece of a file is.
LEMMA PieceIs ==
  ASSUME NEW size \in Nat, NEW range \in Pieces(size)
  PROVE  /\ range.from \in Nat /\ range.to \in Nat
         /\ range.from <= range.to /\ range.to < size
BY DEF Pieces

\* Headers of parts, parts and the footer have a length.
LEMMA PartType ==
  ASSUME NEW size \in Nat, NEW range \in Pieces(size)
  PROVE  /\ PartHeaderLen(size, range) \in Nat \ {0} /\ PartLen(size, range) \in Nat
         /\ FooterLen \in Nat \ {0}
<1>1. range.from \in Nat /\ range.to \in Nat /\ range.from <= range.to
  BY PieceIs
<1>2. Decimals(range.from) \in Nat /\ Decimals(range.to) \in Nat /\ Decimals(size) \in Nat
  BY <1>1, LengthsAgree
<1>3. PartHeaderLen(size, range) \in Nat \ {0}
  BY <1>2, LengthsAssumption DEF PartHeaderLen
<1>4. FooterLen \in Nat \ {0}
  BY LengthsAssumption DEF FooterLen
<1>. QED
  BY <1>1, <1>3, <1>4 DEF PartLen

\* The sums exist ...
LEMMA SumsExist ==
  ASSUME NEW size \in Nat, NEW pieces \in Seq(Pieces(size))
  PROVE  \E sum : Sums(sum, size, pieces)
<1>. DEFINE Counts(f, e) == /\ f \in [0 .. e -> Nat]
                            /\ f[0] = FooterLen
                            /\ \A k \in 1 .. e : f[k] = f[k - 1] + PartLen(size, pieces[k])
            T == {e \in Nat : e <= Len(pieces) => \E f : Counts(f, e)}
<1>0. FooterLen \in Nat /\ Len(pieces) \in Nat /\ \A k \in 1 .. Len(pieces) : PartLen(size, pieces[k]) \in Nat
  <2>1. FooterLen \in Nat
    BY LengthsAssumption DEF FooterLen
  <2>2. \A k \in 1 .. Len(pieces) : pieces[k] \in Pieces(size)
    OBVIOUS
  <2>. QED
    BY <2>1, <2>2, PartType
<1>1. 0 \in T
  <2>. DEFINE f == [k \in 0 .. 0 |-> FooterLen]
  <2>1. Counts(f, 0)
    BY <1>0
  <2>2. \E g : Counts(g, 0)
    BY <2>1, Zenon
  <2>. QED
    BY <2>2
<1>2. ASSUME NEW e \in Nat, e \in T
      PROVE  e + 1 \in T
  <2>1. SUFFICES ASSUME e + 1 <= Len(pieces)
                 PROVE  \E f : Counts(f, e + 1)
    OBVIOUS
  <2>2. PICK f : Counts(f, e)
    BY <1>0, <1>2, <2>1
  <2>3. PartLen(size, pieces[e + 1]) \in Nat
    BY <1>0, <2>1
  <2>. DEFINE g == [k \in 0 .. e + 1 |-> IF k <= e THEN f[k] ELSE f[e] + PartLen(size, pieces[e + 1])]
  <2>4. g \in [0 .. e + 1 -> Nat] /\ g[0] = FooterLen
    BY <2>2, <2>3
  <2>5. ASSUME NEW k \in 1 .. e + 1
        PROVE  g[k] = g[k - 1] + PartLen(size, pieces[k])
    <3>1. k - 1 \in 0 .. e /\ g[k - 1] = f[k - 1]
      OBVIOUS
    <3>2. CASE k <= e
      <4>1. k \in 1 .. e /\ g[k] = f[k]
        BY <3>2
      <4>. QED
        BY <2>2, <3>1, <4>1
    <3>3. CASE k = e + 1
      <4>1. g[k] = f[e] + PartLen(size, pieces[k])
        BY <3>3
      <4>. QED
        BY <3>1, <3>3, <4>1
    <3>. QED
      BY <3>2, <3>3
  <2>6. Counts(g, e + 1)
    <3>. HIDE DEF g
    <3>. QED
      BY <2>4, <2>5
  <2>. QED
    BY <2>6, Zenon
<1>3. Len(pieces) \in T
  <2>. HIDE DEF T
  <2>. QED
    BY <1>0, <1>1, <1>2, ByInduction
<1>. QED
  BY <1>3 DEF Sums

\* ... and compute_content_length() has added up the last one.
LEMMA PartsLengthIs ==
  ASSUME NEW size \in Nat, NEW pieces \in Seq(Pieces(size)), NEW sum, Sums(sum, size, pieces)
  PROVE  PartsLength(size, pieces) = sum[Len(pieces)]
<1>. DEFINE Parted(range) ==
              (2 + 2 + BoundaryLen + 2 + 14 + MimeTypeLen + 2 + 21 + LengthOf(range.from) + 1
                 + LengthOf(range.to) + 1 + LengthOf(size) + 2 + 2)
              + (range.to - range.from + 1)
            Def(f) == [k \in 0 .. Len(pieces) |->
                        IF k = 0 THEN 2 + 2 + BoundaryLen + 2 + 2 ELSE f[k - 1] + Parted(pieces[k])]
            g == CHOOSE f : f = Def(f)
<1>1. PartsLength(size, pieces) = g[Len(pieces)]
  BY Zenon DEF PartsLength
<1>2. ASSUME NEW k \in 1 .. Len(pieces)
      PROVE  Parted(pieces[k]) = PartLen(size, pieces[k])
  <2>. DEFINE range == pieces[k]
  <2>1. range \in Pieces(size)
    OBVIOUS
  <2>. HIDE DEF range
  <2>2. range.from \in Nat /\ range.to \in Nat
    BY <2>1, PieceIs
  <2>3. /\ LengthOf(range.from) = Decimals(range.from) /\ Decimals(range.from) \in Nat
        /\ LengthOf(range.to) = Decimals(range.to) /\ Decimals(range.to) \in Nat
        /\ LengthOf(size) = Decimals(size) /\ Decimals(size) \in Nat
    BY <2>2, LengthsAgree
  <2>4. Parted(range) = PartLen(size, range)
    <3>. DEFINE a == Decimals(range.from)
                b == Decimals(range.to)
                c == Decimals(size)
    <3>1. /\ Parted(range) = (2 + 2 + BoundaryLen + 2 + 14 + MimeTypeLen + 2 + 21 + a + 1 + b + 1 + c + 2 + 2)
                             + (range.to - range.from + 1)
          /\ PartLen(size, range) = (4 + BoundaryLen + 2) + (14 + MimeTypeLen + 2) + (21 + a + 1 + b + 1 + c + 4)
                                    + (range.to - range.from + 1)
      BY <2>3, Zenon DEF PartLen, PartHeaderLen
    <3>2. a \in Nat /\ b \in Nat /\ c \in Nat
      BY <2>3
    <3>. HIDE DEF a, b, c, Parted
    <3>. QED
      BY <2>2, <3>1, <3>2, LengthsAssumption
  <2>. QED
    BY <2>4 DEF range
<1>. HIDE DEF Parted
<1>3. 2 + 2 + BoundaryLen + 2 + 2 = FooterLen
  BY LengthsAssumption DEF FooterLen
<1>4. sum = Def(sum)
  BY <1>2, <1>3 DEF Sums
<1>5. g = Def(g)
  BY <1>4, Zenon
<1>. HIDE DEF g
<1>. DEFINE D == {k \in 0 .. Len(pieces) : g[k] # sum[k]}
<1>6. ASSUME D # {}
      PROVE  FALSE
  <2>1. D \in SUBSET Nat
    OBVIOUS
  <2>2. PICK k \in D : \A j \in D : k <= j
    <3>. HIDE DEF D
    <3>. QED
      BY <1>6, <2>1, LeastOf
  <2>3. k # 0
    <3>1. g[0] = 2 + 2 + BoundaryLen + 2 + 2 /\ sum[0] = FooterLen
      BY <1>5 DEF Sums
    <3>. QED
      BY <1>3, <2>2, <3>1
  <2>4. k - 1 \in 0 .. Len(pieces) /\ g[k - 1] = sum[k - 1]
    BY <2>2, <2>3
  <2>5. g[k] = g[k - 1] + Parted(pieces[k]) /\ sum[k] = sum[k - 1] + Parted(pieces[k])
    BY <1>4, <1>5, <2>3
  <2>. QED
    BY <2>2, <2>4, <2>5
<1>7. g[Len(pieces)] = sum[Len(pieces)]
  <2>1. Len(pieces) \notin D
    <3>. HIDE DEF D
    <3>. QED
      BY <1>6
  <2>. QED
    BY <2>1
<1>. QED
  BY <1>1, <1>7

\* What compute_content_length() announces.
LEMMA ContentLengthIs ==
  ASSUME NEW size \in Nat, NEW pieces \in Seq(Pieces(size)), NEW sum, Sums(sum, size, pieces)
  PROVE  ContentLength(size, pieces) =
           CASE Len(pieces) = 0 -> size
             [] Len(pieces) = 1 -> pieces[1].to - pieces[1].from + 1
             [] OTHER -> sum[Len(pieces)]
BY PartsLengthIs, Zenon DEF ContentLength

-----------------------------------------------------------------------------
(* The invariant.                                                          *)

\* Where the body, or the range of it that is next, begins.
StartOfBody == IF ranges = <<>> THEN 0 ELSE ranges[nrange + 1].from

\* What has been sent, by the state of run().
SentSoFar(sum) ==
  /\ phase = "processing" => nrange = 0 /\ outp = 0 /\ sent = 0
  /\ phase = "headers" =>
       /\ nrange = 0 /\ sent = outp
       /\ out = HeadLen + (IF multipart /\ ~request.head THEN PartHeaderLen(filesize, ranges[1]) ELSE 0)
  /\ phase \in {"body", "part", "footer"} => ~request.head
  /\ phase = "body" =>
       /\ filesize > 0 /\ StartOfBody <= outp
       /\ IF multipart
            THEN /\ nrange < Len(ranges)
                 /\ sent + FooterLen = HeadLen + sum[nrange] + PartHeaderLen(filesize, ranges[nrange + 1])
                                       + (outp - StartOfBody)
            ELSE nrange = 0 /\ sent = HeadLen + (outp - StartOfBody)
  /\ phase = "part" =>
       /\ multipart /\ nrange \in 1 .. Len(ranges) - 1
       /\ out = PartHeaderLen(filesize, ranges[nrange + 1])
       /\ sent + FooterLen = HeadLen + sum[nrange] + outp
  /\ phase = "footer" =>
       /\ multipart /\ nrange = Len(ranges) /\ out = FooterLen
       /\ sent + FooterLen = HeadLen + sum[nrange] + outp
  /\ BodyAsAnnounced

\* The numbers are such.
Whole == sent \in Nat /\ out \in Nat /\ outp \in Nat

\* The inductive invariant.
IInv == TypeOK /\ Whole /\ \E sum : Sums(sum, filesize, ranges) /\ SentSoFar(sum)

\* What a request is.
LEMMA RequestIs ==
  ASSUME request \in Requests
  PROVE  /\ request.head \in BOOLEAN /\ filesize \in Nat
         /\ ranges \in Seq(Pieces(filesize)) /\ Len(ranges) \in Nat
         /\ (ranges = <<>> <=> Len(ranges) = 0)
         /\ \A k \in 1 .. Len(ranges) : ranges[k] \in Pieces(filesize)
<1>1. request.head \in BOOLEAN /\ filesize \in Nat /\ ranges \in Seq(Pieces(filesize))
  BY RequestsAssumption DEF filesize, ranges
<1>. QED
  BY <1>1

\* While the request is the same, so is what it asks for.
LEMMA RequestStays ==
  ASSUME request' = request
  PROVE  filesize' = filesize /\ ranges' = ranges /\ multipart' = multipart
BY DEF filesize, ranges, multipart

\* At the beginning nothing has been sent.
LEMMA InitHolds == Init => IInv
<1>. SUFFICES ASSUME Init
              PROVE  IInv
  OBVIOUS
<1>1. request \in Requests /\ filesize \in Nat /\ ranges \in Seq(Pieces(filesize)) /\ Len(ranges) \in Nat
  BY RequestIs DEF Init
<1>2. PICK sum : Sums(sum, filesize, ranges)
  BY <1>1, SumsExist
<1>3. SentSoFar(sum)
  BY DEF Init, SentSoFar, BodyAsAnnounced
<1>4. TypeOK /\ Whole
  <2>1. request \in Requests /\ disk = filesize /\ phase = "processing" /\ nrange = 0
        /\ out = 0 /\ outp = 0 /\ sent = 0
    BY DEF Init, filesize
  <2>2. {writable, timer, full} \subseteq BOOLEAN
    BY Zenon DEF Init
  <2>. QED
    BY <1>1, <2>1, <2>2 DEF TypeOK, Whole
<1>. QED
  BY <1>2, <1>3, <1>4 DEF IInv

\* process_request() leaves the headers to be sent.
LEMMA ProcessRequestKeeps ==
  ASSUME IInv, NEW sum, Sums(sum, filesize, ranges), SentSoFar(sum), ProcessRequest
  PROVE  TypeOK' /\ Whole' /\ SentSoFar(sum)'
<1>1. /\ request.head \in BOOLEAN /\ filesize \in Nat /\ Len(ranges) \in Nat
      /\ \A k \in 1 .. Len(ranges) : ranges[k] \in Pieces(filesize)
  BY RequestIs DEF IInv, TypeOK
<1>2. filesize' = filesize /\ ranges' = ranges /\ multipart' = multipart /\ request' = request
  BY RequestStays DEF ProcessRequest
<1>3. multipart => PartHeaderLen(filesize, ranges[1]) \in Nat
  <2>1. multipart => 1 \in 1 .. Len(ranges)
    BY <1>1 DEF multipart
  <2>. QED
    BY <1>1, <2>1, PartType
<1>4. out' \in Nat /\ outp' = 0 /\ nrange' = 0 /\ sent' = 0 /\ phase' = "headers"
  BY <1>3, LengthsAssumption DEF ProcessRequest, SentSoFar
<1>5. TypeOK' /\ Whole'
  BY <1>2, <1>4 DEF TypeOK, Whole, IInv, ProcessRequest
<1>6. SentSoFar(sum)'
  BY <1>2, <1>4 DEF SentSoFar, BodyAsAnnounced, ProcessRequest
<1>. QED
  BY <1>5, <1>6

\* write() takes some bytes of the buffer.
LEMMA WriteKeeps ==
  ASSUME IInv, NEW sum, Sums(sum, filesize, ranges), SentSoFar(sum), Write
  PROVE  TypeOK' /\ Whole' /\ SentSoFar(sum)'
<1>1. /\ request.head \in BOOLEAN /\ filesize \in Nat /\ Len(ranges) \in Nat
      /\ \A k \in 1 .. Len(ranges) : ranges[k] \in Pieces(filesize)
  BY RequestIs DEF IInv, TypeOK
<1>2. filesize' = filesize /\ ranges' = ranges /\ multipart' = multipart /\ request' = request
  BY RequestStays DEF Write
<1>3. PICK n \in Taken({1, out - outp - (out - outp) \div 2, out - outp}) :
        /\ outp' = outp + n
        /\ sent' = sent + n
        /\ timer' = (n < out - outp) /\ writable' = (n = out - outp)
        /\ full' \in IF n = 0 THEN {full} ELSE {TRUE, n < out - outp}
  BY DEF Write
<1>4. out \in Nat /\ outp \in Nat /\ sent \in Nat /\ outp < out
  BY DEF IInv, Whole, Write
<1>5. n \in 0 .. out - outp
  BY <1>3, <1>4 DEF Taken
<1>6. /\ phase \in {"headers", "part", "footer"} /\ phase' = phase /\ out' = out /\ nrange' = nrange
      /\ disk' = disk
  BY DEF Write
<1>7. TypeOK' /\ Whole'
  <2>1. {writable', timer', full'} \subseteq BOOLEAN
    <3>1. full \in BOOLEAN
      BY Zenon DEF IInv, TypeOK
    <3>2. full' \in BOOLEAN
      <4>1. full' = full \/ full' = TRUE \/ full' = (n < out - outp)
        BY <1>3, Zenon
      <4>2. (n < out - outp) \in BOOLEAN
        BY SMT
      <4>. QED
        BY <3>1, <4>1, <4>2, Zenon
    <3>3. timer' \in BOOLEAN /\ writable' \in BOOLEAN
      BY <1>3, SMT
    <3>. QED
      BY <3>2, <3>3, Zenon
  <2>2. outp' \in 0 .. out' /\ out' \in Nat /\ outp' \in Nat /\ sent' \in Nat
    BY <1>3, <1>4, <1>5, <1>6
  <2>3. disk \in 0 .. filesize /\ nrange \in 0 .. Len(ranges) /\ request \in Requests
    BY DEF IInv, TypeOK
  <2>. QED
    BY <1>2, <1>6, <2>1, <2>2, <2>3 DEF TypeOK, Whole
<1>8. FooterLen \in Nat /\ HeadLen \in Nat /\ sum \in [0 .. Len(ranges) -> Nat]
  BY LengthsAssumption DEF FooterLen, Sums
<1>9. phase \in {"part", "footer"} => nrange \in 0 .. Len(ranges)
  BY DEF IInv, TypeOK
<1>10. phase \in {"part", "footer"} => sum[nrange] \in Nat
  BY <1>8, <1>9
<1>11. SentSoFar(sum)'
  <2>1. CASE phase = "headers"
    <3>1. nrange = 0 /\ sent = outp
          /\ out = HeadLen + (IF multipart /\ ~request.head THEN PartHeaderLen(filesize, ranges[1]) ELSE 0)
      BY <2>1 DEF SentSoFar
    <3>2. sent' = outp'
      BY <1>3, <3>1
    <3>. QED
      BY <1>2, <1>6, <2>1, <3>1, <3>2 DEF SentSoFar, BodyAsAnnounced
  <2>2. CASE phase \in {"part", "footer"}
    <3>1. sent + FooterLen = HeadLen + sum[nrange] + outp
      BY <2>2 DEF SentSoFar
    <3>2. sent' + FooterLen = HeadLen + sum[nrange'] + outp'
      BY <1>3, <1>4, <1>5, <1>6, <1>8, <1>10, <2>2, <3>1, SMTT(40)
    <3>. QED
      BY <1>2, <1>6, <2>2, <3>2 DEF SentSoFar, BodyAsAnnounced, FooterLen
  <2>. QED
    BY <1>6, <2>1, <2>2
<1>. QED
  BY <1>7, <1>11

\* The headers have gone: the body is next, unless there is none.
LEMMA HeadersSentKeeps ==
  ASSUME IInv, NEW sum, Sums(sum, filesize, ranges), SentSoFar(sum), HeadersSent
  PROVE  TypeOK' /\ Whole' /\ SentSoFar(sum)'
<1>1. /\ request.head \in BOOLEAN /\ filesize \in Nat /\ Len(ranges) \in Nat /\ (ranges = <<>> <=> Len(ranges) = 0)
      /\ \A k \in 1 .. Len(ranges) : ranges[k] \in Pieces(filesize)
  BY RequestIs DEF IInv, TypeOK
<1>2. filesize' = filesize /\ ranges' = ranges /\ multipart' = multipart /\ request' = request
  BY RequestStays DEF HeadersSent
<1>3. /\ phase = "headers" /\ outp = out /\ disk' = disk /\ out' = out /\ nrange' = nrange /\ nrange = 0
      /\ writable' = writable /\ timer' = timer /\ full' = full /\ sent' = sent /\ sent = out
      /\ out = HeadLen + (IF multipart /\ ~request.head THEN PartHeaderLen(filesize, ranges[1]) ELSE 0)
  BY DEF HeadersSent, BufferSent, SentSoFar
<1>4. out \in Nat /\ sent \in Nat /\ disk \in 0 .. filesize /\ request \in Requests
      /\ {writable, timer, full} \subseteq BOOLEAN
  BY DEF IInv, Whole, TypeOK
<1>5. CASE request.head \/ filesize = 0
  <2>1. phase' = "completed" /\ outp' = outp
    BY <1>5 DEF HeadersSent
  <2>2. TypeOK' /\ Whole'
    BY <1>1, <1>2, <1>3, <1>4, <2>1 DEF TypeOK, Whole
  <2>3. filesize = 0 => Len(ranges) = 0
    <3>1. Len(ranges) # 0 => 1 \in 1 .. Len(ranges)
      BY <1>1
    <3>2. Len(ranges) # 0 => ranges[1].to < filesize /\ ranges[1].to \in Nat
      BY <1>1, <3>1, PieceIs
    <3>. QED
      BY <3>2
  <2>4. HeadLen \in Nat
    BY LengthsAssumption
  <2>5. sent = HeadLen + IF request.head THEN 0 ELSE ContentLength(filesize, ranges)
    <3>1. CASE request.head
      BY <1>3, <2>4, <3>1
    <3>2. CASE ~request.head
      <4>1. filesize = 0 /\ Len(ranges) = 0 /\ ~multipart
        BY <1>5, <2>3, <3>2 DEF multipart
      <4>2. Len(ranges) # 1
        BY <4>1
      <4>3. ContentLength(filesize, ranges) = filesize
        BY <4>1, <4>2, Zenon DEF ContentLength
      <4>. QED
        BY <1>3, <2>4, <3>2, <4>1, <4>3
    <3>. QED
      BY <3>1, <3>2
  <2>6. BodyAsAnnounced'
    BY <1>2, <1>3, <2>5 DEF BodyAsAnnounced
  <2>. QED
    BY <2>1, <2>2, <2>6 DEF SentSoFar
<1>6. CASE ~(request.head \/ filesize = 0)
  <2>1. phase' = "body" /\ outp' = IF ranges = <<>> THEN 0 ELSE ranges[1].from
    BY <1>6 DEF HeadersSent
  <2>2. ranges # <<>> => /\ ranges[1].from \in Nat /\ ranges[1].to \in Nat
                         /\ ranges[1].from <= ranges[1].to
    <3>1. ranges # <<>> => 1 \in 1 .. Len(ranges)
      BY <1>1
    <3>. QED
      BY <1>1, <3>1, PieceIs
  <2>3. EndOfBody' = IF ranges = <<>> THEN filesize ELSE ranges[1].to + 1
    BY <1>2, <1>3 DEF EndOfBody
  <2>4. StartOfBody' = outp'
    BY <1>2, <1>3, <2>1 DEF StartOfBody
  <2>5. outp' \in 0 .. EndOfBody' - 1 /\ outp' \in Nat
    BY <1>1, <1>6, <2>1, <2>2, <2>3
  <2>6. TypeOK' /\ Whole'
    BY <1>1, <1>2, <1>3, <1>4, <2>1, <2>5 DEF TypeOK, Whole
  <2>7. outp' - StartOfBody' = 0 /\ StartOfBody' <= outp'
    <3>1. \A a, b \in Nat : a = b => b - a = 0 /\ a <= b
      OBVIOUS
    <3>. QED
      BY <2>4, <2>5, <3>1, Zenon
  <2>8. CASE multipart
    <3>1. /\ sum[0] = FooterLen /\ FooterLen \in Nat /\ HeadLen \in Nat /\ Len(ranges) > 1
          /\ PartHeaderLen(filesize, ranges[1]) \in Nat
      BY <1>1, <2>8, PartType, LengthsAssumption DEF Sums, multipart
    <3>2. sent = HeadLen + PartHeaderLen(filesize, ranges[1])
      BY <1>3, <1>6, <2>8
    <3>3. sent' + FooterLen = HeadLen + sum[nrange'] + PartHeaderLen(filesize, ranges[nrange' + 1])
                              + (outp' - StartOfBody')
      BY <1>3, <2>7, <3>1, <3>2
    <3>. QED
      BY <1>1, <1>2, <1>3, <1>6, <2>1, <2>6, <2>7, <2>8, <3>1, <3>3 DEF SentSoFar, BodyAsAnnounced
  <2>9. CASE ~multipart
    <3>1. sent' = HeadLen + (outp' - StartOfBody')
      BY <1>3, <2>7, <2>9, LengthsAssumption
    <3>. QED
      BY <1>1, <1>2, <1>3, <1>6, <2>1, <2>6, <2>7, <2>9, <3>1 DEF SentSoFar, BodyAsAnnounced
  <2>. QED
    BY <2>8, <2>9
<1>. QED
  BY <1>5, <1>6

\* The header of a part has gone: its range is next.
LEMMA PartHeaderSentKeeps ==
  ASSUME IInv, NEW sum, Sums(sum, filesize, ranges), SentSoFar(sum), PartHeaderSent
  PROVE  TypeOK' /\ Whole' /\ SentSoFar(sum)'
<1>1. /\ request.head \in BOOLEAN /\ filesize \in Nat /\ Len(ranges) \in Nat /\ (ranges = <<>> <=> Len(ranges) = 0)
      /\ \A k \in 1 .. Len(ranges) : ranges[k] \in Pieces(filesize)
  BY RequestIs DEF IInv, TypeOK
<1>2. filesize' = filesize /\ ranges' = ranges /\ multipart' = multipart /\ request' = request
  BY RequestStays DEF PartHeaderSent
<1>3. /\ phase = "part" /\ outp = out /\ disk' = disk /\ out' = out /\ nrange' = nrange
      /\ writable' = writable /\ timer' = timer /\ full' = full /\ sent' = sent
      /\ phase' = "body" /\ outp' = ranges[nrange + 1].from
  BY DEF PartHeaderSent, BufferSent
<1>4. /\ ~request.head /\ multipart /\ nrange \in 1 .. Len(ranges) - 1
      /\ out = PartHeaderLen(filesize, ranges[nrange + 1])
      /\ sent + FooterLen = HeadLen + sum[nrange] + outp
  BY <1>3 DEF SentSoFar
<1>5. out \in Nat /\ sent \in Nat /\ disk \in 0 .. filesize /\ request \in Requests
      /\ {writable, timer, full} \subseteq BOOLEAN
  BY DEF IInv, Whole, TypeOK
<1>6. nrange + 1 \in 1 .. Len(ranges) /\ ranges # <<>>
  BY <1>1, <1>4
<1>7. /\ ranges[nrange + 1].from \in Nat /\ ranges[nrange + 1].to \in Nat
      /\ ranges[nrange + 1].from <= ranges[nrange + 1].to /\ ranges[nrange + 1].to < filesize
  BY <1>1, <1>6, PieceIs
<1>8. EndOfBody' = ranges[nrange + 1].to + 1 /\ StartOfBody' = outp'
  BY <1>2, <1>3, <1>6 DEF EndOfBody, StartOfBody
<1>9. outp' \in 0 .. EndOfBody' - 1 /\ outp' \in Nat /\ outp' - StartOfBody' = 0
  BY <1>3, <1>7, <1>8
<1>10. TypeOK' /\ Whole'
  BY <1>1, <1>2, <1>3, <1>4, <1>5, <1>9 DEF TypeOK, Whole
<1>11. sum[nrange] \in Nat /\ HeadLen \in Nat /\ FooterLen \in Nat
  BY <1>4, LengthsAssumption, SMTT(40) DEF Sums, FooterLen
<1>12. sent' + FooterLen = HeadLen + sum[nrange'] + PartHeaderLen(filesize, ranges[nrange' + 1])
                           + (outp' - StartOfBody')
  BY <1>3, <1>4, <1>5, <1>9, <1>11
<1>13. filesize > 0 /\ nrange' < Len(ranges) /\ StartOfBody' <= outp'
  BY <1>1, <1>3, <1>4, <1>7, <1>8, <1>9
<1>14. SentSoFar(sum)'
  BY <1>2, <1>3, <1>4, <1>12, <1>13 DEF SentSoFar, BodyAsAnnounced
<1>. QED
  BY <1>10, <1>14

\* The footer has gone: the reply is complete.
LEMMA FooterSentKeeps ==
  ASSUME IInv, NEW sum, Sums(sum, filesize, ranges), SentSoFar(sum), FooterSent
  PROVE  TypeOK' /\ Whole' /\ SentSoFar(sum)'
<1>1. /\ request.head \in BOOLEAN /\ filesize \in Nat /\ Len(ranges) \in Nat /\ ranges \in Seq(Pieces(filesize))
  BY RequestIs DEF IInv, TypeOK
<1>2. filesize' = filesize /\ ranges' = ranges /\ multipart' = multipart /\ request' = request
  BY RequestStays DEF FooterSent
<1>3. /\ phase = "footer" /\ outp = out /\ disk' = disk /\ out' = out /\ nrange' = nrange
      /\ writable' = writable /\ timer' = timer /\ full' = full /\ sent' = sent
      /\ phase' = "completed" /\ outp' = outp
  BY DEF FooterSent, BufferSent
<1>4. /\ ~request.head /\ multipart /\ nrange = Len(ranges) /\ out = FooterLen
      /\ sent + FooterLen = HeadLen + sum[nrange] + outp
  BY <1>3 DEF SentSoFar
<1>5. out \in Nat /\ outp \in Nat /\ sent \in Nat /\ disk \in 0 .. filesize /\ request \in Requests
      /\ {writable, timer, full} \subseteq BOOLEAN /\ nrange \in 0 .. Len(ranges)
  BY DEF IInv, Whole, TypeOK
<1>6. TypeOK' /\ Whole'
  BY <1>2, <1>3, <1>5 DEF TypeOK, Whole
<1>7. ContentLength(filesize, ranges) = sum[nrange]
  <2>1. Len(ranges) # 0 /\ Len(ranges) # 1
    BY <1>1, <1>4 DEF multipart
  <2>. QED
    BY <1>1, <1>4, <2>1, ContentLengthIs, Zenon
<1>8. sum[nrange] \in Nat /\ HeadLen \in Nat /\ FooterLen \in Nat
  BY <1>5, LengthsAssumption DEF Sums, FooterLen
<1>9. sent = HeadLen + sum[nrange]
  BY <1>3, <1>4, <1>5, <1>8
<1>10. BodyAsAnnounced'
  BY <1>2, <1>3, <1>4, <1>7, <1>9 DEF BodyAsAnnounced
<1>. QED
  BY <1>3, <1>6, <1>10 DEF SentSoFar

\* sendfile() sends some bytes of the range, and behind its last the next part begins,
\* the footer, or nothing.
LEMMA SendFileKeeps ==
  ASSUME IInv, NEW sum, Sums(sum, filesize, ranges), SentSoFar(sum), SendFile
  PROVE  TypeOK' /\ Whole' /\ SentSoFar(sum)'
<1>1. /\ request.head \in BOOLEAN /\ filesize \in Nat /\ Len(ranges) \in Nat /\ (ranges = <<>> <=> Len(ranges) = 0)
      /\ \A k \in 1 .. Len(ranges) : ranges[k] \in Pieces(filesize)
      /\ ranges \in Seq(Pieces(filesize))
  BY RequestIs DEF IInv, TypeOK
<1>2. filesize' = filesize /\ ranges' = ranges /\ multipart' = multipart /\ request' = request
  BY RequestStays DEF SendFile
<1>. DEFINE count == EndOfBody - outp
            there == IF disk > outp THEN Smaller(count, disk - outp) ELSE 0
<1>3. PICK n \in Taken(IF there = 0 THEN {0} ELSE 1 .. there) :
        /\ SentOf(n, count)
        /\ full' \in IF n = 0 THEN {full} ELSE {TRUE, n < there}
        /\ sent' = sent + n
        /\ IF n = count
             THEN RangeSent /\ outp' = IF multipart THEN 0 ELSE outp + n
             ELSE outp' = outp + n /\ UNCHANGED <<phase, out, nrange>>
  BY DEF SendFile
<1>4. phase = "body" /\ disk' = disk /\ out \in Nat /\ outp \in Nat /\ sent \in Nat /\ disk \in Nat
      /\ disk \in 0 .. filesize /\ request \in Requests /\ outp \in 0 .. EndOfBody - 1
      /\ nrange \in 0 .. Len(ranges)
  BY <1>1 DEF SendFile, IInv, Whole, TypeOK
<1>5. /\ ~request.head /\ filesize > 0 /\ StartOfBody <= outp
      /\ IF multipart
           THEN /\ nrange < Len(ranges)
                /\ sent + FooterLen = HeadLen + sum[nrange] + PartHeaderLen(filesize, ranges[nrange + 1])
                                      + (outp - StartOfBody)
           ELSE nrange = 0 /\ sent = HeadLen + (outp - StartOfBody)
  BY <1>4 DEF SentSoFar
<1>6. ranges # <<>> =>
        /\ nrange + 1 \in 1 .. Len(ranges)
        /\ ranges[nrange + 1].from \in Nat /\ ranges[nrange + 1].to \in Nat
        /\ ranges[nrange + 1].from <= ranges[nrange + 1].to /\ ranges[nrange + 1].to < filesize
  <2>1. ranges # <<>> => nrange + 1 \in 1 .. Len(ranges)
    BY <1>1, <1>4, <1>5
  <2>. QED
    BY <1>1, <2>1, PieceIs
<1>7. EndOfBody = (IF ranges = <<>> THEN filesize ELSE ranges[nrange + 1].to + 1)
      /\ StartOfBody = (IF ranges = <<>> THEN 0 ELSE ranges[nrange + 1].from)
  BY DEF EndOfBody, StartOfBody
<1>8. EndOfBody \in Nat /\ StartOfBody \in Nat /\ count \in Nat \ {0}
  <2>1. EndOfBody \in Nat /\ StartOfBody \in Nat
    <3>1. CASE ranges = <<>>
      BY <1>1, <1>7, <3>1
    <3>2. CASE ranges # <<>>
      BY <1>6, <1>7, <3>2
    <3>. QED
      BY <3>1, <3>2
  <2>. QED
    BY <1>4, <2>1
<1>9. n \in 0 .. count
  <2>1. there \in 0 .. count
    BY <1>4, <1>8 DEF Smaller
  <2>. QED
    BY <1>3, <1>8, <2>1 DEF Taken
<1>10. {writable', timer', full'} \subseteq BOOLEAN
  <2>1. full' = full \/ full' = TRUE \/ full' = (n < there)
    BY <1>3, Zenon
  <2>2. full \in BOOLEAN
    BY Zenon DEF IInv, TypeOK
  <2>3. (n < there) \in BOOLEAN /\ (n < count) \in BOOLEAN
    BY SMT
  <2>4. timer' = (n < count) /\ writable' = (n = count)
    BY <1>3, Zenon DEF SentOf
  <2>. QED
    BY <2>1, <2>2, <2>3, <2>4, Zenon
<1>11. FooterLen \in Nat /\ HeadLen \in Nat /\ sum \in [0 .. Len(ranges) -> Nat]
  BY LengthsAssumption DEF Sums, FooterLen
<1>12. ranges # <<>> => PartHeaderLen(filesize, ranges[nrange + 1]) \in Nat
  BY <1>1, <1>6, PartType
<1>13. sent' \in Nat /\ sum[nrange] \in Nat
  BY <1>3, <1>4, <1>8, <1>9, <1>11
<1>. HIDE DEF count, there
<1>14. CASE n # count
  <2>1. outp' = outp + n /\ phase' = phase /\ out' = out /\ nrange' = nrange
    BY <1>3, <1>14
  <2>2. EndOfBody' = EndOfBody /\ StartOfBody' = StartOfBody
    BY <1>2, <2>1 DEF EndOfBody, StartOfBody
  <2>3. outp' \in Nat /\ outp' \in 0 .. EndOfBody' - 1 /\ StartOfBody' <= outp'
    BY <1>4, <1>5, <1>8, <1>9, <1>14, <2>1, <2>2 DEF count
  <2>4. TypeOK' /\ Whole'
    BY <1>2, <1>4, <1>10, <1>13, <2>1, <2>3 DEF TypeOK, Whole
  <2>5. outp' - StartOfBody' = (outp - StartOfBody) + n
    BY <1>4, <1>8, <1>9, <2>1, <2>2
  <2>6. CASE multipart
    <3>1. ranges # <<>>
      BY <1>1, <2>6 DEF multipart
    <3>2. sent' + FooterLen = HeadLen + sum[nrange] + PartHeaderLen(filesize, ranges[nrange + 1])
                              + (outp' - StartOfBody')
      <4>. DEFINE header == PartHeaderLen(filesize, ranges[nrange + 1])
      <4>1. header \in Nat
        BY <1>12, <3>1
      <4>2. sent + FooterLen = HeadLen + sum[nrange] + header + (outp - StartOfBody)
        BY <1>5, <2>6
      <4>3. sent' = sent + n /\ n \in Nat
        BY <1>3, <1>8, <1>9
      <4>. HIDE DEF header
      <4>4. sent' + FooterLen = HeadLen + sum[nrange] + header + ((outp - StartOfBody) + n)
        <5>. DEFINE done == outp - StartOfBody
                    before == sum[nrange]
        <5>1. /\ sent \in Int /\ FooterLen \in Int /\ HeadLen \in Int /\ before \in Int
              /\ header \in Int /\ done \in Int /\ n \in Int
          BY <1>4, <1>8, <1>11, <1>13, <4>1, <4>3
        <5>2. sent + FooterLen = HeadLen + before + header + done
          BY <4>2
        <5>. HIDE DEF done, before
        <5>3. (sent + n) + FooterLen = HeadLen + before + header + (done + n)
          BY <5>1, <5>2
        <5>. QED
          BY <4>3, <5>3, Zenon DEF done, before
      <4>. QED
        BY <2>5, <4>4 DEF header
    <3>. QED
      BY <1>2, <1>4, <1>5, <2>1, <2>3, <2>4, <2>6, <3>2 DEF SentSoFar, BodyAsAnnounced
  <2>7. CASE ~multipart
    <3>1. sent' = HeadLen + (outp' - StartOfBody')
      BY <1>3, <1>4, <1>5, <1>8, <1>9, <1>11, <2>5, <2>7
    <3>. QED
      BY <1>2, <1>4, <1>5, <2>1, <2>3, <2>4, <2>7, <3>1 DEF SentSoFar, BodyAsAnnounced
  <2>. QED
    BY <2>6, <2>7
<1>15. CASE n = count /\ ~multipart
  <2>1. outp' = outp + n /\ phase' = "completed" /\ out' = out /\ nrange' = nrange
    BY <1>3, <1>15 DEF RangeSent
  <2>2. TypeOK' /\ Whole'
    BY <1>2, <1>4, <1>9, <1>10, <1>13, <1>8, <2>1 DEF TypeOK, Whole
  <2>3. sent' = HeadLen + (EndOfBody - StartOfBody)
    BY <1>3, <1>4, <1>5, <1>8, <1>11, <1>15 DEF count
  <2>4. EndOfBody - StartOfBody = ContentLength(filesize, ranges)
    <3>1. CASE Len(ranges) = 0
      <4>1. Len(ranges) # 1 /\ EndOfBody - StartOfBody = filesize
        BY <1>1, <1>7, <3>1
      <4>2. ContentLength(filesize, ranges) = filesize
        BY <3>1, <4>1, Zenon DEF ContentLength
      <4>. QED
        BY <4>1, <4>2
    <3>2. CASE Len(ranges) = 1
      <4>1. Len(ranges) # 0 /\ EndOfBody - StartOfBody = ranges[1].to - ranges[1].from + 1
        <5>1. ranges # <<>> /\ nrange + 1 = 1
          BY <1>1, <1>5, <1>15, <3>2
        <5>. QED
          BY <1>6, <1>7, <3>2, <5>1
      <4>2. ContentLength(filesize, ranges) = ranges[1].to - ranges[1].from + 1
        BY <3>2, <4>1, Zenon DEF ContentLength
      <4>. QED
        BY <4>1, <4>2
    <3>3. Len(ranges) = 0 \/ Len(ranges) = 1
      <4>1. ~(Len(ranges) > 1) /\ Len(ranges) \in Nat
        BY <1>1, <1>15, Zenon DEF multipart
      <4>2. \A k \in Nat : ~(k > 1) => k = 0 \/ k = 1
        OBVIOUS
      <4>. QED
        BY <4>1, <4>2, Zenon
    <3>. QED
      BY <3>1, <3>2, <3>3, Zenon
  <2>5. BodyAsAnnounced'
    BY <1>2, <1>5, <2>3, <2>4 DEF BodyAsAnnounced
  <2>. QED
    BY <2>1, <2>2, <2>5 DEF SentSoFar
<1>16. CASE n = count /\ multipart
  <2>1. /\ outp' = 0 /\ nrange' = nrange + 1
        /\ IF nrange + 1 = Len(ranges)
             THEN phase' = "footer" /\ out' = FooterLen
             ELSE phase' = "part" /\ out' = PartHeaderLen(filesize, ranges[nrange + 2])
    BY <1>3, <1>16 DEF RangeSent
  <2>2. ranges # <<>> /\ nrange + 1 \in 1 .. Len(ranges)
    BY <1>1, <1>6, <1>16 DEF multipart
  <2>3. sum[nrange + 1] = sum[nrange] + PartLen(filesize, ranges[nrange + 1]) /\ sum[nrange + 1] \in Nat
    <3>1. (nrange + 1) - 1 = nrange
      BY <1>4
    <3>2. sum[nrange + 1] = sum[(nrange + 1) - 1] + PartLen(filesize, ranges[nrange + 1])
      BY <2>2 DEF Sums
    <3>. QED
      BY <1>11, <2>2, <3>1, <3>2
  <2>4. sent' + FooterLen = HeadLen + sum[nrange'] + outp'
    <3>1. PartLen(filesize, ranges[nrange + 1]) =
            PartHeaderLen(filesize, ranges[nrange + 1]) + (EndOfBody - StartOfBody)
      BY <1>6, <1>7, <1>12, <2>2 DEF PartLen
    <3>2. sent + FooterLen = HeadLen + sum[nrange] + PartHeaderLen(filesize, ranges[nrange + 1])
                             + (outp - StartOfBody)
      BY <1>5, <1>16
    <3>3. n = EndOfBody - outp
      BY <1>16 DEF count
    <3>4. sent' + FooterLen = HeadLen + sum[nrange + 1]
      <4>. DEFINE header == PartHeaderLen(filesize, ranges[nrange + 1])
      <4>1. header \in Nat
        BY <1>12, <2>2
      <4>2. sum[nrange + 1] = sum[nrange] + (header + (EndOfBody - StartOfBody))
        BY <2>3, <3>1
      <4>3. sent' = sent + (EndOfBody - outp)
        BY <1>3, <3>3
      <4>4. sent + FooterLen = HeadLen + sum[nrange] + header + (outp - StartOfBody)
        BY <3>2
      <4>. HIDE DEF header
      <4>. QED
        BY <1>4, <1>8, <1>11, <1>13, <4>1, <4>2, <4>3, <4>4, SMTT(40)
    <3>. QED
      BY <1>11, <2>1, <2>3, <3>4
  <2>5. CASE nrange + 1 = Len(ranges)
    <3>1. phase' = "footer" /\ out' = FooterLen /\ nrange' = Len(ranges)
      BY <2>1, <2>5
    <3>2. TypeOK' /\ Whole'
      BY <1>1, <1>2, <1>4, <1>10, <1>11, <1>13, <2>1, <3>1 DEF TypeOK, Whole
    <3>. QED
      BY <1>2, <1>5, <1>16, <2>4, <3>1, <3>2 DEF SentSoFar, BodyAsAnnounced
  <2>6. CASE nrange + 1 # Len(ranges)
    <3>1. phase' = "part" /\ out' = PartHeaderLen(filesize, ranges[nrange + 2])
      BY <2>1, <2>6
    <3>2. nrange + 2 \in 1 .. Len(ranges) /\ nrange' \in 1 .. Len(ranges) - 1 /\ nrange' + 1 = nrange + 2
      BY <1>1, <1>4, <2>1, <2>2, <2>6
    <3>3. out' \in Nat
      BY <1>1, <3>1, <3>2, PartType
    <3>4. TypeOK' /\ Whole'
      BY <1>1, <1>2, <1>4, <1>10, <1>13, <2>1, <3>1, <3>2, <3>3 DEF TypeOK, Whole
    <3>. QED
      BY <1>2, <1>5, <1>16, <2>4, <3>1, <3>2, <3>4 DEF SentSoFar, BodyAsAnnounced
  <2>. QED
    BY <2>5, <2>6
<1>. QED
  BY <1>14, <1>15, <1>16

\* The socket drains, the timer expires, the file is cut: nothing is sent.
LEMMA EnvironmentKeeps ==
  ASSUME IInv, NEW sum, Sums(sum, filesize, ranges), SentSoFar(sum), Drain \/ Idle \/ Shrink
  PROVE  TypeOK' /\ Whole' /\ SentSoFar(sum)'
<1>1. /\ request' = request /\ out' = out /\ outp' = outp /\ nrange' = nrange /\ sent' = sent
      /\ phase' = phase \/ phase' = "closed"
  BY DEF Drain, Idle, Shrink
<1>2. filesize' = filesize /\ ranges' = ranges /\ multipart' = multipart
  BY <1>1, RequestStays
<1>3. EndOfBody' = EndOfBody /\ StartOfBody' = StartOfBody
  BY <1>1, <1>2 DEF EndOfBody, StartOfBody
<1>4. {writable', timer', full'} \subseteq BOOLEAN
  <2>1. {writable, timer, full} \subseteq BOOLEAN
    BY Zenon DEF IInv, TypeOK
  <2>. QED
    BY <2>1, Zenon DEF Drain, Idle, Shrink
<1>5. disk' \in 0 .. filesize
  <2>1. disk \in 0 .. filesize /\ filesize \in Nat
    BY RequestIs DEF IInv, TypeOK
  <2>2. disk' = disk \/ disk' \in 0 .. disk - 1
    BY DEF Drain, Idle, Shrink
  <2>. QED
    BY <2>1, <2>2
<1>6. TypeOK' /\ Whole'
  BY <1>1, <1>2, <1>3, <1>4, <1>5 DEF IInv, TypeOK, Whole
<1>7. SentSoFar(sum)'
  BY <1>1, <1>2, <1>3 DEF SentSoFar, BodyAsAnnounced
<1>. QED
  BY <1>6, <1>7

\* Every step keeps the invariant.
LEMMA StepHolds == IInv /\ [Next]_vars => IInv'
<1>. SUFFICES ASSUME IInv, [Next]_vars
              PROVE  IInv'
  OBVIOUS
<1>1. PICK sum : Sums(sum, filesize, ranges) /\ SentSoFar(sum)
  BY DEF IInv
<1>2. request' = request
  BY DEF Next, Run, vars, ProcessRequest, Write, HeadersSent, PartHeaderSent, FooterSent, SendFile,
         Drain, Idle, Shrink
<1>3. filesize' = filesize /\ ranges' = ranges
  BY <1>2, RequestStays
<1>4. TypeOK' /\ Whole' /\ SentSoFar(sum)'
  <2>1. CASE ProcessRequest
    BY <1>1, <2>1, ProcessRequestKeeps
  <2>2. CASE Write
    BY <1>1, <2>2, WriteKeeps
  <2>3. CASE HeadersSent
    BY <1>1, <2>3, HeadersSentKeeps
  <2>4. CASE PartHeaderSent
    BY <1>1, <2>4, PartHeaderSentKeeps
  <2>5. CASE FooterSent
    BY <1>1, <2>5, FooterSentKeeps
  <2>6. CASE SendFile
    BY <1>1, <2>6, SendFileKeeps
  <2>7. CASE Drain \/ Idle \/ Shrink
    BY <1>1, <2>7, EnvironmentKeeps
  <2>8. CASE UNCHANGED vars
    <3>1. /\ request' = request /\ disk' = disk /\ phase' = phase /\ out' = out /\ outp' = outp
          /\ nrange' = nrange /\ writable' = writable /\ timer' = timer /\ full' = full /\ sent' = sent
      BY <2>8 DEF vars
    <3>2. multipart' = multipart /\ EndOfBody' = EndOfBody /\ StartOfBody' = StartOfBody
      BY <1>3, <3>1, RequestStays DEF EndOfBody, StartOfBody
    <3>. QED
      BY <1>1, <1>3, <3>1, <3>2 DEF IInv, TypeOK, Whole, SentSoFar, BodyAsAnnounced
  <2>. QED
    BY <2>1, <2>2, <2>3, <2>4, <2>5, <2>6, <2>7, <2>8 DEF Next, Run
<1>. QED
  BY <1>1, <1>3, <1>4 DEF IInv

\* Theorem: the offsets, the buffer and the position in the list of ranges never leave
\* their bounds: run() from kSendingHeaders to kSendingMultipartFooter.
THEOREM TypeCorrect == Spec => []TypeOK
<1>1. IInv => TypeOK
  BY DEF IInv
<1>. QED
  BY <1>1, InitHolds, StepHolds, PTL DEF Spec

\* Theorem: when a reply is complete, its body has as many bytes as
\* compute_content_length() announced, for every file and every list of ranges.
THEOREM BodyHasAnnouncedLength == Spec => []BodyAsAnnounced
<1>1. IInv => BodyAsAnnounced
  BY DEF IInv, SentSoFar
<1>. QED
  BY <1>1, InitHolds, StepHolds, PTL DEF Spec
=============================================================================
