-------------------------- MODULE ConnectionProofs --------------------------
(***************************************************************************)
(* Proofs about Connection, for any scripts, any capacities of the buffers *)
(* of the socket, any length of a file and of the handshake, and any       *)
(* number of requests.                                                     *)
(*                                                                         *)
(* First facts about sequences.  Then the fields of the connection and the *)
(* position of its buffers in the client's stream (Shape), and what wakes  *)
(* a connection that sleeps (Edges and Timers).  Last, for scripts whose   *)
(* malformed requests are answered with "Connection: close": that the      *)
(* requests are answered in their order, each once (InOrder), that         *)
(* Connection implements Pipeline (Said), that the server hangs up when    *)
(* there is nothing left to do (Patient), and that it counts every request *)
(* once (Counted).                                                         *)
(***************************************************************************)
EXTENDS Connection, SequenceTheorems, FiniteSetTheorems, WellFoundedInduction, TLAPS

-----------------------------------------------------------------------------
(* Facts about naturals, sequences and their concatenation.                *)

\* A set of naturals has a least element.  (The induction theorems of the
\* library cannot be instantiated by the provers; this one needs no operator.)
LEMMA LeastNat ==
  ASSUME NEW T \in SUBSET Nat, T # {}
  PROVE  \E m \in T : \A n \in T : m <= n
<1>1. IsWellFoundedOn(OpToRel(<, Nat), Nat)
  BY NatLessThanWellFounded
<1>2. \E x \in T : \A y \in T : <<y, x>> \notin OpToRel(<, Nat)
  BY <1>1, WFMin
<1>3. \A x, y \in Nat : x < y => <<x, y>> \in OpToRel(<, Nat)
  BY DEF OpToRel
<1>4. PICK R : /\ \E x \in T : \A y \in T : <<y, x>> \notin R
               /\ \A x, y \in Nat : x < y => <<x, y>> \in R
  BY <1>2, <1>3, Zenon
<1>5. PICK m \in T : \A y \in T : <<y, m>> \notin R
  BY <1>4
<1>6. \A y \in T : ~(y < m)
  BY <1>4, <1>5
<1>. QED
  BY <1>6

\* Induction over the naturals, for a set.
LEMMA InductionOverNat ==
  ASSUME NEW T, 0 \in T, \A n \in Nat : n \in T => n + 1 \in T
  PROVE  Nat \subseteq T
<1>1. SUFFICES ASSUME Nat \ T # {}
               PROVE  FALSE
  OBVIOUS
<1>2. PICK m \in Nat \ T : \A n \in Nat \ T : m <= n
  BY <1>1, LeastNat
<1>3. m - 1 \in Nat /\ m - 1 \in T
  BY <1>2
<1>. QED
  BY <1>3

-----------------------------------------------------------------------------
\* The least of two naturals ...
LEMMA MinOfTwo ==
  ASSUME NEW a \in Int, NEW b \in Int
  PROVE  Min({a, b}) = IF a <= b THEN a ELSE b
BY DEF Min

\* ... and the greatest.
LEMMA MaxOfTwo ==
  ASSUME NEW a \in Int, NEW b \in Int
  PROVE  Max({a, b}) = IF a >= b THEN a ELSE b
BY DEF Max

\* A bounded set of naturals has a greatest element.
LEMMA MaxOfBounded ==
  ASSUME NEW b \in Nat, NEW T \in SUBSET (0 .. b), T # {}
  PROVE  /\ Max(T) \in T
         /\ \A n \in T : n <= Max(T)
<1>. DEFINE D == {b - n : n \in T}
<1>1. D \in SUBSET Nat /\ D # {}
  <2>1. PICK n \in T : TRUE
    OBVIOUS
  <2>2. b - n \in D
    OBVIOUS
  <2>3. \A x \in T : b - x \in Nat
    OBVIOUS
  <2>. QED
    BY <2>2, <2>3
<1>2. PICK d \in D : \A e \in D : d <= e
  <2>. HIDE DEF D
  <2>. QED
    BY <1>1, LeastNat
<1>3. PICK m \in T : d = b - m
  OBVIOUS
<1>4. \A n \in T : m >= n
  <2>1. SUFFICES ASSUME NEW n \in T
                 PROVE  m >= n
    OBVIOUS
  <2>2. b - n \in D
    OBVIOUS
  <2>3. d <= b - n
    BY <1>2, <2>2
  <2>. QED
    BY <1>3, <2>3
<1>5. Max(T) \in T /\ \A n \in T : Max(T) >= n
  BY <1>4 DEF Max
<1>. QED
  BY <1>5

-----------------------------------------------------------------------------
(* FlattenSeq                                                              *)

\* f[i] is the concatenation of the first i elements of ss, up to n.
Concatenates(f, ss, n) ==
  \A i \in 1 .. n : f[i] = IF i = 1 THEN ss[i] ELSE f[i - 1] \o ss[i]

\* There is such a function.
LEMMA Concatenations ==
  ASSUME NEW S, NEW n \in Nat, NEW ss \in [1 .. n -> Seq(S)]
  PROVE  \E f \in [1 .. n -> Seq(S)] : Concatenates(f, ss, n)
<1>. DEFINE T == {m \in Nat : m <= n => \E f \in [1 .. m -> Seq(S)] : Concatenates(f, ss, m)}
<1>1. 0 \in T
  <2>. DEFINE none == [i \in 1 .. 0 |-> <<>>]
  <2>1. none \in [1 .. 0 -> Seq(S)]
    OBVIOUS
  <2>2. Concatenates(none, ss, 0)
    BY DEF Concatenates
  <2>. QED
    BY <2>1, <2>2, Zenon
<1>2. ASSUME NEW m \in Nat, m \in T
      PROVE  m + 1 \in T
  <2>1. SUFFICES ASSUME m + 1 <= n
                 PROVE  \E f \in [1 .. m + 1 -> Seq(S)] : Concatenates(f, ss, m + 1)
    OBVIOUS
  <2>2. PICK f \in [1 .. m -> Seq(S)] : Concatenates(f, ss, m)
    BY <1>2, <2>1
  <2>. DEFINE last == IF m = 0 THEN ss[1] ELSE f[m] \o ss[m + 1]
              g == [i \in 1 .. m + 1 |-> IF i = m + 1 THEN last ELSE f[i]]
  <2>3. last \in Seq(S)
    BY <2>1, <2>2
  <2>4. g \in [1 .. m + 1 -> Seq(S)]
    BY <2>2, <2>3
  <2>5. ASSUME NEW i \in 1 .. m + 1
        PROVE  g[i] = IF i = 1 THEN ss[i] ELSE g[i - 1] \o ss[i]
    <3>1. CASE i = m + 1
      BY <3>1
    <3>2. CASE i # m + 1
      <4>1. i \in 1 .. m /\ g[i] = f[i] /\ (i # 1 => g[i - 1] = f[i - 1])
        BY <3>2
      <4>2. f[i] = IF i = 1 THEN ss[i] ELSE f[i - 1] \o ss[i]
        BY <2>2, <4>1 DEF Concatenates
      <4>. QED
        BY <4>1, <4>2
    <3>. QED
      BY <3>1, <3>2
  <2>. HIDE DEF g
  <2>6. Concatenates(g, ss, m + 1)
    BY <2>5 DEF Concatenates
  <2>. QED
    BY <2>4, <2>6
<1>3. n \in T
  BY <1>1, <1>2, InductionOverNat
<1>. QED
  BY <1>3

\* FlattenSeq is the last value of that function.
LEMMA FlattenIsLast ==
  ASSUME NEW S, NEW n \in Nat \ {0}, NEW ss \in [1 .. n -> Seq(S)],
         NEW f \in [1 .. n -> Seq(S)], Concatenates(f, ss, n)
  PROVE  FlattenSeq(ss) = f[n]
<1>1. Len(ss) = n
  OBVIOUS
<1>. DEFINE Def(g) == [i \in 1 .. Len(ss) |-> IF i = 1 THEN ss[i] ELSE g[i - 1] \o ss[i]]
<1>2. PICK g : FlattenSeq(ss) = g[Len(ss)] /\ g = CHOOSE h : h = Def(h)
  BY <1>1, Zenon DEF FlattenSeq
<1>3. f = Def(f)
  BY <1>1 DEF Concatenates
<1>4. g = Def(g)
  BY <1>2, <1>3, Zenon
<1>. DEFINE D == {j \in 1 .. n : g[j] # f[j]}
<1>5. ASSUME D # {}
      PROVE  FALSE
  <2>0. D \in SUBSET Nat
    OBVIOUS
  <2>1. PICK m \in D : \A j \in D : m <= j
    <3>. HIDE DEF D
    <3>. QED
      BY <1>5, <2>0, LeastNat
  <2>4. /\ g[m] = IF m = 1 THEN ss[m] ELSE g[m - 1] \o ss[m]
        /\ f[m] = IF m = 1 THEN ss[m] ELSE f[m - 1] \o ss[m]
    BY <1>1, <1>4 DEF Concatenates
  <2>2. CASE m = 1
    BY <2>2, <2>4
  <2>3. CASE m # 1
    <3>1. m - 1 \in 1 .. n /\ g[m - 1] = f[m - 1]
      BY <2>1, <2>3
    <3>. QED
      BY <2>3, <3>1, <2>4
  <2>. QED
    BY <2>2, <2>3
<1>6. g[n] = f[n]
  <2>1. n \notin D
    <3>. HIDE DEF D
    <3>. QED
      BY <1>5
  <2>. QED
    BY <2>1
<1>. QED
  BY <1>1, <1>2, <1>6, Zenon

\* FlattenSeq of no sequences.
LEMMA FlattenNone ==
  ASSUME NEW ss, Len(ss) = 0
  PROVE  FlattenSeq(ss) = ss
BY Zenon DEF FlattenSeq

\* FlattenSeq of a sequence with one element more.
LEMMA FlattenStep ==
  ASSUME NEW S, NEW n \in Nat, NEW ss \in [1 .. n + 1 -> Seq(S)]
  PROVE  FlattenSeq(ss) = FlattenSeq([i \in 1 .. n |-> ss[i]]) \o ss[n + 1]
<1>0. n + 1 \in Nat \ {0}
  OBVIOUS
<1>1. PICK f \in [1 .. n + 1 -> Seq(S)] : Concatenates(f, ss, n + 1)
  BY <1>0, Concatenations
<1>2. FlattenSeq(ss) = f[n + 1]
  BY <1>0, <1>1, FlattenIsLast, Zenon
<1>. DEFINE front == [i \in 1 .. n |-> ss[i]]
            g == [i \in 1 .. n |-> f[i]]
<1>3. CASE n = 0
  <2>1. front = <<>> /\ Len(front) = 0
    BY <1>3
  <2>2. FlattenSeq(front) = <<>>
    BY <2>1, FlattenNone
  <2>3. f[n + 1] = ss[n + 1]
    BY <1>1, <1>3 DEF Concatenates
  <2>4. ss[n + 1] \in Seq(S)
    OBVIOUS
  <2>5. <<>> \o ss[n + 1] = ss[n + 1]
    BY <2>4
  <2>. QED
    BY <1>2, <2>2, <2>3, <2>5, Zenon
<1>4. CASE n # 0
  <2>1. front \in [1 .. n -> Seq(S)] /\ g \in [1 .. n -> Seq(S)]
    BY <1>1
  <2>2. Concatenates(g, front, n)
    <3>1. SUFFICES ASSUME NEW i \in 1 .. n
                   PROVE  g[i] = IF i = 1 THEN front[i] ELSE g[i - 1] \o front[i]
      BY DEF Concatenates
    <3>0. i \in 1 .. n + 1
      OBVIOUS
    <3>2. f[i] = IF i = 1 THEN ss[i] ELSE f[i - 1] \o ss[i]
      BY <3>0, <1>1, Zenon DEF Concatenates
    <3>3. front[i] = ss[i] /\ g[i] = f[i] /\ (i # 1 => g[i - 1] = f[i - 1])
      OBVIOUS
    <3>. QED
      BY <3>2, <3>3
  <2>3. FlattenSeq(front) = g[n]
    <3>1. n \in Nat \ {0}
      BY <1>4
    <3>. HIDE DEF front, g
    <3>. QED
      BY <3>1, <2>1, <2>2, FlattenIsLast, Zenon
  <2>4. g[n] = f[n]
    BY <1>4
  <2>5. f[n + 1] = f[n] \o ss[n + 1]
    <3>1. n + 1 \in 1 .. n + 1 /\ n + 1 # 1 /\ (n + 1) - 1 = n
      BY <1>4
    <3>. QED
      BY <3>1, <1>1, Zenon DEF Concatenates
  <2>. QED
    BY <1>2, <2>3, <2>4, <2>5, Zenon
<1>. QED
  BY <1>3, <1>4

\* What a concatenation is made of.
LEMMA FlattenType ==
  ASSUME NEW S, NEW n \in Nat, NEW ss \in [1 .. n -> Seq(S)]
  PROVE  FlattenSeq(ss) \in Seq(S)
<1>1. CASE n = 0
  <2>1. ss \in Seq(S) /\ Len(ss) = 0
    BY <1>1
  <2>. QED
    BY <2>1, FlattenNone, Zenon
<1>2. CASE n # 0
  <2>0. n \in Nat \ {0} /\ n \in 1 .. n
    BY <1>2
  <2>1. PICK f \in [1 .. n -> Seq(S)] : Concatenates(f, ss, n)
    BY Concatenations
  <2>2. FlattenSeq(ss) = f[n]
    BY <2>0, <2>1, FlattenIsLast, Zenon
  <2>. QED
    BY <2>0, <2>2
<1>. QED
  BY <1>1, <1>2

\* FlattenSeq of a sequence, with its first element apart.
LEMMA FlattenFirst ==
  ASSUME NEW S
  PROVE  \A n \in Nat : \A ss \in [1 .. n + 1 -> Seq(S)] :
           FlattenSeq(ss) = ss[1] \o FlattenSeq([i \in 1 .. n |-> ss[i + 1]])
<1>. DEFINE T == {n \in Nat : \A ss \in [1 .. n + 1 -> Seq(S)] :
                    FlattenSeq(ss) = ss[1] \o FlattenSeq([i \in 1 .. n |-> ss[i + 1]])}
<1>1. 0 \in T
  <2>1. SUFFICES ASSUME NEW ss \in [1 .. 0 + 1 -> Seq(S)]
                 PROVE  FlattenSeq(ss) = ss[1] \o FlattenSeq([i \in 1 .. 0 |-> ss[i + 1]])
    OBVIOUS
  <2>2. FlattenSeq(ss) = FlattenSeq([i \in 1 .. 0 |-> ss[i]]) \o ss[0 + 1]
    BY FlattenStep
  <2>3. /\ [i \in 1 .. 0 |-> ss[i]] = <<>> /\ [i \in 1 .. 0 |-> ss[i + 1]] = <<>> /\ Len(<<>>) = 0
        /\ 0 + 1 = 1
    OBVIOUS
  <2>4. FlattenSeq(<<>>) = <<>>
    BY <2>3, FlattenNone, Zenon
  <2>5. ss[1] \in Seq(S)
    OBVIOUS
  <2>6. ss[1] \o <<>> = ss[1] /\ <<>> \o ss[1] = ss[1]
    BY <2>5, ConcatEmptySeq
  <2>. QED
    BY <2>2, <2>3, <2>4, <2>6, Zenon
<1>2. ASSUME NEW n \in Nat, n \in T
      PROVE  n + 1 \in T
  <2>1. SUFFICES ASSUME NEW ss \in [1 .. (n + 1) + 1 -> Seq(S)]
                 PROVE  FlattenSeq(ss) = ss[1] \o FlattenSeq([i \in 1 .. n + 1 |-> ss[i + 1]])
    <3>1. n + 1 \in Nat
      OBVIOUS
    <3>. QED
      BY <3>1
  <2>. DEFINE front == [i \in 1 .. n + 1 |-> ss[i]]
              rest == [i \in 1 .. n + 1 |-> ss[i + 1]]
              middle == [i \in 1 .. n |-> ss[i + 1]]
  <2>2. front \in [1 .. n + 1 -> Seq(S)] /\ rest \in [1 .. n + 1 -> Seq(S)] /\ middle \in [1 .. n -> Seq(S)]
    OBVIOUS
  <2>3. /\ [i \in 1 .. n |-> front[i + 1]] = middle
        /\ [i \in 1 .. n |-> rest[i]] = middle
        /\ front[1] = ss[1] /\ rest[n + 1] = ss[(n + 1) + 1]
    OBVIOUS
  <2>4. n + 1 \in Nat
    OBVIOUS
  <2>5. FlattenSeq(ss) = FlattenSeq(front) \o ss[(n + 1) + 1]
    BY <2>4, FlattenStep
  <2>6. ss[1] \in Seq(S) /\ ss[(n + 1) + 1] \in Seq(S)
    OBVIOUS
  <2>. HIDE DEF front, rest, middle
  <2>7. FlattenSeq(front) = ss[1] \o FlattenSeq(middle)
    <3>1. FlattenSeq(front) = front[1] \o FlattenSeq([i \in 1 .. n |-> front[i + 1]])
      BY <1>2, <2>2, Zenon
    <3>. QED
      BY <2>3, <3>1, Zenon
  <2>8. FlattenSeq(rest) = FlattenSeq(middle) \o ss[(n + 1) + 1]
    <3>1. FlattenSeq(rest) = FlattenSeq([i \in 1 .. n |-> rest[i]]) \o rest[n + 1]
      BY <2>2, FlattenStep
    <3>. QED
      BY <2>3, <3>1, Zenon
  <2>9. FlattenSeq(middle) \in Seq(S)
    BY <2>2, FlattenType
  <2>10. (ss[1] \o FlattenSeq(middle)) \o ss[(n + 1) + 1] = ss[1] \o (FlattenSeq(middle) \o ss[(n + 1) + 1])
    <3>. DEFINE a == ss[1]
                b == FlattenSeq(middle)
                c == ss[(n + 1) + 1]
    <3>1. a \in Seq(S) /\ b \in Seq(S) /\ c \in Seq(S)
      BY <2>6, <2>9
    <3>. HIDE DEF a, b, c, T
    <3>2. (a \o b) \o c = a \o (b \o c)
      BY <3>1
    <3>. QED
      BY <3>2, Zenon DEF a, b, c
  <2>. QED
    BY <2>5, <2>7, <2>8, <2>10, Zenon DEF rest
<1>3. 0 \in T /\ \A n \in Nat : n \in T => n + 1 \in T
  <2>. HIDE DEF T
  <2>. QED
    BY <1>1, <1>2
<1>4. Nat \subseteq T
  <2>. HIDE DEF T
  <2>. QED
    BY <1>3, InductionOverNat
<1>. QED
  BY <1>4

-----------------------------------------------------------------------------
(* SubSeq                                                                  *)

\* The elements of a stretch of a sequence.
LEMMA Stretch ==
  ASSUME NEW S, NEW s \in Seq(S), NEW a \in Nat, NEW b \in Nat, a <= b, b <= Len(s)
  PROVE  /\ SubSeq(s, a + 1, b) \in Seq(S) /\ Len(SubSeq(s, a + 1, b)) = b - a
         /\ \A i \in 1 .. b - a : SubSeq(s, a + 1, b)[i] = s[a + i]
<1>. DEFINE l == Len(s)
<1>1. l \in Nat /\ a + 1 \in 1 .. l + 1 /\ b \in 0 .. l
  OBVIOUS
<1>2. /\ SubSeq(s, a + 1, b) \in Seq(S)
      /\ Len(SubSeq(s, a + 1, b)) = IF a + 1 <= b THEN b - (a + 1) + 1 ELSE 0
      /\ \A i \in 1 .. b - (a + 1) + 1 : SubSeq(s, a + 1, b)[i] = s[(a + 1) + i - 1]
  BY <1>1, SubSeqProperties
<1>3. b - (a + 1) + 1 = b - a /\ (IF a + 1 <= b THEN b - (a + 1) + 1 ELSE 0) = b - a
  OBVIOUS
<1>4. \A i \in 1 .. b - a : (a + 1) + i - 1 = a + i
  OBVIOUS
<1>. DEFINE p == SubSeq(s, a + 1, b)
<1>5. /\ p \in Seq(S) /\ Len(p) = b - a
      /\ \A i \in 1 .. b - a : p[i] = s[(a + 1) + i - 1]
  BY <1>2, <1>3, Zenon
<1>. HIDE DEF p
<1>6. \A i \in 1 .. b - a : p[i] = s[a + i]
  BY <1>4, <1>5
<1>. QED
  BY <1>5, <1>6 DEF p

\* A stretch of what is behind the first o elements.
LEMMA StretchOfRest ==
  ASSUME NEW S, NEW s \in Seq(S), NEW o \in Nat, NEW a \in Nat, NEW b \in Nat,
         a <= b, o + b <= Len(s)
  PROVE  SubSeq(SubSeq(s, o + 1, Len(s)), a + 1, b) = SubSeq(s, (o + a) + 1, o + b)
<1>. DEFINE l == Len(s)
            rest == SubSeq(s, o + 1, l)
            p == SubSeq(rest, a + 1, b)
            q == SubSeq(s, (o + a) + 1, o + b)
<1>1. l \in Nat /\ o <= l /\ o + a \in Nat /\ o + b \in Nat /\ o + a <= o + b /\ b <= l - o
  OBVIOUS
<1>2. rest \in Seq(S) /\ Len(rest) = l - o /\ \A i \in 1 .. l - o : rest[i] = s[o + i]
  BY <1>1, Stretch
<1>. HIDE DEF rest
<1>3. p \in Seq(S) /\ Len(p) = b - a /\ \A i \in 1 .. b - a : p[i] = rest[a + i]
  BY <1>1, <1>2, Stretch
<1>4. q \in Seq(S) /\ Len(q) = (o + b) - (o + a) /\ \A i \in 1 .. (o + b) - (o + a) : q[i] = s[(o + a) + i]
  BY <1>1, Stretch
<1>. HIDE DEF p, q, l
<1>5. (o + b) - (o + a) = b - a
  OBVIOUS
<1>6. ASSUME NEW i \in 1 .. b - a
      PROVE  p[i] = q[i]
  <2>1. a + i \in 1 .. l - o /\ o + (a + i) = (o + a) + i
    BY <1>1
  <2>2. rest[a + i] = s[o + (a + i)]
    BY <1>2, <2>1
  <2>. QED
    BY <1>3, <1>4, <1>5, <2>1, <2>2
<1>7. p = q
  <2>1. Len(p) = Len(q) /\ \A i \in 1 .. Len(p) : p[i] = q[i]
    BY <1>3, <1>4, <1>5, <1>6, Zenon
  <2>. QED
    BY <1>3, <1>4, <2>1, SeqEqual, Zenon
<1>. QED
  BY <1>7, Zenon DEF p, q, rest, l

\* A stretch and what is behind it.
LEMMA StretchesMeet ==
  ASSUME NEW S, NEW s \in Seq(S), NEW a \in Nat, NEW b \in Nat, a <= b, b <= Len(s)
  PROVE  SubSeq(s, a + 1, b) \o SubSeq(s, b + 1, Len(s)) = SubSeq(s, a + 1, Len(s))
<1>. DEFINE l == Len(s)
<1>1. l \in Nat
  OBVIOUS
<1>. HIDE DEF l
<1>2. a + 1 \in 1 .. l + 1 /\ b \in (a + 1) - 1 .. l /\ l \in b .. l
  BY <1>1 DEF l
<1>. QED
  BY <1>2, ConcatAdjacentSubSeq DEF l

\* The longest stretch, and the shortest.
LEMMA WholeStretch ==
  ASSUME NEW S, NEW s \in Seq(S)
  PROVE  SubSeq(s, 1, Len(s)) = s /\ SubSeq(s, Len(s) + 1, Len(s)) = <<>>
OBVIOUS

\* How a concatenation begins.
LEMMA Beginning ==
  ASSUME NEW S, NEW s \in Seq(S), NEW t \in Seq(S)
  PROVE  SubSeq(s \o t, 1, Len(s)) = s
<1>. DEFINE u == s \o t
            p == SubSeq(u, 1, Len(s))
<1>1. /\ u \in Seq(S) /\ Len(u) = Len(s) + Len(t)
      /\ \A i \in 1 .. Len(s) : u[i] = s[i]
  BY ConcatProperties
<1>. HIDE DEF u
<1>2. Len(s) \in Nat /\ Len(t) \in Nat /\ 0 + 1 = 1 /\ Len(s) <= Len(u) /\ 0 <= Len(s) /\ Len(s) - 0 = Len(s)
  BY <1>1
<1>3. /\ SubSeq(u, 0 + 1, Len(s)) \in Seq(S) /\ Len(SubSeq(u, 0 + 1, Len(s))) = Len(s) - 0
      /\ \A i \in 1 .. Len(s) - 0 : SubSeq(u, 0 + 1, Len(s))[i] = u[0 + i]
  BY <1>1, <1>2, Stretch
<1>4. p \in Seq(S) /\ Len(p) = Len(s) /\ \A i \in 1 .. Len(s) : p[i] = u[0 + i]
  BY <1>2, <1>3, Zenon
<1>. HIDE DEF p
<1>5. \A i \in 1 .. Len(s) : p[i] = s[i]
  BY <1>1, <1>2, <1>4
<1>6. p = s
  BY <1>4, <1>5
<1>. QED
  BY <1>6 DEF p, u

\* A function on the naturals up to n that never falls.
LEMMA NeverFalls ==
  ASSUME NEW n \in Nat, NEW e \in [0 .. n -> Int], \A i \in 1 .. n : e[i - 1] <= e[i]
  PROVE  \A i \in 0 .. n, j \in 0 .. n : i <= j => e[i] <= e[j]
<1>. DEFINE T == {j \in Nat : j <= n => \A i \in 0 .. j : e[i] <= e[j]}
<1>1. 0 \in T
  OBVIOUS
<1>2. ASSUME NEW j \in Nat, j \in T
      PROVE  j + 1 \in T
  <2>1. SUFFICES ASSUME j + 1 <= n, NEW i \in 0 .. j + 1
                 PROVE  e[i] <= e[j + 1]
    BY <1>2
  <2>2. e[j] <= e[j + 1] /\ e[j] \in Int /\ e[j + 1] \in Int /\ e[i] \in Int
    <3>1. j + 1 \in 1 .. n /\ j + 1 - 1 = j /\ j \in 0 .. n /\ i \in 0 .. n /\ j + 1 \in 0 .. n
      BY <2>1
    <3>. QED
      BY <3>1
  <2>3. CASE i = j + 1
    BY <2>2, <2>3
  <2>4. CASE i \in 0 .. j
    <3>1. e[i] <= e[j]
      BY <1>2, <2>1, <2>4
    <3>. QED
      BY <2>2, <3>1
  <2>. QED
    BY <2>1, <2>3, <2>4
<1>. HIDE DEF T
<1>3. Nat \subseteq T
  BY <1>1, <1>2, InductionOverNat
<1>. QED
  BY <1>3 DEF T

-----------------------------------------------------------------------------
\* e[i] is where the i-th of n sequences ends in their concatenation all.
EndsAt(e, all, ss, n) ==
  /\ e[0] = 0 /\ Len(all) = e[n]
  /\ \A i \in 1 .. n : /\ e[i] = e[i - 1] + Len(ss[i])
                       /\ \A k \in 1 .. Len(ss[i]) : all[e[i - 1] + k] = ss[i][k]

\* Where the elements of the sequences are in their concatenation.
LEMMA FlattenPlaces ==
  ASSUME NEW S
  PROVE  \A n \in Nat : \A ss \in [1 .. n -> Seq(S)] :
           \E e \in [0 .. n -> Nat] : EndsAt(e, FlattenSeq(ss), ss, n)
<1>. DEFINE T == {n \in Nat : \A ss \in [1 .. n -> Seq(S)] :
                    \E e \in [0 .. n -> Nat] : EndsAt(e, FlattenSeq(ss), ss, n)}
<1>1. 0 \in T
  <2>1. SUFFICES ASSUME NEW ss \in [1 .. 0 -> Seq(S)]
                 PROVE  \E e \in [0 .. 0 -> Nat] : EndsAt(e, FlattenSeq(ss), ss, 0)
    BY Zenon
  <2>2. ss = <<>> /\ Len(ss) = 0
    OBVIOUS
  <2>3. FlattenSeq(ss) = <<>>
    BY <2>2, FlattenNone
  <2>. DEFINE e == [i \in 0 .. 0 |-> 0]
  <2>4. e \in [0 .. 0 -> Nat] /\ EndsAt(e, FlattenSeq(ss), ss, 0)
    BY <2>3 DEF EndsAt
  <2>. QED
    BY <2>4
<1>2. ASSUME NEW n \in Nat, n \in T
      PROVE  n + 1 \in T
  <2>1. SUFFICES ASSUME NEW ss \in [1 .. n + 1 -> Seq(S)]
                 PROVE  \E e \in [0 .. n + 1 -> Nat] : EndsAt(e, FlattenSeq(ss), ss, n + 1)
    <3>1. n + 1 \in Nat
      OBVIOUS
    <3>. QED
      BY <3>1, Zenon
  <2>. DEFINE front == [i \in 1 .. n |-> ss[i]]
              last == ss[n + 1]
              all == FlattenSeq(front)
  <2>2. front \in [1 .. n -> Seq(S)] /\ last \in Seq(S)
    OBVIOUS
  <2>3. all \in Seq(S)
    BY <2>2, FlattenType
  <2>4. PICK f \in [0 .. n -> Nat] : EndsAt(f, all, front, n)
    BY <1>2, <2>2
  <2>5. FlattenSeq(ss) = all \o last
    BY FlattenStep
  <2>6. \A i \in 1 .. n : front[i] = ss[i]
    OBVIOUS
  <2>. HIDE DEF front, all, last
  <2>7. /\ all \o last \in Seq(S) /\ Len(all \o last) = Len(all) + Len(last)
        /\ \A i \in 1 .. Len(all) + Len(last) :
             (all \o last)[i] = IF i <= Len(all) THEN all[i] ELSE last[i - Len(all)]
    BY <2>2, <2>3, ConcatProperties
  <2>8. Len(all) \in Nat /\ Len(last) \in Nat /\ f[n] = Len(all)
    BY <2>2, <2>3, <2>4 DEF EndsAt
  <2>. DEFINE e == [i \in 0 .. n + 1 |-> IF i <= n THEN f[i] ELSE Len(all) + Len(last)]
  <2>9. /\ e \in [0 .. n + 1 -> Nat] /\ e[n + 1] = Len(all) + Len(last)
        /\ \A i \in 0 .. n : e[i] = f[i]
    BY <2>8
  <2>. HIDE DEF e
  <2>10. ASSUME NEW i \in 1 .. n
         PROVE  /\ e[i] = e[i - 1] + Len(ss[i])
                /\ \A k \in 1 .. Len(ss[i]) : (all \o last)[e[i - 1] + k] = ss[i][k]
    <3>1. /\ f[i] = f[i - 1] + Len(ss[i]) /\ f[i] \in Nat /\ f[i - 1] \in Nat
          /\ \A k \in 1 .. Len(ss[i]) : all[f[i - 1] + k] = ss[i][k]
      <4>1. front[i] = ss[i]
        BY <2>6
      <4>2. i \in 0 .. n /\ i - 1 \in 0 .. n
        OBVIOUS
      <4>. QED
        BY <2>4, <4>1, <4>2 DEF EndsAt
    <3>2. e[i] = f[i] /\ e[i - 1] = f[i - 1]
      <4>1. i \in 0 .. n /\ i - 1 \in 0 .. n
        OBVIOUS
      <4>. QED
        BY <2>9, <4>1
    <3>3. f[i] <= Len(all)
      <4>1. f \in [0 .. n -> Int] /\ i \in 0 .. n /\ n \in 0 .. n /\ i <= n
        OBVIOUS
      <4>2. \A j \in 1 .. n : f[j - 1] <= f[j]
        <5>1. SUFFICES ASSUME NEW j \in 1 .. n
                       PROVE  f[j - 1] <= f[j]
          OBVIOUS
        <5>2. f[j] = f[j - 1] + Len(ss[j]) /\ f[j - 1] \in Nat /\ Len(ss[j]) \in Nat
          <6>1. front[j] = ss[j] /\ ss[j] \in Seq(S) /\ j - 1 \in 0 .. n
            BY <2>6
          <6>. QED
            BY <2>4, <6>1, SMTT(30) DEF EndsAt
        <5>. QED
          BY <5>2
      <4>3. f[i] <= f[n]
        BY <4>1, <4>2, NeverFalls
      <4>. QED
        BY <2>8, <4>3
    <3>4. ss[i] \in Seq(S) /\ Len(ss[i]) \in Nat
      OBVIOUS
    <3>5. ASSUME NEW k \in 1 .. Len(ss[i])
          PROVE  (all \o last)[f[i - 1] + k] = ss[i][k]
      <4>1. f[i - 1] + k \in 1 .. Len(all)
        BY <2>8, <3>1, <3>3, <3>4, SMTT(30)
      <4>2. f[i - 1] + k \in 1 .. Len(all) + Len(last) /\ f[i - 1] + k <= Len(all)
        <5>. DEFINE x == f[i - 1] + k
                    a == Len(all)
                    b == Len(last)
        <5>1. x \in 1 .. a /\ a \in Nat /\ b \in Nat
          BY <2>8, <4>1, Zenon
        <5>. HIDE DEF x, a, b
        <5>2. x \in 1 .. a + b /\ x <= a
          BY <5>1
        <5>. QED
          BY <5>2 DEF x, a, b
      <4>. QED
        BY <2>7, <3>1, <4>2
    <3>. QED
      BY <3>1, <3>2, <3>5
  <2>11. \A k \in 1 .. Len(last) : (all \o last)[e[n] + k] = last[k]
    <3>1. e[n] = Len(all)
      BY <2>8, <2>9
    <3>2. SUFFICES ASSUME NEW k \in 1 .. Len(last)
                   PROVE  (all \o last)[Len(all) + k] = last[k]
      BY <3>1, Zenon
    <3>3. Len(all) + k \in 1 .. Len(all) + Len(last) /\ ~(Len(all) + k <= Len(all)) /\ Len(all) + k - Len(all) = k
      BY <2>8
    <3>. QED
      BY <2>7, <3>3
  <2>12. EndsAt(e, all \o last, ss, n + 1)
    <3>1. e[0] = 0 /\ Len(all \o last) = e[n + 1] /\ e[n] = Len(all)
      BY <2>4, <2>7, <2>8, <2>9 DEF EndsAt
    <3>2. ASSUME NEW i \in 1 .. n + 1
          PROVE  /\ e[i] = e[i - 1] + Len(ss[i])
                 /\ \A k \in 1 .. Len(ss[i]) : (all \o last)[e[i - 1] + k] = ss[i][k]
      <4>1. CASE i \in 1 .. n
        BY <2>10, <4>1
      <4>2. CASE i = n + 1
        <5>1. i - 1 = n /\ ss[i] = last
          BY <4>2 DEF last
        <5>2. e[n + 1] = e[n] + Len(last)
          BY <2>9, <3>1
        <5>3. e[i] = e[i - 1] + Len(ss[i]) /\ e[i - 1] = e[n]
          BY <4>2, <5>1, <5>2
        <5>4. \A k \in 1 .. Len(ss[i]) : (all \o last)[e[i - 1] + k] = ss[i][k]
          BY <2>11, <5>1, <5>3, Zenon
        <5>. QED
          BY <5>3, <5>4, Zenon
      <4>3. i \in 1 .. n \/ i = n + 1
        OBVIOUS
      <4>. QED
        BY <4>1, <4>2, <4>3, Zenon
    <3>. QED
      BY <3>1, <3>2 DEF EndsAt
  <2>. QED
    BY <2>5, <2>9, <2>12
<1>. HIDE DEF T
<1>3. Nat \subseteq T
  BY <1>1, <1>2, InductionOverNat
<1>. QED
  BY <1>3 DEF T

\* What the requests of a stream are made of.
Parted == {"method", "version", "field", "end", "bad"}
AskedUnit == [req : 1 .. Len(script), part : Parted]

\* How many parts a request is sent in, and which: a request without a flaw
\* has four, one with a flaw ends with what is wrong with it.
LEMMA PartsOfRequest ==
  ASSUME NEW r \in Request
  PROVE  /\ PartsOf(r) \in Seq(Parted)
         /\ r.flaw = "none" =>
              /\ Len(PartsOf(r)) = 4
              /\ PartsOf(r)[1] = "method" /\ PartsOf(r)[2] = "version"
              /\ PartsOf(r)[3] = "field" /\ PartsOf(r)[4] = "end"
         /\ r.flaw = "line" =>
              Len(PartsOf(r)) = 2 /\ PartsOf(r)[1] = "method" /\ PartsOf(r)[2] = "bad"
         /\ r.flaw = "headers" =>
              /\ Len(PartsOf(r)) = 3
              /\ PartsOf(r)[1] = "method" /\ PartsOf(r)[2] = "version" /\ PartsOf(r)[3] = "bad"
<1>0. r.flaw \in {"none", "line", "headers"}
  BY DEF Request
<1>1. /\ LineParts \in Seq(Parted) /\ Len(LineParts) = 2
      /\ LineParts[1] = "method" /\ LineParts[2] = "version"
      /\ HeaderParts \in Seq(Parted) /\ Len(HeaderParts) = 2
      /\ HeaderParts[1] = "field" /\ HeaderParts[2] = "end"
      /\ <<"bad">> \in Seq(Parted) /\ Len(<<"bad">>) = 1 /\ <<"bad">>[1] = "bad"
  BY DEF LineParts, HeaderParts, Parted
<1>2. CASE r.flaw = "none"
  <2>1. PartsOf(r) = LineParts \o HeaderParts
    BY <1>2, Zenon DEF PartsOf
  <2>2. /\ LineParts \o HeaderParts \in Seq(Parted)
        /\ Len(LineParts \o HeaderParts) = Len(LineParts) + Len(HeaderParts)
        /\ \A i \in 1 .. Len(LineParts) + Len(HeaderParts) :
             (LineParts \o HeaderParts)[i] =
                IF i <= Len(LineParts) THEN LineParts[i] ELSE HeaderParts[i - Len(LineParts)]
    BY <1>1, ConcatProperties, Zenon
  <2>. QED
    BY <1>1, <1>2, <2>1, <2>2
<1>3. CASE r.flaw = "line"
  <2>1. PartsOf(r) = <<"method", "bad">>
    BY <1>3, Zenon DEF PartsOf
  <2>. QED
    BY <1>3, <2>1 DEF Parted
<1>4. CASE r.flaw = "headers"
  <2>1. PartsOf(r) = LineParts \o <<"bad">>
    BY <1>4, Zenon DEF PartsOf
  <2>2. /\ LineParts \o <<"bad">> \in Seq(Parted)
        /\ Len(LineParts \o <<"bad">>) = Len(LineParts) + Len(<<"bad">>)
        /\ \A i \in 1 .. Len(LineParts) + Len(<<"bad">>) :
             (LineParts \o <<"bad">>)[i] =
                IF i <= Len(LineParts) THEN LineParts[i] ELSE <<"bad">>[i - Len(LineParts)]
    BY <1>1, ConcatProperties, Zenon
  <2>. QED
    BY <1>1, <1>4, <2>1, <2>2
<1>. QED
  BY <1>0, <1>2, <1>3, <1>4

\* s is what all has behind its first k elements.
IsAt(s, all, k) == \A n \in 1 .. Len(s) : s[n] = all[k + n]

\* Both parts of a sequence that is a stretch of all are stretches of it.
LEMMA IsAtParts ==
  ASSUME NEW S, NEW s \in Seq(S), NEW all, NEW k \in Int, IsAt(s, all, k), NEW n \in 0 .. Len(s)
  PROVE  /\ SubSeq(s, 1, n) \in Seq(S) /\ Len(SubSeq(s, 1, n)) = n
         /\ IsAt(SubSeq(s, 1, n), all, k)
         /\ SubSeq(s, n + 1, Len(s)) \in Seq(S) /\ Len(SubSeq(s, n + 1, Len(s))) = Len(s) - n
         /\ IsAt(SubSeq(s, n + 1, Len(s)), all, k + n)
<1>1. /\ SubSeq(s, 1, n) \in Seq(S) /\ Len(SubSeq(s, 1, n)) = n
      /\ \A i \in 1 .. n : SubSeq(s, 1, n)[i] = s[i]
  OBVIOUS
<1>2. /\ SubSeq(s, n + 1, Len(s)) \in Seq(S) /\ Len(SubSeq(s, n + 1, Len(s))) = Len(s) - n
      /\ \A i \in 1 .. Len(s) - n : SubSeq(s, n + 1, Len(s))[i] = s[n + i]
  OBVIOUS
<1>3. IsAt(SubSeq(s, 1, n), all, k)
  BY <1>1 DEF IsAt
<1>4. ASSUME NEW i \in 1 .. Len(s) - n
      PROVE  SubSeq(s, n + 1, Len(s))[i] = all[(k + n) + i]
  <2>1. n + i \in 1 .. Len(s) /\ k + (n + i) = (k + n) + i
    OBVIOUS
  <2>2. s[n + i] = all[k + (n + i)]
    BY <2>1, Zenon DEF IsAt
  <2>. QED
    BY <1>2, <2>1, <2>2
<1>. QED
  BY <1>1, <1>2, <1>3, <1>4 DEF IsAt

\* Adjacent stretches of all make one stretch of it.
LEMMA IsAtConcat ==
  ASSUME NEW S, NEW s \in Seq(S), NEW t \in Seq(S), NEW all, NEW k \in Int,
         IsAt(s, all, k), IsAt(t, all, k + Len(s))
  PROVE  s \o t \in Seq(S) /\ Len(s \o t) = Len(s) + Len(t) /\ IsAt(s \o t, all, k)
<1>1. /\ s \o t \in Seq(S) /\ Len(s \o t) = Len(s) + Len(t)
      /\ \A i \in 1 .. Len(s) + Len(t) : (s \o t)[i] = IF i <= Len(s) THEN s[i] ELSE t[i - Len(s)]
  BY ConcatProperties
<1>2. ASSUME NEW n \in 1 .. Len(s) + Len(t)
      PROVE  (s \o t)[n] = all[k + n]
  <2>1. CASE n <= Len(s)
    BY <1>1, <2>1 DEF IsAt
  <2>2. CASE n > Len(s)
    <3>1. n - Len(s) \in 1 .. Len(t) /\ k + Len(s) + (n - Len(s)) = k + n
      BY <2>2
    <3>2. t[n - Len(s)] = all[k + Len(s) + (n - Len(s))]
      BY <3>1 DEF IsAt
    <3>. QED
      BY <1>1, <2>2, <3>1, <3>2
  <2>. QED
    BY <2>1, <2>2
<1>. QED
  BY <1>1, <1>2 DEF IsAt

\* A stretch of the stream.
UnitsOf(requests, i) ==
  LET parts == PartsOf(requests[i]) IN [n \in DOMAIN parts |-> [req |-> i, part |-> parts[n]]]

\* What comes before the first request: the handshake, with TLS.
HelloOf(https) == IF https THEN HelloLen ELSE 0

\* What is sent for a request names it.
LEMMA UnitsType ==
  ASSUME script \in Scripts, NEW i \in 1 .. Len(script)
  PROVE  /\ PartsOf(script[i]) \in Seq(Parted)
         /\ UnitsOf(script, i) \in Seq(AskedUnit)
         /\ Len(UnitsOf(script, i)) = Len(PartsOf(script[i]))
         /\ \A n \in 1 .. Len(PartsOf(script[i])) :
              UnitsOf(script, i)[n] = [req |-> i, part |-> PartsOf(script[i])[n]]
<1>1. PartsOf(script[i]) \in Seq(Parted)
  <2>1. script[i] \in Request
    BY ScriptsAssumption
  <2>. QED
    BY <2>1, PartsOfRequest
<1>2. DOMAIN PartsOf(script[i]) = 1 .. Len(PartsOf(script[i])) /\ Len(PartsOf(script[i])) \in Nat
  BY <1>1
<1>3. \A n \in 1 .. Len(PartsOf(script[i])) : PartsOf(script[i])[n] \in Parted
  BY <1>1
<1>4. UnitsOf(script, i) =
        [n \in 1 .. Len(PartsOf(script[i])) |-> [req |-> i, part |-> PartsOf(script[i])[n]]]
  BY <1>2 DEF UnitsOf
<1>5. \A n \in 1 .. Len(PartsOf(script[i])) : [req |-> i, part |-> PartsOf(script[i])[n]] \in AskedUnit
  BY <1>3 DEF AskedUnit
<1>. QED
  BY <1>1, <1>2, <1>4, <1>5

\* What is sent before the first request names none.
Hello(https) == IF https THEN [n \in 1 .. HelloLen |-> [req |-> 0, part |-> "hello"]] ELSE <<>>

\* Its type, and its length.
LEMMA HelloType ==
  ASSUME NEW https \in BOOLEAN
  PROVE  /\ Hello(https) \in Seq(InputUnit) /\ Len(Hello(https)) = HelloOf(https)
         /\ HelloOf(https) \in Nat
         /\ \A n \in 1 .. HelloOf(https) : Hello(https)[n].req = 0
<1>1. HelloLen \in Nat /\ [req |-> 0, part |-> "hello"] \in InputUnit
  BY SizeAssumption DEF InputUnit
<1>2. CASE https
  <2>1. Hello(https) = [n \in 1 .. HelloLen |-> [req |-> 0, part |-> "hello"]] /\ HelloOf(https) = HelloLen
    BY <1>2 DEF Hello, HelloOf
  <2>2. \A x \in InputUnit : /\ [n \in 1 .. HelloLen |-> x] \in Seq(InputUnit)
                             /\ Len([n \in 1 .. HelloLen |-> x]) = HelloLen
                             /\ \A m \in 1 .. HelloLen : [n \in 1 .. HelloLen |-> x][m] = x
    BY <1>1
  <2>. DEFINE u == [req |-> 0, part |-> "hello"]
  <2>3. u \in InputUnit /\ u.req = 0
    BY <1>1
  <2>4. Hello(https) = [n \in 1 .. HelloLen |-> u]
    BY <2>1
  <2>. HIDE DEF u
  <2>. QED
    BY <1>1, <2>1, <2>2, <2>3, <2>4
<1>3. CASE ~https
  <2>1. Hello(https) = <<>> /\ HelloOf(https) = 0
    BY <1>3 DEF Hello, HelloOf
  <2>. QED
    BY <2>1
<1>. QED
  BY <1>2, <1>3

\* All that is sent for the requests of a script.
Requested(s) == FlattenSeq([i \in DOMAIN s |-> UnitsOf(s, i)])

\* Its type.
LEMMA RequestedType ==
  ASSUME script \in Scripts
  PROVE  /\ script \in Seq(Request) /\ Len(script) \in Nat /\ DOMAIN script = 1 .. Len(script)
         /\ [i \in DOMAIN script |-> UnitsOf(script, i)] \in [1 .. Len(script) -> Seq(AskedUnit)]
         /\ Requested(script) \in Seq(AskedUnit)
         /\ AskedUnit \subseteq InputUnit
<1>. DEFINE units == [i \in DOMAIN script |-> UnitsOf(script, i)]
<1>1. script \in Seq(Request) /\ Len(script) \in Nat /\ DOMAIN script = 1 .. Len(script)
  BY ScriptsAssumption
<1>2. units \in [1 .. Len(script) -> Seq(AskedUnit)]
  <2>1. \A i \in 1 .. Len(script) : UnitsOf(script, i) \in Seq(AskedUnit)
    BY UnitsType
  <2>. QED
    BY <1>1, <2>1
<1>3. AskedUnit \subseteq InputUnit
  BY <1>1 DEF AskedUnit, InputUnit, Parted
<1>. HIDE DEF units
<1>4. FlattenSeq(units) \in Seq(AskedUnit)
  BY <1>1, <1>2, FlattenType, Zenon
<1>. QED
  BY <1>1, <1>2, <1>3, <1>4 DEF Requested, units

\* The stream of a client: its handshake, then what it asks for.
LEMMA StreamIs ==
  ASSUME script \in Scripts, NEW https \in BOOLEAN
  PROVE  /\ Stream(script, https) = Hello(https) \o Requested(script)
         /\ Stream(script, https) \in Seq(InputUnit)
         /\ Len(Stream(script, https)) = HelloOf(https) + Len(Requested(script))
         /\ \A n \in 1 .. HelloOf(https) : Stream(script, https)[n] = Hello(https)[n]
         /\ \A n \in 1 .. Len(Requested(script)) :
              Stream(script, https)[HelloOf(https) + n] = Requested(script)[n]
<1>. DEFINE h == Hello(https)
            all == Requested(script)
<1>1. Stream(script, https) = h \o all
  BY Zenon DEF Stream, UnitsOf, Hello, Requested
<1>2. h \in Seq(InputUnit) /\ Len(h) = HelloOf(https) /\ HelloOf(https) \in Nat
  BY HelloType
<1>3. all \in Seq(InputUnit)
  BY RequestedType, SeqMonotonic
<1>. HIDE DEF h, all
<1>4. /\ h \o all \in Seq(InputUnit) /\ Len(h \o all) = Len(h) + Len(all)
      /\ \A i \in 1 .. Len(h) + Len(all) : (h \o all)[i] = IF i <= Len(h) THEN h[i] ELSE all[i - Len(h)]
  BY <1>2, <1>3, ConcatProperties
<1>5. Len(all) \in Nat
  BY <1>3
<1>6. \A n \in 1 .. Len(all) : (h \o all)[HelloOf(https) + n] = all[n]
  <2>1. SUFFICES ASSUME NEW n \in 1 .. Len(all)
                 PROVE  (h \o all)[Len(h) + n] = all[n]
    BY <1>2
  <2>2. Len(h) + n \in 1 .. Len(h) + Len(all) /\ ~(Len(h) + n <= Len(h)) /\ Len(h) + n - Len(h) = n
    BY <1>2, <1>5
  <2>. QED
    BY <1>4, <2>2
<1>7. \A n \in 1 .. Len(h) : (h \o all)[n] = h[n]
  BY <1>2, <1>4, <1>5
<1>. QED
  BY <1>1, <1>2, <1>4, <1>6, <1>7 DEF h, all

\* The stream of a client: the units of its handshake, then nothing but units
\* of its requests.
LEMMA StreamType ==
  ASSUME script \in Scripts, NEW https \in BOOLEAN
  PROVE  /\ Stream(script, https) \in Seq(InputUnit)
         /\ HelloOf(https) <= Len(Stream(script, https))
         /\ \A n \in HelloOf(https) + 1 .. Len(Stream(script, https)) : Stream(script, https)[n] \in AskedUnit
<1>1. HelloOf(https) \in Nat /\ Requested(script) \in Seq(AskedUnit) /\ Len(Requested(script)) \in Nat
  BY HelloType, RequestedType
<1>2. ASSUME NEW n \in HelloOf(https) + 1 .. HelloOf(https) + Len(Requested(script))
      PROVE  Stream(script, https)[n] \in AskedUnit
  <2>1. n - HelloOf(https) \in 1 .. Len(Requested(script)) /\ HelloOf(https) + (n - HelloOf(https)) = n
    BY <1>1
  <2>2. Stream(script, https)[n] = Requested(script)[n - HelloOf(https)]
    BY <2>1, StreamIs
  <2>. QED
    BY <1>1, <2>1, <2>2
<1>3. Stream(script, https) \in Seq(InputUnit)
      /\ Len(Stream(script, https)) = HelloOf(https) + Len(Requested(script))
  BY StreamIs
<1>. QED
  BY <1>1, <1>2, <1>3

-----------------------------------------------------------------------------
\* States that parse, and states that write what is in _M_out.
ReadingStates == {"kReadingRequestLine", "kAfterRequestLine", "kReadingHeaders"}
WithOut == {"kSendingHeaders", "kSendingPartHeader", "kSendingMultipartFooter"}

\* Nothing of a reply is left.
Clean(c) ==
  /\ c.out = <<>> /\ c.body = <<>> /\ c.outp = 0
  /\ c.nrange = 0 /\ c.record = 0 /\ ~c.corked

\* What the fields of a connection are in the different states of run().
Offsets(c) ==
  /\ c.state \in ReadingStates \cup {"kHandshaking", "kProcessingRequest", "kPreparingErrorPage"} =>
       Clean(c) /\ c.nrequests < MaxRequests
  /\ c.state \in ReadingStates \cup {"kHandshaking", "kProcessingRequest"} => ~c.file
  /\ c.state = "kHandshaking" => c.line = 0 /\ c.input = <<>>
  /\ c.state # "kHandshaking" => c.hello = 0
  /\ ~c.https => c.record = 0 /\ c.hello = 0
  /\ c.state = "kReadingRequestLine" => c.line < 2
  /\ c.state \in SendingStates \cup {"kRequestCompleted"} /\ c.keepAlive => c.nrequests < MaxRequests
  /\ c.state = "kSendingTwoBuffers" => c.outp + c.record <= Len(c.out) + Len(c.body) /\ ~c.corked
  /\ c.state \in WithOut => c.outp + c.record <= Len(c.out)
  /\ c.state = "kSendingHeaders" =>
       c.nrange = 0 /\ (c.corked => ~c.request.head /\ c.request.answer # "empty")
  /\ c.state = "kSendingPartHeader" => c.nrange < Len(c.request.ranges)
  /\ c.state = "kSendingBody" =>
       c.record = 0 /\ (c.request.ranges # <<>> => c.nrange < Len(c.request.ranges))
  /\ c.state = "kRequestCompleted" => c.record = 0 /\ ~c.corked

\* How many units of the stream have been parsed.
Taken(s, c, r, u) == Len(Stream(s, c.https)) - Len(u) - Len(r) - Len(c.input)

\* The buffer of the connection, that of the socket and what the client still
\* sends are together the rest of the stream.
Aligned(s, c, r, u) ==
  LET all == Stream(s, c.https)
      k == Taken(s, c, r, u)
  IN /\ IsAt(c.input, all, k)
     /\ IsAt(r, all, k + Len(c.input))
     /\ IsAt(u, all, k + Len(c.input) + Len(r))
     /\ c.state = "kHandshaking" => k + c.hello = HelloOf(c.https)
     /\ c.state # "kHandshaking" => k >= HelloOf(c.https)

\* The inductive invariant of the fields.
Shape ==
  /\ TypeOK
  /\ Offsets(conn)
  /\ phase # "closed" => Aligned(script, conn, rx, unsent)

\* http::connection::init(): a new connection has the fields of its state.
LEMMA NewFits ==
  ASSUME script \in Scripts, NEW https \in Transports
  PROVE  NewConnection(https) \in Fields /\ Offsets(NewConnection(https))
<1>1. https \in BOOLEAN /\ script \in Seq(Request)
  BY ChoiceAssumption, ScriptsAssumption
<1>2. /\ "kHandshaking" \in States /\ <<>> \in Seq(OutputUnit) /\ <<>> \in Seq(InputUnit)
      /\ 0 \in 0 .. Len(LineParts) /\ 0 \in 0 .. Len(script) /\ 0 \in 0 .. MaxRequests
      /\ Garbage \in Request
  BY <1>1, SizeAssumption DEF States, LineParts, Garbage, Request
<1>3. (IF https THEN HelloLen ELSE 0) \in 0 .. HelloLen
  BY SizeAssumption
<1>4. NewConnection(https) \in Fields
  BY <1>2, <1>3 DEF Fields, NewConnection
<1>5. Offsets(NewConnection(https))
  BY SizeAssumption DEF Offsets, Clean, NewConnection, ReadingStates, SendingStates, WithOut
<1>. QED
  BY <1>4, <1>5

\* An accepted connection is in order.
LEMMA ShapeInit == Init => Shape
<1>1. SUFFICES ASSUME Init
               PROVE  Shape
  OBVIOUS
<1>2. PICK https \in Transports : conn = [NewConnection(https) EXCEPT !.timerSet = TRUE]
  BY <1>1 DEF Init
<1>3. https \in BOOLEAN /\ script \in Scripts
  BY <1>1, <1>2, ChoiceAssumption DEF Init
<1>4. /\ conn.https = https /\ conn.input = <<>> /\ conn.hello = HelloOf(https)
      /\ conn.state = "kHandshaking"
  BY <1>2 DEF NewConnection, HelloOf
<1>5. Stream(script, https) \in Seq(InputUnit) /\ rx = <<>> /\ unsent = Stream(script, https)
  BY <1>1, <1>3, <1>4, StreamType DEF Init
<1>6. conn \in Fields
  <2>1. NewConnection(https) \in Fields
    BY <1>3, NewFits
  <2>. QED
    BY <1>2, <2>1 DEF Fields
<1>7. TypeOK
  <2>1. tx \in 0 .. TxSize /\ sent \in Seq(OutputUnit) /\ rx \in Seq(InputUnit)
    BY <1>1, SizeAssumption DEF Init
  <2>. QED
    BY <1>1, <1>3, <1>5, <1>6, <2>1 DEF Init, TypeOK
<1>8. Offsets(conn)
  BY <1>2, SizeAssumption DEF Offsets, Clean, NewConnection, ReadingStates, SendingStates, WithOut
<1>9. Aligned(script, conn, rx, unsent)
  <2>1. Len(unsent) \in Nat /\ HelloOf(https) \in Int /\ Len(conn.input) = 0 /\ Len(rx) = 0
    BY <1>4, <1>5, SizeAssumption DEF HelloOf
  <2>2. Taken(script, conn, rx, unsent) = Len(unsent) - Len(unsent) - 0 - 0
    BY <1>4, <1>5, <2>1, Zenon DEF Taken
  <2>3. Taken(script, conn, rx, unsent) = 0
    BY <2>1, <2>2
  <2>4. IsAt(unsent, Stream(script, https), 0)
    BY <1>5, <2>1 DEF IsAt
  <2>5. \A all, k : IsAt(rx, all, k) /\ IsAt(conn.input, all, k)
    BY <2>1 DEF IsAt
  <2>. QED
    BY <1>4, <2>1, <2>3, <2>4, <2>5 DEF Aligned
<1>. QED
  BY <1>7, <1>8, <1>9 DEF Shape

\* Types the later proofs need one by one.
LEMMA ReqType ==
  ASSUME Shape
  PROVE  /\ conn \in Fields /\ conn.https \in BOOLEAN
         /\ rx \in Seq(InputUnit) /\ unsent \in Seq(InputUnit) /\ conn.input \in Seq(InputUnit)
         /\ script \in Scripts /\ script \in Seq(Request)
         /\ Stream(script, conn.https) \in Seq(InputUnit)
         /\ Taken(script, conn, rx, unsent) \in Int /\ HelloOf(conn.https) \in Nat
<1>1. /\ conn \in Fields /\ conn.https \in BOOLEAN
      /\ rx \in Seq(InputUnit) /\ unsent \in Seq(InputUnit) /\ conn.input \in Seq(InputUnit)
      /\ script \in Scripts /\ script \in Seq(Request)
  BY ChoiceAssumption, ScriptsAssumption DEF Shape, TypeOK, Fields
<1>2. Stream(script, conn.https) \in Seq(InputUnit)
  BY <1>1, StreamType
<1>3. HelloOf(conn.https) \in Nat
  BY SizeAssumption DEF HelloOf
<1>. QED
  BY <1>1, <1>2, <1>3 DEF Taken

\* The client, and what the network does for it: the units move along.
LEMMA ClientKeepsShape ==
  ASSUME Shape, Client
  PROVE  Shape'
<1>1. CASE ClientSends
  <2>1. PICK n \in 1 .. Len(unsent) :
          rx' = rx \o SubSeq(unsent, 1, n) /\ unsent' = SubSeq(unsent, n + 1, Len(unsent))
    BY <1>1 DEF ClientSends
  <2>2. /\ phase # "closed" /\ phase' = phase /\ conn' = conn /\ alsoWritable' = alsoWritable
        /\ script' = script /\ sent' = sent /\ tx' = tx /\ peer' = peer /\ nospace' = nospace
        /\ queued' = TRUE
    BY <1>1 DEF ClientSends, processVars
  <2>. DEFINE all == Stream(script, conn.https)
              k == Taken(script, conn, rx, unsent)
  <2>3. /\ k \in Int /\ rx \in Seq(InputUnit) /\ unsent \in Seq(InputUnit) /\ conn.input \in Seq(InputUnit)
        /\ all \in Seq(InputUnit) /\ n \in 0 .. Len(unsent)
    BY ReqType
  <2>4. /\ IsAt(conn.input, all, k) /\ IsAt(rx, all, k + Len(conn.input))
        /\ IsAt(unsent, all, k + Len(conn.input) + Len(rx))
        /\ conn.state = "kHandshaking" => k + conn.hello = HelloOf(conn.https)
        /\ conn.state # "kHandshaking" => k >= HelloOf(conn.https)
    BY <2>2 DEF Shape, Aligned
  <2>. HIDE DEF all, k
  <2>. DEFINE first == SubSeq(unsent, 1, n)
  <2>5. /\ first \in Seq(InputUnit) /\ Len(first) = n
        /\ IsAt(first, all, k + Len(conn.input) + Len(rx))
        /\ unsent' \in Seq(InputUnit) /\ Len(unsent') = Len(unsent) - n
        /\ IsAt(unsent', all, k + Len(conn.input) + Len(rx) + n)
    <3>. DEFINE p == k + Len(conn.input) + Len(rx)
    <3>1. p \in Int
      BY <2>3
    <3>a. unsent \in Seq(InputUnit) /\ n \in 0 .. Len(unsent) /\ IsAt(unsent, all, p)
      BY <2>3, <2>4
    <3>. HIDE DEF p
    <3>2. /\ SubSeq(unsent, 1, n) \in Seq(InputUnit) /\ Len(SubSeq(unsent, 1, n)) = n
          /\ IsAt(SubSeq(unsent, 1, n), all, p)
          /\ SubSeq(unsent, n + 1, Len(unsent)) \in Seq(InputUnit)
          /\ Len(SubSeq(unsent, n + 1, Len(unsent))) = Len(unsent) - n
          /\ IsAt(SubSeq(unsent, n + 1, Len(unsent)), all, p + n)
      BY <3>1, <3>a, IsAtParts
    <3>. QED
      BY <2>1, <3>2, Zenon DEF p
  <2>. HIDE DEF first
  <2>6. rx' \in Seq(InputUnit) /\ Len(rx') = Len(rx) + n /\ IsAt(rx', all, k + Len(conn.input))
    <3>1. k + Len(conn.input) \in Int
      BY <2>3
    <3>2. rx' = rx \o first
      BY <2>1 DEF first
    <3>. QED
      BY <2>3, <2>4, <2>5, <3>1, <3>2, IsAtConcat
  <2>7. Taken(script, conn, rx', unsent') = k
    BY <2>3, <2>5, <2>6 DEF Taken, k, all
  <2>8. k + Len(conn.input) + Len(rx') = k + Len(conn.input) + Len(rx) + n
    <3>1. Len(conn.input) \in Nat /\ Len(rx) \in Nat /\ k \in Int /\ n \in Int
      BY <2>3
    <3>2. Len(rx') = Len(rx) + n
      BY <2>6
    <3>. DEFINE a == Len(conn.input)
                b == Len(rx)
    <3>3. a \in Int /\ b \in Int
      BY <3>1
    <3>4. Len(rx') = b + n
      BY <3>2
    <3>. HIDE DEF a, b
    <3>5. k + a + (b + n) = k + a + b + n
      BY <3>1, <3>3
    <3>. QED
      BY <3>4, <3>5, Zenon DEF a, b
  <2>9. Aligned(script, conn, rx', unsent')
    BY <2>4, <2>5, <2>6, <2>7, <2>8 DEF Aligned, all
  <2>. QED
    BY <2>2, <2>5, <2>6, <2>9 DEF Shape, TypeOK, Fields
<1>2. CASE ClientReads
  <2>1. /\ tx' \in 0 .. TxSize /\ queued' \in BOOLEAN /\ nospace' \in BOOLEAN
        /\ phase' = phase /\ conn' = conn /\ alsoWritable' = alsoWritable
        /\ script' = script /\ sent' = sent /\ rx' = rx /\ unsent' = unsent /\ peer' = peer
    <3>1. PICK n \in 0 .. tx - 1 : tx' = n
      BY <1>2 DEF ClientReads
    <3>2. tx \in 0 .. TxSize /\ TxSize \in Nat /\ queued \in BOOLEAN /\ nospace \in BOOLEAN
      BY SizeAssumption DEF Shape, TypeOK
    <3>3. tx' \in 0 .. TxSize
      BY <3>1, <3>2
    <3>. QED
      BY <1>2, <3>2, <3>3 DEF ClientReads, processVars
  <2>. QED
    BY <2>1 DEF Shape, TypeOK, Fields
<1>3. CASE ClientEnds
  <2>1. /\ peer' \in Endings /\ queued' = TRUE
        /\ phase' = phase /\ conn' = conn /\ alsoWritable' = alsoWritable
        /\ script' = script /\ sent' = sent /\ rx' = rx /\ unsent' = unsent /\ tx' = tx /\ nospace' = nospace
    BY <1>3 DEF ClientEnds, processVars
  <2>. QED
    BY <2>1 DEF Shape, TypeOK, Fields
<1>. QED
  BY <1>1, <1>2, <1>3 DEF Client

\* A step that leaves the stream alone and keeps the position in it.
LEMMA FlagsKeepShape ==
  ASSUME Shape, NEW c \in Fields, c.https = conn.https, c.input = conn.input, c.hello = conn.hello,
         c.state = "kHandshaking" <=> conn.state = "kHandshaking",
         phase # "closed"
  PROVE  Aligned(script, c, rx, unsent)
<1>1. Taken(script, c, rx, unsent) = Taken(script, conn, rx, unsent)
  BY DEF Taken
<1>. QED
  BY <1>1 DEF Shape, Aligned

\* on_timer(), or run() returning false.
LEMMA DropKeepsShape ==
  ASSUME Shape, Drop, rx' \in Seq(InputUnit),
         UNCHANGED <<tx, peer, queued, nospace, script, unsent, sent>>
  PROVE  Shape'
<1>1. NewConnection(conn.https) \in Fields /\ Offsets(NewConnection(conn.https))
  BY NewFits DEF Shape, TypeOK, Fields
<1>. QED
  BY <1>1, ZenonT(60) DEF Shape, TypeOK, Drop, Fields

\* process_event(), process_ready_list() and on_timer() change flags and links.
LEMMA EventLoopKeepsShape ==
  ASSUME Shape, EventLoop
  PROVE  Shape'
<1>1. CASE Deliver \/ OnWritable
  <2>1. PICK c \in {[conn EXCEPT !.readable = TRUE], [conn EXCEPT !.writable = TRUE]} : conn' = c
    BY <1>1 DEF Deliver, OnWritable
  <2>0. conn \in Fields
    BY DEF Shape, TypeOK
  <2>2. c \in Fields
    <3>1. [conn EXCEPT !.readable = TRUE] \in Fields
      BY <2>0 DEF Fields
    <3>2. [conn EXCEPT !.writable = TRUE] \in Fields
      BY <2>0 DEF Fields
    <3>. QED
      BY <3>1, <3>2
  <2>3. /\ c.https = conn.https /\ c.input = conn.input /\ c.hello = conn.hello
        /\ c.state = conn.state /\ phase # "closed"
    BY <1>1 DEF Deliver, OnWritable, Shape, TypeOK, Fields
  <2>4. Aligned(script, c, rx, unsent)
    BY <2>2, <2>3, FlagsKeepShape
  <2>5. Offsets(c)
    <3>1. Offsets(conn)
      BY DEF Shape
    <3>2. Offsets([conn EXCEPT !.readable = TRUE])
      BY <2>0, <3>1 DEF Fields, Offsets, Clean
    <3>3. Offsets([conn EXCEPT !.writable = TRUE])
      BY <2>0, <3>1 DEF Fields, Offsets, Clean
    <3>. QED
      BY <3>2, <3>3
  <2>6. /\ phase' = "running" /\ alsoWritable' \in BOOLEAN /\ queued' \in BOOLEAN /\ nospace' \in BOOLEAN
        /\ rx' = rx /\ tx' = tx /\ peer' = peer /\ script' = script /\ unsent' = unsent /\ sent' = sent
    BY <1>1 DEF Deliver, OnWritable, kernelVars, Shape, TypeOK, InReady, OutReady
  <2>. QED
    BY <2>1, <2>2, <2>4, <2>5, <2>6 DEF Shape, TypeOK, Fields
<1>2. CASE Discard
  BY <1>2 DEF Discard, processVars, Shape, TypeOK, Fields
<1>. QED
  BY <1>1, <1>2 DEF EventLoop

\* The idle timer.
LEMMA ExpireKeepsShape ==
  ASSUME Shape, Expire
  PROVE  Shape'
<1>1. Drop /\ UNCHANGED <<tx, peer, queued, nospace, script, unsent, sent>> /\ rx' = rx
  BY DEF Expire, kernelVars
<1>. QED
  BY <1>1, DropKeepsShape DEF Shape, TypeOK

-----------------------------------------------------------------------------
\* Arithmetic on lengths, free of what they are the lengths of.
LEMMA LengthArithmetic ==
  /\ \A a, b, c, d, n \in Int : a - b - c - (d - n) = (a - b - c - d) + n
  /\ \A a, b, c, d, n \in Int : a - b - (c - n) - (d + n) = a - b - c - d
OBVIOUS

\* Units that move from one buffer into the next stay where the stream has them.
LEMMA AlignedMoves ==
  ASSUME NEW s, NEW c, NEW d, NEW r, NEW u, Aligned(s, c, r, u),
         d.https = c.https, d.input = c.input, d.hello = c.hello,
         d.state = "kHandshaking" <=> c.state = "kHandshaking"
  PROVE  Aligned(s, d, r, u)
<1>1. Taken(s, d, r, u) = Taken(s, c, r, u)
  BY DEF Taken
<1>. QED
  BY <1>1 DEF Aligned

\* Behind the handshake there are only requests to be read.
LEMMA InputIsAsked ==
  ASSUME script \in Scripts, NEW c \in Fields, NEW r \in Seq(InputUnit), NEW u \in Seq(InputUnit),
         Aligned(script, c, r, u), c.state # "kHandshaking"
  PROVE  \A n \in 1 .. Len(c.input) : c.input[n] \in AskedUnit
<1>1. SUFFICES ASSUME NEW n \in 1 .. Len(c.input)
               PROVE  c.input[n] \in AskedUnit
  OBVIOUS
<1>. DEFINE all == Stream(script, c.https)
            k == Taken(script, c, r, u)
            a == Len(all)
            i == Len(c.input)
            h == HelloOf(c.https)
<1>2. c.https \in BOOLEAN /\ c.input \in Seq(InputUnit)
  BY ChoiceAssumption DEF Fields
<1>3. all \in Seq(InputUnit) /\ \A m \in h + 1 .. a : all[m] \in AskedUnit
  BY <1>2, StreamType
<1>4. a \in Nat /\ i \in Nat /\ h \in Nat /\ Len(r) \in Nat /\ Len(u) \in Nat
  BY <1>2, <1>3, SizeAssumption DEF HelloOf
<1>5. k = a - Len(u) - Len(r) - i
  BY DEF Taken
<1>6. k >= h /\ c.input[n] = all[k + n]
  BY DEF Aligned, IsAt
<1>. HIDE DEF k, a, i, h, all
<1>7. k + n \in h + 1 .. a
  <2>1. n \in 1 .. i
    BY DEF i
  <2>. QED
    BY <1>4, <1>5, <1>6, <2>1
<1>. QED
  BY <1>3, <1>6, <1>7

\* The requests sent so far are some of the script's.
LEMMA CountType ==
  ASSUME Shape
  PROVE  Count \in 0 .. Len(rx) /\ Count <= ReadSize
<1>1. Len(rx) \in Nat /\ ReadSize \in Nat
  BY SizeAssumption, ReqType
<1>. QED
  BY <1>1, MinOfTwo DEF Count

\* read(): what was in the buffer of the socket is now in the connection's.
LEMMA ReceivedFits ==
  ASSUME Shape, Running(ReadingStates), Reads
  PROVE  /\ Received \in Fields /\ Offsets(Received)
         /\ \A f \in {"state", "line", "req", "request", "nrequests", "https"} : Received[f] = conn[f]
         /\ rx' \in Seq(InputUnit)
         /\ Aligned(script, Received, rx', unsent)
         /\ Taken(script, Received, rx', unsent) = Taken(script, conn, rx, unsent)
         /\ \A n \in 1 .. Len(Received.input) : Received.input[n] \in AskedUnit
<1>. DEFINE all == Stream(script, conn.https)
            k == Taken(script, conn, rx, unsent)
<1>1. /\ conn \in Fields /\ conn.https \in BOOLEAN /\ conn.state \in ReadingStates /\ phase # "closed"
      /\ rx \in Seq(InputUnit) /\ unsent \in Seq(InputUnit) /\ conn.input \in Seq(InputUnit)
      /\ k \in Int /\ all \in Seq(InputUnit) /\ Aligned(script, conn, rx, unsent) /\ Offsets(conn)
      /\ script \in Scripts /\ conn.state # "kHandshaking"
  BY ReqType DEF Running, Shape, ReadingStates
<1>2. CASE ~NeedsInput
  <2>1. Received = conn /\ rx' = rx
    BY <1>2 DEF Received, Reads
  <2>. QED
    BY <1>1, <2>1, InputIsAsked
<1>3. CASE NeedsInput
  <2>. DEFINE drained == conn.https /\ Count < ReadSize
              first == SubSeq(rx, 1, Count)
              rest == SubSeq(rx, Count + 1, Len(rx))
              input == conn.input \o first
              c == [conn EXCEPT !.input = input, !.timerSet = drained, !.readable = ~drained]
  <2>1. Received = c /\ rx' = rest
    BY <1>3 DEF Received, Reads
  <2>2. drained \in BOOLEAN
    BY <1>1
  <2>3. /\ IsAt(conn.input, all, k) /\ IsAt(rx, all, k + Len(conn.input))
        /\ IsAt(unsent, all, k + Len(conn.input) + Len(rx)) /\ k >= HelloOf(conn.https)
    BY <1>1 DEF Aligned
  <2>. HIDE DEF all, k, drained
  <2>4. /\ first \in Seq(InputUnit) /\ Len(first) = Count /\ IsAt(first, all, k + Len(conn.input))
        /\ rest \in Seq(InputUnit) /\ Len(rest) = Len(rx) - Count
        /\ IsAt(rest, all, k + Len(conn.input) + Count)
    <3>1. k + Len(conn.input) \in Int /\ Count \in 0 .. Len(rx)
      BY <1>1, CountType
    <3>. QED
      BY <1>1, <2>3, <3>1, IsAtParts
  <2>. HIDE DEF first, rest
  <2>5. /\ input \in Seq(InputUnit) /\ Len(input) = Len(conn.input) + Count /\ IsAt(input, all, k)
    BY <1>1, <2>3, <2>4, IsAtConcat
  <2>. HIDE DEF input
  <2>6. c \in Fields
    BY <1>1, <2>2, <2>5 DEF Fields
  <2>7. Offsets(c)
    BY <1>1, <1>3 DEF Fields, Offsets, Clean, ReadingStates, NeedsInput, Running
  <2>8. /\ c.https = conn.https /\ c.input = input /\ c.state = conn.state
        /\ \A f \in {"state", "line", "req", "request", "nrequests", "https"} : c[f] = conn[f]
    BY <1>1 DEF Fields
  <2>. HIDE DEF c
  <2>9. Count \in Nat /\ Len(rx) \in Nat /\ Len(conn.input) \in Nat /\ Len(unsent) \in Nat /\ Len(all) \in Nat
    BY <1>1, CountType
  <2>10. Taken(script, c, rest, unsent) = k
    <3>1. k = Len(all) - Len(unsent) - Len(rx) - Len(conn.input)
      BY DEF k, Taken, all
    <3>2. Taken(script, c, rest, unsent)
            = Len(all) - Len(unsent) - (Len(rx) - Count) - (Len(conn.input) + Count)
      BY <2>4, <2>5, <2>8, Zenon DEF Taken, all
    <3>. QED
      BY <2>9, <3>1, <3>2, LengthArithmetic
  <2>11. /\ k + Len(input) = k + Len(conn.input) + Count
         /\ k + Len(input) + Len(rest) = k + Len(conn.input) + Len(rx)
    BY <1>1, <2>4, <2>5, <2>9
  <2>12. Aligned(script, c, rest, unsent)
    BY <1>1, <2>3, <2>4, <2>5, <2>8, <2>10, <2>11 DEF Aligned, all
  <2>13. \A n \in 1 .. Len(c.input) : c.input[n] \in AskedUnit
    BY <1>1, <2>4, <2>6, <2>8, <2>12, InputIsAsked
  <2>. QED
    BY <2>1, <2>4, <2>6, <2>7, <2>8, <2>10, <2>12, <2>13 DEF k
<1>. QED
  BY <1>2, <1>3

\* A parser drops what it has parsed from the buffer.
LEMMA ConsumedFits ==
  ASSUME script \in Scripts, NEW c \in Fields, Offsets(c), c.state # "kHandshaking",
         NEW r \in Seq(InputUnit), NEW u \in Seq(InputUnit),
         Aligned(script, c, r, u), NEW n \in 0 .. Len(c.input)
  PROVE  /\ Consumed(c, n) \in Fields /\ Offsets(Consumed(c, n))
         /\ Consumed(c, n).state = c.state /\ Consumed(c, n).hello = c.hello
         /\ Consumed(c, n).https = c.https
         /\ Len(Consumed(c, n).input) = Len(c.input) - n
         /\ Taken(script, Consumed(c, n), r, u) = Taken(script, c, r, u) + n
         /\ Aligned(script, Consumed(c, n), r, u)
<1>. DEFINE all == Stream(script, c.https)
            k == Taken(script, c, r, u)
            input == SubSeq(c.input, n + 1, Len(c.input))
            d == [c EXCEPT !.input = input]
<1>1. Consumed(c, n) = d
  BY DEF Consumed
<1>2. c.https \in BOOLEAN /\ c.input \in Seq(InputUnit) /\ HelloOf(c.https) \in Nat
  BY ChoiceAssumption, SizeAssumption DEF Fields, HelloOf
<1>3. /\ IsAt(c.input, all, k) /\ IsAt(r, all, k + Len(c.input))
      /\ IsAt(u, all, k + Len(c.input) + Len(r)) /\ k >= HelloOf(c.https)
  BY DEF Aligned
<1>4. all \in Seq(InputUnit)
  BY <1>2, StreamType
<1>5. Len(all) \in Nat /\ Len(r) \in Nat /\ Len(u) \in Nat /\ Len(c.input) \in Nat /\ k \in Int
  BY <1>2, <1>4 DEF Taken
<1>. HIDE DEF all, k
<1>6. input \in Seq(InputUnit) /\ Len(input) = Len(c.input) - n /\ IsAt(input, all, k + n)
  BY <1>2, <1>3, <1>5, IsAtParts, SMTT(30)
<1>. HIDE DEF input
<1>7. d \in Fields
  BY <1>6 DEF Fields
<1>8. Offsets(d)
  BY DEF Fields, Offsets, Clean
<1>9. d.https = c.https /\ d.input = input /\ d.state = c.state /\ d.hello = c.hello
  BY DEF Fields
<1>. HIDE DEF d
<1>10. Taken(script, d, r, u) = k + n
  <2>1. k = Len(all) - Len(u) - Len(r) - Len(c.input)
    BY DEF k, Taken, all
  <2>2. Taken(script, d, r, u) = Len(all) - Len(u) - Len(r) - (Len(c.input) - n)
    BY <1>6, <1>9, Zenon DEF Taken, all
  <2>. QED
    BY <1>5, <2>1, <2>2, LengthArithmetic
<1>11. (k + n) + Len(input) = k + Len(c.input) /\ (k + n) + Len(input) + Len(r) = k + Len(c.input) + Len(r)
  <2>1. n \in Int
    BY <1>5
  <2>2. /\ (k + n) + (Len(c.input) - n) = k + Len(c.input)
        /\ (k + n) + (Len(c.input) - n) + Len(r) = k + Len(c.input) + Len(r)
    <3>. DEFINE a == Len(c.input)
                b == Len(r)
    <3>1. a \in Int /\ b \in Int /\ k \in Int
      BY <1>5
    <3>. HIDE DEF a, b
    <3>2. (k + n) + (a - n) = k + a /\ (k + n) + (a - n) + b = k + a + b
      BY <2>1, <3>1
    <3>. QED
      BY <3>2, Zenon DEF a, b
  <2>. QED
    BY <1>6, <2>2, Zenon
<1>12. k + n >= HelloOf(c.https)
  BY <1>2, <1>3, <1>5
<1>13. Aligned(script, d, r, u)
  BY <1>3, <1>6, <1>9, <1>10, <1>11, <1>12 DEF Aligned, all
<1>. QED
  BY <1>1, <1>6, <1>7, <1>8, <1>9, <1>10, <1>13 DEF k

\* How far a buffer is what was expected.
LEMMA MatchingBound ==
  ASSUME NEW S, NEW T, NEW buffer \in Seq(S), NEW parts \in Seq(T)
  PROVE  LET n == Matching(buffer, parts) IN
         /\ n \in 0 .. Len(buffer) /\ n <= Len(parts)
         /\ \A j \in 1 .. n : buffer[j].part = parts[j]
         /\ n < Len(buffer) /\ n < Len(parts) => buffer[n + 1].part # parts[n + 1]
<1>. DEFINE least == Min({Len(buffer), Len(parts)})
            N == {n \in 0 .. least : \A j \in 1 .. n : buffer[j].part = parts[j]}
            n == Max(N)
<1>1. Len(buffer) \in Nat /\ Len(parts) \in Nat
  OBVIOUS
<1>2. least \in Nat /\ least <= Len(buffer) /\ least <= Len(parts)
      /\ (least = Len(buffer) \/ least = Len(parts))
  BY <1>1, MinOfTwo
<1>. HIDE DEF least
<1>3. N \in SUBSET (0 .. least) /\ 0 \in N
  BY <1>2
<1>4. n \in N /\ \A m \in N : m <= n
  <2>. HIDE DEF N
  <2>. QED
    BY <1>2, <1>3, MaxOfBounded
<1>5. n \in 0 .. least /\ \A j \in 1 .. n : buffer[j].part = parts[j]
  BY <1>4
<1>6. ASSUME n < Len(buffer), n < Len(parts), buffer[n + 1].part = parts[n + 1]
      PROVE  FALSE
  <2>. HIDE DEF n
  <2>1. n + 1 \in 0 .. least
    BY <1>1, <1>2, <1>5, <1>6
  <2>2. \A j \in 1 .. n + 1 : buffer[j].part = parts[j]
    BY <1>1, <1>5, <1>6
  <2>3. n + 1 \in N
    BY <2>1, <2>2
  <2>4. n + 1 <= n /\ n \in Nat
    <3>. HIDE DEF N
    <3>. QED
      BY <1>2, <1>4, <1>5, <2>3
  <2>. QED
    BY <2>4
<1>7. Matching(buffer, parts) = n
  BY DEF Matching, least
<1>. HIDE DEF n
<1>. QED
  BY <1>1, <1>2, <1>5, <1>6, <1>7

-----------------------------------------------------------------------------
\* A turn of the loop in run(), whose new fields fit.
LEMMA TurnKeepsShape ==
  ASSUME Shape, phase = "running", NEW c \in Fields, Offsets(c),
         Continue(c) \/ Return(c),
         rx' \in Seq(InputUnit), Aligned(script, c, rx', unsent),
         tx' \in 0 .. TxSize, nospace' \in BOOLEAN, sent' \in Seq(OutputUnit),
         UNCHANGED <<peer, queued, script, unsent>>
  PROVE  Shape'
<1>1. conn' = c /\ alsoWritable' = alsoWritable /\ phase' \in {"running", "asleep", "returned"}
      /\ (alsoWritable' => phase' \in {"running", "returned"})
  BY DEF Continue, Return
<1>. QED
  BY <1>1 DEF Shape, TypeOK, Fields

\* handshake(): the TLS handshake, or none.
LEMMA HandshakeKeepsShape ==
  ASSUME Shape, Handshake
  PROVE  Shape'
<1>. DEFINE n == Min({conn.hello, Len(rx)})
            c == [conn EXCEPT !.hello = @ - n]
            all == Stream(script, conn.https)
            k == Taken(script, conn, rx, unsent)
            rest == SubSeq(rx, n + 1, Len(rx))
            done == [c EXCEPT !.state = "kReadingRequestLine",
                              !.timerSet = IF conn.https THEN FALSE ELSE @]
            waits == [c EXCEPT !.timerSet = TRUE, !.readable = FALSE]
<1>1. /\ Running({"kHandshaking"}) /\ rx' = rest
      /\ UNCHANGED <<tx, peer, queued, nospace, script, unsent, sent>>
      /\ \/ c.hello = 0 /\ Continue(done)
         \/ c.hello > 0 /\ Return(waits)
         \/ Drop
  BY Zenon DEF Handshake
<1>2. /\ conn \in Fields /\ conn.https \in BOOLEAN /\ conn.state = "kHandshaking" /\ phase = "running"
      /\ rx \in Seq(InputUnit) /\ unsent \in Seq(InputUnit) /\ conn.input = <<>> /\ Len(conn.input) = 0
      /\ k \in Int /\ all \in Seq(InputUnit) /\ Offsets(conn) /\ script \in Scripts
      /\ Aligned(script, conn, rx, unsent) /\ conn.hello \in 0 .. HelloLen /\ HelloLen \in Nat
  BY <1>1, ReqType, SizeAssumption DEF Running, Shape, Fields, Offsets
<1>3. n \in 0 .. Len(rx) /\ n \in 0 .. conn.hello
  <2>1. conn.hello \in Nat /\ Len(rx) \in Nat
    BY <1>2
  <2>. QED
    BY <2>1, MinOfTwo
<1>4. /\ IsAt(rx, all, k + 0) /\ IsAt(unsent, all, k + 0 + Len(rx))
      /\ k + conn.hello = HelloOf(conn.https)
  BY <1>2 DEF Aligned
<1>. HIDE DEF n, all, k
<1>5. rest \in Seq(InputUnit) /\ Len(rest) = Len(rx) - n /\ IsAt(rest, all, k + n)
  BY <1>2, <1>3, <1>4, IsAtParts
<1>. HIDE DEF rest
<1>6. c \in Fields /\ c.hello = conn.hello - n /\ c.hello \in 0 .. HelloLen
      /\ c.https = conn.https /\ c.input = <<>> /\ c.state = "kHandshaking"
  <2>1. conn.hello - n \in 0 .. HelloLen
    BY <1>2, <1>3
  <2>2. c.hello = conn.hello - n /\ c.https = conn.https /\ c.input = <<>> /\ c.state = "kHandshaking"
    BY <1>2 DEF Fields
  <2>3. c \in Fields
    BY <1>2, <2>1 DEF Fields
  <2>. QED
    BY <2>1, <2>2, <2>3
<1>7. Offsets(c)
  <2>1. ~conn.https => conn.hello - n = 0
    BY <1>2, <1>3 DEF Offsets
  <2>. QED
    BY <1>2, <2>1 DEF Fields, Offsets, Clean
<1>8. Taken(script, c, rest, unsent) = k + n
  <2>1. k = Len(all) - Len(unsent) - Len(rx) - 0
    BY <1>2, Zenon DEF k, Taken, all
  <2>2. Taken(script, c, rest, unsent) = Len(all) - Len(unsent) - (Len(rx) - n) - 0
    BY <1>2, <1>5, <1>6, Zenon DEF Taken, all
  <2>3. Len(all) \in Int /\ Len(unsent) \in Int /\ Len(rx) \in Int /\ n \in Int
    BY <1>2, <1>3
  <2>. QED
    BY <2>1, <2>2, <2>3
<1>. HIDE DEF c
<1>9. CASE c.hello = 0 /\ Continue(done)
  <2>1. done \in Fields
    <3>1. "kReadingRequestLine" \in States
      BY DEF States
    <3>. QED
      BY <1>6, <3>1 DEF Fields
  <2>2. Offsets(done)
    BY <1>6, <1>7, <1>9 DEF Fields, Offsets, Clean, ReadingStates, SendingStates, WithOut
  <2>3. done.https = conn.https /\ done.input = <<>> /\ done.state = "kReadingRequestLine"
    BY <1>6 DEF Fields
  <2>. HIDE DEF done
  <2>4. Taken(script, done, rest, unsent) = k + n
    BY <1>6, <1>8, <2>3 DEF Taken
  <2>5. k + n >= HelloOf(conn.https)
    BY <1>2, <1>3, <1>4, <1>6, <1>9
  <2>6. k + n + Len(<<>>) = k + n /\ k + n + Len(<<>>) + Len(rest) = k + 0 + Len(rx)
    BY <1>2, <1>3, <1>5
  <2>7. Aligned(script, done, rest, unsent)
    BY <1>4, <1>5, <2>3, <2>4, <2>5, <2>6 DEF Aligned, IsAt, all
  <2>. QED
    BY <1>1, <1>2, <1>5, <1>9, <2>1, <2>2, <2>7, TurnKeepsShape DEF Shape, TypeOK
<1>10. CASE c.hello > 0 /\ Return(waits)
  <2>1. waits \in Fields
    BY <1>6 DEF Fields
  <2>2. Offsets(waits)
    BY <1>6, <1>7 DEF Fields, Offsets, Clean
  <2>3. waits.https = conn.https /\ waits.input = <<>> /\ waits.state = "kHandshaking" /\ waits.hello = c.hello
    BY <1>6 DEF Fields
  <2>. HIDE DEF waits
  <2>4. Taken(script, waits, rest, unsent) = k + n
    BY <1>6, <1>8, <2>3 DEF Taken
  <2>5. (k + n) + waits.hello = HelloOf(conn.https)
    BY <1>2, <1>3, <1>4, <1>6, <2>3
  <2>6. k + n + Len(<<>>) = k + n /\ k + n + Len(<<>>) + Len(rest) = k + 0 + Len(rx)
    BY <1>2, <1>3, <1>5
  <2>7. Aligned(script, waits, rest, unsent)
    BY <1>4, <1>5, <2>3, <2>4, <2>5, <2>6 DEF Aligned, IsAt, all
  <2>. QED
    BY <1>1, <1>2, <1>5, <1>10, <2>1, <2>2, <2>7, TurnKeepsShape DEF Shape, TypeOK
<1>11. CASE Drop
  BY <1>1, <1>5, <1>11, DropKeepsShape
<1>. QED
  BY <1>1, <1>9, <1>10, <1>11

\* run() returns because there is nothing to read.
LEMMA WaitingKeepsShape ==
  ASSUME Shape, NotReadable \/ ReadsNothing
  PROVE  Shape'
<1>1. PICK c \in {conn, [conn EXCEPT !.timerSet = TRUE, !.readable = FALSE]} : Return(Waiting(c))
  BY DEF NotReadable, ReadsNothing
<1>2. /\ conn \in Fields /\ Offsets(conn) /\ conn.state \in ReadingStates /\ phase = "running"
      /\ Aligned(script, conn, rx, unsent)
      /\ UNCHANGED <<rx, tx, peer, queued, nospace, script, unsent, sent>>
  BY DEF NotReadable, ReadsNothing, NeedsInput, Running, Shape, TypeOK, ReadingStates, kernelVars
<1>3. c \in Fields /\ Offsets(c) /\ c.state = conn.state /\ c.https = conn.https
      /\ c.input = conn.input /\ c.hello = conn.hello
  <2>1. CASE c = conn
    BY <1>2, <2>1
  <2>2. CASE c = [conn EXCEPT !.timerSet = TRUE, !.readable = FALSE]
    <3>1. c \in Fields
      BY <1>2, <2>2 DEF Fields
    <3>. QED
      BY <1>2, <2>2, <3>1 DEF Fields, Offsets, Clean
  <2>. QED
    BY <2>1, <2>2
<1>. DEFINE d == Waiting(c)
<1>4. d \in Fields
  <2>1. "kReadingHeaders" \in States
    BY DEF States
  <2>. QED
    BY <1>3, <2>1 DEF Fields, Waiting
<1>5. Offsets(d)
  BY <1>2, <1>3 DEF Fields, Offsets, Clean, Waiting, ReadingStates, SendingStates, WithOut
<1>6. d.https = c.https /\ d.input = c.input /\ d.hello = c.hello /\ d.state # "kHandshaking"
      /\ c.state # "kHandshaking"
  BY <1>2, <1>3 DEF Fields, Waiting, ReadingStates
<1>. HIDE DEF d
<1>7. Aligned(script, d, rx, unsent)
  BY <1>2, <1>3, <1>6, AlignedMoves
<1>. QED
  BY <1>1, <1>2, <1>4, <1>5, <1>7, TurnKeepsShape DEF Shape, TypeOK, d

\* read() returns false: the connection is dropped.
LEMMA ReadFailsKeepsShape ==
  ASSUME Shape, ReadFails \/ SendFails
  PROVE  Shape'
<1>1. Drop /\ UNCHANGED <<tx, peer, queued, nospace, script, unsent, sent>> /\ rx' = rx
  BY DEF ReadFails, SendFails, kernelVars
<1>. QED
  BY <1>1, DropKeepsShape DEF Shape, TypeOK

\* What a parser expects, and what of it a request line has.
LEMMA ExpectedParts ==
  /\ LineParts \in Seq(Parted) /\ Len(LineParts) = 2
  /\ HeaderParts \in Seq(Parted) /\ Len(HeaderParts) = 2
  /\ \A l \in 0 .. 1 : /\ SubSeq(LineParts, l + 1, 2) \in Seq(Parted)
                       /\ Len(SubSeq(LineParts, l + 1, 2)) = 2 - l
                       /\ \A j \in 1 .. 2 - l : SubSeq(LineParts, l + 1, 2)[j] = LineParts[l + j]
<1>1. LineParts \in Seq(Parted) /\ Len(LineParts) = 2
  BY DEF LineParts, Parted
<1>2. HeaderParts \in Seq(Parted) /\ Len(HeaderParts) = 2
  BY DEF HeaderParts, Parted
<1>3. ASSUME NEW l \in 0 .. 1
      PROVE  /\ SubSeq(LineParts, l + 1, 2) \in Seq(Parted)
             /\ Len(SubSeq(LineParts, l + 1, 2)) = 2 - l
             /\ \A j \in 1 .. 2 - l : SubSeq(LineParts, l + 1, 2)[j] = LineParts[l + j]
  <2>. DEFINE s == LineParts
  <2>0. s \in Seq(Parted) /\ Len(s) = 2 /\ l \in 0 .. Len(s)
    BY <1>1
  <2>. HIDE DEF s
  <2>1. /\ SubSeq(s, l + 1, Len(s)) \in Seq(Parted) /\ Len(SubSeq(s, l + 1, Len(s))) = Len(s) - l
        /\ \A j \in 1 .. Len(s) - l : SubSeq(s, l + 1, Len(s))[j] = s[l + j]
    BY <2>0
  <2>2. /\ SubSeq(s, l + 1, 2) \in Seq(Parted) /\ Len(SubSeq(s, l + 1, 2)) = 2 - l
        /\ \A j \in 1 .. 2 - l : SubSeq(s, l + 1, 2)[j] = s[l + j]
    BY <2>0, <2>1
  <2>. QED
    BY <2>2 DEF s
<1>. QED
  BY <1>1, <1>2, <1>3

\* read_request_line(): the line is incomplete, complete, or wrong.
LEMMA ReadingRequestLineKeepsShape ==
  ASSUME Shape, ReadingRequestLine
  PROVE  Shape'
<1>. DEFINE c == Received
            parts == SubSeq(LineParts, c.line + 1, 2)
            n == Matching(c.input, parts)
            d == Consumed(c, n)
            i == c.input[n + 1].req
            line == [d EXCEPT !.state = "kAfterRequestLine", !.line = 2,
                              !.req = c.input[1].req, !.request = script[c.input[1].req]]
            more == [d EXCEPT !.line = @ + n]
            bad == [d EXCEPT !.state = "kPreparingErrorPage", !.req = i,
                             !.request = IF c.line + n = 0 THEN Garbage ELSE script[i]]
<1>1. /\ Running({"kReadingRequestLine"}) /\ Reads
      /\ \/ n = Len(parts) /\ Continue(line)
         \/ n < Len(parts) /\ n = Len(c.input) /\ Continue(more)
         \/ n < Len(parts) /\ n < Len(c.input) /\ Continue(bad)
      /\ UNCHANGED <<tx, peer, queued, nospace, script, unsent, sent>>
  BY Zenon DEF ReadingRequestLine
<1>2. /\ Running(ReadingStates) /\ conn.state = "kReadingRequestLine" /\ phase = "running"
      /\ script \in Scripts /\ script \in Seq(Request) /\ unsent \in Seq(InputUnit)
      /\ tx \in 0 .. TxSize /\ nospace \in BOOLEAN /\ sent \in Seq(OutputUnit)
  BY <1>1, ReqType DEF Running, ReadingStates, Shape, TypeOK
<1>3. /\ c \in Fields /\ Offsets(c) /\ c.state = "kReadingRequestLine"
      /\ rx' \in Seq(InputUnit) /\ Aligned(script, c, rx', unsent)
      /\ \A m \in 1 .. Len(c.input) : c.input[m] \in AskedUnit
  BY <1>1, <1>2, ReceivedFits
<1>4. c.line \in 0 .. 1 /\ c.input \in Seq(InputUnit)
  <2>1. c.line \in 0 .. Len(LineParts) /\ c.line < 2
    BY <1>3 DEF Fields, Offsets
  <2>2. c.line \in 0 .. 1
    BY <2>1, ExpectedParts
  <2>. QED
    BY <1>3, <2>2 DEF Fields
<1>. HIDE DEF c
<1>5. parts \in Seq(Parted) /\ Len(parts) = 2 - c.line
  BY <1>4, ExpectedParts
<1>. HIDE DEF parts
<1>6. n \in 0 .. Len(c.input) /\ n <= Len(parts)
  BY <1>4, <1>5, MatchingBound
<1>. HIDE DEF n
<1>7. /\ d \in Fields /\ Offsets(d) /\ d.state = "kReadingRequestLine" /\ d.hello = c.hello
      /\ Aligned(script, d, rx', unsent)
  BY <1>2, <1>3, <1>6, ConsumedFits
<1>8. d.line = c.line
  BY <1>3 DEF Consumed, Fields
<1>9. \A m \in 1 .. Len(c.input) :
        c.input[m].req \in 0 .. Len(script) /\ script[c.input[m].req] \in Request
  BY <1>2, <1>3 DEF AskedUnit
<1>. HIDE DEF d
<1>10. CASE n = Len(parts) /\ Continue(line)
  <2>1. 1 \in 1 .. Len(c.input)
    BY <1>4, <1>5, <1>6, <1>10
  <2>2. line \in Fields
    <3>1. "kAfterRequestLine" \in States /\ 2 \in 0 .. Len(LineParts)
      BY ExpectedParts DEF States
    <3>. QED
      BY <1>7, <1>9, <2>1, <3>1 DEF Fields
  <2>3. Offsets(line)
    BY <1>7 DEF Fields, Offsets, Clean, ReadingStates, SendingStates, WithOut
  <2>4. line.https = d.https /\ line.input = d.input /\ line.hello = d.hello /\ line.state # "kHandshaking"
    BY <1>7 DEF Fields
  <2>. HIDE DEF line
  <2>5. Aligned(script, line, rx', unsent)
    BY <1>7, <2>4, AlignedMoves
  <2>. QED
    BY <1>1, <1>2, <1>3, <1>10, <2>2, <2>3, <2>5, TurnKeepsShape
<1>11. CASE n < Len(parts) /\ n = Len(c.input) /\ Continue(more)
  <2>1. c.line + n \in 0 .. 1
    BY <1>4, <1>5, <1>6, <1>11
  <2>2. more \in Fields /\ more.line = c.line + n
    <3>1. c.line + n \in 0 .. Len(LineParts)
      BY <2>1, ExpectedParts
    <3>. QED
      BY <1>7, <1>8, <3>1 DEF Fields
  <2>3. Offsets(more)
    <3>1. more.line < 2
      BY <2>1, <2>2
    <3>2. \A f \in DOMAIN d \ {"line"} : more[f] = d[f]
      OBVIOUS
    <3>. HIDE DEF more
    <3>. QED
      BY <1>7, <2>2, <3>1, <3>2, SMTT(90) DEF Fields, Offsets, Clean, ReadingStates, SendingStates, WithOut
  <2>4. more.https = d.https /\ more.input = d.input /\ more.hello = d.hello /\ more.state = d.state
    BY <1>7 DEF Fields
  <2>. HIDE DEF more
  <2>5. Aligned(script, more, rx', unsent)
    BY <1>7, <2>4, AlignedMoves
  <2>. QED
    BY <1>1, <1>2, <1>3, <1>11, <2>2, <2>3, <2>5, TurnKeepsShape
<1>12. CASE n < Len(parts) /\ n < Len(c.input) /\ Continue(bad)
  <2>1. n + 1 \in 1 .. Len(c.input)
    BY <1>4, <1>6, <1>12
  <2>2. bad \in Fields
    <3>1. "kPreparingErrorPage" \in States /\ Garbage \in Request
      BY DEF States, Garbage, Request
    <3>2. i \in 0 .. Len(script) /\ script[i] \in Request
      BY <1>9, <2>1
    <3>. QED
      BY <1>7, <3>1, <3>2 DEF Fields
  <2>3. Offsets(bad)
    BY <1>7 DEF Fields, Offsets, Clean, ReadingStates, SendingStates, WithOut
  <2>4. bad.https = d.https /\ bad.input = d.input /\ bad.hello = d.hello /\ bad.state # "kHandshaking"
    BY <1>7 DEF Fields
  <2>. HIDE DEF bad
  <2>5. Aligned(script, bad, rx', unsent)
    BY <1>7, <2>4, AlignedMoves
  <2>. QED
    BY <1>1, <1>2, <1>3, <1>12, <2>2, <2>3, <2>5, TurnKeepsShape
<1>. QED
  BY <1>1, <1>10, <1>11, <1>12

\* read_headers(): the headers are incomplete, complete, or wrong.
LEMMA ReadingHeadersKeepsShape ==
  ASSUME Shape, ReadingHeaders
  PROVE  Shape'
<1>. DEFINE c == Received
            n == Matching(c.input, HeaderParts)
            d == Consumed(c, 2)
            complete == [d EXCEPT !.state = "kProcessingRequest"]
            more == [c EXCEPT !.state = "kReadingHeaders"]
            bad == [c EXCEPT !.state = "kPreparingErrorPage"]
<1>1. /\ Running({"kAfterRequestLine", "kReadingHeaders"}) /\ Reads
      /\ \/ n = 2 /\ Continue(complete)
         \/ n < 2 /\ n = Len(c.input) /\ Continue(more)
         \/ n < 2 /\ n < Len(c.input) /\ Continue(bad)
      /\ UNCHANGED <<tx, peer, queued, nospace, script, unsent, sent>>
  BY Zenon DEF ReadingHeaders
<1>2. /\ Running(ReadingStates) /\ conn.state \in {"kAfterRequestLine", "kReadingHeaders"} /\ phase = "running"
      /\ script \in Scripts /\ script \in Seq(Request) /\ unsent \in Seq(InputUnit)
      /\ tx \in 0 .. TxSize /\ nospace \in BOOLEAN /\ sent \in Seq(OutputUnit)
  BY <1>1, ReqType DEF Running, ReadingStates, Shape, TypeOK
<1>3. /\ c \in Fields /\ Offsets(c) /\ c.state \in {"kAfterRequestLine", "kReadingHeaders"}
      /\ rx' \in Seq(InputUnit) /\ Aligned(script, c, rx', unsent) /\ c.input \in Seq(InputUnit)
  BY <1>1, <1>2, ReceivedFits DEF Fields
<1>. HIDE DEF c
<1>4. n \in 0 .. Len(c.input)
  BY <1>3, ExpectedParts, MatchingBound
<1>. HIDE DEF n
<1>5. "kProcessingRequest" \in States /\ "kReadingHeaders" \in States /\ "kPreparingErrorPage" \in States
  BY DEF States
<1>6. CASE n = 2 /\ Continue(complete)
  <2>0. 2 \in 0 .. Len(c.input)
    BY <1>4, <1>6
  <2>1. /\ d \in Fields /\ Offsets(d) /\ d.state = c.state /\ d.hello = c.hello
        /\ Aligned(script, d, rx', unsent)
    BY <1>2, <1>3, <2>0, ConsumedFits
  <2>. HIDE DEF d
  <2>2. complete \in Fields
    BY <1>5, <2>1 DEF Fields
  <2>3. Offsets(complete)
    BY <1>3, <2>1 DEF Fields, Offsets, Clean, ReadingStates, SendingStates, WithOut
  <2>4. complete.https = d.https /\ complete.input = d.input /\ complete.hello = d.hello
        /\ complete.state # "kHandshaking" /\ d.state # "kHandshaking"
    BY <1>3, <2>1 DEF Fields
  <2>. HIDE DEF complete
  <2>5. Aligned(script, complete, rx', unsent)
    BY <2>1, <2>4, AlignedMoves
  <2>. QED
    BY <1>1, <1>2, <1>3, <1>6, <2>2, <2>3, <2>5, TurnKeepsShape
<1>7. ASSUME NEW e \in {more, bad}, Continue(e)
      PROVE  Shape'
  <2>1. e \in Fields
    <3>1. more \in Fields
      BY <1>3, <1>5 DEF Fields
    <3>2. bad \in Fields
      BY <1>3, <1>5 DEF Fields
    <3>. QED
      BY <3>1, <3>2
  <2>2. Offsets(e)
    <3>1. Offsets(more)
      BY <1>3 DEF Fields, Offsets, Clean, ReadingStates, SendingStates, WithOut
    <3>2. Offsets(bad)
      BY <1>3 DEF Fields, Offsets, Clean, ReadingStates, SendingStates, WithOut
    <3>. QED
      BY <3>1, <3>2
  <2>3. e.https = c.https /\ e.input = c.input /\ e.hello = c.hello
        /\ e.state # "kHandshaking" /\ c.state # "kHandshaking"
    BY <1>3 DEF Fields
  <2>4. Aligned(script, e, rx', unsent)
    BY <1>3, <2>3, AlignedMoves
  <2>. QED
    BY <1>1, <1>2, <1>3, <1>7, <2>1, <2>2, <2>4, TurnKeepsShape
<1>. QED
  BY <1>1, <1>6, <1>7

-----------------------------------------------------------------------------
(* Writing to the socket.                                                  *)

\* A write goes on where the one before it stopped: what it pushes are the
\* units from the record's offset on, as many as there is room for.
LEMMA WriteFits ==
  ASSUME NEW units \in Seq(OutputUnit), NEW whole \in BOOLEAN,
         conn.record \in 0 .. Len(units), ~whole => conn.record = 0, tx \in 0 .. TxSize
  PROVE  LET w == Write(units, whole) IN
         /\ w.pushed \in Seq(OutputUnit) /\ w.blocked \in BOOLEAN
         /\ w.count \in 0 .. Len(units) /\ w.record \in 0 .. Len(units)
         /\ w.count + w.record \in conn.record .. Len(units)
         /\ w.pushed = SubSeq(units, conn.record + 1, w.count + w.record)
         /\ ~w.blocked <=> w.count = Len(units)
         /\ ~whole \/ ~w.blocked => w.record = 0
         /\ tx + Len(w.pushed) \in 0 .. TxSize
         /\ w.blocked => tx + Len(w.pushed) = TxSize
<1>. DEFINE w == Write(units, whole)
            l == Len(units)
            d == IF whole THEN conn.record ELSE 0
            n == Min({l - d, TxSize - tx})
            count == IF ~whole THEN n ELSE IF n < l - d THEN 0 ELSE l
            record == IF whole /\ n < l - d THEN d + n ELSE 0
<1>1. /\ w.pushed = SubSeq(units, d + 1, d + n) /\ w.blocked = (n < l - d)
      /\ w.count = count /\ w.record = record
  BY DEF Write
<1>2. l \in Nat /\ TxSize \in Nat /\ d = conn.record /\ d \in 0 .. l
  BY SizeAssumption
<1>. HIDE DEF w, d
<1>3. /\ n \in Nat /\ n <= l - d /\ n <= TxSize - tx
      /\ n < l - d => n = TxSize - tx
  <2>1. l - d \in Nat /\ TxSize - tx \in Nat
    BY <1>2
  <2>. QED
    BY <2>1, MinOfTwo
<1>. HIDE DEF n
<1>4. /\ count \in 0 .. l /\ record \in 0 .. l
      /\ count + record = d + n /\ count + record \in d .. l
      /\ ~(n < l - d) <=> count = l
      /\ ~whole \/ ~(n < l - d) => record = 0
  <2>1. ~whole => d = 0
    BY <1>2
  <2>2. /\ count = IF ~whole THEN n ELSE IF n < l - d THEN 0 ELSE l
        /\ record = IF whole /\ n < l - d THEN d + n ELSE 0
    OBVIOUS
  <2>. HIDE DEF l, count, record
  <2>. QED
    BY <1>2, <1>3, <2>1, <2>2, SMTT(30)
<1>. HIDE DEF count, record
<1>5. SubSeq(units, d + 1, d + n) \in Seq(OutputUnit) /\ Len(SubSeq(units, d + 1, d + n)) = (d + n) - d
  <2>1. d \in Nat /\ d + n \in Nat /\ d <= d + n /\ d + n <= l
    BY <1>2, <1>3
  <2>. QED
    BY <2>1, Stretch DEF l
<1>6. (d + n) - d = n /\ tx + n \in 0 .. TxSize /\ (n < l - d => tx + n = TxSize)
  BY <1>2, <1>3
<1>7. Len(w.pushed) = n /\ w.pushed \in Seq(OutputUnit)
      /\ w.pushed = SubSeq(units, conn.record + 1, w.count + w.record)
  BY <1>1, <1>2, <1>4, <1>5, <1>6, Zenon
<1>8. w.blocked \in BOOLEAN
  BY <1>1
<1>. QED
  BY <1>1, <1>2, <1>4, <1>6, <1>7, <1>8, Zenon DEF w, l

\* The connection after the write.
LEMMA AfterFits ==
  ASSUME conn \in Fields, NEW w, w.count \in Nat, w.record \in Nat, w.blocked \in BOOLEAN
  PROVE  /\ After(w) \in Fields
         /\ After(w).outp = conn.outp + w.count /\ After(w).record = w.record
         /\ \A f \in DOMAIN conn \ {"outp", "record", "writable", "timerSet"} : After(w)[f] = conn[f]
<1>1. conn.outp + w.count \in Nat /\ conn.outp \in Nat /\ DOMAIN After(w) = DOMAIN conn
  BY SMTT(30) DEF Fields, After
<1>2. After(w) \in Fields
  BY <1>1 DEF Fields, After
<1>3. After(w).outp = conn.outp + w.count /\ After(w).record = w.record
  BY DEF Fields, After
<1>4. \A f \in DOMAIN conn \ {"outp", "record", "writable", "timerSet"} : After(w)[f] = conn[f]
  BY DEF After
<1>. QED
  BY <1>2, <1>3, <1>4

\* What is left of a buffer of the connection is written from where the last
\* write stopped to where this one stops.
LEMMA BufferWrite ==
  ASSUME Shape, NEW units \in Seq(OutputUnit), conn.outp + conn.record <= Len(units)
  PROVE  LET w == Write(Rest(units), conn.https)
             c == After(w)
         IN /\ w.pushed \in Seq(OutputUnit) /\ w.blocked \in BOOLEAN
            /\ c \in Fields /\ c.outp + c.record \in conn.outp + conn.record .. Len(units)
            /\ c.outp = Len(units) \/ ~c.https => c.record = 0
            /\ ~w.blocked <=> c.outp = Len(units)
            /\ w.pushed = SubSeq(units, conn.outp + conn.record + 1, c.outp + c.record)
            /\ \A f \in DOMAIN conn \ {"outp", "record", "writable", "timerSet"} : c[f] = conn[f]
            /\ tx + Len(w.pushed) \in 0 .. TxSize
            /\ w.blocked => tx + Len(w.pushed) = TxSize
<1>. DEFINE rest == Rest(units)
            w == Write(rest, conn.https)
            c == After(w)
            o == conn.outp
            r == conn.record
            l == Len(units)
<1>1. /\ conn \in Fields /\ conn.https \in BOOLEAN /\ o \in Nat /\ r \in Nat
      /\ (~conn.https => r = 0) /\ tx \in 0 .. TxSize
  BY ReqType DEF Shape, TypeOK, Fields, Offsets
<1>2. l \in Nat /\ o \in 0 .. l /\ o + r <= l
  BY <1>1
<1>3. /\ rest \in Seq(OutputUnit) /\ Len(rest) = l - o
      /\ \A i \in 1 .. l - o : rest[i] = units[o + i]
  <2>1. rest = SubSeq(units, o + 1, l)
    BY DEF Rest
  <2>. HIDE DEF rest, o
  <2>. QED
    BY <1>2, <2>1
<1>. HIDE DEF rest, l
<1>4. r \in 0 .. Len(rest)
  BY <1>1, <1>2, <1>3
<1>5. /\ w.pushed \in Seq(OutputUnit) /\ w.blocked \in BOOLEAN
      /\ w.count \in 0 .. Len(rest) /\ w.record \in 0 .. Len(rest)
      /\ w.count + w.record \in r .. Len(rest)
      /\ w.pushed = SubSeq(rest, r + 1, w.count + w.record)
      /\ (~w.blocked <=> w.count = Len(rest))
      /\ (~conn.https \/ ~w.blocked => w.record = 0)
      /\ tx + Len(w.pushed) \in 0 .. TxSize
      /\ (w.blocked => tx + Len(w.pushed) = TxSize)
  BY <1>1, <1>3, <1>4, WriteFits
<1>. HIDE DEF w
<1>6. w.count \in Nat /\ w.record \in Nat /\ w.count + w.record <= l - o /\ w.count + w.record >= r
  BY <1>1, <1>2, <1>3, <1>5
<1>7. /\ c \in Fields /\ c.outp = o + w.count /\ c.record = w.record
      /\ \A f \in DOMAIN conn \ {"outp", "record", "writable", "timerSet"} : c[f] = conn[f]
  BY <1>1, <1>5, <1>6, AfterFits
<1>8. c.https = conn.https
  BY <1>1, <1>7 DEF Fields
<1>. HIDE DEF c
<1>9. /\ c.outp + c.record = o + (w.count + w.record)
      /\ c.outp + c.record \in o + r .. l
      /\ (c.outp = l <=> w.count = Len(rest))
  <2>. DEFINE m == w.count
              k == w.record
  <2>1. /\ m \in Nat /\ k \in Nat /\ m + k <= l - o /\ m + k >= r /\ c.outp = o + m /\ c.record = k
        /\ o \in Nat /\ r \in Nat /\ l \in Nat
    BY <1>1, <1>2, <1>6, <1>7
  <2>. HIDE DEF o, r, m, k
  <2>2. /\ (o + m) + k = o + (m + k) /\ (o + m) + k \in o + r .. l
        /\ (o + m = l <=> m = l - o)
    BY <2>1
  <2>. QED
    BY <1>3, <2>1, <2>2, Zenon DEF m, k
<1>10. w.pushed = SubSeq(units, o + r + 1, c.outp + c.record)
  <2>. DEFINE m == w.count + w.record
  <2>1. m \in Nat /\ r \in Nat /\ o \in Nat /\ r <= m /\ o + m <= l
    <3>1. m >= r /\ m <= l - o /\ m \in Int
      BY <1>6
    <3>. HIDE DEF m, o, r
    <3>. QED
      BY <1>1, <1>2, <3>1
  <2>2. rest = SubSeq(units, o + 1, Len(units))
    BY DEF Rest, rest
  <2>. HIDE DEF m, o, r
  <2>3. SubSeq(SubSeq(units, o + 1, Len(units)), r + 1, m) = SubSeq(units, (o + r) + 1, o + m)
    BY <2>1, StretchOfRest DEF l
  <2>. QED
    BY <1>5, <1>9, <2>2, <2>3, Zenon DEF m
<1>11. (c.outp = l \/ ~c.https => c.record = 0) /\ (~w.blocked <=> c.outp = l)
  BY <1>5, <1>7, <1>8, <1>9
<1>. QED
  BY <1>5, <1>7, <1>9, <1>10, <1>11, Zenon DEF w, c, rest, l

\* What every write does besides.
LEMMA SendsFits ==
  ASSUME Shape, NEW state, NEW w, w.pushed \in Seq(OutputUnit), w.blocked \in BOOLEAN,
         tx + Len(w.pushed) \in 0 .. TxSize, Sends(state, w)
  PROVE  /\ phase = "running" /\ conn.state = state /\ conn.writable
         /\ rx' = rx /\ rx' \in Seq(InputUnit)
         /\ tx' \in 0 .. TxSize /\ nospace' \in BOOLEAN /\ sent' \in Seq(OutputUnit)
         /\ UNCHANGED <<peer, queued, script, unsent>>
<1>1. /\ phase = "running" /\ conn.state = state /\ conn.writable /\ rx' = rx
      /\ tx' = tx + Len(w.pushed) /\ nospace' = (nospace \/ w.blocked) /\ sent' = sent \o w.pushed
      /\ UNCHANGED <<peer, queued, script, unsent>>
  BY DEF Sends, Running
<1>2. rx \in Seq(InputUnit) /\ nospace \in BOOLEAN /\ sent \in Seq(OutputUnit)
  BY DEF Shape, TypeOK
<1>. QED
  BY <1>1, <1>2, ConcatProperties

\* The pieces of a reply.
LEMMA PieceTypes ==
  ASSUME NEW i \in Nat
  PROVE  /\ \A keep \in BOOLEAN : P!Opening(i, keep) \in Seq(OutputUnit) /\ Len(P!Opening(i, keep)) = 1
         /\ \A n \in Nat : P!Part(i, n) \in Seq(OutputUnit) /\ Len(P!Part(i, n)) = 1
         /\ P!Footer(i) \in Seq(OutputUnit) /\ Len(P!Footer(i)) = 1
         /\ P!Page(i) \in Seq(OutputUnit) /\ Len(P!Page(i)) = 1
         /\ \A from \in Nat, to \in Int :
              /\ P!Bytes(i, from, to) \in Seq(OutputUnit)
              /\ Len(P!Bytes(i, from, to)) = IF from <= to THEN to - from + 1 ELSE 0
<1>1. \A keep \in BOOLEAN : [req |-> i, item |-> IF keep THEN "keep-alive" ELSE "close", at |-> 0] \in OutputUnit
  BY DEF OutputUnit
<1>2. \A n \in Nat : [req |-> i, item |-> "part", at |-> n] \in OutputUnit
  BY DEF OutputUnit
<1>3. /\ [req |-> i, item |-> "footer", at |-> 0] \in OutputUnit
      /\ [req |-> i, item |-> "page", at |-> 0] \in OutputUnit
  BY DEF OutputUnit
<1>4. \A u \in OutputUnit : <<u>> \in Seq(OutputUnit) /\ Len(<<u>>) = 1
  OBVIOUS
<1>5. ASSUME NEW from \in Nat, NEW to \in Int
      PROVE  /\ P!Bytes(i, from, to) \in Seq(OutputUnit)
             /\ Len(P!Bytes(i, from, to)) = IF from <= to THEN to - from + 1 ELSE 0
  <2>. DEFINE l == IF from <= to THEN to - from + 1 ELSE 0
              b == P!Bytes(i, from, to)
  <2>1. l \in Nat /\ 1 .. to - from + 1 = 1 .. l
    OBVIOUS
  <2>2. \A n \in 1 .. l : [req |-> i, item |-> "byte", at |-> from + n - 1] \in OutputUnit
    BY <2>1 DEF OutputUnit
  <2>3. b = [n \in 1 .. l |-> [req |-> i, item |-> "byte", at |-> from + n - 1]]
    BY <2>1 DEF P!Bytes
  <2>. HIDE DEF l
  <2>4. b \in [1 .. l -> OutputUnit]
    BY <2>2, <2>3
  <2>5. b \in Seq(OutputUnit) /\ Len(b) = l
    <3>. HIDE DEF b
    <3>. QED
      BY <2>1, <2>4
  <2>. QED
    BY <2>5 DEF l
<1>6. \A keep \in BOOLEAN : P!Opening(i, keep) \in Seq(OutputUnit) /\ Len(P!Opening(i, keep)) = 1
  <2>1. SUFFICES ASSUME NEW keep \in BOOLEAN
                 PROVE  P!Opening(i, keep) \in Seq(OutputUnit) /\ Len(P!Opening(i, keep)) = 1
    OBVIOUS
  <2>. DEFINE u == [req |-> i, item |-> IF keep THEN "keep-alive" ELSE "close", at |-> 0]
  <2>2. u \in OutputUnit
    BY <1>1
  <2>3. P!Opening(i, keep) = <<u>>
    BY DEF P!Opening
  <2>. HIDE DEF u
  <2>. QED
    BY <1>4, <2>2, <2>3
<1>7. \A n \in Nat : P!Part(i, n) \in Seq(OutputUnit) /\ Len(P!Part(i, n)) = 1
  BY <1>2, <1>4 DEF P!Part
<1>8. /\ P!Footer(i) \in Seq(OutputUnit) /\ Len(P!Footer(i)) = 1
      /\ P!Page(i) \in Seq(OutputUnit) /\ Len(P!Page(i)) = 1
  BY <1>3, <1>4 DEF P!Footer, P!Page
<1>. QED
  BY <1>5, <1>6, <1>7, <1>8

-----------------------------------------------------------------------------
(* The reply.                                                              *)

\* The headers of a reply, with what goes with them.
LEMMA PreparedFits ==
  ASSUME NEW c \in Fields, c.out = <<>>, c.nrequests < MaxRequests,
         NEW more \in Seq(OutputUnit), NEW body \in Seq(OutputUnit), NEW state \in States
  PROVE  LET d == Prepared(c, more, body, state) IN
         /\ d \in Fields /\ d.state = state /\ d.body = body
         /\ d.nrequests = c.nrequests + 1
         /\ d.keepAlive = (c.nrequests + 1 # MaxRequests /\ c.request.keep)
         /\ d.keepAlive => d.nrequests < MaxRequests
         /\ d.out = P!Opening(c.req, d.keepAlive) \o more
         /\ \A f \in DOMAIN c \ {"nrequests", "keepAlive", "out", "body", "state"} : d[f] = c[f]
<1>. DEFINE keep == c.nrequests + 1 # MaxRequests /\ c.request.keep
            e == [c EXCEPT !.nrequests = @ + 1, !.keepAlive = keep]
            out == e.out \o P!Opening(e.req, e.keepAlive) \o more
            d == [e EXCEPT !.out = out, !.body = body, !.state = state]
<1>1. Prepared(c, more, body, state) = d
  BY DEF Prepared, AddCommonHeaders
<1>2. /\ c.nrequests + 1 \in 0 .. MaxRequests /\ keep \in BOOLEAN /\ c.req \in Nat
      /\ c.nrequests + 1 # MaxRequests => c.nrequests + 1 < MaxRequests
  <2>1. c.nrequests \in 0 .. MaxRequests /\ MaxRequests \in Nat /\ c.req \in 0 .. Len(script)
    BY SizeAssumption DEF Fields
  <2>. QED
    BY <2>1
<1>3. e \in Fields /\ e.nrequests = c.nrequests + 1 /\ e.keepAlive = keep /\ e.req = c.req /\ e.out = <<>>
  BY <1>2 DEF Fields
<1>4. \A f \in DOMAIN c \ {"nrequests", "keepAlive"} : e[f] = c[f]
  OBVIOUS
<1>5. P!Opening(c.req, keep) \in Seq(OutputUnit)
  BY <1>2, PieceTypes
<1>6. DOMAIN e = DOMAIN c
  OBVIOUS
<1>. HIDE DEF e
<1>7. out = P!Opening(c.req, keep) \o more /\ out \in Seq(OutputUnit)
  <2>. DEFINE o == P!Opening(c.req, keep)
  <2>1. out = <<>> \o o \o more
    BY <1>3
  <2>. HIDE DEF o
  <2>2. o \in Seq(OutputUnit)
    BY <1>5 DEF o
  <2>3. <<>> \o o = o /\ o \o more \in Seq(OutputUnit)
    BY <2>2
  <2>. QED
    BY <2>1, <2>3 DEF o
<1>. HIDE DEF out
<1>8. d \in Fields
  BY <1>3, <1>7 DEF Fields
<1>9. d.out = out /\ d.body = body /\ d.state = state /\ d.keepAlive = keep /\ d.nrequests = c.nrequests + 1
  BY <1>3 DEF Fields
<1>10. \A f \in DOMAIN c \ {"nrequests", "keepAlive", "out", "body", "state"} : d[f] = c[f]
  BY <1>4, <1>6
<1>. HIDE DEF d
<1>. QED
  BY <1>1, <1>2, <1>7, <1>8, <1>9, <1>10

\* A reply begins: its headers are in the buffer, nothing has been written.
LEMMA ReplyBegins ==
  ASSUME Shape, phase = "running", conn.state \in {"kProcessingRequest", "kPreparingErrorPage"},
         NEW c \in Fields, \A f \in DOMAIN conn \ {"file", "corked"} : c[f] = conn[f],
         NEW more \in Seq(OutputUnit), NEW body \in Seq(OutputUnit),
         NEW state \in {"kSendingTwoBuffers", "kSendingHeaders"},
         c.corked => state = "kSendingHeaders" /\ ~c.request.head /\ c.request.answer # "empty",
         Continue(Prepared(c, more, body, state)),
         UNCHANGED <<kernelVars, script, unsent, sent>>
  PROVE  Shape'
<1>. DEFINE d == Prepared(c, more, body, state)
<1>1. conn \in Fields /\ Offsets(conn) /\ Clean(conn) /\ conn.nrequests < MaxRequests /\ conn.hello = 0
  BY DEF Shape, TypeOK, Offsets
<1>2. /\ c.out = <<>> /\ c.outp = 0 /\ c.record = 0 /\ c.nrange = 0
      /\ c.nrequests < MaxRequests /\ c.hello = 0 /\ c.https = conn.https /\ c.input = conn.input
      /\ c.state = conn.state
  BY <1>1 DEF Fields, Clean
<1>3. state \in States /\ state \in SendingStates
  BY DEF States, SendingStates
<1>4. /\ d \in Fields /\ d.state = state /\ (d.keepAlive => d.nrequests < MaxRequests)
      /\ \A f \in DOMAIN c \ {"nrequests", "keepAlive", "out", "body", "state"} : d[f] = c[f]
  BY <1>2, <1>3, PreparedFits
<1>. HIDE DEF d
<1>5. /\ d.outp = 0 /\ d.record = 0 /\ d.nrange = 0 /\ d.hello = 0 /\ d.https = conn.https
      /\ d.input = conn.input /\ d.corked = c.corked /\ d.request = c.request
  BY <1>2, <1>4, ZenonT(60) DEF Fields
<1>6. d.outp + d.record <= Len(d.out) + Len(d.body) /\ d.outp + d.record <= Len(d.out)
  <2>1. d.out \in Seq(OutputUnit) /\ d.body \in Seq(OutputUnit)
    BY <1>4 DEF Fields
  <2>. DEFINE a == Len(d.out)
              b == Len(d.body)
  <2>2. a \in Nat /\ b \in Nat
    BY <2>1
  <2>. HIDE DEF a, b
  <2>3. 0 + 0 <= a + b /\ 0 + 0 <= a
    BY <2>2
  <2>. QED
    BY <1>5, <2>3, Zenon DEF a, b
<1>7. Offsets(d)
  <2>1. /\ d.state \in {"kSendingTwoBuffers", "kSendingHeaders"} /\ d.hello = 0
        /\ (~d.https => d.record = 0)
        /\ (d.keepAlive => d.nrequests < MaxRequests)
        /\ (d.state = "kSendingTwoBuffers" => ~d.corked)
        /\ (d.corked => ~d.request.head /\ d.request.answer # "empty")
    BY <1>4, <1>5
  <2>. QED
    BY <1>5, <1>6, <2>1 DEF Offsets, ReadingStates, SendingStates, WithOut
<1>8. Aligned(script, conn, rx, unsent) /\ (d.state = "kHandshaking" <=> conn.state = "kHandshaking")
      /\ d.hello = conn.hello
  BY <1>1, <1>4, <1>5 DEF Shape
<1>9. Aligned(script, d, rx, unsent)
  BY <1>5, <1>8, AlignedMoves
<1>. QED
  BY <1>4, <1>7, <1>9, TurnKeepsShape DEF Shape, TypeOK, kernelVars, d

\* process_request(): which reply it is going to be.
LEMMA ProcessRequestKeepsShape ==
  ASSUME Shape, ProcessRequest
  PROVE  Shape'
<1>. DEFINE answer == conn.request.answer
            get == ~conn.request.head
            file == get /\ answer \in {"file", "unchanged", "unsatisfiable"}
            opened == [conn EXCEPT !.file = file]
            several == get /\ Len(conn.request.ranges) > 1
            failed == [opened EXCEPT !.state = "kPreparingErrorPage"]
            corked == [opened EXCEPT !.corked = opened.file]
            more == IF several THEN P!Part(conn.req, 1) ELSE <<>>
<1>1. /\ Running({"kProcessingRequest"}) /\ UNCHANGED <<kernelVars, script, unsent, sent>>
      /\ \/ Continue(failed)
         \/ answer = "listing" /\ Continue(Prepared(conn, <<>>, P!Page(conn.req),
              IF get THEN "kSendingTwoBuffers" ELSE "kSendingHeaders"))
         \/ answer \in {"file", "empty"} /\ Continue(Prepared(corked, more, <<>>, "kSendingHeaders"))
  BY Zenon DEF ProcessRequest
<1>2. /\ conn \in Fields /\ Offsets(conn) /\ conn.state = "kProcessingRequest" /\ phase = "running"
      /\ Clean(conn) /\ conn.nrequests < MaxRequests /\ conn.hello = 0
      /\ Aligned(script, conn, rx, unsent)
  BY <1>1 DEF Running, Shape, TypeOK, Offsets
<1>3. conn.req \in Nat /\ conn.request.head \in BOOLEAN
  <2>1. conn.req \in 0 .. Len(script) /\ conn.request \in Request
    BY <1>2 DEF Fields
  <2>. QED
    BY <2>1 DEF Request
<1>4. opened \in Fields /\ opened.file = file /\ (\A f \in DOMAIN conn \ {"file"} : opened[f] = conn[f])
      /\ DOMAIN opened = DOMAIN conn
  <2>1. file \in BOOLEAN
    BY <1>3
  <2>2. (\A f \in DOMAIN conn \ {"file"} : opened[f] = conn[f]) /\ DOMAIN opened = DOMAIN conn
    OBVIOUS
  <2>. HIDE DEF file
  <2>3. opened \in Fields /\ opened.file = file
    BY <1>2, <2>1, ZenonT(60) DEF Fields
  <2>. QED
    BY <2>2, <2>3
<1>. HIDE DEF opened
<1>5. CASE Continue(failed)
  <2>1. failed \in Fields
    <3>1. "kPreparingErrorPage" \in States
      BY DEF States
    <3>. QED
      BY <1>4, <3>1 DEF Fields
  <2>2. /\ failed.state = "kPreparingErrorPage"
        /\ \A f \in DOMAIN conn \ {"file", "state"} : failed[f] = conn[f]
    BY <1>4 DEF Fields
  <2>. HIDE DEF failed
  <2>3. /\ failed.https = conn.https /\ failed.input = conn.input /\ failed.hello = conn.hello
        /\ failed.out = conn.out /\ failed.body = conn.body /\ failed.outp = conn.outp
        /\ failed.nrange = conn.nrange /\ failed.record = conn.record /\ failed.corked = conn.corked
        /\ failed.nrequests = conn.nrequests
    BY <1>2, <2>2 DEF Fields
  <2>4. Offsets(failed)
    BY <1>2, <2>2, <2>3 DEF Offsets, Clean, ReadingStates, SendingStates, WithOut
  <2>5. Aligned(script, failed, rx, unsent)
    BY <1>2, <2>2, <2>3, AlignedMoves
  <2>. QED
    BY <1>1, <1>2, <1>5, <2>1, <2>4, <2>5, TurnKeepsShape DEF Shape, TypeOK, kernelVars
<1>6. CASE answer = "listing" /\ Continue(Prepared(conn, <<>>, P!Page(conn.req),
              IF get THEN "kSendingTwoBuffers" ELSE "kSendingHeaders"))
  <2>. DEFINE state == IF get THEN "kSendingTwoBuffers" ELSE "kSendingHeaders"
              body == P!Page(conn.req)
  <2>1. state \in {"kSendingTwoBuffers", "kSendingHeaders"} /\ ~conn.corked
        /\ body \in Seq(OutputUnit) /\ <<>> \in Seq(OutputUnit)
    BY <1>2, <1>3, PieceTypes DEF Clean
  <2>2. Continue(Prepared(conn, <<>>, body, state))
    BY <1>6
  <2>. HIDE DEF state, body
  <2>. QED
    BY <1>1, <1>2, <2>1, <2>2, ReplyBegins
<1>7. CASE answer \in {"file", "empty"} /\ Continue(Prepared(corked, more, <<>>, "kSendingHeaders"))
  <2>1. more \in Seq(OutputUnit) /\ <<>> \in Seq(OutputUnit)
    <3>0. 1 \in Nat /\ <<>> \in Seq(OutputUnit)
      OBVIOUS
    <3>1. P!Part(conn.req, 1) \in Seq(OutputUnit) /\ <<>> \in Seq(OutputUnit)
      BY <1>3, <3>0, PieceTypes, Zenon
    <3>. QED
      BY <3>1, Zenon
  <2>2. corked \in Fields /\ corked.corked = opened.file
    BY <1>4 DEF Fields
  <2>3. \A f \in DOMAIN conn \ {"file", "corked"} : corked[f] = conn[f]
    BY <1>4
  <2>4. corked.request = conn.request
    BY <1>2, <2>3 DEF Fields
  <2>5. corked.corked => ~corked.request.head /\ corked.request.answer # "empty"
    BY <1>4, <1>7, <2>2, <2>4
  <2>. HIDE DEF corked, more
  <2>. QED
    BY <1>1, <1>2, <1>7, <2>1, <2>2, <2>3, <2>5, ReplyBegins
<1>. QED
  BY <1>1, <1>5, <1>6, <1>7

\* prepare_error_page().
LEMMA PreparingErrorPageKeepsShape ==
  ASSUME Shape, PreparingErrorPage
  PROVE  Shape'
<1>. DEFINE state == IF conn.request.head THEN "kSendingHeaders" ELSE "kSendingTwoBuffers"
            body == IF conn.request.answer = "unchanged" THEN <<>> ELSE P!Page(conn.req)
<1>1. /\ Running({"kPreparingErrorPage"}) /\ UNCHANGED <<kernelVars, script, unsent, sent>>
      /\ Continue(Prepared(conn, <<>>, body, state))
  BY Zenon DEF PreparingErrorPage
<1>2. /\ conn \in Fields /\ conn.state = "kPreparingErrorPage" /\ phase = "running" /\ ~conn.corked
      /\ conn.req \in 0 .. Len(script)
  BY <1>1 DEF Running, Shape, TypeOK, Offsets, Clean, Fields
<1>3. /\ state \in {"kSendingTwoBuffers", "kSendingHeaders"}
      /\ body \in Seq(OutputUnit) /\ <<>> \in Seq(OutputUnit)
  BY <1>2, PieceTypes
<1>. HIDE DEF state, body
<1>. QED
  BY <1>1, <1>2, <1>3, ReplyBegins

\* run() returns because the socket's buffer is full.
LEMMA NotWritableKeepsShape ==
  ASSUME Shape, NotWritable
  PROVE  Shape'
<1>1. Return(conn) /\ phase = "running" /\ UNCHANGED <<kernelVars, script, unsent, sent>>
  BY DEF NotWritable, Running
<1>. QED
  BY <1>1, TurnKeepsShape DEF Shape, TypeOK, kernelVars

\* A write, after which the fields fit again.
LEMMA SendKeepsShape ==
  ASSUME Shape, NEW state \in SendingStates, NEW w, Sends(state, w),
         w.pushed \in Seq(OutputUnit), w.blocked \in BOOLEAN, tx + Len(w.pushed) \in 0 .. TxSize,
         NEW c \in Fields, Continue(c), Offsets(c), c.state # "kHandshaking",
         c.https = conn.https, c.input = conn.input, c.hello = conn.hello
  PROVE  Shape'
<1>1. /\ phase = "running" /\ conn.state = state /\ rx' = rx /\ rx' \in Seq(InputUnit)
      /\ tx' \in 0 .. TxSize /\ nospace' \in BOOLEAN /\ sent' \in Seq(OutputUnit)
      /\ UNCHANGED <<peer, queued, script, unsent>>
  BY SendsFits
<1>2. Aligned(script, conn, rx, unsent) /\ conn.state # "kHandshaking"
  BY <1>1 DEF Shape, SendingStates
<1>3. Aligned(script, c, rx, unsent)
  BY <1>2, AlignedMoves
<1>. QED
  BY <1>1, <1>3, TurnKeepsShape

\* kSendingTwoBuffers: the headers and a page in memory.
LEMMA SendTwoBuffersKeepsShape ==
  ASSUME Shape, SendTwoBuffers
  PROVE  Shape'
<1>. DEFINE units == conn.out \o conn.body
            w == Write(Rest(units), conn.https)
            c == After(w)
            d == [c EXCEPT !.state = IF c.outp = Len(units) THEN "kRequestCompleted" ELSE @]
<1>1. Sends("kSendingTwoBuffers", w) /\ Continue(d)
  BY Zenon DEF SendTwoBuffers
<1>2. /\ conn \in Fields /\ Offsets(conn) /\ conn.state = "kSendingTwoBuffers"
      /\ conn.out \in Seq(OutputUnit) /\ conn.body \in Seq(OutputUnit)
      /\ conn.outp + conn.record <= Len(conn.out) + Len(conn.body) /\ ~conn.corked /\ conn.hello = 0
  BY <1>1 DEF Sends, Running, Shape, TypeOK, Fields, Offsets
<1>3. units \in Seq(OutputUnit) /\ Len(units) = Len(conn.out) + Len(conn.body)
  BY <1>2, ConcatProperties
<1>. HIDE DEF units
<1>4. conn.outp + conn.record <= Len(units)
  BY <1>2, <1>3
<1>5. /\ w.pushed \in Seq(OutputUnit) /\ w.blocked \in BOOLEAN /\ tx + Len(w.pushed) \in 0 .. TxSize
      /\ c \in Fields /\ c.outp + c.record <= Len(units)
      /\ c.outp = Len(units) \/ ~c.https => c.record = 0
      /\ \A f \in DOMAIN conn \ {"outp", "record", "writable", "timerSet"} : c[f] = conn[f]
  <2>1. /\ w.pushed \in Seq(OutputUnit) /\ w.blocked \in BOOLEAN /\ tx + Len(w.pushed) \in 0 .. TxSize
        /\ c \in Fields /\ c.outp + c.record \in conn.outp + conn.record .. Len(units)
        /\ (c.outp = Len(units) \/ ~c.https => c.record = 0)
        /\ \A f \in DOMAIN conn \ {"outp", "record", "writable", "timerSet"} : c[f] = conn[f]
    BY <1>3, <1>4, BufferWrite, Zenon
  <2>. HIDE DEF w, c
  <2>. QED
    BY <2>1
<1>. HIDE DEF w, c
<1>6. /\ c.state = "kSendingTwoBuffers" /\ ~c.corked /\ c.hello = 0
      /\ c.out = conn.out /\ c.body = conn.body /\ c.keepAlive = conn.keepAlive
      /\ c.nrequests = conn.nrequests /\ c.https = conn.https /\ c.input = conn.input
  BY <1>2, <1>5, ZenonT(60) DEF Fields
<1>7. /\ d \in Fields /\ d.state = (IF c.outp = Len(units) THEN "kRequestCompleted" ELSE c.state)
      /\ \A f \in DOMAIN c \ {"state"} : d[f] = c[f]
  <2>1. "kRequestCompleted" \in States
    BY DEF States
  <2>2. d \in Fields
    BY <1>5, <2>1 DEF Fields
  <2>3. d.state = (IF c.outp = Len(units) THEN "kRequestCompleted" ELSE c.state)
    BY <1>5 DEF Fields
  <2>. QED
    BY <2>2, <2>3
<1>. HIDE DEF d
<1>8. /\ ~d.corked /\ d.hello = 0 /\ d.https = conn.https /\ d.input = conn.input
      /\ d.outp = c.outp /\ d.record = c.record /\ d.out = conn.out /\ d.body = conn.body
      /\ (d.keepAlive => d.nrequests < MaxRequests)
      /\ (d.state = "kRequestCompleted" => d.record = 0)
      /\ (~d.https => d.record = 0)
      /\ d.state \in {"kSendingTwoBuffers", "kRequestCompleted"}
  <2>1. conn.keepAlive => conn.nrequests < MaxRequests
    BY <1>2 DEF Offsets, SendingStates
  <2>. QED
    BY <1>5, <1>6, <1>7, <2>1, ZenonT(60) DEF Fields
<1>9. Offsets(d)
  <2>1. d.outp + d.record <= Len(d.out) + Len(d.body)
    BY <1>3, <1>5, <1>8, Zenon
  <2>. QED
    BY <1>8, <2>1 DEF Offsets, ReadingStates, SendingStates, WithOut
<1>. QED
  <2>1. "kSendingTwoBuffers" \in SendingStates /\ d.state # "kHandshaking" /\ d.hello = conn.hello
    BY <1>2, <1>8 DEF SendingStates
  <2>. QED
    BY <1>1, <1>5, <1>7, <1>8, <1>9, <2>1, SendKeepsShape

\* Writing what is in _M_out, in any of the states that do.
LEMMA OutWrite ==
  ASSUME Shape, conn.state \in WithOut
  PROVE  LET w == Write(Rest(conn.out), conn.https)
             c == After(w)
         IN /\ w.pushed \in Seq(OutputUnit) /\ w.blocked \in BOOLEAN
            /\ tx + Len(w.pushed) \in 0 .. TxSize
            /\ c \in Fields /\ c.outp + c.record <= Len(c.out) /\ c.outp <= Len(c.out)
            /\ (c.outp = Len(c.out) => c.record = 0) /\ (~c.https => c.record = 0)
            /\ \A f \in DOMAIN conn \ {"outp", "record", "writable", "timerSet"} : c[f] = conn[f]
            /\ c.state = conn.state /\ c.out = conn.out /\ c.hello = 0 /\ c.https = conn.https
            /\ c.input = conn.input /\ c.nrange = conn.nrange /\ c.request = conn.request
            /\ c.corked = conn.corked /\ (c.keepAlive => c.nrequests < MaxRequests)
            /\ Offsets(c)
            /\ (~w.blocked <=> c.outp = Len(c.out))
            /\ (w.blocked => tx + Len(w.pushed) = TxSize)
            /\ w.pushed = SubSeq(conn.out, conn.outp + conn.record + 1, c.outp + c.record)
            /\ conn.outp + conn.record <= c.outp + c.record
<1>. DEFINE w == Write(Rest(conn.out), conn.https)
            c == After(w)
<1>1. /\ conn \in Fields /\ Offsets(conn) /\ conn.out \in Seq(OutputUnit)
      /\ conn.outp + conn.record <= Len(conn.out) /\ conn.hello = 0 /\ conn.state # "kHandshaking"
      /\ conn.state \in SendingStates
  BY DEF Shape, TypeOK, Fields, Offsets, WithOut, SendingStates
<1>2. /\ w.pushed \in Seq(OutputUnit) /\ w.blocked \in BOOLEAN /\ tx + Len(w.pushed) \in 0 .. TxSize
      /\ c \in Fields /\ c.outp + c.record <= Len(conn.out)
      /\ (c.outp = Len(conn.out) => c.record = 0) /\ (~c.https => c.record = 0)
      /\ \A f \in DOMAIN conn \ {"outp", "record", "writable", "timerSet"} : c[f] = conn[f]
      /\ (~w.blocked <=> c.outp = Len(conn.out))
      /\ (w.blocked => tx + Len(w.pushed) = TxSize)
      /\ w.pushed = SubSeq(conn.out, conn.outp + conn.record + 1, c.outp + c.record)
      /\ conn.outp + conn.record <= c.outp + c.record
  <2>1. /\ w.pushed \in Seq(OutputUnit) /\ w.blocked \in BOOLEAN /\ tx + Len(w.pushed) \in 0 .. TxSize
        /\ c \in Fields /\ c.outp + c.record \in conn.outp + conn.record .. Len(conn.out)
        /\ (c.outp = Len(conn.out) \/ ~c.https => c.record = 0)
        /\ \A f \in DOMAIN conn \ {"outp", "record", "writable", "timerSet"} : c[f] = conn[f]
        /\ (~w.blocked <=> c.outp = Len(conn.out))
        /\ (w.blocked => tx + Len(w.pushed) = TxSize)
        /\ w.pushed = SubSeq(conn.out, conn.outp + conn.record + 1, c.outp + c.record)
    BY <1>1, BufferWrite, Zenon
  <2>. HIDE DEF w, c
  <2>2. c.outp + c.record <= Len(conn.out) /\ conn.outp + conn.record <= c.outp + c.record
    BY <2>1
  <2>. QED
    BY <2>1, <2>2, Zenon
<1>. HIDE DEF w, c
<1>3. /\ c.state = conn.state /\ c.out = conn.out /\ c.hello = 0 /\ c.https = conn.https
      /\ c.input = conn.input /\ c.nrange = conn.nrange /\ c.request = conn.request
      /\ c.corked = conn.corked /\ c.keepAlive = conn.keepAlive /\ c.nrequests = conn.nrequests
  BY <1>1, <1>2 DEF Fields
<1>4. conn.keepAlive => conn.nrequests < MaxRequests
  BY <1>1 DEF Offsets
<1>5. c.outp \in Nat /\ c.record \in Nat /\ Len(conn.out) \in Nat
  BY <1>1, <1>2 DEF Fields
<1>6. c.outp <= Len(conn.out)
  <2>. DEFINE l == Len(conn.out)
  <2>1. l \in Nat /\ c.outp + c.record <= l
    BY <1>2, <1>5
  <2>. HIDE DEF l
  <2>2. c.outp <= l
    BY <1>5, <2>1
  <2>. QED
    BY <2>2 DEF l
<1>7. Offsets(c)
  BY <1>1, <1>2, <1>3, <1>4 DEF Offsets, ReadingStates, SendingStates, WithOut
<1>. QED
  BY <1>2, <1>3, <1>4, <1>6, <1>7, Zenon DEF w, c

\* The ranges of the request are there when the state refers to one.
LEMMA RangeBounds ==
  ASSUME NEW c \in Fields, c.request.ranges # <<>> => c.nrange < Len(c.request.ranges)
  PROVE  FirstByte(c) \in Nat /\ LastByte(c) \in Int
<1>1. c.request.ranges \in Seq([from : Nat, to : Nat]) /\ c.nrange \in Nat
  BY DEF Fields, Request
<1>2. CASE c.request.ranges = <<>>
  BY <1>2, SizeAssumption DEF FirstByte, LastByte
<1>3. CASE c.request.ranges # <<>>
  <2>1. c.nrange + 1 \in 1 .. Len(c.request.ranges)
    <3>. DEFINE l == Len(c.request.ranges)
    <3>1. l \in Nat /\ c.nrange < l
      BY <1>1, <1>3
    <3>. HIDE DEF l
    <3>2. c.nrange + 1 \in 1 .. l
      BY <1>1, <3>1
    <3>. QED
      BY <3>2 DEF l
  <2>2. c.request.ranges[c.nrange + 1] \in [from : Nat, to : Nat]
    BY <1>1, <2>1, ElementOfSeq, Zenon
  <2>. QED
    BY <1>3, <2>2 DEF FirstByte, LastByte
<1>. QED
  BY <1>2, <1>3

\* kSendingHeaders: the headers in front of a file.
LEMMA SendHeadersKeepsShape ==
  ASSUME Shape, SendHeaders
  PROVE  Shape'
<1>. DEFINE w == Write(Rest(conn.out), conn.https)
            c == After(w)
            bodiless == conn.request.head \/ conn.request.answer = "empty"
            done == [c EXCEPT !.state = "kRequestCompleted"]
            goes == [c EXCEPT !.state = "kSendingBody", !.outp = FirstByte(c)]
<1>1. /\ Sends("kSendingHeaders", w)
      /\ \/ Continue(c)
         \/ c.outp = Len(conn.out) /\ bodiless /\ Continue(done)
         \/ c.outp = Len(conn.out) /\ ~bodiless /\ Continue(goes)
  BY Zenon DEF SendHeaders
<1>2. /\ Offsets(conn) /\ conn.state = "kSendingHeaders" /\ conn.state \in WithOut
      /\ conn.state \in SendingStates /\ conn.hello = 0
      /\ conn.nrange = 0 /\ (conn.corked => ~bodiless)
  BY <1>1 DEF Sends, Running, Shape, Offsets, WithOut, SendingStates
<1>. HIDE DEF bodiless
<1>3. /\ w.pushed \in Seq(OutputUnit) /\ w.blocked \in BOOLEAN /\ tx + Len(w.pushed) \in 0 .. TxSize
      /\ c \in Fields /\ (c.outp = Len(c.out) => c.record = 0) /\ (~c.https => c.record = 0)
      /\ c.state = conn.state /\ c.out = conn.out /\ c.hello = 0 /\ c.https = conn.https
      /\ c.input = conn.input /\ c.nrange = conn.nrange /\ c.request = conn.request
      /\ c.corked = conn.corked /\ (c.keepAlive => c.nrequests < MaxRequests)
      /\ Offsets(c)
  BY <1>2, OutWrite, Zenon
<1>. HIDE DEF w, c
<1>4. CASE Continue(c)
  BY <1>1, <1>2, <1>3, <1>4, SendKeepsShape
<1>5. CASE c.outp = Len(conn.out) /\ bodiless /\ Continue(done)
  <2>1. done \in Fields
    <3>1. "kRequestCompleted" \in States
      BY DEF States
    <3>. QED
      BY <1>3, <3>1 DEF Fields
  <2>2. /\ done.state = "kRequestCompleted" /\ done.https = conn.https /\ done.input = conn.input
        /\ done.hello = 0 /\ done.record = 0 /\ ~done.corked
        /\ (done.keepAlive => done.nrequests < MaxRequests)
    BY <1>2, <1>3, <1>5 DEF Fields
  <2>. HIDE DEF done
  <2>3. Offsets(done)
    BY <2>2 DEF Offsets, ReadingStates, SendingStates, WithOut
  <2>. QED
    BY <1>1, <1>2, <1>3, <1>5, <2>1, <2>2, <2>3, SendKeepsShape
<1>6. CASE c.outp = Len(conn.out) /\ ~bodiless /\ Continue(goes)
  <2>0. c.request.ranges # <<>> => c.nrange < Len(c.request.ranges)
    <3>. DEFINE s == c.request.ranges
    <3>1. s \in Seq([from : Nat, to : Nat])
      BY <1>3 DEF Fields, Request
    <3>. HIDE DEF s
    <3>2. s # <<>> => 0 < Len(s)
      BY <3>1
    <3>. QED
      BY <1>2, <1>3, <3>2 DEF s
  <2>1. FirstByte(c) \in Nat /\ "kSendingBody" \in States
    BY <1>3, <2>0, RangeBounds DEF States, SendingStates
  <2>2. goes \in Fields
    BY <1>3, <2>1 DEF Fields
  <2>3. /\ goes.state = "kSendingBody" /\ goes.https = conn.https /\ goes.input = conn.input
        /\ goes.hello = 0 /\ goes.record = 0
        /\ (goes.keepAlive => goes.nrequests < MaxRequests)
        /\ goes.nrange = c.nrange /\ goes.request = c.request
    BY <1>3, <1>6 DEF Fields
  <2>. HIDE DEF goes
  <2>4. Offsets(goes)
    BY <2>0, <2>3 DEF Offsets, ReadingStates, SendingStates, WithOut
  <2>. QED
    BY <1>1, <1>2, <1>3, <1>6, <2>2, <2>3, <2>4, SendKeepsShape
<1>. QED
  BY <1>1, <1>4, <1>5, <1>6

\* kSendingPartHeader: the headers in front of a range.
LEMMA SendPartHeaderKeepsShape ==
  ASSUME Shape, SendPartHeader
  PROVE  Shape'
<1>. DEFINE w == Write(Rest(conn.out), conn.https)
            c == After(w)
            goes == [c EXCEPT !.state = "kSendingBody", !.outp = FirstByte(c)]
<1>1. /\ Sends("kSendingPartHeader", w)
      /\ IF c.outp < Len(conn.out) THEN Continue(c) ELSE Continue(goes)
  BY Zenon DEF SendPartHeader
<1>2. /\ Offsets(conn) /\ conn.state = "kSendingPartHeader" /\ conn.state \in WithOut
      /\ conn.state \in SendingStates /\ conn.hello = 0
      /\ conn.nrange < Len(conn.request.ranges)
  BY <1>1 DEF Sends, Running, Shape, Offsets, WithOut, SendingStates
<1>3. /\ w.pushed \in Seq(OutputUnit) /\ w.blocked \in BOOLEAN /\ tx + Len(w.pushed) \in 0 .. TxSize
      /\ c \in Fields /\ (c.outp = Len(c.out) => c.record = 0) /\ (~c.https => c.record = 0)
      /\ c.outp <= Len(c.out)
      /\ c.state = conn.state /\ c.out = conn.out /\ c.hello = 0 /\ c.https = conn.https
      /\ c.input = conn.input /\ c.nrange = conn.nrange /\ c.request = conn.request
      /\ c.corked = conn.corked /\ (c.keepAlive => c.nrequests < MaxRequests)
      /\ Offsets(c)
  BY <1>2, OutWrite, Zenon
<1>. HIDE DEF w, c
<1>4. CASE Continue(c)
  BY <1>1, <1>2, <1>3, <1>4, SendKeepsShape
<1>5. CASE ~(c.outp < Len(conn.out)) /\ Continue(goes)
  <2>0. c.request.ranges # <<>> => c.nrange < Len(c.request.ranges)
    BY <1>2, <1>3
  <2>1. FirstByte(c) \in Nat /\ "kSendingBody" \in States
    BY <1>3, <2>0, RangeBounds DEF States, SendingStates
  <2>2. goes \in Fields
    BY <1>3, <2>1 DEF Fields
  <2>3. c.outp = Len(c.out)
    <3>. DEFINE l == Len(c.out)
    <3>1. l \in Nat /\ c.outp \in Nat /\ c.outp <= l /\ ~(c.outp < l)
      BY <1>3, <1>5 DEF Fields
    <3>. HIDE DEF l
    <3>2. c.outp = l
      BY <3>1
    <3>. QED
      BY <3>2 DEF l
  <2>4. /\ goes.state = "kSendingBody" /\ goes.https = conn.https /\ goes.input = conn.input
        /\ goes.hello = 0 /\ goes.record = 0
        /\ (goes.keepAlive => goes.nrequests < MaxRequests)
        /\ goes.nrange = c.nrange /\ goes.request = c.request
    BY <1>3, <2>3 DEF Fields
  <2>. HIDE DEF goes
  <2>5. Offsets(goes)
    BY <2>0, <2>4 DEF Offsets, ReadingStates, SendingStates, WithOut
  <2>. QED
    BY <1>1, <1>2, <1>3, <1>5, <2>2, <2>4, <2>5, SendKeepsShape
<1>. QED
  BY <1>1, <1>4, <1>5

\* kSendingMultipartFooter: what ends a multipart reply.
LEMMA SendMultipartFooterKeepsShape ==
  ASSUME Shape, SendMultipartFooter
  PROVE  Shape'
<1>. DEFINE w == Write(Rest(conn.out), conn.https)
            c == After(w)
            done == [c EXCEPT !.state = "kRequestCompleted", !.corked = FALSE]
<1>1. /\ Sends("kSendingMultipartFooter", w)
      /\ IF c.outp < Len(conn.out) THEN Continue(c) ELSE Continue(done)
  BY Zenon DEF SendMultipartFooter
<1>2. /\ Offsets(conn) /\ conn.state = "kSendingMultipartFooter" /\ conn.state \in WithOut
      /\ conn.state \in SendingStates /\ conn.hello = 0
  BY <1>1 DEF Sends, Running, Shape, Offsets, WithOut, SendingStates
<1>3. /\ w.pushed \in Seq(OutputUnit) /\ w.blocked \in BOOLEAN /\ tx + Len(w.pushed) \in 0 .. TxSize
      /\ c \in Fields /\ (c.outp = Len(c.out) => c.record = 0) /\ c.outp <= Len(c.out)
      /\ c.state = conn.state /\ c.out = conn.out /\ c.hello = 0 /\ c.https = conn.https
      /\ c.input = conn.input /\ (c.keepAlive => c.nrequests < MaxRequests)
      /\ Offsets(c)
  BY <1>2, OutWrite, Zenon
<1>. HIDE DEF w, c
<1>4. CASE Continue(c)
  BY <1>1, <1>2, <1>3, <1>4, SendKeepsShape
<1>5. CASE ~(c.outp < Len(conn.out)) /\ Continue(done)
  <2>1. done \in Fields
    <3>1. "kRequestCompleted" \in States
      BY DEF States
    <3>. QED
      BY <1>3, <3>1, ZenonT(60) DEF Fields
  <2>2. c.outp = Len(c.out)
    <3>. DEFINE l == Len(c.out)
    <3>1. l \in Nat /\ c.outp \in Nat /\ c.outp <= l /\ ~(c.outp < l)
      BY <1>3, <1>5 DEF Fields
    <3>. HIDE DEF l
    <3>2. c.outp = l
      BY <3>1
    <3>. QED
      BY <3>2 DEF l
  <2>3. /\ done.state = "kRequestCompleted" /\ done.https = conn.https /\ done.input = conn.input
        /\ done.hello = 0 /\ done.record = 0 /\ ~done.corked
        /\ (done.keepAlive => done.nrequests < MaxRequests)
    BY <1>3, <2>2 DEF Fields
  <2>. HIDE DEF done
  <2>4. Offsets(done)
    BY <2>3 DEF Offsets, ReadingStates, SendingStates, WithOut
  <2>. QED
    BY <1>1, <1>2, <1>3, <1>5, <2>1, <2>3, <2>4, SendKeepsShape
<1>. QED
  BY <1>1, <1>4, <1>5

\* kSendingBody: the file, or a range of it.
LEMMA SendBodyKeepsShape ==
  ASSUME Shape, SendBody
  PROVE  Shape'
<1>. DEFINE units == P!Bytes(conn.req, conn.outp, LastByte(conn))
            w == Write(units, FALSE)
            c == After(w)
            nranges == Len(conn.request.ranges)
            next == [c EXCEPT !.outp = 0, !.nrange = @ + 1]
            done == [c EXCEPT !.corked = FALSE, !.state = "kRequestCompleted"]
            footer == [next EXCEPT !.out = P!Footer(conn.req), !.state = "kSendingMultipartFooter"]
            part == [next EXCEPT !.out = P!Part(conn.req, next.nrange + 1), !.state = "kSendingPartHeader"]
<1>1. /\ Sends("kSendingBody", w)
      /\ \/ Continue(c)
         \/ Continue(done)
         \/ Continue(footer)
         \/ next.nrange < nranges /\ Continue(part)
  BY Zenon DEF SendBody
<1>2. /\ conn \in Fields /\ Offsets(conn) /\ conn.state = "kSendingBody" /\ conn.state \in SendingStates
      /\ conn.hello = 0 /\ conn.record = 0 /\ (conn.keepAlive => conn.nrequests < MaxRequests)
      /\ (conn.request.ranges # <<>> => conn.nrange < Len(conn.request.ranges))
      /\ tx \in 0 .. TxSize /\ conn.req \in 0 .. Len(script) /\ conn.outp \in Nat /\ conn.req \in Nat
  BY <1>1 DEF Sends, Running, Shape, TypeOK, Fields, Offsets, SendingStates
<1>3. units \in Seq(OutputUnit)
  <2>1. LastByte(conn) \in Int
    BY <1>2, RangeBounds
  <2>. QED
    BY <1>2, <2>1, PieceTypes
<1>. HIDE DEF units
<1>4. /\ w.pushed \in Seq(OutputUnit) /\ w.blocked \in BOOLEAN /\ tx + Len(w.pushed) \in 0 .. TxSize
      /\ w.count \in Nat /\ w.record = 0
  <2>1. conn.record \in 0 .. Len(units)
    <3>1. Len(units) \in Nat
      BY <1>3
    <3>. QED
      BY <1>2, <3>1
  <2>2. /\ w.pushed \in Seq(OutputUnit) /\ w.blocked \in BOOLEAN /\ tx + Len(w.pushed) \in 0 .. TxSize
        /\ w.count \in 0 .. Len(units) /\ w.record = 0
    BY <1>2, <1>3, <2>1, WriteFits
  <2>. HIDE DEF w
  <2>. QED
    BY <2>2
<1>. HIDE DEF w
<1>5. /\ c \in Fields /\ c.record = 0
      /\ \A f \in DOMAIN conn \ {"outp", "record", "writable", "timerSet"} : c[f] = conn[f]
  BY <1>2, <1>4, AfterFits
<1>. HIDE DEF c
<1>6. /\ c.state = "kSendingBody" /\ c.hello = 0 /\ c.https = conn.https /\ c.input = conn.input
      /\ c.nrange = conn.nrange /\ c.request = conn.request
      /\ (c.keepAlive => c.nrequests < MaxRequests)
  BY <1>2, <1>5 DEF Fields
<1>7. CASE Continue(c)
  <2>1. Offsets(c)
    BY <1>2, <1>5, <1>6 DEF Offsets, ReadingStates, SendingStates, WithOut
  <2>. QED
    BY <1>1, <1>2, <1>4, <1>5, <1>6, <1>7, <2>1, SendKeepsShape
<1>8. CASE Continue(done)
  <2>1. done \in Fields
    <3>1. "kRequestCompleted" \in States
      BY DEF States
    <3>. QED
      BY <1>5, <3>1, ZenonT(60) DEF Fields
  <2>2. /\ done.state = "kRequestCompleted" /\ done.https = conn.https /\ done.input = conn.input
        /\ done.hello = 0 /\ done.record = 0 /\ ~done.corked
        /\ (done.keepAlive => done.nrequests < MaxRequests)
    BY <1>5, <1>6 DEF Fields
  <2>. HIDE DEF done
  <2>3. Offsets(done)
    BY <2>2 DEF Offsets, ReadingStates, SendingStates, WithOut
  <2>. QED
    BY <1>1, <1>2, <1>4, <1>8, <2>1, <2>2, <2>3, SendKeepsShape
<1>9. /\ next \in Fields /\ next.nrange = conn.nrange + 1 /\ next.nrange \in Nat /\ next.outp = 0 /\ next.record = 0
      /\ next.hello = 0 /\ next.https = conn.https /\ next.input = conn.input
      /\ next.request = conn.request /\ (next.keepAlive => next.nrequests < MaxRequests)
  <2>1. c.nrange + 1 \in Nat /\ 0 \in Nat
    BY <1>5 DEF Fields
  <2>2. next \in Fields
    BY <1>5, <2>1, ZenonT(60) DEF Fields
  <2>3. /\ next.nrange = conn.nrange + 1 /\ next.outp = 0 /\ next.record = 0
        /\ next.hello = 0 /\ next.https = conn.https /\ next.input = conn.input
        /\ next.request = conn.request /\ (next.keepAlive => next.nrequests < MaxRequests)
    BY <1>5, <1>6 DEF Fields
  <2>. QED
    BY <1>6, <2>1, <2>2, <2>3
<1>. HIDE DEF next
<1>10. CASE Continue(footer)
  <2>0. P!Footer(conn.req) \in Seq(OutputUnit) /\ Len(P!Footer(conn.req)) = 1
    BY <1>2, PieceTypes
  <2>1. footer \in Fields
    <3>1. "kSendingMultipartFooter" \in States
      BY DEF States, SendingStates
    <3>. QED
      BY <1>9, <2>0, <3>1 DEF Fields
  <2>2. /\ footer.state = "kSendingMultipartFooter" /\ footer.https = conn.https
        /\ footer.input = conn.input /\ footer.hello = 0 /\ footer.record = 0 /\ footer.outp = 0
        /\ (footer.keepAlive => footer.nrequests < MaxRequests)
        /\ Len(footer.out) = 1
    BY <1>9, <2>0 DEF Fields
  <2>. HIDE DEF footer
  <2>3. Offsets(footer)
    BY <2>2 DEF Offsets, ReadingStates, SendingStates, WithOut
  <2>. QED
    BY <1>1, <1>2, <1>4, <1>10, <2>1, <2>2, <2>3, SendKeepsShape
<1>11. CASE next.nrange < nranges /\ Continue(part)
  <2>0. P!Part(conn.req, next.nrange + 1) \in Seq(OutputUnit) /\ Len(P!Part(conn.req, next.nrange + 1)) = 1
    <3>1. next.nrange + 1 \in Nat
      BY <1>9
    <3>. QED
      BY <1>2, <3>1, PieceTypes, Zenon
  <2>1. part \in Fields
    <3>1. "kSendingPartHeader" \in States
      BY DEF States, SendingStates
    <3>. QED
      BY <1>9, <2>0, <3>1 DEF Fields
  <2>2. /\ part.state = "kSendingPartHeader" /\ part.https = conn.https
        /\ part.input = conn.input /\ part.hello = 0 /\ part.record = 0 /\ part.outp = 0
        /\ (part.keepAlive => part.nrequests < MaxRequests)
        /\ Len(part.out) = 1 /\ part.nrange < Len(part.request.ranges)
    BY <1>9, <1>11, <2>0 DEF Fields
  <2>. HIDE DEF part
  <2>3. Offsets(part)
    BY <2>2 DEF Offsets, ReadingStates, SendingStates, WithOut
  <2>. QED
    BY <1>1, <1>2, <1>4, <1>11, <2>1, <2>2, <2>3, SendKeepsShape
<1>. QED
  BY <1>1, <1>7, <1>8, <1>10, <1>11

\* kRequestCompleted: the next request, or the end.
LEMMA RequestCompletedKeepsShape ==
  ASSUME Shape, RequestCompleted
  PROVE  Shape'
<1>1. /\ conn.state = "kRequestCompleted" /\ phase = "running"
      /\ UNCHANGED <<rx, tx, peer, queued, nospace, script, unsent, sent>>
  BY DEF RequestCompleted, Running, kernelVars
<1>2. /\ conn \in Fields /\ Offsets(conn) /\ conn.hello = 0 /\ conn.record = 0 /\ ~conn.corked
      /\ (conn.keepAlive => conn.nrequests < MaxRequests) /\ Aligned(script, conn, rx, unsent)
  BY <1>1 DEF Shape, TypeOK, Offsets
<1>3. CASE Drop
  BY <1>1, <1>3, DropKeepsShape DEF Shape, TypeOK
<1>4. CASE conn.keepAlive /\ Continue(Reset(conn))
  <2>. DEFINE c == Reset(conn)
  <2>1. c \in Fields
    <3>1. "kReadingRequestLine" \in States /\ 0 \in 0 .. Len(LineParts) /\ <<>> \in Seq(OutputUnit)
      BY DEF States, LineParts
    <3>. QED
      BY <1>2, <3>1 DEF Fields, Reset
  <2>2. /\ c.state = "kReadingRequestLine" /\ c.out = <<>> /\ c.body = <<>> /\ c.outp = 0
        /\ c.nrange = 0 /\ c.record = 0 /\ ~c.corked /\ ~c.file /\ c.line = 0 /\ c.hello = 0
        /\ c.nrequests < MaxRequests /\ c.https = conn.https /\ c.input = conn.input
    BY <1>2, <1>4 DEF Fields, Reset
  <2>. HIDE DEF c
  <2>3. Offsets(c)
    BY <2>2 DEF Offsets, Clean, ReadingStates, SendingStates, WithOut
  <2>4. Aligned(script, c, rx, unsent)
    BY <1>1, <1>2, <2>2, AlignedMoves
  <2>. QED
    BY <1>1, <1>4, <2>1, <2>3, <2>4, TurnKeepsShape DEF Shape, TypeOK, c
<1>. QED
  BY <1>3, <1>4 DEF RequestCompleted

-----------------------------------------------------------------------------
\* No step of anybody breaks the shape.
LEMMA ShapeNext == Shape /\ [Next]_vars => Shape'
<1>. SUFFICES ASSUME Shape, [Next]_vars
              PROVE  Shape'
  OBVIOUS
<1>1. CASE Run
  BY <1>1, HandshakeKeepsShape, WaitingKeepsShape, ReadFailsKeepsShape, ReadingRequestLineKeepsShape,
     ReadingHeadersKeepsShape, ProcessRequestKeepsShape, PreparingErrorPageKeepsShape,
     NotWritableKeepsShape, SendTwoBuffersKeepsShape, SendHeadersKeepsShape, SendBodyKeepsShape,
     SendPartHeaderKeepsShape, SendMultipartFooterKeepsShape, RequestCompletedKeepsShape
     DEF Run, Reading, Replying
<1>2. CASE EventLoop
  BY <1>2, EventLoopKeepsShape
<1>3. CASE Expire
  BY <1>3, ExpireKeepsShape
<1>4. CASE Client
  BY <1>4, ClientKeepsShape
<1>5. CASE UNCHANGED vars
  BY <1>5 DEF vars, processVars, kernelVars, Shape, TypeOK, Fields
<1>. QED
  BY <1>1, <1>2, <1>3, <1>4, <1>5 DEF Next, Terminated

\* The fields, the flags of the state and the buffers of a connection fit
\* together as run() relies on, in every state that can be reached.
THEOREM ShapeIsInvariant == Spec => []Shape
BY ShapeInit, ShapeNext, PTL DEF Spec

\* Every variable keeps its type: offsets, counts and the index of the request
\* never leave their ranges.
THEOREM TypeCorrect == Spec => []TypeOK
<1>1. Shape => TypeOK
  BY DEF Shape
<1>. QED
  BY <1>1, ShapeIsInvariant, PTL

\* When a connection waits for its next request nothing of the reply before is
\* left: buffers, offsets, range, file and cork are as in a new connection.
THEOREM NothingIsLeft == Spec => []CleanBetweenRequests
<1>1. Shape => CleanBetweenRequests
  BY DEF Shape, Offsets, Clean, CleanBetweenRequests, ReadingStates
<1>. QED
  BY <1>1, ShapeIsInvariant, PTL

-----------------------------------------------------------------------------
(* What wakes a connection.                                                *)

\* A flag that is down stands for an edge that is still to come: the socket is
\* in epoll's ready list, or there is nothing to read, or there is no room and
\* the kernel knows that somebody waits for it.  Whoever has returned has seen
\* the flag down that its state waits for.
Edges ==
  phase # "closed" =>
    /\ ~queued /\ ~conn.readable => ~InReady
    /\ ~queued /\ ~alsoWritable /\ ~conn.writable => ~OutReady /\ nospace
    /\ phase \in {"asleep", "returned"} =>
         IF conn.state \in SendingStates THEN ~conn.writable ELSE ~conn.readable

\* States that wait for something to read.
Waits == {"kHandshaking", "kReadingRequestLine", "kReadingHeaders"}

\* Without TLS whoever lowers a flag sets the timer, and nothing clears it
\* before the flag is up again.
Timers ==
  phase # "closed" /\ ~conn.https =>
    /\ ~conn.readable =>
         /\ conn.timerSet /\ conn.state \in Waits
         /\ conn.state = "kReadingRequestLine" => conn.input = <<>>
    /\ ~conn.writable /\ ~alsoWritable =>
         /\ conn.timerSet
         /\ \/ conn.state \in SendingStates
            \/ conn.state = "kHandshaking" /\ phase = "asleep" /\ tx = 0

\* A turn that lowers no flag, and does not wait.
Goes ==
  /\ phase = "running" /\ phase' = "running"
  /\ UNCHANGED <<alsoWritable, peer, queued>>
  /\ conn'.https = conn.https
  /\ \/ \* no write
        /\ conn.state \notin SendingStates
        /\ UNCHANGED <<tx, nospace>>
        /\ conn'.writable = conn.writable
        /\ \/ /\ conn'.readable = conn.readable /\ (rx = <<>> => rx' = <<>>)
              /\ \/ conn.state = "kHandshaking" /\ (~conn.https => conn'.timerSet = conn.timerSet)
                    /\ conn'.state = "kReadingRequestLine" /\ conn'.input = <<>>
                 \/ conn.state \notin Waits
                 \/ conn.state = "kReadingRequestLine" /\ conn.input # <<>>
           \/ conn'.readable
           \/ conn.https /\ rx' = <<>> /\ peer = "open"
     \/ \* a write
        /\ conn.state \in SendingStates /\ conn.writable
        /\ UNCHANGED rx /\ conn'.readable = conn.readable
        /\ \/ conn'.writable
           \/ /\ ~conn'.writable /\ conn'.timerSet /\ conn'.state = conn.state
              /\ tx' = TxSize /\ nospace' /\ peer # "reset"

\* A turn that waits for the socket.
Stops ==
  /\ phase = "running" /\ phase' = IF alsoWritable THEN "returned" ELSE "asleep"
  /\ UNCHANGED <<alsoWritable, peer, queued, tx, nospace>>
  /\ conn'.https = conn.https /\ conn'.writable = conn.writable
  /\ \/ /\ conn.state \in SendingStates /\ ~conn.writable
        /\ conn' = conn /\ UNCHANGED rx
     \/ /\ conn.state \notin SendingStates
        /\ ~conn'.readable /\ conn'.state \in Waits
        /\ conn'.state = "kReadingRequestLine" => conn'.input = <<>>
        /\ \/ UNCHANGED rx /\ ~conn.readable /\ conn'.timerSet = conn.timerSet
           \/ rx' = <<>> /\ peer = "open" /\ conn'.timerSet

\* Such a turn loses no edge ...
LEMMA GoesKeepsEdges ==
  ASSUME Shape, Edges, Goes
  PROVE  Edges'
<1>1. tx \in 0 .. TxSize /\ TxSize \in Nat
  BY SizeAssumption DEF Shape, TypeOK
<1>. QED
  BY <1>1 DEF Goes, Edges, InReady, OutReady

\* ... and stops no timer that is needed.
LEMMA GoesKeepsTimers ==
  ASSUME Shape, Timers, Goes
  PROVE  Timers'
BY DEF Goes, Timers, Waits, SendingStates

\* Who waits has seen the flag down that he waits for ...
LEMMA StopsKeepsEdges ==
  ASSUME Shape, Edges, Stops
  PROVE  Edges'
<1>1. CASE conn.state \in SendingStates /\ ~conn.writable /\ conn' = conn /\ UNCHANGED rx
  <2>1. InReady' = InReady /\ OutReady' = OutReady /\ nospace' = nospace /\ queued' = queued
        /\ alsoWritable' = alsoWritable /\ conn' = conn /\ phase # "closed"
    BY <1>1 DEF Stops, InReady, OutReady
  <2>2. /\ (~queued /\ ~conn.readable => ~InReady)
        /\ (~queued /\ ~alsoWritable /\ ~conn.writable => ~OutReady /\ nospace)
    BY <2>1 DEF Edges
  <2>3. /\ (~queued' /\ ~conn'.readable => ~InReady')
        /\ (~queued' /\ ~alsoWritable' /\ ~conn'.writable => ~OutReady' /\ nospace')
    BY <2>1, <2>2, Zenon
  <2>4. IF conn'.state \in SendingStates' THEN ~conn'.writable ELSE ~conn'.readable
    BY <1>1, <2>1 DEF SendingStates
  <2>. QED
    BY <2>3, <2>4 DEF Edges
<1>2. CASE ~conn'.readable /\ conn'.state \in Waits /\ ((UNCHANGED rx /\ ~conn.readable) \/ (rx' = <<>> /\ peer = "open"))
  BY <1>2 DEF Stops, Edges, InReady, OutReady, Waits, SendingStates
<1>3. \/ conn.state \in SendingStates /\ ~conn.writable /\ conn' = conn /\ UNCHANGED rx
      \/ ~conn'.readable /\ conn'.state \in Waits /\ ((UNCHANGED rx /\ ~conn.readable) \/ (rx' = <<>> /\ peer = "open"))
  BY DEF Stops
<1>. QED
  BY <1>1, <1>2, <1>3

\* ... and has set the timer.
LEMMA StopsKeepsTimers ==
  ASSUME Shape, Timers, Stops
  PROVE  Timers'
BY DEF Stops, Timers, Waits, SendingStates

\* A closed connection waits for nothing.
LEMMA ClosedKeeps ==
  ASSUME phase' = "closed"
  PROVE  Edges' /\ Timers'
BY DEF Edges, Timers

\* Every turn of run() goes on, waits or ends the connection.
LEMMA HandshakeTurns ==
  ASSUME Shape, Handshake
  PROVE  Goes \/ Stops \/ phase' = "closed"
<1>. DEFINE n == Min({conn.hello, Len(rx)})
            c == [conn EXCEPT !.hello = @ - n]
            done == [c EXCEPT !.state = "kReadingRequestLine",
                              !.timerSet = IF conn.https THEN FALSE ELSE @]
            waits == [c EXCEPT !.timerSet = TRUE, !.readable = FALSE]
<1>1. /\ Running({"kHandshaking"}) /\ rx' = SubSeq(rx, n + 1, Len(rx))
      /\ UNCHANGED <<tx, peer, queued, nospace, script, unsent, sent>>
      /\ \/ c.hello = 0 /\ Continue(done)
         \/ c.hello > 0 /\ peer = "open" /\ Return(waits)
         \/ Drop
  BY Zenon DEF Handshake
<1>2. /\ conn \in Fields /\ conn.state = "kHandshaking" /\ phase = "running" /\ conn.input = <<>>
      /\ conn.hello \in Nat /\ rx \in Seq(InputUnit) /\ Len(rx) \in Nat
  <2>1. /\ conn \in Fields /\ conn.state = "kHandshaking" /\ phase = "running" /\ conn.input = <<>>
        /\ conn.hello \in 0 .. HelloLen /\ HelloLen \in Nat /\ rx \in Seq(InputUnit)
    BY <1>1, SizeAssumption DEF Running, Shape, TypeOK, Fields, Offsets
  <2>. QED
    BY <2>1
<1>3. n \in 0 .. Len(rx) /\ (conn.hello - n > 0 => n = Len(rx))
  BY <1>2, MinOfTwo
<1>. HIDE DEF n
<1>4. (rx = <<>> => rx' = <<>>) /\ (n = Len(rx) => rx' = <<>>)
  <2>1. n = Len(rx) => SubSeq(rx, n + 1, Len(rx)) = <<>>
    BY <1>2
  <2>2. rx = <<>> => n = Len(rx)
    BY <1>3
  <2>. QED
    BY <1>1, <2>1, <2>2
<1>5. c.hello = conn.hello - n
  BY <1>2 DEF Fields
<1>6. CASE Continue(done)
  <2>1. /\ conn'.https = conn.https /\ conn'.readable = conn.readable /\ conn'.writable = conn.writable
        /\ conn'.state = "kReadingRequestLine" /\ conn'.input = <<>>
        /\ (~conn.https => conn'.timerSet = conn.timerSet)
    BY <1>2, <1>6 DEF Fields, Continue
  <2>. QED
    BY <1>1, <1>2, <1>4, <1>6, <2>1 DEF Goes, Continue, SendingStates
<1>7. CASE c.hello > 0 /\ peer = "open" /\ Return(waits)
  <2>1. /\ conn'.https = conn.https /\ ~conn'.readable /\ conn'.writable = conn.writable
        /\ conn'.state = "kHandshaking" /\ conn'.input = <<>> /\ conn'.timerSet
    BY <1>2, <1>7 DEF Fields, Return
  <2>2. rx' = <<>>
    BY <1>3, <1>4, <1>5, <1>7
  <2>. QED
    BY <1>1, <1>2, <1>7, <2>1, <2>2 DEF Stops, Return, Waits, SendingStates
<1>. QED
  BY <1>1, <1>6, <1>7 DEF Drop

\* run() returns because there is nothing to read.
LEMMA WaitingTurns ==
  ASSUME Shape, NotReadable \/ ReadsNothing
  PROVE  Stops
<1>1. /\ conn \in Fields /\ conn.state \in ReadingStates /\ phase = "running"
      /\ (conn.state = "kReadingHeaders" \/ conn.input = <<>>)
      /\ UNCHANGED <<rx, tx, peer, queued, nospace, script, unsent, sent>>
  BY DEF NotReadable, ReadsNothing, NeedsInput, Running, Shape, TypeOK, ReadingStates, kernelVars
<1>2. CASE NotReadable
  <2>1. Return(Waiting(conn)) /\ ~conn.readable
    BY <1>2 DEF NotReadable
  <2>2. /\ conn'.https = conn.https /\ conn'.readable = conn.readable /\ conn'.writable = conn.writable
        /\ conn'.state \in Waits /\ conn'.input = conn.input /\ conn'.timerSet = conn.timerSet
        /\ (conn'.state = "kReadingRequestLine" => conn.state # "kReadingHeaders")
    BY <1>1, <2>1 DEF Fields, Return, Waiting, ReadingStates, Waits
  <2>. QED
    BY <1>1, <2>1, <2>2 DEF Stops, Return, ReadingStates, SendingStates
<1>3. CASE ReadsNothing
  <2>. DEFINE c == [conn EXCEPT !.timerSet = TRUE, !.readable = FALSE]
  <2>1. Return(Waiting(c)) /\ ~InReady
    BY <1>3 DEF ReadsNothing
  <2>2. /\ c.https = conn.https /\ ~c.readable /\ c.writable = conn.writable
        /\ c.state = conn.state /\ c.input = conn.input /\ c.timerSet /\ c \in Fields
    BY <1>1 DEF Fields
  <2>. HIDE DEF c
  <2>3. /\ conn'.https = conn.https /\ ~conn'.readable /\ conn'.writable = conn.writable
        /\ conn'.state \in Waits /\ conn'.input = conn.input /\ conn'.timerSet
        /\ (conn'.state = "kReadingRequestLine" => conn.state # "kReadingHeaders")
    BY <1>1, <2>1, <2>2 DEF Fields, Return, Waiting, ReadingStates, Waits
  <2>. QED
    BY <1>1, <2>1, <2>3 DEF Stops, Return, InReady, ReadingStates, SendingStates
<1>. QED
  BY <1>2, <1>3

\* What reading does to the flags.
LEMMA ReceivedFlags ==
  ASSUME Shape, Running(ReadingStates), Reads
  PROVE  /\ Received.writable = conn.writable
         /\ \/ /\ Received.readable = conn.readable /\ rx' = rx
               /\ \/ conn.state = "kAfterRequestLine"
                  \/ conn.state = "kReadingRequestLine" /\ conn.input # <<>>
            \/ Received.readable
            \/ conn.https /\ rx' = <<>> /\ peer = "open"
<1>1. conn \in Fields /\ conn.state \in ReadingStates /\ rx \in Seq(InputUnit)
  BY DEF Running, Shape, TypeOK
<1>2. CASE ~NeedsInput
  <2>1. Received = conn /\ rx' = rx
    BY <1>2 DEF Received, Reads
  <2>2. \/ conn.state = "kAfterRequestLine"
        \/ conn.state = "kReadingRequestLine" /\ conn.input # <<>>
    BY <1>1, <1>2 DEF NeedsInput, Running, ReadingStates
  <2>. QED
    BY <2>1, <2>2
<1>3. CASE NeedsInput
  <2>. DEFINE drained == conn.https /\ Count < ReadSize
  <2>1. /\ Received = [conn EXCEPT !.input = @ \o SubSeq(rx, 1, Count),
                                   !.timerSet = drained, !.readable = ~drained]
        /\ rx' = SubSeq(rx, Count + 1, Len(rx))
        /\ ~(drained /\ peer # "open")
    BY <1>3 DEF Received, Reads
  <2>2. Received.writable = conn.writable /\ Received.readable = ~drained
    BY <1>1, <2>1 DEF Fields
  <2>3. ASSUME drained
        PROVE  rx' = <<>>
    <3>1. Len(rx) \in Nat /\ ReadSize \in Nat
      BY <1>1, SizeAssumption
    <3>2. Count = Len(rx)
      BY <2>3, <3>1, MinOfTwo DEF Count
    <3>3. SubSeq(rx, Len(rx) + 1, Len(rx)) = <<>>
      BY <1>1
    <3>. QED
      BY <2>1, <3>2, <3>3
  <2>. QED
    BY <2>1, <2>2, <2>3
<1>. QED
  BY <1>2, <1>3

\* The same for the two parsers.
LEMMA ReadingTurns ==
  ASSUME Shape, ReadingRequestLine \/ ReadingHeaders
  PROVE  Goes
<1>1. /\ Reads /\ Running(ReadingStates) /\ phase = "running" /\ conn.state \in ReadingStates
      /\ UNCHANGED <<tx, peer, queued, nospace, script, unsent, sent>>
  BY DEF ReadingRequestLine, ReadingHeaders, Running, ReadingStates
<1>2. Received \in Fields /\ Received.https = conn.https
  BY <1>1, ReceivedFits
<1>3. /\ Received.writable = conn.writable
      /\ \/ /\ Received.readable = conn.readable /\ rx' = rx
            /\ \/ conn.state = "kAfterRequestLine"
               \/ conn.state = "kReadingRequestLine" /\ conn.input # <<>>
         \/ Received.readable
         \/ conn.https /\ rx' = <<>> /\ peer = "open"
  BY <1>1, ReceivedFlags
<1>4. /\ UNCHANGED <<phase, alsoWritable>>
      /\ conn'.https = Received.https /\ conn'.readable = Received.readable
      /\ conn'.writable = Received.writable
  <2>. DEFINE c == Received
  <2>0. c \in Fields
    BY <1>2
  <2>1. CASE ReadingHeaders
    <3>1. \/ Continue([Consumed(c, 2) EXCEPT !.state = "kProcessingRequest"])
          \/ Continue([c EXCEPT !.state = "kReadingHeaders"])
          \/ Continue([c EXCEPT !.state = "kPreparingErrorPage"])
      BY <2>1, Zenon DEF ReadingHeaders
    <3>. HIDE DEF c
    <3>. QED
      BY <2>0, <3>1 DEF Continue, Consumed, Fields, c
  <2>2. CASE ReadingRequestLine
    <3>. DEFINE n == Matching(c.input, SubSeq(LineParts, c.line + 1, 2))
    <3>1. PICK req, line, request, state :
            \/ Continue([Consumed(c, n) EXCEPT !.state = state, !.line = line, !.req = req, !.request = request])
            \/ Continue([Consumed(c, n) EXCEPT !.line = @ + n])
            \/ Continue([Consumed(c, n) EXCEPT !.state = state, !.req = req, !.request = request])
      BY <2>2, Zenon DEF ReadingRequestLine
    <3>. HIDE DEF c, n
    <3>. QED
      BY <2>0, <3>1 DEF Continue, Consumed, Fields, c
  <2>. QED
    BY <2>1, <2>2
<1>. QED
  BY <1>1, <1>2, <1>3, <1>4 DEF Goes, Waits, ReadingStates, SendingStates

\* After(w) shows in its flags what became of the write.
LEMMA AfterFlags ==
  ASSUME conn \in Fields, NEW w, w.blocked \in BOOLEAN
  PROVE  After(w).writable = ~w.blocked /\ After(w).timerSet = w.blocked
BY DEF After, Fields

\* A write goes on, unless the buffer of the socket is full.
LEMMA SendTurns ==
  ASSUME Shape, NEW state \in SendingStates, NEW w, Sends(state, w),
         w.pushed \in Seq(OutputUnit), w.blocked \in BOOLEAN, tx + Len(w.pushed) \in 0 .. TxSize,
         w.blocked => tx + Len(w.pushed) = TxSize,
         NEW c, Continue(c), c.https = conn.https, c.readable = conn.readable,
         c.writable = ~w.blocked, c.timerSet = w.blocked, w.blocked => c.state = state
  PROVE  Goes
<1>1. /\ phase = "running" /\ conn.state = state /\ conn.writable /\ peer # "reset"
      /\ tx' = tx + Len(w.pushed) /\ nospace' = (nospace \/ w.blocked)
      /\ UNCHANGED <<rx, peer, queued>>
  BY DEF Sends, Running
<1>2. conn' = c /\ phase' = phase /\ alsoWritable' = alsoWritable
  BY DEF Continue
<1>. QED
  BY <1>1, <1>2 DEF Goes

\* The same for the states that write what is in _M_out ...
LEMMA OutTurns ==
  ASSUME Shape, SendHeaders \/ SendPartHeader \/ SendMultipartFooter
  PROVE  Goes
<1>. DEFINE w == Write(Rest(conn.out), conn.https)
            c == After(w)
            done == [c EXCEPT !.state = "kRequestCompleted"]
            uncorked == [c EXCEPT !.state = "kRequestCompleted", !.corked = FALSE]
            goes == [c EXCEPT !.state = "kSendingBody", !.outp = FirstByte(c)]
            complete == c.outp = Len(conn.out)
<1>1. conn.state \in WithOut /\ conn.state \in SendingStates
  BY DEF SendHeaders, SendPartHeader, SendMultipartFooter, Sends, Running, WithOut, SendingStates
<1>2. /\ w.pushed \in Seq(OutputUnit) /\ w.blocked \in BOOLEAN /\ tx + Len(w.pushed) \in 0 .. TxSize
      /\ c \in Fields /\ c.outp <= Len(c.out)
      /\ c.state = conn.state /\ c.out = conn.out /\ c.https = conn.https
      /\ (~w.blocked <=> c.outp = Len(c.out))
      /\ (w.blocked => tx + Len(w.pushed) = TxSize)
      /\ \A f \in DOMAIN conn \ {"outp", "record", "writable", "timerSet"} : c[f] = conn[f]
  BY <1>1, OutWrite, Zenon
<1>3. c.outp < Len(conn.out) \/ complete
  <2>. DEFINE l == Len(c.out)
  <2>. HIDE DEF w
  <2>1. l \in Nat /\ c.outp \in Nat /\ c.outp <= l
    BY <1>2 DEF Fields
  <2>. HIDE DEF c, l
  <2>2. c.outp < l \/ c.outp = l
    BY <2>1
  <2>. QED
    BY <1>2, <2>2 DEF l
<1>4. /\ Sends(conn.state, w)
      /\ \/ Continue(c)
         \/ complete /\ Continue(done)
         \/ complete /\ Continue(uncorked)
         \/ complete /\ Continue(goes)
  <2>1. CASE SendHeaders
    <3>1. /\ Sends("kSendingHeaders", w)
          /\ \/ Continue(c)
             \/ complete /\ Continue(done)
             \/ complete /\ Continue(goes)
      BY <2>1, Zenon DEF SendHeaders
    <3>2. conn.state = "kSendingHeaders"
      BY <3>1 DEF Sends, Running
    <3>. QED
      BY <3>1, <3>2, Zenon
  <2>2. CASE SendPartHeader
    <3>1. /\ Sends("kSendingPartHeader", w)
          /\ IF c.outp < Len(conn.out) THEN Continue(c) ELSE Continue(goes)
      BY <2>2, Zenon DEF SendPartHeader
    <3>2. conn.state = "kSendingPartHeader"
      BY <3>1 DEF Sends, Running
    <3>. QED
      BY <1>3, <3>1, <3>2, Zenon
  <2>3. CASE SendMultipartFooter
    <3>1. /\ Sends("kSendingMultipartFooter", w)
          /\ IF c.outp < Len(conn.out) THEN Continue(c) ELSE Continue(uncorked)
      BY <2>3, Zenon DEF SendMultipartFooter
    <3>2. conn.state = "kSendingMultipartFooter"
      BY <3>1 DEF Sends, Running
    <3>. QED
      BY <1>3, <3>1, <3>2, Zenon
  <2>. QED
    BY <2>1, <2>2, <2>3
<1>5. c.writable = ~w.blocked /\ c.timerSet = w.blocked
  BY <1>2, AfterFlags DEF Shape, TypeOK
<1>. HIDE DEF w, c
<1>6. c.readable = conn.readable
  BY <1>2 DEF Fields, Shape, TypeOK
<1>7. complete => ~w.blocked
  BY <1>2
<1>8. PICK d \in {c, done, uncorked, goes} : Continue(d) /\ (d = c \/ ~w.blocked)
  BY <1>4, <1>7, Zenon
<1>9. /\ d.https = conn.https /\ d.readable = conn.readable /\ d.writable = ~w.blocked
      /\ d.timerSet = w.blocked /\ (w.blocked => d.state = conn.state)
  <2>1. CASE d = c
    BY <1>2, <1>5, <1>6, <2>1
  <2>2. CASE d = done
    BY <1>2, <1>5, <1>6, <1>8, <2>2 DEF Fields
  <2>3. CASE d = uncorked
    BY <1>2, <1>5, <1>6, <1>8, <2>3 DEF Fields
  <2>4. CASE d = goes
    BY <1>2, <1>5, <1>6, <1>8, <2>4 DEF Fields
  <2>. QED
    BY <1>8, <2>1, <2>2, <2>3, <2>4
<1>. QED
  BY <1>1, <1>2, <1>4, <1>8, <1>9, SendTurns

\* ... for the one that writes two buffers at once ...
LEMMA SendTwoBuffersTurns ==
  ASSUME Shape, SendTwoBuffers
  PROVE  Goes
<1>. DEFINE units == conn.out \o conn.body
            w == Write(Rest(units), conn.https)
            c == After(w)
            d == [c EXCEPT !.state = IF c.outp = Len(units) THEN "kRequestCompleted" ELSE @]
<1>1. Sends("kSendingTwoBuffers", w) /\ Continue(d)
  BY Zenon DEF SendTwoBuffers
<1>2. /\ conn \in Fields /\ conn.state = "kSendingTwoBuffers"
      /\ conn.out \in Seq(OutputUnit) /\ conn.body \in Seq(OutputUnit)
      /\ conn.outp + conn.record <= Len(conn.out) + Len(conn.body)
      /\ "kSendingTwoBuffers" \in SendingStates
  BY <1>1 DEF Sends, Running, Shape, TypeOK, Fields, Offsets, SendingStates
<1>3. units \in Seq(OutputUnit) /\ conn.outp + conn.record <= Len(units)
  BY <1>2, ConcatProperties
<1>. HIDE DEF units
<1>4. /\ w.pushed \in Seq(OutputUnit) /\ w.blocked \in BOOLEAN /\ tx + Len(w.pushed) \in 0 .. TxSize
      /\ c \in Fields /\ (~w.blocked <=> c.outp = Len(units))
      /\ (w.blocked => tx + Len(w.pushed) = TxSize)
      /\ \A f \in DOMAIN conn \ {"outp", "record", "writable", "timerSet"} : c[f] = conn[f]
  BY <1>3, BufferWrite, Zenon
<1>5. c.writable = ~w.blocked /\ c.timerSet = w.blocked
  BY <1>2, <1>4, AfterFlags
<1>. HIDE DEF w, c
<1>6. c.readable = conn.readable /\ c.https = conn.https /\ c.state = conn.state
  BY <1>2, <1>4 DEF Fields
<1>7. /\ d.https = conn.https /\ d.readable = conn.readable /\ d.writable = ~w.blocked
      /\ d.timerSet = w.blocked /\ (w.blocked => d.state = conn.state)
  BY <1>4, <1>5, <1>6 DEF Fields
<1>. HIDE DEF d
<1>. QED
  BY <1>1, <1>2, <1>4, <1>7, SendTurns

\* A write of the body that could not be completed is not the last one.
LEMMA SendBodyTurns ==
  ASSUME Shape, SendBody
  PROVE  Goes
<1>. DEFINE last == LastByte(conn)
            units == P!Bytes(conn.req, conn.outp, last)
            w == Write(units, FALSE)
            c == After(w)
            complete == c.outp = last + 1
            next == [c EXCEPT !.outp = 0, !.nrange = @ + 1]
            done == [c EXCEPT !.corked = FALSE, !.state = "kRequestCompleted"]
            footer == [next EXCEPT !.out = P!Footer(conn.req), !.state = "kSendingMultipartFooter"]
            part == [next EXCEPT !.out = P!Part(conn.req, next.nrange + 1), !.state = "kSendingPartHeader"]
<1>1. /\ Sends("kSendingBody", w)
      /\ \/ Continue(c)
         \/ complete /\ Continue(done)
         \/ complete /\ Continue(footer)
         \/ complete /\ Continue(part)
  BY Zenon DEF SendBody
<1>2. /\ conn \in Fields /\ conn.state = "kSendingBody" /\ "kSendingBody" \in SendingStates
      /\ conn.record = 0
      /\ (conn.request.ranges # <<>> => conn.nrange < Len(conn.request.ranges))
      /\ tx \in 0 .. TxSize /\ conn.outp \in Nat /\ conn.req \in Nat
  <2>1. /\ conn \in Fields /\ conn.state = "kSendingBody" /\ "kSendingBody" \in SendingStates
        /\ conn.record = 0
        /\ (conn.request.ranges # <<>> => conn.nrange < Len(conn.request.ranges))
        /\ tx \in 0 .. TxSize /\ conn.outp \in Nat /\ conn.req \in 0 .. Len(script)
    BY <1>1 DEF Sends, Running, Shape, TypeOK, Fields, Offsets, SendingStates
  <2>. QED
    BY <2>1
<1>3. /\ units \in Seq(OutputUnit) /\ last \in Int
      /\ Len(units) = IF conn.outp <= last THEN last - conn.outp + 1 ELSE 0
  <2>1. last \in Int
    BY <1>2, RangeBounds
  <2>. QED
    BY <1>2, <2>1, PieceTypes
<1>. HIDE DEF units, last
<1>4. /\ w.pushed \in Seq(OutputUnit) /\ w.blocked \in BOOLEAN /\ tx + Len(w.pushed) \in 0 .. TxSize
      /\ w.count \in 0 .. Len(units) /\ w.record = 0 /\ (w.blocked => tx + Len(w.pushed) = TxSize)
      /\ (~w.blocked <=> w.count = Len(units))
  <2>1. conn.record \in 0 .. Len(units)
    <3>1. Len(units) \in Nat
      BY <1>3
    <3>. QED
      BY <1>2, <3>1
  <2>. QED
    BY <1>2, <1>3, <2>1, WriteFits
<1>. HIDE DEF w
<1>5. w.count \in Nat /\ (w.blocked => w.count < Len(units))
  <2>. DEFINE l == Len(units)
  <2>1. l \in Nat /\ w.count \in 0 .. l /\ (w.blocked => w.count # l)
    BY <1>3, <1>4
  <2>. HIDE DEF l
  <2>2. w.count \in Nat /\ (w.blocked => w.count < l)
    BY <2>1
  <2>. QED
    BY <2>2 DEF l
<1>6. /\ c \in Fields /\ c.outp = conn.outp + w.count
      /\ \A f \in DOMAIN conn \ {"outp", "record", "writable", "timerSet"} : c[f] = conn[f]
      /\ c.writable = ~w.blocked /\ c.timerSet = w.blocked
  BY <1>2, <1>4, <1>5, AfterFits, AfterFlags
<1>. HIDE DEF c
<1>7. w.blocked => ~complete
  <2>1. SUFFICES ASSUME w.blocked
                 PROVE  ~complete
    OBVIOUS
  <2>. DEFINE l == Len(units)
              m == w.count
  <2>2. m < l /\ l = (IF conn.outp <= last THEN last - conn.outp + 1 ELSE 0) /\ m \in Nat /\ l \in Nat
    BY <1>3, <1>5, <2>1
  <2>. HIDE DEF l, m
  <2>3. conn.outp + m # last + 1
    BY <1>2, <1>3, <2>2
  <2>. QED
    BY <1>6, <2>3 DEF m
<1>8. /\ c.https = conn.https /\ c.readable = conn.readable /\ c.state = conn.state
  BY <1>2, <1>6 DEF Fields
<1>9. next \in Fields
  <2>1. c.nrange + 1 \in Nat /\ 0 \in Nat
    BY <1>6 DEF Fields
  <2>. QED
    BY <1>6, <2>1 DEF Fields
<1>10. /\ next.https = conn.https /\ next.readable = conn.readable
       /\ next.writable = ~w.blocked /\ next.timerSet = w.blocked
  BY <1>6, <1>8 DEF Fields
<1>. HIDE DEF next
<1>11. PICK d \in {c, done, footer, part} : Continue(d) /\ (d = c \/ ~w.blocked)
  BY <1>1, <1>7, Zenon
<1>12. /\ d.https = conn.https /\ d.readable = conn.readable /\ d.writable = ~w.blocked
       /\ d.timerSet = w.blocked /\ (w.blocked => d.state = conn.state)
  <2>1. CASE d = c
    BY <1>6, <1>8, <2>1
  <2>2. CASE d = done
    BY <1>6, <1>8, <1>11, <2>2 DEF Fields
  <2>3. CASE d = footer
    <3>1. /\ footer.https = next.https /\ footer.readable = next.readable
          /\ footer.writable = next.writable /\ footer.timerSet = next.timerSet
      BY <1>9 DEF Fields
    <3>2. d # c => ~w.blocked
      BY <1>11
    <3>. QED
      BY <1>6, <1>8, <1>10, <2>3, <3>1, <3>2, Zenon
  <2>4. CASE d = part
    <3>1. /\ part.https = next.https /\ part.readable = next.readable
          /\ part.writable = next.writable /\ part.timerSet = next.timerSet
      BY <1>9 DEF Fields
    <3>2. d # c => ~w.blocked
      BY <1>11
    <3>. QED
      BY <1>6, <1>8, <1>10, <2>4, <3>1, <3>2, Zenon
  <2>. QED
    BY <1>11, <2>1, <2>2, <2>3, <2>4
<1>. QED
  BY <1>1, <1>2, <1>4, <1>11, <1>12, SendTurns

\* Preparing a reply lowers no flag.
LEMMA PreparedFlags ==
  ASSUME NEW c \in Fields, NEW more, NEW body, NEW state
  PROVE  LET d == Prepared(c, more, body, state) IN
         d.https = c.https /\ d.readable = c.readable /\ d.writable = c.writable
<1>. DEFINE e == AddCommonHeaders(c)
            d == [e EXCEPT !.out = @ \o P!Opening(e.req, e.keepAlive) \o more, !.body = body, !.state = state]
<1>1. /\ e.https = c.https /\ e.readable = c.readable /\ e.writable = c.writable /\ DOMAIN e = DOMAIN c
  BY DEF AddCommonHeaders, Fields
<1>2. DOMAIN c = {"https", "state", "readable", "writable", "timerSet", "hello", "input", "line",
                  "req", "request", "nrequests", "keepAlive", "out", "outp", "body", "nrange",
                  "record", "file", "corked"}
  BY DEF Fields
<1>. HIDE DEF e
<1>3. d.https = c.https /\ d.readable = c.readable /\ d.writable = c.writable
  BY <1>1, <1>2
<1>4. Prepared(c, more, body, state) = d
  BY DEF Prepared, e
<1>. QED
  BY <1>3, <1>4, Zenon

\* The same for the states that prepare a reply ...
LEMMA PreparingTurns ==
  ASSUME Shape, ProcessRequest \/ PreparingErrorPage
  PROVE  Goes
<1>. DEFINE get == ~conn.request.head
            opened == [conn EXCEPT !.file = get /\ conn.request.answer \in {"file", "unchanged", "unsatisfiable"}]
            failed == [opened EXCEPT !.state = "kPreparingErrorPage"]
            corked == [opened EXCEPT !.corked = opened.file]
<1>1. /\ phase = "running" /\ conn \in Fields /\ UNCHANGED <<kernelVars, script, unsent, sent>>
      /\ conn.state \notin Waits /\ conn.state \notin SendingStates
  BY DEF ProcessRequest, PreparingErrorPage, Running, Shape, TypeOK, Waits, SendingStates
<1>2. PICK more, body, state :
        \/ Continue(failed)
        \/ Continue(Prepared(conn, more, body, state))
        \/ Continue(Prepared(corked, more, body, state))
  <2>1. CASE ProcessRequest
    BY <2>1, Zenon DEF ProcessRequest
  <2>2. CASE PreparingErrorPage
    BY <2>2, Zenon DEF PreparingErrorPage
  <2>. QED
    BY <2>1, <2>2
<1>3. opened \in Fields /\ opened.https = conn.https /\ opened.readable = conn.readable /\ opened.writable = conn.writable
      /\ opened.file \in BOOLEAN
  <2>. DEFINE file == get /\ conn.request.answer \in {"file", "unchanged", "unsatisfiable"}
  <2>1. file \in BOOLEAN
    BY <1>1 DEF Fields, Request
  <2>. HIDE DEF file
  <2>2. [conn EXCEPT !.file = file] \in Fields
    BY <1>1, <2>1 DEF Fields
  <2>3. LET o == [conn EXCEPT !.file = file] IN
        o.https = conn.https /\ o.readable = conn.readable /\ o.writable = conn.writable /\ o.file \in BOOLEAN
    BY <1>1, <2>1 DEF Fields
  <2>. QED
    BY <2>2, <2>3 DEF file
<1>. HIDE DEF opened
<1>4. corked \in Fields /\ corked.https = conn.https /\ corked.readable = conn.readable /\ corked.writable = conn.writable
  BY <1>3 DEF Fields
<1>5. failed.https = conn.https /\ failed.readable = conn.readable /\ failed.writable = conn.writable
  BY <1>3 DEF Fields
<1>. HIDE DEF corked, failed
<1>6. PICK d : /\ Continue(d)
               /\ d.https = conn.https /\ d.readable = conn.readable /\ d.writable = conn.writable
  <2>1. /\ Prepared(conn, more, body, state).https = conn.https
        /\ Prepared(conn, more, body, state).readable = conn.readable
        /\ Prepared(conn, more, body, state).writable = conn.writable
    BY <1>1, PreparedFlags
  <2>2. /\ Prepared(corked, more, body, state).https = conn.https
        /\ Prepared(corked, more, body, state).readable = conn.readable
        /\ Prepared(corked, more, body, state).writable = conn.writable
    BY <1>4, PreparedFlags
  <2>. QED
    BY <1>2, <1>5, <2>1, <2>2, Zenon
<1>. QED
  BY <1>1, <1>6 DEF Goes, Continue, kernelVars

\* ... for those that cannot write ...
LEMMA NotWritableTurns ==
  ASSUME Shape, NotWritable
  PROVE  Stops
BY DEF NotWritable, Running, Return, Stops, kernelVars

\* ... and for the end of a request.
LEMMA RequestCompletedTurns ==
  ASSUME Shape, RequestCompleted
  PROVE  Goes \/ phase' = "closed"
<1>1. /\ conn.state = "kRequestCompleted" /\ phase = "running" /\ conn \in Fields
      /\ UNCHANGED <<rx, tx, peer, queued, nospace>>
  BY DEF RequestCompleted, Running, kernelVars, Shape, TypeOK
<1>2. CASE Drop
  BY <1>2 DEF Drop
<1>3. CASE Continue(Reset(conn))
  <2>1. conn'.https = conn.https /\ conn'.readable = conn.readable /\ conn'.writable = conn.writable
    BY <1>1, <1>3 DEF Fields, Reset, Continue
  <2>. QED
    BY <1>1, <1>3, <2>1 DEF Goes, Continue, Waits, SendingStates
<1>. QED
  BY <1>2, <1>3 DEF RequestCompleted

\* A turn of run() goes on, waits for the socket or ends the connection.
LEMMA RunTurns ==
  ASSUME Shape, Run
  PROVE  Goes \/ Stops \/ phase' = "closed"
<1>1. ASSUME ReadFails \/ SendFails
      PROVE  phase' = "closed"
  BY <1>1 DEF ReadFails, SendFails, Drop
<1>. QED
  BY <1>1, HandshakeTurns, WaitingTurns, ReadingTurns, PreparingTurns, NotWritableTurns,
     SendTwoBuffersTurns, OutTurns, SendBodyTurns, RequestCompletedTurns
     DEF Run, Reading, Replying

\* The event loop and the client, too, keep what wakes the connection.
LEMMA OthersKeepEdges ==
  ASSUME Shape, Edges, EventLoop \/ Expire \/ Client \/ UNCHANGED vars
  PROVE  Edges'
<1>0. conn \in Fields /\ TxSize \in Nat
      /\ phase \in {"asleep", "running", "returned", "closed"}
  BY SizeAssumption DEF Shape, TypeOK
<1>1. CASE Deliver
  <2>1. /\ conn' = (IF InReady THEN [conn EXCEPT !.readable = TRUE] ELSE [conn EXCEPT !.writable = TRUE])
        /\ phase' = "running" /\ alsoWritable' = (InReady /\ OutReady) /\ ~queued'
        /\ nospace' = (nospace \/ ~OutReady) /\ (InReady \/ OutReady)
        /\ InReady' = InReady /\ OutReady' = OutReady
    BY <1>1 DEF Deliver, InReady, OutReady
  <2>2. InReady => conn'.readable
    BY <1>0, <2>1 DEF Fields
  <2>3. ~InReady => conn'.writable
    BY <1>0, <2>1 DEF Fields
  <2>. QED
    BY <2>1, <2>2, <2>3 DEF Edges
<1>2. CASE Discard
  BY <1>2 DEF Discard, processVars, Edges, InReady, OutReady, SendingStates
<1>3. CASE OnWritable
  <2>1. /\ conn' = [conn EXCEPT !.writable = TRUE] /\ phase = "returned" /\ phase' = "running"
        /\ queued' = queued /\ InReady' = InReady
    BY <1>3 DEF OnWritable, kernelVars, InReady
  <2>2. conn'.writable /\ conn'.readable = conn.readable
    BY <1>0, <2>1 DEF Fields
  <2>. QED
    BY <2>1, <2>2 DEF Edges
<1>4. CASE Expire
  BY <1>4, ClosedKeeps DEF Expire, Drop
<1>5. CASE ClientSends \/ ClientEnds
  BY <1>5 DEF ClientSends, ClientEnds, processVars, Edges, SendingStates
<1>6. CASE ClientReads
  <2>1. /\ UNCHANGED <<phase, alsoWritable, conn>> /\ queued' = (queued \/ nospace)
        /\ InReady' = InReady
    BY <1>6 DEF ClientReads, processVars, InReady
  <2>. QED
    BY <2>1 DEF Edges, SendingStates
<1>7. CASE UNCHANGED vars
  BY <1>7 DEF vars, processVars, kernelVars, Edges, InReady, OutReady, SendingStates
<1>. QED
  BY <1>1, <1>2, <1>3, <1>4, <1>5, <1>6, <1>7 DEF EventLoop, Client

\* Nobody but run() stops the timer of a connection that needs it.
LEMMA OthersKeepTimers ==
  ASSUME Shape, Timers, EventLoop \/ Expire \/ Client \/ UNCHANGED vars
  PROVE  Timers'
<1>0. conn \in Fields /\ TxSize \in Nat \ {0} /\ tx \in 0 .. TxSize
      /\ phase \in {"asleep", "running", "returned", "closed"}
      /\ (alsoWritable => phase \in {"running", "returned"})
  BY SizeAssumption DEF Shape, TypeOK
<1>1. CASE Deliver
  <2>1. /\ conn' = (IF InReady THEN [conn EXCEPT !.readable = TRUE] ELSE [conn EXCEPT !.writable = TRUE])
        /\ phase = "asleep" /\ alsoWritable' = (InReady /\ OutReady) /\ (InReady \/ OutReady)
        /\ (tx = 0 => OutReady)
    BY <1>0, <1>1 DEF Deliver, OutReady
  <2>2. CASE InReady
    <3>1. /\ conn'.readable /\ conn'.https = conn.https /\ conn'.writable = conn.writable
          /\ conn'.state = conn.state /\ conn'.timerSet = conn.timerSet
      BY <1>0, <2>1, <2>2 DEF Fields
    <3>. QED
      BY <1>0, <2>1, <2>2, <3>1 DEF Timers, SendingStates
  <2>3. CASE ~InReady
    <3>1. /\ conn'.writable /\ conn'.https = conn.https /\ conn'.readable = conn.readable
          /\ conn'.state = conn.state /\ conn'.timerSet = conn.timerSet /\ conn'.input = conn.input
      BY <1>0, <2>1, <2>3 DEF Fields
    <3>. QED
      BY <2>1, <3>1 DEF Timers, Waits
  <2>. QED
    BY <2>2, <2>3
<1>2. CASE Discard
  BY <1>2 DEF Discard, processVars, Timers, SendingStates, Waits
<1>3. CASE OnWritable
  <2>1. conn' = [conn EXCEPT !.writable = TRUE] /\ phase = "returned"
    BY <1>3 DEF OnWritable
  <2>2. /\ conn'.writable /\ conn'.https = conn.https /\ conn'.readable = conn.readable
        /\ conn'.state = conn.state /\ conn'.timerSet = conn.timerSet /\ conn'.input = conn.input
    BY <1>0, <2>1 DEF Fields
  <2>. QED
    BY <2>1, <2>2 DEF Timers, Waits
<1>4. CASE Expire
  BY <1>4, ClosedKeeps DEF Expire, Drop
<1>5. CASE ClientSends \/ ClientEnds
  BY <1>5 DEF ClientSends, ClientEnds, processVars, Timers, SendingStates, Waits
<1>6. CASE ClientReads
  <2>1. UNCHANGED <<phase, alsoWritable, conn>> /\ tx # 0
    BY <1>0, <1>6 DEF ClientReads, processVars
  <2>. QED
    BY <2>1 DEF Timers, SendingStates, Waits
<1>7. CASE UNCHANGED vars
  BY <1>7 DEF vars, processVars, kernelVars, Timers, SendingStates, Waits
<1>. QED
  BY <1>1, <1>2, <1>3, <1>4, <1>5, <1>6, <1>7 DEF EventLoop, Client

\* A new connection has its timer, and an edge to come.
LEMMA WakingInit == Init => Edges /\ Timers
<1>1. SUFFICES ASSUME Init
               PROVE  Edges /\ Timers
  OBVIOUS
<1>2. /\ phase = "asleep" /\ ~alsoWritable /\ queued /\ tx = 0
  BY <1>1 DEF Init
<1>3. /\ conn.state = "kHandshaking" /\ ~conn.readable /\ ~conn.writable /\ conn.timerSet
  BY <1>1 DEF Init, NewConnection
<1>. QED
  BY <1>2, <1>3 DEF Edges, Timers, Waits, SendingStates

\* Every step keeps both.
LEMMA WakingNext ==
  ASSUME Shape, [Next]_vars
  PROVE  (Edges => Edges') /\ (Timers => Timers')
<1>1. CASE Run
  BY <1>1, RunTurns, GoesKeepsEdges, GoesKeepsTimers, StopsKeepsEdges, StopsKeepsTimers, ClosedKeeps
<1>2. CASE EventLoop \/ Expire \/ Client \/ UNCHANGED vars
  BY <1>2, OthersKeepEdges, OthersKeepTimers
<1>. QED
  BY <1>1, <1>2 DEF Next, Terminated

\* run() and the edge-triggered epoll: a connection that sleeps without an
\* event on its way has nothing to do.
THEOREM NoEdgeIsLost == Spec => []NoLostEdge
<1>1. Shape /\ Edges => NoLostEdge
  <2>1. SUFFICES ASSUME Shape, Edges, Idle
                 PROVE  IF AwaitsOutput THEN tx = TxSize /\ nospace /\ peer # "reset"
                                        ELSE rx = <<>> /\ peer = "open"
    BY DEF NoLostEdge
  <2>2. phase = "asleep" /\ ~queued /\ ~alsoWritable /\ tx \in 0 .. TxSize /\ TxSize \in Nat
    BY <2>1, SizeAssumption DEF Idle, Shape, TypeOK
  <2>3. CASE AwaitsOutput
    <3>1. ~OutReady /\ nospace
      BY <2>1, <2>2, <2>3 DEF Edges, AwaitsOutput
    <3>. QED
      BY <2>2, <2>3, <3>1 DEF OutReady
  <2>4. CASE ~AwaitsOutput
    <3>1. ~InReady
      BY <2>1, <2>2, <2>4 DEF Edges, AwaitsOutput
    <3>. QED
      BY <2>4, <3>1 DEF InReady
  <2>. QED
    BY <2>3, <2>4
<1>2. Edges /\ Shape /\ [Next]_vars => Edges'
  BY WakingNext
<1>3. Init => Edges
  BY WakingInit
<1>. QED
  BY <1>1, <1>2, <1>3, ShapeIsInvariant, PTL DEF Spec

\* Without TLS the idle timer runs whenever the connection sleeps.
THEOREM TimerRunsWithoutTls == Spec => []ArmedIfPlain
<1>1. Shape /\ Edges /\ Timers => ArmedIfPlain
  <2>1. SUFFICES ASSUME Shape, Edges, Timers, ~conn.https, Idle
                 PROVE  conn.timerSet
    BY DEF ArmedIfPlain, Armed
  <2>2. phase = "asleep" /\ ~queued /\ ~alsoWritable
    BY <2>1 DEF Idle, Shape, TypeOK
  <2>3. IF conn.state \in SendingStates THEN ~conn.writable ELSE ~conn.readable
    BY <2>1, <2>2 DEF Edges
  <2>. QED
    BY <2>1, <2>2, <2>3 DEF Timers
<1>2. Edges /\ Timers /\ Shape /\ [Next]_vars => Edges' /\ Timers'
  BY WakingNext
<1>3. Init => Edges /\ Timers
  BY WakingInit
<1>. QED
  BY <1>1, <1>2, <1>3, ShapeIsInvariant, PTL DEF Spec

-----------------------------------------------------------------------------
(* Where the requests are in the stream.                                   *)

\* e[i] is where request i of s ends in the stream all, whose first h units are
\* the handshake.
Ends(e, s, all, h) ==
  /\ e \in [0 .. Len(s) -> Nat] /\ e[0] = h /\ e[Len(s)] = Len(all)
  /\ \A i \in 1 .. Len(s) :
       /\ e[i] = e[i - 1] + Len(PartsOf(s[i])) /\ Len(PartsOf(s[i])) \in Nat
       /\ \A k \in 1 .. Len(PartsOf(s[i])) : all[e[i - 1] + k] = [req |-> i, part |-> PartsOf(s[i])[k]]
  /\ \A m \in 1 .. h : all[m].req = 0

\* There are such places in the stream of every client.
LEMMA StreamEnds ==
  ASSUME script \in Scripts, NEW https \in BOOLEAN
  PROVE  \E e : Ends(e, script, Stream(script, https), HelloOf(https))
<1>. DEFINE units == [i \in DOMAIN script |-> UnitsOf(script, i)]
            h == HelloOf(https)
            n == Len(script)
            all == Requested(script)
            stream == Stream(script, https)
<1>1. n \in Nat /\ units \in [1 .. n -> Seq(AskedUnit)] /\ DOMAIN script = 1 .. n
  BY RequestedType
<1>2. all = FlattenSeq(units) /\ \A i \in 1 .. n : units[i] = UnitsOf(script, i)
  BY <1>1 DEF Requested
<1>3. h \in Nat /\ \A m \in 1 .. h : Hello(https)[m].req = 0
  BY HelloType
<1>4. /\ Len(stream) = h + Len(all)
      /\ \A m \in 1 .. h : stream[m] = Hello(https)[m]
      /\ \A m \in 1 .. Len(all) : stream[h + m] = all[m]
  BY StreamIs
<1>5. \A i \in 1 .. n : /\ Len(UnitsOf(script, i)) = Len(PartsOf(script[i])) /\ Len(PartsOf(script[i])) \in Nat
                        /\ \A k \in 1 .. Len(PartsOf(script[i])) :
                             UnitsOf(script, i)[k] = [req |-> i, part |-> PartsOf(script[i])[k]]
  <2>1. SUFFICES ASSUME NEW i \in 1 .. n
                 PROVE  /\ Len(UnitsOf(script, i)) = Len(PartsOf(script[i])) /\ Len(PartsOf(script[i])) \in Nat
                        /\ \A k \in 1 .. Len(PartsOf(script[i])) :
                             UnitsOf(script, i)[k] = [req |-> i, part |-> PartsOf(script[i])[k]]
    BY Zenon
  <2>2. PartsOf(script[i]) \in Seq(Parted)
    BY UnitsType
  <2>. QED
    BY <2>2, UnitsType
<1>. HIDE DEF units, h, n, all, stream
<1>6. PICK f \in [0 .. n -> Nat] : EndsAt(f, all, units, n)
  BY <1>1, <1>2, FlattenPlaces
<1>. DEFINE e == [i \in 0 .. n |-> h + f[i]]
<1>7. e \in [0 .. n -> Nat] /\ \A i \in 0 .. n : e[i] = h + f[i] /\ f[i] \in Nat
  BY <1>3, <1>6
<1>. HIDE DEF e
<1>8. e[0] = h /\ e[n] = Len(stream)
  BY <1>1, <1>3, <1>4, <1>6, <1>7 DEF EndsAt
<1>9. ASSUME NEW i \in 1 .. n
      PROVE  /\ e[i] = e[i - 1] + Len(PartsOf(script[i])) /\ Len(PartsOf(script[i])) \in Nat
             /\ \A k \in 1 .. Len(PartsOf(script[i])) :
                  stream[e[i - 1] + k] = [req |-> i, part |-> PartsOf(script[i])[k]]
  <2>. DEFINE l == Len(PartsOf(script[i]))
  <2>1. l \in Nat /\ Len(units[i]) = l /\ units[i] = UnitsOf(script, i)
    BY <1>2, <1>5
  <2>2. f[i] = f[i - 1] + l /\ \A k \in 1 .. l : all[f[i - 1] + k] = units[i][k]
    BY <1>6, <2>1 DEF EndsAt
  <2>3. e[i] = h + f[i] /\ e[i - 1] = h + f[i - 1] /\ f[i] \in Nat /\ f[i - 1] \in Nat
    <3>1. i \in 0 .. n /\ i - 1 \in 0 .. n
      BY <1>1
    <3>. QED
      BY <1>7, <3>1
  <2>4. \A k \in 1 .. l : units[i][k] = [req |-> i, part |-> PartsOf(script[i])[k]]
    BY <1>5, <2>1
  <2>5. f[i] <= Len(all) /\ Len(all) \in Nat
    <3>1. \A j \in 1 .. n : f[j - 1] <= f[j]
      <4>1. SUFFICES ASSUME NEW j \in 1 .. n
                     PROVE  f[j - 1] <= f[j]
        OBVIOUS
      <4>2. Len(units[j]) \in Nat /\ f[j] = f[j - 1] + Len(units[j]) /\ f[j - 1] \in Nat
        <5>1. j - 1 \in 0 .. n /\ units[j] \in Seq(AskedUnit)
          BY <1>1
        <5>. QED
          BY <1>6, <5>1 DEF EndsAt
      <4>. QED
        BY <4>2
    <3>2. f \in [0 .. n -> Int] /\ i \in 0 .. n /\ n \in 0 .. n /\ i <= n
      BY <1>1
    <3>3. f[i] <= f[n]
      BY <1>1, <3>1, <3>2, NeverFalls
    <3>. QED
      BY <1>1, <1>6, <3>3 DEF EndsAt
  <2>. HIDE DEF l
  <2>6. ASSUME NEW k \in 1 .. l
        PROVE  stream[e[i - 1] + k] = units[i][k]
    <3>1. f[i - 1] + k \in 1 .. Len(all) /\ e[i - 1] + k = h + (f[i - 1] + k)
      <4>. DEFINE a == f[i - 1]
                  b == Len(all)
      <4>1. a \in Nat /\ b \in Nat /\ a + l <= b /\ e[i - 1] = h + a
        BY <2>2, <2>3, <2>5
      <4>. HIDE DEF a, b
      <4>2. a + k \in 1 .. b /\ e[i - 1] + k = h + (a + k)
        BY <1>3, <2>1, <4>1
      <4>. QED
        BY <4>2, Zenon DEF a, b
    <3>2. stream[h + (f[i - 1] + k)] = all[f[i - 1] + k]
      BY <1>4, <3>1
    <3>. QED
      BY <2>2, <3>1, <3>2
  <2>7. e[i] = e[i - 1] + l
    BY <1>3, <2>1, <2>2, <2>3
  <2>. QED
    BY <2>1, <2>4, <2>6, <2>7 DEF l
<1>10. \A m \in 1 .. h : stream[m].req = 0
  BY <1>3, <1>4
<1>11. Ends(e, script, stream, h)
  BY <1>7, <1>8, <1>9, <1>10 DEF Ends, n
<1>. QED
  BY <1>11 DEF stream, h

\* A request ends behind the one before.
LEMMA EndsRise ==
  ASSUME NEW s \in Seq(Request), NEW all, NEW h \in Nat, NEW e, Ends(e, s, all, h)
  PROVE  \A i \in 0 .. Len(s), j \in 0 .. Len(s) : i <= j => e[i] <= e[j]
<1>. DEFINE n == Len(s)
<1>1. n \in Nat /\ e \in [0 .. n -> Int]
  BY DEF Ends
<1>2. \A j \in 1 .. n : e[j - 1] <= e[j]
  <2>1. SUFFICES ASSUME NEW j \in 1 .. n
                 PROVE  e[j - 1] <= e[j]
    OBVIOUS
  <2>2. j - 1 \in 0 .. n
    BY <1>1
  <2>3. e[j] = e[j - 1] + Len(PartsOf(s[j])) /\ Len(PartsOf(s[j])) \in Nat /\ e[j - 1] \in Nat
    BY <2>2 DEF Ends
  <2>. QED
    BY <2>3
<1>. HIDE DEF n
<1>3. \A i \in 0 .. n, j \in 0 .. n : i <= j => e[i] <= e[j]
  BY <1>1, <1>2, NeverFalls
<1>. QED
  BY <1>3 DEF n

\* Whose request a unit belongs to.
LEMMA WhoseUnit ==
  ASSUME NEW s \in Seq(Request), NEW all, NEW h \in Nat, NEW e, Ends(e, s, all, h),
         NEW m \in 1 .. Len(all), NEW r \in 0 .. Len(s)
  PROVE  /\ all[m].req \in Nat
         /\ m <= e[r] => all[m].req <= r
         /\ m > e[r] => all[m].req > r
<1>. DEFINE n == Len(s)
<1>1. n \in Nat /\ e \in [0 .. n -> Nat] /\ e[0] = h /\ e[n] = Len(all) /\ r \in 0 .. n
  BY DEF Ends
<1>2. e[0] <= e[r]
  BY <1>1, EndsRise
<1>3. CASE m <= h
  <2>1. all[m].req = 0
    BY <1>3 DEF Ends
  <2>. QED
    BY <1>1, <1>2, <1>3, <2>1
<1>4. CASE m > h
  <2>. DEFINE T == {i \in 0 .. n : m <= e[i]}
  <2>1. T \in SUBSET Nat /\ n \in T
    BY <1>1
  <2>2. PICK i \in T : \A j \in T : i <= j
    <3>. HIDE DEF T
    <3>. QED
      BY <2>1, LeastNat
  <2>3. i \in 0 .. n /\ m <= e[i] /\ i # 0
    BY <1>1, <1>4
  <2>4. i \in 1 .. n /\ i - 1 \in 0 .. n /\ i - 1 \notin T
    BY <1>1, <2>2, <2>3
  <2>5. e[i - 1] < m /\ e[i - 1] \in Nat /\ e[i] \in Nat
    BY <1>1, <2>4
  <2>6. /\ e[i] = e[i - 1] + Len(PartsOf(s[i])) /\ Len(PartsOf(s[i])) \in Nat
        /\ \A k \in 1 .. Len(PartsOf(s[i])) : all[e[i - 1] + k] = [req |-> i, part |-> PartsOf(s[i])[k]]
    BY <2>4 DEF Ends
  <2>7. m - e[i - 1] \in 1 .. Len(PartsOf(s[i])) /\ e[i - 1] + (m - e[i - 1]) = m
    BY <2>3, <2>5, <2>6, SMTT(30)
  <2>8. all[m].req = i
    <3>1. all[e[i - 1] + (m - e[i - 1])] = [req |-> i, part |-> PartsOf(s[i])[m - e[i - 1]]]
      BY <2>6, <2>7
    <3>. QED
      BY <2>7, <3>1
  <2>9. m <= e[r] => i <= r
    <3>1. m <= e[r] => r \in T
      BY <1>1
    <3>. QED
      BY <2>2, <3>1
  <2>10. m > e[r] => i > r
    <3>1. i <= r => e[i] <= e[r]
      BY <1>1, <2>3, EndsRise
    <3>. QED
      BY <1>1, <2>3, <2>5, <3>1
  <2>. QED
    BY <2>3, <2>8, <2>9, <2>10
<1>. QED
  BY <1>1, <1>3, <1>4

\* Behind requests without a flaw.
LEMMA PlainEnds ==
  ASSUME NEW s \in Seq(Request), NEW all, NEW h \in Nat, NEW e, Ends(e, s, all, h),
         NEW r \in 0 .. Len(s), \A j \in 1 .. r : s[j].flaw = "none"
  PROVE  e[r] = h + 4 * r
<1>. DEFINE T == {i \in Nat : i <= r => e[i] = h + 4 * i}
<1>1. 0 \in T
  BY DEF Ends
<1>2. ASSUME NEW i \in Nat, i \in T
      PROVE  i + 1 \in T
  <2>1. SUFFICES ASSUME i + 1 <= r
                 PROVE  e[i + 1] = h + 4 * (i + 1)
    OBVIOUS
  <2>2. e[i] = h + 4 * i
    BY <1>2, <2>1
  <2>3. i + 1 \in 1 .. Len(s) /\ i + 1 \in 1 .. r /\ (i + 1) - 1 = i
    BY <2>1
  <2>4. e[i + 1] = e[i] + Len(PartsOf(s[i + 1]))
    BY <2>3 DEF Ends
  <2>5. Len(PartsOf(s[i + 1])) = 4
    <3>1. s[i + 1] \in Request /\ s[i + 1].flaw = "none"
      BY <2>3
    <3>. QED
      BY <3>1, PartsOfRequest
  <2>. QED
    BY <2>2, <2>4, <2>5
<1>. HIDE DEF T
<1>3. r \in T
  BY <1>1, <1>2, InductionOverNat
<1>. QED
  BY <1>3 DEF T

-----------------------------------------------------------------------------
(* How many requests have been sent.                                       *)

AskedOf(s, u) == IF u = <<>> THEN Len(s) ELSE Max({0, u[1].req - 1})

\* What is left to send is the rest of the stream.
IsRest(s, https, u) ==
  /\ u \in Seq(InputUnit) /\ Len(u) <= Len(Stream(s, https))
  /\ IsAt(u, Stream(s, https), Len(Stream(s, https)) - Len(u))

\* That is so for every connection.
LEMMA AlignedRest ==
  ASSUME script \in Scripts, NEW c \in Fields, NEW r \in Seq(InputUnit), NEW u \in Seq(InputUnit),
         Aligned(script, c, r, u), Taken(script, c, r, u) >= 0
  PROVE  /\ IsRest(script, c.https, u)
         /\ Taken(script, c, r, u) + Len(c.input) <= Len(Stream(script, c.https)) - Len(u)
<1>. DEFINE all == Stream(script, c.https)
            a == Len(all)
            i == Len(c.input)
            j == Len(r)
            l == Len(u)
            k == Taken(script, c, r, u)
<1>1. c.https \in BOOLEAN /\ c.input \in Seq(InputUnit)
  BY ChoiceAssumption DEF Fields
<1>2. all \in Seq(InputUnit)
  BY <1>1, StreamType
<1>3. a \in Nat /\ i \in Nat /\ j \in Nat /\ l \in Nat
  BY <1>1, <1>2
<1>4. k = a - l - j - i
  BY DEF Taken
<1>5. IsAt(u, all, k + i + j)
  BY DEF Aligned
<1>6. k >= 0
  OBVIOUS
<1>. HIDE DEF all, a, i, j, l, k
<1>7. k + i + j = a - l /\ l <= a /\ k + i <= a - l
  BY <1>3, <1>4, <1>6
<1>8. IsAt(u, all, a - l)
  BY <1>5, <1>7, Zenon
<1>. QED
  BY <1>7, <1>8, Zenon DEF IsRest, all, a, l, k, i

\* The requests sent are some of the script's; r of them are when the stream
\* has been sent to where the r-th ends, and no more than when more of it is.
LEMMA AskedBounds ==
  ASSUME script \in Scripts, NEW https \in BOOLEAN, NEW u, IsRest(script, https, u),
         NEW e, Ends(e, script, Stream(script, https), HelloOf(https)),
         NEW r \in 1 .. Len(script)
  PROVE  /\ AskedOf(script, u) \in 0 .. Len(script)
         /\ Len(Stream(script, https)) - Len(u) >= e[r] <=> AskedOf(script, u) >= r
<1>. DEFINE all == Stream(script, https)
            n == Len(script)
            h == HelloOf(https)
            m == Len(all) - Len(u) + 1
<1>1. script \in Seq(Request) /\ n \in Nat /\ all \in Seq(InputUnit) /\ h \in Nat
  BY RequestedType, StreamType, HelloType
<1>2. /\ e \in [0 .. n -> Nat] /\ e[n] = Len(all) /\ Ends(e, script, all, h)
      /\ e[r] <= e[n] /\ e[r] \in Nat
  <2>1. e \in [0 .. n -> Nat] /\ e[n] = Len(all) /\ Ends(e, script, all, h) /\ r \in 0 .. n /\ n \in 0 .. n
    BY <1>1 DEF Ends
  <2>. QED
    BY <1>1, <2>1, EndsRise
<1>3. u \in Seq(InputUnit) /\ Len(u) <= Len(all) /\ IsAt(u, all, Len(all) - Len(u))
  BY DEF IsRest
<1>4. Len(u) \in Nat /\ Len(all) \in Nat
  BY <1>1, <1>3
<1>. HIDE DEF all, n, h
<1>5. CASE u = <<>>
  <2>1. Len(u) = 0 /\ AskedOf(script, u) = n
    BY <1>5 DEF AskedOf, n
  <2>2. r <= n /\ r \in Nat
    BY DEF n
  <2>. QED
    BY <1>1, <1>2, <1>4, <2>1, <2>2 DEF all, n
<1>6. CASE u # <<>>
  <2>1. m \in 1 .. Len(all) /\ u[1] = all[m]
    <3>1. Len(u) >= 1
      BY <1>3, <1>6
    <3>2. u[1] = all[Len(all) - Len(u) + 1]
      BY <1>3, <1>4, <3>1 DEF IsAt
    <3>. QED
      BY <1>3, <1>4, <3>1, <3>2
  <2>. DEFINE q == all[m].req
  <2>2. q \in Nat /\ q <= n
    <3>1. n \in 0 .. n
      BY <1>1
    <3>2. q \in Nat /\ (m <= e[n] => q <= n)
      BY <1>1, <1>2, <2>1, <3>1, WhoseUnit DEF n
    <3>. QED
      BY <1>2, <2>1, <3>2
  <2>3. (m <= e[r] => q <= r) /\ (m > e[r] => q > r)
    <3>1. r \in 0 .. n
      BY <1>1 DEF n
    <3>. QED
      BY <1>1, <1>2, <2>1, <3>1, WhoseUnit DEF n
  <2>4. AskedOf(script, u) = IF 0 >= q - 1 THEN 0 ELSE q - 1
    <3>1. AskedOf(script, u) = Max({0, q - 1})
      BY <1>6, <2>1, Zenon DEF AskedOf
    <3>2. q - 1 \in Int
      BY <2>2
    <3>. HIDE DEF q
    <3>3. Max({0, q - 1}) = IF 0 >= q - 1 THEN 0 ELSE q - 1
      BY <3>2, MaxOfTwo
    <3>. QED
      BY <3>1, <3>3, Zenon
  <2>5. m \in Nat /\ (Len(all) - Len(u) >= e[r] <=> m > e[r]) /\ r \in Nat /\ r >= 1
    BY <1>2, <1>4, <2>1
  <2>. HIDE DEF q, m
  <2>6. AskedOf(script, u) \in 0 .. n /\ (m > e[r] <=> AskedOf(script, u) >= r)
    BY <1>1, <1>2, <2>2, <2>3, <2>4, <2>5
  <2>. QED
    BY <2>5, <2>6 DEF all, n
<1>. QED
  BY <1>5, <1>6

\* How many requests have been sent is a number of requests.
LEMMA AskedType ==
  ASSUME script \in Scripts, NEW https \in BOOLEAN, NEW u, IsRest(script, https, u)
  PROVE  AskedOf(script, u) \in 0 .. Len(script)
<1>1. script \in Seq(Request) /\ Len(script) \in Nat
  BY RequestedType
<1>2. PICK e : Ends(e, script, Stream(script, https), HelloOf(https))
  BY StreamEnds
<1>3. CASE Len(script) # 0
  <2>1. 1 \in 1 .. Len(script)
    BY <1>1, <1>3
  <2>. QED
    BY <1>2, <2>1, AskedBounds
<1>4. CASE Len(script) = 0
  <2>1. CASE u = <<>>
    BY <1>4, <2>1 DEF AskedOf
  <2>2. CASE u # <<>>
    <3>. DEFINE all == Stream(script, https)
                m == Len(all) - Len(u) + 1
    <3>1. u \in Seq(InputUnit) /\ Len(u) <= Len(all) /\ IsAt(u, all, Len(all) - Len(u)) /\ all \in Seq(InputUnit)
      BY StreamType DEF IsRest
    <3>2. Len(u) >= 1 /\ Len(u) \in Nat /\ Len(all) \in Nat
      BY <2>2, <3>1
    <3>. HIDE DEF all
    <3>3. m \in 1 .. Len(all) /\ u[1] = all[m]
      <4>1. u[1] = all[Len(all) - Len(u) + 1]
        BY <3>1, <3>2 DEF IsAt
      <4>. QED
        BY <3>1, <3>2, <4>1
    <3>4. Ends(e, script, all, HelloOf(https)) /\ HelloOf(https) \in Nat /\ e[Len(script)] = Len(all)
      BY <1>2, HelloType DEF all, Ends
    <3>5. all[m].req \in Nat /\ all[m].req <= 0
      <4>1. Len(script) \in 0 .. Len(script)
        BY <1>1
      <4>2. all[m].req \in Nat /\ (m <= e[Len(script)] => all[m].req <= Len(script))
        BY <1>1, <3>3, <3>4, <4>1, WhoseUnit
      <4>. QED
        BY <1>4, <3>3, <3>4, <4>2
    <3>. DEFINE q == u[1].req
    <3>6. q = 0
      BY <3>3, <3>5
    <3>7. AskedOf(script, u) = Max({0, q - 1})
      BY <2>2, Zenon DEF AskedOf
    <3>8. q - 1 = -1
      BY <3>6
    <3>. HIDE DEF q
    <3>9. Max({0, -1}) = 0
      BY MaxOfTwo
    <3>. QED
      BY <1>4, <3>7, <3>8, <3>9
  <2>. QED
    BY <2>1, <2>2
<1>. QED
  BY <1>3, <1>4

\* It never falls while the client sends.
LEMMA AskedGrows ==
  ASSUME script \in Scripts, NEW https \in BOOLEAN, NEW u, IsRest(script, https, u),
         NEW v, IsRest(script, https, v), Len(v) <= Len(u)
  PROVE  AskedOf(script, u) <= AskedOf(script, v)
<1>1. PICK e : Ends(e, script, Stream(script, https), HelloOf(https))
  BY StreamEnds
<1>. DEFINE a == AskedOf(script, u)
            l == Len(Stream(script, https))
<1>2. a \in 0 .. Len(script) /\ AskedOf(script, v) \in 0 .. Len(script)
  BY AskedType
<1>3. script \in Seq(Request) /\ Len(script) \in Nat
  BY RequestedType
<1>4. CASE a = 0
  BY <1>2, <1>3, <1>4
<1>5. CASE a # 0
  <2>1. a \in 1 .. Len(script)
    BY <1>2, <1>3, <1>5
  <2>2. l - Len(u) >= e[a] <=> a >= a
    BY <1>1, <2>1, AskedBounds
  <2>3. l - Len(v) >= e[a] <=> AskedOf(script, v) >= a
    BY <1>1, <2>1, AskedBounds
  <2>4. e[a] \in Nat
    BY <1>1, <1>2 DEF Ends
  <2>5. Len(u) \in Nat /\ Len(v) \in Nat /\ l \in Nat
    BY StreamType DEF IsRest
  <2>. HIDE DEF a, l
  <2>6. l - Len(v) >= l - Len(u)
    BY <2>5
  <2>7. l - Len(v) >= e[a]
    <3>1. l - Len(u) >= e[a]
      BY <2>1, <2>2
    <3>. QED
      BY <2>4, <2>5, <2>6, <3>1
  <2>8. AskedOf(script, v) >= a
    BY <2>3, <2>7
  <2>. QED
    BY <1>2, <1>3, <2>1, <2>8 DEF a
<1>. QED
  BY <1>4, <1>5

-----------------------------------------------------------------------------
(* Where the parsers are.                                                  *)

\* A malformed request is answered with an error and "Connection: close".
MalformedCloses ==
  \A s \in Scripts : \A i \in DOMAIN s : s[i].flaw # "none" => s[i].answer = "error" /\ ~s[i].keep

\* Whether the connection stays open after request i.
Stays(s, i) == s[i].keep /\ i # MaxRequests

\* A connection that stays open has been sent a request without a flaw.
LEMMA StaysIsPlain ==
  ASSUME MalformedCloses, script \in Scripts, NEW i \in 1 .. Len(script), Stays(script, i)
  PROVE  script[i].flaw = "none"
<1>1. i \in DOMAIN script
  BY RequestedType
<1>. QED
  BY <1>1 DEF MalformedCloses, Stays

\* What the buffer of the connection holds, o units behind q requests without
\* a flaw.
LEMMA NextParts ==
  ASSUME script \in Scripts, NEW c \in Fields, NEW r \in Seq(InputUnit), NEW u \in Seq(InputUnit),
         Aligned(script, c, r, u), NEW q \in 0 .. Len(script), \A j \in 1 .. q : script[j].flaw = "none",
         NEW o \in Nat, Taken(script, c, r, u) = HelloOf(c.https) + 4 * q + o,
         NEW n \in 1 .. Len(c.input)
  PROVE  /\ q + 1 \in 1 .. Len(script)
         /\ o + n <= Len(PartsOf(script[q + 1])) =>
              c.input[n] = [req |-> q + 1, part |-> PartsOf(script[q + 1])[o + n]]
<1>. DEFINE all == Stream(script, c.https)
            h == HelloOf(c.https)
            k == Taken(script, c, r, u)
            l == Len(script)
<1>1. /\ c.https \in BOOLEAN /\ c.input \in Seq(InputUnit) /\ h \in Nat
      /\ script \in Seq(Request) /\ l \in Nat /\ all \in Seq(InputUnit)
  <2>1. c.https \in BOOLEAN /\ c.input \in Seq(InputUnit)
    BY ChoiceAssumption DEF Fields
  <2>. QED
    BY <2>1, HelloType, RequestedType, StreamType
<1>2. PICK e : Ends(e, script, all, h)
  BY <1>1, StreamEnds
<1>3. e[q] = h + 4 * q
  BY <1>1, <1>2, PlainEnds
<1>4. c.input[n] = all[k + n] /\ k = e[q] + o
  BY <1>3 DEF Aligned, IsAt
<1>5. e[q] \in Nat /\ e[l] = Len(all)
  BY <1>2 DEF Ends
<1>a. k \in Nat
  <2>. HIDE DEF k
  <2>. QED
    BY <1>4, <1>5, SMTT(30)
<1>6. k + n <= Len(all)
  <2>1. k >= 0
    BY <1>4, <1>5
  <2>2. k + Len(c.input) <= Len(all) - Len(u)
    BY <2>1, AlignedRest
  <2>. HIDE DEF k, all
  <2>3. Len(c.input) \in Nat /\ Len(u) \in Nat /\ Len(all) \in Nat /\ k \in Int
    BY <1>1, <1>a
  <2>. QED
    BY <2>2, <2>3
<1>7. q < l
  <2>1. k + n > e[q]
    BY <1>4, <1>5
  <2>2. q # l
    <3>. HIDE DEF k, all
    <3>1. Len(all) \in Nat /\ k \in Nat
      BY <1>1, <1>a
    <3>. QED
      BY <1>5, <1>6, <2>1, <3>1
  <2>. QED
    BY <1>1, <2>2
<1>8. q + 1 \in 1 .. l /\ (q + 1) - 1 = q
  BY <1>1, <1>7
<1>9. ASSUME o + n <= Len(PartsOf(script[q + 1]))
      PROVE  c.input[n] = [req |-> q + 1, part |-> PartsOf(script[q + 1])[o + n]]
  <2>1. Len(PartsOf(script[q + 1])) \in Nat
    BY <1>2, <1>8 DEF Ends
  <2>2. o + n \in 1 .. Len(PartsOf(script[q + 1])) /\ k + n = e[q] + (o + n)
    BY <1>4, <1>5, <1>9, <2>1
  <2>3. all[e[(q + 1) - 1] + (o + n)] = [req |-> q + 1, part |-> PartsOf(script[q + 1])[o + n]]
    <3>1. \A i \in 1 .. l : \A m \in 1 .. Len(PartsOf(script[i])) :
            all[e[i - 1] + m] = [req |-> i, part |-> PartsOf(script[i])[m]]
      BY <1>2, Zenon DEF Ends
    <3>. HIDE DEF all, l
    <3>. QED
      BY <1>8, <2>2, <3>1
  <2>. HIDE DEF all, k
  <2>. QED
    BY <1>4, <1>8, <2>2, <2>3
<1>. QED
  BY <1>8, <1>9

\* A request all of whose units have been read has been sent.
LEMMA ReadIsAsked ==
  ASSUME script \in Scripts, NEW c \in Fields, NEW r \in Seq(InputUnit), NEW u \in Seq(InputUnit),
         Aligned(script, c, r, u), NEW q \in 1 .. Len(script), \A j \in 1 .. q - 1 : script[j].flaw = "none",
         Taken(script, c, r, u) + Len(c.input)
           >= HelloOf(c.https) + 4 * (q - 1) + Len(PartsOf(script[q])),
         Taken(script, c, r, u) >= 0
  PROVE  q <= AskedOf(script, u)
<1>. DEFINE all == Stream(script, c.https)
            h == HelloOf(c.https)
            k == Taken(script, c, r, u)
            l == Len(script)
            p == Len(PartsOf(script[q]))
<1>1. /\ c.https \in BOOLEAN /\ c.input \in Seq(InputUnit) /\ h \in Nat
      /\ script \in Seq(Request) /\ l \in Nat /\ all \in Seq(InputUnit)
  <2>1. c.https \in BOOLEAN /\ c.input \in Seq(InputUnit)
    BY ChoiceAssumption DEF Fields
  <2>. QED
    BY <2>1, HelloType, RequestedType, StreamType
<1>2. PICK e : Ends(e, script, all, h)
  BY <1>1, StreamEnds
<1>3. e[q - 1] = h + 4 * (q - 1)
  <2>1. q - 1 \in 0 .. Len(script)
    BY <1>1
  <2>. QED
    BY <1>1, <1>2, <2>1, PlainEnds, ZenonT(60)
<1>4. e[q] = e[q - 1] + p /\ p \in Nat /\ e[q] \in Nat
  <2>1. e \in [0 .. l -> Nat] /\ \A i \in 1 .. l : e[i] = e[i - 1] + Len(PartsOf(script[i])) /\ Len(PartsOf(script[i])) \in Nat
    BY <1>2, Zenon DEF Ends
  <2>2. q \in 0 .. l
    BY <1>1
  <2>. HIDE DEF all
  <2>. QED
    BY <2>1, <2>2
<1>5. IsRest(script, c.https, u) /\ k + Len(c.input) <= Len(all) - Len(u)
  BY AlignedRest
<1>6. Len(c.input) \in Nat /\ Len(u) \in Nat /\ Len(all) \in Nat /\ k \in Int
  BY <1>1 DEF Taken
<1>7. k + Len(c.input) >= h + 4 * (q - 1) + p
  OBVIOUS
<1>8. Len(all) - Len(u) >= e[q]
  <2>. HIDE DEF k, all, h, p
  <2>1. k + Len(c.input) >= e[q]
    BY <1>3, <1>4, <1>7
  <2>. QED
    BY <1>4, <1>5, <1>6, <2>1, SMTT(30)
<1>9. AskedOf(script, u) >= q /\ AskedOf(script, u) \in 0 .. Len(script)
  BY <1>1, <1>2, <1>5, <1>8, AskedBounds
<1>. QED
  BY <1>1, <1>9

-----------------------------------------------------------------------------
(* The requests are answered in their order.                               *)

\* States in which a reply is being sent, or has been.
Sending == SendingStates \cup {"kRequestCompleted"}

\* The request that is read or answered is the next one of the script; those
\* before have been answered without "Connection: close".
Order(s, c, r, u) ==
  LET k == Taken(s, c, r, u) - HelloOf(c.https) IN
  /\ \A j \in 1 .. c.req - 1 : Stays(s, j)
  /\ c.state = "kHandshaking" => c.req = 0 /\ c.nrequests = 0
  /\ c.state = "kReadingRequestLine" =>
       k = 4 * c.req + c.line /\ c.nrequests = c.req /\ (c.req > 0 => Stays(s, c.req))
  /\ c.state \notin {"kHandshaking", "kReadingRequestLine"} =>
       /\ c.req > 0 /\ c.request = s[c.req]
       /\ c.nrequests = IF c.state \in Sending THEN c.req ELSE c.req - 1
  /\ c.state \in {"kAfterRequestLine", "kReadingHeaders"} =>
       k = 4 * (c.req - 1) + 2 /\ s[c.req].flaw # "line"
  /\ c.state = "kProcessingRequest" => s[c.req].flaw = "none"
  /\ c.state = "kPreparingErrorPage" => c.request.answer \in {"error", "unchanged", "unsatisfiable"}
  /\ c.state \in Sending \cup {"kProcessingRequest", "kPreparingErrorPage"} =>
       c.req <= AskedOf(s, u) /\ (s[c.req].flaw = "none" => k = 4 * c.req)
  /\ c.state \in Sending => c.keepAlive = Stays(s, c.req)

\* Steps that leave the position in the stream, and the request, as they are.
LEMMA OrderMoves ==
  ASSUME NEW s, NEW c, NEW d, NEW r, NEW u, Order(s, c, r, u),
         \A f \in {"https", "input", "line", "req", "request", "nrequests", "keepAlive"} : d[f] = c[f],
         \/ d.state = c.state
         \/ c.state \in SendingStates /\ d.state \in Sending
         \/ c.state = "kAfterRequestLine" /\ d.state = "kReadingHeaders"
         \/ /\ c.state = "kProcessingRequest" /\ d.state = "kPreparingErrorPage"
            /\ c.request.answer \in {"error", "unchanged", "unsatisfiable"}
  PROVE  Order(s, d, r, u)
<1>1. /\ d.https = c.https /\ d.input = c.input /\ d.line = c.line /\ d.req = c.req
      /\ d.request = c.request /\ d.nrequests = c.nrequests /\ d.keepAlive = c.keepAlive
  BY Zenon
<1>2. Taken(s, d, r, u) = Taken(s, c, r, u)
  BY <1>1 DEF Taken
<1>. QED
  BY <1>1, <1>2 DEF Order, Sending, SendingStates

-----------------------------------------------------------------------------
(* Every step keeps the order.                                             *)

\* Nothing is parsed before the stream begins.
LEMMA HandshakeBefore ==
  ASSUME Shape, phase # "closed"
  PROVE  Taken(script, conn, rx, unsent) >= 0
<1>. DEFINE k == Taken(script, conn, rx, unsent)
            h == HelloOf(conn.https)
<1>1. /\ k \in Int /\ h \in Nat /\ conn.hello \in 0 .. HelloLen /\ HelloLen \in Nat
      /\ conn.https \in BOOLEAN
  BY ReqType, SizeAssumption DEF Fields
<1>2. /\ conn.state = "kHandshaking" => k + conn.hello = h
      /\ conn.state # "kHandshaking" => k >= h
      /\ ~conn.https => conn.hello = 0
  BY DEF Shape, Offsets, Aligned
<1>3. conn.hello <= h
  BY <1>1, <1>2 DEF HelloOf
<1>. HIDE DEF k, h
<1>. QED
  BY <1>1, <1>2, <1>3 DEF k

\* The order of the replies of a connection that is not closed.
InOrder == phase # "closed" => Order(script, conn, rx, unsent)

\* The first request of the script is expected first.
LEMMA OrderInit == Init => InOrder
<1>1. SUFFICES ASSUME Init
               PROVE  Order(script, conn, rx, unsent)
  BY DEF InOrder
<1>2. conn.state = "kHandshaking" /\ conn.req = 0 /\ conn.nrequests = 0
  BY <1>1 DEF Init, NewConnection
<1>. QED
  BY <1>2 DEF Order, Sending, SendingStates

\* The client sends more, and the rest stays.
LEMMA MoreIsAsked ==
  ASSUME Shape, Shape', ClientSends
  PROVE  /\ Taken(script, conn, rx', unsent') = Taken(script, conn, rx, unsent)
         /\ AskedOf(script, unsent) \in 0 .. Len(script) /\ AskedOf(script, unsent') \in 0 .. Len(script)
         /\ AskedOf(script, unsent) <= AskedOf(script, unsent')
<1>1. /\ phase # "closed" /\ phase' = phase /\ conn' = conn /\ script' = script
      /\ conn.https \in BOOLEAN /\ rx \in Seq(InputUnit) /\ unsent \in Seq(InputUnit)
      /\ conn.input \in Seq(InputUnit) /\ Stream(script, conn.https) \in Seq(InputUnit)
      /\ script \in Scripts /\ conn \in Fields
  BY ReqType DEF ClientSends, processVars
<1>2. PICK n \in 1 .. Len(unsent) :
        rx' = rx \o SubSeq(unsent, 1, n) /\ unsent' = SubSeq(unsent, n + 1, Len(unsent))
  BY DEF ClientSends
<1>3. /\ rx' \in Seq(InputUnit) /\ unsent' \in Seq(InputUnit)
      /\ Len(rx') = Len(rx) + n /\ Len(unsent') = Len(unsent) - n
  <2>1. SubSeq(unsent, 1, n) \in Seq(InputUnit) /\ Len(SubSeq(unsent, 1, n)) = n
    BY <1>1
  <2>2. rx \o SubSeq(unsent, 1, n) \in Seq(InputUnit)
        /\ Len(rx \o SubSeq(unsent, 1, n)) = Len(rx) + Len(SubSeq(unsent, 1, n))
    BY <1>1, <2>1, ConcatProperties
  <2>. QED
    BY <1>1, <1>2, <2>1, <2>2
<1>4. Len(unsent) \in Nat /\ Len(rx) \in Nat /\ Len(conn.input) \in Nat /\ Len(Stream(script, conn.https)) \in Nat
  BY <1>1
<1>5. Taken(script, conn, rx', unsent') = Taken(script, conn, rx, unsent)
  <2>. DEFINE a == Len(Stream(script, conn.https))
              b == Len(conn.input)
              x == Len(rx)
              y == Len(unsent)
  <2>1. /\ Taken(script, conn, rx', unsent') = a - (y - n) - (x + n) - b
        /\ Taken(script, conn, rx, unsent) = a - y - x - b
    BY <1>3, Zenon DEF Taken
  <2>2. a \in Nat /\ b \in Nat /\ x \in Nat /\ y \in Nat
    BY <1>4
  <2>. HIDE DEF a, b, x, y
  <2>. QED
    BY <2>1, <2>2
<1>6. Aligned(script, conn, rx, unsent) /\ Aligned(script, conn, rx', unsent')
  BY <1>1 DEF Shape
<1>7. Taken(script, conn, rx, unsent) >= 0
  BY <1>1, <1>6, HandshakeBefore
<1>8. IsRest(script, conn.https, unsent) /\ IsRest(script, conn.https, unsent')
  BY <1>1, <1>3, <1>5, <1>6, <1>7, AlignedRest
<1>9. AskedOf(script, unsent) <= AskedOf(script, unsent')
  <2>1. Len(unsent') <= Len(unsent)
    BY <1>3, <1>4
  <2>. QED
    BY <1>1, <1>8, <2>1, AskedGrows
<1>10. AskedOf(script, unsent) \in 0 .. Len(script) /\ AskedOf(script, unsent') \in 0 .. Len(script)
  BY <1>1, <1>8, AskedType
<1>. QED
  BY <1>5, <1>9, <1>10

\* That leaves the order as it is.
LEMMA OrderClientSends ==
  ASSUME Shape, Shape', InOrder, ClientSends
  PROVE  InOrder'
<1>1. /\ phase # "closed" /\ phase' = phase /\ conn' = conn /\ script' = script
      /\ conn \in Fields /\ script \in Seq(Request)
  BY ReqType DEF ClientSends, processVars
<1>2. /\ Taken(script, conn, rx', unsent') = Taken(script, conn, rx, unsent)
      /\ AskedOf(script, unsent) \in 0 .. Len(script) /\ AskedOf(script, unsent') \in 0 .. Len(script)
      /\ AskedOf(script, unsent) <= AskedOf(script, unsent')
  BY MoreIsAsked
<1>3. Order(script, conn, rx', unsent')
  <2>1. conn.req \in Int
    BY <1>1 DEF Fields
  <2>2. conn.req <= AskedOf(script, unsent) => conn.req <= AskedOf(script, unsent')
    BY <1>2, <2>1
  <2>. QED
    BY <1>1, <1>2, <2>2, Zenon DEF InOrder, Order
<1>. QED
  BY <1>1, <1>3 DEF InOrder

\* Steps that change neither the stream nor the request.
LEMMA OrderFlags ==
  ASSUME InOrder, UNCHANGED <<script, rx, unsent>>, phase # "closed",
         \A f \in {"https", "input", "line", "req", "request", "nrequests", "keepAlive"} : conn'[f] = conn[f],
         \/ conn'.state = conn.state
         \/ conn.state \in SendingStates /\ conn'.state \in Sending
         \/ conn.state = "kAfterRequestLine" /\ conn'.state = "kReadingHeaders"
         \/ /\ conn.state = "kProcessingRequest" /\ conn'.state = "kPreparingErrorPage"
            /\ conn.request.answer \in {"error", "unchanged", "unsatisfiable"}
  PROVE  InOrder'
<1>1. Order(script, conn, rx, unsent)
  BY DEF InOrder
<1>. DEFINE d == conn'
<1>2. \A f \in {"https", "input", "line", "req", "request", "nrequests", "keepAlive"} : d[f] = conn[f]
  OBVIOUS
<1>3. \/ d.state = conn.state
      \/ conn.state \in SendingStates /\ d.state \in Sending
      \/ conn.state = "kAfterRequestLine" /\ d.state = "kReadingHeaders"
      \/ /\ conn.state = "kProcessingRequest" /\ d.state = "kPreparingErrorPage"
         /\ conn.request.answer \in {"error", "unchanged", "unsatisfiable"}
  OBVIOUS
<1>. HIDE DEF d
<1>4. Order(script, d, rx, unsent)
  BY <1>1, <1>2, <1>3, OrderMoves
<1>. QED
  BY <1>4, Zenon DEF InOrder, d

\* The event loop, and the client apart from what it sends.
LEMMA OrderOthers ==
  ASSUME Shape, InOrder, EventLoop \/ ClientReads \/ ClientEnds \/ Expire \/ Terminated \/ UNCHANGED vars
  PROVE  InOrder'
<1>1. CASE phase' = "closed"
  BY <1>1 DEF InOrder
<1>2. CASE phase' # "closed"
  <2>0. conn \in Fields
    BY ReqType
  <2>1. /\ UNCHANGED <<script, rx, unsent>> /\ phase # "closed"
        /\ \/ conn' = conn
           \/ conn' = [conn EXCEPT !.readable = TRUE]
           \/ conn' = [conn EXCEPT !.writable = TRUE]
    BY <1>2 DEF EventLoop, Deliver, Discard, OnWritable, ClientReads, ClientEnds, Expire, Drop, Terminated,
                vars, processVars, kernelVars
  <2>2. /\ \A f \in {"https", "input", "line", "req", "request", "nrequests", "keepAlive"} : conn'[f] = conn[f]
        /\ conn'.state = conn.state
    BY <2>0, <2>1 DEF Fields
  <2>. QED
    BY <2>1, <2>2, OrderFlags
<1>. QED
  BY <1>1, <1>2

\* The first request line is read where the handshake ends.
LEMMA OrderHandshake ==
  ASSUME Shape, InOrder, Handshake
  PROVE  InOrder'
<1>. DEFINE n == Min({conn.hello, Len(rx)})
            c == [conn EXCEPT !.hello = @ - n]
            rest == SubSeq(rx, n + 1, Len(rx))
            done == [c EXCEPT !.state = "kReadingRequestLine",
                              !.timerSet = IF conn.https THEN FALSE ELSE @]
            waits == [c EXCEPT !.timerSet = TRUE, !.readable = FALSE]
<1>1. /\ Running({"kHandshaking"}) /\ rx' = rest /\ UNCHANGED <<script, unsent>>
      /\ \/ c.hello = 0 /\ Continue(done)
         \/ c.hello > 0 /\ Return(waits)
         \/ Drop
  BY Zenon DEF Handshake
<1>2. /\ conn \in Fields /\ conn.state = "kHandshaking" /\ phase = "running"
      /\ rx \in Seq(InputUnit) /\ conn.hello \in 0 .. HelloLen /\ HelloLen \in Nat
      /\ conn.line = 0 /\ conn.input = <<>>
      /\ Taken(script, conn, rx, unsent) + conn.hello = HelloOf(conn.https)
      /\ HelloOf(conn.https) \in Nat
      /\ Stream(script, conn.https) \in Seq(InputUnit) /\ unsent \in Seq(InputUnit)
  BY <1>1, ReqType, SizeAssumption DEF Running, Shape, Fields, Offsets, Aligned
<1>3. conn.req = 0 /\ conn.nrequests = 0
  BY <1>2 DEF InOrder, Order
<1>4. n \in 0 .. Len(rx) /\ n \in 0 .. conn.hello
  <2>1. conn.hello \in Nat /\ Len(rx) \in Nat
    BY <1>2
  <2>. QED
    BY <2>1, MinOfTwo
<1>. HIDE DEF n
<1>5. /\ c.hello = conn.hello - n /\ c.https = conn.https /\ c.input = <<>> /\ c.line = 0
      /\ c.req = 0 /\ c.nrequests = 0 /\ c.state = "kHandshaking"
      /\ done.https = conn.https /\ done.input = <<>> /\ done.line = 0
      /\ done.req = 0 /\ done.nrequests = 0 /\ done.state = "kReadingRequestLine"
      /\ waits.req = 0 /\ waits.nrequests = 0 /\ waits.state = "kHandshaking"
  BY <1>2, <1>3 DEF Fields
<1>6. CASE c.hello = 0 /\ Continue(done)
  <2>1. Len(rest) = Len(rx) - n
    BY <1>2, <1>4
  <2>2. Taken(script, done, rest, unsent) = HelloOf(conn.https)
    <3>. DEFINE a == Len(Stream(script, conn.https))
                x == Len(rx)
                y == Len(unsent)
    <3>1. /\ Taken(script, done, rest, unsent) = a - y - (x - n) - Len(<<>>)
          /\ Taken(script, conn, rx, unsent) = a - y - x - Len(<<>>)
      BY <1>2, <1>5, <2>1, Zenon DEF Taken
    <3>2. a \in Nat /\ x \in Nat /\ y \in Nat /\ Len(<<>>) = 0
      BY <1>2
    <3>3. conn.hello = n
      BY <1>2, <1>4, <1>5, <1>6
    <3>. HIDE DEF a, x, y
    <3>. QED
      BY <1>2, <1>4, <3>1, <3>2, <3>3
  <2>. HIDE DEF done
  <2>3. Order(script, done, rest, unsent)
    BY <1>2, <1>5, <2>2 DEF Order, Sending, SendingStates
  <2>. QED
    BY <1>1, <1>6, <2>3 DEF InOrder, Continue
<1>7. CASE c.hello > 0 /\ Return(waits)
  <2>. HIDE DEF waits
  <2>1. Order(script, waits, rest, unsent)
    BY <1>5 DEF Order, Sending, SendingStates
  <2>. QED
    BY <1>1, <1>7, <2>1 DEF InOrder, Return
<1>8. CASE Drop
  BY <1>8 DEF Drop, InOrder
<1>. QED
  BY <1>1, <1>6, <1>7, <1>8

\* run() returns because there is nothing to read, or ends the connection.
LEMMA OrderWaiting ==
  ASSUME Shape, InOrder, NotReadable \/ ReadsNothing \/ ReadFails \/ NotWritable \/ SendFails
  PROVE  InOrder'
<1>1. conn \in Fields
  BY ReqType
<1>2. CASE NotReadable \/ ReadsNothing
  <2>1. /\ UNCHANGED <<script, rx, unsent>> /\ phase = "running" /\ conn.state \in ReadingStates
        /\ conn' = Waiting(conn) \/ conn' = Waiting([conn EXCEPT !.timerSet = TRUE, !.readable = FALSE])
    BY <1>2 DEF NotReadable, ReadsNothing, NeedsInput, Running, Return, kernelVars, ReadingStates
  <2>2. /\ \A f \in {"https", "input", "line", "req", "request", "nrequests", "keepAlive"} : conn'[f] = conn[f]
        /\ \/ conn'.state = conn.state
           \/ conn.state = "kAfterRequestLine" /\ conn'.state = "kReadingHeaders"
    BY <1>1, <2>1 DEF Fields, Waiting
  <2>. QED
    BY <2>1, <2>2, OrderFlags
<1>3. CASE NotWritable
  <2>1. UNCHANGED <<script, rx, unsent>> /\ phase = "running" /\ conn' = conn
    BY <1>3 DEF NotWritable, Running, Return, kernelVars
  <2>. QED
    BY <2>1, OrderFlags
<1>4. CASE ReadFails \/ SendFails
  BY <1>4 DEF ReadFails, SendFails, Drop, InOrder
<1>. QED
  BY <1>2, <1>3, <1>4

\* The members that a write and what follows it leave alone.
Kept == {"https", "input", "line", "req", "request", "nrequests", "keepAlive"}

\* A write leaves them alone.
LEMMA AfterKeeps ==
  ASSUME conn \in Fields, NEW w
  PROVE  /\ DOMAIN After(w) = DOMAIN conn /\ Kept \cup {"state", "out", "nrange", "corked"} \subseteq DOMAIN conn
         /\ After(w).state = conn.state
         /\ \A f \in Kept : After(w)[f] = conn[f]
BY DEF After, Fields, Kept

\* A write, after which another state follows.
LEMMA OrderSends ==
  ASSUME Shape, InOrder, SendTwoBuffers \/ SendHeaders \/ SendBody \/ SendPartHeader \/ SendMultipartFooter
  PROVE  InOrder' /\ conn'.state \in Sending
<1>1. conn \in Fields
  BY ReqType
<1>2. ASSUME NEW state \in SendingStates, NEW w, Sends(state, w), NEW d, Continue(d),
             \A f \in Kept : d[f] = conn[f], d.state \in Sending
      PROVE  InOrder' /\ conn'.state \in Sending
  <2>1. UNCHANGED <<script, rx, unsent>> /\ phase # "closed" /\ conn.state \in SendingStates /\ conn' = d
    BY <1>2 DEF Sends, Running, Continue
  <2>. QED
    BY <1>2, <2>1, OrderFlags DEF Kept
<1>3. CASE SendTwoBuffers
  <2>. DEFINE units == conn.out \o conn.body
              w == Write(Rest(units), conn.https)
              c == After(w)
              d == [c EXCEPT !.state = IF c.outp = Len(units) THEN "kRequestCompleted" ELSE @]
  <2>1. Sends("kSendingTwoBuffers", w) /\ Continue(d) /\ conn.state = "kSendingTwoBuffers"
    BY <1>3, Zenon DEF SendTwoBuffers, Sends, Running
  <2>2. /\ DOMAIN c = DOMAIN conn /\ Kept \cup {"state", "out", "nrange", "corked"} \subseteq DOMAIN conn
        /\ c.state = "kSendingTwoBuffers" /\ \A f \in Kept : c[f] = conn[f]
    BY <1>1, <2>1, AfterKeeps, Zenon
  <2>. HIDE DEF w, c, units
  <2>3. \A f \in Kept : d[f] = c[f]
    BY <2>2 DEF Kept
  <2>4. d.state \in Sending /\ "kSendingTwoBuffers" \in SendingStates
    BY <2>2 DEF Sending, SendingStates
  <2>. HIDE DEF d
  <2>. QED
    BY <1>2, <2>1, <2>2, <2>3, <2>4
<1>4. CASE SendHeaders
  <2>. DEFINE w == Write(Rest(conn.out), conn.https)
              c == After(w)
              done == [c EXCEPT !.state = "kRequestCompleted"]
              goes == [c EXCEPT !.state = "kSendingBody", !.outp = FirstByte(c)]
  <2>1. /\ Sends("kSendingHeaders", w) /\ conn.state = "kSendingHeaders"
        /\ Continue(c) \/ Continue(done) \/ Continue(goes)
    BY <1>4, Zenon DEF SendHeaders, Sends, Running
  <2>2. /\ DOMAIN c = DOMAIN conn /\ Kept \cup {"state", "out", "nrange", "corked"} \subseteq DOMAIN conn
        /\ c.state = "kSendingHeaders" /\ \A f \in Kept : c[f] = conn[f]
    BY <1>1, <2>1, AfterKeeps, Zenon
  <2>. HIDE DEF w, c
  <2>3. \A f \in Kept : done[f] = c[f] /\ goes[f] = c[f]
    BY <2>2 DEF Kept
  <2>4. /\ c.state \in Sending /\ done.state \in Sending /\ goes.state \in Sending
        /\ "kSendingHeaders" \in SendingStates
    BY <2>2 DEF Sending, SendingStates
  <2>. HIDE DEF done, goes
  <2>. QED
    BY <1>2, <2>1, <2>2, <2>3, <2>4
<1>5. CASE SendBody
  <2>. DEFINE w == Write(P!Bytes(conn.req, conn.outp, LastByte(conn)), FALSE)
              c == After(w)
              next == [c EXCEPT !.outp = 0, !.nrange = @ + 1]
              done == [c EXCEPT !.corked = FALSE, !.state = "kRequestCompleted"]
              footer == [next EXCEPT !.out = P!Footer(conn.req), !.state = "kSendingMultipartFooter"]
              part == [next EXCEPT !.out = P!Part(conn.req, next.nrange + 1), !.state = "kSendingPartHeader"]
  <2>1. /\ Sends("kSendingBody", w) /\ conn.state = "kSendingBody"
        /\ Continue(c) \/ Continue(done) \/ Continue(footer) \/ Continue(part)
    BY <1>5, Zenon DEF SendBody, Sends, Running
  <2>2. /\ DOMAIN c = DOMAIN conn /\ Kept \cup {"state", "out", "nrange", "corked"} \subseteq DOMAIN conn
        /\ c.state = "kSendingBody" /\ \A f \in Kept : c[f] = conn[f]
    BY <1>1, <2>1, AfterKeeps, Zenon
  <2>. HIDE DEF w, c
  <2>3. /\ DOMAIN next = DOMAIN conn
        /\ \A f \in Kept : next[f] = c[f] /\ done[f] = c[f]
        /\ done.state \in Sending /\ c.state \in Sending /\ "kSendingBody" \in SendingStates
    BY <2>2 DEF Kept, Sending, SendingStates
  <2>. HIDE DEF next, done
  <2>4. /\ \A f \in Kept : footer[f] = next[f] /\ part[f] = next[f]
        /\ footer.state \in Sending /\ part.state \in Sending
    BY <2>2, <2>3 DEF Kept, Sending, SendingStates
  <2>. HIDE DEF footer, part
  <2>. QED
    BY <1>2, <2>1, <2>2, <2>3, <2>4
<1>6. CASE SendPartHeader
  <2>. DEFINE w == Write(Rest(conn.out), conn.https)
              c == After(w)
              goes == [c EXCEPT !.state = "kSendingBody", !.outp = FirstByte(c)]
  <2>1. /\ Sends("kSendingPartHeader", w) /\ conn.state = "kSendingPartHeader"
        /\ Continue(IF c.outp < Len(conn.out) THEN c ELSE goes)
    BY <1>6, Zenon DEF SendPartHeader, Sends, Running
  <2>2. /\ DOMAIN c = DOMAIN conn /\ Kept \cup {"state", "out", "nrange", "corked"} \subseteq DOMAIN conn
        /\ c.state = "kSendingPartHeader" /\ \A f \in Kept : c[f] = conn[f]
    BY <1>1, <2>1, AfterKeeps, Zenon
  <2>. HIDE DEF w, c
  <2>3. \A f \in Kept : goes[f] = c[f]
    BY <2>2 DEF Kept
  <2>4. c.state \in Sending /\ goes.state \in Sending /\ "kSendingPartHeader" \in SendingStates
    BY <2>2 DEF Sending, SendingStates
  <2>. HIDE DEF goes
  <2>5. Continue(c) \/ Continue(goes)
    BY <2>1
  <2>. QED
    BY <1>2, <2>1, <2>2, <2>3, <2>4, <2>5
<1>7. CASE SendMultipartFooter
  <2>. DEFINE w == Write(Rest(conn.out), conn.https)
              c == After(w)
              done == [c EXCEPT !.state = "kRequestCompleted", !.corked = FALSE]
  <2>1. /\ Sends("kSendingMultipartFooter", w) /\ conn.state = "kSendingMultipartFooter"
        /\ Continue(IF c.outp < Len(conn.out) THEN c ELSE done)
    BY <1>7, Zenon DEF SendMultipartFooter, Sends, Running
  <2>2. /\ DOMAIN c = DOMAIN conn /\ Kept \cup {"state", "out", "nrange", "corked"} \subseteq DOMAIN conn
        /\ c.state = "kSendingMultipartFooter" /\ \A f \in Kept : c[f] = conn[f]
    BY <1>1, <2>1, AfterKeeps, Zenon
  <2>. HIDE DEF w, c
  <2>3. \A f \in Kept : done[f] = c[f]
    BY <2>2 DEF Kept
  <2>4. c.state \in Sending /\ done.state \in Sending /\ "kSendingMultipartFooter" \in SendingStates
    BY <2>2 DEF Sending, SendingStates
  <2>. HIDE DEF done
  <2>5. Continue(c) \/ Continue(done)
    BY <2>1
  <2>. QED
    BY <1>2, <2>1, <2>2, <2>3, <2>4, <2>5
<1>. QED
  BY <1>3, <1>4, <1>5, <1>6, <1>7

\* The parts a request line or the headers are compared with.
LEMMA ExpectedWords ==
  /\ LineParts[1] = "method" /\ LineParts[2] = "version"
  /\ HeaderParts[1] = "field" /\ HeaderParts[2] = "end"
BY DEF LineParts, HeaderParts

\* The request line that is read is that of the next request.
LEMMA OrderReadingRequestLine ==
  ASSUME MalformedCloses, Shape, InOrder, ReadingRequestLine
  PROVE  InOrder'
<1>. DEFINE c == Received
            parts == SubSeq(LineParts, c.line + 1, 2)
            n == Matching(c.input, parts)
            d == Consumed(c, n)
            i == c.input[n + 1].req
            line == [d EXCEPT !.state = "kAfterRequestLine", !.line = 2,
                              !.req = c.input[1].req, !.request = script[c.input[1].req]]
            more == [d EXCEPT !.line = @ + n]
            bad == [d EXCEPT !.state = "kPreparingErrorPage", !.req = i,
                             !.request = IF c.line + n = 0 THEN Garbage ELSE script[i]]
            q == conn.req
            k == Taken(script, c, rx', unsent)
            h == HelloOf(conn.https)
            p == PartsOf(script[q + 1])
<1>1. /\ Running({"kReadingRequestLine"}) /\ Reads
      /\ \/ n = Len(parts) /\ Continue(line)
         \/ n < Len(parts) /\ n = Len(c.input) /\ Continue(more)
         \/ n < Len(parts) /\ n < Len(c.input) /\ Continue(bad)
      /\ UNCHANGED <<script, unsent>>
  BY Zenon DEF ReadingRequestLine
<1>2. /\ Running(ReadingStates) /\ conn.state = "kReadingRequestLine" /\ phase = "running"
      /\ script \in Scripts /\ script \in Seq(Request) /\ unsent \in Seq(InputUnit)
      /\ q \in 0 .. Len(script) /\ h \in Nat
  BY <1>1, ReqType DEF Running, ReadingStates, Shape, TypeOK, Fields
<1>3. /\ c \in Fields /\ Offsets(c) /\ c.state = "kReadingRequestLine"
      /\ c.line = conn.line /\ c.req = q /\ c.nrequests = conn.nrequests /\ c.https = conn.https
      /\ rx' \in Seq(InputUnit) /\ Aligned(script, c, rx', unsent)
      /\ k = Taken(script, conn, rx, unsent)
  BY <1>1, <1>2, ReceivedFits
<1>4. c.line \in 0 .. 1 /\ c.input \in Seq(InputUnit)
  <2>1. c.line \in 0 .. Len(LineParts) /\ c.line < 2
    BY <1>3 DEF Fields, Offsets
  <2>2. c.line \in 0 .. 1
    BY <2>1, ExpectedParts
  <2>. QED
    BY <1>3, <2>2 DEF Fields
<1>5. /\ k = h + 4 * q + c.line /\ conn.nrequests = q
      /\ \A j \in 1 .. q : Stays(script, j)
  <2>1. /\ k - h = 4 * q + c.line /\ conn.nrequests = q
        /\ (q > 0 => Stays(script, q)) /\ \A j \in 1 .. q - 1 : Stays(script, j)
    BY <1>2, <1>3 DEF InOrder, Order
  <2>2. k \in Int
    BY <1>3, ReqType
  <2>3. \A j \in 1 .. q : Stays(script, j)
    BY <1>2, <2>1
  <2>4. k = h + 4 * q + c.line
    <3>. DEFINE o == c.line
    <3>1. q \in Int /\ h \in Int /\ o \in Int /\ k \in Int
      BY <1>2, <1>4, <2>2
    <3>2. k - h = 4 * q + o
      BY <2>1
    <3>. HIDE DEF k, h, q, o
    <3>3. k = h + 4 * q + o
      BY <3>1, <3>2
    <3>. QED
      BY <3>3 DEF o
  <2>. QED
    BY <2>1, <2>3, <2>4
<1>6. \A j \in 1 .. q : script[j].flaw = "none"
  <2>1. SUFFICES ASSUME NEW j \in 1 .. q
                 PROVE  script[j].flaw = "none"
    OBVIOUS
  <2>2. j \in 1 .. Len(script)
    BY <1>2
  <2>. QED
    BY <1>2, <1>5, <2>2, StaysIsPlain
<1>. HIDE DEF c, k, h, q
<1>7. /\ parts \in Seq(Parted) /\ Len(parts) = 2 - c.line
      /\ \A j \in 1 .. 2 - c.line : parts[j] = LineParts[c.line + j]
  BY <1>4, ExpectedParts
<1>. HIDE DEF parts
<1>8. /\ n \in 0 .. Len(c.input) /\ n <= Len(parts)
      /\ \A j \in 1 .. n : c.input[j].part = parts[j]
      /\ n < Len(c.input) /\ n < Len(parts) => c.input[n + 1].part # parts[n + 1]
  BY <1>4, <1>7, MatchingBound
<1>. HIDE DEF n
<1>9. /\ d \in Fields /\ d.state = "kReadingRequestLine" /\ d.https = conn.https
      /\ Taken(script, d, rx', unsent) = k + n
      /\ Aligned(script, d, rx', unsent)
  BY <1>2, <1>3, <1>8, ConsumedFits DEF k
<1>10. d.line = c.line /\ d.req = q /\ d.nrequests = q
  BY <1>3, <1>5 DEF Consumed, Fields
<1>11. ASSUME NEW m \in 1 .. Len(c.input)
       PROVE  /\ q + 1 \in 1 .. Len(script)
              /\ c.line + m <= Len(p) => c.input[m] = [req |-> q + 1, part |-> p[c.line + m]]
  <2>1. /\ c \in Fields /\ q \in 0 .. Len(script) /\ c.line \in Nat
        /\ Taken(script, c, rx', unsent) = HelloOf(c.https) + 4 * q + c.line
        /\ Aligned(script, c, rx', unsent) /\ rx' \in Seq(InputUnit) /\ unsent \in Seq(InputUnit)
    BY <1>2, <1>3, <1>4, <1>5 DEF h, k
  <2>. QED
    BY <1>2, <1>6, <2>1, NextParts, ZenonT(40) DEF p
<1>12. ASSUME q + 1 \in 1 .. Len(script)
       PROVE  /\ Len(p) \in Nat /\ Len(p) >= 2 /\ p[1] = "method"
              /\ script[q + 1].flaw # "line" => p[2] = "version"
              /\ script[q + 1].flaw = "line" => Len(p) = 2 /\ p[2] = "bad"
  <2>1. script[q + 1] \in Request
    BY <1>2, <1>12
  <2>2. script[q + 1].flaw \in {"none", "line", "headers"}
    BY <2>1 DEF Request
  <2>. QED
    BY <2>1, <2>2, PartsOfRequest
<1>. HIDE DEF d, p
<1>13. CASE n = Len(parts) /\ Continue(line)
  <2>1. 1 \in 1 .. Len(c.input) /\ n \in 1 .. Len(c.input) /\ c.line + 1 <= 2 /\ c.line + n = 2 /\ n = 2 - c.line
    <3>. DEFINE a == Len(parts)
                b == Len(c.input)
    <3>1. /\ a = 2 - c.line /\ n = a /\ n <= b /\ c.line \in 0 .. 1 /\ n \in Nat /\ b \in Nat
      BY <1>4, <1>7, <1>8, <1>13
    <3>. HIDE DEF a, b
    <3>2. 1 \in 1 .. b /\ n \in 1 .. b /\ c.line + 1 <= 2 /\ c.line + n = 2 /\ n = 2 - c.line
      BY <3>1
    <3>. QED
      BY <3>2 DEF b
  <2>2. q + 1 \in 1 .. Len(script)
    BY <1>11, <2>1
  <2>3. Len(p) \in Nat /\ Len(p) >= 2
    BY <1>12, <2>2
  <2>4. c.input[1].req = q + 1
    <3>1. c.line + 1 <= Len(p)
      BY <1>4, <2>1, <2>3
    <3>2. c.input[1] = [req |-> q + 1, part |-> p[c.line + 1]]
      BY <1>11, <2>1, <3>1
    <3>. QED
      BY <3>2
  <2>5. script[q + 1].flaw # "line"
    <3>1. c.input[n] = [req |-> q + 1, part |-> p[2]]
      BY <1>11, <2>1, <2>3
    <3>2. c.input[n].part = LineParts[2]
      BY <1>7, <1>8, <2>1
    <3>. QED
      BY <1>12, <2>2, <3>1, <3>2, ExpectedWords
  <2>6. /\ line.state = "kAfterRequestLine" /\ line.req = q + 1 /\ line.request = script[q + 1]
        /\ line.nrequests = q /\ line.https = conn.https /\ line.input = d.input
    BY <1>9, <1>10, <2>4 DEF Fields
  <2>. HIDE DEF line
  <2>7. Taken(script, line, rx', unsent) = h + 4 * q + 2
    <3>1. Taken(script, line, rx', unsent) = k + n
      BY <1>9, <2>6 DEF Taken
    <3>. QED
      BY <1>2, <1>4, <1>5, <2>1, <3>1
  <2>8. Order(script, line, rx', unsent)
    <3>1. /\ (q + 1) - 1 = q /\ q + 1 > 0
          /\ Taken(script, line, rx', unsent) - HelloOf(line.https) = 4 * ((q + 1) - 1) + 2
      BY <1>2, <2>6, <2>7, SMTT(30) DEF h
    <3>2. \A j \in 1 .. line.req - 1 : Stays(script, j)
      BY <1>5, <2>6, <3>1
    <3>. QED
      BY <2>5, <2>6, <3>1, <3>2 DEF Order, Sending, SendingStates
  <2>. QED
    BY <1>1, <1>13, <2>8 DEF InOrder, Continue
<1>14. CASE n < Len(parts) /\ n = Len(c.input) /\ Continue(more)
  <2>1. /\ more.state = "kReadingRequestLine" /\ more.req = q /\ more.line = c.line + n
        /\ more.nrequests = q /\ more.https = conn.https /\ more.input = d.input
    BY <1>9, <1>10 DEF Fields
  <2>. HIDE DEF more
  <2>2. Taken(script, more, rx', unsent) - HelloOf(more.https) = 4 * q + (c.line + n)
    <3>1. Taken(script, more, rx', unsent) = k + n /\ HelloOf(more.https) = h
      BY <1>9, <2>1 DEF Taken, h
    <3>2. n \in Nat
      BY <1>8
    <3>. QED
      BY <1>2, <1>4, <1>5, <3>1, <3>2, SMTT(30)
  <2>3. Order(script, more, rx', unsent)
    <3>1. (q > 0 => Stays(script, q)) /\ \A j \in 1 .. q - 1 : Stays(script, j)
      BY <1>2, <1>5
    <3>. QED
      BY <2>1, <2>2, <3>1 DEF Order, Sending, SendingStates
  <2>. QED
    BY <1>1, <1>14, <2>3 DEF InOrder, Continue
<1>15. CASE n < Len(parts) /\ n < Len(c.input) /\ Continue(bad)
  <2>1. n + 1 \in 1 .. Len(c.input) /\ n + 1 \in 1 .. 2 - c.line /\ n \in Nat
        /\ c.line + (n + 1) <= 2 /\ c.line + (n + 1) \in 1 .. 2
    BY <1>4, <1>7, <1>8, <1>15
  <2>2. q + 1 \in 1 .. Len(script)
    BY <1>11, <2>1
  <2>3. Len(p) \in Nat /\ Len(p) >= 2
    BY <1>12, <2>2
  <2>4. c.input[n + 1] = [req |-> q + 1, part |-> p[c.line + (n + 1)]]
    <3>1. c.line + (n + 1) <= Len(p)
      BY <1>4, <2>1, <2>3
    <3>. QED
      BY <1>11, <2>1, <3>1
  <2>5. p[c.line + (n + 1)] # LineParts[c.line + (n + 1)]
    <3>1. c.input[n + 1].part # parts[n + 1]
      BY <1>8, <1>15
    <3>2. parts[n + 1] = LineParts[c.line + (n + 1)]
      BY <1>7, <2>1
    <3>. QED
      BY <2>4, <3>1, <3>2
  <2>6. c.line + (n + 1) = 2 /\ script[q + 1].flaw = "line" /\ Len(p) = 2
    <3>1. c.line + (n + 1) # 1
      BY <1>12, <2>2, <2>5, ExpectedWords
    <3>2. c.line + (n + 1) = 2
      BY <2>1, <3>1
    <3>. QED
      BY <1>12, <2>2, <2>5, <3>2, ExpectedWords
  <2>7. i = q + 1 /\ c.line + n # 0
    BY <1>4, <2>1, <2>4, <2>6
  <2>8. /\ bad.state = "kPreparingErrorPage" /\ bad.req = q + 1 /\ bad.request = script[q + 1]
        /\ bad.nrequests = q
    BY <1>9, <1>10, <2>7 DEF Fields
  <2>9. script[q + 1].answer = "error"
    <3>1. q + 1 \in DOMAIN script
      BY <1>2, <2>2
    <3>. QED
      BY <1>2, <2>6, <3>1 DEF MalformedCloses
  <2>10. q + 1 <= AskedOf(script, unsent)
    <3>0. (q + 1) - 1 = q
      BY <1>2
    <3>1. k >= 0 /\ k \in Int
      BY <1>2, <1>4, <1>5
    <3>2. k + Len(c.input) >= h + 4 * q + Len(p)
      <4>1. Len(c.input) \in Nat /\ Len(c.input) >= n + 1
        BY <1>4, <2>1
      <4>. DEFINE a == Len(c.input)
                  l == Len(p)
                  o == c.line
      <4>2. /\ a \in Nat /\ a >= n + 1 /\ l = 2 /\ o \in Int /\ n \in Int /\ o + (n + 1) = 2
            /\ k = h + 4 * q + o /\ h \in Int /\ q \in Int
        BY <1>2, <1>4, <1>5, <2>1, <2>6, <4>1
      <4>. HIDE DEF a, l, o, p
      <4>3. k + a >= h + 4 * q + l
        BY <4>2
      <4>. QED
        BY <4>3 DEF a, l
    <3>3. c.state # "kHandshaking" /\ \A j \in 1 .. (q + 1) - 1 : script[j].flaw = "none"
      BY <1>3, <1>6, <3>0
    <3>4. k + Len(c.input) >= h + 4 * ((q + 1) - 1) + Len(p)
      BY <3>0, <3>2
    <3>. QED
      BY <1>2, <1>3, <2>2, <3>1, <3>3, <3>4, ReadIsAsked DEF h, k, p
  <2>. HIDE DEF bad
  <2>11. Order(script, bad, rx', unsent)
    <3>1. (q + 1) - 1 = q /\ q + 1 > 0
      BY <1>2
    <3>2. \A j \in 1 .. bad.req - 1 : Stays(script, j)
      BY <1>5, <2>8, <3>1
    <3>. QED
      BY <2>6, <2>8, <2>9, <2>10, <3>1, <3>2 DEF Order, Sending, SendingStates
  <2>. QED
    BY <1>1, <1>15, <2>11 DEF InOrder, Continue
<1>. QED
  BY <1>1, <1>13, <1>14, <1>15

\* The headers that are read are those of the request whose line was read.
LEMMA OrderReadingHeaders ==
  ASSUME MalformedCloses, Shape, InOrder, ReadingHeaders
  PROVE  InOrder'
<1>. DEFINE c == Received
            n == Matching(c.input, HeaderParts)
            e == Consumed(c, 2)
            done == [e EXCEPT !.state = "kProcessingRequest"]
            more == [c EXCEPT !.state = "kReadingHeaders"]
            bad == [c EXCEPT !.state = "kPreparingErrorPage"]
            q == conn.req
            m == q - 1
            k == Taken(script, c, rx', unsent)
            h == HelloOf(conn.https)
            p == PartsOf(script[m + 1])
<1>1. /\ Running({"kAfterRequestLine", "kReadingHeaders"}) /\ Reads
      /\ \/ n = 2 /\ Continue(done)
         \/ n < 2 /\ n = Len(c.input) /\ Continue(more)
         \/ n < 2 /\ n < Len(c.input) /\ Continue(bad)
      /\ UNCHANGED <<script, unsent>>
  BY Zenon DEF ReadingHeaders
<1>2. /\ Running(ReadingStates) /\ conn.state \in {"kAfterRequestLine", "kReadingHeaders"} /\ phase = "running"
      /\ script \in Scripts /\ script \in Seq(Request) /\ unsent \in Seq(InputUnit)
      /\ q \in 0 .. Len(script) /\ h \in Nat
  BY <1>1, ReqType DEF Running, ReadingStates, Shape, TypeOK, Fields
<1>3. /\ c \in Fields /\ Offsets(c) /\ c.state = conn.state
      /\ c.req = q /\ c.nrequests = conn.nrequests /\ c.https = conn.https /\ c.request = conn.request
      /\ rx' \in Seq(InputUnit) /\ Aligned(script, c, rx', unsent)
      /\ k = Taken(script, conn, rx, unsent) /\ c.input \in Seq(InputUnit)
  BY <1>1, <1>2, ReceivedFits DEF Fields
<1>4. /\ q > 0 /\ conn.request = script[q] /\ conn.nrequests = m
      /\ k - h = 4 * m + 2 /\ script[q].flaw # "line"
      /\ \A j \in 1 .. m : Stays(script, j)
  BY <1>2, <1>3 DEF InOrder, Order, Sending, SendingStates
<1>5. /\ m \in 0 .. Len(script) /\ m + 1 = q /\ q \in 1 .. Len(script)
      /\ k = h + 4 * m + 2
  <2>1. k \in Int /\ m \in Int /\ m = q - 1 /\ Len(script) \in Nat /\ q \in Nat
    BY <1>2, <1>3, ReqType
  <2>. DEFINE l == Len(script)
  <2>2. q \in 0 .. l /\ l \in Nat
    BY <1>2, <2>1
  <2>. HIDE DEF k, h, q, m, l
  <2>3. m \in 0 .. l /\ m + 1 = q /\ q \in 1 .. l
    BY <1>4, <2>1, <2>2
  <2>4. k = h + 4 * m + 2
    BY <1>2, <1>4, <2>1, SMTT(30)
  <2>. QED
    BY <2>3, <2>4 DEF l
<1>6. \A j \in 1 .. m : script[j].flaw = "none"
  <2>1. SUFFICES ASSUME NEW j \in 1 .. m
                 PROVE  script[j].flaw = "none"
    OBVIOUS
  <2>2. j \in 1 .. Len(script)
    BY <1>5
  <2>. QED
    BY <1>2, <1>4, <2>2, StaysIsPlain
<1>. HIDE DEF c, k, h, m
<1>7. /\ n \in 0 .. Len(c.input) /\ n <= 2
      /\ \A j \in 1 .. n : c.input[j].part = HeaderParts[j]
      /\ n < Len(c.input) /\ n < 2 => c.input[n + 1].part # HeaderParts[n + 1]
  <2>1. HeaderParts \in Seq(Parted) /\ Len(HeaderParts) = 2
    BY ExpectedParts
  <2>2. /\ n \in 0 .. Len(c.input) /\ n <= Len(HeaderParts)
        /\ \A j \in 1 .. n : c.input[j].part = HeaderParts[j]
        /\ n < Len(c.input) /\ n < Len(HeaderParts) => c.input[n + 1].part # HeaderParts[n + 1]
    <3>. DEFINE input == c.input
                parts == HeaderParts
    <3>1. input \in Seq(InputUnit) /\ parts \in Seq(Parted)
      BY <1>3, <2>1
    <3>. HIDE DEF input, parts
    <3>2. /\ Matching(input, parts) \in 0 .. Len(input) /\ Matching(input, parts) <= Len(parts)
          /\ \A j \in 1 .. Matching(input, parts) : input[j].part = parts[j]
          /\ Matching(input, parts) < Len(input) /\ Matching(input, parts) < Len(parts) =>
               input[Matching(input, parts) + 1].part # parts[Matching(input, parts) + 1]
      BY <3>1, MatchingBound
    <3>. QED
      BY <3>2, Zenon DEF input, parts
  <2>. HIDE DEF n
  <2>. QED
    BY <2>1, <2>2
<1>. HIDE DEF n
<1>8. ASSUME NEW j \in 1 .. Len(c.input)
      PROVE  2 + j <= Len(p) => c.input[j] = [req |-> m + 1, part |-> p[2 + j]]
  <2>1. Taken(script, c, rx', unsent) = HelloOf(c.https) + 4 * m + 2
    BY <1>3, <1>5 DEF h, k
  <2>2. /\ c \in Fields /\ m \in 0 .. Len(script) /\ 2 \in Nat
        /\ Aligned(script, c, rx', unsent) /\ rx' \in Seq(InputUnit) /\ unsent \in Seq(InputUnit)
    BY <1>2, <1>3, <1>5
  <2>. QED
    BY <1>2, <1>6, <2>1, <2>2, NextParts, ZenonT(40) DEF p
<1>9. /\ script[q].flaw = "none" => Len(p) = 4 /\ p[3] = "field" /\ p[4] = "end"
      /\ script[q].flaw = "headers" => Len(p) = 3 /\ p[3] = "bad"
      /\ script[q].flaw \in {"none", "headers"}
  <2>1. script[q] \in Request /\ p = PartsOf(script[q])
    BY <1>2, <1>5
  <2>2. script[q].flaw \in {"none", "headers"}
    BY <1>4, <2>1 DEF Request
  <2>. QED
    BY <2>1, <2>2, PartsOfRequest
<1>. HIDE DEF p
<1>10. \A j \in 1 .. c.req - 1 : Stays(script, j)
  BY <1>3, <1>4, <1>5
<1>11. ASSUME k + Len(c.input) >= h + 4 * m + Len(p)
       PROVE  q <= AskedOf(script, unsent)
  <2>1. k >= 0
    <3>1. h \in Nat /\ m \in Nat
      BY <1>2, <1>5
    <3>. QED
      BY <1>5, <3>1
  <2>2. q - 1 = m /\ p = PartsOf(script[q])
    BY <1>2, <1>5 DEF p
  <2>3. Taken(script, c, rx', unsent) + Len(c.input) >= HelloOf(c.https) + 4 * (q - 1) + Len(PartsOf(script[q]))
    BY <1>3, <1>11, <2>2 DEF h, k
  <2>. QED
    BY <1>2, <1>3, <1>5, <1>6, <2>1, <2>2, <2>3, ReadIsAsked DEF k
<1>12. CASE n = 2 /\ Continue(done)
  <2>1. 2 \in 0 .. Len(c.input) /\ 1 \in 1 .. Len(c.input) /\ 2 \in 1 .. Len(c.input)
        /\ 1 \in 1 .. n /\ Len(c.input) >= 2
    BY <1>3, <1>7, <1>12
  <2>2. script[q].flaw = "none"
    <3>1. c.input[1].part = "field"
      BY <1>7, <2>1, ExpectedWords
    <3>2. script[q].flaw = "headers" => c.input[1].part = "bad"
      <4>1. 2 + 1 <= Len(p) => c.input[1] = [req |-> m + 1, part |-> p[2 + 1]]
        BY <1>8, <2>1
      <4>2. 2 + 1 = 3
        OBVIOUS
      <4>. QED
        BY <1>9, <4>1, <4>2
    <3>. QED
      BY <1>9, <3>1, <3>2
  <2>3. /\ e \in Fields /\ e.state = conn.state /\ e.https = conn.https
        /\ Taken(script, e, rx', unsent) = k + 2
    BY <1>2, <1>3, <2>1, ConsumedFits DEF k
  <2>4. e.req = q /\ e.request = script[q] /\ e.nrequests = m
    BY <1>3, <1>4 DEF Consumed, Fields
  <2>. HIDE DEF e
  <2>5. /\ done.req = q /\ done.request = script[q] /\ done.nrequests = m /\ done.state = "kProcessingRequest"
        /\ done.https = conn.https /\ done.input = e.input
    BY <2>3, <2>4 DEF Fields
  <2>. HIDE DEF done
  <2>6. Taken(script, done, rx', unsent) - HelloOf(done.https) = 4 * q
    <3>1. Taken(script, done, rx', unsent) = k + 2 /\ HelloOf(done.https) = h
      BY <2>3, <2>5 DEF Taken, h
    <3>. DEFINE a == Taken(script, done, rx', unsent)
                b == HelloOf(done.https)
    <3>2. a = k + 2 /\ b = h
      BY <3>1
    <3>3. k = h + 4 * m + 2 /\ h \in Int /\ m \in Int /\ m + 1 = q /\ q \in Int
      BY <1>2, <1>5
    <3>. HIDE DEF a, b, q
    <3>4. a - b = 4 * q
      BY <3>2, <3>3
    <3>. QED
      BY <3>4 DEF a, b
  <2>7. q <= AskedOf(script, unsent)
    <3>1. Len(p) = 4
      BY <1>9, <2>2
    <3>. DEFINE a == Len(c.input)
                l == Len(p)
    <3>2. a \in Nat /\ a >= 2 /\ l = 4
      BY <1>3, <2>1, <3>1
    <3>3. k = h + 4 * m + 2 /\ h \in Int /\ m \in Int
      BY <1>2, <1>5
    <3>. HIDE DEF a, l
    <3>4. k + a >= h + 4 * m + l
      BY <3>2, <3>3
    <3>. QED
      BY <1>11, <3>4 DEF a, l
  <2>8. Order(script, done, rx', unsent)
    <3>1. \A j \in 1 .. done.req - 1 : Stays(script, j)
      BY <1>3, <1>10, <2>5
    <3>2. m = q - 1 /\ q > 0
      BY <1>4 DEF m
    <3>. QED
      BY <2>2, <2>5, <2>6, <2>7, <3>1, <3>2 DEF Order, Sending, SendingStates
  <2>. QED
    BY <1>1, <1>12, <2>8 DEF InOrder, Continue
<1>13. CASE n < 2 /\ n = Len(c.input) /\ Continue(more)
  <2>1. /\ more.req = q /\ more.request = script[q] /\ more.nrequests = m /\ more.state = "kReadingHeaders"
        /\ more.https = conn.https /\ more.input = c.input
    BY <1>3, <1>4 DEF Fields
  <2>. HIDE DEF more
  <2>2. Taken(script, more, rx', unsent) - HelloOf(more.https) = 4 * (q - 1) + 2
    <3>1. Taken(script, more, rx', unsent) = k /\ HelloOf(more.https) = h
      BY <1>3, <2>1 DEF Taken, h, k
    <3>2. m = q - 1 /\ k - h = 4 * m + 2
      BY <1>4 DEF m
    <3>. QED
      BY <3>1, <3>2, Zenon
  <2>3. Order(script, more, rx', unsent)
    <3>1. \A j \in 1 .. more.req - 1 : Stays(script, j)
      BY <1>3, <1>10, <2>1
    <3>2. m = q - 1 /\ q > 0
      BY <1>4 DEF m
    <3>. QED
      BY <1>4, <2>1, <2>2, <3>1, <3>2 DEF Order, Sending, SendingStates
  <2>. QED
    BY <1>1, <1>13, <2>3 DEF InOrder, Continue
<1>14. CASE n < 2 /\ n < Len(c.input) /\ Continue(bad)
  <2>1. n \in {0, 1} /\ n + 1 \in 1 .. Len(c.input) /\ Len(c.input) >= 1 /\ Len(c.input) \in Nat
    BY <1>3, <1>7, <1>14
  <2>2. c.input[n + 1].part # HeaderParts[n + 1]
    BY <1>7, <1>14
  <2>3. script[q].flaw # "none"
    <3>1. ASSUME script[q].flaw = "none"
          PROVE  FALSE
      <4>1. 2 + (n + 1) <= Len(p)
        <5>1. Len(p) = 4
          BY <1>9, <3>1
        <5>. QED
          BY <2>1, <5>1
      <4>2. c.input[n + 1].part = p[2 + (n + 1)]
        <5>1. c.input[n + 1] = [req |-> m + 1, part |-> p[2 + (n + 1)]]
          BY <1>8, <2>1, <4>1, Zenon
        <5>. QED
          BY <5>1
      <4>3. p[2 + (n + 1)] = HeaderParts[n + 1]
        <5>1. CASE n = 0
          BY <1>9, <3>1, <5>1, ExpectedWords
        <5>2. CASE n = 1
          BY <1>9, <3>1, <5>2, ExpectedWords
        <5>. QED
          BY <2>1, <5>1, <5>2
      <4>. QED
        BY <2>2, <4>2, <4>3
    <3>. QED
      BY <3>1
  <2>4. Len(p) = 3
    BY <1>9, <2>3
  <2>5. q <= AskedOf(script, unsent)
    <3>. DEFINE a == Len(c.input)
                l == Len(p)
    <3>2. a \in Nat /\ a >= 1 /\ l = 3
      BY <2>1, <2>4
    <3>3. k = h + 4 * m + 2 /\ h \in Int /\ m \in Int
      BY <1>2, <1>5
    <3>. HIDE DEF a, l
    <3>4. k + a >= h + 4 * m + l
      BY <3>2, <3>3
    <3>. QED
      BY <1>11, <3>4 DEF a, l
  <2>6. script[q].answer = "error"
    <3>1. q \in DOMAIN script
      BY <1>2, <1>5
    <3>. QED
      BY <1>2, <2>3, <3>1 DEF MalformedCloses
  <2>7. /\ bad.req = q /\ bad.request = script[q] /\ bad.nrequests = m /\ bad.state = "kPreparingErrorPage"
    BY <1>3, <1>4 DEF Fields
  <2>. HIDE DEF bad
  <2>8. Order(script, bad, rx', unsent)
    <3>1. \A j \in 1 .. bad.req - 1 : Stays(script, j)
      BY <1>3, <1>10, <2>7
    <3>2. m = q - 1 /\ q > 0
      BY <1>4 DEF m
    <3>. QED
      BY <2>3, <2>5, <2>6, <2>7, <3>1, <3>2 DEF Order, Sending, SendingStates
  <2>. QED
    BY <1>1, <1>14, <2>8 DEF InOrder, Continue
<1>. QED
  BY <1>1, <1>12, <1>13, <1>14

\* The reply that is prepared is that of the request that was read.
LEMMA OrderPrepared ==
  ASSUME Shape, InOrder, UNCHANGED <<script, rx, unsent>>, phase = "running",
         conn.state \in {"kProcessingRequest", "kPreparingErrorPage"},
         NEW c \in Fields, c.out = <<>>, \A f \in Kept : c[f] = conn[f],
         NEW more \in Seq(OutputUnit), NEW body \in Seq(OutputUnit), NEW state \in SendingStates,
         Continue(Prepared(c, more, body, state))
  PROVE  InOrder' /\ conn'.state \in Sending
<1>. DEFINE d == Prepared(c, more, body, state)
            q == conn.req
<1>1. /\ c.req = q /\ c.request = conn.request /\ c.nrequests = conn.nrequests
      /\ c.https = conn.https /\ c.input = conn.input
  BY DEF Kept
<1>2. Order(script, conn, rx, unsent) /\ conn.state \notin Sending
  BY DEF InOrder, Sending, SendingStates
<1>3. /\ q > 0 /\ conn.request = script[q] /\ conn.nrequests = q - 1
      /\ q <= AskedOf(script, unsent)
      /\ script[q].flaw = "none" => Taken(script, conn, rx, unsent) - HelloOf(conn.https) = 4 * q
      /\ \A j \in 1 .. q - 1 : Stays(script, j)
  BY <1>2 DEF Order, Sending, SendingStates
<1>4. conn \in Fields /\ conn.nrequests < MaxRequests /\ q \in Int
  <2>1. conn \in Fields /\ Offsets(conn)
    BY ReqType DEF Shape
  <2>2. conn.nrequests < MaxRequests
    BY <2>1 DEF Offsets
  <2>. QED
    BY <2>1, <2>2 DEF Fields
<1>5. state \in States /\ c.nrequests < MaxRequests
  BY <1>1, <1>4 DEF States
<1>6. /\ d.state = state /\ d.nrequests = c.nrequests + 1
      /\ d.keepAlive = (c.nrequests + 1 # MaxRequests /\ c.request.keep)
      /\ \A f \in DOMAIN c \ {"nrequests", "keepAlive", "out", "body", "state"} : d[f] = c[f]
  BY <1>5, PreparedFits
<1>. HIDE DEF d
<1>7. DOMAIN c = DOMAIN conn /\ {"req", "request", "https", "input"} \subseteq DOMAIN c
  BY <1>4 DEF Fields
<1>8. /\ d.req = q /\ d.request = script[q] /\ d.https = conn.https /\ d.input = conn.input
      /\ d.nrequests = q
  BY <1>1, <1>3, <1>4, <1>6, <1>7
<1>9. d.keepAlive = Stays(script, q)
  <2>1. c.nrequests + 1 = q
    BY <1>1, <1>3, <1>4
  <2>. QED
    BY <1>1, <1>3, <1>6, <2>1, Zenon DEF Stays
<1>10. Taken(script, d, rx, unsent) = Taken(script, conn, rx, unsent)
  BY <1>8 DEF Taken
<1>11. d.state \in Sending /\ d.state \in SendingStates
  BY <1>6 DEF Sending
<1>12. Order(script, d, rx, unsent)
  BY <1>3, <1>8, <1>9, <1>10, <1>11 DEF Order, Sending, SendingStates
<1>. QED
  BY <1>11, <1>12 DEF InOrder, Continue, d

\* What the answer is decides what follows.
LEMMA OrderProcessRequest ==
  ASSUME Shape, InOrder, ProcessRequest \/ PreparingErrorPage
  PROVE  InOrder' /\ conn'.state \in Sending \cup {"kPreparingErrorPage"}
<1>1. /\ conn \in Fields /\ UNCHANGED <<script, rx, unsent>> /\ phase = "running"
      /\ conn.state \in {"kProcessingRequest", "kPreparingErrorPage"}
  BY ReqType DEF ProcessRequest, PreparingErrorPage, Running, kernelVars
<1>2. conn.out = <<>> /\ conn.req \in Nat
  BY <1>1 DEF Shape, Offsets, Clean, Fields
<1>3. /\ <<>> \in Seq(OutputUnit) /\ P!Page(conn.req) \in Seq(OutputUnit)
      /\ P!Part(conn.req, 1) \in Seq(OutputUnit)
      /\ "kSendingTwoBuffers" \in SendingStates /\ "kSendingHeaders" \in SendingStates
  <2>1. P!Page(conn.req) \in Seq(OutputUnit) /\ \A n \in Nat : P!Part(conn.req, n) \in Seq(OutputUnit)
    BY <1>2, PieceTypes
  <2>2. P!Part(conn.req, 1) \in Seq(OutputUnit)
    BY <2>1
  <2>3. "kSendingTwoBuffers" \in SendingStates /\ "kSendingHeaders" \in SendingStates
    BY DEF SendingStates
  <2>4. <<>> \in Seq(OutputUnit)
    OBVIOUS
  <2>. QED
    BY <2>1, <2>2, <2>3, <2>4
<1>4. CASE ProcessRequest
  <2>. DEFINE answer == conn.request.answer
              get == ~conn.request.head
              opened == [conn EXCEPT !.file = get /\ answer \in {"file", "unchanged", "unsatisfiable"}]
              corked == [opened EXCEPT !.corked = opened.file]
              refused == [opened EXCEPT !.state = "kPreparingErrorPage"]
              several == get /\ Len(conn.request.ranges) > 1
  <2>1. /\ Running({"kProcessingRequest"})
        /\ \/ /\ answer \in {"error", "unchanged", "unsatisfiable"}
              /\ Continue(refused)
           \/ Continue(Prepared(conn, <<>>, P!Page(conn.req),
                                IF get THEN "kSendingTwoBuffers" ELSE "kSendingHeaders"))
           \/ Continue(Prepared(corked, IF several THEN P!Part(conn.req, 1) ELSE <<>>,
                                <<>>, "kSendingHeaders"))
    BY <1>4, Zenon DEF ProcessRequest
  <2>2. opened \in Fields /\ opened.out = <<>> /\ \A f \in Kept : opened[f] = conn[f]
    BY <1>1, <1>2 DEF Fields, Kept
  <2>. HIDE DEF opened
  <2>3. CASE answer \in {"error", "unchanged", "unsatisfiable"} /\ Continue(refused)
    <3>1. /\ \A f \in Kept : refused[f] = conn[f]
          /\ refused.state = "kPreparingErrorPage"
      BY <2>2 DEF Fields, Kept
    <3>2. conn' = refused /\ conn.state = "kProcessingRequest"
      BY <2>1, <2>3 DEF Continue, Running
    <3>. HIDE DEF refused
    <3>. QED
      BY <1>1, <2>3, <3>1, <3>2, OrderFlags DEF Kept
  <2>4. CASE Continue(Prepared(conn, <<>>, P!Page(conn.req),
                               IF get THEN "kSendingTwoBuffers" ELSE "kSendingHeaders"))
    <3>. DEFINE state == IF get THEN "kSendingTwoBuffers" ELSE "kSendingHeaders"
    <3>1. state \in SendingStates
      BY <1>3
    <3>. HIDE DEF state
    <3>. QED
      BY <1>1, <1>2, <1>3, <2>4, <3>1, OrderPrepared DEF state
  <2>5. CASE Continue(Prepared(corked, IF several THEN P!Part(conn.req, 1) ELSE <<>>, <<>>, "kSendingHeaders"))
    <3>. DEFINE more == IF several THEN P!Part(conn.req, 1) ELSE <<>>
    <3>1. more \in Seq(OutputUnit)
      BY <1>3
    <3>2. corked \in Fields /\ corked.out = <<>> /\ \A f \in Kept : corked[f] = conn[f]
      BY <2>2 DEF Fields, Kept
    <3>. HIDE DEF more, corked
    <3>. QED
      BY <1>1, <1>2, <1>3, <2>5, <3>1, <3>2, OrderPrepared DEF more
  <2>. QED
    BY <2>1, <2>3, <2>4, <2>5
<1>5. CASE PreparingErrorPage
  <2>. DEFINE body == IF conn.request.answer = "unchanged" THEN <<>> ELSE P!Page(conn.req)
              state == IF conn.request.head THEN "kSendingHeaders" ELSE "kSendingTwoBuffers"
  <2>1. body \in Seq(OutputUnit) /\ state \in SendingStates
    BY <1>3
  <2>2. Continue(Prepared(conn, <<>>, body, state))
    BY <1>5, Zenon DEF PreparingErrorPage
  <2>. HIDE DEF body, state
  <2>. QED
    BY <1>1, <1>2, <1>3, <2>1, <2>2, OrderPrepared
<1>. QED
  BY <1>4, <1>5

\* The next request is read once the last has been answered, if the connection
\* stays.
LEMMA OrderRequestCompleted ==
  ASSUME MalformedCloses, Shape, InOrder, RequestCompleted
  PROVE  InOrder'
<1>1. /\ conn \in Fields /\ UNCHANGED <<script, rx, unsent>> /\ phase = "running"
      /\ conn.state = "kRequestCompleted" /\ (Drop \/ (conn.keepAlive /\ Continue(Reset(conn))))
      /\ script \in Scripts
  BY ReqType DEF RequestCompleted, Running, kernelVars, Shape, TypeOK
<1>2. CASE Drop
  BY <1>2 DEF Drop, InOrder
<1>3. CASE conn.keepAlive /\ Continue(Reset(conn))
  <2>. DEFINE d == Reset(conn)
              q == conn.req
  <2>1. /\ q > 0 /\ q \in 0 .. Len(script) /\ conn.nrequests = q /\ Stays(script, q)
        /\ script[q].flaw = "none" => Taken(script, conn, rx, unsent) - HelloOf(conn.https) = 4 * q
        /\ \A j \in 1 .. q - 1 : Stays(script, j)
    BY <1>1, <1>3 DEF InOrder, Order, Sending, SendingStates, Fields
  <2>2. q \in 1 .. Len(script)
    BY <2>1
  <2>3. script[q].flaw = "none"
    BY <1>1, <2>1, <2>2, StaysIsPlain
  <2>4. /\ d.req = q /\ d.nrequests = q /\ d.line = 0 /\ d.state = "kReadingRequestLine"
        /\ d.https = conn.https /\ d.input = conn.input
    BY <1>1, <2>1 DEF Reset, Fields
  <2>. HIDE DEF d
  <2>5. Taken(script, d, rx, unsent) = Taken(script, conn, rx, unsent)
    BY <2>4 DEF Taken
  <2>6. 4 * q = 4 * q + 0
    BY <2>1
  <2>7. Order(script, d, rx, unsent)
    BY <2>1, <2>3, <2>4, <2>5, <2>6 DEF Order, Sending, SendingStates
  <2>. QED
    BY <1>1, <1>3, <2>7 DEF InOrder, Continue, d
<1>. QED
  BY <1>1, <1>2, <1>3

\* Every step keeps the order.
LEMMA OrderNext ==
  ASSUME MalformedCloses, Shape, Shape', InOrder, [Next]_vars
  PROVE  InOrder'
<1>1. CASE Run
  BY <1>1, OrderHandshake, OrderWaiting, OrderReadingRequestLine, OrderReadingHeaders, OrderProcessRequest,
     OrderSends, OrderRequestCompleted DEF Run, Reading, Replying
<1>2. CASE EventLoop \/ ClientReads \/ ClientEnds \/ Expire \/ Terminated \/ UNCHANGED vars
  BY <1>2, OrderOthers
<1>3. CASE ClientSends
  BY <1>3, OrderClientSends
<1>. QED
  BY <1>1, <1>2, <1>3 DEF Next, Client

\* The requests are answered in the order in which they were sent, each once:
\* run() never reads a request before it has answered the one before it, and
\* what it finds in _M_in is where it stopped.
THEOREM RequestsInOrder == MalformedCloses => (Spec => []InOrder)
<1>1. SUFFICES ASSUME MalformedCloses
               PROVE  Spec => []InOrder
  OBVIOUS
<1>2. Init => InOrder
  BY OrderInit
<1>3. Shape /\ Shape' /\ InOrder /\ [Next]_vars => InOrder'
  BY <1>1, OrderNext
<1>. QED
  BY <1>2, <1>3, ShapeIsInvariant, PTL DEF Spec

-----------------------------------------------------------------------------
(* The replies, for requests that are given.                               *)

\* What stands in the reply to request i behind its first k parts, up to the
\* footer.
PartsFrom(i, ranges, k) ==
  FlattenSeq([n \in 1 .. Len(ranges) - k |->
    P!Part(i, k + n) \o P!Bytes(i, ranges[k + n].from, ranges[k + n].to)])

BodyOf(i, r) ==
  IF r.head \/ r.answer \in {"empty", "unchanged"} THEN <<>>
  ELSE IF r.answer # "file" THEN P!Page(i)
  ELSE IF Len(r.ranges) = 0 THEN P!Bytes(i, 0, FileLen - 1)
  ELSE IF Len(r.ranges) = 1 THEN P!Bytes(i, r.ranges[1].from, r.ranges[1].to)
  ELSE PartsFrom(i, r.ranges, 0) \o P!Footer(i)

ReplyTo(s, i) == P!Opening(i, Stays(s, i)) \o BodyOf(i, s[i])

RepliesTo(s, n) ==
  FlattenSeq([i \in 1 .. n |-> IF \A j \in 1 .. i - 1 : Stays(s, j) THEN ReplyTo(s, i) ELSE <<>>])

\* Pipeline concatenates as Connection does.
LEMMA FlattenOfPipeline ==
  ASSUME NEW ss
  PROVE  P!FlattenSeq(ss) = FlattenSeq(ss)
BY Zenon DEF P!FlattenSeq, FlattenSeq

\* These are the replies of Pipeline.
LEMMA RepliesOfPipeline ==
  ASSUME script \in Scripts, NEW n \in 0 .. Len(script)
  PROVE  P!Replies(n) = RepliesTo(script, n)
<1>1. script \in Seq(Request)
  BY RequestedType
<1>2. ASSUME NEW i \in 1 .. Len(script)
      PROVE  P!Parts(i) = PartsFrom(i, script[i].ranges, 0)
  <2>. DEFINE ranges == script[i].ranges
  <2>1. ranges \in Seq([from : Nat, to : Nat])
    <3>1. script[i] \in Request
      BY <1>1, <1>2
    <3>. QED
      BY <3>1 DEF Request
  <2>. HIDE DEF ranges
  <2>2. DOMAIN ranges = 1 .. Len(ranges) - 0 /\ \A n_1 \in 1 .. Len(ranges) - 0 : 0 + n_1 = n_1
    BY <2>1
  <2>3. [n_1 \in DOMAIN ranges |-> P!Part(i, n_1) \o P!Bytes(i, ranges[n_1].from, ranges[n_1].to)]
          = [n_1 \in 1 .. Len(ranges) - 0 |->
               P!Part(i, 0 + n_1) \o P!Bytes(i, ranges[0 + n_1].from, ranges[0 + n_1].to)]
    BY <2>2
  <2>. QED
    BY <2>3, FlattenOfPipeline, Zenon DEF P!Parts, PartsFrom, ranges
<1>3. ASSUME NEW i \in 1 .. Len(script)
      PROVE  P!Body(i) = BodyOf(i, script[i])
  <2>1. script[i] \in Request
    BY <1>1, <1>3
  <2>2. script[i].answer \in {"file", "empty", "listing", "error", "unchanged", "unsatisfiable"} /\ script[i].head \in BOOLEAN
    BY <2>1 DEF Request
  <2>. QED
    BY <1>2, <1>3, <2>2 DEF P!Body, BodyOf
<1>4. ASSUME NEW i \in 1 .. Len(script)
      PROVE  P!Reply(i) = ReplyTo(script, i)
  BY <1>3, <1>4, Zenon DEF P!Reply, P!Stays, Stays, ReplyTo
<1>5. [i \in 1 .. n |-> IF \A j \in 1 .. i - 1 : P!Stays(j) THEN P!Reply(i) ELSE <<>>]
        = [i \in 1 .. n |-> IF \A j \in 1 .. i - 1 : Stays(script, j) THEN ReplyTo(script, i) ELSE <<>>]
  <2>1. \A i \in 1 .. n : i \in 1 .. Len(script)
    BY <1>1
  <2>2. \A i \in 1 .. n : P!Reply(i) = ReplyTo(script, i)
    BY <1>4, <2>1, Zenon
  <2>3. \A j : P!Stays(j) <=> Stays(script, j)
    BY Zenon DEF P!Stays, Stays
  <2>. QED
    BY <2>2, <2>3, Zenon
<1>. QED
  BY <1>5, FlattenOfPipeline, Zenon DEF P!Replies, RepliesTo

\* The parts are made of units.
LEMMA PartsType ==
  ASSUME NEW i \in Nat, NEW ranges \in Seq([from : Nat, to : Nat]), NEW k \in 0 .. Len(ranges)
  PROVE  /\ PartsFrom(i, ranges, k) \in Seq(OutputUnit)
         /\ k = Len(ranges) => PartsFrom(i, ranges, k) = <<>>
<1>. DEFINE l == Len(ranges) - k
            part(n) == P!Part(i, k + n) \o P!Bytes(i, ranges[k + n].from, ranges[k + n].to)
            ss == [n \in 1 .. l |-> part(n)]
<1>1. l \in Nat /\ k \in Nat /\ (k = Len(ranges) => l = 0)
  OBVIOUS
<1>2. ASSUME NEW n \in 1 .. l
      PROVE  part(n) \in Seq(OutputUnit)
  <2>1. k + n \in 1 .. Len(ranges) /\ k + n \in Nat
    BY <1>1
  <2>2. ranges[k + n] \in [from : Nat, to : Nat]
    BY <2>1, ElementOfSeq, Zenon
  <2>3. ranges[k + n].from \in Nat /\ ranges[k + n].to \in Int
    BY <2>2
  <2>. DEFINE a == P!Part(i, k + n)
              b == P!Bytes(i, ranges[k + n].from, ranges[k + n].to)
  <2>4. a \in Seq(OutputUnit) /\ b \in Seq(OutputUnit)
    BY <2>1, <2>3, PieceTypes, Zenon
  <2>. HIDE DEF a, b
  <2>5. a \o b \in Seq(OutputUnit)
    BY <2>4, ConcatProperties
  <2>. QED
    BY <2>5 DEF a, b
<1>3. ss \in [1 .. l -> Seq(OutputUnit)]
  <2>. HIDE DEF part, l
  <2>. QED
    BY <1>2
<1>4. PartsFrom(i, ranges, k) = FlattenSeq(ss)
  BY Zenon DEF PartsFrom
<1>. HIDE DEF ss, l
<1>5. FlattenSeq(ss) \in Seq(OutputUnit)
  BY <1>1, <1>3, FlattenType
<1>6. ASSUME k = Len(ranges)
      PROVE  FlattenSeq(ss) = <<>>
  <2>1. ss = <<>> /\ Len(ss) = 0
    BY <1>1, <1>3, <1>6
  <2>. QED
    BY <2>1, FlattenNone
<1>. QED
  BY <1>4, <1>5, <1>6

\* The next part is the first of those that are left.
LEMMA PartsStep ==
  ASSUME NEW i \in Nat, NEW ranges \in Seq([from : Nat, to : Nat]), NEW k \in Nat, k < Len(ranges)
  PROVE  PartsFrom(i, ranges, k) =
           (P!Part(i, k + 1) \o P!Bytes(i, ranges[k + 1].from, ranges[k + 1].to)) \o PartsFrom(i, ranges, k + 1)
<1>. DEFINE l == Len(ranges) - (k + 1)
            part(m) == P!Part(i, m) \o P!Bytes(i, ranges[m].from, ranges[m].to)
            ss == [n \in 1 .. l + 1 |-> part(k + n)]
            tt == [n \in 1 .. l |-> part((k + 1) + n)]
<1>1. l \in Nat /\ l + 1 = Len(ranges) - k /\ k + 1 \in Nat
  OBVIOUS
<1>2. ASSUME NEW n \in 1 .. l + 1
      PROVE  part(k + n) \in Seq(OutputUnit)
  <2>1. k + n \in 1 .. Len(ranges) /\ k + n \in Nat
    BY <1>1
  <2>2. ranges[k + n] \in [from : Nat, to : Nat]
    BY <2>1, ElementOfSeq, Zenon
  <2>3. ranges[k + n].from \in Nat /\ ranges[k + n].to \in Int
    BY <2>2, SMTT(30)
  <2>. DEFINE a == P!Part(i, k + n)
              b == P!Bytes(i, ranges[k + n].from, ranges[k + n].to)
  <2>4. a \in Seq(OutputUnit) /\ b \in Seq(OutputUnit)
    BY <2>1, <2>3, PieceTypes, Zenon
  <2>. HIDE DEF a, b
  <2>5. a \o b \in Seq(OutputUnit)
    BY <2>4, ConcatProperties
  <2>. QED
    BY <2>5 DEF a, b
<1>3. /\ PartsFrom(i, ranges, k) = FlattenSeq(ss)
      /\ PartsFrom(i, ranges, k + 1) = FlattenSeq(tt)
  BY <1>1, Zenon DEF PartsFrom
<1>. HIDE DEF part, l
<1>4. ss \in [1 .. l + 1 -> Seq(OutputUnit)] /\ 1 \in 1 .. l + 1
  <2>1. ss \in [1 .. l + 1 -> Seq(OutputUnit)]
    BY <1>2
  <2>2. 1 \in 1 .. l + 1
    BY <1>1
  <2>. QED
    BY <2>1, <2>2
<1>5. \A n \in 1 .. l : n + 1 \in 1 .. l + 1 /\ k + (n + 1) = (k + 1) + n
  BY <1>1
<1>6. [n \in 1 .. l |-> ss[n + 1]] = tt /\ ss[1] = part(k + 1)
  BY <1>4, <1>5
<1>. HIDE DEF ss, tt
<1>7. FlattenSeq(ss) = ss[1] \o FlattenSeq([n \in 1 .. l |-> ss[n + 1]])
  BY <1>1, <1>4, FlattenFirst, Zenon
<1>. QED
  BY <1>3, <1>6, <1>7, Zenon DEF part

\* A reply is made of units.
LEMMA ReplyType ==
  ASSUME NEW i \in Nat, NEW r \in Request, NEW keep \in BOOLEAN
  PROVE  /\ BodyOf(i, r) \in Seq(OutputUnit)
         /\ P!Opening(i, keep) \o BodyOf(i, r) \in Seq(OutputUnit)
<1>1. r.ranges \in Seq([from : Nat, to : Nat])
  BY DEF Request
<1>2. P!Page(i) \in Seq(OutputUnit) /\ P!Footer(i) \in Seq(OutputUnit) /\ P!Opening(i, keep) \in Seq(OutputUnit)
  BY PieceTypes
<1>3. P!Bytes(i, 0, FileLen - 1) \in Seq(OutputUnit)
  <2>1. 0 \in Nat /\ FileLen - 1 \in Int
    BY SizeAssumption
  <2>. QED
    BY <2>1, PieceTypes
<1>4. Len(r.ranges) = 1 => P!Bytes(i, r.ranges[1].from, r.ranges[1].to) \in Seq(OutputUnit)
  <2>1. SUFFICES ASSUME Len(r.ranges) = 1
                 PROVE  P!Bytes(i, r.ranges[1].from, r.ranges[1].to) \in Seq(OutputUnit)
    OBVIOUS
  <2>2. 1 \in 1 .. Len(r.ranges)
    BY <2>1
  <2>3. r.ranges[1] \in [from : Nat, to : Nat]
    BY <1>1, <2>2, ElementOfSeq, Zenon
  <2>4. r.ranges[1].from \in Nat /\ r.ranges[1].to \in Int
    BY <2>3
  <2>. QED
    BY <2>4, PieceTypes
<1>5. PartsFrom(i, r.ranges, 0) \o P!Footer(i) \in Seq(OutputUnit)
  <2>1. 0 \in 0 .. Len(r.ranges)
    BY <1>1
  <2>2. PartsFrom(i, r.ranges, 0) \in Seq(OutputUnit)
    BY <1>1, <2>1, PartsType
  <2>. QED
    BY <1>2, <2>2, ConcatProperties
<1>6. <<>> \in Seq(OutputUnit)
  OBVIOUS
<1>7. BodyOf(i, r) \in Seq(OutputUnit)
  BY <1>2, <1>3, <1>4, <1>5, <1>6, Zenon DEF BodyOf
<1>. QED
  BY <1>2, <1>7, ConcatProperties

\* So are the replies; each comes behind the others, if the connection stays.
LEMMA RepliesStep ==
  ASSUME NEW s \in Scripts, NEW n \in 0 .. Len(s)
  PROVE  /\ RepliesTo(s, n) \in Seq(OutputUnit)
         /\ n = 0 => RepliesTo(s, n) = <<>>
         /\ n < Len(s) =>
              /\ ReplyTo(s, n + 1) \in Seq(OutputUnit)
              /\ RepliesTo(s, n + 1) =
                   RepliesTo(s, n) \o (IF \A j \in 1 .. n : Stays(s, j) THEN ReplyTo(s, n + 1) ELSE <<>>)
<1>0. s \in Seq(Request) /\ Len(s) \in Nat
  BY ScriptsAssumption
<1>. DEFINE reply(i) == IF \A j \in 1 .. i - 1 : Stays(s, j) THEN ReplyTo(s, i) ELSE <<>>
            rr(m) == [i \in 1 .. m |-> reply(i)]
<1>1. ASSUME NEW i \in 1 .. Len(s)
      PROVE  ReplyTo(s, i) \in Seq(OutputUnit) /\ reply(i) \in Seq(OutputUnit)
  <2>1. s[i] \in Request /\ i \in Nat
    BY <1>0, <1>1
  <2>2. Stays(s, i) \in BOOLEAN
    BY <2>1 DEF Stays, Request
  <2>3. ReplyTo(s, i) \in Seq(OutputUnit)
    BY <2>1, <2>2, ReplyType DEF ReplyTo
  <2>4. <<>> \in Seq(OutputUnit)
    OBVIOUS
  <2>. QED
    BY <2>3, <2>4
<1>2. RepliesTo(s, n) = FlattenSeq(rr(n)) /\ RepliesTo(s, n + 1) = FlattenSeq(rr(n + 1))
  BY Zenon DEF RepliesTo
<1>. HIDE DEF reply
<1>3. rr(n) \in [1 .. n -> Seq(OutputUnit)] /\ n \in Nat
  <2>1. \A i \in 1 .. n : i \in 1 .. Len(s)
    BY <1>0
  <2>. QED
    BY <1>1, <2>1
<1>4. FlattenSeq(rr(n)) \in Seq(OutputUnit)
  <2>. HIDE DEF rr
  <2>. QED
    BY <1>3, FlattenType
<1>5. ASSUME n = 0
      PROVE  FlattenSeq(rr(n)) = <<>>
  <2>1. rr(n) = <<>> /\ Len(rr(n)) = 0
    BY <1>5
  <2>. QED
    BY <2>1, FlattenNone
<1>6. ASSUME n < Len(s)
      PROVE  /\ ReplyTo(s, n + 1) \in Seq(OutputUnit)
             /\ FlattenSeq(rr(n + 1)) = FlattenSeq(rr(n)) \o reply(n + 1)
  <2>1. n + 1 \in 1 .. Len(s) /\ \A i \in 1 .. n + 1 : i \in 1 .. Len(s)
    BY <1>0, <1>6
  <2>2. rr(n + 1) \in [1 .. n + 1 -> Seq(OutputUnit)]
    BY <1>1, <2>1
  <2>3. [i \in 1 .. n |-> rr(n + 1)[i]] = rr(n) /\ rr(n + 1)[n + 1] = reply(n + 1)
    BY <1>3
  <2>. DEFINE ss == rr(n + 1)
  <2>4. ss \in [1 .. n + 1 -> Seq(OutputUnit)]
    BY <2>2
  <2>. HIDE DEF ss
  <2>5. FlattenSeq(ss) = FlattenSeq([i \in 1 .. n |-> ss[i]]) \o ss[n + 1]
    BY <1>3, <2>4, FlattenStep
  <2>. HIDE DEF rr
  <2>. QED
    BY <1>1, <2>1, <2>3, <2>5, Zenon DEF ss
<1>7. (n + 1) - 1 = n
  BY <1>3
<1>8. reply(n + 1) = IF \A j \in 1 .. n : Stays(s, j) THEN ReplyTo(s, n + 1) ELSE <<>>
  BY <1>7, Zenon DEF reply
<1>. QED
  BY <1>2, <1>4, <1>5, <1>6, <1>8, Zenon

\* The replies to more requests begin with those to fewer.
LEMMA RepliesBegin ==
  ASSUME NEW s \in Scripts, NEW m \in 0 .. Len(s)
  PROVE  \A n \in 0 .. m : \E t \in Seq(OutputUnit) : RepliesTo(s, m) = RepliesTo(s, n) \o t
<1>. DEFINE T == {k \in Nat : \A n \in 0 .. Len(s) : n + k <= Len(s) =>
                    \E t \in Seq(OutputUnit) : RepliesTo(s, n + k) = RepliesTo(s, n) \o t}
<1>0. Len(s) \in Nat
  BY ScriptsAssumption
<1>1. 0 \in T
  <2>1. SUFFICES ASSUME NEW n \in 0 .. Len(s)
                 PROVE  \E t \in Seq(OutputUnit) : RepliesTo(s, n + 0) = RepliesTo(s, n) \o t
    OBVIOUS
  <2>2. RepliesTo(s, n) \in Seq(OutputUnit) /\ n + 0 = n
    BY <1>0, RepliesStep
  <2>3. RepliesTo(s, n) \o <<>> = RepliesTo(s, n) /\ <<>> \in Seq(OutputUnit)
    BY <2>2, ConcatEmptySeq
  <2>. QED
    BY <2>2, <2>3
<1>2. ASSUME NEW k \in Nat, k \in T
      PROVE  k + 1 \in T
  <2>1. SUFFICES ASSUME NEW n \in 0 .. Len(s), n + (k + 1) <= Len(s)
                 PROVE  \E t \in Seq(OutputUnit) : RepliesTo(s, n + (k + 1)) = RepliesTo(s, n) \o t
    <3>1. k + 1 \in Nat
      OBVIOUS
    <3>. QED
      BY <3>1
  <2>2. n + k \in 0 .. Len(s) /\ n + k < Len(s) /\ n + k <= Len(s) /\ n + (k + 1) = (n + k) + 1
    BY <1>0, <2>1
  <2>3. PICK t \in Seq(OutputUnit) : RepliesTo(s, n + k) = RepliesTo(s, n) \o t
    BY <1>2, <2>2
  <2>. HIDE DEF T
  <2>4. PICK u \in Seq(OutputUnit) : RepliesTo(s, (n + k) + 1) = RepliesTo(s, n + k) \o u
    <3>1. <<>> \in Seq(OutputUnit)
      OBVIOUS
    <3>. QED
      BY <2>2, <3>1, RepliesStep
  <2>5. RepliesTo(s, n) \in Seq(OutputUnit)
    BY RepliesStep
  <2>. DEFINE a == RepliesTo(s, n)
  <2>6. a \in Seq(OutputUnit)
    BY <2>5
  <2>. HIDE DEF a
  <2>7. (a \o t) \o u = a \o (t \o u) /\ t \o u \in Seq(OutputUnit)
    BY <2>6
  <2>. QED
    BY <2>2, <2>3, <2>4, <2>7, Zenon DEF a
<1>3. Nat \subseteq T
  <2>. HIDE DEF T
  <2>. QED
    BY <1>1, <1>2, InductionOverNat
<1>4. ASSUME NEW n \in 0 .. m
      PROVE  \E t \in Seq(OutputUnit) : RepliesTo(s, m) = RepliesTo(s, n) \o t
  <2>1. m - n \in Nat /\ n \in 0 .. Len(s) /\ n + (m - n) = m /\ m <= Len(s)
    BY <1>0
  <2>2. m - n \in T
    BY <1>3, <2>1, Zenon
  <2>. QED
    BY <2>1, <2>2
<1>. QED
  BY <1>4

\* The bytes of a file that are left, once some have been written.
LEMMA BytesMeet ==
  ASSUME NEW i \in Nat, NEW from \in Nat, NEW to \in Int, NEW n \in 0 .. Len(P!Bytes(i, from, to))
  PROVE  P!Bytes(i, from, to) = SubSeq(P!Bytes(i, from, to), 1, n) \o P!Bytes(i, from + n, to)
<1>. DEFINE l == IF from <= to THEN to - from + 1 ELSE 0
            all == P!Bytes(i, from, to)
            p == SubSeq(all, 1, n)
            q == P!Bytes(i, from + n, to)
<1>1. /\ all \in Seq(OutputUnit) /\ Len(all) = l /\ l \in Nat /\ n \in 0 .. l
      /\ (l # 0 => l = to - from + 1)
      /\ \A m \in 1 .. l : all[m] = [req |-> i, item |-> "byte", at |-> from + m - 1]
  <2>1. all \in Seq(OutputUnit) /\ Len(all) = l
    BY PieceTypes
  <2>2. l \in Nat /\ (l # 0 => l = to - from + 1)
    OBVIOUS
  <2>3. \A m \in 1 .. to - from + 1 : all[m] = [req |-> i, item |-> "byte", at |-> from + m - 1]
    BY DEF P!Bytes
  <2>. QED
    BY <2>1, <2>2, <2>3
<1>2. /\ q \in Seq(OutputUnit) /\ Len(q) = l - n
      /\ \A m \in 1 .. l - n : q[m] = all[n + m]
  <2>1. from + n \in Nat
    BY <1>1
  <2>2. q \in Seq(OutputUnit) /\ Len(q) = IF from + n <= to THEN to - (from + n) + 1 ELSE 0
    BY <2>1, PieceTypes
  <2>3. Len(q) = l - n
    BY <1>1, <2>1, <2>2, SMTT(30)
  <2>4. \A m \in 1 .. to - (from + n) + 1 : q[m] = [req |-> i, item |-> "byte", at |-> (from + n) + m - 1]
    BY DEF P!Bytes
  <2>5. ASSUME NEW m \in 1 .. l - n
        PROVE  q[m] = all[n + m]
    <3>1. /\ m \in 1 .. to - (from + n) + 1 /\ n + m \in 1 .. l
          /\ (from + n) + m - 1 = from + (n + m) - 1
      <4>1. l \in Nat /\ n \in Nat /\ m \in Nat /\ m >= 1 /\ m + n <= l
        BY <1>1
      <4>2. l = to - from + 1
        BY <1>1, <4>1
      <4>. QED
        BY <4>1, <4>2
    <3>. QED
      BY <1>1, <2>4, <3>1
  <2>. QED
    BY <2>2, <2>3, <2>5
<1>. HIDE DEF all, q, l
<1>3. p \in Seq(OutputUnit) /\ Len(p) = n /\ \A m \in 1 .. n : p[m] = all[m]
  <2>1. /\ 0 + 1 = 1 /\ n - 0 = n /\ 0 <= n /\ n <= Len(all) /\ n \in Nat /\ 0 \in Nat
        /\ \A m \in 1 .. n : 0 + m = m
    BY <1>1
  <2>2. /\ SubSeq(all, 0 + 1, n) \in Seq(OutputUnit) /\ Len(SubSeq(all, 0 + 1, n)) = n - 0
        /\ \A m \in 1 .. n - 0 : SubSeq(all, 0 + 1, n)[m] = all[0 + m]
    <3>1. all \in Seq(OutputUnit)
      BY <1>1
    <3>. QED
      BY <2>1, <3>1, Stretch, SMTT(60)
  <2>. QED
    BY <2>1, <2>2, Zenon
<1>. HIDE DEF p
<1>. DEFINE pq == p \o q
<1>4. /\ pq \in Seq(OutputUnit) /\ Len(pq) = l
      /\ \A m \in 1 .. l : pq[m] = IF m <= n THEN p[m] ELSE q[m - n]
  <2>1. /\ pq \in Seq(OutputUnit) /\ Len(pq) = Len(p) + Len(q)
        /\ \A m \in 1 .. Len(p) + Len(q) : pq[m] = IF m <= Len(p) THEN p[m] ELSE q[m - Len(p)]
    BY <1>2, <1>3, ConcatProperties
  <2>2. Len(p) + Len(q) = l /\ Len(p) = n
    BY <1>1, <1>2, <1>3
  <2>. QED
    BY <2>1, <2>2
<1>. HIDE DEF pq
<1>5. ASSUME NEW m \in 1 .. l
      PROVE  pq[m] = all[m]
  <2>1. CASE m <= n
    BY <1>1, <1>3, <1>4, <2>1
  <2>2. CASE ~(m <= n)
    <3>1. m - n \in 1 .. l - n /\ n + (m - n) = m
      BY <1>1, <2>2
    <3>. QED
      BY <1>2, <1>4, <2>2, <3>1
  <2>. QED
    BY <2>1, <2>2
<1>6. pq = all
  BY <1>1, <1>4, <1>5
<1>. QED
  BY <1>6, Zenon DEF pq, p, q, all

-----------------------------------------------------------------------------
(* What is still to come of the reply.                                     *)

\* What has not been written yet of units in front of the connection.
Left(c, units) == SubSeq(units, c.outp + c.record + 1, Len(units))

\* What follows the bytes of a range, and what is written of them from at on.
Later(c) ==
  IF Len(c.request.ranges) <= 1 THEN <<>>
  ELSE PartsFrom(c.req, c.request.ranges, c.nrange + 1) \o P!Footer(c.req)
BytesFrom(c, at) == P!Bytes(c.req, at, LastByte(c)) \o Later(c)

\* What follows the headers of the reply.
AfterHeaders(c) ==
  IF c.request.head \/ c.request.answer = "empty" THEN <<>> ELSE BytesFrom(c, FirstByte(c))

ToCome(c) ==
  CASE c.state = "kSendingTwoBuffers"      -> Left(c, c.out \o c.body)
    [] c.state = "kSendingHeaders"         -> Left(c, c.out) \o AfterHeaders(c)
    [] c.state = "kSendingPartHeader"      -> Left(c, c.out) \o BytesFrom(c, FirstByte(c))
    [] c.state = "kSendingBody"            -> BytesFrom(c, c.outp)
    [] c.state = "kSendingMultipartFooter" -> Left(c, c.out)
    [] OTHER                               -> <<>>

\* Nothing of the replies is missing, doubled or out of place: what has been
\* written and what the connection has still to write are the replies to the
\* requests it has counted.
Said == phase # "closed" => sent \o ToCome(conn) = RepliesTo(script, conn.nrequests)

\* The members these depend on.
Telling == {"state", "out", "outp", "record", "body", "request", "req", "nrange"}

\* The cases of ToCome.
LEMMA ToComeCases ==
  ASSUME NEW c
  PROVE  /\ c.state = "kSendingTwoBuffers" => ToCome(c) = Left(c, c.out \o c.body)
         /\ c.state = "kSendingHeaders" => ToCome(c) = Left(c, c.out) \o AfterHeaders(c)
         /\ c.state = "kSendingPartHeader" => ToCome(c) = Left(c, c.out) \o BytesFrom(c, FirstByte(c))
         /\ c.state = "kSendingBody" => ToCome(c) = BytesFrom(c, c.outp)
         /\ c.state = "kSendingMultipartFooter" => ToCome(c) = Left(c, c.out)
         /\ c.state \notin SendingStates => ToCome(c) = <<>>
BY DEF ToCome, SendingStates

\* Other members do not matter.
LEMMA SameToCome ==
  ASSUME NEW c, NEW d, \A f \in Telling : d[f] = c[f]
  PROVE  ToCome(d) = ToCome(c)
<1>1. /\ d.state = c.state /\ d.out = c.out /\ d.outp = c.outp /\ d.record = c.record /\ d.body = c.body
      /\ d.request = c.request /\ d.req = c.req /\ d.nrange = c.nrange
  BY DEF Telling
<1>2. \A units : Left(d, units) = Left(c, units)
  BY <1>1, Zenon DEF Left
<1>3. FirstByte(d) = FirstByte(c) /\ LastByte(d) = LastByte(c) /\ Later(d) = Later(c)
  BY <1>1, Zenon DEF FirstByte, LastByte, Later
<1>4. \A at : BytesFrom(d, at) = BytesFrom(c, at)
  BY <1>1, <1>3, Zenon DEF BytesFrom
<1>5. AfterHeaders(d) = AfterHeaders(c)
  BY <1>1, <1>3, <1>4, Zenon DEF AfterHeaders
<1>. QED
  BY <1>1, <1>2, <1>3, <1>4, <1>5, Zenon DEF ToCome

\* Whatever is left is made of units.
LEMMA LeftType ==
  ASSUME NEW c \in Fields, NEW units \in Seq(OutputUnit), c.outp + c.record <= Len(units)
  PROVE  Left(c, units) \in Seq(OutputUnit)
<1>. DEFINE l == Len(units)
            o == c.outp + c.record
<1>1. l \in Nat /\ o \in Nat /\ o <= l
  BY DEF Fields
<1>. HIDE DEF l, o
<1>2. SubSeq(units, o + 1, l) \in Seq(OutputUnit)
  BY <1>1, Stretch DEF l
<1>. QED
  BY <1>2 DEF Left, o, l

\* What is left of a file, and what follows it, is made of units.
LEMMA BytesFromType ==
  ASSUME NEW c \in Fields, c.request.ranges # <<>> => c.nrange < Len(c.request.ranges)
  PROVE  /\ Later(c) \in Seq(OutputUnit)
         /\ \A at \in Nat : BytesFrom(c, at) \in Seq(OutputUnit)
         /\ FirstByte(c) \in Nat /\ LastByte(c) \in Int
<1>1. /\ c.request.ranges \in Seq([from : Nat, to : Nat]) /\ c.req \in Nat /\ c.nrange \in Nat
      /\ FirstByte(c) \in Nat /\ LastByte(c) \in Int
  BY RangeBounds, SMTT(30) DEF Fields, Request
<1>2. Later(c) \in Seq(OutputUnit)
  <2>1. CASE Len(c.request.ranges) <= 1
    BY <2>1 DEF Later
  <2>2. CASE ~(Len(c.request.ranges) <= 1)
    <3>. DEFINE ranges == c.request.ranges
                k == c.nrange + 1
                a == PartsFrom(c.req, ranges, k)
                b == P!Footer(c.req)
    <3>1. k \in 0 .. Len(ranges)
      <4>. DEFINE l == Len(ranges)
      <4>1. l \in Nat /\ c.nrange < l /\ c.nrange \in Nat
        BY <1>1, <2>2
      <4>. HIDE DEF l
      <4>2. k \in 0 .. l
        BY <4>1
      <4>. QED
        BY <4>2 DEF l
    <3>2. a \in Seq(OutputUnit) /\ b \in Seq(OutputUnit)
      <4>. HIDE DEF k
      <4>. QED
        BY <1>1, <3>1, PartsType, PieceTypes
    <3>3. Later(c) = a \o b
      BY <2>2 DEF Later
    <3>. HIDE DEF a, b
    <3>. QED
      BY <3>2, <3>3, ConcatProperties
  <2>. QED
    BY <2>1, <2>2
<1>3. ASSUME NEW at \in Nat
      PROVE  BytesFrom(c, at) \in Seq(OutputUnit)
  <2>1. P!Bytes(c.req, at, LastByte(c)) \in Seq(OutputUnit)
    BY <1>1, PieceTypes
  <2>. QED
    BY <1>2, <2>1, ConcatProperties DEF BytesFrom
<1>. QED
  BY <1>1, <1>2, <1>3

\* So is what is still to come in any state.
LEMMA ToComeType ==
  ASSUME NEW c \in Fields, Offsets(c)
  PROVE  ToCome(c) \in Seq(OutputUnit)
<1>1. /\ c.out \in Seq(OutputUnit) /\ c.body \in Seq(OutputUnit) /\ c.outp \in Nat
      /\ <<>> \in Seq(OutputUnit) /\ c.request.ranges \in Seq([from : Nat, to : Nat])
  BY DEF Fields, Request
<1>2. CASE c.state = "kSendingTwoBuffers"
  <2>. DEFINE units == c.out \o c.body
  <2>1. units \in Seq(OutputUnit) /\ Len(units) = Len(c.out) + Len(c.body)
    BY <1>1, ConcatProperties
  <2>2. c.outp + c.record <= Len(units)
    BY <1>2, <2>1 DEF Offsets
  <2>. HIDE DEF units
  <2>3. Left(c, units) \in Seq(OutputUnit)
    BY <2>1, <2>2, LeftType
  <2>. QED
    BY <1>2, <2>3, ToComeCases, Zenon DEF units
<1>3. CASE c.state \in WithOut
  <2>1. Left(c, c.out) \in Seq(OutputUnit)
    <3>1. c.outp + c.record <= Len(c.out)
      BY <1>3 DEF Offsets
    <3>. QED
      BY <1>1, <3>1, LeftType
  <2>2. CASE c.state # "kSendingMultipartFooter"
    <3>1. c.request.ranges # <<>> => c.nrange < Len(c.request.ranges)
      <4>1. \/ c.state = "kSendingHeaders" /\ c.nrange = 0
            \/ c.nrange < Len(c.request.ranges)
        BY <1>3, <2>2 DEF WithOut, Offsets
      <4>2. c.request.ranges # <<>> => 0 < Len(c.request.ranges)
        BY <1>1
      <4>. QED
        BY <4>1, <4>2
    <3>2. BytesFrom(c, FirstByte(c)) \in Seq(OutputUnit) /\ AfterHeaders(c) \in Seq(OutputUnit)
      BY <1>1, <3>1, BytesFromType DEF AfterHeaders
    <3>3. /\ Left(c, c.out) \o BytesFrom(c, FirstByte(c)) \in Seq(OutputUnit)
          /\ Left(c, c.out) \o AfterHeaders(c) \in Seq(OutputUnit)
      BY <2>1, <3>2, ConcatProperties
    <3>4. c.state \in {"kSendingHeaders", "kSendingPartHeader"}
      BY <1>3, <2>2 DEF WithOut
    <3>. QED
      BY <3>3, <3>4, ToComeCases
  <2>3. CASE c.state = "kSendingMultipartFooter"
    BY <2>1, <2>3, ToComeCases
  <2>. QED
    BY <2>2, <2>3
<1>4. CASE c.state = "kSendingBody"
  <2>1. c.request.ranges # <<>> => c.nrange < Len(c.request.ranges)
    BY <1>4 DEF Offsets
  <2>2. BytesFrom(c, c.outp) \in Seq(OutputUnit)
    BY <1>1, <2>1, BytesFromType
  <2>. QED
    BY <1>4, <2>2, ToComeCases
<1>5. CASE c.state \notin SendingStates
  BY <1>1, <1>5, ToComeCases
<1>. QED
  BY <1>2, <1>3, <1>4, <1>5 DEF SendingStates, WithOut

-----------------------------------------------------------------------------
(* Every step writes what was still to come.                               *)

\* A step that writes p.
LEMMA SaidGoesOn ==
  ASSUME Shape, Shape', Said, phase # "closed", phase' # "closed", script' = script,
         NEW d, conn' = d, d.nrequests = conn.nrequests,
         NEW p \in Seq(OutputUnit), sent' = sent \o p, p \o ToCome(d) = ToCome(conn)
  PROVE  Said'
<1>1. d \in Fields /\ Offsets(d) /\ sent \in Seq(OutputUnit)
  <2>1. conn' \in Fields' /\ Offsets(conn')
    BY DEF Shape, TypeOK
  <2>2. Fields' = Fields
    BY DEF Fields
  <2>. QED
    BY <2>1, <2>2 DEF Shape, TypeOK
<1>. DEFINE t == ToCome(d)
<1>2. t \in Seq(OutputUnit)
  BY <1>1, ToComeType
<1>3. sent \o ToCome(conn) = RepliesTo(script, conn.nrequests)
  BY DEF Said
<1>. HIDE DEF t
<1>4. (sent \o p) \o t = sent \o (p \o t)
  BY <1>1, <1>2
<1>5. sent' \o ToCome(conn') = RepliesTo(script', conn'.nrequests)
  BY <1>3, <1>4, Zenon DEF t
<1>. QED
  BY <1>5 DEF Said

\* A step that writes nothing.
LEMMA SaidStays ==
  ASSUME Said, phase # "closed", UNCHANGED <<script, sent>>,
         NEW d, conn' = d, d.nrequests = conn.nrequests, ToCome(d) = ToCome(conn)
  PROVE  Said'
<1>1. sent' \o ToCome(conn') = RepliesTo(script', conn'.nrequests)
  BY Zenon DEF Said
<1>. QED
  BY <1>1 DEF Said

\* A step between states in which nothing is written.
LEMMA SaidQuiet ==
  ASSUME Said, phase # "closed", UNCHANGED <<script, sent>>, conn.state \notin SendingStates,
         NEW d, conn' = d, d.nrequests = conn.nrequests, d.state \notin SendingStates
  PROVE  Said'
<1>1. ToCome(d) = <<>> /\ ToCome(conn) = <<>>
  BY ToComeCases
<1>. QED
  BY <1>1, SaidStays

\* Nothing is said before the first request.
LEMMA SaidInit == Init => Said
<1>1. SUFFICES ASSUME Init
               PROVE  sent \o ToCome(conn) = RepliesTo(script, conn.nrequests)
  BY DEF Said
<1>2. /\ sent = <<>> /\ script \in Scripts /\ conn.nrequests = 0 /\ conn.state = "kHandshaking"
  BY <1>1 DEF Init, NewConnection
<1>3. ToCome(conn) = <<>>
  BY <1>2, ToComeCases DEF SendingStates
<1>4. 0 \in 0 .. Len(script)
  <2>1. Len(script) \in Nat
    BY <1>2, RequestedType
  <2>. QED
    BY <2>1
<1>5. RepliesTo(script, 0) = <<>>
  BY <1>2, <1>4, RepliesStep
<1>6. <<>> \o <<>> = <<>>
  OBVIOUS
<1>. QED
  BY <1>2, <1>3, <1>5, <1>6, Zenon

\* The event loop and the client.
LEMMA SaidOthers ==
  ASSUME Shape, Said, EventLoop \/ Client \/ Expire \/ Terminated \/ UNCHANGED vars
  PROVE  Said'
<1>1. CASE phase' = "closed"
  BY <1>1 DEF Said
<1>2. CASE phase' # "closed"
  <2>0. conn \in Fields
    BY ReqType
  <2>1. /\ UNCHANGED <<script, sent>> /\ phase # "closed"
        /\ \/ conn' = conn
           \/ conn' = [conn EXCEPT !.readable = TRUE]
           \/ conn' = [conn EXCEPT !.writable = TRUE]
    BY <1>2 DEF EventLoop, Deliver, Discard, OnWritable, Client, ClientSends, ClientReads, ClientEnds, Expire,
                Drop, Terminated, vars, processVars, kernelVars
  <2>. DEFINE d == conn'
  <2>2. (\A f \in Telling : d[f] = conn[f]) /\ d.nrequests = conn.nrequests
    BY <2>0, <2>1 DEF Fields, Telling
  <2>. HIDE DEF d
  <2>3. ToCome(d) = ToCome(conn)
    BY <2>2, SameToCome
  <2>. QED
    BY <2>1, <2>2, <2>3, SaidStays DEF d
<1>. QED
  BY <1>1, <1>2

\* The turns of run() that read.
LEMMA SaidReading ==
  ASSUME Shape, Said, Handshake \/ Reading
  PROVE  Said'
<1>1. conn \in Fields
  BY ReqType
<1>2. CASE Handshake
  <2>. DEFINE n == Min({conn.hello, Len(rx)})
              c == [conn EXCEPT !.hello = @ - n]
              done == [c EXCEPT !.state = "kReadingRequestLine",
                                !.timerSet = IF conn.https THEN FALSE ELSE @]
              waits == [c EXCEPT !.timerSet = TRUE, !.readable = FALSE]
  <2>1. /\ Running({"kHandshaking"}) /\ UNCHANGED <<script, sent>>
        /\ Continue(done) \/ Return(waits) \/ Drop
    BY <1>2, Zenon DEF Handshake
  <2>. HIDE DEF n
  <2>2. /\ done.nrequests = conn.nrequests /\ done.state = "kReadingRequestLine"
        /\ waits.nrequests = conn.nrequests /\ waits.state = conn.state
    BY <1>1 DEF Fields
  <2>. HIDE DEF done, waits
  <2>3. conn.state \notin SendingStates /\ "kReadingRequestLine" \notin SendingStates /\ phase # "closed"
    BY <2>1 DEF Running, SendingStates
  <2>4. CASE Continue(done)
    BY <2>1, <2>2, <2>3, <2>4, SaidQuiet DEF Continue
  <2>5. CASE Return(waits)
    BY <2>1, <2>2, <2>3, <2>5, SaidQuiet DEF Return
  <2>6. CASE Drop
    BY <2>6 DEF Drop, Said
  <2>. QED
    BY <2>1, <2>4, <2>5, <2>6
<1>3. CASE NotReadable \/ ReadsNothing
  <2>1. /\ UNCHANGED <<script, sent>> /\ phase = "running" /\ conn.state \in ReadingStates
        /\ conn' = Waiting(conn) \/ conn' = Waiting([conn EXCEPT !.timerSet = TRUE, !.readable = FALSE])
    BY <1>3 DEF NotReadable, ReadsNothing, NeedsInput, Running, Return, kernelVars, ReadingStates
  <2>2. conn'.nrequests = conn.nrequests /\ conn'.state \in ReadingStates
    BY <1>1, <2>1 DEF Fields, Waiting, ReadingStates
  <2>3. conn.state \notin SendingStates /\ conn'.state \notin SendingStates
    BY <2>1, <2>2 DEF ReadingStates, SendingStates
  <2>. QED
    BY <2>1, <2>2, <2>3, SaidQuiet
<1>4. CASE ReadFails
  BY <1>4 DEF ReadFails, Drop, Said
<1>5. CASE ReadingRequestLine
  <2>. DEFINE c == Received
              parts == SubSeq(LineParts, c.line + 1, 2)
              n == Matching(c.input, parts)
              d == Consumed(c, n)
              i == c.input[n + 1].req
              line == [d EXCEPT !.state = "kAfterRequestLine", !.line = 2,
                                !.req = c.input[1].req, !.request = script[c.input[1].req]]
              more == [d EXCEPT !.line = @ + n]
              bad == [d EXCEPT !.state = "kPreparingErrorPage", !.req = i,
                               !.request = IF c.line + n = 0 THEN Garbage ELSE script[i]]
  <2>1. /\ Running({"kReadingRequestLine"}) /\ Reads
        /\ Continue(line) \/ Continue(more) \/ Continue(bad)
        /\ UNCHANGED <<script, sent>>
    BY <1>5, Zenon DEF ReadingRequestLine
  <2>2. c \in Fields /\ c.state = "kReadingRequestLine" /\ c.nrequests = conn.nrequests
    <3>1. Running(ReadingStates) /\ conn.state = "kReadingRequestLine"
      BY <2>1 DEF Running, ReadingStates
    <3>. QED
      BY <2>1, <3>1, ReceivedFits
  <2>. HIDE DEF c
  <2>3. DOMAIN d = DOMAIN c /\ d.state = "kReadingRequestLine" /\ d.nrequests = conn.nrequests
        /\ "state" \in DOMAIN c
    BY <2>2 DEF Consumed, Fields
  <2>. HIDE DEF n, d, i
  <2>4. /\ line.nrequests = conn.nrequests /\ line.state = "kAfterRequestLine"
        /\ more.nrequests = conn.nrequests /\ more.state = "kReadingRequestLine"
        /\ bad.nrequests = conn.nrequests /\ bad.state = "kPreparingErrorPage"
    BY <2>3
  <2>. HIDE DEF line, more, bad
  <2>5. /\ conn.state \notin SendingStates /\ phase # "closed" /\ conn' \in {line, more, bad}
        /\ line.state \notin SendingStates /\ more.state \notin SendingStates /\ bad.state \notin SendingStates
    BY <2>1, <2>4 DEF Running, SendingStates, Continue
  <2>. QED
    BY <2>1, <2>4, <2>5, SaidQuiet
<1>6. CASE ReadingHeaders
  <2>. DEFINE c == Received
              e == Consumed(c, 2)
              done == [e EXCEPT !.state = "kProcessingRequest"]
              more == [c EXCEPT !.state = "kReadingHeaders"]
              bad == [c EXCEPT !.state = "kPreparingErrorPage"]
  <2>1. /\ Running({"kAfterRequestLine", "kReadingHeaders"}) /\ Reads
        /\ Continue(done) \/ Continue(more) \/ Continue(bad)
        /\ UNCHANGED <<script, sent>>
    BY <1>6, Zenon DEF ReadingHeaders
  <2>2. c \in Fields /\ c.nrequests = conn.nrequests
    <3>1. Running(ReadingStates)
      BY <2>1 DEF Running, ReadingStates
    <3>. QED
      BY <2>1, <3>1, ReceivedFits
  <2>. HIDE DEF c
  <2>3. DOMAIN e = DOMAIN c /\ e.nrequests = conn.nrequests /\ "state" \in DOMAIN c
    BY <2>2 DEF Consumed, Fields
  <2>. HIDE DEF e
  <2>4. /\ done.nrequests = conn.nrequests /\ done.state = "kProcessingRequest"
        /\ more.nrequests = conn.nrequests /\ more.state = "kReadingHeaders"
        /\ bad.nrequests = conn.nrequests /\ bad.state = "kPreparingErrorPage"
    BY <2>2, <2>3
  <2>. HIDE DEF done, more, bad
  <2>5. /\ conn.state \notin SendingStates /\ phase # "closed" /\ conn' \in {done, more, bad}
        /\ done.state \notin SendingStates /\ more.state \notin SendingStates /\ bad.state \notin SendingStates
    BY <2>1, <2>4 DEF Running, SendingStates, Continue
  <2>. QED
    BY <2>1, <2>4, <2>5, SaidQuiet
<1>. QED
  BY <1>2, <1>3, <1>4, <1>5, <1>6 DEF Reading

\* The end of a reply, and run() returning without having written.
LEMMA SaidEnds ==
  ASSUME Shape, Said, NotWritable \/ SendFails \/ RequestCompleted
  PROVE  Said'
<1>1. conn \in Fields
  BY ReqType
<1>2. CASE NotWritable
  <2>1. UNCHANGED <<script, sent, conn>> /\ phase = "running"
    BY <1>2 DEF NotWritable, Running, Return, kernelVars
  <2>. QED
    BY <2>1, SaidStays
<1>3. CASE phase' = "closed"
  BY <1>3 DEF Said
<1>4. CASE RequestCompleted /\ phase' # "closed"
  <2>. DEFINE d == Reset(conn)
  <2>1. /\ UNCHANGED <<script, sent>> /\ phase = "running" /\ conn.state = "kRequestCompleted" /\ conn' = d
    BY <1>4 DEF RequestCompleted, Running, Continue, Drop, kernelVars
  <2>2. d.nrequests = conn.nrequests /\ d.state = "kReadingRequestLine"
    BY <1>1 DEF Reset, Fields
  <2>. HIDE DEF d
  <2>3. conn.state \notin SendingStates /\ d.state \notin SendingStates
    BY <2>1, <2>2 DEF SendingStates
  <2>. QED
    BY <2>1, <2>2, <2>3, SaidQuiet
<1>. QED
  BY <1>2, <1>3, <1>4 DEF SendFails, Drop

-----------------------------------------------------------------------------
(* A reply is prepared.                                                    *)

\* The headers of a file, or of one part, and the bytes that follow are the
\* reply.
LEMMA BodyFollows ==
  ASSUME NEW c \in Fields, c.nrange = 0, c.req \in Nat,
         c.request.ranges # <<>> => c.request.answer = "file",
         c.request.answer \in {"file", "empty"}
  PROVE  (IF ~c.request.head /\ Len(c.request.ranges) > 1 THEN P!Part(c.req, 1) ELSE <<>>) \o AfterHeaders(c)
           = BodyOf(c.req, c.request)
<1>. DEFINE r == c.request
            ranges == r.ranges
            i == c.req
            l == Len(ranges)
            several == ~r.head /\ l > 1
            first == IF several THEN P!Part(i, 1) ELSE <<>>
            a == P!Part(i, 1)
            b == P!Bytes(i, ranges[1].from, ranges[1].to)
            t == PartsFrom(i, ranges, 1)
            f == P!Footer(i)
<1>1. /\ r \in Request /\ ranges \in Seq([from : Nat, to : Nat]) /\ l \in Nat
      /\ (ranges = <<>> <=> l = 0)
  BY DEF Fields, Request
<1>2. CASE r.head \/ r.answer = "empty"
  <2>1. ~several
    BY <1>1, <1>2
  <2>2. first = <<>> /\ AfterHeaders(c) = <<>> /\ BodyOf(i, r) = <<>>
    BY <1>2, <2>1 DEF AfterHeaders, BodyOf
  <2>3. <<>> \o <<>> = <<>>
    OBVIOUS
  <2>. QED
    BY <2>2, <2>3, Zenon
<1>3. CASE ~r.head /\ r.answer = "file"
  <2>1. AfterHeaders(c) = P!Bytes(i, FirstByte(c), LastByte(c)) \o Later(c)
    BY <1>3 DEF AfterHeaders, BytesFrom
  <2>2. CASE l = 0
    <3>1. /\ FirstByte(c) = 0 /\ LastByte(c) = FileLen - 1 /\ Later(c) = <<>> /\ first = <<>>
          /\ BodyOf(i, r) = P!Bytes(i, 0, FileLen - 1)
      BY <1>1, <1>3, <2>2 DEF FirstByte, LastByte, Later, BodyOf
    <3>. DEFINE x == P!Bytes(i, 0, FileLen - 1)
    <3>2. x \in Seq(OutputUnit)
      <4>1. 0 \in Nat /\ FileLen - 1 \in Int
        BY SizeAssumption
      <4>. QED
        BY <4>1, PieceTypes
    <3>. HIDE DEF x, first
    <3>3. <<>> \o (x \o <<>>) = x
      BY <3>2
    <3>. QED
      BY <2>1, <3>1, <3>3, Zenon DEF x, first
  <2>3. CASE l # 0
    <3>0. ranges # <<>> /\ 1 \in 1 .. l /\ 0 + 1 = 1
      BY <1>1, <2>3
    <3>1. FirstByte(c) = ranges[1].from /\ LastByte(c) = ranges[1].to
      BY <3>0 DEF FirstByte, LastByte
    <3>2. ranges[1] \in [from : Nat, to : Nat]
      BY <1>1, <3>0, ElementOfSeq, Zenon
    <3>3. b \in Seq(OutputUnit) /\ a \in Seq(OutputUnit) /\ f \in Seq(OutputUnit)
      <4>1. ranges[1].from \in Nat /\ ranges[1].to \in Int /\ 1 \in Nat
        BY <3>2
      <4>. QED
        BY <4>1, PieceTypes
    <3>4. t \in Seq(OutputUnit)
      <4>1. 1 \in 0 .. Len(ranges)
        BY <1>1, <2>3
      <4>. QED
        BY <1>1, <4>1, PartsType
    <3>5. AfterHeaders(c) = b \o Later(c)
      BY <2>1, <3>1, Zenon
    <3>6. CASE l = 1
      <4>1. first = <<>> /\ Later(c) = <<>> /\ BodyOf(i, r) = b
        BY <1>1, <1>3, <3>6 DEF Later, BodyOf
      <4>. HIDE DEF b, first
      <4>2. <<>> \o (b \o <<>>) = b
        BY <3>3
      <4>. QED
        BY <3>5, <4>1, <4>2, Zenon DEF first
    <3>7. CASE l # 1
      <4>1. several /\ l > 1
        <5>1. l > 1
          <6>. HIDE DEF l
          <6>. QED
            BY <1>1, <2>3, <3>7
        <5>. QED
          BY <1>3, <5>1
      <4>2. /\ first = a /\ Later(c) = PartsFrom(i, ranges, 0 + 1) \o f
            /\ BodyOf(i, r) = PartsFrom(i, ranges, 0) \o f
        BY <1>1, <1>3, <2>3, <3>7, <4>1 DEF Later, BodyOf
      <4>3. PartsFrom(i, ranges, 0)
              = (P!Part(i, 0 + 1) \o P!Bytes(i, ranges[0 + 1].from, ranges[0 + 1].to)) \o PartsFrom(i, ranges, 0 + 1)
        <5>1. 0 \in Nat /\ 0 < Len(ranges)
          BY <1>1, <2>3
        <5>. HIDE DEF ranges
        <5>. QED
          BY <1>1, <5>1, PartsStep
      <4>4. /\ Later(c) = t \o f /\ BodyOf(i, r) = ((a \o b) \o t) \o f
        BY <3>0, <4>2, <4>3, Zenon
      <4>. HIDE DEF a, b, t, f, first
      <4>5. a \o (b \o (t \o f)) = ((a \o b) \o t) \o f
        BY <3>3, <3>4, SMTT(30)
      <4>. QED
        BY <3>5, <4>2, <4>4, <4>5, Zenon DEF first, several
    <3>. QED
      BY <3>6, <3>7
  <2>. QED
    BY <2>2, <2>3
<1>. QED
  BY <1>2, <1>3

\* What is still to come of a reply that has been prepared.
LEMMA PreparedToCome ==
  ASSUME NEW c \in Fields, c.out = <<>>, c.outp = 0, c.nrange = 0, c.record = 0, c.nrequests < MaxRequests,
         c.nrequests + 1 = c.req, c.request = script[c.req],
         NEW more \in Seq(OutputUnit), NEW body \in Seq(OutputUnit), NEW state \in States
  PROVE  /\ P!Opening(c.req, Stays(script, c.req)) \in Seq(OutputUnit)
         /\ Prepared(c, more, body, state).nrequests = c.req
         /\ state = "kSendingTwoBuffers" =>
              ToCome(Prepared(c, more, body, state)) = (P!Opening(c.req, Stays(script, c.req)) \o more) \o body
         /\ state = "kSendingHeaders" =>
              ToCome(Prepared(c, more, body, state)) = (P!Opening(c.req, Stays(script, c.req)) \o more) \o AfterHeaders(c)
<1>. DEFINE d == Prepared(c, more, body, state)
            opening == P!Opening(c.req, Stays(script, c.req))
            out == opening \o more
<1>1. c.out = <<>> /\ c.outp = 0 /\ c.nrange = 0 /\ c.record = 0 /\ c.req \in Nat /\ c.request.keep \in BOOLEAN
  BY DEF Fields, Request
<1>2. /\ d.state = state /\ d.body = body /\ d.nrequests = c.nrequests + 1
      /\ d.keepAlive = (c.nrequests + 1 # MaxRequests /\ c.request.keep)
      /\ d.out = P!Opening(c.req, d.keepAlive) \o more
      /\ \A f \in DOMAIN c \ {"nrequests", "keepAlive", "out", "body", "state"} : d[f] = c[f]
  BY PreparedFits
<1>. HIDE DEF d
<1>3. /\ {"outp", "nrange", "record", "req", "request"} \subseteq DOMAIN c
  BY DEF Fields
<1>4. d.outp = 0 /\ d.nrange = c.nrange /\ d.record = 0 /\ d.req = c.req /\ d.request = c.request
  BY <1>1, <1>2, <1>3
<1>5. d.out = out /\ Stays(script, c.req) \in BOOLEAN
  <2>1. d.keepAlive = Stays(script, c.req)
    BY <1>2, Zenon DEF Stays
  <2>2. Stays(script, c.req) \in BOOLEAN
    BY <1>1 DEF Stays
  <2>. QED
    BY <1>2, <2>1, <2>2, Zenon
<1>6. opening \in Seq(OutputUnit) /\ out \in Seq(OutputUnit)
  <2>1. opening \in Seq(OutputUnit)
    BY <1>1, <1>5, PieceTypes, Zenon
  <2>. HIDE DEF opening
  <2>. QED
    BY <2>1, ConcatProperties
<1>7. \A units \in Seq(OutputUnit) : Left(d, units) = units
  <2>1. SUFFICES ASSUME NEW units \in Seq(OutputUnit)
                 PROVE  Left(d, units) = units
    OBVIOUS
  <2>2. SubSeq(units, 1, Len(units)) = units
    BY WholeStretch
  <2>3. d.outp + d.record + 1 = 1
    BY <1>4
  <2>. QED
    BY <2>2, <2>3, Zenon DEF Left
<1>. HIDE DEF out
<1>8. out \o body \in Seq(OutputUnit)
  BY <1>6, ConcatProperties
<1>9. Left(d, d.out) = out /\ Left(d, d.out \o d.body) = out \o body
  BY <1>2, <1>5, <1>6, <1>7, <1>8, Zenon
<1>10. AfterHeaders(d) = AfterHeaders(c)
  <2>1. FirstByte(d) = FirstByte(c) /\ LastByte(d) = LastByte(c) /\ Later(d) = Later(c)
    BY <1>4, Zenon DEF FirstByte, LastByte, Later
  <2>2. \A at : BytesFrom(d, at) = BytesFrom(c, at)
    BY <1>4, <2>1, Zenon DEF BytesFrom
  <2>. QED
    BY <1>4, <2>1, <2>2, Zenon DEF AfterHeaders
<1>11. /\ state = "kSendingTwoBuffers" => ToCome(d) = out \o body
       /\ state = "kSendingHeaders" => ToCome(d) = out \o AfterHeaders(c)
  BY <1>2, <1>9, <1>10, ToComeCases
<1>12. d.nrequests = c.req
  BY <1>2
<1>. QED
  BY <1>6, <1>11, <1>12, Zenon DEF d, opening, out

\* The reply that is prepared is to the request that was read.
LEMMA SaidPrepared ==
  ASSUME Shape, InOrder, Said, phase = "running", UNCHANGED <<script, sent>>,
         conn.state \in {"kProcessingRequest", "kPreparingErrorPage"},
         NEW d, conn' = d, d.nrequests = conn.req, ToCome(d) = ReplyTo(script, conn.req)
  PROVE  Said'
<1>. DEFINE q == conn.req
            n == q - 1
<1>1. /\ script \in Scripts /\ conn \in Fields /\ q \in 0 .. Len(script) /\ Len(script) \in Nat
      /\ sent \in Seq(OutputUnit)
  BY ReqType DEF Fields, Shape, TypeOK
<1>2. /\ q > 0 /\ conn.nrequests = n /\ \A j \in 1 .. n : Stays(script, j)
  BY DEF InOrder, Order, Sending, SendingStates
<1>3. ToCome(conn) = <<>>
  BY ToComeCases DEF SendingStates
<1>4. sent = RepliesTo(script, n)
  <2>1. sent \o <<>> = RepliesTo(script, n)
    BY <1>2, <1>3, Zenon DEF Said
  <2>2. sent \o <<>> = sent
    BY <1>1, ConcatEmptySeq
  <2>. QED
    BY <2>1, <2>2, Zenon
<1>5. n \in 0 .. Len(script) /\ n < Len(script) /\ n + 1 = q
  BY <1>1, <1>2
<1>. HIDE DEF n
<1>6. RepliesTo(script, n + 1) = RepliesTo(script, n) \o ReplyTo(script, n + 1)
  BY <1>1, <1>2, <1>5, RepliesStep
<1>7. sent \o ToCome(d) = RepliesTo(script, d.nrequests)
  BY <1>4, <1>5, <1>6, Zenon
<1>8. sent' \o ToCome(conn') = RepliesTo(script', conn'.nrequests)
  BY <1>7, Zenon
<1>. QED
  BY <1>8 DEF Said

\* What the connection is like when its reply is prepared.
LEMMA BeforeReply ==
  ASSUME Shape, InOrder, phase = "running", conn.state \in {"kProcessingRequest", "kPreparingErrorPage"}
  PROVE  /\ conn \in Fields /\ conn.out = <<>> /\ conn.outp = 0 /\ conn.nrange = 0 /\ conn.record = 0
         /\ conn.nrequests < MaxRequests /\ conn.nrequests + 1 = conn.req
         /\ conn.request = script[conn.req] /\ conn.req \in Nat
         /\ (conn.request.ranges # <<>> => conn.request.answer = "file")
<1>1. /\ conn \in Fields /\ Offsets(conn) /\ script \in Scripts /\ script \in Seq(Request)
  BY ReqType DEF Shape
<1>2. /\ conn.out = <<>> /\ conn.outp = 0 /\ conn.nrange = 0 /\ conn.record = 0
      /\ conn.nrequests < MaxRequests
  BY <1>1 DEF Offsets, Clean
<1>3. conn.req > 0 /\ conn.nrequests = conn.req - 1 /\ conn.request = script[conn.req]
  BY DEF InOrder, Order, Sending, SendingStates
<1>4. conn.req \in 0 .. Len(script) /\ Len(script) \in Nat
  BY <1>1 DEF Fields
<1>5. conn.req \in 1 .. Len(script) /\ conn.req \in Nat /\ conn.nrequests + 1 = conn.req
  <2>. DEFINE q == conn.req
              l == Len(script)
              n == conn.nrequests
  <2>1. q \in 0 .. l /\ l \in Nat /\ q > 0 /\ n = q - 1
    BY <1>3, <1>4
  <2>. HIDE DEF q, l, n
  <2>2. q \in 1 .. l /\ q \in Nat /\ n + 1 = q
    BY <2>1
  <2>. QED
    BY <2>2 DEF q, l, n
<1>6. script[conn.req].ranges # <<>> => script[conn.req].answer = "file"
  <2>1. conn.req \in DOMAIN script
    BY <1>1, <1>5
  <2>. QED
    BY <1>1, <2>1, ScriptsAssumption
<1>. QED
  BY <1>1, <1>2, <1>3, <1>5, <1>6

\* The answer is that of the request.
LEMMA SaidProcessRequest ==
  ASSUME Shape, InOrder, Said, ProcessRequest
  PROVE  Said'
<1>. DEFINE r == conn.request
            i == conn.req
            answer == r.answer
            get == ~r.head
            opened == [conn EXCEPT !.file = get /\ answer \in {"file", "unchanged", "unsatisfiable"}]
            corked == [opened EXCEPT !.corked = opened.file]
            refused == [opened EXCEPT !.state = "kPreparingErrorPage"]
            several == get /\ Len(r.ranges) > 1
            opening == P!Opening(i, Stays(script, i))
<1>1. /\ Running({"kProcessingRequest"}) /\ UNCHANGED <<script, sent>>
      /\ \/ Continue(refused)
         \/ answer = "listing" /\ Continue(Prepared(conn, <<>>, P!Page(i), IF get THEN "kSendingTwoBuffers"
                                                                          ELSE "kSendingHeaders"))
         \/ answer \in {"file", "empty"} /\ Continue(Prepared(corked, IF several THEN P!Part(i, 1) ELSE <<>>,
                                                              <<>>, "kSendingHeaders"))
  BY Zenon DEF ProcessRequest
<1>2. phase = "running" /\ conn.state = "kProcessingRequest"
  BY <1>1 DEF Running
<1>3. /\ conn \in Fields /\ conn.out = <<>> /\ conn.outp = 0 /\ conn.nrange = 0 /\ conn.record = 0
      /\ conn.nrequests < MaxRequests /\ conn.nrequests + 1 = i
      /\ r = script[i] /\ i \in Nat
      /\ (r.ranges # <<>> => answer = "file")
  BY <1>2, BeforeReply
<1>4. opened \in Fields /\ opened.nrequests = conn.nrequests /\ DOMAIN opened = DOMAIN conn
      /\ \A f \in Telling : opened[f] = conn[f]
  BY <1>3 DEF Fields, Telling
<1>5. /\ P!Page(i) \in Seq(OutputUnit) /\ P!Part(i, 1) \in Seq(OutputUnit) /\ <<>> \in Seq(OutputUnit)
      /\ "kSendingTwoBuffers" \in States /\ "kSendingHeaders" \in States
  <2>1. P!Page(i) \in Seq(OutputUnit) /\ \A n \in Nat : P!Part(i, n) \in Seq(OutputUnit)
    BY <1>3, PieceTypes
  <2>2. P!Part(i, 1) \in Seq(OutputUnit)
    BY <2>1
  <2>3. "kSendingTwoBuffers" \in States /\ "kSendingHeaders" \in States
    BY DEF States, SendingStates
  <2>4. <<>> \in Seq(OutputUnit)
    OBVIOUS
  <2>. QED
    BY <2>1, <2>2, <2>3, <2>4
<1>6. CASE Continue(refused)
  <2>1. refused.nrequests = conn.nrequests /\ refused.state = "kPreparingErrorPage"
    BY <1>3 DEF Fields
  <2>. HIDE DEF refused
  <2>2. conn.state \notin SendingStates /\ refused.state \notin SendingStates /\ conn' = refused
    BY <1>2, <1>6, <2>1 DEF SendingStates, Continue
  <2>. QED
    BY <1>1, <1>2, <2>1, <2>2, SaidQuiet
<1>7. ASSUME answer = "listing",
             Continue(Prepared(conn, <<>>, P!Page(i), IF get THEN "kSendingTwoBuffers" ELSE "kSendingHeaders"))
      PROVE  Said'
  <2>. DEFINE state == IF get THEN "kSendingTwoBuffers" ELSE "kSendingHeaders"
              d == Prepared(conn, <<>>, P!Page(i), state)
              page == P!Page(i)
  <2>1. state \in States
    BY <1>5
  <2>2. /\ opening \in Seq(OutputUnit) /\ d.nrequests = i
        /\ state = "kSendingTwoBuffers" => ToCome(d) = (opening \o <<>>) \o page
        /\ state = "kSendingHeaders" => ToCome(d) = (opening \o <<>>) \o AfterHeaders(conn)
    <3>1. conn.nrequests + 1 = conn.req /\ conn.request = script[conn.req] /\ page \in Seq(OutputUnit)
      BY <1>3, <1>5, Zenon
    <3>. HIDE DEF state, page
    <3>2. /\ P!Opening(conn.req, Stays(script, conn.req)) \in Seq(OutputUnit)
          /\ Prepared(conn, <<>>, page, state).nrequests = conn.req
          /\ state = "kSendingTwoBuffers" => ToCome(Prepared(conn, <<>>, page, state))
               = (P!Opening(conn.req, Stays(script, conn.req)) \o <<>>) \o page
          /\ state = "kSendingHeaders" => ToCome(Prepared(conn, <<>>, page, state))
               = (P!Opening(conn.req, Stays(script, conn.req)) \o <<>>) \o AfterHeaders(conn)
      BY <1>3, <1>5, <2>1, <3>1, PreparedToCome, ZenonT(60)
    <3>. QED
      BY <3>2, Zenon DEF page
  <2>3. conn' = d
    BY <1>7 DEF Continue
  <2>. HIDE DEF d, opening, page
  <2>4. opening \o <<>> = opening
    BY <2>2, ConcatEmptySeq
  <2>5. ToCome(d) = opening \o BodyOf(i, r)
    <3>1. CASE get
      <4>1. BodyOf(i, r) = page
        BY <1>7, <3>1 DEF BodyOf, page
      <4>. QED
        BY <2>2, <2>4, <3>1, <4>1
    <3>2. CASE ~get
      <4>1. BodyOf(i, r) = <<>> /\ AfterHeaders(conn) = <<>>
        BY <3>2 DEF BodyOf, AfterHeaders
      <4>. QED
        BY <2>2, <2>4, <3>2, <4>1
    <3>. QED
      BY <3>1, <3>2
  <2>6. ToCome(d) = ReplyTo(script, i)
    BY <1>3, <2>5, Zenon DEF ReplyTo, opening
  <2>. QED
    BY <1>1, <1>2, <2>2, <2>3, <2>6, SaidPrepared
<1>8. ASSUME answer \in {"file", "empty"},
             Continue(Prepared(corked, IF several THEN P!Part(i, 1) ELSE <<>>, <<>>, "kSendingHeaders"))
      PROVE  Said'
  <2>. DEFINE more == IF several THEN P!Part(i, 1) ELSE <<>>
              d == Prepared(corked, more, <<>>, "kSendingHeaders")
  <2>1. /\ corked \in Fields /\ corked.nrequests = conn.nrequests
        /\ \A f \in Telling : corked[f] = conn[f]
    <3>. HIDE DEF opened
    <3>. QED
      BY <1>3, <1>4 DEF Fields, Telling
  <2>. HIDE DEF corked
  <2>2. /\ corked.out = <<>> /\ corked.outp = 0 /\ corked.nrange = 0 /\ corked.record = 0
        /\ corked.request = r /\ corked.req = i
    BY <1>3, <2>1 DEF Telling
  <2>3. more \in Seq(OutputUnit)
    BY <1>5
  <2>4. more \o AfterHeaders(corked) = BodyOf(i, r)
    BY <1>3, <1>8, <2>1, <2>2, BodyFollows
  <2>5. conn' = d
    BY <1>8 DEF Continue
  <2>. HIDE DEF more
  <2>6. opening \in Seq(OutputUnit) /\ d.nrequests = i /\ ToCome(d) = (opening \o more) \o AfterHeaders(corked)
    <3>1. /\ corked.nrequests < MaxRequests /\ corked.nrequests + 1 = corked.req
          /\ corked.request = script[corked.req]
      BY <1>3, <2>1, <2>2
    <3>2. /\ P!Opening(corked.req, Stays(script, corked.req)) \in Seq(OutputUnit)
          /\ Prepared(corked, more, <<>>, "kSendingHeaders").nrequests = corked.req
          /\ ToCome(Prepared(corked, more, <<>>, "kSendingHeaders"))
               = (P!Opening(corked.req, Stays(script, corked.req)) \o more) \o AfterHeaders(corked)
      BY <1>5, <2>1, <2>2, <2>3, <3>1, PreparedToCome, ZenonT(60)
    <3>. QED
      BY <2>2, <3>2, Zenon
  <2>. HIDE DEF d, opening
  <2>7. AfterHeaders(corked) \in Seq(OutputUnit)
    <3>1. corked.request.ranges # <<>> => corked.nrange < Len(corked.request.ranges)
      <4>1. corked.request.ranges \in Seq([from : Nat, to : Nat])
        BY <2>1 DEF Fields, Request
      <4>. QED
        BY <2>2, <4>1
    <3>2. /\ \A at \in Nat : BytesFrom(corked, at) \in Seq(OutputUnit)
          /\ FirstByte(corked) \in Nat
      BY <2>1, <3>1, BytesFromType
    <3>. QED
      BY <1>5, <3>2 DEF AfterHeaders
  <2>8. (opening \o more) \o AfterHeaders(corked) = opening \o (more \o AfterHeaders(corked))
    <3>. DEFINE a == AfterHeaders(corked)
    <3>1. a \in Seq(OutputUnit)
      BY <2>7
    <3>. HIDE DEF a
    <3>2. (opening \o more) \o a = opening \o (more \o a)
      BY <2>3, <2>6, <3>1
    <3>. QED
      BY <3>2 DEF a
  <2>9. ToCome(d) = ReplyTo(script, i)
    BY <1>3, <2>4, <2>6, <2>8, Zenon DEF ReplyTo, opening
  <2>. QED
    BY <1>1, <1>2, <2>5, <2>6, <2>9, SaidPrepared
<1>. QED
  BY <1>1, <1>6, <1>7, <1>8

\* Error pages, and 304 without one.
LEMMA SaidErrorPage ==
  ASSUME Shape, InOrder, Said, PreparingErrorPage
  PROVE  Said'
<1>. DEFINE r == conn.request
            i == conn.req
            page == IF r.answer = "unchanged" THEN <<>> ELSE P!Page(i)
            state == IF r.head THEN "kSendingHeaders" ELSE "kSendingTwoBuffers"
            d == Prepared(conn, <<>>, page, state)
            opening == P!Opening(i, Stays(script, i))
<1>1. /\ Running({"kPreparingErrorPage"}) /\ UNCHANGED <<script, sent>> /\ Continue(d)
  BY Zenon DEF PreparingErrorPage
<1>2. phase = "running" /\ conn.state = "kPreparingErrorPage" /\ conn' = d
  BY <1>1 DEF Running, Continue
<1>3. /\ conn \in Fields /\ conn.out = <<>> /\ conn.outp = 0 /\ conn.nrange = 0 /\ conn.record = 0
      /\ conn.nrequests < MaxRequests /\ conn.nrequests + 1 = i
      /\ r = script[i] /\ i \in Nat
  BY <1>2, BeforeReply
<1>4. r.answer \in {"error", "unchanged", "unsatisfiable"}
  BY <1>2 DEF InOrder, Order
<1>5. page \in Seq(OutputUnit) /\ state \in States /\ <<>> \in Seq(OutputUnit)
  <2>1. P!Page(i) \in Seq(OutputUnit)
    BY <1>3, PieceTypes
  <2>2. state \in States
    BY DEF States, SendingStates
  <2>. QED
    BY <2>1, <2>2
<1>6. /\ opening \in Seq(OutputUnit) /\ d.nrequests = i
      /\ state = "kSendingTwoBuffers" => ToCome(d) = (opening \o <<>>) \o page
      /\ state = "kSendingHeaders" => ToCome(d) = (opening \o <<>>) \o AfterHeaders(conn)
  <2>1. /\ d = Prepared(conn, <<>>, page, state) /\ opening = P!Opening(conn.req, Stays(script, conn.req))
        /\ conn.nrequests + 1 = conn.req /\ conn.request = script[conn.req]
    BY <1>3, Zenon
  <2>. HIDE DEF page, state, d, opening
  <2>. QED
    BY <1>3, <1>5, <2>1, PreparedToCome, ZenonT(60)
<1>. HIDE DEF d, opening
<1>7. opening \o <<>> = opening
  BY <1>6, ConcatEmptySeq
<1>8. ToCome(d) = opening \o BodyOf(i, r)
  <2>1. CASE ~r.head
    <3>1. BodyOf(i, r) = page
      BY <1>4, <2>1 DEF BodyOf
    <3>. HIDE DEF page
    <3>. QED
      BY <1>6, <1>7, <2>1, <3>1
  <2>2. CASE r.head
    <3>1. BodyOf(i, r) = <<>> /\ AfterHeaders(conn) = <<>>
      BY <2>2 DEF BodyOf, AfterHeaders
    <3>. QED
      BY <1>6, <1>7, <2>2, <3>1
  <2>. QED
    BY <2>1, <2>2
<1>9. ToCome(d) = ReplyTo(script, i)
  BY <1>3, <1>8, Zenon DEF ReplyTo, opening
<1>. QED
  BY <1>1, <1>2, <1>6, <1>9, SaidPrepared

-----------------------------------------------------------------------------
(* A reply is sent.                                                        *)

\* A write leaves what has not been pushed.
LEMMA LeftGoes ==
  ASSUME Shape, NEW units \in Seq(OutputUnit), conn.outp + conn.record <= Len(units)
  PROVE  LET w == Write(Rest(units), conn.https)
             c == After(w)
         IN /\ w.pushed \in Seq(OutputUnit) /\ Left(c, units) \in Seq(OutputUnit) /\ c \in Fields
            /\ w.pushed \o Left(c, units) = Left(conn, units)
            /\ (c.outp = Len(units) => Left(c, units) = <<>>)
            /\ \A f \in DOMAIN conn \ {"outp", "record", "writable", "timerSet"} : c[f] = conn[f]
<1>. DEFINE w == Write(Rest(units), conn.https)
            c == After(w)
            a == conn.outp + conn.record
            b == c.outp + c.record
<1>1. /\ w.pushed \in Seq(OutputUnit) /\ c \in Fields /\ b \in a .. Len(units)
      /\ (c.outp = Len(units) \/ ~c.https => c.record = 0)
      /\ w.pushed = SubSeq(units, a + 1, b)
      /\ \A f \in DOMAIN conn \ {"outp", "record", "writable", "timerSet"} : c[f] = conn[f]
  BY BufferWrite, Zenon
<1>. HIDE DEF w, c
<1>2. a \in Nat /\ b \in Nat /\ a <= b /\ b <= Len(units)
  <2>1. conn.outp \in Nat /\ conn.record \in Nat /\ c.outp \in Nat /\ c.record \in Nat
    BY <1>1, ReqType DEF Fields
  <2>2. a \in Nat /\ b \in Nat /\ Len(units) \in Nat
    BY <2>1
  <2>. HIDE DEF a, b
  <2>. QED
    BY <1>1, <2>2
<1>3. Left(c, units) \in Seq(OutputUnit)
  BY <1>1, <1>2, LeftType
<1>4. Left(c, units) = SubSeq(units, b + 1, Len(units)) /\ Left(conn, units) = SubSeq(units, a + 1, Len(units))
  BY Zenon DEF Left
<1>5. c.outp = Len(units) => b = Len(units)
  <2>1. Len(units) \in Nat
    OBVIOUS
  <2>. QED
    BY <1>1, <2>1
<1>. HIDE DEF a, b
<1>6. SubSeq(units, a + 1, b) \o SubSeq(units, b + 1, Len(units)) = SubSeq(units, a + 1, Len(units))
  BY <1>2, StretchesMeet
<1>7. c.outp = Len(units) => Left(c, units) = <<>>
  BY <1>4, <1>5, WholeStretch
<1>. QED
  BY <1>1, <1>3, <1>4, <1>6, <1>7, Zenon DEF w, c

\* The bytes to come depend on the request and on the range.
LEMMA SameBytes ==
  ASSUME NEW c, NEW d, d.request = c.request, d.req = c.req, d.nrange = c.nrange
  PROVE  /\ FirstByte(d) = FirstByte(c) /\ LastByte(d) = LastByte(c) /\ Later(d) = Later(c)
         /\ \A at : BytesFrom(d, at) = BytesFrom(c, at)
         /\ AfterHeaders(d) = AfterHeaders(c)
<1>1. FirstByte(d) = FirstByte(c) /\ LastByte(d) = LastByte(c) /\ Later(d) = Later(c)
  BY Zenon DEF FirstByte, LastByte, Later
<1>2. \A at : BytesFrom(d, at) = BytesFrom(c, at)
  BY <1>1, Zenon DEF BytesFrom
<1>. QED
  BY <1>1, <1>2, Zenon DEF AfterHeaders

\* A step that hands units to the socket, and what it leaves is still to come.
Says ==
  /\ Said' /\ conn'.nrequests = conn.nrequests
  /\ \E p \in Seq(OutputUnit) : sent' = sent \o p

\* A step that hands p to the socket.
LEMMA SaidSends ==
  ASSUME Shape, Shape', Said, NEW state, NEW w, Sends(state, w), w.pushed \in Seq(OutputUnit),
         NEW d, Continue(d), d.nrequests = conn.nrequests, w.pushed \o ToCome(d) = ToCome(conn)
  PROVE  Says
<1>. DEFINE p == w.pushed
<1>1. /\ phase = "running" /\ phase' = "running" /\ script' = script /\ conn' = d /\ sent' = sent \o p
      /\ p \in Seq(OutputUnit) /\ p \o ToCome(d) = ToCome(conn)
  BY Zenon DEF Sends, Running, Continue
<1>2. phase # "closed" /\ phase' # "closed"
  BY <1>1
<1>. HIDE DEF p
<1>3. Said'
  BY <1>1, <1>2, SaidGoesOn
<1>. QED
  BY <1>1, <1>3, Zenon DEF Says

\* kSendingTwoBuffers
LEMMA SaidSendTwoBuffers ==
  ASSUME Shape, Shape', Said, SendTwoBuffers
  PROVE  Says
<1>. DEFINE units == conn.out \o conn.body
            w == Write(Rest(units), conn.https)
            c == After(w)
            d == [c EXCEPT !.state = IF c.outp = Len(units) THEN "kRequestCompleted" ELSE @]
<1>1. Sends("kSendingTwoBuffers", w) /\ Continue(d)
  BY Zenon DEF SendTwoBuffers
<1>2. /\ conn \in Fields /\ conn.state = "kSendingTwoBuffers"
      /\ conn.out \in Seq(OutputUnit) /\ conn.body \in Seq(OutputUnit)
      /\ conn.outp + conn.record <= Len(conn.out) + Len(conn.body)
  BY <1>1 DEF Sends, Running, Shape, TypeOK, Fields, Offsets
<1>3. units \in Seq(OutputUnit) /\ Len(units) = Len(conn.out) + Len(conn.body)
  BY <1>2, ConcatProperties
<1>4. ToCome(conn) = Left(conn, units)
  BY <1>2, ToComeCases, Zenon
<1>5. units = conn.out \o conn.body
  OBVIOUS
<1>. HIDE DEF units
<1>6. conn.outp + conn.record <= Len(units)
  BY <1>2, <1>3
<1>7. /\ w.pushed \in Seq(OutputUnit) /\ Left(c, units) \in Seq(OutputUnit) /\ c \in Fields
      /\ w.pushed \o Left(c, units) = Left(conn, units)
      /\ (c.outp = Len(units) => Left(c, units) = <<>>)
      /\ \A f \in DOMAIN conn \ {"outp", "record", "writable", "timerSet"} : c[f] = conn[f]
  BY <1>3, <1>6, LeftGoes, Zenon
<1>. HIDE DEF w, c
<1>8. /\ c.state = "kSendingTwoBuffers" /\ c.out = conn.out /\ c.body = conn.body /\ c.nrequests = conn.nrequests
  BY <1>2, <1>7 DEF Fields
<1>9. /\ d.state = (IF c.outp = Len(units) THEN "kRequestCompleted" ELSE "kSendingTwoBuffers")
      /\ d.out = conn.out /\ d.body = conn.body /\ d.outp = c.outp /\ d.record = c.record
      /\ d.nrequests = conn.nrequests
  BY <1>7, <1>8 DEF Fields
<1>. HIDE DEF d
<1>10. ToCome(d) = Left(c, units)
  <2>1. CASE c.outp = Len(units)
    <3>1. ToCome(d) = <<>>
      BY <1>9, <2>1, ToComeCases DEF SendingStates
    <3>. QED
      BY <1>7, <2>1, <3>1
  <2>2. CASE c.outp # Len(units)
    <3>1. ToCome(d) = Left(d, d.out \o d.body)
      BY <1>9, <2>2, ToComeCases, Zenon
    <3>. QED
      BY <1>5, <1>9, <3>1, Zenon DEF Left
  <2>. QED
    BY <2>1, <2>2
<1>11. w.pushed \o ToCome(d) = ToCome(conn)
  BY <1>4, <1>7, <1>10, Zenon
<1>. QED
  BY <1>1, <1>7, <1>9, <1>11, SaidSends, Zenon

\* A write of what is in _M_out, which more units follow.
LEMMA SaidOut ==
  ASSUME Shape, Shape', Said, NEW state,
         NEW w, Sends(state, w), w.pushed \in Seq(OutputUnit),
         NEW left \in Seq(OutputUnit), w.pushed \o left = Left(conn, conn.out),
         NEW more \in Seq(OutputUnit), ToCome(conn) = Left(conn, conn.out) \o more,
         NEW d, Continue(d), d.nrequests = conn.nrequests, ToCome(d) = left \o more
  PROVE  Says
<1>1. PICK p \in Seq(OutputUnit) : p = w.pushed /\ p \o left = Left(conn, conn.out)
  BY Zenon
<1>2. (p \o left) \o more = p \o (left \o more)
  BY SMTT(30)
<1>3. w.pushed \o ToCome(d) = ToCome(conn)
  BY <1>1, <1>2, Zenon
<1>. QED
  BY <1>3, SaidSends, Zenon

\* kSendingHeaders
LEMMA SaidSendHeaders ==
  ASSUME Shape, Shape', Said, SendHeaders
  PROVE  Says
<1>. DEFINE w == Write(Rest(conn.out), conn.https)
            c == After(w)
            bodiless == conn.request.head \/ conn.request.answer = "empty"
            done == [c EXCEPT !.state = "kRequestCompleted"]
            goes == [c EXCEPT !.state = "kSendingBody", !.outp = FirstByte(c)]
            left == Left(c, conn.out)
            more == AfterHeaders(conn)
<1>1. /\ Sends("kSendingHeaders", w)
      /\ \/ Continue(c)
         \/ c.outp = Len(conn.out) /\ bodiless /\ Continue(done)
         \/ c.outp = Len(conn.out) /\ ~bodiless /\ Continue(goes)
  BY Zenon DEF SendHeaders
<1>2. /\ conn \in Fields /\ conn.state = "kSendingHeaders" /\ conn.out \in Seq(OutputUnit)
      /\ conn.outp + conn.record <= Len(conn.out) /\ conn.nrange = 0
  BY <1>1 DEF Sends, Running, Shape, TypeOK, Fields, Offsets, WithOut
<1>3. /\ w.pushed \in Seq(OutputUnit) /\ left \in Seq(OutputUnit) /\ c \in Fields
      /\ w.pushed \o left = Left(conn, conn.out)
      /\ (c.outp = Len(conn.out) => left = <<>>)
      /\ \A f \in DOMAIN conn \ {"outp", "record", "writable", "timerSet"} : c[f] = conn[f]
  BY <1>2, LeftGoes, Zenon
<1>4. ToCome(conn) = Left(conn, conn.out) \o more
  BY <1>2, ToComeCases, Zenon
<1>5. /\ bodiless => more = <<>>
      /\ ~bodiless => more = BytesFrom(conn, FirstByte(conn))
  BY Zenon DEF AfterHeaders
<1>6. more \in Seq(OutputUnit)
  <2>1. conn.request.ranges # <<>> => conn.nrange < Len(conn.request.ranges)
    <3>1. conn.request.ranges \in Seq([from : Nat, to : Nat])
      BY <1>2 DEF Fields, Request
    <3>. QED
      BY <1>2, <3>1
  <2>2. \A at \in Nat : BytesFrom(conn, at) \in Seq(OutputUnit)
    BY <1>2, <2>1, BytesFromType
  <2>3. FirstByte(conn) \in Nat
    BY <1>2, <2>1, RangeBounds
  <2>4. <<>> \in Seq(OutputUnit)
    OBVIOUS
  <2>. QED
    BY <1>5, <2>2, <2>3, <2>4, Zenon
<1>. HIDE DEF w, c, bodiless
<1>7. /\ c.state = "kSendingHeaders" /\ c.out = conn.out /\ c.nrequests = conn.nrequests
      /\ c.request = conn.request /\ c.req = conn.req /\ c.nrange = conn.nrange
  BY <1>2, <1>3 DEF Fields
<1>8. /\ FirstByte(c) = FirstByte(conn) /\ AfterHeaders(c) = more
  BY <1>7, SameBytes, Zenon
<1>9. CASE Continue(c)
  <2>1. ToCome(c) = left \o more
    BY <1>7, <1>8, ToComeCases, Zenon
  <2>. HIDE DEF left, more
  <2>. QED
    BY <1>1, <1>3, <1>4, <1>6, <1>7, <1>9, <2>1, SaidOut, Zenon
<1>10. CASE c.outp = Len(conn.out) /\ bodiless /\ Continue(done)
  <2>1. done.state = "kRequestCompleted" /\ done.nrequests = conn.nrequests
    BY <1>3, <1>7 DEF Fields
  <2>. HIDE DEF done
  <2>2. ToCome(done) = <<>>
    BY <2>1, ToComeCases DEF SendingStates
  <2>3. <<>> \o <<>> = <<>>
    OBVIOUS
  <2>4. ToCome(done) = left \o more
    BY <1>3, <1>5, <1>10, <2>2, <2>3, Zenon
  <2>. HIDE DEF left, more
  <2>. QED
    BY <1>1, <1>3, <1>4, <1>6, <1>10, <2>1, <2>4, SaidOut, Zenon
<1>11. CASE c.outp = Len(conn.out) /\ ~bodiless /\ Continue(goes)
  <2>1. /\ goes.state = "kSendingBody" /\ goes.nrequests = conn.nrequests /\ goes.outp = FirstByte(conn)
        /\ goes.request = conn.request /\ goes.req = conn.req /\ goes.nrange = conn.nrange
    BY <1>3, <1>7, <1>8 DEF Fields
  <2>. HIDE DEF goes
  <2>2. ToCome(goes) = BytesFrom(goes, goes.outp)
    BY <2>1, ToComeCases, Zenon
  <2>3. BytesFrom(goes, goes.outp) = BytesFrom(conn, FirstByte(conn))
    BY <2>1, SameBytes, Zenon
  <2>4. <<>> \o more = more
    BY <1>6, ConcatEmptySeq, Zenon
  <2>5. ToCome(goes) = left \o more
    BY <1>3, <1>5, <1>11, <2>2, <2>3, <2>4, Zenon
  <2>. HIDE DEF left, more
  <2>. QED
    BY <1>1, <1>3, <1>4, <1>6, <1>11, <2>1, <2>5, SaidOut, Zenon
<1>. QED
  BY <1>1, <1>9, <1>10, <1>11

\* kSendingPartHeader
LEMMA SaidSendPartHeader ==
  ASSUME Shape, Shape', Said, SendPartHeader
  PROVE  Says
<1>. DEFINE w == Write(Rest(conn.out), conn.https)
            c == After(w)
            goes == [c EXCEPT !.state = "kSendingBody", !.outp = FirstByte(c)]
            left == Left(c, conn.out)
            more == BytesFrom(conn, FirstByte(conn))
<1>1. /\ Sends("kSendingPartHeader", w)
      /\ Continue(IF c.outp < Len(conn.out) THEN c ELSE goes)
  BY Zenon DEF SendPartHeader
<1>2. /\ conn \in Fields /\ conn.state = "kSendingPartHeader" /\ conn.out \in Seq(OutputUnit)
      /\ conn.state \in WithOut /\ conn.nrange < Len(conn.request.ranges)
      /\ conn.outp + conn.record <= Len(conn.out)
  BY <1>1 DEF Sends, Running, Shape, TypeOK, Fields, Offsets, WithOut
<1>3. /\ w.pushed \in Seq(OutputUnit) /\ left \in Seq(OutputUnit) /\ c \in Fields
      /\ w.pushed \o left = Left(conn, conn.out)
      /\ (c.outp = Len(conn.out) => left = <<>>)
      /\ \A f \in DOMAIN conn \ {"outp", "record", "writable", "timerSet"} : c[f] = conn[f]
  BY <1>2, LeftGoes, Zenon
<1>4. ToCome(conn) = Left(conn, conn.out) \o more
  BY <1>2, ToComeCases, Zenon
<1>5. c.outp <= Len(c.out)
  BY <1>2, OutWrite, Zenon
<1>6. more \in Seq(OutputUnit)
  BY <1>2, BytesFromType
<1>. HIDE DEF w, c
<1>7. /\ c.state = "kSendingPartHeader" /\ c.out = conn.out /\ c.nrequests = conn.nrequests
      /\ c.request = conn.request /\ c.req = conn.req /\ c.nrange = conn.nrange
  BY <1>2, <1>3 DEF Fields
<1>8. FirstByte(c) = FirstByte(conn) /\ BytesFrom(c, FirstByte(c)) = more
  BY <1>7, SameBytes, Zenon
<1>9. CASE Continue(c)
  <2>1. ToCome(c) = left \o more
    BY <1>7, <1>8, ToComeCases, Zenon
  <2>. HIDE DEF left, more
  <2>. QED
    BY <1>1, <1>3, <1>4, <1>6, <1>7, <1>9, <2>1, SaidOut, Zenon
<1>10. CASE ~(c.outp < Len(conn.out)) /\ Continue(goes)
  <2>0. c.outp = Len(conn.out)
    <3>. DEFINE l == Len(c.out)
    <3>1. l \in Nat /\ c.outp \in Nat /\ c.outp <= l /\ ~(c.outp < l)
      BY <1>3, <1>5, <1>7, <1>10 DEF Fields
    <3>. HIDE DEF l
    <3>2. c.outp = l
      BY <3>1
    <3>. QED
      BY <1>7, <3>2 DEF l
  <2>1. /\ goes.state = "kSendingBody" /\ goes.nrequests = conn.nrequests /\ goes.outp = FirstByte(conn)
        /\ goes.request = conn.request /\ goes.req = conn.req /\ goes.nrange = conn.nrange
    BY <1>3, <1>7, <1>8 DEF Fields
  <2>. HIDE DEF goes
  <2>2. ToCome(goes) = BytesFrom(goes, goes.outp)
    BY <2>1, ToComeCases, Zenon
  <2>3. BytesFrom(goes, goes.outp) = more
    BY <2>1, SameBytes, ZenonT(40)
  <2>4. <<>> \o more = more
    BY <1>6, ConcatEmptySeq, Zenon
  <2>5. ToCome(goes) = left \o more
    BY <1>3, <2>0, <2>2, <2>3, <2>4, Zenon
  <2>. HIDE DEF left, more
  <2>. QED
    BY <1>1, <1>3, <1>4, <1>6, <1>10, <2>1, <2>5, SaidOut, Zenon
<1>. QED
  BY <1>1, <1>9, <1>10

\* kSendingMultipartFooter
LEMMA SaidSendMultipartFooter ==
  ASSUME Shape, Shape', Said, SendMultipartFooter
  PROVE  Says
<1>. DEFINE w == Write(Rest(conn.out), conn.https)
            c == After(w)
            done == [c EXCEPT !.state = "kRequestCompleted", !.corked = FALSE]
            left == Left(c, conn.out)
<1>1. /\ Sends("kSendingMultipartFooter", w)
      /\ Continue(IF c.outp < Len(conn.out) THEN c ELSE done)
  BY Zenon DEF SendMultipartFooter
<1>2. /\ conn \in Fields /\ conn.state = "kSendingMultipartFooter" /\ conn.out \in Seq(OutputUnit)
      /\ conn.state \in WithOut /\ conn.outp + conn.record <= Len(conn.out)
  BY <1>1 DEF Sends, Running, Shape, TypeOK, Fields, Offsets, WithOut
<1>3. /\ w.pushed \in Seq(OutputUnit) /\ left \in Seq(OutputUnit) /\ c \in Fields
      /\ w.pushed \o left = Left(conn, conn.out)
      /\ (c.outp = Len(conn.out) => left = <<>>)
      /\ \A f \in DOMAIN conn \ {"outp", "record", "writable", "timerSet"} : c[f] = conn[f]
  BY <1>2, LeftGoes, Zenon
<1>4. ToCome(conn) = Left(conn, conn.out)
  BY <1>2, ToComeCases, Zenon
<1>5. c.outp <= Len(c.out)
  BY <1>2, OutWrite, Zenon
<1>. HIDE DEF w, c
<1>7. c.state = "kSendingMultipartFooter" /\ c.out = conn.out /\ c.nrequests = conn.nrequests
  BY <1>2, <1>3 DEF Fields
<1>8. ASSUME NEW d, Continue(d), d.nrequests = conn.nrequests, ToCome(d) = left
      PROVE  Says
  <2>1. w.pushed \o ToCome(d) = ToCome(conn)
    BY <1>3, <1>4, <1>8, Zenon
  <2>. QED
    BY <1>1, <1>3, <1>8, <2>1, SaidSends, Zenon
<1>9. CASE Continue(c)
  <2>1. ToCome(c) = left
    BY <1>7, ToComeCases, Zenon
  <2>. QED
    BY <1>7, <1>8, <1>9, <2>1
<1>10. CASE ~(c.outp < Len(conn.out)) /\ Continue(done)
  <2>0. c.outp = Len(conn.out)
    <3>. DEFINE l == Len(c.out)
    <3>1. l \in Nat /\ c.outp \in Nat /\ c.outp <= l /\ ~(c.outp < l)
      BY <1>3, <1>5, <1>7, <1>10 DEF Fields
    <3>. HIDE DEF l
    <3>2. c.outp = l
      BY <3>1
    <3>. QED
      BY <1>7, <3>2 DEF l
  <2>1. done.state = "kRequestCompleted" /\ done.nrequests = conn.nrequests
    BY <1>3, <1>7 DEF Fields
  <2>. HIDE DEF done
  <2>2. ToCome(done) = <<>>
    BY <2>1, ToComeCases DEF SendingStates
  <2>. QED
    BY <1>3, <1>8, <1>10, <2>0, <2>1, <2>2, Zenon
<1>. QED
  BY <1>1, <1>9, <1>10

\* What follows a range whose bytes have all been written.
LEMMA LaterSteps ==
  ASSUME NEW c \in Fields, Len(c.request.ranges) > 1, c.nrange < Len(c.request.ranges)
  PROVE  /\ c.nrange + 1 = Len(c.request.ranges) => Later(c) = P!Footer(c.req)
         /\ c.nrange + 1 < Len(c.request.ranges) =>
              \A d \in Fields :
                 d.request = c.request /\ d.req = c.req /\ d.nrange = c.nrange + 1 =>
                   Later(c) = P!Part(c.req, d.nrange + 1) \o BytesFrom(d, FirstByte(d))
<1>. DEFINE ranges == c.request.ranges
            i == c.req
            k == c.nrange + 1
            f == P!Footer(i)
<1>1. /\ ranges \in Seq([from : Nat, to : Nat]) /\ i \in Nat /\ k \in Nat /\ Len(ranges) \in Nat
      /\ ~(Len(ranges) <= 1) /\ ranges # <<>>
  <2>1. ranges \in Seq([from : Nat, to : Nat]) /\ i \in Nat /\ k \in Nat
    BY SMTT(30) DEF Fields, Request
  <2>2. Len(ranges) \in Nat /\ Len(ranges) > 1
    BY <2>1
  <2>3. ~(Len(ranges) <= 1) /\ ranges # <<>>
    <3>. HIDE DEF ranges
    <3>. QED
      BY <2>1, <2>2
  <2>. QED
    BY <2>1, <2>2, <2>3
<1>2. Later(c) = PartsFrom(i, ranges, k) \o f /\ f \in Seq(OutputUnit)
  BY <1>1, PieceTypes DEF Later
<1>3. ASSUME k = Len(ranges)
      PROVE  Later(c) = f
  <2>1. k \in 0 .. Len(ranges)
    BY <1>1, <1>3
  <2>. HIDE DEF ranges, k
  <2>2. PartsFrom(i, ranges, k) = <<>>
    BY <1>1, <1>3, <2>1, PartsType
  <2>3. <<>> \o f = f
    BY <1>2, ConcatEmptySeq, Zenon
  <2>. QED
    BY <1>2, <2>2, <2>3, Zenon
<1>4. ASSUME k < Len(ranges), NEW d \in Fields, d.request = c.request, d.req = c.req, d.nrange = k
      PROVE  Later(c) = P!Part(i, d.nrange + 1) \o BytesFrom(d, FirstByte(d))
  <2>. DEFINE a == P!Part(i, k + 1)
              b == P!Bytes(i, ranges[k + 1].from, ranges[k + 1].to)
              t == PartsFrom(i, ranges, k + 1)
  <2>1. k + 1 \in Nat /\ k + 1 \in 1 .. Len(ranges) /\ k + 1 \in 0 .. Len(ranges)
    BY <1>1, <1>4
  <2>2. ranges[k + 1] \in [from : Nat, to : Nat]
    <3>. HIDE DEF ranges, k
    <3>. QED
      BY <1>1, <2>1, ElementOfSeq, Zenon
  <2>3. a \in Seq(OutputUnit) /\ b \in Seq(OutputUnit) /\ t \in Seq(OutputUnit)
    <3>1. ranges[k + 1].from \in Nat /\ ranges[k + 1].to \in Int
      BY <2>2
    <3>. HIDE DEF ranges, k
    <3>2. t \in Seq(OutputUnit)
      BY <1>1, <2>1, PartsType
    <3>3. a \in Seq(OutputUnit)
      BY <1>1, <2>1, PieceTypes, Zenon
    <3>. QED
      BY <1>1, <3>1, <3>2, <3>3, PieceTypes
  <2>4. PartsFrom(i, ranges, k) = (a \o b) \o t
    <3>. HIDE DEF ranges, k
    <3>. QED
      BY <1>1, <1>4, PartsStep
  <2>5. FirstByte(d) = ranges[k + 1].from /\ LastByte(d) = ranges[k + 1].to /\ Later(d) = t \o f
    BY <1>1, <1>4, Zenon DEF FirstByte, LastByte, Later
  <2>6. BytesFrom(d, FirstByte(d)) = b \o (t \o f)
    BY <1>4, <2>5, Zenon DEF BytesFrom
  <2>7. P!Part(i, d.nrange + 1) = a
    BY <1>4, Zenon
  <2>8. ((a \o b) \o t) \o f = a \o (b \o (t \o f))
    <3>1. PICK v \in Seq(OutputUnit), x \in Seq(OutputUnit), y \in Seq(OutputUnit), z \in Seq(OutputUnit) :
            v = a /\ x = b /\ y = t /\ z = f
      BY <1>2, <2>3, Zenon
    <3>2. (v \o x) \o y = v \o (x \o y)
      OBVIOUS
    <3>3. (x \o y) \o z = x \o (y \o z)
      OBVIOUS
    <3>4. PICK u \in Seq(OutputUnit) : u = x \o y
      BY ConcatProperties
    <3>5. (v \o u) \o z = v \o (u \o z)
      OBVIOUS
    <3>. QED
      BY <3>1, <3>2, <3>3, <3>4, <3>5, Zenon
  <2>. QED
    BY <1>2, <2>4, <2>6, <2>7, <2>8, Zenon
<1>. QED
  BY <1>3, <1>4

\* kSendingBody
LEMMA SaidSendBody ==
  ASSUME Shape, Shape', Said, SendBody
  PROVE  Says
<1>. DEFINE i == conn.req
            to == LastByte(conn)
            units == P!Bytes(i, conn.outp, to)
            w == Write(units, FALSE)
            c == After(w)
            complete == c.outp = to + 1
            nranges == Len(conn.request.ranges)
            next == [c EXCEPT !.outp = 0, !.nrange = @ + 1]
            done == [c EXCEPT !.corked = FALSE, !.state = "kRequestCompleted"]
            footer == [next EXCEPT !.out = P!Footer(i), !.state = "kSendingMultipartFooter"]
            part == [next EXCEPT !.out = P!Part(i, next.nrange + 1), !.state = "kSendingPartHeader"]
            rest == P!Bytes(i, c.outp, to)
            later == Later(conn)
<1>1. /\ Sends("kSendingBody", w)
      /\ \/ Continue(c)
         \/ complete /\ nranges <= 1 /\ Continue(done)
         \/ complete /\ nranges > 1 /\ next.nrange = nranges /\ Continue(footer)
         \/ complete /\ nranges > 1 /\ next.nrange < nranges /\ Continue(part)
  BY Zenon DEF SendBody
<1>2. /\ conn \in Fields /\ conn.state = "kSendingBody" /\ conn.record = 0
      /\ (conn.request.ranges # <<>> => conn.nrange < Len(conn.request.ranges))
      /\ tx \in 0 .. TxSize /\ conn.outp \in Nat /\ i \in Nat /\ nranges \in Nat
      /\ to \in Int
  <2>1. /\ conn \in Fields /\ conn.state = "kSendingBody" /\ conn.record = 0
        /\ (conn.request.ranges # <<>> => conn.nrange < Len(conn.request.ranges))
        /\ tx \in 0 .. TxSize /\ conn.outp \in Nat
    BY <1>1 DEF Sends, Running, Shape, TypeOK, Fields, Offsets
  <2>2. i \in Nat
    BY <2>1 DEF Fields
  <2>3. nranges \in Nat
    BY <2>1 DEF Fields, Request
  <2>. QED
    BY <2>1, <2>2, <2>3, RangeBounds
<1>. HIDE DEF to
<1>3. units \in Seq(OutputUnit) /\ Len(units) \in Nat
  <2>1. units \in Seq(OutputUnit)
    BY <1>2, PieceTypes
  <2>. HIDE DEF units
  <2>. QED
    BY <2>1
<1>4. /\ w.pushed \in Seq(OutputUnit) /\ w.blocked \in BOOLEAN
      /\ w.count \in 0 .. Len(units) /\ w.count \in Nat /\ w.record = 0
      /\ w.pushed = SubSeq(units, 1, w.count)
  <2>. HIDE DEF units
  <2>1. conn.record \in 0 .. Len(units)
    BY <1>2, <1>3
  <2>2. /\ w.pushed \in Seq(OutputUnit) /\ w.blocked \in BOOLEAN
        /\ w.count \in 0 .. Len(units) /\ w.record = 0
        /\ w.pushed = SubSeq(units, conn.record + 1, w.count + w.record)
    BY <1>2, <1>3, <2>1, WriteFits
  <2>. HIDE DEF w
  <2>3. w.count \in Nat /\ conn.record + 1 = 1 /\ w.count + w.record = w.count
    BY <1>2, <1>3, <2>2
  <2>. QED
    BY <2>2, <2>3, Zenon
<1>. HIDE DEF w
<1>5. /\ c \in Fields /\ c.record = 0 /\ c.outp = conn.outp + w.count
      /\ \A f \in DOMAIN conn \ {"outp", "record", "writable", "timerSet"} : c[f] = conn[f]
  BY <1>2, <1>4, AfterFits
<1>. HIDE DEF c
<1>6. /\ c.state = "kSendingBody" /\ c.nrequests = conn.nrequests
      /\ c.nrange = conn.nrange /\ c.request = conn.request /\ c.req = i
  BY <1>2, <1>5 DEF Fields
<1>7. units = w.pushed \o rest
  <2>1. P!Bytes(i, conn.outp, to)
          = SubSeq(P!Bytes(i, conn.outp, to), 1, w.count) \o P!Bytes(i, conn.outp + w.count, to)
    BY <1>2, <1>4, BytesMeet
  <2>. QED
    BY <1>4, <1>5, <2>1, Zenon
<1>8. rest \in Seq(OutputUnit) /\ (complete => rest = <<>>)
  <2>1. c.outp \in Nat
    BY <1>5 DEF Fields
  <2>2. /\ rest \in Seq(OutputUnit) /\ Len(rest) = IF c.outp <= to THEN to - c.outp + 1 ELSE 0
    BY <1>2, <2>1, PieceTypes
  <2>3. complete => Len(rest) = 0
    BY <1>2, <2>1, <2>2
  <2>. HIDE DEF rest, complete
  <2>. QED
    BY <2>2, <2>3
<1>9. later \in Seq(OutputUnit)
  BY <1>2, BytesFromType
<1>10. ToCome(conn) = w.pushed \o (rest \o later)
  <2>1. ToCome(conn) = units \o later
    BY <1>2, ToComeCases, Zenon DEF BytesFrom, to
  <2>. HIDE DEF rest, later, units
  <2>2. PICK p \in Seq(OutputUnit) : p = w.pushed
    BY <1>4
  <2>3. (p \o rest) \o later = p \o (rest \o later)
    BY <1>8, <1>9
  <2>. QED
    BY <1>7, <2>1, <2>2, <2>3, Zenon
<1>11. <<>> \o later = later
  BY <1>9, ConcatEmptySeq, Zenon
<1>12. ASSUME NEW d, Continue(d), d.nrequests = conn.nrequests, ToCome(d) = rest \o later
       PROVE  Says
  <2>1. w.pushed \o ToCome(d) = ToCome(conn)
    BY <1>10, <1>12, Zenon
  <2>. QED
    BY <1>1, <1>4, <1>12, <2>1, SaidSends, Zenon
<1>13. CASE Continue(c)
  <2>1. ToCome(c) = BytesFrom(c, c.outp)
    BY <1>6, ToComeCases, Zenon
  <2>2. BytesFrom(c, c.outp) = BytesFrom(conn, c.outp)
    BY <1>6, SameBytes, Zenon
  <2>3. BytesFrom(conn, c.outp) = rest \o later
    BY Zenon DEF BytesFrom, to
  <2>. QED
    BY <1>6, <1>12, <1>13, <2>1, <2>2, <2>3, Zenon
<1>14. CASE complete /\ nranges <= 1 /\ Continue(done)
  <2>1. done.state = "kRequestCompleted" /\ done.nrequests = conn.nrequests
    BY <1>5, <1>6 DEF Fields
  <2>. HIDE DEF done
  <2>2. ToCome(done) = <<>>
    BY <2>1, ToComeCases DEF SendingStates
  <2>3. later = <<>>
    BY <1>14 DEF Later
  <2>. QED
    BY <1>8, <1>11, <1>12, <1>14, <2>1, <2>2, <2>3, Zenon
<1>15. /\ next \in Fields /\ next.nrange = conn.nrange + 1 /\ next.outp = 0 /\ next.record = 0
       /\ next.nrequests = conn.nrequests /\ next.request = conn.request /\ next.req = i /\ conn.nrange \in Nat
  <2>1. c.nrange + 1 \in Nat /\ 0 \in Nat
    BY <1>5 DEF Fields
  <2>2. next \in Fields
    BY <1>5, <2>1, ZenonT(60) DEF Fields
  <2>. QED
    BY <1>2, <1>5, <1>6, <2>2 DEF Fields
<1>. HIDE DEF next
<1>16. ASSUME nranges > 1
       PROVE  conn.nrange < nranges
  <2>1. conn.request.ranges # <<>>
    BY <1>16
  <2>. QED
    BY <1>2, <2>1
<1>17. ASSUME NEW d, NEW units_1 \in Seq(OutputUnit), d.out = units_1, d.outp = 0, d.record = 0
       PROVE  Left(d, d.out) = units_1
  <2>1. d.outp + d.record + 1 = 1
    BY <1>17
  <2>2. SubSeq(units_1, 1, Len(units_1)) = units_1
    BY <1>17, WholeStretch
  <2>. QED
    BY <1>17, <2>1, <2>2, Zenon DEF Left
<1>18. CASE complete /\ nranges > 1 /\ next.nrange = nranges /\ Continue(footer)
  <2>1. /\ footer.state = "kSendingMultipartFooter" /\ footer.nrequests = conn.nrequests
        /\ footer.out = P!Footer(i) /\ footer.outp = 0 /\ footer.record = 0
    BY <1>15 DEF Fields
  <2>. HIDE DEF footer
  <2>2. P!Footer(i) \in Seq(OutputUnit)
    BY <1>2, PieceTypes
  <2>3. ToCome(footer) = P!Footer(i)
    BY <1>17, <2>1, <2>2, ToComeCases, Zenon
  <2>4. later = P!Footer(i)
    BY <1>2, <1>15, <1>16, <1>18, LaterSteps
  <2>. QED
    BY <1>8, <1>11, <1>12, <1>18, <2>1, <2>3, <2>4, Zenon
<1>19. CASE complete /\ nranges > 1 /\ next.nrange < nranges /\ Continue(part)
  <2>. DEFINE head == P!Part(i, next.nrange + 1)
  <2>1. head \in Seq(OutputUnit)
    <3>1. next.nrange + 1 \in Nat
      BY <1>15
    <3>. QED
      BY <1>2, <3>1, PieceTypes, Zenon
  <2>2. part \in Fields
    <3>1. "kSendingPartHeader" \in States
      BY DEF States, SendingStates
    <3>. QED
      BY <1>15, <2>1, <3>1 DEF Fields
  <2>3. /\ part.state = "kSendingPartHeader" /\ part.nrequests = conn.nrequests
        /\ part.out = head /\ part.outp = 0 /\ part.record = 0
        /\ part.request = conn.request /\ part.req = i /\ part.nrange = conn.nrange + 1
    BY <1>15 DEF Fields
  <2>. HIDE DEF part
  <2>4. ToCome(part) = head \o BytesFrom(part, FirstByte(part))
    BY <1>17, <2>1, <2>3, ToComeCases, Zenon
  <2>5. later = P!Part(i, part.nrange + 1) \o BytesFrom(part, FirstByte(part))
    BY <1>2, <1>15, <1>16, <1>19, <2>2, <2>3, LaterSteps
  <2>6. P!Part(i, part.nrange + 1) = head
    BY <1>15, <2>3, Zenon
  <2>7. ToCome(part) = rest \o later
    BY <1>8, <1>11, <1>19, <2>4, <2>5, <2>6, Zenon
  <2>. QED
    BY <1>12, <1>19, <2>3, <2>7, Zenon
<1>. QED
  BY <1>1, <1>13, <1>14, <1>18, <1>19

-----------------------------------------------------------------------------
\* Every step keeps to the replies.
LEMMA SaidNext == Shape /\ Shape' /\ InOrder /\ Said /\ [Next]_vars => Said'
<1>1. SUFFICES ASSUME Shape, Shape', InOrder, Said, [Next]_vars
               PROVE  Said'
  OBVIOUS
<1>2. CASE Run
  <2>1. CASE Handshake \/ Reading
    BY <1>1, <2>1, SaidReading
  <2>2. CASE Replying
    BY <1>1, <2>2, SaidProcessRequest, SaidErrorPage, SaidEnds, SaidSendTwoBuffers, SaidSendHeaders,
       SaidSendBody, SaidSendPartHeader, SaidSendMultipartFooter DEF Replying, Says
  <2>. QED
    BY <1>2, <2>1, <2>2 DEF Run
<1>3. CASE EventLoop \/ Client \/ Expire \/ Terminated \/ UNCHANGED vars
  BY <1>1, <1>3, SaidOthers
<1>. QED
  BY <1>1, <1>2, <1>3 DEF Next

\* What has been written and what is still to be written are, at every moment,
\* the replies to the requests that have been counted: whatever the client and
\* the partial writes do, no unit of a reply is lost, repeated or out of place.
THEOREM RepliesAreWhole == MalformedCloses => (Spec => []Said)
<1>1. Init => Said
  BY SaidInit
<1>2. Shape /\ Shape' /\ InOrder /\ Said /\ [Next]_vars => Said'
  BY SaidNext
<1>. QED
  BY <1>1, <1>2, ShapeIsInvariant, RequestsInOrder, PTL DEF Spec

-----------------------------------------------------------------------------
(* The steps of the pipeline.                                              *)

\* Nothing has been asked before the client sends.
LEMMA NothingAsked ==
  ASSUME script \in Scripts, NEW https \in BOOLEAN, NEW u, IsRest(script, https, u),
         u = Stream(script, https)
  PROVE  AskedOf(script, u) = 0
<1>. DEFINE asked == AskedOf(script, u)
            l == Len(u)
<1>1. script \in Seq(Request) /\ Len(script) \in Nat /\ asked \in 0 .. Len(script)
  BY RequestedType, AskedType
<1>2. CASE Len(script) = 0
  BY <1>1, <1>2
<1>3. CASE Len(script) # 0
  <2>1. 1 \in 1 .. Len(script) /\ 1 - 1 = 0
    BY <1>1, <1>3
  <2>2. PICK e : Ends(e, script, Stream(script, https), HelloOf(https))
    BY StreamEnds
  <2>3. l - l >= e[1] <=> asked >= 1
    BY <2>1, <2>2, AskedBounds, Zenon
  <2>4. e[1] = e[0] + Len(PartsOf(script[1])) /\ e[0] \in Nat
    <3>1. /\ \A i \in 1 .. Len(script) : e[i] = e[i - 1] + Len(PartsOf(script[i]))
          /\ e[0] = HelloOf(https)
      BY <2>2, Zenon DEF Ends
    <3>2. HelloOf(https) \in Nat
      BY HelloType
    <3>. QED
      BY <2>1, <3>1, <3>2
  <2>5. Len(PartsOf(script[1])) \in {2, 3, 4}
    <3>1. script[1] \in Request
      BY <1>1, <2>1
    <3>2. script[1].flaw \in {"none", "line", "headers"}
      BY <3>1 DEF Request
    <3>. QED
      BY <3>1, <3>2, PartsOfRequest
  <2>6. l \in Nat
    BY DEF IsRest
  <2>7. e[1] \in Nat /\ e[1] > 0
    <3>. DEFINE p == Len(PartsOf(script[1]))
                b == e[0]
    <3>1. p \in {2, 3, 4} /\ b \in Nat /\ e[1] = b + p
      BY <2>4, <2>5
    <3>. HIDE DEF p, b
    <3>2. b + p \in Nat /\ b + p > 0
      BY <3>1
    <3>. QED
      BY <3>1, <3>2
  <2>. HIDE DEF asked, l
  <2>8. ~(l - l >= e[1])
    BY <2>6, <2>7
  <2>. QED
    BY <1>1, <2>3, <2>8 DEF asked
<1>. QED
  BY <1>2, <1>3

\* The pipeline begins when the connection does.
LEMMA PipelineInit == Init => P!Init
<1>1. SUFFICES ASSUME Init
               PROVE  Asked = 0
  BY DEF Init, P!Init
<1>2. Shape /\ phase # "closed"
  BY <1>1, ShapeInit DEF Init
<1>3. /\ conn \in Fields /\ conn.https \in BOOLEAN /\ rx \in Seq(InputUnit) /\ unsent \in Seq(InputUnit)
      /\ script \in Scripts /\ Aligned(script, conn, rx, unsent) /\ Taken(script, conn, rx, unsent) >= 0
  BY <1>2, ReqType, HandshakeBefore DEF Shape
<1>4. IsRest(script, conn.https, unsent)
  BY <1>3, AlignedRest
<1>5. unsent = Stream(script, conn.https)
  BY <1>1 DEF Init
<1>6. AskedOf(script, unsent) = 0
  BY <1>3, <1>4, <1>5, NothingAsked
<1>. QED
  BY <1>6, Zenon DEF Asked, AskedOf

\* A request is complete, or a part of one.
LEMMA AskStep ==
  ASSUME Shape, Shape', ClientSends
  PROVE  P!Ask \/ UNCHANGED P!vars
<1>1. /\ UNCHANGED <<script, sent, phase>> /\ script \in Seq(Request)
  BY ReqType DEF ClientSends, processVars
<1>. DEFINE a == AskedOf(script, unsent)
            b == AskedOf(script, unsent')
<1>2. a \in 0 .. Len(script) /\ b \in 0 .. Len(script) /\ a <= b /\ Len(script) \in Nat
  BY <1>1, MoreIsAsked
<1>3. Asked = a /\ Asked' = b
  BY <1>1, Zenon DEF Asked, AskedOf
<1>. HIDE DEF a, b
<1>4. b = a \/ b \in a + 1 .. Len(script)
  BY <1>2
<1>. QED
  BY <1>1, <1>3, <1>4 DEF P!Ask, P!vars

\* More of the replies to what has been asked is written.
LEMMA SayStep ==
  ASSUME Shape, Shape', InOrder, Says, phase = "running", phase' = phase,
         UNCHANGED <<script, unsent>>, conn.state \in SendingStates
  PROVE  P!Say \/ UNCHANGED P!vars
<1>. DEFINE n == conn.nrequests
            a == AskedOf(script, unsent)
            y == ToCome(conn')
<1>1. /\ conn \in Fields /\ script \in Scripts /\ sent \in Seq(OutputUnit) /\ sent' \in Seq(OutputUnit)
      /\ conn.https \in BOOLEAN /\ Len(script) \in Nat /\ unsent \in Seq(InputUnit) /\ rx \in Seq(InputUnit)
      /\ conn.input \in Seq(InputUnit) /\ phase # "closed"
  <2>1. script \in Seq(Request)
    BY ReqType
  <2>2. Len(script) \in Nat
    BY <2>1
  <2>. QED
    BY <2>2, ReqType DEF Shape, TypeOK
<1>2. a \in 0 .. Len(script)
  <2>1. Aligned(script, conn, rx, unsent) /\ Taken(script, conn, rx, unsent) >= 0
    BY <1>1, HandshakeBefore DEF Shape
  <2>2. IsRest(script, conn.https, unsent)
    BY <1>1, <2>1, AlignedRest
  <2>. QED
    BY <1>1, <2>2, AskedType
<1>3. n = conn.req /\ n \in Nat /\ n <= a
  <2>1. conn.nrequests = conn.req /\ conn.req <= AskedOf(script, unsent)
    BY <1>1 DEF InOrder, Order, Sending, SendingStates
  <2>2. conn.req \in Nat
    BY <1>1 DEF Fields
  <2>. QED
    BY <2>1, <2>2
<1>4. y \in Seq(OutputUnit)
  <2>1. conn' \in Fields' /\ Offsets(conn')
    BY DEF Shape, TypeOK
  <2>2. Fields' = Fields
    BY DEF Fields
  <2>. DEFINE d == conn'
  <2>3. d \in Fields /\ Offsets(d)
    BY <2>1, <2>2
  <2>. HIDE DEF d
  <2>4. ToCome(d) \in Seq(OutputUnit)
    BY <2>3, ToComeType
  <2>. QED
    BY <2>4 DEF d
<1>5. sent' \o y = RepliesTo(script, n) /\ \E p \in Seq(OutputUnit) : sent' = sent \o p
  <2>1. Said' /\ conn'.nrequests = conn.nrequests /\ \E p \in Seq(OutputUnit) : sent' = sent \o p
    BY DEF Says
  <2>2. sent' \o ToCome(conn') = RepliesTo(script', conn'.nrequests)
    BY <1>1, <2>1 DEF Said
  <2>. QED
    BY <2>1, <2>2, Zenon
<1>6. P!Replies(a) = RepliesTo(script, a)
  BY <1>1, <1>2, RepliesOfPipeline
<1>. HIDE DEF a, n, y
<1>7. n \in 0 .. a
  BY <1>2, <1>3
<1>8. PICK t \in Seq(OutputUnit) : RepliesTo(script, a) = RepliesTo(script, n) \o t
  BY <1>1, <1>2, <1>7, RepliesBegin
<1>9. PICK v \in Seq(OutputUnit), p \in Seq(OutputUnit) : v = sent' /\ v = sent \o p
  BY <1>1, <1>5
<1>10. (v \o y) \o t = v \o (y \o t)
  BY <1>4
<1>11. PICK u \in Seq(OutputUnit) : u = y \o t
  BY <1>4, ConcatProperties
<1>12. P!Replies(a) = v \o u
  BY <1>5, <1>6, <1>8, <1>9, <1>10, <1>11, Zenon
<1>13. SubSeq(v \o u, 1, Len(v)) = v /\ Len(v \o u) = Len(v) + Len(u) /\ Len(v) = Len(sent) + Len(p)
  BY <1>1, <1>9, Beginning, ConcatProperties
<1>14. Asked = a /\ Asked' = a
  BY Zenon DEF Asked, AskedOf, a
<1>15. CASE Len(p) = 0
  <2>1. p = <<>>
    BY <1>15
  <2>2. sent' = sent
    BY <1>1, <1>9, <2>1, ConcatEmptySeq
  <2>. QED
    BY <1>14, <2>2 DEF P!vars
<1>16. CASE Len(p) # 0
  <2>1. Len(v) \in Len(sent) + 1 .. Len(v \o u)
    <3>1. Len(p) \in Nat /\ Len(u) \in Nat /\ Len(sent) \in Nat /\ Len(v) \in Nat
      BY <1>1
    <3>. DEFINE lp == Len(p)
                lu == Len(u)
                ls == Len(sent)
                lv == Len(v)
    <3>2. /\ lp \in Nat /\ lu \in Nat /\ ls \in Nat /\ lp # 0 /\ lv = ls + lp
          /\ Len(v \o u) = lv + lu
      BY <1>13, <1>16, <3>1
    <3>. HIDE DEF lp, lu, ls, lv
    <3>3. lv \in ls + 1 .. lv + lu
      BY <3>2
    <3>. QED
      BY <3>2, <3>3, Zenon DEF lv, ls
  <2>2. /\ Len(v) \in Len(sent) + 1 .. Len(P!Replies(Asked))
        /\ sent' = SubSeq(P!Replies(Asked), 1, Len(v))
    BY <1>9, <1>12, <1>13, <1>14, <2>1, Zenon
  <2>. QED
    BY <1>1, <1>14, <2>2 DEF P!Say
<1>. QED
  BY <1>15, <1>16

\* All the other steps say nothing.
LEMMA QuietStep ==
  ASSUME UNCHANGED <<script, unsent, sent>>, phase = "closed" => phase' = "closed"
  PROVE  P!HangUp \/ UNCHANGED P!vars
<1>1. Asked' = Asked
  BY DEF Asked
<1>2. CASE phase' = "closed"
  BY <1>1, <1>2 DEF P!HangUp
<1>3. CASE phase' # "closed"
  BY <1>1, <1>3 DEF P!vars
<1>. QED
  BY <1>2, <1>3

\* Every step of the connection is one of the pipeline, or none.
LEMMA PipelineNext ==
  ASSUME Shape, Shape', InOrder, Said, [Next]_vars
  PROVE  [P!Next]_(P!vars)
<1>1. CASE ClientSends
  BY <1>1, AskStep DEF P!Next
<1>2. CASE SendTwoBuffers \/ SendHeaders \/ SendBody \/ SendPartHeader \/ SendMultipartFooter
  <2>1. Says
    BY <1>2, SaidSendTwoBuffers, SaidSendHeaders, SaidSendBody, SaidSendPartHeader, SaidSendMultipartFooter
  <2>2. /\ phase = "running" /\ phase' = phase /\ UNCHANGED <<script, unsent>>
        /\ conn.state \in {"kSendingTwoBuffers", "kSendingHeaders", "kSendingBody", "kSendingPartHeader",
                           "kSendingMultipartFooter"}
    BY <1>2, Zenon DEF SendTwoBuffers, SendHeaders, SendBody, SendPartHeader, SendMultipartFooter, Sends, Running,
                       Continue
  <2>3. conn.state \in SendingStates
    BY <2>2 DEF SendingStates
  <2>. QED
    BY <2>1, <2>2, <2>3, SayStep DEF P!Next
<1>3. CASE \/ Handshake \/ Reading \/ ProcessRequest \/ PreparingErrorPage \/ NotWritable \/ SendFails
           \/ RequestCompleted
  <2>1. phase = "running"
    BY <1>3, Zenon DEF Handshake, Reading, NotReadable, ReadsNothing, ReadFails, NeedsInput, ReadingRequestLine,
                       ReadingHeaders, ProcessRequest, PreparingErrorPage, NotWritable, SendFails,
                       RequestCompleted, Running
  <2>2. UNCHANGED <<script, unsent, sent>>
    BY <1>3, Zenon DEF Handshake, Reading, NotReadable, ReadsNothing, ReadFails, ReadingRequestLine,
                       ReadingHeaders, ProcessRequest, PreparingErrorPage, NotWritable, SendFails, RequestCompleted
  <2>. QED
    BY <2>1, <2>2, QuietStep DEF P!Next
<1>4. CASE EventLoop \/ ClientReads \/ ClientEnds \/ Expire \/ Terminated \/ UNCHANGED vars
  <2>1. UNCHANGED <<script, unsent, sent>> /\ (phase = "closed" => phase' = "closed")
    BY <1>4 DEF EventLoop, Deliver, Discard, OnWritable, ClientReads, ClientEnds, Expire, Terminated, vars,
                processVars, kernelVars
  <2>. QED
    BY <2>1, QuietStep DEF P!Next
<1>. QED
  BY <1>1, <1>2, <1>3, <1>4 DEF Next, Run, Replying, Client

\* Whatever the interleaving of the client, the event loop and the partial
\* writes, the client gets the replies to its requests whole, once, in order,
\* none before its request and none after "Connection: close": a connection
\* implements the pipeline.
THEOREM RepliesAsPromised == MalformedCloses => (Spec => Implements)
<1>1. Init => P!Init
  BY PipelineInit
<1>2. Shape /\ Shape' /\ InOrder /\ Said /\ [Next]_vars => [P!Next]_(P!vars)
  BY PipelineNext
<1>. QED
  BY <1>1, <1>2, ShapeIsInvariant, RequestsInOrder, RepliesAreWhole, PTL DEF Spec, Implements, P!Spec

-----------------------------------------------------------------------------
(* Hanging up.                                                             *)

\* read_headers() waits only behind headers that are not complete.
HeadersWait(c) ==
  c.state = "kReadingHeaders" =>
    Len(c.input) < 2 /\ \A n \in 1 .. Len(c.input) : c.input[n].part = HeaderParts[n]

\* A client that has finished has sent all its requests, and a parser that
\* waits has parsed what it was given.
Patient ==
  /\ peer = "finished" => unsent = <<>>
  /\ phase # "closed" => HeadersWait(conn)

\* A new connection waits for nothing.
LEMMA PatientInit == Init => Patient
BY DEF Init, NewConnection, Patient, HeadersWait

\* Steps that neither parse nor send.
LEMMA PatientStays ==
  ASSUME Patient, peer' = peer, unsent' = unsent,
         phase' = "closed" \/ (phase # "closed" /\ (conn'.state = "kReadingHeaders" => HeadersWait(conn')))
  PROVE  Patient'
BY DEF Patient, HeadersWait

\* A connection whose state and input stay waits as before.
LEMMA SameWait ==
  ASSUME NEW c, NEW d, HeadersWait(c), d.state = c.state, d.input = c.input
  PROVE  HeadersWait(d)
BY DEF HeadersWait

\* Reading, as far as there is something to read.
LEMMA PatientReading ==
  ASSUME Shape, Patient, Handshake \/ Reading
  PROVE  Patient'
<1>0. conn \in Fields /\ phase = "running" /\ peer' = peer /\ unsent' = unsent
  <2>1. phase = "running" /\ peer' = peer /\ unsent' = unsent
    BY Zenon DEF Handshake, Reading, NotReadable, ReadsNothing, ReadFails, NeedsInput, ReadingRequestLine,
                 ReadingHeaders, Running, kernelVars
  <2>. QED
    BY <2>1, ReqType
<1>1. CASE Handshake
  <2>. DEFINE n == Min({conn.hello, Len(rx)})
              c == [conn EXCEPT !.hello = @ - n]
              d == [c EXCEPT !.state = "kReadingRequestLine",
                             !.timerSet = IF conn.https THEN FALSE ELSE @]
              e == [c EXCEPT !.timerSet = TRUE, !.readable = FALSE]
  <2>1. conn.state = "kHandshaking" /\ (Continue(d) \/ Return(e) \/ Drop)
    BY <1>1, Zenon DEF Handshake, Running
  <2>2. d.state = "kReadingRequestLine" /\ e.state = "kHandshaking"
    BY <1>0, <2>1 DEF Fields
  <2>. HIDE DEF d, e
  <2>3. phase' = "closed" \/ conn'.state # "kReadingHeaders"
    BY <2>1, <2>2 DEF Continue, Return, Drop
  <2>. QED
    BY <1>0, <2>3, PatientStays
<1>2. CASE NotReadable \/ ReadsNothing
  <2>. DEFINE d == [conn EXCEPT !.timerSet = TRUE, !.readable = FALSE]
  <2>1. /\ Return(Waiting(conn)) \/ Return(Waiting(d))
        /\ conn.state = "kReadingHeaders" \/ conn.input = <<>>
    BY <1>2, Zenon DEF NotReadable, ReadsNothing, NeedsInput
  <2>2. d \in Fields /\ d.state = conn.state /\ d.input = conn.input
    BY <1>0 DEF Fields
  <2>. HIDE DEF d
  <2>3. conn'.input = conn.input /\ conn'.state \in {conn.state, "kReadingHeaders"}
    BY <1>0, <2>1, <2>2 DEF Return, Waiting, Fields
  <2>4. CASE conn.state = "kReadingHeaders"
    <3>1. HeadersWait(conn) /\ conn'.state = conn.state
      BY <1>0, <2>3, <2>4 DEF Patient
    <3>. QED
      BY <1>0, <2>3, <3>1, PatientStays, SameWait
  <2>5. CASE conn.input = <<>>
    BY <1>0, <2>3, <2>5, PatientStays DEF HeadersWait
  <2>. QED
    BY <2>1, <2>4, <2>5
<1>3. CASE ReadFails
  BY <1>0, <1>3, PatientStays DEF ReadFails, Drop
<1>4. CASE ReadingRequestLine
  <2>. DEFINE c == Received
              n == Matching(c.input, SubSeq(LineParts, c.line + 1, 2))
              d == Consumed(c, n)
              i == c.input[n + 1].req
              done == [d EXCEPT !.state = "kAfterRequestLine", !.line = 2,
                                !.req = c.input[1].req, !.request = script[c.input[1].req]]
              more == [d EXCEPT !.line = @ + n]
              bad == [d EXCEPT !.state = "kPreparingErrorPage", !.req = i,
                               !.request = IF c.line + n = 0 THEN Garbage ELSE script[i]]
  <2>1. /\ Running({"kReadingRequestLine"}) /\ Reads
        /\ Continue(done) \/ Continue(more) \/ Continue(bad)
    BY <1>4, Zenon DEF ReadingRequestLine
  <2>2. c \in Fields /\ c.state = "kReadingRequestLine"
    <3>1. Running(ReadingStates) /\ conn.state = "kReadingRequestLine"
      BY <2>1 DEF Running, ReadingStates
    <3>. QED
      BY <2>1, <3>1, ReceivedFits
  <2>. HIDE DEF c, n, i
  <2>3. /\ done.state = "kAfterRequestLine" /\ more.state = "kReadingRequestLine"
        /\ bad.state = "kPreparingErrorPage"
    BY <2>2 DEF Consumed, Fields
  <2>. HIDE DEF done, more, bad
  <2>4. conn'.state # "kReadingHeaders"
    BY <2>1, <2>3 DEF Continue
  <2>. QED
    BY <1>0, <2>4, PatientStays
<1>5. CASE ReadingHeaders
  <2>. DEFINE c == Received
              n == Matching(c.input, HeaderParts)
              done == [Consumed(c, 2) EXCEPT !.state = "kProcessingRequest"]
              more == [c EXCEPT !.state = "kReadingHeaders"]
              bad == [c EXCEPT !.state = "kPreparingErrorPage"]
  <2>1. /\ Running({"kAfterRequestLine", "kReadingHeaders"}) /\ Reads
        /\ \/ Continue(done)
           \/ n < 2 /\ n = Len(c.input) /\ Continue(more)
           \/ Continue(bad)
    BY <1>5, Zenon DEF ReadingHeaders
  <2>2. c \in Fields
    <3>1. Running(ReadingStates)
      BY <2>1 DEF Running, ReadingStates
    <3>. QED
      BY <2>1, <3>1, ReceivedFits
  <2>. HIDE DEF c
  <2>3. c.input \in Seq(InputUnit)
    BY <2>2 DEF Fields
  <2>4. \A j \in 1 .. n : c.input[j].part = HeaderParts[j]
    <3>. DEFINE input == c.input
    <3>1. input \in Seq(InputUnit) /\ HeaderParts \in Seq(Parted)
      BY <2>3, ExpectedParts
    <3>. HIDE DEF input
    <3>2. \A j \in 1 .. Matching(input, HeaderParts) : input[j].part = HeaderParts[j]
      BY <3>1, MatchingBound
    <3>. QED
      BY <3>2 DEF input
  <2>. HIDE DEF n
  <2>5. /\ done.state = "kProcessingRequest" /\ bad.state = "kPreparingErrorPage"
        /\ more.input = c.input
    BY <2>2 DEF Consumed, Fields
  <2>. HIDE DEF done, more, bad
  <2>6. conn'.state = "kReadingHeaders" => HeadersWait(conn')
    BY <2>1, <2>4, <2>5 DEF Continue, HeadersWait
  <2>. QED
    BY <1>0, <2>6, PatientStays
<1>. QED
  BY <1>1, <1>2, <1>3, <1>4, <1>5 DEF Reading

\* While it replies, a connection does not wait for headers.
LEMMA PatientReplying ==
  ASSUME Shape, InOrder, Patient, Replying
  PROVE  Patient'
<1>1. conn \in Fields /\ phase = "running" /\ peer' = peer /\ unsent' = unsent
  <2>1. phase = "running" /\ peer' = peer /\ unsent' = unsent
    BY Zenon DEF Replying, ProcessRequest, PreparingErrorPage, NotWritable, SendFails, SendTwoBuffers, SendHeaders,
                 SendBody, SendPartHeader, SendMultipartFooter, RequestCompleted, Sends, Running, kernelVars
  <2>. QED
    BY <2>1, ReqType
<1>2. CASE ProcessRequest \/ PreparingErrorPage
  BY <1>1, <1>2, OrderProcessRequest, PatientStays DEF Sending, SendingStates
<1>3. CASE SendTwoBuffers \/ SendHeaders \/ SendBody \/ SendPartHeader \/ SendMultipartFooter
  BY <1>1, <1>3, OrderSends, PatientStays DEF Sending, SendingStates
<1>4. CASE NotWritable
  <2>1. conn' = conn /\ conn.state \in SendingStates
    BY <1>4 DEF NotWritable, Return, Running
  <2>. QED
    BY <1>1, <2>1, PatientStays DEF SendingStates
<1>5. CASE SendFails
  BY <1>1, <1>5, PatientStays DEF SendFails, Drop
<1>6. CASE RequestCompleted
  <2>1. phase' = "closed" \/ conn' = Reset(conn)
    BY <1>6 DEF RequestCompleted, Drop, Continue
  <2>2. Reset(conn).state = "kReadingRequestLine"
    BY <1>1 DEF Reset, Fields
  <2>. QED
    BY <1>1, <2>1, <2>2, PatientStays
<1>. QED
  BY <1>2, <1>3, <1>4, <1>5, <1>6 DEF Replying

\* The client and the event loop do not parse.
LEMMA PatientOthers ==
  ASSUME Shape, Patient, EventLoop \/ Client \/ Expire \/ Terminated \/ UNCHANGED vars
  PROVE  Patient'
<1>1. conn \in Fields
  BY ReqType
<1>2. CASE Deliver \/ OnWritable
  <2>1. /\ phase # "closed" /\ peer' = peer /\ unsent' = unsent
        /\ conn' \in {[conn EXCEPT !.readable = TRUE], [conn EXCEPT !.writable = TRUE]}
    BY <1>2 DEF Deliver, OnWritable, kernelVars
  <2>2. conn'.state = conn.state /\ conn'.input = conn.input
    BY <1>1, <2>1 DEF Fields
  <2>3. HeadersWait(conn)
    BY <2>1 DEF Patient
  <2>. QED
    BY <2>1, <2>2, <2>3, SameWait, PatientStays
<1>3. CASE Expire
  BY <1>3, PatientStays DEF Expire, Drop, kernelVars
<1>4. CASE ClientSends
  BY <1>4 DEF ClientSends, Patient, HeadersWait, processVars
<1>5. CASE ClientEnds
  BY <1>5 DEF ClientEnds, Patient, HeadersWait, processVars
<1>6. CASE Discard \/ ClientReads \/ Terminated \/ UNCHANGED vars
  BY <1>6 DEF Discard, ClientReads, Terminated, vars, processVars, kernelVars, Patient, HeadersWait
<1>. QED
  BY <1>2, <1>3, <1>4, <1>5, <1>6 DEF EventLoop, Client

\* Every step keeps this.
LEMMA PatientNext == Shape /\ InOrder /\ Patient /\ [Next]_vars => Patient'
BY PatientReading, PatientReplying, PatientOthers DEF Next, Run

\* Whoever wants to read, and has got all there is, has answered everything.
LEMMA AllRead ==
  ASSUME MalformedCloses, Shape, InOrder, Patient, NeedsInput, rx = <<>>, unsent = <<>>
  PROVE  /\ conn.state = "kReadingRequestLine" /\ conn.nrequests = Len(script)
<1>. DEFINE k == Taken(script, conn, rx, unsent)
            h == HelloOf(conn.https)
            q == conn.req
            l == Len(script)
            a == Len(Stream(script, conn.https))
            b == Len(conn.input)
<1>1. /\ conn \in Fields /\ script \in Scripts /\ script \in Seq(Request) /\ phase # "closed"
      /\ conn.https \in BOOLEAN /\ conn.input \in Seq(InputUnit) /\ Stream(script, conn.https) \in Seq(InputUnit)
      /\ k \in Int /\ h \in Nat /\ q \in 0 .. l /\ l \in Nat /\ a \in Nat /\ b \in Nat
      /\ conn.state \in ReadingStates /\ (conn.state = "kReadingHeaders" \/ b = 0)
      /\ conn.line \in 0 .. 2 /\ conn.nrequests \in Int
  <2>1. conn \in Fields /\ script \in Seq(Request) /\ conn.line \in 0 .. 2 /\ q \in 0 .. l /\ l \in Nat /\ conn.nrequests \in Int
    BY ReqType DEF Fields, LineParts
  <2>2. /\ phase # "closed" /\ conn.state \in ReadingStates
        /\ (conn.state = "kReadingHeaders" \/ conn.input = <<>>)
    BY DEF NeedsInput, Running, ReadingStates
  <2>. QED
    BY <2>1, <2>2, ReqType
<1>2. k = a - b
  <2>1. Len(rx) = 0 /\ Len(unsent) = 0
    OBVIOUS
  <2>2. k = a - 0 - 0 - b
    BY <2>1, Zenon DEF Taken
  <2>. HIDE DEF k, a, b
  <2>. QED
    BY <1>1, <2>2
<1>3. PICK e : Ends(e, script, Stream(script, conn.https), h)
  BY <1>1, StreamEnds
<1>4. /\ \A i \in 0 .. l : e[i] \in Nat /\ e[i] <= a
      /\ \A i \in 1 .. l : e[i] = e[i - 1] + Len(PartsOf(script[i])) /\ e[i - 1] \in Nat
  <2>1. e \in [0 .. l -> Nat] /\ e[l] = a /\ l \in 0 .. l
    BY <1>1, <1>3 DEF Ends
  <2>2. \A i \in 0 .. l : i <= l => e[i] <= e[l]
    BY <1>1, <1>3, <2>1, EndsRise
  <2>3. \A i \in 1 .. l : e[i] = e[i - 1] + Len(PartsOf(script[i]))
    BY <1>3 DEF Ends
  <2>. HIDE DEF l, a
  <2>4. \A i \in 0 .. l : e[i] \in Nat /\ e[i] <= a
    <3>1. \A i \in 0 .. l : i <= l
      BY <1>1
    <3>. QED
      BY <2>1, <2>2, <3>1
  <2>5. \A i \in 1 .. l : i - 1 \in 0 .. l
    BY <1>1
  <2>. QED
    BY <2>3, <2>4, <2>5
<1>5. ASSUME NEW i \in 1 .. l
      PROVE  /\ Len(PartsOf(script[i])) \in 2 .. 4
             /\ script[i].flaw # "line" => Len(PartsOf(script[i])) >= 3
             /\ Len(PartsOf(script[i])) = 3 => PartsOf(script[i])[3] = "bad"
  <2>1. script[i] \in Request
    BY <1>1
  <2>2. script[i].flaw \in {"none", "line", "headers"}
    BY <2>1 DEF Request
  <2>. QED
    BY <2>1, <2>2, PartsOfRequest
<1>6. Order(script, conn, rx, unsent) /\ Offsets(conn)
  BY <1>1 DEF InOrder, Shape
<1>7. ASSUME NEW m \in 0 .. l, \A j \in 1 .. m : Stays(script, j)
      PROVE  /\ e[m] = h + 4 * m
             /\ \A j \in 1 .. m : script[j].flaw = "none"
  <2>1. \A j \in 1 .. m : script[j].flaw = "none"
    <3>1. \A j \in 1 .. m : j \in 1 .. Len(script)
      BY <1>1
    <3>. QED
      BY <1>1, <1>7, <3>1, StaysIsPlain
  <2>2. m \in 0 .. Len(script)
    OBVIOUS
  <2>. HIDE DEF h
  <2>3. e[m] = h + 4 * m
    BY <1>1, <1>3, <2>1, <2>2, PlainEnds
  <2>. QED
    BY <2>1, <2>3
<1>8. CASE conn.state = "kReadingRequestLine"
  <2>1. /\ k - h = 4 * q + conn.line /\ conn.nrequests = q /\ conn.line < 2
        /\ q > 0 => Stays(script, q)
        /\ \A j \in 1 .. q - 1 : Stays(script, j)
    BY <1>6, <1>8 DEF Order, Offsets
  <2>2. e[q] = h + 4 * q
    <3>1. \A j \in 1 .. q : Stays(script, j)
      BY <1>1, <2>1
    <3>. QED
      BY <1>1, <1>7, <3>1
  <2>3. ASSUME q # l
        PROVE  FALSE
    <3>1. q + 1 \in 1 .. l /\ (q + 1) - 1 = q
      BY <1>1, <2>3
    <3>. DEFINE p == Len(PartsOf(script[q + 1]))
    <3>2. p >= 2 /\ p \in Nat
      <4>1. p \in 2 .. 4
        BY <1>5, <3>1, Zenon
      <4>. HIDE DEF p
      <4>. QED
        BY <4>1
    <3>3. e[q + 1] = e[q] + p
      <4>. HIDE DEF l, a, q
      <4>. QED
        BY <1>4, <3>1
    <3>4. q + 1 \in 0 .. l
      BY <3>1
    <3>5. e[q + 1] <= a
      <4>. HIDE DEF l, a, q
      <4>. QED
        BY <1>4, <3>4
    <3>6. b = 0 /\ k - h = 4 * q + conn.line /\ conn.line \in 0 .. 1
      BY <1>1, <1>8, <2>1
    <3>. HIDE DEF p, a, b, k, h, l, q
    <3>. QED
      BY <1>1, <1>2, <2>2, <3>2, <3>3, <3>5, <3>6
  <2>. QED
    BY <1>8, <2>1, <2>3
<1>9. CASE conn.state \in {"kAfterRequestLine", "kReadingHeaders"}
  <2>1. /\ k - h = 4 * (q - 1) + 2 /\ script[q].flaw # "line" /\ q > 0
        /\ \A j \in 1 .. q - 1 : Stays(script, j)
    BY <1>6, <1>9 DEF Order
  <2>2. q \in 1 .. l /\ q - 1 \in 0 .. l /\ (q - 1) + 1 = q
    <3>. HIDE DEF q, l
    <3>. QED
      BY <1>1, <2>1, SMTT(30)
  <2>3. e[q - 1] = h + 4 * (q - 1) /\ \A j \in 1 .. q - 1 : script[j].flaw = "none"
    BY <1>7, <2>1, <2>2
  <2>. DEFINE p == Len(PartsOf(script[q]))
  <2>4. p >= 3 /\ p \in Nat /\ e[q] = e[q - 1] + p /\ e[q] <= a /\ (p = 3 => PartsOf(script[q])[3] = "bad")
    <3>1. p >= 3 /\ p \in Nat /\ (p = 3 => PartsOf(script[q])[3] = "bad")
      <4>1. p \in 2 .. 4 /\ p >= 3 /\ (p = 3 => PartsOf(script[q])[3] = "bad")
        BY <1>5, <2>1, <2>2, Zenon
      <4>. HIDE DEF p
      <4>. QED
        BY <4>1
    <3>2. q \in 0 .. l
      BY <1>1
    <3>3. e[q] = e[q - 1] + p /\ e[q] <= a
      <4>. HIDE DEF l, a, q
      <4>. QED
        BY <1>4, <2>2, <3>2
    <3>. QED
      BY <3>1, <3>3
  <2>5. b >= p - 2 /\ k = h + 4 * (q - 1) + 2
    <3>1. q \in Int
      BY <1>1
    <3>. HIDE DEF p, a, b, k, h, l, q
    <3>2. k - h = 4 * (q - 1) + 2
      BY <2>1
    <3>3. k = h + 4 * (q - 1) + 2
      BY <1>1, <3>1, <3>2
    <3>4. e[q - 1] = k - 2
      BY <1>1, <2>3, <3>1, <3>3
    <3>. QED
      BY <1>1, <1>2, <2>4, <3>3, <3>4
  <2>6. conn.state = "kReadingHeaders" /\ b < 2 /\ \A n \in 1 .. b : conn.input[n].part = HeaderParts[n]
    <3>1. HeadersWait(conn)
      BY <1>1 DEF Patient
    <3>2. conn.state = "kReadingHeaders"
      <4>. HIDE DEF p, b
      <4>. QED
        BY <1>1, <1>9, <2>4, <2>5
    <3>. QED
      BY <3>1, <3>2 DEF HeadersWait
  <2>7. p = 3 /\ b = 1
    <3>. HIDE DEF p, b
    <3>. QED
      BY <1>1, <2>4, <2>5, <2>6
  <2>8. conn.input[1].part = "field"
    BY <2>6, <2>7, ExpectedWords
  <2>9. conn.input[1] = [req |-> q, part |-> PartsOf(script[q])[3]]
    <3>1. Aligned(script, conn, rx, unsent) /\ rx \in Seq(InputUnit) /\ unsent \in Seq(InputUnit)
      BY <1>1, ReqType DEF Shape
    <3>2. 2 \in Nat /\ 1 \in 1 .. Len(conn.input) /\ 2 + 1 = 3
      BY <2>7
    <3>3. k = h + 4 * (q - 1) + 2
      BY <2>5
    <3>. DEFINE m == q - 1
    <3>4. m \in 0 .. Len(script) /\ m + 1 = q /\ \A j \in 1 .. m : script[j].flaw = "none"
      BY <2>2, <2>3
    <3>5. 2 + 1 <= Len(PartsOf(script[m + 1]))
      <4>1. Len(PartsOf(script[m + 1])) = p
        BY <3>4, Zenon
      <4>. HIDE DEF m, p
      <4>. QED
        BY <2>7, <4>1
    <3>6. k = h + 4 * m + 2
      BY <3>3
    <3>. HIDE DEF m, q, p
    <3>7. conn.input[1] = [req |-> m + 1, part |-> PartsOf(script[m + 1])[2 + 1]]
      <4>. DEFINE c == conn
      <4>1. /\ c \in Fields /\ Aligned(script, c, rx, unsent)
            /\ Taken(script, c, rx, unsent) = HelloOf(c.https) + 4 * m + 2 /\ 1 \in 1 .. Len(c.input)
        BY <1>1, <3>1, <3>2, <3>6, Zenon
      <4>. HIDE DEF c
      <4>2. 2 + 1 <= Len(PartsOf(script[m + 1])) =>
              c.input[1] = [req |-> m + 1, part |-> PartsOf(script[m + 1])[2 + 1]]
        <5>1. rx \in Seq(InputUnit) /\ unsent \in Seq(InputUnit) /\ 2 \in Nat /\ script \in Scripts
          BY <1>1, <3>1
        <5>. QED
          BY <3>4, <4>1, <5>1, NextParts, ZenonT(40)
      <4>. QED
        BY <3>5, <4>2, Zenon DEF c
    <3>. QED
      BY <3>2, <3>4, <3>7, Zenon
  <2>. QED
    BY <2>4, <2>7, <2>8, <2>9
<1>. QED
  BY <1>1, <1>8, <1>9 DEF ReadingStates

\* Behind "Connection: close" there is nothing more to say.
LEMMA NothingFollows ==
  ASSUME NEW s \in Scripts, NEW m \in 1 .. Len(s), ~Stays(s, m), NEW n \in m .. Len(s)
  PROVE  RepliesTo(s, n) = RepliesTo(s, m)
<1>. DEFINE T == {k \in Nat : m + k <= Len(s) => RepliesTo(s, m + k) = RepliesTo(s, m)}
<1>0. Len(s) \in Nat
  BY ScriptsAssumption
<1>1. 0 \in T
  OBVIOUS
<1>2. ASSUME NEW k \in Nat, k \in T
      PROVE  k + 1 \in T
  <2>1. SUFFICES ASSUME m + (k + 1) <= Len(s)
                 PROVE  RepliesTo(s, m + (k + 1)) = RepliesTo(s, m)
    OBVIOUS
  <2>2. m + k \in 0 .. Len(s) /\ m + k < Len(s) /\ m + (k + 1) = (m + k) + 1 /\ m \in 1 .. m + k
    BY <1>0, <2>1
  <2>3. RepliesTo(s, m + k) = RepliesTo(s, m)
    BY <1>2, <2>2
  <2>4. RepliesTo(s, (m + k) + 1) = RepliesTo(s, m + k) \o <<>> /\ RepliesTo(s, m + k) \in Seq(OutputUnit)
    <3>1. ~\A j \in 1 .. m + k : Stays(s, j)
      BY <2>2
    <3>. QED
      BY <2>2, <3>1, RepliesStep
  <2>. DEFINE r == RepliesTo(s, m + k)
  <2>5. r \o <<>> = r
    BY <2>4, ConcatEmptySeq
  <2>. QED
    BY <2>2, <2>3, <2>4, <2>5, Zenon
<1>3. Nat \subseteq T
  <2>. HIDE DEF T
  <2>. QED
    BY <1>1, <1>2, InductionOverNat
<1>4. n - m \in T /\ m + (n - m) = n /\ n <= Len(s)
  BY <1>0, <1>3
<1>. QED
  BY <1>4

\* What CloseIsDeserved says of a step.
Deserved ==
  (phase = "running" /\ phase' = "closed" /\ peer # "reset" /\ ~(conn.https /\ peer = "finished")) =>
    /\ sent = P!Replies(Asked)
    /\ peer = "open" => \E i \in 1 .. Asked : ~P!Stays(i)

\* run() hangs up behind the last reply.
LEMMA HangUpStep ==
  ASSUME MalformedCloses, Shape, InOrder, Said, Patient, Next
  PROVE  Deserved
<1>1. SUFFICES ASSUME phase = "running", phase' = "closed", peer # "reset",
                      ~(conn.https /\ peer = "finished")
               PROVE  /\ sent = P!Replies(Asked)
                      /\ peer = "open" => \E i \in 1 .. Asked : ~P!Stays(i)
  BY Zenon DEF Deserved
<1>. DEFINE a == AskedOf(script, unsent)
<1>2. /\ conn \in Fields /\ script \in Scripts /\ script \in Seq(Request) /\ Len(script) \in Nat
      /\ conn.https \in BOOLEAN /\ peer \in {"open", "finished"} /\ sent \in Seq(OutputUnit)
      /\ Order(script, conn, rx, unsent) /\ sent \o ToCome(conn) = RepliesTo(script, conn.nrequests)
  <2>1. script \in Seq(Request) /\ peer \in {"open", "finished"} /\ sent \in Seq(OutputUnit)
    BY <1>1, ReqType, ChoiceAssumption DEF Shape, TypeOK
  <2>2. Len(script) \in Nat
    BY <2>1
  <2>3. Order(script, conn, rx, unsent) /\ sent \o ToCome(conn) = RepliesTo(script, conn.nrequests)
    BY <1>1, Zenon DEF InOrder, Said
  <2>. QED
    BY <2>1, <2>2, <2>3, ReqType
<1>3. a \in 0 .. Len(script) /\ Asked = a
  <2>1. /\ Aligned(script, conn, rx, unsent) /\ Taken(script, conn, rx, unsent) >= 0
        /\ rx \in Seq(InputUnit) /\ unsent \in Seq(InputUnit)
    BY <1>1, ReqType, HandshakeBefore DEF Shape
  <2>2. IsRest(script, conn.https, unsent)
    BY <1>2, <2>1, AlignedRest
  <2>3. a \in 0 .. Len(script)
    BY <1>2, <2>2, AskedType
  <2>. QED
    BY <2>3, Zenon DEF Asked, AskedOf
<1>4. P!Replies(a) = RepliesTo(script, a)
  BY <1>2, <1>3, RepliesOfPipeline
<1>5. conn.state \notin SendingStates => sent = RepliesTo(script, conn.nrequests)
  <2>1. SUFFICES ASSUME conn.state \notin SendingStates
                 PROVE  sent = RepliesTo(script, conn.nrequests)
    OBVIOUS
  <2>2. ToCome(conn) = <<>> /\ sent \o <<>> = sent
    BY <1>2, <2>1, ToComeCases, ConcatEmptySeq
  <2>. QED
    BY <1>2, <2>2, Zenon
<1>6. ReadFails \/ (RequestCompleted /\ ~conn.keepAlive)
  <2>1. phase' = "closed" /\ phase # "closed"
    BY <1>1
  <2>2. ~(EventLoop \/ Expire \/ Client \/ Terminated)
    BY <1>1 DEF EventLoop, Expire, Client, Terminated, Deliver, Discard, OnWritable, ClientSends, ClientReads,
                ClientEnds, processVars
  <2>3. ~(NotReadable \/ ReadsNothing \/ NotWritable)
    BY <1>1 DEF NotReadable, ReadsNothing, NotWritable, Return
  <2>4. ~(ReadingRequestLine \/ ReadingHeaders \/ ProcessRequest \/ PreparingErrorPage \/ SendTwoBuffers
          \/ SendHeaders \/ SendBody \/ SendPartHeader \/ SendMultipartFooter)
    <3>1. ASSUME NEW c, Continue(c)
          PROVE  FALSE
      BY <1>1, <3>1 DEF Continue
    <3>2. ~ReadingRequestLine /\ ~ReadingHeaders
      BY <3>1, Zenon DEF ReadingRequestLine, ReadingHeaders
    <3>3. ~ProcessRequest /\ ~PreparingErrorPage
      BY <3>1, Zenon DEF ProcessRequest, PreparingErrorPage
    <3>4. ~SendTwoBuffers /\ ~SendHeaders /\ ~SendBody
      BY <3>1, Zenon DEF SendTwoBuffers, SendHeaders, SendBody
    <3>5. ~SendPartHeader /\ ~SendMultipartFooter
      BY <3>1, Zenon DEF SendPartHeader, SendMultipartFooter
    <3>. QED
      BY <3>2, <3>3, <3>4, <3>5
  <2>5. ~SendFails
    BY <1>1 DEF SendFails
  <2>6. ~Handshake
    <3>1. ASSUME Handshake
          PROVE  FALSE
      <4>. DEFINE n == Min({conn.hello, Len(rx)})
                  c == [conn EXCEPT !.hello = @ - n]
                  d == [c EXCEPT !.state = "kReadingRequestLine",
                                 !.timerSet = IF conn.https THEN FALSE ELSE @]
      <4>1. \/ Continue(d)
            \/ \E x : Return(x)
            \/ c.hello > 0 /\ peer # "open" /\ Drop
        BY <3>1, Zenon DEF Handshake
      <4>2. ~Continue(d) /\ ~\E x : Return(x)
        BY <1>1 DEF Continue, Return
      <4>3. c.hello > 0 /\ peer = "finished"
        BY <1>2, <4>1, <4>2
      <4>4. ~conn.https /\ conn.hello = 0
        BY <1>1, <4>3 DEF Shape, Offsets
      <4>5. n = 0
        <5>1. rx \in Seq(InputUnit)
          BY ReqType
        <5>2. Len(rx) \in Nat
          BY <5>1
        <5>. QED
          BY <4>4, <5>2, MinOfTwo
      <4>. HIDE DEF n
      <4>. QED
        BY <1>2, <4>3, <4>4, <4>5 DEF Fields
    <3>. QED
      BY <3>1
  <2>7. RequestCompleted => ~conn.keepAlive
    BY <1>1 DEF RequestCompleted, Continue
  <2>. QED
    BY <2>2, <2>3, <2>4, <2>5, <2>6, <2>7 DEF Next, Run, Reading, Replying
<1>7. CASE ReadFails
  <2>1. NeedsInput /\ peer = "finished" /\ ~conn.https /\ Count = 0
    BY <1>1, <1>2, <1>7 DEF ReadFails
  <2>2. unsent = <<>>
    BY <2>1 DEF Patient
  <2>3. rx = <<>>
    <3>1. Len(rx) \in Nat /\ ReadSize \in Nat \ {0} /\ rx \in Seq(InputUnit)
      BY ReqType, SizeAssumption
    <3>2. Len(rx) = 0
      BY <2>1, <3>1, MinOfTwo DEF Count
    <3>. QED
      BY <3>1, <3>2
  <2>4. conn.state = "kReadingRequestLine" /\ conn.nrequests = Len(script)
    BY <2>1, <2>2, <2>3, AllRead
  <2>5. sent = RepliesTo(script, Len(script)) /\ a = Len(script)
    BY <1>5, <2>2, <2>4 DEF SendingStates, AskedOf
  <2>. QED
    BY <1>3, <1>4, <2>1, <2>5, Zenon
<1>8. CASE RequestCompleted /\ ~conn.keepAlive
  <2>. DEFINE q == conn.req
  <2>1. conn.state = "kRequestCompleted"
    BY <1>8 DEF RequestCompleted, Running
  <2>2. /\ q > 0 /\ conn.nrequests = q /\ q <= a /\ ~Stays(script, q)
        /\ sent = RepliesTo(script, q)
    BY <1>2, <1>5, <1>8, <2>1 DEF Order, Sending, SendingStates
  <2>3. q \in 1 .. Len(script) /\ a \in q .. Len(script) /\ q \in 1 .. a
    <3>1. q \in 0 .. Len(script)
      BY <1>2 DEF Fields
    <3>. HIDE DEF a, q
    <3>. QED
      BY <1>2, <1>3, <2>2, <3>1
  <2>4. RepliesTo(script, a) = RepliesTo(script, q)
    <3>. HIDE DEF a, q
    <3>. QED
      BY <1>2, <2>2, <2>3, NothingFollows
  <2>5. ~P!Stays(q)
    BY <2>2, Zenon DEF Stays, P!Stays
  <2>. QED
    BY <1>3, <1>4, <2>2, <2>3, <2>4, <2>5, Zenon
<1>. QED
  BY <1>6, <1>7, <1>8

\* run() closes a connection whose client has not gone away only behind the
\* replies to all it was sent; while the client may still send, it has said so.
THEOREM HangsUpWhenDone == MalformedCloses => (Spec => CloseIsDeserved)
<1>1. SUFFICES ASSUME MalformedCloses
               PROVE  Spec => CloseIsDeserved
  OBVIOUS
<1>2. Init => Patient
  BY PatientInit
<1>3. Shape /\ InOrder /\ Patient /\ [Next]_vars => Patient'
  BY PatientNext
<1>4. Shape /\ InOrder /\ Said /\ Patient /\ [Next]_vars => [Deserved]_vars
  BY <1>1, HangUpStep
<1>5. CloseIsDeserved <=> [][Deserved]_vars
  BY PTL DEF CloseIsDeserved, Deserved
<1>. QED
  BY <1>1, <1>2, <1>3, <1>4, <1>5, ShapeIsInvariant, RequestsInOrder, RepliesAreWhole, PTL DEF Spec

-----------------------------------------------------------------------------
(* Counting the replies.                                                   *)

\* A reply begins with its headers, and what follows is its body.
IsHead(u) == u.item \in {"keep-alive", "close"}
BodyUnit(i) == [req : {i}, item : {"byte", "part", "footer", "page"}, at : Nat]

\* The units of r are of replies to the first n requests, and no request has
\* got headers twice.
OneEach(r, n) ==
  /\ \A p \in 1 .. Len(r) : r[p].req \in 1 .. n
  /\ \A p, q \in 1 .. Len(r) : IsHead(r[p]) /\ IsHead(r[q]) /\ r[p].req = r[q].req => p = q

\* What a body is made of.
LEMMA PieceUnits ==
  ASSUME NEW i \in Nat
  PROVE  /\ \A n \in Nat : P!Part(i, n) \in Seq(BodyUnit(i))
         /\ P!Footer(i) \in Seq(BodyUnit(i)) /\ P!Page(i) \in Seq(BodyUnit(i))
         /\ \A from \in Nat, to \in Int : P!Bytes(i, from, to) \in Seq(BodyUnit(i))
<1>1. /\ \A n \in Nat : [req |-> i, item |-> "part", at |-> n] \in BodyUnit(i)
      /\ [req |-> i, item |-> "footer", at |-> 0] \in BodyUnit(i)
      /\ [req |-> i, item |-> "page", at |-> 0] \in BodyUnit(i)
  BY DEF BodyUnit
<1>2. \A u \in BodyUnit(i) : <<u>> \in Seq(BodyUnit(i))
  OBVIOUS
<1>3. ASSUME NEW from \in Nat, NEW to \in Int
      PROVE  P!Bytes(i, from, to) \in Seq(BodyUnit(i))
  <2>. DEFINE l == IF from <= to THEN to - from + 1 ELSE 0
              b == P!Bytes(i, from, to)
  <2>1. l \in Nat /\ 1 .. to - from + 1 = 1 .. l
    OBVIOUS
  <2>2. \A n \in 1 .. l : [req |-> i, item |-> "byte", at |-> from + n - 1] \in BodyUnit(i)
    BY <2>1 DEF BodyUnit
  <2>3. b = [n \in 1 .. l |-> [req |-> i, item |-> "byte", at |-> from + n - 1]]
    BY <2>1 DEF P!Bytes
  <2>. HIDE DEF l
  <2>4. b \in [1 .. l -> BodyUnit(i)]
    BY <2>2, <2>3
  <2>. HIDE DEF b
  <2>5. b \in Seq(BodyUnit(i))
    BY <2>1, <2>4
  <2>. QED
    BY <2>5 DEF b
<1>. QED
  BY <1>1, <1>2, <1>3 DEF P!Part, P!Footer, P!Page

\* So are the parts of several ranges ...
LEMMA PartsUnits ==
  ASSUME NEW i \in Nat, NEW ranges \in Seq([from : Nat, to : Nat])
  PROVE  PartsFrom(i, ranges, 0) \in Seq(BodyUnit(i))
<1>. DEFINE l == Len(ranges) - 0
            part(n) == P!Part(i, 0 + n) \o P!Bytes(i, ranges[0 + n].from, ranges[0 + n].to)
            ss == [n \in 1 .. l |-> part(n)]
<1>1. l \in Nat
  OBVIOUS
<1>2. ASSUME NEW n \in 1 .. l
      PROVE  part(n) \in Seq(BodyUnit(i))
  <2>1. 0 + n \in 1 .. Len(ranges) /\ 0 + n \in Nat
    BY <1>1
  <2>2. ranges[0 + n] \in [from : Nat, to : Nat]
    BY <2>1, ElementOfSeq, Zenon
  <2>3. ranges[0 + n].from \in Nat /\ ranges[0 + n].to \in Int
    BY <2>2
  <2>. DEFINE a == P!Part(i, 0 + n)
              b == P!Bytes(i, ranges[0 + n].from, ranges[0 + n].to)
  <2>4. a \in Seq(BodyUnit(i)) /\ b \in Seq(BodyUnit(i))
    BY <2>1, <2>3, PieceUnits, Zenon
  <2>. HIDE DEF a, b
  <2>5. a \o b \in Seq(BodyUnit(i))
    BY <2>4, ConcatProperties
  <2>. QED
    BY <2>5 DEF a, b
<1>3. ss \in [1 .. l -> Seq(BodyUnit(i))]
  <2>. HIDE DEF part, l
  <2>. QED
    BY <1>2
<1>4. PartsFrom(i, ranges, 0) = FlattenSeq(ss)
  BY Zenon DEF PartsFrom
<1>. HIDE DEF ss, l
<1>5. FlattenSeq(ss) \in Seq(BodyUnit(i))
  BY <1>1, <1>3, FlattenType
<1>. QED
  BY <1>4, <1>5

\* ... and every body.
LEMMA BodyUnits ==
  ASSUME NEW i \in Nat, NEW r \in Request
  PROVE  BodyOf(i, r) \in Seq(BodyUnit(i))
<1>1. r.ranges \in Seq([from : Nat, to : Nat])
  BY DEF Request
<1>2. P!Page(i) \in Seq(BodyUnit(i)) /\ P!Footer(i) \in Seq(BodyUnit(i))
  BY PieceUnits
<1>3. P!Bytes(i, 0, FileLen - 1) \in Seq(BodyUnit(i))
  <2>1. 0 \in Nat /\ FileLen - 1 \in Int
    BY SizeAssumption
  <2>. QED
    BY <2>1, PieceUnits
<1>4. Len(r.ranges) = 1 => P!Bytes(i, r.ranges[1].from, r.ranges[1].to) \in Seq(BodyUnit(i))
  <2>1. SUFFICES ASSUME Len(r.ranges) = 1
                 PROVE  P!Bytes(i, r.ranges[1].from, r.ranges[1].to) \in Seq(BodyUnit(i))
    OBVIOUS
  <2>2. 1 \in 1 .. Len(r.ranges)
    BY <2>1
  <2>3. r.ranges[1] \in [from : Nat, to : Nat]
    BY <1>1, <2>2, ElementOfSeq, Zenon
  <2>4. r.ranges[1].from \in Nat /\ r.ranges[1].to \in Int
    BY <2>3
  <2>. QED
    BY <2>4, PieceUnits
<1>5. PartsFrom(i, r.ranges, 0) \o P!Footer(i) \in Seq(BodyUnit(i))
  <2>1. PartsFrom(i, r.ranges, 0) \in Seq(BodyUnit(i))
    BY <1>1, PartsUnits
  <2>. QED
    BY <1>2, <2>1, ConcatProperties
<1>6. <<>> \in Seq(BodyUnit(i))
  OBVIOUS
<1>. QED
  BY <1>2, <1>3, <1>4, <1>5, <1>6, Zenon DEF BodyOf

\* One more reply behind those to n requests.
LEMMA OneMore ==
  ASSUME NEW n \in Nat, NEW r \in Seq(OutputUnit), OneEach(r, n), NEW t \in Seq(OutputUnit),
         \A k \in 1 .. Len(t) : t[k].req = n + 1 /\ (IsHead(t[k]) => k = 1)
  PROVE  OneEach(r \o t, n + 1)
<1>. DEFINE a == Len(r)
            b == Len(t)
            v == r \o t
<1>1. /\ a \in Nat /\ b \in Nat /\ Len(v) = a + b
      /\ \A p \in 1 .. a + b : v[p] = IF p <= a THEN r[p] ELSE t[p - a]
  BY ConcatProperties
<1>2. /\ \A p \in 1 .. a : r[p].req \in 1 .. n
      /\ \A p, q \in 1 .. a : IsHead(r[p]) /\ IsHead(r[q]) /\ r[p].req = r[q].req => p = q
      /\ \A k \in 1 .. b : t[k].req = n + 1 /\ (IsHead(t[k]) => k = 1)
  BY DEF OneEach
<1>. HIDE DEF a, b, v
<1>3. ASSUME NEW p \in 1 .. a + b
      PROVE  \/ p \in 1 .. a /\ v[p] = r[p] /\ v[p].req \in 1 .. n
             \/ /\ p - a \in 1 .. b /\ v[p] = t[p - a] /\ v[p].req = n + 1
                /\ IsHead(v[p]) => p = a + 1
  <2>1. CASE p <= a
    <3>1. p \in 1 .. a
      BY <1>1, <2>1
    <3>. QED
      BY <1>1, <1>2, <2>1, <3>1
  <2>2. CASE ~(p <= a)
    <3>1. p - a \in 1 .. b
      BY <1>1, <2>2
    <3>2. p - a = 1 => p = a + 1
      BY <1>1
    <3>3. v[p] = t[p - a]
      BY <1>1, <2>2
    <3>4. t[p - a].req = n + 1 /\ (IsHead(t[p - a]) => p - a = 1)
      BY <1>2, <3>1
    <3>. QED
      BY <3>1, <3>2, <3>3, <3>4, Zenon
  <2>. QED
    BY <2>1, <2>2
<1>4. \A p \in 1 .. a + b : v[p].req \in 1 .. n + 1
  BY <1>3
<1>5. ASSUME NEW p \in 1 .. a + b, NEW q \in 1 .. a + b, IsHead(v[p]), IsHead(v[q]), v[p].req = v[q].req
      PROVE  p = q
  <2>1. n + 1 \notin 1 .. n
    OBVIOUS
  <2>. QED
    BY <1>2, <1>3, <1>5, <2>1, ZenonT(40)
<1>. QED
  BY <1>1, <1>4, <1>5 DEF OneEach, v

\* No request has two replies.
LEMMA RepliesOneEach ==
  ASSUME NEW s \in Scripts, NEW n \in 0 .. Len(s)
  PROVE  OneEach(RepliesTo(s, n), n)
<1>. DEFINE T == {m \in Nat : m <= Len(s) => OneEach(RepliesTo(s, m), m)}
<1>0. s \in Seq(Request) /\ Len(s) \in Nat
  BY ScriptsAssumption
<1>1. 0 \in T
  <2>1. RepliesTo(s, 0) = <<>>
    BY <1>0, RepliesStep
  <2>. QED
    BY <2>1 DEF OneEach
<1>2. ASSUME NEW m \in Nat, m \in T
      PROVE  m + 1 \in T
  <2>1. SUFFICES ASSUME m + 1 <= Len(s)
                 PROVE  OneEach(RepliesTo(s, m + 1), m + 1)
    OBVIOUS
  <2>2. m \in 0 .. Len(s) /\ m < Len(s) /\ m <= Len(s) /\ m + 1 \in 1 .. Len(s) /\ m + 1 \in Nat
    BY <1>0, <2>1
  <2>3. OneEach(RepliesTo(s, m), m)
    BY <1>2, <2>2
  <2>. DEFINE r == RepliesTo(s, m)
              i == m + 1
              o == P!Opening(i, Stays(s, i))
              body == BodyOf(i, s[i])
              u == [req |-> i, item |-> IF Stays(s, i) THEN "keep-alive" ELSE "close", at |-> 0]
  <2>4. /\ r \in Seq(OutputUnit) /\ ReplyTo(s, i) \in Seq(OutputUnit)
        /\ RepliesTo(s, i) = r \o ReplyTo(s, i) \/ RepliesTo(s, i) = r \o <<>>
    BY <2>2, RepliesStep
  <2>5. body \in Seq(BodyUnit(i))
    <3>1. s[i] \in Request
      BY <1>0, <2>2
    <3>. QED
      BY <2>2, <3>1, BodyUnits
  <2>6. o = <<u>> /\ ReplyTo(s, i) = o \o body
    BY Zenon DEF P!Opening, ReplyTo
  <2>. HIDE DEF T, body, r, u, o, i
  <2>7. \A k \in 1 .. Len(body) : body[k].req = i /\ ~IsHead(body[k])
    <3>1. \A k \in 1 .. Len(body) : body[k] \in BodyUnit(i)
      BY <2>5, ElementOfSeq, Zenon
    <3>. QED
      BY <3>1 DEF BodyUnit, IsHead
  <2>8. ASSUME NEW k \in 1 .. Len(ReplyTo(s, i))
        PROVE  ReplyTo(s, i)[k].req = i /\ (IsHead(ReplyTo(s, i)[k]) => k = 1)
    <3>. DEFINE U == {u} \cup BodyUnit(i)
    <3>1. <<u>> \in Seq(U) /\ body \in Seq(U) /\ Len(<<u>>) = 1 /\ Len(body) \in Nat
      BY <2>5
    <3>. HIDE DEF U
    <3>2. /\ Len(<<u>> \o body) = 1 + Len(body)
          /\ \A j \in 1 .. 1 + Len(body) : (<<u>> \o body)[j] = IF j <= 1 THEN <<u>>[j] ELSE body[j - 1]
      BY <3>1, ConcatProperties, Zenon
    <3>3. u.req = i
      BY DEF u
    <3>. DEFINE l == Len(body)
    <3>4. k \in 1 .. 1 + l /\ l \in Nat
      BY <2>6, <3>1, <3>2, Zenon
    <3>5. k = 1 \/ (~(k <= 1) /\ k - 1 \in 1 .. l)
      <4>. HIDE DEF l
      <4>. QED
        BY <3>4
    <3>6. CASE k = 1
      <4>1. (<<u>> \o body)[1] = u
        BY <3>2, <3>4, <3>6
      <4>. QED
        BY <2>6, <3>3, <3>6, <4>1, Zenon
    <3>7. CASE ~(k <= 1) /\ k - 1 \in 1 .. l
      <4>1. (<<u>> \o body)[k] = body[k - 1]
        BY <3>2, <3>4, <3>7, Zenon
      <4>. QED
        BY <2>6, <2>7, <3>7, <4>1, Zenon
    <3>. QED
      BY <3>5, <3>6, <3>7
  <2>9. OneEach(r \o ReplyTo(s, i), m + 1)
    <3>1. \A k \in 1 .. Len(ReplyTo(s, i)) :
            ReplyTo(s, i)[k].req = m + 1 /\ (IsHead(ReplyTo(s, i)[k]) => k = 1)
      BY <2>8, Zenon DEF i
    <3>. QED
      BY <2>3, <2>4, <3>1, OneMore DEF r
  <2>10. OneEach(r \o <<>>, m + 1)
    <3>1. <<>> \in Seq(OutputUnit) /\ Len(<<>>) = 0
      OBVIOUS
    <3>2. \A k \in 1 .. Len(<<>>) : <<>>[k].req = m + 1 /\ (IsHead(<<>>[k]) => k = 1)
      BY <3>1
    <3>. QED
      BY <2>3, <2>4, <3>1, <3>2, OneMore DEF r
  <2>. QED
    BY <2>4, <2>9, <2>10, Zenon DEF i
<1>3. n \in Nat /\ n <= Len(s)
  BY <1>0
<1>4. Nat \subseteq T
  <2>. HIDE DEF T
  <2>. QED
    BY <1>1, <1>2, InductionOverNat
<1>. QED
  BY <1>3, <1>4

\* What has been said is the beginning of all there is to say.
LEMMA OneEachOfSome ==
  ASSUME NEW v \in Seq(OutputUnit), NEW t \in Seq(OutputUnit), NEW n \in Nat, OneEach(v \o t, n),
         NEW m \in Nat, n <= m
  PROVE  OneEach(v, m)
<1>1. /\ Len(v) \in Nat /\ Len(t) \in Nat /\ Len(v \o t) = Len(v) + Len(t)
      /\ \A p \in 1 .. Len(v) + Len(t) : (v \o t)[p] = IF p <= Len(v) THEN v[p] ELSE t[p - Len(v)]
  BY ConcatProperties
<1>. DEFINE a == Len(v)
            b == Len(t)
            w == v \o t
<1>2. /\ a \in Nat /\ b \in Nat /\ Len(w) = a + b
      /\ \A p \in 1 .. a + b : w[p] = IF p <= a THEN v[p] ELSE t[p - a]
      /\ \A p \in 1 .. a + b : w[p].req \in 1 .. n
      /\ \A p, q \in 1 .. a + b : IsHead(w[p]) /\ IsHead(w[q]) /\ w[p].req = w[q].req => p = q
  BY <1>1 DEF OneEach
<1>. HIDE DEF a, b, w
<1>3. \A p \in 1 .. a : p \in 1 .. a + b /\ w[p] = v[p]
  BY <1>2
<1>4. \A p \in 1 .. a : v[p].req \in 1 .. m
  BY <1>2, <1>3
<1>5. \A p, q \in 1 .. a : IsHead(v[p]) /\ IsHead(v[q]) /\ v[p].req = v[q].req => p = q
  BY <1>2, <1>3, Zenon
<1>. QED
  BY <1>4, <1>5 DEF OneEach, a

\* A request is counted when it has been sent.
LEMMA CountedIsAsked ==
  ASSUME MalformedCloses, Shape, InOrder, phase # "closed"
  PROVE  /\ AskedOf(script, unsent) \in 0 .. Len(script)
         /\ conn.nrequests \in 0 .. AskedOf(script, unsent)
<1>. DEFINE a == AskedOf(script, unsent)
            k == Taken(script, conn, rx, unsent)
            h == HelloOf(conn.https)
            l == Len(script)
            q == conn.req
            n == conn.nrequests
<1>1. /\ conn \in Fields /\ conn.https \in BOOLEAN /\ rx \in Seq(InputUnit) /\ unsent \in Seq(InputUnit)
      /\ script \in Scripts /\ script \in Seq(Request) /\ Aligned(script, conn, rx, unsent) /\ k >= 0
      /\ k \in Int /\ h \in Nat /\ l \in Nat /\ q \in 0 .. l /\ n \in Nat /\ Len(conn.input) \in Nat
      /\ Order(script, conn, rx, unsent)
  <2>1. script \in Seq(Request) /\ conn \in Fields /\ conn.input \in Seq(InputUnit)
    BY ReqType
  <2>2. l \in Nat /\ q \in 0 .. l /\ n \in Nat /\ Len(conn.input) \in Nat
    BY <2>1, SizeAssumption DEF Fields
  <2>. QED
    BY <2>2, ReqType, HandshakeBefore DEF Shape, InOrder
<1>2. a \in 0 .. l
  <2>1. IsRest(script, conn.https, unsent)
    BY <1>1, AlignedRest
  <2>. QED
    BY <1>1, <2>1, AskedType
<1>3. CASE conn.state \in Sending \cup {"kProcessingRequest", "kPreparingErrorPage"}
  <2>1. q <= a /\ q > 0 /\ (n = q \/ n = q - 1)
    BY <1>1, <1>3 DEF Order, Sending, SendingStates
  <2>. HIDE DEF a, q, n, l
  <2>2. n \in 0 .. a
    BY <1>1, <1>2, <2>1
  <2>. QED
    BY <1>2, <2>2 DEF a, n, l
<1>4. CASE conn.state = "kHandshaking"
  <2>1. n = 0
    BY <1>1, <1>4 DEF Order
  <2>. HIDE DEF a, n, l
  <2>2. n \in 0 .. a
    BY <1>2, <2>1
  <2>. QED
    BY <1>2, <2>2 DEF a, n, l
<1>5. CASE conn.state \in ReadingStates
  <2>1. /\ \A j \in 1 .. n : Stays(script, j)
        /\ n <= q /\ k >= h + 4 * n
    <3>1. CASE conn.state = "kReadingRequestLine"
      <4>1. /\ k - h = 4 * q + conn.line /\ n = q /\ (q > 0 => Stays(script, q))
            /\ \A j \in 1 .. q - 1 : Stays(script, j)
        BY <1>1, <3>1 DEF Order
      <4>2. conn.line \in Nat
        BY <1>1 DEF Fields, LineParts
      <4>. DEFINE o == conn.line
      <4>3. k - h = 4 * q + o /\ n = q /\ o \in Nat
        BY <4>1, <4>2
      <4>. HIDE DEF k, h, q, n, o, l
      <4>4. k >= h + 4 * n /\ n <= q /\ \A j \in 1 .. n : j \in 1 .. q - 1 \/ (q > 0 /\ j = q)
        BY <1>1, <4>3
      <4>. QED
        BY <4>1, <4>4
    <3>2. CASE conn.state \in {"kAfterRequestLine", "kReadingHeaders"}
      <4>1. /\ k - h = 4 * (q - 1) + 2 /\ n = q - 1 /\ \A j \in 1 .. q - 1 : Stays(script, j)
        BY <1>1, <3>2 DEF Order, Sending, SendingStates
      <4>. HIDE DEF k, h, q, n, l
      <4>2. k >= h + 4 * n /\ n <= q
        BY <1>1, <4>1
      <4>. QED
        BY <4>1, <4>2
    <3>. QED
      BY <1>5, <3>1, <3>2 DEF ReadingStates
  <2>2. CASE n = 0
    <3>. HIDE DEF a, n, l
    <3>1. n \in 0 .. a
      BY <1>2, <2>2
    <3>. QED
      BY <1>2, <3>1 DEF a, n, l
  <2>3. CASE n # 0
    <3>1. n \in 1 .. l /\ \A j \in 1 .. n : j \in 1 .. l
      <4>. HIDE DEF n, q, l
      <4>. QED
        BY <1>1, <2>1, <2>3
    <3>2. \A j \in 1 .. n : script[j].flaw = "none"
      <4>1. SUFFICES ASSUME NEW j \in 1 .. n
                     PROVE  script[j].flaw = "none"
        OBVIOUS
      <4>2. j \in 1 .. Len(script) /\ Stays(script, j)
        BY <2>1, <3>1
      <4>. QED
        BY <1>1, <4>2, StaysIsPlain
    <3>3. Len(PartsOf(script[n])) = 4
      <4>1. script[n] \in Request /\ n \in 1 .. n
        BY <1>1, <3>1
      <4>. QED
        BY <3>2, <4>1, PartsOfRequest
    <3>. DEFINE i == Len(conn.input)
                p == Len(PartsOf(script[n]))
    <3>4. k + i >= h + 4 * (n - 1) + p /\ \A j \in 1 .. n - 1 : j \in 1 .. n
      <4>1. p = 4 /\ i \in Nat
        BY <1>1, <3>3
      <4>. HIDE DEF k, h, n, i, p
      <4>. QED
        BY <1>1, <2>1, <4>1
    <3>5. \A j \in 1 .. n - 1 : script[j].flaw = "none"
      BY <3>2, <3>4, Zenon
    <3>6. n <= a
      <4>. DEFINE c == conn
      <4>1. /\ c \in Fields /\ Aligned(script, c, rx, unsent)
            /\ Taken(script, c, rx, unsent) + Len(c.input) >= HelloOf(c.https) + 4 * (n - 1) + Len(PartsOf(script[n]))
            /\ Taken(script, c, rx, unsent) >= 0 /\ n \in 1 .. Len(script)
        BY <1>1, <3>1, <3>4, Zenon
      <4>. HIDE DEF c, n
      <4>. QED
        BY <1>1, <3>5, <4>1, ReadIsAsked
    <3>. HIDE DEF a, n, l
    <3>7. n \in 0 .. a
      BY <1>1, <1>2, <3>6
    <3>. QED
      BY <1>2, <3>7 DEF a, n, l
  <2>. QED
    BY <2>2, <2>3
<1>6. conn.state \in States
  BY <1>1 DEF Fields
<1>. QED
  BY <1>3, <1>4, <1>5, <1>6 DEF States, Sending, ReadingStates

\* No request that has been sent has got headers twice, and no other has.
Counted == OneEach(sent, Asked) /\ Asked \in Nat
Closed == phase = "closed"

\* That is so as long as the connection is open ...
LEMMA OpenCounts ==
  ASSUME MalformedCloses, Shape, InOrder, Said, phase # "closed"
  PROVE  Counted
<1>. DEFINE a == AskedOf(script, unsent)
            n == conn.nrequests
            t == ToCome(conn)
<1>1. a \in 0 .. Len(script) /\ n \in 0 .. a
  BY CountedIsAsked
<1>2. Asked = a
  BY Zenon DEF Asked, AskedOf
<1>3. sent \in Seq(OutputUnit) /\ script \in Scripts /\ Len(script) \in Nat /\ t \in Seq(OutputUnit)
  <2>1. script \in Seq(Request) /\ conn \in Fields /\ Offsets(conn) /\ script \in Scripts
    BY ReqType DEF Shape
  <2>2. ToCome(conn) \in Seq(OutputUnit)
    BY <2>1, ToComeType
  <2>. QED
    BY <2>1, <2>2 DEF Shape, TypeOK
<1>4. sent \o t = RepliesTo(script, n)
  BY DEF Said
<1>. HIDE DEF a, n, t
<1>5. n \in 0 .. Len(script) /\ n \in Nat /\ a \in Nat /\ n <= a
  BY <1>1, <1>3
<1>6. OneEach(sent \o t, n)
  BY <1>3, <1>4, <1>5, RepliesOneEach
<1>7. OneEach(sent, a)
  BY <1>3, <1>5, <1>6, OneEachOfSome
<1>. QED
  BY <1>2, <1>5, <1>7 DEF Counted

\* ... and when it is closed, nothing is sent any more.
LEMMA ClosedCounts ==
  ASSUME Counted, phase' = "closed", [Next]_vars
  PROVE  Counted'
<1>1. UNCHANGED <<script, unsent, sent>>
  <2>1. ASSUME NEW c, Continue(c)
        PROVE  phase' = phase
    BY <2>1 DEF Continue
  <2>2. ~(SendTwoBuffers \/ SendHeaders \/ SendBody \/ SendPartHeader \/ SendMultipartFooter)
    <3>1. SendTwoBuffers \/ SendHeaders \/ SendBody \/ SendPartHeader \/ SendMultipartFooter
            => phase = "running" /\ \E c : Continue(c)
      BY Zenon DEF SendTwoBuffers, SendHeaders, SendBody, SendPartHeader, SendMultipartFooter, Sends, Running
    <3>. QED
      BY <2>1, <3>1
  <2>3. ~ClientSends
    BY DEF ClientSends, processVars
  <2>4. CASE Handshake \/ Reading \/ ProcessRequest \/ PreparingErrorPage \/ NotWritable \/ SendFails
             \/ RequestCompleted
    BY <2>4, Zenon DEF Handshake, Reading, NotReadable, ReadsNothing, ReadFails, ReadingRequestLine,
                       ReadingHeaders, ProcessRequest, PreparingErrorPage, NotWritable, SendFails, RequestCompleted
  <2>5. CASE EventLoop \/ ClientReads \/ ClientEnds \/ Expire \/ Terminated \/ UNCHANGED vars
    BY <2>5 DEF EventLoop, Deliver, Discard, OnWritable, ClientReads, ClientEnds, Expire, Terminated, vars
  <2>. QED
    BY <2>2, <2>3, <2>4, <2>5 DEF Next, Run, Replying, Client
<1>. QED
  BY <1>1 DEF Counted, Asked

\* Whoever has got no headers twice has got no more than it asked for.
LEMMA HeadsBound ==
  ASSUME Shape, Counted
  PROVE  OneReplyPerRequest
<1>. DEFINE S == {n \in DOMAIN sent : sent[n].item \in {"keep-alive", "close"}}
            T == 1 .. Asked
            f == [n \in S |-> sent[n].req]
<1>1. sent \in Seq(OutputUnit) /\ Len(sent) \in Nat /\ DOMAIN sent = 1 .. Len(sent) /\ Asked \in Nat
  BY DEF Shape, TypeOK, Counted
<1>2. IsFiniteSet(S)
  <2>1. IsFiniteSet(1 .. Len(sent))
    BY <1>1, FS_Interval
  <2>2. S \in SUBSET (1 .. Len(sent))
    BY <1>1
  <2>. QED
    BY <2>1, <2>2, FS_Subset
<1>3. IsFiniteSet(T) /\ Cardinality(T) = Asked
  <2>1. 1 \in Int /\ Asked \in Int
    BY <1>1
  <2>2. IsFiniteSet(1 .. Asked) /\ Cardinality(1 .. Asked) = IF 1 > Asked THEN 0 ELSE Asked - 1 + 1
    BY <2>1, FS_Interval
  <2>. QED
    BY <1>1, <2>2
<1>4. /\ f \in [S -> T]
      /\ \A p, q \in S : f[p] = f[q] => p = q
  BY <1>1 DEF Counted, OneEach, IsHead
<1>5. Cardinality(S) \in Nat
  BY <1>2, FS_CardinalityType
<1>. HIDE DEF S, T, f
<1>6. ~(Cardinality(T) < Cardinality(S))
  BY <1>2, <1>3, <1>4, FS_PigeonHole
<1>7. Heads = Cardinality(S)
  BY Zenon DEF Heads, S
<1>8. Cardinality(S) <= Asked
  BY <1>1, <1>3, <1>5, <1>6
<1>. QED
  BY <1>7, <1>8 DEF OneReplyPerRequest

\* A client that counts the replies never finds one more than it has sent
\* requests, even once the connection is closed.
THEOREM NoReplyTooMany == MalformedCloses => (Spec => []OneReplyPerRequest)
<1>1. SUFFICES ASSUME MalformedCloses
               PROVE  Spec => []OneReplyPerRequest
  OBVIOUS
<1>2. Shape /\ InOrder /\ Said /\ ~Closed => Counted
  BY <1>1, OpenCounts DEF Closed
<1>3. Counted /\ Closed' /\ [Next]_vars => Counted'
  BY ClosedCounts DEF Closed
<1>4. Init => ~Closed
  BY DEF Init, Closed
<1>5. Shape /\ Counted => OneReplyPerRequest
  BY HeadsBound
<1>. QED
  BY <1>1, <1>2, <1>3, <1>4, <1>5, ShapeIsInvariant, RequestsInOrder, RepliesAreWhole, PTL DEF Spec
=============================================================================
