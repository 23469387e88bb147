-------------------------- MODULE RedBlackTreeLemmas --------------------------
(***************************************************************************)
(* Lemmas about the operators of RedBlackTree: links, rotations, colors,   *)
(* minimum() and successor(), find().                                      *)
(*                                                                         *)
(* A tree is laid (Laid) over a set of nodes S in an order pos of their    *)
(* addresses when the links of the nodes are a binary tree in that order:  *)
(* under[n] is the set of the nodes below n.  A rotation keeps the order,  *)
(* a removal keeps it for the other nodes, a new leaf gets a position of   *)
(* its own.  The tree is even (Even) when h[n] black nodes are on every    *)
(* path below n, and Reds says where red nodes hang; the node that a fixup *)
(* has still to repair is exempt.                                          *)
(***************************************************************************)
EXTENDS MCRedBlackTree, SequenceTheorems, FiniteSetTheorems, WellFoundedInduction, TLAPS

-----------------------------------------------------------------------------
(* Naturals and sequences.                                                 *)

\* A set of naturals has a least element.  (The induction theorems of the
\* library cannot be instantiated by the provers; this one needs no operator.)
LEMMA LeastNat ==
  ASSUME NEW T \in SUBSET Nat, T # {}
  PROVE  \E m \in T : \A n \in T : m <= n
<1>1. IsWellFoundedOn(OpToRel(<, Nat), Nat)
  BY NatLessThanWellFounded
<1>2. \E i \in T : \A j \in T : <<j, i>> \notin OpToRel(<, Nat)
  BY <1>1, WFMin
<1>3. \A i, j \in Nat : i < j => <<i, j>> \in OpToRel(<, Nat)
  BY DEF OpToRel
<1>4. PICK R : /\ \E i \in T : \A j \in T : <<j, i>> \notin R
               /\ \A i, j \in Nat : i < j => <<i, j>> \in R
  BY <1>2, <1>3, Zenon
<1>5. PICK m \in T : \A j \in T : <<j, m>> \notin R
  BY <1>4
<1>6. \A j \in T : ~(j < m)
  BY <1>4, <1>5
<1>. QED
  BY <1>6

\* Induction over the naturals, for a set.
LEMMA InductionOverNat ==
  ASSUME NEW T, 0 \in T, \A n \in Nat : n \in T => n + 1 \in T
  PROVE  Nat \subseteq T
<1>1. SUFFICES ASSUME Nat \ T # {}
               PROVE  FALSE
  OBVIOUS
<1>2. PICK m \in Nat \ T : \A n \in Nat \ T : m <= n
  BY <1>1, LeastNat
<1>3. m - 1 \in Nat /\ m - 1 \in T
  BY <1>2
<1>. QED
  BY <1>3

\* The elements of a stretch of a sequence.
LEMMA Stretch ==
  ASSUME NEW S, NEW s \in Seq(S), NEW a \in Nat, NEW b \in Nat, a <= b, b <= Len(s)
  PROVE  /\ SubSeq(s, a + 1, b) \in Seq(S) /\ Len(SubSeq(s, a + 1, b)) = b - a
         /\ \A i \in 1 .. b - a : SubSeq(s, a + 1, b)[i] = s[a + i]
<1>. DEFINE l == Len(s)
<1>1. l \in Nat /\ a + 1 \in 1 .. l + 1 /\ b \in 0 .. l
  OBVIOUS
<1>2. /\ SubSeq(s, a + 1, b) \in Seq(S)
      /\ Len(SubSeq(s, a + 1, b)) = IF a + 1 <= b THEN b - (a + 1) + 1 ELSE 0
      /\ \A i \in 1 .. b - (a + 1) + 1 : SubSeq(s, a + 1, b)[i] = s[(a + 1) + i - 1]
  BY <1>1, SubSeqProperties
<1>3. b - (a + 1) + 1 = b - a /\ (IF a + 1 <= b THEN b - (a + 1) + 1 ELSE 0) = b - a
  OBVIOUS
<1>4. \A i \in 1 .. b - a : (a + 1) + i - 1 = a + i
  OBVIOUS
<1>. DEFINE p == SubSeq(s, a + 1, b)
<1>5. /\ p \in Seq(S) /\ Len(p) = b - a
      /\ \A i \in 1 .. b - a : p[i] = s[(a + 1) + i - 1]
  BY <1>2, <1>3, Zenon
<1>. HIDE DEF p
<1>6. \A i \in 1 .. b - a : p[i] = s[a + i]
  BY <1>4, <1>5
<1>. QED
  BY <1>5, <1>6 DEF p

-----------------------------------------------------------------------------
(* Links.                                                                  *)

\* A tree as TypeOK has it.
TreeType == [root : Ref, child : [Side -> [Node -> Ref]], p : [Ref -> Ref], color : [Ref -> Color]]

-----------------------------------------------------------------------------
(* What relinking does, field by field.                                    *)

\* The two sides.
LEMMA Sides ==
  /\ Side = {"left", "right"} /\ "left" # "right"
  /\ \A s \in Side : /\ Other(s) \in Side /\ Other(s) # s /\ Other(Other(s)) = s
                     /\ \A o \in Side : o = s \/ o = Other(s)
BY DEF Side, Other

\* SideOf() is a side.
LEMMA SideOfType == ASSUME NEW t, NEW n PROVE SideOf(t, n) \in Side
BY DEF SideOf, Side

\* _M_nil is not one of the nodes.
LEMMA NilIsNoNode == Nil \notin Node /\ Nil \in Ref /\ Node \subseteq Ref
BY NilAssumption DEF Ref

\* What an assignment to color changes.
LEMMA PaintIs ==
  ASSUME NEW t \in TreeType, NEW n \in Ref, NEW c \in Color
  PROVE  /\ Paint(t, n, c) \in TreeType
         /\ Paint(t, n, c).root = t.root /\ Paint(t, n, c).child = t.child /\ Paint(t, n, c).p = t.p
         /\ \A k \in Ref : Paint(t, n, c).color[k] = IF k = n THEN c ELSE t.color[k]
BY DEF Paint, TreeType

\* What hanging v in the place of n changes: one link.
LEMMA HangIs ==
  ASSUME NEW t \in TreeType, NEW n \in Node, NEW v \in Ref
  PROVE  /\ Hang(t, n, v) \in TreeType
         /\ Hang(t, n, v).p = t.p /\ Hang(t, n, v).color = t.color
         /\ Hang(t, n, v).root = IF t.p[n] = Nil THEN v ELSE t.root
         /\ t.p[n] # Nil => Hang(t, n, v).child[SideOf(t, n)][t.p[n]] = v
         /\ \A s \in Side : \A k \in Node :
              ~(t.p[n] # Nil /\ k = t.p[n] /\ s = SideOf(t, n)) =>
                Hang(t, n, v).child[s][k] = t.child[s][k]
<1>1. CASE t.p[n] = Nil
  BY <1>1, NilIsNoNode DEF Hang, TreeType
<1>2. CASE t.p[n] # Nil
  <2>. DEFINE s == SideOf(t, n)
              q == t.p[n]
              h == [t EXCEPT !.child[s][q] = v]
  <2>1. s \in Side /\ q \in Node
    BY <1>2, SideOfType, NilIsNoNode DEF TreeType, Ref
  <2>2. Hang(t, n, v) = h
    BY <1>2 DEF Hang
  <2>. HIDE DEF s, q
  <2>3. h \in TreeType
    BY <2>1, Zenon DEF TreeType
  <2>4. h.p = t.p /\ h.color = t.color /\ h.root = t.root
    BY DEF TreeType
  <2>5. \A s2 \in Side, k \in Node : h.child[s2][k] = IF k = q /\ s2 = s THEN v ELSE t.child[s2][k]
    BY <2>1 DEF TreeType
  <2>6. h.child[s][q] = v /\ \A a \in Side : \A k \in Node : ~(k = q /\ a = s) => h.child[a][k] = t.child[a][k]
    BY <2>1, <2>5
  <2>. HIDE DEF h
  <2>. QED
    BY <1>2, <2>2, <2>3, <2>4, <2>6 DEF q, s
<1>. QED
  BY <1>1, <1>2

\* r is t with c in the place of n.
Spliced(t, r, n, c, q, v) ==
  /\ r \in TreeType
  /\ r.color = t.color
  /\ r.root = IF q = Nil THEN c ELSE t.root
  /\ \A k \in Ref : r.p[k] = IF k = c THEN q ELSE t.p[k]
  /\ q # Nil => r.child[v][q] = c
  /\ \A b \in Side : \A k \in Node : ~(q # Nil /\ k = q /\ b = v) => r.child[b][k] = t.child[b][k]

\* transplant() sets that link and the parent of v.
LEMMA TransplantIs ==
  ASSUME NEW t \in TreeType, NEW n \in Node, NEW v \in Ref
  PROVE  Spliced(t, Transplant(t, n, v), n, v, t.p[n], SideOf(t, n))
<1>. DEFINE h == Hang(t, n, v)
<1>1. Transplant(t, n, v) = [h EXCEPT !.p[v] = t.p[n]]
  BY DEF Transplant
<1>2. h \in TreeType /\ t.p[n] \in Ref
  BY HangIs, NilIsNoNode DEF TreeType
<1>3. h.p = t.p
  BY HangIs
<1>. HIDE DEF h
<1>4. /\ [h EXCEPT !.p[v] = t.p[n]] \in TreeType
      /\ [h EXCEPT !.p[v] = t.p[n]].color = h.color
      /\ [h EXCEPT !.p[v] = t.p[n]].root = h.root
      /\ [h EXCEPT !.p[v] = t.p[n]].child = h.child
      /\ \A k \in Ref : [h EXCEPT !.p[v] = t.p[n]].p[k] = IF k = v THEN t.p[n] ELSE t.p[k]
  BY <1>2, <1>3, Zenon DEF TreeType
<1>. QED
  BY <1>1, <1>4, HangIs DEF h, Spliced

\* r is t after the rotation of n to the side s: m, its child on the other side o,
\* takes its place on the side v of q.
Rotated(t, r, s, o, n, m, inner, q, v) ==
  /\ r \in TreeType
  /\ r.color = t.color
  /\ r.root = IF q = Nil THEN m ELSE t.root
  /\ r.p[m] = q /\ r.p[n] = m /\ (inner # Nil => r.p[inner] = n)
  /\ \A k \in Ref : k \notin {m, n} /\ (k # inner \/ k = Nil) => r.p[k] = t.p[k]
  /\ r.child[o][n] = inner /\ r.child[s][m] = n
  /\ q # Nil /\ <<v, q>> \notin {<<o, n>>, <<s, m>>} => r.child[v][q] = m
  /\ \A a \in Side : \A k \in Node :
       <<a, k>> \notin {<<o, n>>, <<s, m>>} /\ ~(q # Nil /\ k = q /\ a = v) =>
         r.child[a][k] = t.child[a][k]

\* What a rotation changes.
LEMMA RotateIs ==
  ASSUME NEW t \in TreeType, NEW s \in Side, NEW n \in Node, t.child[Other(s)][n] \in Node,
         t.child[Other(s)][n] # n, t.child[s][t.child[Other(s)][n]] \notin {n, t.child[Other(s)][n]}
  PROVE  LET o == Other(s)
             m == t.child[o][n]
         IN Rotated(t, Rotate(t, s, n), s, o, n, m, t.child[s][m], t.p[n], SideOf(t, n))
<1>. DEFINE o == Other(s)
            m == t.child[o][n]
            inner == t.child[s][m]
            q == t.p[n]
            v == SideOf(t, n)
            h == Hang(t, n, m)
            l == Relink(t, s, n, m, inner)
            f == [k \in Ref |-> CASE k = m -> t.p[n]
                                  [] k = n -> m
                                  [] k = inner /\ k # Nil -> n
                                  [] OTHER -> l.p[k]]
            r == [l EXCEPT !.p = f]
<1>1. inner \notin {m, n} /\ o \in Side /\ o # s /\ m \in Node /\ m # n /\ m \in Ref /\ n \in Ref /\ inner \in Ref /\ q \in Ref
      /\ v \in Side /\ (q # Nil => q \in Node)
  BY Sides, NilIsNoNode, SideOfType, SMTT(30) DEF TreeType, Ref
<1>2. Rotate(t, s, n) = r
  BY Zenon DEF Rotate
<1>. HIDE DEF l
<1>3. /\ h \in TreeType /\ h.p = t.p /\ h.color = t.color
      /\ h.root = IF q = Nil THEN m ELSE t.root
      /\ q # Nil => h.child[v][q] = m
      /\ \A a \in Side : \A k \in Node :
           ~(q # Nil /\ k = q /\ a = v) => h.child[a][k] = t.child[a][k]
  <2>. HIDE DEF m
  <2>. QED
    BY <1>1, HangIs
<1>links. l = [h EXCEPT !.child[o][n] = inner, !.child[s][m] = n]
  BY Zenon DEF Relink, l
<1>. HIDE DEF h, o, m, inner, q, v
<1>4. /\ l \in TreeType /\ l.p = t.p /\ l.color = t.color /\ l.root = h.root
      /\ l.child[o][n] = inner /\ l.child[s][m] = n
      /\ \A a \in Side : \A k \in Node :
           ~(a = o /\ k = n) /\ ~(a = s /\ k = m) => l.child[a][k] = h.child[a][k]
  BY <1>links, <1>1, <1>3, Zenon DEF TreeType
<1>5. /\ f \in [Ref -> Ref]
      /\ f[m] = q /\ f[n] = m /\ (inner # Nil => f[inner] = n)
      /\ \A k \in Ref : k \notin {m, n} /\ (k # inner \/ k = Nil) => f[k] = t.p[k]
  <2>1. l.p = t.p /\ t.p \in [Ref -> Ref]
    BY <1>4 DEF TreeType
  <2>2. \A k \in Ref : /\ k = m => f[k] = q
                       /\ k # m /\ k = n => f[k] = m
                       /\ k \notin {m, n} /\ k = inner /\ k # Nil => f[k] = n
                       /\ k \notin {m, n} /\ ~(k = inner /\ k # Nil) => f[k] = t.p[k]
    <3>1. ASSUME NEW k \in Ref
          PROVE  f[k] = CASE k = m -> q [] k = n -> m [] k = inner /\ k # Nil -> n [] OTHER -> t.p[k]
      BY <2>1, Zenon DEF q
    <3>. HIDE DEF f
    <3>2. ASSUME NEW k \in Ref, k = m PROVE f[k] = q
      BY <3>1, <3>2, <1>1
    <3>3. ASSUME NEW k \in Ref, k # m, k = n PROVE f[k] = m
      BY <3>1, <3>3, <1>1
    <3>4. ASSUME NEW k \in Ref, k \notin {m, n}, k = inner, k # Nil PROVE f[k] = n
      BY <3>1, <3>4, <1>1
    <3>5. ASSUME NEW k \in Ref, k \notin {m, n}, ~(k = inner /\ k # Nil) PROVE f[k] = t.p[k]
      BY <3>1, <3>5, <1>1, Zenon
    <3>. QED
      BY <3>2, <3>3, <3>4, <3>5
  <2>3. \A k \in Ref : f[k] \in Ref
    <3>1. \A k \in Ref : f[k] \in {q, m, n, t.p[k]} 
      BY <2>2
    <3>. QED
      BY <1>1, <2>1, <3>1
  <2>4. f \in [Ref -> Ref]
    BY <2>3
  <2>. QED
    BY <1>1, <2>2, <2>4
<1>. HIDE DEF f
<1>6. r \in TreeType /\ r.color = l.color /\ r.root = l.root /\ r.child = l.child /\ r.p = f
  BY <1>4, <1>5, Zenon DEF TreeType
<1>. HIDE DEF r
<1>7. /\ q # Nil /\ <<v, q>> \notin {<<o, n>>, <<s, m>>} => r.child[v][q] = m
      /\ \A a \in Side : \A k \in Node :
           <<a, k>> \notin {<<o, n>>, <<s, m>>} /\ ~(q # Nil /\ k = q /\ a = v) =>
             r.child[a][k] = t.child[a][k]
  BY <1>1, <1>3, <1>4, <1>6
<1>8. Rotated(t, r, s, o, n, m, inner, q, v)
  <2>1. r.color = t.color /\ r.root = IF q = Nil THEN m ELSE t.root
    BY <1>3, <1>4, <1>6, Zenon
  <2>2. r.child[o][n] = inner /\ r.child[s][m] = n
    BY <1>4, <1>6, Zenon
  <2>3. /\ r.p[m] = q /\ r.p[n] = m /\ (inner # Nil => r.p[inner] = n)
        /\ \A k \in Ref : k \notin {m, n} /\ (k # inner \/ k = Nil) => r.p[k] = t.p[k]
    BY <1>5, <1>6, Zenon
  <2>. QED
    BY <1>6, <1>7, <2>1, <2>2, <2>3, Zenon DEF Rotated
<1>. QED
  BY <1>2, <1>8, Zenon DEF o, m, inner, q, v

-----------------------------------------------------------------------------
(* What makes links a search tree.                                         *)

\* a is on side s of b, in an order in which every node has a position.
Apart(pos, s, a, b) == IF s = "left" THEN pos[a] < pos[b] ELSE pos[b] < pos[a]

\* A node and what is linked to it: under has the nodes below each, with itself.
Fits(t, S, under, pos, n) ==
  /\ under[n] = {n} \cup under[t.child["left"][n]] \cup under[t.child["right"][n]]
  /\ under[n] \subseteq S
  /\ \A s \in Side :
       /\ t.child[s][n] # Nil => t.child[s][n] \in S /\ t.p[t.child[s][n]] = n
       /\ \A k \in under[t.child[s][n]] : Apart(pos, s, k, n)
  /\ n # t.root => t.p[n] \in S /\ \E s \in Side : n = t.child[s][t.p[n]]

\* The nodes of S are a binary tree, in the order of their positions.
Laid(t, S, under, pos) ==
  /\ S \in SUBSET Node /\ pos \in [Node -> Int]
  /\ under \in [Ref -> SUBSET Node] /\ under[Nil] = {}
  /\ t.root = Nil => S = {}
  /\ t.root # Nil => t.root \in S /\ t.p[t.root] = Nil /\ under[t.root] = S
  /\ \A n \in S : Fits(t, S, under, pos, n)

\* The positions order the nodes, and the sides are opposite.
LEMMA ApartIs ==
  ASSUME NEW pos \in [Node -> Int], NEW s \in Side
  PROVE  /\ \A a, b \in Node : Apart(pos, Other(s), a, b) <=> Apart(pos, s, b, a)
         /\ \A a, b \in Node : Apart(pos, s, a, b) => ~Apart(pos, s, b, a) /\ a # b
         /\ \A a, b, c \in Node : Apart(pos, s, a, b) /\ Apart(pos, s, b, c) => Apart(pos, s, a, c)
<1>1. CASE s = "left"
  BY <1>1 DEF Apart, Other
<1>2. CASE s = "right"
  BY <1>2 DEF Apart, Other
<1>. QED
  BY <1>1, <1>2 DEF Side

\* The same, as seen from one side.
FitsFrom(t, S, under, pos, n, s, o) ==
  /\ under[n] = {n} \cup under[t.child[s][n]] \cup under[t.child[o][n]]
  /\ under[n] \subseteq S
  /\ t.child[s][n] # Nil => t.child[s][n] \in S /\ t.p[t.child[s][n]] = n
  /\ t.child[o][n] # Nil => t.child[o][n] \in S /\ t.p[t.child[o][n]] = n
  /\ \A k \in under[t.child[s][n]] : Apart(pos, s, k, n)
  /\ \A k \in under[t.child[o][n]] : Apart(pos, s, n, k)
  /\ n # t.root => t.p[n] \in S /\ (n = t.child[s][t.p[n]] \/ n = t.child[o][t.p[n]])

\* The two forms say the same.
LEMMA FitsIs ==
  ASSUME NEW t, NEW S, NEW under, NEW pos, NEW n, NEW s \in Side, NEW o \in Side, o = Other(s)
  PROVE  Fits(t, S, under, pos, n) <=> FitsFrom(t, S, under, pos, n, s, o)
<1>1. CASE s = "left"
  BY <1>1 DEF Fits, FitsFrom, Other, Side, Apart
<1>2. CASE s = "right"
  BY <1>2 DEF Fits, FitsFrom, Other, Side, Apart
<1>. QED
  BY <1>1, <1>2 DEF Side

\* What being laid means for a node, its children and its parent.
Tied(t, S, under, pos, s, o) ==
  /\ S \in SUBSET Node /\ Nil \notin S /\ Nil \in Ref /\ Node \subseteq Ref
  /\ pos \in [Node -> Int] /\ under \in [Ref -> SUBSET Node] /\ under[Nil] = {}
  /\ t.root \in S \cup {Nil} /\ (t.root = Nil <=> S = {})
  /\ t.root # Nil => t.p[t.root] = Nil /\ under[t.root] = S
  /\ \A n \in S : /\ FitsFrom(t, S, under, pos, n, s, o)
                  /\ n \in under[n]
                  /\ t.child[s][n] \in S \cup {Nil} /\ t.child[o][n] \in S \cup {Nil}
                  /\ n \notin under[t.child[s][n]] /\ n \notin under[t.child[o][n]]
                  /\ t.child[s][n] # n /\ t.child[o][n] # n
                  /\ under[t.child[s][n]] \cap under[t.child[o][n]] = {}
  /\ \A n \in S, b \in Side :
       t.child[b][n] # Nil => /\ t.child[b][n] \in S /\ t.p[t.child[b][n]] = n
                              /\ t.child[b][n] # t.root
                              /\ t.child[b][n] # t.child[Other(b)][n]

\* What is laid is tied, seen from either side.
LEMMA NodeIs ==
  ASSUME NEW t \in TreeType, NEW S, NEW under, NEW pos, Laid(t, S, under, pos),
         NEW s \in Side, NEW o \in Side, o = Other(s)
  PROVE  Tied(t, S, under, pos, s, o)
<1>1. S \in SUBSET Node /\ Nil \notin S /\ Nil \in Ref /\ Node \subseteq Ref
  BY NilIsNoNode DEF Laid
<1>2. /\ pos \in [Node -> Int] /\ under \in [Ref -> SUBSET Node] /\ under[Nil] = {}
      /\ t.root = Nil => S = {}
      /\ t.root # Nil => t.root \in S /\ t.p[t.root] = Nil /\ under[t.root] = S
      /\ \A n \in S : Fits(t, S, under, pos, n)
      /\ t.root \in Ref
  BY DEF Laid, TreeType
<1>3. \A n \in S : FitsFrom(t, S, under, pos, n, s, o)
  BY <1>2, FitsIs
<1>4. \A n \in S : n \in under[n]
  BY <1>3 DEF FitsFrom
<1>5. ASSUME NEW n \in S
      PROVE  /\ t.child[s][n] \in S \cup {Nil} /\ t.child[o][n] \in S \cup {Nil}
             /\ n \notin under[t.child[s][n]] /\ n \notin under[t.child[o][n]]
             /\ under[t.child[s][n]] \cap under[t.child[o][n]] = {}
  <2>1. FitsFrom(t, S, under, pos, n, s, o)
    BY <1>3
  <2>2. t.child[s][n] \in S \cup {Nil} /\ t.child[o][n] \in S \cup {Nil}
    BY <2>1 DEF FitsFrom
  <2>3. under[t.child[s][n]] \subseteq Node /\ under[t.child[o][n]] \subseteq Node /\ n \in Node
    BY <1>1, <1>2, <2>2
  <2>4. \A k \in under[t.child[s][n]] : Apart(pos, s, k, n)
    BY <2>1 DEF FitsFrom
  <2>5. \A k \in under[t.child[o][n]] : Apart(pos, s, n, k)
    BY <2>1 DEF FitsFrom
  <2>. QED
    BY <1>2, <2>2, <2>3, <2>4, <2>5, ApartIs
<1>6. \A n \in S : t.child[s][n] # n /\ t.child[o][n] # n
  BY <1>4, <1>5
<1>7. \A b \in Side : b = s \/ b = o
  BY Sides
<1>8. \A n \in S, b \in Side :
        t.child[b][n] # Nil => /\ t.child[b][n] \in S /\ t.p[t.child[b][n]] = n
                               /\ t.child[b][n] # t.root
  BY <1>1, <1>2, <1>3, <1>7 DEF FitsFrom
<1>9. \A n \in S : t.child[s][n] # Nil => t.child[s][n] # t.child[o][n]
  BY <1>4, <1>5, Zenon
<1>10. \A n \in S, b \in Side : t.child[b][n] # Nil => t.child[b][n] # t.child[Other(b)][n]
  BY <1>7, <1>9, Sides
<1>. QED
  BY <1>1, <1>2, <1>3, <1>4, <1>5, <1>6, <1>8, <1>10 DEF Tied

\* SideOf() is where a node hangs.
LEMMA HangsAt ==
  ASSUME NEW t \in TreeType, NEW S, NEW under, NEW pos, Laid(t, S, under, pos), NEW n \in S,
         NEW v, v = SideOf(t, n), NEW q, q = t.p[n]
  PROVE  /\ v \in Side
         /\ n = t.root => q = Nil
         /\ n # t.root => /\ q \in S /\ q # Nil /\ q # n
                          /\ t.child[v][q] = n /\ t.child[Other(v)][q] # n
         /\ \A k \in S, b \in Side : t.child[b][k] = n => n # t.root /\ k = q /\ b = v
<1>. DEFINE s == "left"
            o == "right"
<1>1. s \in Side /\ o \in Side /\ o = Other(s) /\ s # o /\ s = Other(o) /\ \A b \in Side : b = s \/ b = o
  BY DEF Side, Other
<1>2. v \in Side
  BY SideOfType
<1>3. v = IF n = t.child[s][q] THEN s ELSE o
  BY DEF SideOf
<1>. HIDE DEF s, o
<1>4. /\ S \in SUBSET Node /\ Nil \notin S
      /\ t.root # Nil => t.p[t.root] = Nil
      /\ \A k \in S : FitsFrom(t, S, under, pos, k, s, o)
      /\ \A k \in S : t.child[s][k] # k /\ t.child[o][k] # k
      /\ \A k \in S, b \in Side :
           t.child[b][k] # Nil => /\ t.child[b][k] \in S /\ t.p[t.child[b][k]] = k
                                  /\ t.child[b][k] # t.root
                                  /\ t.child[b][k] # t.child[Other(b)][k]
  BY <1>1, NodeIs DEF Tied
<1>5. n = t.root => q = Nil
  BY <1>4
<1>6. n # t.root => q \in S /\ (n = t.child[s][q] \/ n = t.child[o][q])
  BY <1>4 DEF FitsFrom
<1>7. \A k \in S, b \in Side : t.child[b][k] = n => n # t.root /\ k = q
  BY <1>4
<1>8. ASSUME n # t.root
      PROVE  t.child[v][q] = n /\ t.child[Other(v)][q] # n /\ q # n
  BY <1>1, <1>3, <1>4, <1>6, <1>8
<1>9. \A b \in Side : q \in S /\ t.child[b][q] = n => b = v
  BY <1>1, <1>3, <1>4
<1>. QED
  BY <1>2, <1>4, <1>5, <1>6, <1>7, <1>8, <1>9

-----------------------------------------------------------------------------
(* Rotations.                                                              *)

\* What a rotation of n to the side s has below each node.
Turned(t, under, s, n) ==
  LET m == t.child[Other(s)][n]
  IN [k \in Ref |->
        IF k = m THEN under[n]
        ELSE IF k = n THEN {n} \cup under[t.child[s][n]] \cup under[t.child[s][m]]
        ELSE under[k]]

\* A rotation keeps the order.
LEMMA RotateLaid ==
  ASSUME NEW t \in TreeType, NEW S, NEW under, NEW pos, Laid(t, S, under, pos),
         NEW n \in S, NEW s \in Side, t.child[Other(s)][n] # Nil
  PROVE  /\ Rotate(t, s, n) \in TreeType
         /\ Laid(Rotate(t, s, n), S, Turned(t, under, s, n), pos)
<1>. DEFINE o == Other(s)
            m == t.child[o][n]
            a == t.child[s][n]
            inner == t.child[s][m]
            outer == t.child[o][m]
            q == t.p[n]
            v == SideOf(t, n)
            r == Rotate(t, s, n)
            w == Turned(t, under, s, n)
<1>1. /\ o \in Side /\ o # s /\ s = Other(o) /\ v \in Side /\ Other(v) \in Side
      /\ \A b \in Side : b = s \/ b = o
      /\ \A b \in Side : b = v \/ b = Other(v)
  BY Sides, SideOfType
<1>2. /\ S \in SUBSET Node /\ pos \in [Node -> Int] /\ under \in [Ref -> SUBSET Node] /\ under[Nil] = {}
      /\ Nil \notin S /\ Nil \in Ref /\ Node \subseteq Ref
      /\ \A k \in S : FitsFrom(t, S, under, pos, k, s, o)
      /\ t.root \in S /\ t.p[t.root] = Nil /\ under[t.root] = S
  BY <1>1, NilIsNoNode, FitsIs, SMTT(30) DEF Laid
<1>3. /\ m \in S /\ m # n /\ a # n /\ m # t.root /\ a # m /\ m \in Node /\ n \in Node /\ a \in Ref /\ inner \in Ref /\ outer \in Ref
      /\ n \notin under[m] /\ n \notin under[a] /\ n \in under[n] /\ m \in under[m]
      /\ under[a] \cap under[m] = {}
      /\ under[n] = {n} \cup under[a] \cup under[m]
      /\ m \notin under[inner] /\ m \notin under[outer] /\ inner # m /\ outer # m
      /\ under[inner] \cap under[outer] = {} /\ (inner # Nil => inner # outer)
      /\ under[m] = {m} \cup under[inner] \cup under[outer]
      /\ inner # n /\ outer # n /\ t.p[m] = n
      /\ inner \in S \cup {Nil} /\ outer \in S \cup {Nil} /\ a \in S \cup {Nil}
  <2>1. m \in S /\ t.p[m] = n /\ m # t.root /\ m # n /\ (a # Nil => a # m)
    BY <1>1, NodeIs DEF Tied
  <2>. HIDE DEF m, a
  <2>2. FitsFrom(t, S, under, pos, n, s, o) /\ FitsFrom(t, S, under, pos, m, s, o)
    BY <1>2, <2>1
  <2>3. /\ n \in under[n] /\ n \notin under[m] /\ n \notin under[a] /\ a # n /\ a \in S \cup {Nil}
        /\ under[a] \cap under[m] = {}
    BY <1>1, NodeIs DEF m, a, Tied
  <2>4. /\ m \in under[m] /\ inner # m /\ outer # m /\ m \notin under[inner] /\ m \notin under[outer]
        /\ inner \in S \cup {Nil} /\ outer \in S \cup {Nil} /\ under[inner] \cap under[outer] = {}
        /\ (inner # Nil => inner # outer)
    BY <1>1, <2>1, NodeIs, SMTT(30) DEF Tied
  <2>5. inner # n /\ outer # n
    <3>1. \A k \in S : k \in under[k]
      BY <1>1, NodeIs, SMTT(30) DEF Tied
    <3>. QED
      BY <1>2, <2>2, <2>3, <3>1, Zenon DEF FitsFrom
  <2>. QED
    BY <1>2, <2>1, <2>2, <2>3, <2>4, <2>5, Zenon DEF FitsFrom, m, a
<1>4. /\ q # Nil <=> n # t.root
      /\ n # t.root => q \in S /\ t.child[v][q] = n /\ t.child[Other(v)][q] # n
      /\ \A k \in S, b \in Side : t.child[b][k] = n => n # t.root /\ k = q /\ b = v
      /\ q # m /\ q # n
  <2>. HIDE DEF v, q
  <2>1. /\ n = t.root => q = Nil
        /\ n # t.root => q \in S /\ q # Nil /\ t.child[v][q] = n /\ t.child[Other(v)][q] # n /\ q # n
        /\ \A k \in S, b \in Side : t.child[b][k] = n => n # t.root /\ k = q /\ b = v
    BY HangsAt DEF v, q
  <2>2. inner # n /\ outer # n
    BY <1>3, ZenonT(40)
  <2>. QED
    BY <1>1, <1>2, <1>3, <2>1, <2>2, ZenonT(40)
<1>. HIDE DEF v
<1>5. /\ r \in TreeType
      /\ r.root = IF q = Nil THEN m ELSE t.root
      /\ r.p[m] = q /\ r.p[n] = m /\ (inner # Nil => r.p[inner] = n)
      /\ \A k \in Ref : k \notin {m, n} /\ (k # inner \/ k = Nil) => r.p[k] = t.p[k]
      /\ r.child[o][n] = inner /\ r.child[s][m] = n
      /\ q # Nil => r.child[v][q] = m
      /\ \A b \in Side : \A k \in Node :
           <<b, k>> \notin {<<o, n>>, <<s, m>>} /\ ~(q # Nil /\ k = q /\ b = v) =>
             r.child[b][k] = t.child[b][k]
  <2>. HIDE DEF v, q, r
  <2>1. Rotated(t, r, s, o, n, m, inner, q, v)
    <3>1. m \in Node /\ m # n /\ inner \notin {n, m}
      BY <1>3, ZenonT(40)
    <3>. QED
      BY <1>3, <3>1, RotateIs, ZenonT(40) DEF v, q, r
  <2>. QED
    BY <1>1, <1>3, <1>4, <2>1, ZenonT(40) DEF Rotated
<1>. HIDE DEF r, o, q
<1>6. /\ w \in [Ref -> SUBSET Node] /\ w[m] = under[n] /\ w[n] = {n} \cup under[a] \cup under[inner]
      /\ \A k \in Ref : k \notin {m, n} => w[k] = under[k]
  BY <1>2, <1>3, Zenon DEF Turned, o
<1>. HIDE DEF w, m, a, inner, outer
<1>7. /\ r.child[s][n] = a /\ r.child[o][m] = outer
  BY <1>1, <1>3, <1>4, <1>5 DEF a, outer
<1>8. \A k \in S : k \notin {n, m, q} => r.child[s][k] = t.child[s][k] /\ r.child[o][k] = t.child[o][k]
  BY <1>1, <1>2, <1>5
<1>9. r.root \in S /\ r.p[r.root] = Nil /\ w[r.root] = S /\ w[Nil] = {}
  <2>1. CASE q = Nil
    BY <2>1, <1>2, <1>3, <1>4, <1>5, <1>6, Zenon
  <2>2. CASE q # Nil
    <3>1. t.root \notin {n, m, inner}
      BY <2>2, <1>2, <1>3, <1>4, NodeIs, <1>1, Zenon DEF Tied, inner
    <3>. QED
      BY <2>2, <3>1, <1>2, <1>3, <1>4, <1>5, <1>6
  <2>. QED
    BY <2>1, <2>2
<1>10. \A k \in S, b \in Side : t.child[b][k] = m => k = n /\ b = o
  <2>1. \A k \in S, b \in Side :
          t.child[b][k] # Nil => t.p[t.child[b][k]] = k /\ t.child[b][k] # t.child[Other(b)][k]
    BY <1>1, <1>2, NodeIs DEF o, Tied
  <2>2. t.child[o][n] = m
    BY DEF m
  <2>. QED
    BY <1>1, <1>2, <1>3, <2>1, <2>2 DEF o
<1>11. ASSUME NEW k \in S, k # r.root
       PROVE  r.p[k] \in S /\ (k = r.child[s][r.p[k]] \/ k = r.child[o][r.p[k]])
  <2>1. CASE k = m
    BY <1>1, <1>3, <1>4, <1>5, <1>11, <2>1
  <2>2. CASE k = n
    BY <1>1, <1>3, <1>4, <1>5, <1>11, <2>2
  <2>3. CASE k = inner
    BY <1>1, <1>2, <1>3, <1>4, <1>5, <1>11, <2>3
  <2>4. CASE k \notin {m, n, inner}
    <3>1. r.p[k] = t.p[k] /\ k # t.root
      BY <1>2, <1>4, <1>5, <1>11, <2>4
    <3>2. t.p[k] \in S /\ (k = t.child[s][t.p[k]] \/ k = t.child[o][t.p[k]])
      BY <1>2, <3>1 DEF FitsFrom
    <3>3. ASSUME NEW b \in Side, k = t.child[b][t.p[k]]
          PROVE  r.child[b][t.p[k]] = k
      <4>1. <<b, t.p[k]>> \notin {<<o, n>>, <<s, m>>}
        BY <2>4, <3>3 DEF m, inner
      <4>2. ~(q # Nil /\ t.p[k] = q /\ b = v)
        BY <1>4, <2>4, <3>3
      <4>. QED
        BY <1>2, <1>5, <3>2, <3>3, <4>1, <4>2
    <3>. QED
      BY <1>1, <3>1, <3>2, <3>3
  <2>. QED
    BY <2>1, <2>2, <2>3, <2>4
<1>12. FitsFrom(r, S, w, pos, n, s, o)
  <2>1. w[a] = under[a] /\ w[inner] = under[inner]
    BY <1>2, <1>3, <1>6
  <2>2. FitsFrom(t, S, under, pos, n, s, o)
    BY <1>2
  <2>3. /\ a # Nil => a \in S /\ r.p[a] = n
        /\ inner # Nil => inner \in S /\ r.p[inner] = n
    <3>1. a # inner \/ a = Nil
      BY <1>2, <1>3, <1>1, NodeIs DEF Tied
    <3>. QED
      BY <1>1, <1>2, <1>3, <1>5, <2>2, <3>1 DEF FitsFrom, a
  <2>4. \A k \in under[a] : Apart(pos, s, k, n)
    BY <2>2 DEF FitsFrom, a
  <2>5. \A k \in under[m] : Apart(pos, s, n, k)
    BY <2>2 DEF FitsFrom, m
  <2>6. w[n] \subseteq S
    BY <1>2, <1>3, <1>6, <2>2 DEF FitsFrom
  <2>. QED
    BY <1>3, <1>5, <1>6, <1>7, <1>11, <2>1, <2>3, <2>4, <2>5, <2>6 DEF FitsFrom
<1>13. FitsFrom(r, S, w, pos, m, s, o)
  <2>1. w[outer] = under[outer]
    BY <1>2, <1>3, <1>6
  <2>2. FitsFrom(t, S, under, pos, n, s, o) /\ FitsFrom(t, S, under, pos, m, s, o)
    BY <1>2, <1>3, SMTT(30)
  <2>3. outer # Nil => outer \in S /\ r.p[outer] = m
    <3>1. outer # Nil => outer \in S /\ t.p[outer] = m
      BY <2>2, Zenon DEF FitsFrom, outer
    <3>2. outer # Nil => outer \in Ref /\ outer \notin {m, n} /\ outer # inner
      BY <1>3, Zenon
    <3>3. \A k \in Ref : k \notin {m, n} /\ (k # inner \/ k = Nil) => r.p[k] = t.p[k]
      BY <1>5, Zenon
    <3>. QED
      BY <3>1, <3>2, <3>3, Zenon
  <2>4. \A k \in under[outer] : Apart(pos, s, m, k)
    BY <2>2 DEF FitsFrom, outer
  <2>5. \A k \in w[n] : Apart(pos, s, k, m)
    <3>1. \A k \in under[inner] : Apart(pos, s, k, m)
      BY <2>2, SMTT(30) DEF FitsFrom, inner
    <3>2. Apart(pos, s, n, m) /\ \A k \in under[a] : Apart(pos, s, k, n)
      BY <1>3, <2>2, Zenon DEF FitsFrom, m, a
    <3>3. \A k \in under[a] : k \in Node
      BY <1>2, <1>3
    <3>4. \A k \in under[a] : Apart(pos, s, k, m)
      BY <1>2, <1>3, <3>2, <3>3, ApartIs
    <3>. QED
      BY <1>6, <3>1, <3>2, <3>4
  <2>6. under[n] \subseteq S
    BY <2>2 DEF FitsFrom
  <2>. QED
    BY <1>3, <1>5, <1>6, <1>7, <1>11, <2>1, <2>3, <2>4, <2>5, <2>6 DEF FitsFrom
<1>14. ASSUME q # Nil
       PROVE  FitsFrom(r, S, w, pos, q, s, o)
  <2>1. q \in S /\ FitsFrom(t, S, under, pos, q, s, o)
    BY <1>2, <1>4, <1>14
  <2>2. \A b \in Side : r.child[b][q] = IF b = v THEN m ELSE t.child[b][q]
    BY <1>1, <1>2, <1>4, <1>5, <2>1
  <2>3. t.child[v][q] = n /\ w[m] = under[n] /\ r.p[m] = q /\ w[q] = under[q]
    BY <1>2, <1>3, <1>4, <1>5, <1>6, <1>14
  <2>4. \A b \in Side : b # v /\ t.child[b][q] # Nil =>
          /\ t.child[b][q] \notin {n, m, inner} /\ t.child[b][q] \in S
          /\ w[t.child[b][q]] = under[t.child[b][q]] /\ r.p[t.child[b][q]] = q
    <3>1. \A b \in Side : t.child[b][q] # Nil => t.p[t.child[b][q]] = q /\ t.child[b][q] \in S
      BY <1>1, <2>1 DEF FitsFrom
    <3>2. inner # Nil => t.p[inner] = m
      BY <1>1, <1>2, <1>3 DEF FitsFrom, inner
    <3>3. ASSUME NEW b \in Side, b # v, t.child[b][q] # Nil
          PROVE  t.child[b][q] \notin {n, m, inner} /\ t.child[b][q] \in S
      BY <1>3, <1>4, <2>1, <3>1, <3>2, <3>3
    <3>. QED
      BY <1>2, <1>5, <1>6, <3>1, <3>3
  <2>5. \A b \in Side : t.child[b][q] = Nil => w[t.child[b][q]] = under[t.child[b][q]]
    BY <1>9, <1>2, Zenon
  <2>6. \A b \in Side : w[r.child[b][q]] = under[t.child[b][q]]
    BY <2>2, <2>3, <2>4, <2>5
  <2>7. \A b \in Side : r.child[b][q] # Nil => r.child[b][q] \in S /\ r.p[r.child[b][q]] = q
    BY <1>3, <2>2, <2>3, <2>4
  <2>. QED
    BY <1>1, <1>11, <2>1, <2>3, <2>6, <2>7 DEF FitsFrom
<1>15. ASSUME NEW k \in S, k \notin {n, m, q}
       PROVE  FitsFrom(r, S, w, pos, k, s, o)
  <2>1. FitsFrom(t, S, under, pos, k, s, o)
    BY <1>2
  <2>2. \A b \in Side : r.child[b][k] = t.child[b][k]
    BY <1>1, <1>8, <1>15
  <2>3. \A b \in Side : t.child[b][k] # Nil => t.child[b][k] \in S /\ t.p[t.child[b][k]] = k
    BY <1>1, <2>1 DEF FitsFrom
  <2>4. \A b \in Side : t.child[b][k] # Nil => t.child[b][k] \notin {n, m, inner}
    <3>1. inner # Nil => t.p[inner] = m
      BY <1>1, <1>2, <1>3, ZenonT(60) DEF FitsFrom, inner
    <3>. QED
      BY <1>3, <1>4, <1>10, <1>15, <2>3, <3>1
  <2>5. \A b \in Side : w[t.child[b][k]] = under[t.child[b][k]]
    BY <1>2, <1>9, <1>6, <2>3, <2>4, Zenon
  <2>6. \A b \in Side : t.child[b][k] # Nil => r.p[t.child[b][k]] = k
    BY <1>2, <1>5, <2>3, <2>4
  <2>7. w[k] = under[k]
    BY <1>2, <1>6, <1>15
  <2>. QED
    BY <1>1, <1>11, <1>15, <2>1, <2>2, <2>3, <2>5, <2>6, <2>7 DEF FitsFrom
<1>16. \A k \in S : Fits(r, S, w, pos, k)
  <2>1. \A k \in S : FitsFrom(r, S, w, pos, k, s, o)
    BY <1>2, <1>4, <1>12, <1>13, <1>14, <1>15
  <2>2. o = Other(s)
    BY DEF o
  <2>. QED
    BY <1>1, <2>1, <2>2, FitsIs
<1>. QED
  BY <1>2, <1>5, <1>6, <1>9, <1>16 DEF Laid, r, w

\* The order and the colors are two things.
LEMMA SameLaid ==
  ASSUME NEW t, NEW r, r.root = t.root, r.child = t.child, r.p = t.p,
         NEW S, NEW under, NEW pos, Laid(t, S, under, pos)
  PROVE  Laid(r, S, under, pos)
BY DEF Laid, Fits

-----------------------------------------------------------------------------
(* A new leaf.                                                             *)

\* r is t with the leaf n on the side s of m, or as the root.
Linking(t, r, n, m, s) ==
  /\ r \in TreeType
  /\ r.root = IF m = Nil THEN n ELSE t.root
  /\ \A b \in Side, k \in Node :
       r.child[b][k] = IF k = n THEN Nil ELSE IF k = m /\ b = s THEN n ELSE t.child[b][k]
  /\ \A k \in Ref : r.p[k] = IF k = n THEN m ELSE t.p[k]
  /\ \A k \in Ref : r.color[k] = IF k = n THEN "red" ELSE t.color[k]

\* Twice the positions, and one between.
Spread(pos, n, m, s) ==
  [k \in Node |-> IF k # n THEN 2 * pos[k]
                  ELSE IF m = Nil THEN 0
                  ELSE IF s = "left" THEN 2 * pos[m] - 1
                  ELSE 2 * pos[m] + 1]

\* The new node is beside m, the others keep their order.
LEMMA SpreadIs ==
  ASSUME NEW pos \in [Node -> Int], NEW n \in Node, NEW m \in Node \cup {Nil}, m # n, NEW s \in Side
  PROVE  /\ Spread(pos, n, m, s) \in [Node -> Int]
         /\ \A d \in Side : \A j, k \in Node \ {n} : Apart(Spread(pos, n, m, s), d, j, k) <=> Apart(pos, d, j, k)
         /\ \A d \in Side : \A k \in Node \ {n, m} :
              m # Nil => /\ Apart(pos, d, m, k) => Apart(Spread(pos, n, m, s), d, n, k)
                         /\ Apart(pos, d, k, m) => Apart(Spread(pos, n, m, s), d, k, n)
         /\ m # Nil => Apart(Spread(pos, n, m, s), s, n, m)
<1>. DEFINE w == Spread(pos, n, m, s)
<1>1. /\ w \in [Node -> Int]
      /\ \A k \in Node \ {n} : w[k] = 2 * pos[k]
      /\ m # Nil /\ s = "left" => w[n] = 2 * pos[m] - 1
      /\ m # Nil /\ s = "right" => w[n] = 2 * pos[m] + 1
  BY Sides, NilIsNoNode DEF Spread
<1>. HIDE DEF w
<1>2. \A d \in Side : \A j, k \in Node \ {n} : Apart(w, d, j, k) <=> Apart(pos, d, j, k)
  BY <1>1 DEF Apart
<1>3. s = "left" \/ s = "right"
  BY DEF Side
<1>4. \A d \in Side : \A k \in Node \ {n, m} :
        m # Nil => /\ Apart(pos, d, m, k) => Apart(w, d, n, k)
                   /\ Apart(pos, d, k, m) => Apart(w, d, k, n)
  BY <1>1, <1>3 DEF Apart
<1>5. m # Nil => Apart(w, s, n, m)
  BY <1>1, <1>3 DEF Apart
<1>. QED
  BY <1>1, <1>2, <1>4, <1>5 DEF w

\* What is below each node with the new one.
Joined1(under, n, m) ==
  [k \in Ref |-> IF k = n THEN {n} ELSE IF m \in under[k] THEN under[k] \cup {n} ELSE under[k]]

\* A new leaf keeps the order.
LEMMA LinkLaid ==
  ASSUME NEW t \in TreeType, NEW S, NEW under, NEW pos, Laid(t, S, under, pos),
         NEW n \in Node \ S, NEW m, NEW s \in Side, NEW r, Linking(t, r, n, m, s),
         (m = Nil /\ t.root = Nil) \/ (m \in S /\ t.child[s][m] = Nil)
  PROVE  Laid(r, S \cup {n}, Joined1(under, n, m), Spread(pos, n, m, s))
<1>. DEFINE o == Other(s)
            w == Joined1(under, n, m)
            at == Spread(pos, n, m, s)
            T == S \cup {n}
<1>1. o \in Side /\ o # s /\ \A b \in Side : b = s \/ b = o
  BY Sides
<1>2. Tied(t, S, under, pos, s, o)
  BY <1>1, NodeIs
<1>3. n # Nil /\ n # m /\ m \in Node \cup {Nil} /\ n \in Ref
  <2>1. S \in SUBSET Node
    BY <1>2 DEF Tied
  <2>. QED
    BY <2>1, NilIsNoNode
<1>4. /\ at \in [Node -> Int]
      /\ \A j, k \in S : Apart(at, s, j, k) <=> Apart(pos, s, j, k)
      /\ \A k \in S \ {m} : m # Nil => /\ Apart(pos, s, m, k) => Apart(at, s, n, k)
                                       /\ Apart(pos, s, k, m) => Apart(at, s, k, n)
      /\ m # Nil => Apart(at, s, n, m)
  <2>. HIDE DEF at
  <2>1. S \in SUBSET Node /\ n \notin S /\ pos \in [Node -> Int] /\ n \in Node
    BY <1>2 DEF Tied
  <2>. QED
    BY <1>3, <2>1, SpreadIs, Zenon DEF at
<1>5. /\ w \in [Ref -> SUBSET Node] /\ w[n] = {n}
      /\ \A k \in S \cup {Nil} : w[k] = IF m \in under[k] THEN under[k] \cup {n} ELSE under[k]
      /\ w[Nil] = {}
  <2>1. S \in SUBSET Node /\ n \notin S /\ n \in Node /\ under \in [Ref -> SUBSET Node] /\ under[Nil] = {} /\ Node \subseteq Ref /\ Nil \in Ref
    BY <1>2 DEF Tied
  <2>. QED
    BY <1>3, <2>1, Zenon DEF Joined1
<1>. HIDE DEF o, w, at
<1>6. /\ r.child[s][n] = Nil /\ r.child[o][n] = Nil /\ r.p[n] = m
      /\ \A k \in S : /\ r.p[k] = t.p[k]
                      /\ r.child[o][k] = t.child[o][k]
                      /\ k # m => r.child[s][k] = t.child[s][k]
      /\ m # Nil => r.child[s][m] = n
  BY <1>1, <1>2, <1>3 DEF Linking, Tied
<1>7. r.root = (IF m = Nil THEN n ELSE t.root) /\ r \in TreeType
  BY DEF Linking
<1>8. r.root \in T /\ r.p[r.root] = Nil /\ w[r.root] = T
  <2>0. /\ Nil \notin S /\ (t.root = Nil <=> S = {}) /\ t.root \in S \cup {Nil}
        /\ t.root # Nil => t.p[t.root] = Nil /\ under[t.root] = S
    BY <1>2 DEF Tied
  <2>1. CASE m = Nil
    BY <2>0, <1>5, <1>6, <1>7, <2>1
  <2>2. CASE m # Nil
    <3>1. m \in S /\ t.root \in S /\ r.root = t.root
      BY <2>0, <2>2, <1>7
    <3>. QED
      BY <2>0, <1>5, <1>6, <2>2, <3>1, Zenon
  <2>. QED
    BY <2>1, <2>2
<1>80. ASSUME NEW k \in S, k # r.root
       PROVE  r.p[k] \in T /\ (k = r.child[s][r.p[k]] \/ k = r.child[o][r.p[k]])
  <2>1. k # t.root /\ m # Nil /\ t.child[s][m] = Nil /\ k # Nil
    BY <1>2, <1>7, <1>80 DEF Tied
  <2>2. FitsFrom(t, S, under, pos, k, s, o)
    BY <1>2 DEF Tied
  <2>3. t.p[k] \in S /\ (k = t.child[s][t.p[k]] \/ k = t.child[o][t.p[k]])
    BY <2>1, <2>2 DEF FitsFrom
  <2>. QED
    BY <1>6, <2>1, <2>3
<1>9. FitsFrom(r, T, w, at, n, s, o)
  <2>1. n # r.root => m \in S /\ r.child[s][m] = n
    BY <1>6, <1>7
  <2>. QED
    BY <1>5, <1>6, <2>1 DEF FitsFrom
<1>10. ASSUME NEW k \in S, k = m
       PROVE  FitsFrom(r, T, w, at, k, s, o)
  <2>1. FitsFrom(t, S, under, pos, k, s, o)
    BY <1>2 DEF Tied
  <2>2. k # r.root => r.p[k] \in T /\ (k = r.child[s][r.p[k]] \/ k = r.child[o][r.p[k]])
    BY <1>80
  <2>3. t.child[s][k] = Nil /\ r.child[s][k] = n /\ r.child[o][k] = t.child[o][k] /\ m # Nil
    BY <1>2, <1>6, <1>10 DEF Tied
  <2>4. w[t.child[o][k]] = under[t.child[o][k]] /\ w[k] = under[k] \cup {n}
    BY <1>2, <1>5, <1>10, Zenon DEF Tied
  <2>5. \A j \in under[t.child[o][k]] : Apart(at, s, k, j)
    <3>1. \A j \in under[t.child[o][k]] : j \in S /\ Apart(pos, s, k, j)
      BY <2>1 DEF FitsFrom
    <3>. QED
      BY <1>4, <3>1
  <2>6. /\ under[k] = {k} \cup under[t.child[o][k]] /\ under[k] \subseteq S
        /\ t.child[o][k] # Nil => t.child[o][k] \in S /\ r.p[t.child[o][k]] = k
    BY <1>2, <1>6, <2>1, <2>3 DEF FitsFrom, Tied
  <2>. QED
    BY <1>3, <1>4, <1>5, <1>6, <1>10, <2>2, <2>3, <2>4, <2>5, <2>6 DEF FitsFrom
<1>11. ASSUME NEW k \in S, k # m
       PROVE  FitsFrom(r, T, w, at, k, s, o)
  <2>1. FitsFrom(t, S, under, pos, k, s, o)
    BY <1>2 DEF Tied
  <2>2. k # r.root => r.p[k] \in T /\ (k = r.child[s][r.p[k]] \/ k = r.child[o][r.p[k]])
    BY <1>80
  <2>3. r.child[s][k] = t.child[s][k] /\ r.child[o][k] = t.child[o][k]
    BY <1>6, <1>11
  <2>. DEFINE c == t.child[s][k]
              d == t.child[o][k]
  <2>4. /\ under[k] = {k} \cup under[c] \cup under[d] /\ under[k] \subseteq S
        /\ c # Nil => c \in S /\ t.p[c] = k
        /\ d # Nil => d \in S /\ t.p[d] = k
        /\ \A j \in under[c] : Apart(pos, s, j, k)
        /\ \A j \in under[d] : Apart(pos, s, k, j)
    BY <2>1 DEF FitsFrom
  <2>. HIDE DEF c, d
  <2>5. /\ w[k] = IF m \in under[k] THEN under[k] \cup {n} ELSE under[k]
        /\ w[c] = IF m \in under[c] THEN under[c] \cup {n} ELSE under[c]
        /\ w[d] = IF m \in under[d] THEN under[d] \cup {n} ELSE under[d]
    BY <1>5, <2>4, Zenon
  <2>6. w[k] = {k} \cup w[c] \cup w[d] /\ w[k] \subseteq T
    BY <1>11, <2>4, <2>5
  <2>7. \A j \in w[c] : Apart(at, s, j, k)
    <3>1. \A j \in under[c] : j \in S /\ Apart(at, s, j, k)
      BY <1>4, <2>4
    <3>2. m \in under[c] => Apart(at, s, n, k)
      BY <1>2, <1>4, <1>11, <2>4 DEF Tied
    <3>. QED
      BY <2>5, <3>1, <3>2
  <2>8. \A j \in w[d] : Apart(at, s, k, j)
    <3>1. \A j \in under[d] : j \in S /\ Apart(at, s, k, j)
      BY <1>4, <2>4
    <3>2. m \in under[d] => Apart(at, s, k, n)
      BY <1>2, <1>4, <1>11, <2>4 DEF Tied
    <3>. QED
      BY <2>5, <3>1, <3>2
  <2>9. /\ c # Nil => c \in T /\ r.p[c] = k
        /\ d # Nil => d \in T /\ r.p[d] = k
    BY <1>6, <2>4
  <2>. QED
    BY <2>2, <2>3, <2>6, <2>7, <2>8, <2>9 DEF FitsFrom, c, d
<1>12. \A k \in T : Fits(r, T, w, at, k)
  <2>1. \A k \in T : FitsFrom(r, T, w, at, k, s, o)
    BY <1>9, <1>10, <1>11
  <2>2. o = Other(s)
    BY DEF o
  <2>. HIDE DEF T
  <2>. QED
    BY <1>1, <2>1, <2>2, FitsIs
<1>13. T \in SUBSET Node
  BY <1>2 DEF Tied
<1>. HIDE DEF T
<1>14. Laid(r, T, w, at)
  BY <1>2, <1>4, <1>5, <1>8, <1>12, <1>13 DEF Laid, Tied
<1>. QED
  BY <1>14 DEF T, w, at

-----------------------------------------------------------------------------
(* A node with at most one child goes.                                     *)

\* What is below each node without n.
Without(under, n) == [k \in Ref |-> under[k] \ {n}]

\* Without a node that had at most one child, the order is the same.
LEMMA SpliceLaid ==
  ASSUME NEW t \in TreeType, NEW S, NEW under, NEW pos, Laid(t, S, under, pos), NEW n \in S,
         NEW s \in Side, t.child[s][n] = Nil,
         NEW c, c = t.child[Other(s)][n],
         NEW q, q = t.p[n], NEW v, v = SideOf(t, n),
         NEW r, Spliced(t, r, n, c, q, v)
  PROVE  Laid(r, S \ {n}, Without(under, n), pos)
<1>. DEFINE o == Other(v)
            w == Without(under, n)
            T == S \ {n}
<1>1. v \in Side /\ o \in Side /\ o # v /\ \A b \in Side : b = v \/ b = o
  BY Sides, SideOfType
<1>2. Tied(t, S, under, pos, v, o)
  BY <1>1, NodeIs
<1>3. /\ S \in SUBSET Node /\ Nil \notin S /\ Nil \in Ref /\ Node \subseteq Ref
      /\ pos \in [Node -> Int] /\ under \in [Ref -> SUBSET Node] /\ under[Nil] = {}
      /\ t.root \in S /\ t.p[t.root] = Nil /\ under[t.root] = S
      /\ \A k \in S : k \in under[k]
      /\ \A k \in S, b \in Side : t.child[b][k] # Nil => t.child[b][k] \in S /\ t.p[t.child[b][k]] = k
  BY <1>2, SMTT(30) DEF Tied
<1>4. /\ c \in S \cup {Nil} /\ c # n /\ n \notin under[c] /\ under[n] = {n} \cup under[c]
      /\ c # Nil => t.p[c] = n
  <2>. DEFINE e == Other(s)
  <2>1. e \in Side /\ e = Other(s) /\ c = t.child[e][n]
    BY Sides
  <2>. HIDE DEF e
  <2>2. Tied(t, S, under, pos, s, e)
    BY <2>1, NodeIs
  <2>3. FitsFrom(t, S, under, pos, n, s, e)
    BY <2>2 DEF Tied
  <2>. QED
    BY <2>1, <2>2, <2>3, <1>3 DEF FitsFrom, Tied
<1>5. /\ n = t.root => q = Nil
      /\ n # t.root => /\ q \in S /\ q # Nil /\ q # n /\ t.child[v][q] = n
      /\ \A k \in S, b \in Side : t.child[b][k] = n => n # t.root /\ k = q /\ b = v
  BY HangsAt
<1>. HIDE DEF o
<1>6. w \in [Ref -> SUBSET Node] /\ \A k \in Ref : w[k] = under[k] \ {n}
  BY <1>3 DEF Without
<1>. HIDE DEF w
<1>7. r.root = (IF n = t.root THEN c ELSE t.root) /\ r \in TreeType
  BY <1>3, <1>5 DEF Spliced
<1>8. /\ \A k \in S : k # c => r.p[k] = t.p[k]
      /\ c # Nil => r.p[c] = q
      /\ \A k \in T, b \in Side : r.child[b][k] = IF t.child[b][k] = n THEN c ELSE t.child[b][k]
  <2>1. /\ \A k \in S : k # c => r.p[k] = t.p[k]
        /\ c # Nil => r.p[c] = q
    BY <1>3, <1>4 DEF Spliced
  <2>2. ASSUME NEW k \in T, NEW b \in Side
        PROVE  r.child[b][k] = IF t.child[b][k] = n THEN c ELSE t.child[b][k]
    <3>1. CASE t.child[b][k] = n
      BY <1>3, <1>5, <3>1 DEF Spliced
    <3>2. CASE t.child[b][k] # n
      <4>1. ~(q # Nil /\ k = q /\ b = v)
        BY <1>3, <1>5, <3>2
      <4>. QED
        BY <1>3, <3>2, <4>1 DEF Spliced
    <3>. QED
      BY <3>1, <3>2
  <2>. QED
    BY <2>1, <2>2
<1>9. /\ r.root = Nil => T = {}
      /\ r.root # Nil => r.root \in T /\ r.p[r.root] = Nil /\ w[r.root] = T
  <2>1. CASE n = t.root
    <3>1. r.root = c /\ q = Nil
      BY <1>5, <1>7, <2>1, Zenon
    <3>2. S = {n} \cup under[c] /\ n \notin under[c]
      BY <1>3, <1>4, <2>1, Zenon
    <3>3. c = Nil => T = {}
      BY <1>3, <3>2
    <3>4. c # Nil => c \in T /\ r.p[c] = Nil /\ w[c] = T
      <4>1. c # Nil => c \in Ref /\ c \in T
        BY <1>3, <1>4, Zenon
      <4>2. c # Nil => w[c] = under[c] \ {n} /\ under[c] \ {n} = T
        BY <1>6, <3>2, <4>1
      <4>. QED
        BY <1>8, <3>1, <4>1, <4>2, Zenon
    <3>. QED
      BY <3>1, <3>3, <3>4, Zenon
  <2>2. CASE n # t.root
    <3>1. r.root = t.root /\ t.root # Nil /\ t.root \in T /\ t.root \in Ref
      BY <1>3, <1>7, <2>2, Zenon
    <3>2. t.root # c
      BY <1>3, <1>4, Zenon
    <3>3. w[t.root] = T
      BY <1>3, <1>6, <3>1, Zenon
    <3>4. r.p[t.root] = Nil
      BY <1>3, <1>8, <3>1, <3>2, Zenon
    <3>. QED
      BY <3>1, <3>3, <3>4, Zenon
  <2>. QED
    BY <2>1, <2>2, SMTT(30)
<1>10. ASSUME NEW k \in T, k # r.root
       PROVE  r.p[k] \in T /\ (k = r.child[v][r.p[k]] \/ k = r.child[o][r.p[k]])
  <2>1. CASE k = c
    <3>1. n # t.root
      BY <1>7, <1>10, <2>1
    <3>2. r.p[k] = q
      BY <1>3, <1>8, <1>10, <2>1, Zenon
    <3>3. q \in S /\ q # n /\ t.child[v][q] = n
      BY <1>5, <3>1, Zenon
    <3>4. q \in T
      BY <3>3, Zenon
    <3>5. r.child[v][q] = c
      BY <1>1, <1>8, <3>3, <3>4, Zenon
    <3>. QED
      BY <2>1, <3>2, <3>4, <3>5, Zenon
  <2>2. CASE k # c
    <3>1. k # t.root
      BY <1>7, <1>10
    <3>2. FitsFrom(t, S, under, pos, k, v, o)
      BY <1>2 DEF Tied
    <3>3. r.p[k] = t.p[k] /\ t.p[k] \in S /\ (k = t.child[v][t.p[k]] \/ k = t.child[o][t.p[k]])
      BY <1>8, <2>2, <3>1, <3>2 DEF FitsFrom
    <3>4. t.p[k] # n
      <4>1. \A b \in Side : t.child[b][n] \in {c, Nil}
        BY Sides
      <4>. QED
        BY <1>1, <1>3, <2>2, <3>3, <4>1
    <3>. QED
      BY <1>1, <1>8, <3>3, <3>4
  <2>. QED
    BY <2>1, <2>2, SMTT(30)
<1>11. ASSUME NEW k \in T
       PROVE  FitsFrom(r, T, w, pos, k, v, o)
  <2>1. FitsFrom(t, S, under, pos, k, v, o)
    BY <1>2 DEF Tied
  <2>2. \A b \in Side : w[r.child[b][k]] = under[t.child[b][k]] \ {n}
    <3>1. ASSUME NEW b \in Side
          PROVE  w[r.child[b][k]] = under[t.child[b][k]] \ {n}
      <4>1. t.child[b][k] \in Ref
        BY <1>3
      <4>. QED
        BY <1>3, <1>4, <1>6, <1>8, <4>1
    <3>. QED
      BY <3>1
  <2>3. \A b \in Side : r.child[b][k] # Nil => r.child[b][k] \in T /\ r.p[r.child[b][k]] = k
    BY <1>3, <1>4, <1>5, <1>8
  <2>4. w[k] = under[k] \ {n}
    BY <1>3, <1>6
  <2>. QED
    BY <1>1, <1>10, <2>1, <2>2, <2>3, <2>4 DEF FitsFrom
<1>12. \A k \in T : Fits(r, T, w, pos, k)
  <2>2. o = Other(v)
    BY DEF o
  <2>. HIDE DEF T
  <2>. QED
    BY <1>1, <1>11, <2>2, FitsIs
<1>13. T \in SUBSET Node /\ w[Nil] = {}
  BY <1>3, <1>6
<1>. HIDE DEF T
<1>14. Laid(r, T, w, pos)
  BY <1>3, <1>6, <1>9, <1>12, <1>13 DEF Laid
<1>. QED
  BY <1>14 DEF T, w

-----------------------------------------------------------------------------
(* A node takes the place of another one.                                  *)

\* r is t with m, which was not in it, instead of n.
Renamed(t, r, S, n, m) ==
  /\ r \in TreeType
  /\ r.root = IF n = t.root THEN m ELSE t.root
  /\ \A b \in Side : r.child[b][m] = t.child[b][n]
  /\ \A k \in S \ {n}, b \in Side : r.child[b][k] = IF t.child[b][k] = n THEN m ELSE t.child[b][k]
  /\ r.p[m] = t.p[n]
  /\ \A k \in (S \ {n}) \cup {Nil} : r.p[k] = IF t.p[k] = n THEN m ELSE t.p[k]
  /\ \A k \in Ref : r.color[k] = IF k = m THEN t.color[n] ELSE t.color[k]

\* A set with m instead of n.
Instead(A, n, m) == IF n \in A THEN (A \ {n}) \cup {m} ELSE A

\* What is below each node with m instead of n.
UnderInstead(under, n, m) ==
  [k \in Ref |-> IF k = m THEN Instead(under[n], n, m) ELSE Instead(under[k], n, m)]

\* The node that takes over the links takes over the position.
LEMMA RenameLaid ==
  ASSUME NEW t \in TreeType, NEW S, NEW under, NEW pos, Laid(t, S, under, pos), NEW n \in S,
         NEW m \in Node \ S, NEW r, Renamed(t, r, S, n, m)
  PROVE  Laid(r, (S \ {n}) \cup {m}, UnderInstead(under, n, m), [pos EXCEPT ![m] = pos[n]])
<1>. DEFINE v == "left"
            o == "right"
            w == UnderInstead(under, n, m)
            at == [pos EXCEPT ![m] = pos[n]]
            T == (S \ {n}) \cup {m}
<1>1. v \in Side /\ o \in Side /\ o # v /\ o = Other(v) /\ \A b \in Side : b = v \/ b = o
  BY DEF Side, Other
<1>. HIDE DEF v, o
<1>2. Tied(t, S, under, pos, v, o)
  BY <1>1, NodeIs
<1>3. /\ S \in SUBSET Node /\ Nil \notin S /\ Nil \in Ref /\ Node \subseteq Ref
      /\ pos \in [Node -> Int] /\ under \in [Ref -> SUBSET Node] /\ under[Nil] = {}
      /\ t.root \in S /\ t.p[t.root] = Nil /\ under[t.root] = S
      /\ \A k \in S : k \in under[k] /\ under[k] \subseteq S
      /\ \A k \in S, b \in Side : t.child[b][k] # Nil => t.child[b][k] \in S /\ t.p[t.child[b][k]] = k
      /\ \A k \in S, b \in Side : t.child[b][k] # k /\ k \notin under[t.child[b][k]]
  BY <1>1, <1>2 DEF Tied, FitsFrom
<1>4. m # Nil /\ m # n /\ m \notin S /\ m \in Node /\ n # Nil
  <2>1. m \in Node /\ m \notin S /\ n \in S /\ Nil \notin S
    BY <1>3
  <2>. QED
    BY <2>1, NilIsNoNode
<1>5. /\ w \in [Ref -> SUBSET Node]
      /\ w[m] = Instead(under[n], n, m)
      /\ \A k \in S \cup {Nil} : w[k] = Instead(under[k], n, m)
  <2>1. \A k \in Ref : Instead(under[k], n, m) \in SUBSET Node
    BY <1>3, <1>4 DEF Instead
  <2>2. n \in Ref /\ m \in Ref /\ S \subseteq Ref /\ Nil \in Ref /\ Nil # m /\ m \notin S
    BY <1>3, <1>4
  <2>. QED
    BY <2>1, <2>2 DEF UnderInstead
<1>6. /\ at \in [Node -> Int] /\ at[m] = pos[n]
      /\ \A k \in S : at[k] = pos[k]
  BY <1>3, <1>4
<1>. HIDE DEF w, at
<1>7. /\ r \in TreeType
      /\ r.root = IF n = t.root THEN m ELSE t.root
      /\ \A b \in Side : r.child[b][m] = t.child[b][n]
      /\ \A k \in S \ {n}, b \in Side : r.child[b][k] = IF t.child[b][k] = n THEN m ELSE t.child[b][k]
      /\ r.p[m] = t.p[n]
      /\ \A k \in S \ {n} : r.p[k] = IF t.p[k] = n THEN m ELSE t.p[k]
  BY DEF Renamed
<1>8. r.root \in T /\ r.p[r.root] = Nil /\ w[r.root] = T
  <2>1. Instead(S, n, m) = T
    BY DEF Instead
  <2>2. CASE n = t.root
    BY <1>3, <1>4, <1>5, <1>7, <2>1, <2>2
  <2>3. CASE n # t.root
    <3>1. r.root = t.root /\ t.root \in S \ {n} /\ w[t.root] = T
      BY <1>3, <1>5, <1>7, <2>1, <2>3
    <3>2. r.p[t.root] = Nil
      BY <1>3, <1>4, <1>7, <2>3
    <3>. QED
      BY <3>1, <3>2
  <2>. QED
    BY <2>2, <2>3
<1>. DEFINE old(k) == IF k = m THEN n ELSE k
<1>9. ASSUME NEW k \in T
      PROVE  /\ old(k) \in S /\ at[k] = pos[old(k)] /\ k \in Node
             /\ w[k] = Instead(under[old(k)], n, m)
             /\ \A b \in Side : r.child[b][k] = IF t.child[b][old(k)] = n THEN m ELSE t.child[b][old(k)]
             /\ r.p[k] = IF t.p[old(k)] = n THEN m ELSE t.p[old(k)]
             /\ k = r.root <=> old(k) = t.root
  <2>1. CASE k = m
    <3>1. \A b \in Side : t.child[b][n] # n
      BY <1>3
    <3>2. t.p[n] # n
      BY <1>1, <1>2, <1>3 DEF Tied, FitsFrom
    <3>. QED
      BY <1>3, <1>4, <1>5, <1>6, <1>7, <2>1, <3>1, <3>2
  <2>2. CASE k # m
    BY <1>3, <1>4, <1>5, <1>6, <1>7, <2>2
  <2>. QED
    BY <2>1, <2>2
<1>10. ASSUME NEW k \in T
       PROVE  FitsFrom(r, T, w, at, k, v, o)
  <2>. DEFINE j == old(k)
  <2>0. /\ j \in S /\ at[k] = pos[j] /\ k \in Node /\ (k = m => j = n) /\ (k # m => j = k)
        /\ w[k] = Instead(under[j], n, m)
        /\ \A b \in Side : r.child[b][k] = IF t.child[b][j] = n THEN m ELSE t.child[b][j]
        /\ r.p[k] = IF t.p[j] = n THEN m ELSE t.p[j]
        /\ k = r.root <=> j = t.root
    BY <1>9
  <2>. HIDE DEF j
  <2>1. FitsFrom(t, S, under, pos, j, v, o)
    BY <1>2, <2>0 DEF Tied
  <2>2. \A b \in Side : w[r.child[b][k]] = Instead(under[t.child[b][j]], n, m)
    <3>1. ASSUME NEW b \in Side
          PROVE  w[r.child[b][k]] = Instead(under[t.child[b][j]], n, m)
      <4>1. t.child[b][j] \in S \cup {Nil}
        BY <1>3, <2>0
      <4>. QED
        BY <1>5, <2>0, <4>1
    <3>. QED
      BY <3>1
  <2>3. \A b \in Side : r.child[b][k] # Nil => r.child[b][k] \in T /\ r.p[r.child[b][k]] = k
    <3>1. ASSUME NEW b \in Side, r.child[b][k] # Nil
          PROVE  r.child[b][k] \in T /\ r.p[r.child[b][k]] = k
      <4>. DEFINE c == t.child[b][j]
      <4>1. c # Nil /\ c \in S /\ t.p[c] = j /\ r.child[b][k] = IF c = n THEN m ELSE c
        BY <1>3, <2>0, <3>1
      <4>. HIDE DEF c
      <4>2. r.p[r.child[b][k]] = IF j = n THEN m ELSE j
        <5>1. CASE c = n
          <6>1. j # n
            BY <1>3, <4>1, <5>1 DEF c
          <6>. QED
            BY <1>7, <4>1, <5>1, <6>1
        <5>2. CASE c # n
          BY <1>7, <4>1, <5>2
        <5>. QED
          BY <5>1, <5>2
      <4>3. k = IF j = n THEN m ELSE j
        BY <2>0
      <4>. QED
        BY <4>1, <4>2, <4>3
    <3>. QED
      BY <3>1
  <2>4. k # r.root => r.p[k] \in T /\ (k = r.child[v][r.p[k]] \/ k = r.child[o][r.p[k]])
    <3>1. SUFFICES ASSUME k # r.root
                   PROVE  r.p[k] \in T /\ (k = r.child[v][r.p[k]] \/ k = r.child[o][r.p[k]])
      OBVIOUS
    <3>2. t.p[j] \in S /\ (j = t.child[v][t.p[j]] \/ j = t.child[o][t.p[j]])
      BY <2>0, <2>1, <3>1 DEF FitsFrom
    <3>3. \A b \in Side : j = t.child[b][t.p[j]] => r.child[b][r.p[k]] = k
      BY <1>7, <2>0, <3>2
    <3>. QED
      BY <1>1, <2>0, <3>2, <3>3
  <2>5. \A b \in Side : \A i \in Instead(under[t.child[b][j]], n, m) :
          at[i] = pos[old(i)] /\ old(i) \in under[t.child[b][j]]
    <3>1. \A b \in Side : under[t.child[b][j]] \subseteq S
      BY <1>3, <2>0
    <3>. QED
      BY <1>4, <1>6, <3>1 DEF Instead
  <2>6. /\ \A i \in w[r.child[v][k]] : Apart(at, v, i, k)
        /\ \A i \in w[r.child[o][k]] : Apart(at, v, k, i)
    <3>1. /\ \A i \in under[t.child[v][j]] : Apart(pos, v, i, j)
          /\ \A i \in under[t.child[o][j]] : Apart(pos, v, j, i)
      BY <2>1 DEF FitsFrom
    <3>. HIDE DEF old
    <3>. QED
      BY <1>1, <2>0, <2>2, <2>5, <3>1 DEF Apart
  <2>7. w[k] = {k} \cup w[r.child[v][k]] \cup w[r.child[o][k]] /\ w[k] \subseteq T
    <3>1. under[j] = {j} \cup under[t.child[v][j]] \cup under[t.child[o][j]] /\ under[j] \subseteq S
      BY <2>1 DEF FitsFrom
    <3>2. /\ w[k] = Instead(under[j], n, m)
          /\ w[r.child[v][k]] = Instead(under[t.child[v][j]], n, m)
          /\ w[r.child[o][k]] = Instead(under[t.child[o][j]], n, m)
      BY <1>1, <2>0, <2>2
    <3>3. n \notin under[t.child[v][n]] /\ n \notin under[t.child[o][n]]
      BY <1>1, <1>3
    <3>4. CASE j = n
      <4>1. k = m
        BY <2>0, <3>4
      <4>. QED
        BY <3>1, <3>2, <3>3, <3>4, <4>1 DEF Instead
    <3>5. CASE j # n
      <4>1. k = j
        BY <2>0, <3>5
      <4>. DEFINE A == under[j]
                  B == under[t.child[v][j]]
                  C == under[t.child[o][j]]
      <4>2. A = {j} \cup B \cup C /\ A \subseteq S
        BY <3>1
      <4>3. w[k] = Instead(A, n, m) /\ w[r.child[v][k]] = Instead(B, n, m) /\ w[r.child[o][k]] = Instead(C, n, m)
        BY <3>2
      <4>. HIDE DEF A, B, C
      <4>4. Instead(A, n, m) = {j} \cup Instead(B, n, m) \cup Instead(C, n, m) /\ Instead(A, n, m) \subseteq T
        BY <3>5, <4>2 DEF Instead
      <4>. QED
        BY <4>1, <4>3, <4>4
    <3>. QED
      BY <3>4, <3>5
  <2>. QED
    BY <1>1, <2>3, <2>4, <2>6, <2>7 DEF FitsFrom
<1>12. \A k \in T : Fits(r, T, w, at, k)
  <2>. HIDE DEF T
  <2>. QED
    BY <1>1, <1>10, FitsIs
<1>13. T \in SUBSET Node /\ w[Nil] = {}
  <2>1. Instead({}, n, m) = {}
    BY DEF Instead
  <2>2. T \in SUBSET Node
    BY <1>3, <1>4
  <2>3. w[Nil] = Instead(under[Nil], n, m) /\ under[Nil] = {}
    BY <1>3, <1>5, Zenon
  <2>. HIDE DEF T
  <2>. QED
    BY <2>1, <2>2, <2>3
<1>. HIDE DEF T
<1>14. Laid(r, T, w, at)
  BY <1>5, <1>6, <1>8, <1>12, <1>13, NilIsNoNode DEF Laid
<1>. QED
  BY <1>14 DEF T, w, at

\* Only the order of the positions matters.
LEMMA SameOrder ==
  ASSUME NEW t, NEW S, NEW under, NEW pos, Laid(t, S, under, pos), NEW at \in [Node -> Int],
         \A a, b \in S : pos[a] < pos[b] => at[a] < at[b]
  PROVE  Laid(t, S, under, at)
<1>1. ASSUME NEW n \in S
      PROVE  Fits(t, S, under, at, n)
  <2>1. Fits(t, S, under, pos, n)
    BY DEF Laid
  <2>2. \A s \in Side : under[t.child[s][n]] \subseteq S
    BY <2>1 DEF Fits, Side
  <2>3. \A s \in Side : \A k \in under[t.child[s][n]] : Apart(at, s, k, n)
    BY <2>1, <2>2 DEF Fits, Apart
  <2>. QED
    BY <2>1, <2>3 DEF Fits
<1>. QED
  BY <1>1 DEF Laid

-----------------------------------------------------------------------------
(* Heights and colors.                                                     *)

\* r is t, laid over S, after the rotation of n to the side s: its children are
\* a and m, and those of m inner and outer.
Swung(t, r, S, s, o, n, m, a, inner, outer) ==
  /\ r \in TreeType
  /\ {a, inner, outer} \subseteq S \cup {Nil} /\ n \in S /\ m \in S /\ n # m
  /\ m \notin {a, inner, outer} /\ n \notin {a, inner, outer}
  /\ a # Nil => a # inner /\ a # outer
  /\ inner # Nil => inner # outer
  /\ r.color = t.color
  /\ t.child[s][n] = a /\ t.child[o][n] = m /\ t.child[s][m] = inner /\ t.child[o][m] = outer
  /\ r.child[s][n] = a /\ r.child[o][n] = inner /\ r.child[s][m] = n /\ r.child[o][m] = outer
  /\ \A k \in S \ {n, m}, b \in Side : r.child[b][k] = IF t.child[b][k] = n THEN m ELSE t.child[b][k]
  /\ \A k \in S \ {n, m}, b \in Side : t.child[b][k] = Nil \/ t.child[b][k] \notin {m, a, inner, outer}
  /\ r.root = IF n = t.root THEN m ELSE t.root
  /\ t.root # m /\ t.root # inner /\ t.root # a /\ t.root # outer
  /\ t.p[m] = n /\ r.p[m] = t.p[n] /\ r.p[n] = m
  /\ inner # Nil => t.p[inner] = m /\ r.p[inner] = n
  /\ \A k \in (S \cup {Nil}) \ {n, m} : (k # inner \/ k = Nil) => r.p[k] = t.p[k]
  /\ \A k \in S \ {n, m} : k # t.root /\ t.p[k] = n => k = a
  /\ \A k \in S \ {n, m} : k # t.root /\ t.p[k] = m => k = inner \/ k = outer
  /\ \A k \in S : k # t.root => t.p[k] \in S
  /\ n # t.root => t.p[n] \notin {n, m}

\* A rotation, in these terms.
LEMMA RotateSwings ==
  ASSUME NEW t \in TreeType, NEW S, NEW under, NEW pos, Laid(t, S, under, pos),
         NEW n \in S, NEW s \in Side, NEW o, o = Other(s), NEW m, m = t.child[o][n], m # Nil,
         NEW a, a = t.child[s][n], NEW inner, inner = t.child[s][m], NEW outer, outer = t.child[o][m]
  PROVE  Swung(t, Rotate(t, s, n), S, s, o, n, m, a, inner, outer)
<1>. DEFINE r == Rotate(t, s, n)
            q == t.p[n]
            v == SideOf(t, n)
<1>1. o \in Side /\ o # s /\ s = Other(o) /\ \A b \in Side : b = s \/ b = o
  BY Sides
<1>2. Tied(t, S, under, pos, s, o)
  BY <1>1, NodeIs
<1>3. /\ S \in SUBSET Node /\ Nil \notin S /\ Nil \in Ref /\ Node \subseteq Ref
      /\ t.root \in S /\ t.p[t.root] = Nil
      /\ \A k \in S : k \in under[k] /\ k \notin under[t.child[s][k]] /\ k \notin under[t.child[o][k]]
      /\ \A k \in S : under[k] = {k} \cup under[t.child[s][k]] \cup under[t.child[o][k]]
      /\ \A k \in S : k # t.root => t.p[k] \in S /\ (k = t.child[s][t.p[k]] \/ k = t.child[o][t.p[k]])
      /\ \A k \in S : t.child[s][k] # k /\ t.child[o][k] # k
      /\ \A k \in S, b \in Side :
           t.child[b][k] # Nil => /\ t.child[b][k] \in S /\ t.p[t.child[b][k]] = k
                                  /\ t.child[b][k] # t.root
                                  /\ t.child[b][k] # t.child[Other(b)][k]
  BY <1>2 DEF Tied, FitsFrom
<1>a. S \in SUBSET Node /\ Nil \notin S /\ Nil \in Ref /\ Node \subseteq Ref
  BY <1>3, Zenon
<1>b. \A k \in S, b \in Side :
        t.child[b][k] # Nil => /\ t.child[b][k] \in S /\ t.p[t.child[b][k]] = k
                               /\ t.child[b][k] # t.root
                               /\ t.child[b][k] # t.child[Other(b)][k]
  BY <1>3, Zenon
<1>c. \A k \in S : k # t.root => t.p[k] \in S /\ (k = t.child[s][t.p[k]] \/ k = t.child[o][t.p[k]])
  BY <1>3, Zenon
<1>4. /\ m \in S /\ t.p[m] = n /\ m # n /\ m # t.root /\ m # a
      /\ a \in S \cup {Nil} /\ a # n /\ a # t.root /\ (a # Nil => t.p[a] = n)
  BY <1>1, <1>3, SMTT(30)
<1>5. /\ inner \in S \cup {Nil} /\ outer \in S \cup {Nil} /\ inner # m /\ outer # m
      /\ inner # t.root /\ outer # t.root /\ (inner # Nil => inner # outer)
      /\ inner # Nil => t.p[inner] = m
      /\ outer # Nil => t.p[outer] = m
  <2>1. inner # m /\ outer # m
    BY <1>1, <1>3, <1>4, Zenon
  <2>2. inner # Nil => inner \in S /\ inner # t.root /\ t.p[inner] = m /\ inner # outer
    BY <1>1, <1>b, <1>4, Zenon
  <2>3. outer # Nil => outer \in S /\ outer # t.root /\ t.p[outer] = m
    BY <1>1, <1>b, <1>4, Zenon
  <2>4. t.root # Nil
    BY <1>3, Zenon
  <2>. QED
    BY <2>1, <2>2, <2>3, <2>4, Zenon
<1>6. inner # n /\ outer # n
  <2>1. n \notin under[m] /\ under[m] = {m} \cup under[inner] \cup under[outer]
    BY <1>3, <1>4
  <2>. QED
    BY <1>3, <2>1, ZenonT(60)
<1>7. /\ v \in Side
      /\ n = t.root => q = Nil
      /\ n # t.root => /\ q \in S /\ q # Nil /\ q # n /\ t.child[v][q] = n
      /\ \A k \in S, b \in Side : t.child[b][k] = n => n # t.root /\ k = q /\ b = v
  BY HangsAt
<1>8. Rotated(t, r, s, o, n, m, inner, q, v)
  <2>1. m \in Node /\ m # n /\ inner \notin {n, m} /\ n \in Node
    BY <1>3, <1>4, <1>5, <1>6, Zenon
  <2>. QED
    BY <2>1, RotateIs, SMTT(30)
<1>. HIDE DEF r, v
<1>9. q # m
  BY <1>1, <1>5, <1>6, <1>7, Zenon
<1>10. /\ r \in TreeType
       /\ r.color = t.color
       /\ r.root = IF q = Nil THEN m ELSE t.root
       /\ r.p[m] = q /\ r.p[n] = m /\ (inner # Nil => r.p[inner] = n)
       /\ \A k \in Ref : k \notin {m, n} /\ (k # inner \/ k = Nil) => r.p[k] = t.p[k]
       /\ r.child[o][n] = inner /\ r.child[s][m] = n
       /\ q # Nil => r.child[v][q] = m
       /\ \A b \in Side : \A k \in Node :
            <<b, k>> \notin {<<o, n>>, <<s, m>>} /\ ~(q # Nil /\ k = q /\ b = v) =>
              r.child[b][k] = t.child[b][k]
  BY <1>3, <1>7, <1>8, <1>9, Zenon DEF Rotated
<1>11. r.child[s][n] = a /\ r.child[o][m] = outer
  <2>1. n \in Node /\ m \in Node /\ ~(q # Nil /\ n = q) /\ ~(q # Nil /\ m = q)
    BY <1>3, <1>4, <1>7, <1>9
  <2>. QED
    BY <1>1, <1>4, <1>10, <2>1, Zenon
<1>12. ASSUME NEW k \in S \ {n, m}, NEW b \in Side
       PROVE  r.child[b][k] = IF t.child[b][k] = n THEN m ELSE t.child[b][k]
  <2>1. k \in Node /\ <<b, k>> \notin {<<o, n>>, <<s, m>>}
    BY <1>3, SMTT(30)
  <2>2. CASE t.child[b][k] = n
    BY <1>7, <1>10, <2>2, Zenon
  <2>3. CASE t.child[b][k] # n
    <3>1. ~(q # Nil /\ k = q /\ b = v)
      BY <1>3, <1>7, <2>3, SMTT(30)
    <3>. QED
      BY <1>10, <2>1, <2>3, <3>1
  <2>. QED
    BY <2>2, <2>3
<1>13. ASSUME NEW k \in S \ {n, m}, NEW b \in Side
       PROVE  t.child[b][k] = Nil \/ t.child[b][k] \notin {m, a, inner, outer}
  <2>. DEFINE c == t.child[b][k]
  <2>1. c = Nil \/ t.p[c] = k
    BY <1>b, Zenon
  <2>. HIDE DEF c
  <2>2. ASSUME c # Nil, c \in {m, a, inner, outer} PROVE t.p[c] \in {n, m}
    BY <1>4, <1>5, <2>2, Zenon
  <2>. QED
    BY <2>1, <2>2, Zenon DEF c
<1>14. a # Nil => a # inner /\ a # outer
  BY <1>4, <1>5
<1>15. \A k \in S \ {n, m} : k # t.root /\ t.p[k] = n => k = a
  BY <1>c, ZenonT(30)
<1>16. \A k \in S \ {n, m} : k # t.root /\ t.p[k] = m => k = inner \/ k = outer
  BY <1>c, ZenonT(30)
<1>17. \A k \in (S \cup {Nil}) \ {n, m} : (k # inner \/ k = Nil) => r.p[k] = t.p[k]
  BY <1>a, <1>10, ZenonT(30)
<1>18. r.root = IF n = t.root THEN m ELSE t.root
  BY <1>3, <1>7, <1>10, Zenon
<1>19. /\ {a, inner, outer} \subseteq S \cup {Nil} /\ n \in S /\ m \in S /\ n # m
       /\ m \notin {a, inner, outer} /\ n \notin {a, inner, outer}
       /\ inner # Nil => inner # outer
       /\ t.child[s][n] = a /\ t.child[o][n] = m /\ t.child[s][m] = inner /\ t.child[o][m] = outer
       /\ r.child[s][n] = a /\ r.child[o][n] = inner /\ r.child[s][m] = n /\ r.child[o][m] = outer
       /\ t.root # m /\ t.root # inner /\ t.root # a /\ t.root # outer
       /\ t.p[m] = n /\ r.p[m] = t.p[n] /\ r.p[n] = m
       /\ inner # Nil => t.p[inner] = m /\ r.p[inner] = n
       /\ n # t.root => t.p[n] \notin {n, m}
       /\ r.color = t.color /\ r \in TreeType
  BY <1>4, <1>5, <1>6, <1>7, <1>9, <1>10, <1>11, Zenon
<1>20. \A k \in S : k # t.root => t.p[k] \in S
  BY <1>c, Zenon
<1>. QED
  BY <1>12, <1>13, <1>14, <1>15, <1>16, <1>17, <1>18, <1>19, <1>20, Zenon DEF Swung, r

-----------------------------------------------------------------------------
\* The black nodes on the way into c, the x of delete_fixup() counted twice.
Wt(t, X, c) == (IF t.color[c] = "red" THEN 0 ELSE 1) + (IF c \in X THEN 1 ELSE 0)

\* The weight of the paths that start at the child c of n.
Below(t, X, h, n, c) == IF c # Nil THEN Wt(t, X, c) + h[c]
                        ELSE IF Nil \in X /\ n = t.p[Nil] THEN 1 ELSE 0

\* h has the weight of the paths below each node: the same on both sides.
Even(t, S, X, h) ==
  /\ h \in [Node -> Nat]
  /\ \A n \in S, s \in Side : h[n] = Below(t, X, h, n, t.child[s][n])

\* A red node hangs under a black one; those of X count as black, those of Z are exempt.
Reds(t, S, X, Z) ==
  /\ t.color[Nil] = "black"
  /\ \A n \in S : t.color[n] = "red" /\ n \notin X \cup Z =>
       n # t.root /\ (t.color[t.p[n]] = "red" => t.p[n] \in X)

\* u is t with m in the color of n, which turns red.
Swapped(t, u, n, m) ==
  /\ u \in TreeType /\ u.root = t.root /\ u.child = t.child /\ u.p = t.p
  /\ u.color[m] = t.color[n] /\ u.color[n] = "red"
  /\ \A k \in Ref : k \notin {n, m} => u.color[k] = t.color[k]

\* A rotation that swaps the colors of a node and its red child keeps the heights.
LEMMA SwingEven ==
  ASSUME NEW t \in TreeType, NEW S, NEW under, NEW pos, Laid(t, S, under, pos),
         NEW n \in S, NEW s \in Side, NEW o, o = Other(s), NEW m, m = t.child[o][n], m # Nil,
         t.color[m] = "red", NEW X, n \notin X, m \notin X, NEW h, Even(t, S, X, h),
         Nil \in X => t.p[Nil] # m /\ (t.p[Nil] = n => t.child[s][n] = Nil),
         NEW u, Swapped(t, u, n, m)
  PROVE  Even(Rotate(u, s, n), S, X, h)
<1>. DEFINE r == Rotate(u, s, n)
            a == t.child[s][n]
            inner == t.child[s][m]
            outer == t.child[o][m]
<1>1. Swung(u, r, S, s, o, n, m, a, inner, outer)
  <2>1. Laid(u, S, under, pos) /\ u \in TreeType /\ u.child = t.child
    BY SameLaid DEF Swapped
  <2>. QED
    BY <2>1, RotateSwings
<1>. HIDE DEF r, a, inner, outer
<1>2. o \in Side /\ o # s /\ \A b \in Side : b = s \/ b = o
  BY Sides
<1>3. S \in SUBSET Node /\ Nil \notin S /\ Nil \in Ref /\ Node \subseteq Ref
  BY NilIsNoNode DEF Laid
<1>4. /\ u.child = t.child /\ u.p = t.p /\ u.color[m] = t.color[n] /\ u.color[n] = "red"
      /\ \A k \in Ref : k \notin {n, m} => u.color[k] = t.color[k]
  BY DEF Swapped
<1>5. /\ h \in [Node -> Nat]
      /\ \A k \in S, b \in Side : h[k] = Below(t, X, h, k, t.child[b][k])
  BY SMTT(30) DEF Even
<1>6. /\ r.child[s][n] = a /\ r.child[o][n] = inner /\ r.child[s][m] = n /\ r.child[o][m] = outer
      /\ t.child[s][n] = a /\ t.child[o][n] = m /\ t.child[s][m] = inner /\ t.child[o][m] = outer
      /\ {a, inner, outer} \subseteq S \cup {Nil} /\ m \in S /\ n # m
      /\ m \notin {a, inner, outer} /\ n \notin {a, inner, outer}
      /\ r.p[Nil] = t.p[Nil] /\ r.color = u.color
      /\ \A k \in S \ {n, m}, b \in Side : r.child[b][k] = IF t.child[b][k] = n THEN m ELSE t.child[b][k]
      /\ \A k \in S \ {n, m}, b \in Side : t.child[b][k] # m
  <2>1. \A k \in S \ {n, m}, b \in Side : t.child[b][k] # m
    BY <1>1, <1>3, <1>4 DEF Swung
  <2>2. r.p[Nil] = t.p[Nil]
    <3>1. Nil \in (S \cup {Nil}) \ {n, m}
      BY <1>1, <1>3, Zenon DEF Swung
    <3>2. \A k \in (S \cup {Nil}) \ {n, m} : (k # inner \/ k = Nil) => r.p[k] = u.p[k]
      BY <1>1, Zenon DEF Swung
    <3>. QED
      BY <1>4, <3>1, <3>2, Zenon
  <2>3. /\ u.child[s][n] = a /\ u.child[o][n] = m /\ u.child[s][m] = inner /\ u.child[o][m] = outer
        /\ \A k \in S \ {n, m}, b \in Side : r.child[b][k] = IF u.child[b][k] = n THEN m ELSE u.child[b][k]
    BY <1>1, Zenon DEF Swung
  <2>4. /\ r.child[s][n] = a /\ r.child[o][n] = inner /\ r.child[s][m] = n /\ r.child[o][m] = outer
        /\ {a, inner, outer} \subseteq S \cup {Nil} /\ m \in S /\ n # m
        /\ m \notin {a, inner, outer} /\ n \notin {a, inner, outer} /\ r.color = u.color
    BY <1>1, Zenon DEF Swung
  <2>5. u.child = t.child
    BY <1>4, Zenon
  <2>6. \A k \in S \ {n, m}, b \in Side : r.child[b][k] = IF t.child[b][k] = n THEN m ELSE t.child[b][k]
    BY <2>3, <2>5
  <2>7. t.child[s][n] = a /\ t.child[o][n] = m /\ t.child[s][m] = inner /\ t.child[o][m] = outer
    BY <2>3, <2>5, Zenon
  <2>. QED
    BY <2>1, <2>2, <2>4, <2>6, <2>7, Zenon
<1>7. \A k \in S \ {n, m} : Wt(r, X, k) = Wt(t, X, k)
  BY <1>3, <1>4, <1>6 DEF Wt
<1>8. /\ Wt(r, X, n) = 0 /\ Wt(t, X, m) = 0 /\ Wt(r, X, m) = Wt(t, X, n)
  BY <1>4, <1>6 DEF Wt
<1>9. h[n] = h[m] /\ h[n] = Below(t, X, h, n, a) /\ h[m] = Below(t, X, h, m, inner)
      /\ h[m] = Below(t, X, h, m, outer) /\ h[n] \in Nat
  <2>1. Below(t, X, h, n, m) = h[m] /\ h[m] \in Nat
    BY <1>3, <1>5, <1>6, <1>8 DEF Below
  <2>. QED
    BY <1>2, <1>3, <1>5, <1>6, <2>1
<1>10. h[n] = Below(r, X, h, n, a)
  <2>1. CASE a = Nil
    BY <1>6, <1>9, <2>1 DEF Below
  <2>2. CASE a # Nil
    BY <1>6, <1>7, <1>9, <2>2 DEF Below
  <2>. QED
    BY <2>1, <2>2
<1>11. h[n] = Below(r, X, h, n, inner)
  <2>1. CASE inner = Nil
    <3>1. h[m] = 0
      BY <1>9, <2>1, Zenon DEF Below
    <3>2. ~(Nil \in X /\ n = t.p[Nil])
      <4>1. SUFFICES ASSUME Nil \in X, n = t.p[Nil] PROVE FALSE
        BY SMTT(30)
      <4>2. Below(t, X, h, n, a) = 1
        BY <1>6, <4>1, Zenon DEF Below
      <4>3. h[n] = 0 /\ h[n] = 1
        BY <1>9, <3>1, <4>2, Zenon
      <4>. QED
        BY <4>3
    <3>. QED
      BY <1>6, <1>9, <2>1, <3>1, <3>2, Zenon DEF Below
  <2>2. CASE inner # Nil
    BY <1>6, <1>7, <1>9, <2>2, Zenon DEF Below
  <2>. QED
    BY <2>1, <2>2
<1>12. h[m] = Below(r, X, h, m, n)
  <2>1. n # Nil
    BY <1>3
  <2>. QED
    BY <1>8, <1>9, <2>1 DEF Below
<1>13. h[m] = Below(r, X, h, m, outer)
  <2>1. CASE outer = Nil
    BY <1>6, <1>9, <2>1, Zenon DEF Below
  <2>2. CASE outer # Nil
    BY <1>6, <1>7, <1>9, <2>2, Zenon DEF Below
  <2>. QED
    BY <2>1, <2>2
<1>14. ASSUME NEW k \in S \ {n, m}, NEW b \in Side
       PROVE  h[k] = Below(r, X, h, k, r.child[b][k])
  <2>. DEFINE c == t.child[b][k]
  <2>1. h[k] = Below(t, X, h, k, c) /\ r.child[b][k] = (IF c = n THEN m ELSE c) /\ c # m
    BY <1>5, <1>6
  <2>2. c \in S \cup {Nil}
    BY <1>3, NodeIs, <1>2, <1>14 DEF Tied
  <2>. HIDE DEF c
  <2>3. CASE c = n
    <3>1. n # Nil /\ m # Nil
      BY <1>3, <1>6
    <3>. QED
      BY <1>8, <1>9, <2>1, <2>3, <3>1, Zenon DEF Below
  <2>4. CASE c = Nil
    BY <1>3, <1>6, <2>1, <2>4 DEF Below
  <2>5. CASE c # n /\ c # Nil
    BY <1>6, <1>7, <2>1, <2>2, <2>5 DEF Below
  <2>. QED
    BY <2>3, <2>4, <2>5
<1>15. \A k \in S, b \in Side : h[k] = Below(r, X, h, k, r.child[b][k])
  BY <1>2, <1>6, <1>10, <1>11, <1>12, <1>13, <1>14, Zenon
<1>. QED
  BY <1>5, <1>15 DEF Even, r

\* ... and the rule of the red nodes, if the node was black and its other child counts as black.
LEMMA SwingReds ==
  ASSUME NEW t \in TreeType, NEW S, NEW under, NEW pos, Laid(t, S, under, pos),
         NEW n \in S, NEW s \in Side, NEW o, o = Other(s), NEW m, m = t.child[o][n], m # Nil,
         t.color[m] = "red", t.color[n] # "red", NEW X, n \notin X, m \notin X,
         NEW Z, m \notin Z, Reds(t, S, X, Z),
         t.color[t.child[s][n]] = "red" => t.child[s][n] \in X \cup Z,
         t.color[t.child[s][m]] = "red" => t.child[s][m] \notin Z,
         NEW u, Swapped(t, u, n, m)
  PROVE  Reds(Rotate(u, s, n), S, X, Z)
<1>. DEFINE r == Rotate(u, s, n)
            a == t.child[s][n]
            inner == t.child[s][m]
            outer == t.child[o][m]
<1>1. Swung(u, r, S, s, o, n, m, a, inner, outer)
  <2>1. Laid(u, S, under, pos) /\ u \in TreeType /\ u.child = t.child
    BY SameLaid DEF Swapped
  <2>. QED
    BY <2>1, RotateSwings
<1>2. t.color[a] = "red" => a \in X \cup Z
  OBVIOUS
<1>3. S \in SUBSET Node /\ Nil \notin S /\ Nil \in Ref /\ Node \subseteq Ref
  BY NilIsNoNode DEF Laid
<1>4. t.color[inner] = "red" => inner \notin Z
  OBVIOUS
<1>. HIDE DEF r, a, inner, outer
<1>5. /\ u.p = t.p /\ u.root = t.root /\ u.color[m] = t.color[n] /\ u.color[n] = "red"
      /\ \A k \in Ref : k \notin {n, m} => u.color[k] = t.color[k]
  BY SMTT(30) DEF Swapped
<1>6. /\ r.color = u.color /\ n # m /\ m \in S
      /\ r.root = IF n = t.root THEN m ELSE t.root
      /\ t.root # m /\ t.p[m] = n /\ r.p[n] = m
      /\ inner # Nil => t.p[inner] = m /\ r.p[inner] = n
      /\ \A k \in S \ {n, m} : k # inner => r.p[k] = t.p[k]
      /\ \A k \in S \ {n, m} : k # t.root /\ t.p[k] = n => k = a
      /\ \A k \in S : k # t.root => t.p[k] \in S
  <2>1. \A k \in S \ {n, m} : k # inner => r.p[k] = t.p[k]
    <3>1. \A k \in S \ {n, m} : k \in (S \cup {Nil}) \ {n, m}
      BY Zenon
    <3>. QED
      <4>1. \A k \in (S \cup {Nil}) \ {n, m} : (k # inner \/ k = Nil) => r.p[k] = u.p[k]
        BY <1>1, Zenon DEF Swung
      <4>. QED
        BY <1>5, <3>1, <4>1, Zenon
  <2>2. \A k \in S \ {n, m} : k # t.root /\ t.p[k] = n => k = a
    BY <1>1, <1>5, ZenonT(60) DEF Swung
  <2>. QED
    BY <1>1, <1>5, <2>1, <2>2, ZenonT(60) DEF Swung
<1>7. /\ t.color[Nil] = "black"
      /\ \A k \in S : t.color[k] = "red" /\ k \notin X \cup Z =>
           k # t.root /\ (t.color[t.p[k]] = "red" => t.p[k] \in X)
  BY DEF Reds
<1>8. ASSUME NEW k \in S, r.color[k] = "red", k \notin X \cup Z
      PROVE  k # r.root /\ (r.color[r.p[k]] = "red" => r.p[k] \in X)
  <2>1. CASE k = n
    BY <1>3, <1>5, <1>6, <2>1
  <2>2. CASE k = m
    BY <1>3, <1>5, <1>6, <1>8, <2>2, Zenon
  <2>3. CASE k \notin {n, m}
    <3>1. t.color[k] = "red" /\ k # t.root /\ (t.color[t.p[k]] = "red" => t.p[k] \in X)
      BY <1>3, <1>5, <1>6, <1>7, <1>8, <2>3
    <3>2. k # r.root /\ k # Nil
      BY <1>3, <1>6, <2>3, <3>1
    <3>3. k # inner /\ t.p[k] # m
      BY <1>6, <3>1, <3>2
    <3>4. t.p[k] # n
      BY <1>2, <1>6, <1>8, <2>3, <3>1
    <3>. QED
      BY <1>3, <1>5, <1>6, <2>3, <3>1, <3>2, <3>3, <3>4
  <2>. QED
    BY <2>1, <2>2, <2>3
<1>9. r.color[Nil] = "black"
  BY <1>3, <1>5, <1>6, <1>7
<1>. QED
  BY <1>8, <1>9 DEF Reds, r

\* Of two red nodes the rotation changes which one is the lower.
LEMMA SwingBothRed ==
  ASSUME NEW t \in TreeType, NEW S, NEW under, NEW pos, Laid(t, S, under, pos),
         NEW n \in S, NEW s \in Side, NEW o, o = Other(s), NEW m, m = t.child[o][n], m # Nil,
         t.color[m] = "red", t.color[n] = "red", Reds(t, S, {}, {m})
  PROVE  /\ Swapped(t, t, n, m)
         /\ Reds(Rotate(t, s, n), S, {}, {n})
<1>. DEFINE r == Rotate(t, s, n)
            a == t.child[s][n]
            inner == t.child[s][m]
            outer == t.child[o][m]
<1>1. Swung(t, r, S, s, o, n, m, a, inner, outer)
  BY RotateSwings
<1>. HIDE DEF r, a, inner, outer
<1>2. Swapped(t, t, n, m)
  BY DEF Swapped
<1>3. S \in SUBSET Node /\ Nil \notin S /\ Nil \in Ref /\ Node \subseteq Ref
  BY NilIsNoNode DEF Laid
<1>6. /\ r.color = t.color /\ n # m /\ m \in S
      /\ r.root = IF n = t.root THEN m ELSE t.root
      /\ t.root # m /\ t.p[m] = n /\ r.p[n] = m /\ r.p[m] = t.p[n]
      /\ inner # Nil => t.p[inner] = m /\ r.p[inner] = n
      /\ \A k \in S \ {n, m} : k # inner => r.p[k] = t.p[k]
      /\ \A k \in S : k # t.root => t.p[k] \in S
  <2>1. \A k \in S \ {n, m} : k # inner => r.p[k] = t.p[k]
    BY <1>1 DEF Swung
  <2>. QED
    BY <1>1, <2>1, Zenon DEF Swung
<1>7. /\ t.color[Nil] = "black"
      /\ \A k \in S : t.color[k] = "red" /\ k # m => k # t.root /\ t.color[t.p[k]] # "red"
  BY DEF Reds
<1>8. ASSUME NEW k \in S, r.color[k] = "red", k # n
      PROVE  k # r.root /\ r.color[r.p[k]] # "red"
  <2>1. n # t.root /\ t.color[t.p[n]] # "red"
    BY <1>6, <1>7
  <2>2. CASE k = m
    BY <1>6, <2>1, <2>2
  <2>3. CASE k # m
    <3>1. k # t.root /\ t.color[t.p[k]] # "red" /\ k # Nil
      BY <1>3, <1>6, <1>7, <1>8, <2>3
    <3>2. k # inner
      BY <1>6, <3>1
    <3>. QED
      BY <1>6, <1>8, <2>1, <2>3, <3>1, <3>2
  <2>. QED
    BY <2>2, <2>3
<1>. QED
  BY <1>2, <1>6, <1>7, <1>8 DEF Reds, r

\* w takes over the color of up, which turns black, as does outer.
TakenOver(t, u, w, up, outer) ==
  /\ u \in TreeType /\ u.root = t.root /\ u.child = t.child /\ u.p = t.p
  /\ u.color[w] = t.color[up] /\ u.color[up] = "black" /\ u.color[outer] = "black"
  /\ \A k \in Ref : k \notin {up, w, outer} => u.color[k] = t.color[k]

\* The two colors differ.
LEMMA BlackIsNotRed == "black" # "red"
OBVIOUS

\* A red node adds nothing.
LEMMA NoMore == \A i \in Nat : 0 + i = i
OBVIOUS

\* The rotation that gives the paths through x the black node they miss.
LEMMA LastSwing ==
  ASSUME NEW t \in TreeType, NEW S, NEW under, NEW pos, Laid(t, S, under, pos),
         NEW n \in S, NEW s \in Side, NEW o, o = Other(s), NEW m, m = t.child[o][n], m # Nil,
         NEW a, a = t.child[s][n], NEW outer, outer = t.child[o][m],
         t.color[m] # "red", t.color[a] # "red", t.color[outer] = "red", a = Nil => t.p[Nil] = n,
         NEW h, Even(t, S, {a}, h), Reds(t, S, {a}, {}), NEW u, TakenOver(t, u, m, n, outer)
  PROVE  /\ \E g : Even(Rotate(u, s, n), S, {}, g)
         /\ Reds(Rotate(u, s, n), S, {}, {})
<1>0. /\ u \in TreeType /\ u.root = t.root /\ u.child = t.child /\ u.p = t.p
      /\ u.color[m] = t.color[n] /\ u.color[n] = "black" /\ u.color[outer] = "black"
  BY DEF TakenOver
<1>00. \A k \in Ref : k \notin {n, m, outer} => u.color[k] = t.color[k]
  BY DEF TakenOver
<1>. USE <1>0
<1>. DEFINE r == Rotate(u, s, n)
            inner == t.child[s][m]
            g == [h EXCEPT ![n] = h[m], ![m] = h[n]]
<1>1. Swung(u, r, S, s, o, n, m, a, inner, outer)
  <2>1. Laid(u, S, under, pos)
    BY SameLaid
  <2>. QED
    BY <2>1, RotateSwings, Zenon
<1>. HIDE DEF r, inner
<1>2. o \in Side /\ o # s /\ \A b \in Side : b = s \/ b = o
  BY Sides, ZenonT(60)
<1>3. S \in SUBSET Node /\ Nil \notin S /\ Nil \in Ref /\ Node \subseteq Ref
  BY NilIsNoNode, Zenon DEF Laid
<1>4. /\ h \in [Node -> Nat]
      /\ \A k \in S, b \in Side : h[k] = Below(t, {a}, h, k, t.child[b][k])
  BY Zenon DEF Even
<1>5. /\ t.color[Nil] = "black"
      /\ \A k \in S : t.color[k] = "red" => k # t.root /\ t.color[t.p[k]] # "red"
  BY Zenon DEF Reds
<1>6. /\ r.child[s][n] = a /\ r.child[o][n] = inner /\ r.child[s][m] = n /\ r.child[o][m] = outer
      /\ t.child[s][n] = a /\ t.child[o][n] = m /\ t.child[s][m] = inner /\ t.child[o][m] = outer
      /\ {a, inner, outer} \subseteq S \cup {Nil} /\ m \in S /\ n # m
      /\ m \notin {a, inner, outer} /\ n \notin {a, inner, outer}
      /\ (a # Nil => a # inner /\ a # outer) /\ (inner # Nil => inner # outer)
      /\ r.color = u.color /\ outer # Nil
      /\ r.root = (IF n = t.root THEN m ELSE t.root) /\ t.root # m
      /\ t.p[m] = n /\ r.p[n] = m /\ r.p[m] = t.p[n]
      /\ (inner # Nil => t.p[inner] = m /\ r.p[inner] = n)
  BY <1>1, <1>3, <1>5, ZenonT(40) DEF Swung
<1>7. /\ \A k \in S \ {n, m}, b \in Side : r.child[b][k] = IF t.child[b][k] = n THEN m ELSE t.child[b][k]
      /\ \A k \in S \ {n, m}, b \in Side : t.child[b][k] = Nil \/ t.child[b][k] \notin {m, a, inner, outer}
  <2>1. \A k \in S \ {n, m}, b \in Side : r.child[b][k] = IF u.child[b][k] = n THEN m ELSE u.child[b][k]
    BY <1>1, Zenon DEF Swung
  <2>2. \A k \in S \ {n, m}, b \in Side : u.child[b][k] = Nil \/ u.child[b][k] \notin {m, a, inner, outer}
    BY <1>1, Zenon DEF Swung
  <2>3. ASSUME NEW k \in S \ {n, m}, NEW b \in Side
        PROVE  /\ r.child[b][k] = IF t.child[b][k] = n THEN m ELSE t.child[b][k]
               /\ t.child[b][k] = Nil \/ t.child[b][k] \notin {m, a, inner, outer}
    <3>1. u.child[b][k] = t.child[b][k]
      BY <1>0, Zenon
    <3>2. r.child[b][k] = IF u.child[b][k] = n THEN m ELSE u.child[b][k]
      BY <2>1, <2>3, Zenon
    <3>3. u.child[b][k] = Nil \/ u.child[b][k] \notin {m, a, inner, outer}
      BY <2>2, <2>3, Zenon
    <3>. QED
      BY <3>1, <3>2, <3>3, ZenonT(60)
  <2>. QED
    BY <2>3, ZenonT(40)
<1>8. /\ \A k \in S \ {n, m} : k # inner => r.p[k] = t.p[k]
      /\ \A k \in S \ {n, m} : k # t.root /\ t.p[k] = n => k = a
      /\ \A k \in S : k # t.root => t.p[k] \in S
      /\ n # t.root => t.p[n] \notin {n, m}
      /\ \A k \in S \ {n, m} : k # t.root /\ t.p[k] = m => k = inner \/ k = outer
  <2>0. u.p = t.p /\ u.root = t.root
    OBVIOUS
  <2>1. \A k \in (S \cup {Nil}) \ {n, m} : (k # inner \/ k = Nil) => r.p[k] = u.p[k]
    BY <1>1, Zenon DEF Swung
  <2>2. \A k \in S \ {n, m} : k # u.root /\ u.p[k] = n => k = a
    BY <1>1, Zenon DEF Swung
  <2>3. \A k \in S : k # u.root => u.p[k] \in S
    BY <1>1, Zenon DEF Swung
  <2>4. n # u.root => u.p[n] \notin {n, m}
    BY <1>1, Zenon DEF Swung
  <2>5. \A k \in S \ {n, m} : k # u.root /\ u.p[k] = m => k = inner \/ k = outer
    BY <1>1, ZenonT(40) DEF Swung
  <2>6. S \subseteq S \cup {Nil}
    OBVIOUS
  <2>7. \A k \in S \ {n, m} : k # inner => r.p[k] = t.p[k]
    BY <2>0, <2>1, <2>6, Zenon
  <2>8. \A k \in S \ {n, m} : k # t.root /\ t.p[k] = n => k = a
    BY <2>0, <2>2, Zenon
  <2>9. \A k \in S : k # t.root => t.p[k] \in S
    BY <2>0, <2>3, Zenon
  <2>10. n # t.root => t.p[n] \notin {n, m}
    BY <2>0, <2>4, Zenon
  <2>11. \A k \in S \ {n, m} : k # t.root /\ t.p[k] = m => k = inner \/ k = outer
    BY <2>0, <2>5, ZenonT(30)
  <2>. QED
    BY <2>7, <2>8, <2>9, <2>10, <2>11, Zenon
<1>9. /\ g \in [Node -> Nat] /\ g[n] = h[m] /\ g[m] = h[n]
      /\ \A k \in Node \ {n, m} : g[k] = h[k]
  BY <1>3, <1>4, <1>6, ZenonT(40)
<1>. HIDE DEF g
<1>10. /\ h[n] = Below(t, {a}, h, n, a) /\ h[n] = Below(t, {a}, h, n, m)
       /\ h[m] = Below(t, {a}, h, m, inner) /\ h[m] = Below(t, {a}, h, m, outer)
       /\ h[n] \in Nat /\ h[m] \in Nat
  <2>1. h[n] = Below(t, {a}, h, n, t.child[s][n]) /\ h[n] = Below(t, {a}, h, n, t.child[o][n])
    BY <1>2, <1>4, Zenon
  <2>2. h[m] = Below(t, {a}, h, m, t.child[s][m]) /\ h[m] = Below(t, {a}, h, m, t.child[o][m])
    BY <1>2, <1>4, <1>6, Zenon
  <2>3. n \in Node /\ m \in Node
    BY <1>3, <1>6, Zenon
  <2>. QED
    BY <1>4, <1>6, <2>1, <2>2, <2>3, Zenon
<1>color. /\ r.color[m] = t.color[n] /\ r.color[n] = "black" /\ r.color[outer] = "black"
          /\ \A k \in Ref : k \notin {n, m, outer} => r.color[k] = t.color[k]
  BY <1>0, <1>00, <1>6, Zenon
<1>11. h[n] = 1 + h[m]
  <2>1. m # Nil /\ m \notin {a}
    BY <1>6, Zenon
  <2>2. Wt(t, {a}, m) = 1
    BY <2>1 DEF Wt
  <2>3. Below(t, {a}, h, n, m) = Wt(t, {a}, m) + h[m]
    BY <2>1, Zenon DEF Below
  <2>. QED
    BY <1>10, <2>2, <2>3, Zenon
<1>12. outer \in Node /\ h[outer] = h[m]
  <2>1. Below(t, {a}, h, m, outer) = h[outer] /\ outer \in Node /\ h[outer] \in Nat
    <3>1. outer \in Node /\ outer # Nil /\ outer \notin {a}
      BY <1>3, <1>6, Zenon
    <3>2. h[outer] \in Nat
      BY <1>4, <3>1, Zenon
    <3>3. Wt(t, {a}, outer) = 0
      BY <3>1 DEF Wt
    <3>4. Below(t, {a}, h, m, outer) = 0 + h[outer]
      BY <3>1, <3>3, Zenon DEF Below
    <3>. QED
      BY <3>1, <3>2, <3>4, NoMore, Zenon
  <2>. QED
    BY <1>10, <2>1, Zenon
<1>13. g[n] = Below(r, {}, g, n, a)
  <2>1. CASE a = Nil
    <3>1. h[n] = 1
      BY <1>10, <2>1, Zenon DEF Below
    <3>2. h[m] = 0
      <4>1. h[n] = 1 + h[m] /\ h[m] \in Nat
        BY <1>10, <1>11, Zenon
      <4>. QED
        BY <3>1, <4>1
    <3>3. Below(r, {}, g, n, a) = 0
      BY <2>1, Zenon DEF Below
    <3>. QED
      BY <1>9, <3>2, <3>3, Zenon
  <2>2. CASE a # Nil
    <3>1. a \in Node /\ g[a] = h[a] /\ h[a] \in Nat
      BY <1>3, <1>4, <1>6, <1>9, <2>2, Zenon
    <3>2. h[n] = 2 + h[a]
      <4>1. Wt(t, {a}, a) = 2
        BY DEF Wt
      <4>. QED
        BY <1>10, <2>2, <4>1, Zenon DEF Below
    <3>3. Wt(r, {}, a) = 1
      <4>1. a \in Ref /\ a \notin {n, m, outer}
        BY <1>3, <1>6, <2>2, <3>1, Zenon
      <4>2. r.color[a] # "red"
        BY <1>color, <4>1, Zenon
      <4>. QED
        BY <4>2 DEF Wt
    <3>4. Below(r, {}, g, n, a) = 1 + h[a]
      BY <2>2, <3>1, <3>3, Zenon DEF Below
    <3>5. h[m] = 1 + h[a]
      BY <1>10, <1>11, <3>1, <3>2
    <3>. QED
      BY <1>9, <3>4, <3>5, Zenon
  <2>. QED
    BY <2>1, <2>2, Zenon
<1>14. g[n] = Below(r, {}, g, n, inner)
  <2>1. CASE inner = Nil
    <3>1. h[m] = 0
      BY <1>6, <1>10, <2>1, Zenon DEF Below
    <3>. QED
      BY <1>9, <2>1, <3>1, Zenon DEF Below
  <2>2. CASE inner # Nil
    <3>1. inner \in Node /\ g[inner] = h[inner] /\ h[inner] \in Nat
      BY <1>3, <1>4, <1>6, <1>9, <2>2, Zenon
    <3>2. inner \notin {a} /\ inner \in Ref /\ inner \notin {n, m, outer}
      BY <1>3, <1>6, <2>2, <3>1, Zenon
    <3>3. r.color[inner] = t.color[inner]
      BY <1>color, <3>2, Zenon
    <3>4. Wt(r, {}, inner) = Wt(t, {a}, inner)
      BY <3>2, <3>3, Zenon DEF Wt
    <3>5. h[m] = Wt(t, {a}, inner) + h[inner]
      BY <1>10, <2>2, Zenon DEF Below
    <3>6. Below(r, {}, g, n, inner) = Wt(r, {}, inner) + g[inner]
      BY <2>2, Zenon DEF Below
    <3>. QED
      BY <1>9, <3>1, <3>4, <3>5, <3>6, Zenon
  <2>. QED
    BY <2>1, <2>2, Zenon
<1>15. g[m] = Below(r, {}, g, m, n) /\ g[m] = Below(r, {}, g, m, outer)
  <2>1. n # Nil /\ Wt(r, {}, n) = 1 /\ Wt(r, {}, outer) = 1 /\ g[outer] = h[outer]
    <3>1. r.color[n] # "red" /\ r.color[outer] # "red"
      BY <1>color, BlackIsNotRed, Zenon
    <3>2. n # Nil /\ outer # m /\ outer # n /\ outer \in Node
      BY <1>3, <1>6, <1>12, Zenon
    <3>3. n \notin {} /\ outer \notin {}
      BY Zenon
    <3>. QED
      BY <1>9, <3>1, <3>2, <3>3 DEF Wt
  <2>. QED
    BY <1>6, <1>9, <1>10, <1>11, <1>12, <2>1, ZenonT(40) DEF Below
<1>16. ASSUME NEW k \in S \ {n, m}, NEW b \in Side
       PROVE  g[k] = Below(r, {}, g, k, r.child[b][k])
  <2>. DEFINE c == t.child[b][k]
  <2>1. /\ h[k] = Below(t, {a}, h, k, c) /\ r.child[b][k] = (IF c = n THEN m ELSE c)
        /\ (c = Nil \/ c \notin {m, a, inner, outer})
    BY <1>4, <1>7, ZenonT(40)
  <2>2. c \in S \cup {Nil} /\ g[k] = h[k] /\ h[k] \in Nat
    <3>1. Tied(t, S, under, pos, s, o)
      BY <1>2, NodeIs, Zenon
    <3>2. c \in S \cup {Nil}
      BY <1>2, <1>16, <3>1, Zenon DEF Tied
    <3>. QED
      BY <1>3, <1>4, <1>9, <1>16, <3>2, ZenonT(60)
  <2>. HIDE DEF c
  <2>3. CASE c = n
    <3>1. n # Nil /\ m # Nil /\ n # a
      BY <1>3, <1>6, Zenon
    <3>2. r.color[m] = t.color[n]
      BY <1>6, Zenon
    <3>3. Wt(r, {}, m) = Wt(t, {a}, n)
      BY <3>1, <3>2, Zenon DEF Wt
    <3>4. h[k] = Wt(t, {a}, n) + h[n] /\ r.child[b][k] = m
      BY <2>1, <2>3, <3>1, Zenon DEF Below
    <3>5. Below(r, {}, g, k, m) = Wt(r, {}, m) + g[m]
      BY <3>1, Zenon DEF Below
    <3>. QED
      BY <1>9, <2>2, <3>3, <3>4, <3>5, Zenon
  <2>4. CASE c = Nil
    <3>1. ~(Nil \in {a} /\ k = t.p[Nil])
      BY <1>16, Zenon
    <3>2. r.child[b][k] = Nil
      BY <1>3, <2>1, <2>4
    <3>. QED
      BY <2>1, <2>2, <2>4, <3>1, <3>2, Zenon DEF Below
  <2>5. CASE c # n /\ c # Nil
    <3>1. c \in Node \ {n, m} /\ c \in Ref /\ c \notin {n, m, outer} /\ c \notin {a}
      BY <1>3, <2>1, <2>2, <2>5, Zenon
    <3>2. g[c] = h[c] /\ r.color[c] = t.color[c]
      BY <1>color, <1>9, <3>1, Zenon
    <3>3. Wt(r, {}, c) = Wt(t, {a}, c)
      BY <3>1, <3>2, ZenonT(30) DEF Wt
    <3>4. h[k] = Wt(t, {a}, c) + h[c] /\ r.child[b][k] = c
      BY <2>1, <2>5, Zenon DEF Below
    <3>5. Below(r, {}, g, k, c) = Wt(r, {}, c) + g[c]
      BY <2>5, Zenon DEF Below
    <3>. QED
      BY <2>2, <3>2, <3>3, <3>4, <3>5, Zenon
  <2>. QED
    BY <2>3, <2>4, <2>5, Zenon
<1>17. \A k \in S, b \in Side : g[k] = Below(r, {}, g, k, r.child[b][k])
  <2>. SUFFICES ASSUME NEW k \in S, NEW b \in Side
                PROVE  g[k] = Below(r, {}, g, k, r.child[b][k])
    BY Zenon
  <2>1. CASE k = n
    BY <1>2, <1>6, <1>13, <1>14, <2>1, Zenon
  <2>2. CASE k = m
    BY <1>2, <1>6, <1>15, <2>2, Zenon
  <2>. QED
    BY <1>16, <2>1, <2>2, Zenon
<1>18. ASSUME NEW k \in S, r.color[k] = "red"
       PROVE  k # r.root /\ r.color[r.p[k]] # "red"
  <2>1. k # n /\ k # outer
    BY <1>6, <1>18, Zenon
  <2>2. CASE k = m
    <3>1. t.color[n] = "red"
      BY <1>6, <1>18, <2>2, Zenon
    <3>2. n # t.root /\ t.color[t.p[n]] # "red" /\ t.p[n] \in S /\ t.p[n] \notin {n, m}
      BY <1>5, <1>8, <3>1, ZenonT(60)
    <3>3. t.p[n] \in Ref /\ t.p[n] \notin {n, m} /\ r.p[m] = t.p[n] /\ m # r.root
      BY <1>3, <1>6, <3>2, ZenonT(30)
    <3>4. CASE t.p[n] = outer
      BY <1>color, <2>2, <3>3, <3>4, BlackIsNotRed, Zenon
    <3>5. CASE t.p[n] # outer
      <4>1. r.color[t.p[n]] = t.color[t.p[n]]
        BY <1>color, <3>3, <3>5, Zenon
      <4>. QED
        BY <2>2, <3>2, <3>3, <4>1, Zenon
    <3>. QED
      BY <3>4, <3>5, Zenon
  <2>3. CASE k # m
    <3>0. t.color[k] = "red"
      BY <1>3, <1>color, <1>18, <2>1, <2>3, Zenon
    <3>1. t.color[k] = "red" /\ k # t.root /\ t.color[t.p[k]] # "red" /\ t.p[k] \in S
      BY <1>5, <1>8, <3>0, Zenon
    <3>2. k # a /\ t.p[k] # n
      BY <1>8, <2>1, <2>3, <3>1, Zenon
    <3>3. CASE k = inner
      BY <1>00, <1>3, <1>6, <2>3, <3>1, <3>3, Zenon
    <3>4. CASE k # inner
      <4>1. r.p[k] = t.p[k] /\ k # r.root
        BY <1>6, <1>8, <2>1, <2>3, <3>1, <3>4, ZenonT(60)
      <4>2. t.p[k] # m
        BY <1>8, <2>1, <2>3, <3>1, <3>4, Zenon
      <4>3. CASE t.p[k] = outer
        BY <1>color, <4>1, <4>3, BlackIsNotRed, Zenon
      <4>4. CASE t.p[k] # outer
        <5>1. t.p[k] \in Ref /\ t.p[k] \notin {n, m, outer}
          BY <1>3, <3>1, <3>2, <4>2, <4>4, Zenon
        <5>. QED
          BY <1>color, <3>1, <4>1, <5>1, ZenonT(30)
      <4>. QED
        BY <4>3, <4>4, Zenon
    <3>. QED
      BY <3>3, <3>4, Zenon
  <2>. QED
    BY <2>2, <2>3, Zenon
<1>19. r.color[Nil] = "black"
  BY <1>00, <1>3, <1>5, <1>6, ZenonT(60)
<1>20. Even(r, S, {}, g)
  BY <1>9, <1>17, Zenon DEF Even
<1>21. Reds(r, S, {}, {})
  BY <1>18, <1>19, Zenon DEF Reds
<1>. QED
  BY <1>20, <1>21 DEF r

-----------------------------------------------------------------------------
\* The links of a laid tree, on whatever side.
Kin(t, S) ==
  /\ S \in SUBSET Node /\ Nil \notin S /\ Nil \in Ref /\ Node \subseteq Ref
  /\ t.root \in S \cup {Nil} /\ (t.root = Nil => S = {}) /\ (t.root # Nil => t.p[t.root] = Nil)
  /\ \A k \in S, b \in Side :
       /\ t.child[b][k] \in S \cup {Nil} /\ t.child[b][k] # k
       /\ t.child[b][k] # Nil => t.p[t.child[b][k]] = k /\ t.child[b][k] # t.root
       /\ t.child[b][k] # Nil => t.child[b][k] # t.child[Other(b)][k]
  /\ \A k \in S : k # t.root => t.p[k] \in S /\ \E b \in Side : k = t.child[b][t.p[k]]

\* What is laid has these links.
LEMMA KinIs ==
  ASSUME NEW t \in TreeType, NEW S, NEW under, NEW pos, Laid(t, S, under, pos)
  PROVE  Kin(t, S)
<1>. DEFINE s == "left"
            o == "right"
<1>1. s \in Side /\ o \in Side /\ o = Other(s) /\ s # o /\ s = Other(o) /\ \A b \in Side : b = s \/ b = o
  BY DEF Side, Other
<1>. HIDE DEF s, o
<1>2. Tied(t, S, under, pos, s, o)
  BY <1>1, NodeIs
<1>3. /\ S \in SUBSET Node /\ Nil \notin S /\ Nil \in Ref /\ Node \subseteq Ref
      /\ t.root \in S \cup {Nil} /\ (t.root = Nil => S = {}) /\ (t.root # Nil => t.p[t.root] = Nil)
  BY <1>2 DEF Tied
<1>4. ASSUME NEW k \in S, NEW b \in Side
      PROVE  /\ t.child[b][k] \in S \cup {Nil} /\ t.child[b][k] # k
             /\ t.child[b][k] # Nil => t.p[t.child[b][k]] = k /\ t.child[b][k] # t.root
             /\ t.child[b][k] # Nil => t.child[b][k] # t.child[Other(b)][k]
  <2>1. t.child[b][k] \in S \cup {Nil} /\ t.child[b][k] # k
    BY <1>1, <1>2 DEF Tied
  <2>. QED
    BY <1>2, <2>1 DEF Tied
<1>5. ASSUME NEW k \in S, k # t.root
      PROVE  t.p[k] \in S /\ \E b \in Side : k = t.child[b][t.p[k]]
  BY <1>1, <1>2, <1>5 DEF Tied, FitsFrom
<1>. QED
  BY <1>3, <1>4, <1>5 DEF Kin

\* n hangs under low, and low and uncle under g, on the side v and on the other.
Family(t, n, low, g, v, uncle) ==
  /\ low = t.p[n] /\ g = t.p[low]
  /\ low = t.child[v][g] /\ uncle = t.child[Other(v)][g]

\* low and uncle have turned black, g red.
Relieved(t, u, low, g, uncle) ==
  /\ u \in TreeType /\ u.root = t.root /\ u.child = t.child /\ u.p = t.p
  /\ u.color[low] = "black" /\ u.color[uncle] = "black" /\ u.color[g] = "red"
  /\ \A k \in Ref : k \notin {low, uncle, g} => u.color[k] = t.color[k]

\* A parent and an uncle turn black, and the grandparent g, red, takes over.
LEMMA BlackMovesDown ==
  ASSUME NEW t \in TreeType, NEW S, Kin(t, S), NEW n \in S, t.color[t.p[n]] = "red",
         NEW h, Even(t, S, {}, h), Reds(t, S, {}, {n}),
         NEW low, NEW g, NEW v \in Side, NEW uncle, Family(t, n, low, g, v, uncle),
         t.color[uncle] = "red", NEW u, Relieved(t, u, low, g, uncle)
  PROVE  /\ g \in S
         /\ Even(u, S, {}, [h EXCEPT ![g] = h[g] + 1])
         /\ Reds(u, S, {}, {g})
<1>. DEFINE f == [h EXCEPT ![g] = h[g] + 1]
<1>1. /\ t.color[Nil] = "black"
      /\ \A k \in S : t.color[k] = "red" /\ k # n => k # t.root /\ t.color[t.p[k]] # "red"
  BY DEF Reds
<1>a. S \in SUBSET Node /\ Nil \notin S /\ Nil \in Ref /\ Node \subseteq Ref
  BY DEF Kin
<1>b. \A k \in S, b \in Side : t.child[b][k] \in S \cup {Nil} /\ t.child[b][k] # k
  BY DEF Kin
<1>c. \A k \in S, b \in Side : t.child[b][k] # Nil => t.p[t.child[b][k]] = k /\ t.child[b][k] # t.root
  BY DEF Kin
<1>d. \A k \in S : k # t.root => t.p[k] \in S
  BY DEF Kin
<1>e. \A k \in S : k # t.root => \E b \in Side : k = t.child[b][t.p[k]]
  BY SMTT(30) DEF Kin
<1>f. low = t.p[n] /\ g = t.p[low]
  BY ZenonT(40) DEF Family
<1>g. low = t.child[v][g] /\ uncle = t.child[Other(v)][g]
  BY Zenon DEF Family
<1>h. u.root = t.root /\ u.child = t.child /\ u.p = t.p
  BY DEF Relieved
<1>i. /\ u.color[low] = "black" /\ u.color[uncle] = "black" /\ u.color[g] = "red"
      /\ \A k \in Ref : k \notin {low, uncle, g} => u.color[k] = t.color[k]
  BY DEF Relieved
<1>2. t.root # Nil => t.p[t.root] = Nil
  BY DEF Kin
<1>3. n # t.root /\ low \in S /\ n \in Node /\ low \in Node
  <2>1. n # t.root
    BY <1>1, <1>2, <1>a
  <2>. QED
    BY <2>1, <1>a, <1>d, <1>f
<1>4. low # n
  <2>1. PICK b \in Side : n = t.child[b][t.p[n]]
    BY <1>3, <1>e
  <2>. QED
    BY <1>3, <1>b, <1>f, <2>1
<1>5. /\ low # t.root /\ g \in S /\ t.color[g] # "red" /\ g # low /\ g \in Node
  <2>1. low # t.root /\ t.color[g] # "red"
    BY <1>1, <1>3, <1>4, <1>f
  <2>2. g \in S
    BY <1>3, <1>d, <1>f, <2>1
  <2>3. g # low
    BY <1>g, <1>b, <2>2
  <2>. QED
    BY <1>a, <2>1, <2>2, <2>3
<1>6. /\ Other(v) \in Side /\ \A b \in Side : b = v \/ b = Other(v)
  BY Sides
<1>7. /\ uncle \in S /\ uncle # g /\ t.p[uncle] = g /\ uncle \in Node
  <2>1. uncle \in S \cup {Nil} /\ uncle # g /\ uncle # Nil
    BY <1>1, <1>5, <1>6, <1>b, <1>g
  <2>. QED
    BY <1>5, <1>6, <1>a, <1>c, <1>g, <2>1
<1>8. \A k \in S : k # t.root /\ t.p[k] = g => k \in {low, uncle}
  BY <1>6, <1>e, <1>g
<1>9. /\ h \in [Node -> Nat]
      /\ \A k \in S, b \in Side : h[k] = Below(t, {}, h, k, t.child[b][k])
  BY DEF Even
<1>10. /\ f \in [Node -> Nat] /\ f[g] = h[g] + 1 /\ h[g] \in Nat
       /\ \A k \in Node : k # g => f[k] = h[k]
  <2>1. h[g] \in Nat
    BY <1>5, <1>9
  <2>. QED
    BY <1>5, <1>9, <2>1
<1>. HIDE DEF f
<1>11. ASSUME NEW k \in S, NEW b \in Side
       PROVE  f[k] = Below(u, {}, f, k, u.child[b][k])
  <2>. DEFINE c == t.child[b][k]
  <2>1. h[k] = Below(t, {}, h, k, c) /\ u.child[b][k] = c /\ c \in S \cup {Nil} /\ c # k
        /\ (c # Nil => t.p[c] = k) /\ k \in Node
    <3>1. h[k] = Below(t, {}, h, k, c) /\ u.child[b][k] = c
      BY <1>9, <1>h
    <3>. QED
      BY <1>a, <1>b, <1>c, <3>1
  <2>2. k = g => c \in {low, uncle}
    BY <1>6, <1>g
  <2>. HIDE DEF c
  <2>3. c \in {low, uncle} => k = g
    <3>1. low # Nil /\ uncle # Nil /\ t.p[low] = g /\ t.p[uncle] = g
      BY <1>a, <1>3, <1>7, <1>f
    <3>. QED
      BY <2>1, <3>1
  <2>4. CASE k = g
    <3>1. Wt(u, {}, c) = 1 /\ Wt(t, {}, c) = 0 /\ c # Nil /\ c # g /\ c \in Node
      <4>1. c # Nil /\ c # g /\ c \in Node /\ t.color[c] = "red" /\ u.color[c] = "black"
        <5>1. low # Nil /\ uncle # Nil /\ t.color[low] = "red"
          BY <1>a, <1>3, <1>7, <1>f
        <5>. QED
          BY <1>3, <1>5, <1>7, <1>i, <2>2, <2>4, <5>1
      <4>. QED
        BY <4>1 DEF Wt
    <3>2. h[c] \in Nat /\ f[c] = h[c]
      BY <1>9, <1>10, <3>1
    <3>. QED
      BY <1>10, <2>1, <2>4, <3>1, <3>2 DEF Below
  <2>5. CASE k # g /\ c = g
    <3>1. Wt(u, {}, c) = 0 /\ Wt(t, {}, c) = 1 /\ c # Nil
      <4>1. c # Nil /\ u.color[c] = "red" /\ t.color[c] # "red"
        BY <1>a, <1>5, <1>i, <2>5
      <4>. QED
        BY <4>1 DEF Wt
    <3>2. f[k] = h[k]
      BY <1>10, <2>1, <2>5
    <3>. QED
      BY <1>10, <2>1, <2>5, <3>1, <3>2 DEF Below
  <2>6. CASE k # g /\ c # g
    <3>1. f[k] = h[k] /\ c \notin {low, uncle, g}
      BY <1>10, <2>1, <2>3, <2>6
    <3>2. u.color[c] = t.color[c] /\ (c # Nil => f[c] = h[c])
      <4>1. c \in Ref /\ (c # Nil => c \in Node)
        BY <1>a, <2>1
      <4>. QED
        BY <1>10, <1>i, <3>1, <4>1
    <3>. QED
      BY <2>1, <3>1, <3>2 DEF Below, Wt
  <2>. QED
    BY <2>4, <2>5, <2>6
<1>12. ASSUME NEW k \in S, u.color[k] = "red", k # g
       PROVE  k # u.root /\ u.color[u.p[k]] # "red"
  <2>1. k \notin {low, uncle} /\ t.color[k] = "red"
    <3>1. k \in Ref
      BY <1>a
    <3>2. k \notin {low, uncle}
      BY <1>12, <1>i
    <3>. QED
      BY <1>12, <1>i, <3>1, <3>2
  <2>2. CASE k = n
    BY <1>3, <1>f, <1>h, <1>i, <2>2
  <2>3. CASE k # n
    <3>1. k # t.root /\ t.color[t.p[k]] # "red" /\ t.p[k] \in S
      BY <1>1, <1>d, <2>1, <2>3
    <3>2. t.p[k] # g
      BY <1>8, <2>1, <3>1
    <3>. QED
      <4>1. t.p[k] \in Ref
        BY <1>a, <3>1
      <4>. QED
        BY <3>1, <3>2, <4>1, <1>h, <1>i
  <2>. QED
    BY <2>2, <2>3
<1>13. u.color[Nil] = "black"
  <2>1. Nil \notin {low, uncle, g}
    BY <1>a, <1>3, <1>5, <1>7, SMTT(30)
  <2>. QED
    BY <1>1, <1>a, <1>i, <2>1
<1>. QED
  BY <1>5, <1>10, <1>11, <1>12, <1>13, <1>h, Zenon DEF Even, Reds, f

\* The sibling m of a = x gives up its black: x moves up to n.
LEMMA BlackMovesUp ==
  ASSUME NEW t \in TreeType, NEW S, Kin(t, S), NEW n \in S, NEW s \in Side,
         NEW a, a = t.child[s][n], NEW m, m = t.child[Other(s)][n], m # Nil,
         t.color[a] # "red", t.color[m] # "red", a = Nil => t.p[Nil] = n,
         \A b \in Side : t.color[t.child[b][m]] # "red",
         NEW h, Even(t, S, {a}, h), Reds(t, S, {a}, {}),
         NEW u \in TreeType, u.root = t.root, u.child = t.child, u.p = t.p, u.color[m] = "red",
         \A k \in Ref : k # m => u.color[k] = t.color[k]
  PROVE  /\ \E f : Even(u, S, {n}, f)
         /\ Reds(u, S, {n}, {})
<1>. DEFINE f == [h EXCEPT ![n] = h[n] - 1]
<1>1. /\ t.color[Nil] = "black"
      /\ \A k \in S : t.color[k] = "red" => k # t.root /\ t.color[t.p[k]] # "red"
  <2>1. t.color[Nil] = "black"
    BY Zenon DEF Reds
  <2>2. ASSUME NEW k \in S, t.color[k] = "red" PROVE k # t.root /\ t.color[t.p[k]] # "red"
    <3>1. k # a
      BY <2>2, Zenon
    <3>2. k # t.root /\ (t.color[t.p[k]] = "red" => t.p[k] = a)
      BY <2>2, <3>1, Zenon DEF Reds
    <3>. QED
      BY <3>2, Zenon
  <2>. QED
    BY <2>1, <2>2, Zenon
<1>a. S \in SUBSET Node /\ Nil \notin S /\ Nil \in Ref /\ Node \subseteq Ref
  BY DEF Kin
<1>b. \A k \in S, b \in Side : t.child[b][k] \in S \cup {Nil} /\ t.child[b][k] # k
  BY DEF Kin
<1>c. \A k \in S, b \in Side : t.child[b][k] # Nil => t.p[t.child[b][k]] = k /\ t.child[b][k] # t.root
  BY DEF Kin
<1>d. \A k \in S : k # t.root => t.p[k] \in S
  BY DEF Kin
<1>e. \A k \in S : k # t.root => \E b \in Side : k = t.child[b][t.p[k]]
  BY DEF Kin
<1>6. /\ Other(s) \in Side /\ \A b \in Side : b = s \/ b = Other(s)
  BY Sides, Zenon
<1>7. /\ m \in S /\ m # n /\ t.p[m] = n /\ m # t.root /\ a # m /\ a # n
      /\ a \in S \cup {Nil} /\ (a # Nil => t.p[a] = n)
  <2>1. m \in S /\ m # n /\ t.p[m] = n /\ m # t.root
    BY <1>6, <1>b, <1>c, ZenonT(60)
  <2>2. a # n /\ a \in S \cup {Nil} /\ (a # Nil => t.p[a] = n)
    BY <1>6, <1>b, <1>c, ZenonT(60)
  <2>3. a # m
    BY DEF Kin
  <2>. QED
    BY <2>1, <2>2, <2>3, Zenon
<1>8. \A k \in S : k # t.root /\ t.p[k] = m => t.color[k] # "red"
  BY <1>e
<1>9. /\ h \in [Node -> Nat]
      /\ \A k \in S, b \in Side : h[k] = Below(t, {a}, h, k, t.child[b][k])
  BY Zenon DEF Even
<1>10. h[n] = Below(t, {a}, h, n, a) /\ h[n] = Below(t, {a}, h, n, m) /\ h[n] \in Nat
  <2>1. h[n] = Below(t, {a}, h, n, a)
    BY <1>9, Zenon
  <2>2. h[n] = Below(t, {a}, h, n, m)
    BY <1>6, <1>9, Zenon
  <2>. QED
    BY <1>a, <1>9, <2>1, <2>2, Zenon
<1>11. h[n] = 1 + h[m] /\ h[m] \in Nat
  <2>1. Wt(t, {a}, m) = 1
    BY <1>7 DEF Wt
  <2>2. h[m] \in Nat
    BY <1>a, <1>7, <1>9, Zenon
  <2>. QED
    BY <1>10, <2>1, <2>2, Zenon DEF Below
<1>12. /\ f \in [Node -> Nat] /\ f[n] = h[n] - 1
       /\ \A k \in Node : k # n => f[k] = h[k]
  <2>1. n \in Node /\ h[n] - 1 \in Nat
    BY <1>a, <1>11
  <2>. QED
    BY <1>9, <2>1, Zenon
<1>. HIDE DEF f
<1>13. ASSUME NEW k \in S, NEW b \in Side
       PROVE  f[k] = Below(u, {n}, f, k, u.child[b][k])
  <2>. DEFINE c == t.child[b][k]
  <2>1. h[k] = Below(t, {a}, h, k, c) /\ u.child[b][k] = c /\ c \in S \cup {Nil} /\ c # k
        /\ (c # Nil => t.p[c] = k) /\ h[k] \in Nat /\ k \in Node
    <3>1. h[k] = Below(t, {a}, h, k, c) /\ u.child[b][k] = c
      BY <1>9, Zenon
    <3>2. k \in Node
      BY <1>a, Zenon
    <3>. QED
      BY <1>9, <1>b, <1>c, <3>1, <3>2, ZenonT(60)
  <2>2. k = n => c \in {a, m}
    BY <1>6
  <2>. HIDE DEF c
  <2>3. c # Nil /\ c \in {a, m} => k = n
    BY <1>7, <2>1, ZenonT(60)
  <2>4. CASE k = n /\ c = Nil
    <3>1. h[n] = 1
      BY <1>7, <2>1, <2>2, <2>4, Zenon DEF Below
    <3>2. Below(u, {n}, f, k, c) = 0
      <4>1. Nil \notin {n}
        BY <1>a, Zenon
      <4>. QED
        BY <2>4, <4>1, Zenon DEF Below
    <3>3. f[k] = h[n] - 1
      BY <1>12, <2>4, Zenon
    <3>4. f[k] = 0
      BY <3>1, <3>3
    <3>. QED
      BY <2>1, <3>2, <3>4, Zenon
  <2>5. CASE k = n /\ c = m
    <3>1. Wt(u, {n}, c) = 0 /\ c # n /\ c # Nil
      BY <1>7, <2>5, SMTT(30) DEF Wt
    <3>2. f[c] = h[c]
      BY <1>a, <1>7, <1>12, <2>5, Zenon
    <3>3. Below(u, {n}, f, k, c) = Wt(u, {n}, c) + f[c]
      BY <3>1, Zenon DEF Below
    <3>4. f[k] = h[k] - 1 /\ h[k] = 1 + h[c] /\ h[c] \in Nat
      BY <1>11, <1>12, <2>5, Zenon
    <3>5. f[k] = 0 + f[c]
      BY <3>2, <3>4
    <3>. QED
      BY <2>1, <3>1, <3>3, <3>5, Zenon
  <2>6. CASE k = n /\ c # m /\ c # Nil
    <3>1. c = a /\ c \in Node /\ c # n
      BY <1>a, <1>7, <2>1, <2>2, <2>6, Zenon
    <3>2. u.color[c] = t.color[c] /\ f[c] = h[c] /\ h[c] \in Nat
      BY <1>a, <1>7, <1>9, <1>12, <2>6, <3>1, Zenon
    <3>3. Wt(t, {a}, c) = 2 /\ Wt(u, {n}, c) = 1
      <4>1. t.color[c] # "red" /\ u.color[c] # "red" /\ c \in {a} /\ c \notin {n}
        BY <3>1, <3>2, Zenon
      <4>. QED
        BY <4>1 DEF Wt
    <3>4. Below(u, {n}, f, k, c) = Wt(u, {n}, c) + f[c] /\ h[k] = Wt(t, {a}, c) + h[c]
      BY <2>1, <2>6, Zenon DEF Below
    <3>5. f[k] = h[k] - 1
      BY <1>12, <2>6, Zenon
    <3>6. f[k] = 1 + f[c]
      BY <3>2, <3>3, <3>4, <3>5
    <3>. QED
      BY <2>1, <3>3, <3>4, <3>6, Zenon
  <2>7. CASE k # n /\ c = n
    <3>1. f[k] = h[k] /\ c # Nil /\ c \notin {a, m}
      BY <1>a, <1>7, <1>12, <2>7, Zenon
    <3>2. u.color[c] = t.color[c]
      BY <1>a, <1>7, <2>7, Zenon
    <3>3. Wt(u, {n}, c) = Wt(t, {a}, c) + 1 /\ Wt(t, {a}, c) \in Nat
      <4>1. c \notin {a} /\ c \in {n}
        BY <2>7, <3>1, Zenon
      <4>. QED
        BY <3>2, <4>1 DEF Wt
    <3>4. Below(u, {n}, f, k, c) = Wt(u, {n}, c) + f[c] /\ h[k] = Wt(t, {a}, c) + h[c]
      BY <2>1, <3>1, Zenon DEF Below
    <3>5. f[c] = h[c] - 1 /\ h[c] \in Nat
      BY <1>10, <1>12, <2>7, Zenon
    <3>6. h[k] = Wt(u, {n}, c) + f[c]
      BY <3>3, <3>4, <3>5
    <3>. QED
      BY <2>1, <3>1, <3>4, <3>6, Zenon
  <2>8. CASE k # n /\ c # n
    <3>1. f[k] = h[k] /\ (c # Nil => c \notin {a, m})
      BY <1>a, <1>12, <2>3, <2>8, Zenon
    <3>2. c # Nil => u.color[c] = t.color[c] /\ f[c] = h[c]
      BY <1>a, <1>12, <2>1, <2>8, <3>1, Zenon
    <3>3. ~(Nil \in {a} /\ k = t.p[Nil]) /\ Nil \notin {n}
      BY <1>a, <2>8
    <3>. QED
      BY <2>1, <2>8, <3>1, <3>2, <3>3, ZenonT(60) DEF Below, Wt
  <2>. QED
    BY <2>4, <2>5, <2>6, <2>7, <2>8, Zenon
<1>14. ASSUME NEW k \in S, u.color[k] = "red", k # n
       PROVE  k # u.root /\ (u.color[u.p[k]] = "red" => u.p[k] \in {n})
  <2>1. CASE k = m
    BY <1>7, <2>1, Zenon
  <2>2. CASE k # m
    <3>1. t.color[k] = "red" /\ k # t.root /\ t.color[t.p[k]] # "red" /\ t.p[k] \in S
      <4>1. t.color[k] = "red"
        BY <1>a, <1>14, <2>2, Zenon
      <4>. QED
        BY <1>1, <1>d, <4>1, Zenon
    <3>2. t.p[k] # m
      BY <1>8, <3>1, Zenon
    <3>. QED
      <4>1. t.p[k] \in Ref
        BY <1>a, <3>1, Zenon
      <4>. QED
        BY <3>1, <3>2, <4>1, Zenon
  <2>. QED
    BY <2>1, <2>2, Zenon
<1>15. u.color[Nil] = "black"
  BY <1>a, <1>1, <1>7, Zenon
<1>16. Even(u, S, {n}, f)
  BY <1>12, <1>13, Zenon DEF Even
<1>17. Reds(u, S, {n}, {})
  BY <1>14, <1>15, Zenon DEF Reds
<1>. QED
  BY <1>16, <1>17, Zenon

-----------------------------------------------------------------------------
\* A red leaf changes no height.
LEMMA LinkColors ==
  ASSUME NEW t \in TreeType, NEW S, Kin(t, S), NEW n \in Node \ S, NEW m, NEW s \in Side,
         NEW r, Linking(t, r, n, m, s),
         (m = Nil /\ t.root = Nil) \/ (m \in S /\ t.child[s][m] = Nil),
         NEW h, Even(t, S, {}, h), Reds(t, S, {}, {})
  PROVE  /\ Even(r, S \cup {n}, {}, [h EXCEPT ![n] = 0])
         /\ Reds(r, S \cup {n}, {}, {n})
<1>. DEFINE f == [h EXCEPT ![n] = 0]
<1>a. S \in SUBSET Node /\ Nil \notin S /\ Nil \in Ref /\ Node \subseteq Ref /\ (t.root = Nil => S = {})
  BY DEF Kin
<1>b. \A k \in S, b \in Side : t.child[b][k] \in S \cup {Nil}
  BY DEF Kin
<1>d. \A k \in S : k # t.root => t.p[k] \in S
  BY DEF Kin
<1>e. /\ h \in [Node -> Nat]
      /\ \A k \in S, b \in Side : h[k] = Below(t, {}, h, k, t.child[b][k])
  BY DEF Even
<1>f. /\ t.color[Nil] = "black"
      /\ \A k \in S : t.color[k] = "red" => k # t.root /\ t.color[t.p[k]] # "red"
  BY DEF Reds
<1>g. /\ r.root = IF m = Nil THEN n ELSE t.root
      /\ \A b \in Side, k \in Node :
           r.child[b][k] = IF k = n THEN Nil ELSE IF k = m /\ b = s THEN n ELSE t.child[b][k]
  BY DEF Linking
<1>h. /\ \A k \in Ref : r.p[k] = IF k = n THEN m ELSE t.p[k]
      /\ \A k \in Ref : r.color[k] = IF k = n THEN "red" ELSE t.color[k]
  BY DEF Linking
<1>1. n # Nil /\ n \in Node /\ n \in Ref /\ n \notin S
  BY NilIsNoNode
<1>2. /\ f \in [Node -> Nat] /\ f[n] = 0
      /\ \A k \in Node : k # n => f[k] = h[k]
  BY <1>e
<1>. HIDE DEF f
<1>3. ASSUME NEW b \in Side
      PROVE  f[n] = Below(r, {}, f, n, r.child[b][n])
  BY <1>1, <1>2, <1>g DEF Below
<1>4. ASSUME NEW k \in S, NEW b \in Side
      PROVE  f[k] = Below(r, {}, f, k, r.child[b][k])
  <2>1. k \in Node /\ k # n /\ f[k] = h[k]
    BY <1>a, <1>1, <1>2
  <2>2. h[k] = Below(t, {}, h, k, t.child[b][k])
    BY <1>e
  <2>3. CASE k = m /\ b = s
    <3>1. r.child[b][k] = n /\ t.child[b][k] = Nil
      BY <1>a, <1>g, <2>1, <2>3
    <3>2. Wt(r, {}, n) = 0
      BY <1>h, <1>1 DEF Wt
    <3>. QED
      BY <1>1, <1>2, <2>1, <2>2, <3>1, <3>2 DEF Below
  <2>4. CASE ~(k = m /\ b = s)
    <3>. DEFINE c == t.child[b][k]
    <3>1. r.child[b][k] = c /\ c \in S \cup {Nil} /\ h[k] = Below(t, {}, h, k, c)
      BY <1>b, <1>g, <2>1, <2>2, <2>4
    <3>. HIDE DEF c
    <3>2. c # Nil => f[c] = h[c] /\ r.color[c] = t.color[c]
      BY <1>a, <1>h, <1>1, <1>2, <3>1
    <3>. QED
      BY <2>1, <3>1, <3>2 DEF Below, Wt
  <2>. QED
    BY <2>3, <2>4
<1>5. \A k \in S \cup {n}, b \in Side : f[k] = Below(r, {}, f, k, r.child[b][k])
  BY <1>3, <1>4
<1>6. ASSUME NEW k \in S, r.color[k] = "red"
      PROVE  k # r.root /\ r.color[r.p[k]] # "red"
  <2>1. k \in Ref /\ k # n /\ t.color[k] = "red" /\ r.p[k] = t.p[k]
    BY <1>a, <1>h, <1>1, <1>6
  <2>2. k # t.root /\ t.color[t.p[k]] # "red" /\ t.p[k] \in S
    BY <1>d, <1>f, <2>1
  <2>3. m # Nil
    BY <1>a
  <2>. QED
    BY <1>a, <1>g, <1>h, <1>1, <2>1, <2>2, <2>3
<1>7. r.color[Nil] = "black"
  BY <1>a, <1>f, <1>h, <1>1
<1>. QED
  BY <1>2, <1>5, <1>6, <1>7, Zenon DEF Even, Reds, f

-----------------------------------------------------------------------------
\* A node with at most one child goes: the links that change.
Skipped(t, r, S, n, c) ==
  /\ c \in S \cup {Nil} /\ c # n /\ (c # Nil => t.p[c] = n)
  /\ \A b \in Side : t.child[b][n] \in {c, Nil}
  /\ r \in TreeType /\ r.color = t.color
  /\ r.root = IF n = t.root THEN c ELSE t.root
  /\ r.p[c] = t.p[n]
  /\ \A k \in S \cup {Nil} : k # c => r.p[k] = t.p[k]
  /\ \A k \in S \ {n}, b \in Side : r.child[b][k] = IF t.child[b][k] = n THEN c ELSE t.child[b][k]
  /\ n = t.root => t.p[n] = Nil
  /\ n # t.root => t.p[n] \in S \ {n} /\ \E b \in Side : t.child[b][t.p[n]] = n

\* A transplantation, in these terms.
LEMMA SplicedIs ==
  ASSUME NEW t \in TreeType, NEW S, NEW under, NEW pos, Laid(t, S, under, pos), NEW n \in S,
         NEW s \in Side, t.child[s][n] = Nil, NEW c, c = t.child[Other(s)][n],
         NEW q, q = t.p[n], NEW v, v = SideOf(t, n),
         NEW r, Spliced(t, r, n, c, q, v)
  PROVE  Skipped(t, r, S, n, c)
<1>a. S \in SUBSET Node /\ Nil \notin S /\ Nil \in Ref /\ Node \subseteq Ref
      /\ t.root # Nil /\ t.p[t.root] = Nil /\ t.root \in S
  BY KinIs DEF Kin
<1>b. \A k \in S, b \in Side : t.child[b][k] \in S \cup {Nil} /\ t.child[b][k] # k
  BY KinIs DEF Kin
<1>c. \A k \in S, b \in Side : t.child[b][k] # Nil => t.p[t.child[b][k]] = k /\ t.child[b][k] # t.root
  BY KinIs DEF Kin
<1>1. /\ v \in Side
      /\ n = t.root => q = Nil
      /\ n # t.root => q \in S /\ q # Nil /\ q # n /\ t.child[v][q] = n
      /\ \A k \in S, b \in Side : t.child[b][k] = n => n # t.root /\ k = q /\ b = v
  BY HangsAt
<1>2. Other(s) \in Side /\ \A b \in Side : b = s \/ b = Other(s)
  BY Sides
<1>3. c \in S \cup {Nil} /\ c # n /\ (c # Nil => t.p[c] = n) /\ \A b \in Side : t.child[b][n] \in {c, Nil}
  BY <1>b, <1>c, <1>2
<1>4. /\ r \in TreeType /\ r.color = t.color /\ r.root = IF q = Nil THEN c ELSE t.root
      /\ q # Nil => r.child[v][q] = c
  BY DEF Spliced
<1>5. \A k \in Ref : r.p[k] = IF k = c THEN q ELSE t.p[k]
  BY DEF Spliced
<1>6. \A b \in Side : \A k \in Node : ~(q # Nil /\ k = q /\ b = v) => r.child[b][k] = t.child[b][k]
  BY DEF Spliced
<1>7. ASSUME NEW k \in S \ {n}, NEW b \in Side
      PROVE  r.child[b][k] = IF t.child[b][k] = n THEN c ELSE t.child[b][k]
  <2>1. CASE t.child[b][k] = n
    BY <1>1, <1>4, <2>1
  <2>2. CASE t.child[b][k] # n
    <3>1. ~(q # Nil /\ k = q /\ b = v) /\ k \in Node
      BY <1>a, <1>1, <2>2
    <3>. QED
      BY <1>6, <2>2, <3>1
  <2>. QED
    BY <2>1, <2>2
<1>8. r.p[c] = q /\ \A k \in S \cup {Nil} : k # c => r.p[k] = t.p[k]
  BY <1>a, <1>3, <1>5
<1>9. r.root = IF n = t.root THEN c ELSE t.root
  BY <1>1, <1>4
<1>. QED
  BY <1>1, <1>3, <1>4, <1>7, <1>8, <1>9 DEF Skipped

\* _M_nil as x: its parent has another child, or the tree is empty.
Hole(t, S) ==
  \/ t.p[Nil] = Nil /\ t.root = Nil
  \/ t.p[Nil] \in S /\ \E s \in Side : t.child[s][t.p[Nil]] = Nil /\ t.child[Other(s)][t.p[Nil]] # Nil

\* What is missing when n has gone: its color, where its child c is now.
LEMMA SpliceColors ==
  ASSUME NEW t \in TreeType, NEW S, Kin(t, S), NEW n \in S, NEW c, NEW r, Skipped(t, r, S, n, c),
         NEW h, Even(t, S, {}, h), Reds(t, S, {}, {}),
         NEW X, X = IF t.color[n] = "red" THEN {} ELSE {c}
  PROVE  /\ Even(r, S \ {n}, X, h) /\ Reds(r, S \ {n}, X, {})
         /\ Nil \in X => Hole(r, S \ {n})
<1>a. S \in SUBSET Node /\ Nil \notin S /\ Nil \in Ref /\ Node \subseteq Ref
  BY DEF Kin
<1>b. \A k \in S, b \in Side : t.child[b][k] \in S \cup {Nil} /\ t.child[b][k] # k
  BY DEF Kin
<1>c. \A k \in S, b \in Side : t.child[b][k] # Nil => t.p[t.child[b][k]] = k
  BY DEF Kin
<1>d. \A k \in S : k # t.root => t.p[k] \in S /\ \E b \in Side : k = t.child[b][t.p[k]]
  BY DEF Kin
<1>e. /\ h \in [Node -> Nat]
      /\ \A k \in S, b \in Side : h[k] = Below(t, {}, h, k, t.child[b][k])
  BY DEF Even
<1>f. /\ t.color[Nil] = "black"
      /\ \A k \in S : t.color[k] = "red" => k # t.root /\ t.color[t.p[k]] # "red"
  BY DEF Reds
<1>g. /\ c \in S \cup {Nil} /\ c # n /\ (c # Nil => t.p[c] = n)
      /\ \A b \in Side : t.child[b][n] \in {c, Nil}
  BY DEF Skipped
<1>h. /\ r.color = t.color /\ r.p[c] = t.p[n]
      /\ r.root = IF n = t.root THEN c ELSE t.root
      /\ n = t.root => t.p[n] = Nil
      /\ n # t.root => t.p[n] \in S \ {n} /\ \E b \in Side : t.child[b][t.p[n]] = n
  BY DEF Skipped
<1>i. \A k \in S \ {n}, b \in Side : r.child[b][k] = IF t.child[b][k] = n THEN c ELSE t.child[b][k]
  BY DEF Skipped
<1>j. \A k \in S \cup {Nil} : k # c => r.p[k] = t.p[k]
  BY DEF Skipped
<1>k. n \in Node /\ n # Nil /\ h[n] \in Nat
  BY <1>a, <1>e
<1>1. c # Nil => h[n] = Wt(t, {}, c) + h[c] /\ h[c] \in Nat
  <2>1. c # Nil => \E b \in Side : t.child[b][n] = c
    <3>1. SUFFICES ASSUME c # Nil PROVE \E b \in Side : t.child[b][n] = c
      OBVIOUS
    <3>2. c # t.root
      BY <1>g, <3>1 DEF Kin
    <3>. QED
      BY <1>d, <1>g, <3>1, <3>2
  <2>. QED
    BY <1>a, <1>e, <1>g, <2>1 DEF Below
<1>2. c = Nil => h[n] = 0
  BY <1>e, <1>g, Sides DEF Below
<1>3. Wt(r, X, c) = (IF t.color[n] = "red" THEN 0 ELSE 1) + Wt(t, {}, c)
  BY <1>h DEF Wt
<1>4. ASSUME NEW k \in S \ {n}, NEW b \in Side
      PROVE  h[k] = Below(r, X, h, k, r.child[b][k])
  <2>. DEFINE d == t.child[b][k]
  <2>1. h[k] = Below(t, {}, h, k, d) /\ r.child[b][k] = (IF d = n THEN c ELSE d) /\ d \in S \cup {Nil}
    BY <1>b, <1>e, <1>i
  <2>2. d # Nil => t.p[d] = k
    BY <1>c
  <2>. HIDE DEF d
  <2>3. CASE d = n
    <3>1. h[k] = Wt(t, {}, n) + h[n] /\ r.child[b][k] = c
      BY <1>k, <2>1, <2>3 DEF Below
    <3>2. Wt(t, {}, n) = IF t.color[n] = "red" THEN 0 ELSE 1
      BY DEF Wt
    <3>3. CASE c # Nil
      <4>1. Wt(t, {}, c) \in Nat
        BY DEF Wt
      <4>. QED
        BY <1>1, <1>3, <3>1, <3>2, <3>3, <4>1 DEF Below
    <3>4. CASE c = Nil
      <4>1. r.p[Nil] = k
        BY <1>h, <1>k, <2>2, <2>3, <3>4
      <4>. QED
        BY <1>2, <3>1, <3>2, <3>4, <4>1 DEF Below
    <3>. QED
      BY <3>3, <3>4
  <2>4. CASE d # n /\ d # Nil
    <3>1. d # c
      BY <1>g, <2>2, <2>4
    <3>. QED
      BY <1>h, <2>1, <2>4, <3>1 DEF Below, Wt
  <2>5. CASE d = Nil
    <3>1. h[k] = 0 /\ r.child[b][k] = Nil
      BY <1>k, <2>1, <2>5 DEF Below
    <3>2. ASSUME Nil \in X, k = r.p[Nil]
          PROVE  FALSE
      <4>1. c = Nil /\ t.color[n] # "red" /\ k = t.p[n] /\ k # Nil
        BY <1>a, <1>h, <3>2
      <4>2. PICK e \in Side : t.child[e][k] = n
        BY <1>h, <4>1
      <4>3. h[k] = Below(t, {}, h, k, n)
        BY <1>e, <4>2
      <4>. QED
        BY <1>k, <3>1, <4>1, <4>3 DEF Below, Wt
    <3>. QED
      BY <3>1, <3>2 DEF Below
  <2>. QED
    BY <2>3, <2>4, <2>5
<1>5. ASSUME NEW k \in S \ {n}, r.color[k] = "red", k \notin X
      PROVE  k # r.root /\ (r.color[r.p[k]] = "red" => r.p[k] \in X)
  <2>1. t.color[k] = "red" /\ k # t.root /\ t.color[t.p[k]] # "red"
    BY <1>f, <1>h, <1>5
  <2>2. k # c
    BY <1>a, <1>5, <1>g, <2>1
  <2>. QED
    BY <1>h, <1>j, <2>1, <2>2
<1>6. ASSUME Nil \in X
      PROVE  Hole(r, S \ {n})
  <2>1. c = Nil /\ t.color[n] # "red" /\ r.p[Nil] = t.p[n]
    BY <1>6, <1>a, <1>h
  <2>2. CASE n = t.root
    BY <1>h, <2>1, <2>2 DEF Hole
  <2>3. CASE n # t.root
    <3>. DEFINE q == t.p[n]
    <3>1. q \in S \ {n} /\ \E b \in Side : t.child[b][q] = n
      BY <1>h, <2>3
    <3>. HIDE DEF q
    <3>2. PICK b \in Side : t.child[b][q] = n
      BY <3>1
    <3>3. r.child[b][q] = Nil
      BY <1>i, <2>1, <3>1, <3>2
    <3>4. h[q] = Below(t, {}, h, q, n) /\ h[q] = Below(t, {}, h, q, t.child[Other(b)][q])
      BY <1>e, <3>1, <3>2, Sides
    <3>5. t.child[Other(b)][q] # Nil
      BY <1>k, <2>1, <3>4 DEF Below, Wt
    <3>6. t.child[Other(b)][q] # n
      <4>1. t.child[b][q] # Nil => t.child[b][q] # t.child[Other(b)][q]
        BY <3>1 DEF Kin
      <4>. QED
        BY <1>k, <3>2, <4>1
    <3>7. r.child[Other(b)][q] # Nil
      BY <1>i, <3>1, <3>5, <3>6, Sides
    <3>. QED
      BY <2>1, <3>1, <3>3, <3>7 DEF Hole, q
  <2>. QED
    BY <2>2, <2>3
<1>. QED
  BY <1>e, <1>f, <1>h, <1>4, <1>5, <1>6, Zenon DEF Even, Reds

-----------------------------------------------------------------------------
\* m takes the place and the color of n.
LEMMA RenameColors ==
  ASSUME NEW t \in TreeType, NEW S, Kin(t, S), NEW n \in S, NEW m \in Node \ S,
         NEW r, Renamed(t, r, S, n, m), NEW X \in SUBSET (S \cup {Nil}), n \notin X,
         NEW h, Even(t, S, X, h), Reds(t, S, X, {}), Nil \in X => Hole(t, S)
  PROVE  /\ Even(r, (S \ {n}) \cup {m}, X, [h EXCEPT ![m] = h[n]])
         /\ Reds(r, (S \ {n}) \cup {m}, X, {})
         /\ Nil \in X => Hole(r, (S \ {n}) \cup {m})
<1>. DEFINE f == [h EXCEPT ![m] = h[n]]
            T == (S \ {n}) \cup {m}
<1>a. S \in SUBSET Node /\ Nil \notin S /\ Nil \in Ref /\ Node \subseteq Ref
      /\ (t.root # Nil => t.p[t.root] = Nil) /\ t.root \in S \cup {Nil}
  BY DEF Kin
<1>b. \A k \in S, b \in Side : t.child[b][k] \in S \cup {Nil} /\ t.child[b][k] # k
  BY DEF Kin
<1>d. \A k \in S : k # t.root => t.p[k] \in S /\ \E b \in Side : k = t.child[b][t.p[k]]
  BY DEF Kin
<1>e. /\ h \in [Node -> Nat]
      /\ \A k \in S, b \in Side : h[k] = Below(t, X, h, k, t.child[b][k])
  BY DEF Even
<1>f. /\ t.color[Nil] = "black"
      /\ \A k \in S : t.color[k] = "red" /\ k \notin X =>
           k # t.root /\ (t.color[t.p[k]] = "red" => t.p[k] \in X)
  BY DEF Reds
<1>g. /\ r.root = IF n = t.root THEN m ELSE t.root
      /\ \A b \in Side : r.child[b][m] = t.child[b][n]
  BY DEF Renamed
<1>h. \A k \in S \ {n}, b \in Side : r.child[b][k] = IF t.child[b][k] = n THEN m ELSE t.child[b][k]
  BY DEF Renamed
<1>i. /\ r.p[m] = t.p[n]
      /\ \A k \in (S \ {n}) \cup {Nil} : r.p[k] = IF t.p[k] = n THEN m ELSE t.p[k]
  BY DEF Renamed
<1>j. \A k \in Ref : r.color[k] = IF k = m THEN t.color[n] ELSE t.color[k]
  BY DEF Renamed
<1>1. m # Nil /\ m \notin S /\ m \notin X /\ m \in Node /\ m # n /\ n # Nil /\ n \in Node
  BY <1>a, NilIsNoNode
<1>2. f \in [Node -> Nat] /\ f[m] = h[n] /\ \A k \in Node : k # m => f[k] = h[k]
  <2>1. h[n] \in Nat
    BY <1>e, <1>1
  <2>. QED
    BY <1>e, <1>1, <2>1
<1>. HIDE DEF f
<1>3. Wt(r, X, m) = Wt(t, X, n) /\ \A k \in S \ {n} : Wt(r, X, k) = Wt(t, X, k)
  BY <1>a, <1>1, <1>j DEF Wt
<1>. DEFINE old(k) == IF k = m THEN n ELSE k
<1>4. ASSUME NEW k \in T
      PROVE  /\ old(k) \in S /\ f[k] = h[old(k)]
             /\ r.color[k] = t.color[old(k)]
             /\ \A b \in Side : r.child[b][k] = IF t.child[b][old(k)] = n THEN m ELSE t.child[b][old(k)]
             /\ old(k) # t.root => r.p[k] = IF t.p[old(k)] = n THEN m ELSE t.p[old(k)]
             /\ k = r.root => old(k) = t.root
             /\ k = m <=> old(k) = n
             /\ k # m => old(k) = k
  <2>1. CASE k = m
    <3>1. \A b \in Side : t.child[b][n] # n
      BY <1>b
    <3>2. n # t.root => t.p[n] # n
      BY <1>b, <1>d
    <3>3. r.color[m] = t.color[n]
      BY <1>a, <1>1, <1>j
    <3>4. k = r.root => n = t.root
      BY <1>a, <1>1, <1>g, <2>1
    <3>. QED
      BY <1>1, <1>2, <1>g, <1>i, <2>1, <3>1, <3>2, <3>3, <3>4
  <2>2. CASE k # m
    <3>1. k \in S \ {n} /\ k \in Node /\ k \in Ref
      BY <1>a, <2>2
    <3>2. old(k) = k
      BY <2>2
    <3>3. f[k] = h[k] /\ r.color[k] = t.color[k] /\ (k = r.root => k = t.root)
      BY <1>2, <1>g, <1>j, <2>2, <3>1
    <3>4. \A b \in Side : r.child[b][k] = IF t.child[b][k] = n THEN m ELSE t.child[b][k]
      BY <1>h, <3>1
    <3>5. r.p[k] = IF t.p[k] = n THEN m ELSE t.p[k]
      BY <1>i, <3>1
    <3>6. old(k) \in S /\ f[k] = h[old(k)] /\ r.color[k] = t.color[old(k)] /\ (k = r.root => old(k) = t.root)
      BY <3>1, <3>2, <3>3, Zenon
    <3>7. (old(k) # t.root => r.p[k] = IF t.p[old(k)] = n THEN m ELSE t.p[old(k)])
      BY <3>2, <3>5, Zenon
    <3>8. \A b \in Side : r.child[b][k] = IF t.child[b][old(k)] = n THEN m ELSE t.child[b][old(k)]
      BY <3>2, <3>4, Zenon
    <3>9. (k = m <=> old(k) = n) /\ (k # m => old(k) = k)
      BY <2>2, <3>1, <3>2
    <3>. HIDE DEF old
    <3>. QED
      BY <3>6, <3>7, <3>8, <3>9, Zenon
  <2>. QED
    BY <2>1, <2>2
<1>5. Nil \in X => \A k \in T : k = r.p[Nil] <=> old(k) = t.p[Nil]
  <2>1. SUFFICES ASSUME Nil \in X, NEW k \in T
                 PROVE  k = r.p[Nil] <=> old(k) = t.p[Nil]
    OBVIOUS
  <2>2. t.p[Nil] \in S \cup {Nil}
    BY <2>1 DEF Hole
  <2>. QED
    BY <1>a, <1>1, <1>4, <1>i, <2>2
<1>6. ASSUME NEW k \in T, NEW b \in Side
      PROVE  f[k] = Below(r, X, f, k, r.child[b][k])
  <2>. DEFINE j == old(k)
              c == t.child[b][j]
  <2>1. /\ j \in S /\ f[k] = h[j] /\ r.child[b][k] = IF c = n THEN m ELSE c
    BY <1>4
  <2>2. h[j] = Below(t, X, h, j, c) /\ c \in S \cup {Nil}
    BY <1>b, <1>e, <2>1
  <2>3. Nil \in X => (k = r.p[Nil] <=> j = t.p[Nil])
    BY <1>5
  <2>. HIDE DEF j, c, old
  <2>4. CASE c = n
    BY <1>1, <1>2, <1>3, <2>1, <2>2, <2>4 DEF Below
  <2>5. CASE c = Nil
    BY <1>1, <2>1, <2>2, <2>3, <2>5 DEF Below
  <2>6. CASE c # n /\ c # Nil
    <3>1. c \in S \ {n} /\ f[c] = h[c]
      BY <1>a, <1>1, <1>2, <2>2, <2>6
    <3>. QED
      BY <1>3, <2>1, <2>2, <2>6, <3>1 DEF Below
  <2>. QED
    BY <2>4, <2>5, <2>6
<1>7. ASSUME NEW k \in T, r.color[k] = "red", k \notin X
      PROVE  k # r.root /\ (r.color[r.p[k]] = "red" => r.p[k] \in X)
  <2>. DEFINE j == old(k)
  <2>1. /\ j \in S /\ t.color[j] = "red" /\ j \notin X
        /\ j # t.root => r.p[k] = IF t.p[j] = n THEN m ELSE t.p[j]
        /\ k = r.root => j = t.root
    BY <1>4, <1>7
  <2>. HIDE DEF j
  <2>2. j # t.root /\ (t.color[t.p[j]] = "red" => t.p[j] \in X) /\ t.p[j] \in S
    BY <1>d, <1>f, <2>1
  <2>3. CASE t.p[j] = n
    <3>1. t.color[n] # "red" /\ r.p[k] = m
      BY <2>1, <2>2, <2>3
    <3>. QED
      BY <1>a, <1>1, <1>j, <2>1, <2>2, <3>1
  <2>4. CASE t.p[j] # n
    <3>1. r.p[k] = t.p[j] /\ t.p[j] # m
      BY <1>1, <2>1, <2>2, <2>4
    <3>. QED
      BY <1>a, <1>j, <2>1, <2>2, <3>1
  <2>. QED
    BY <2>3, <2>4
<1>8. ASSUME Nil \in X
      PROVE  Hole(r, T)
  <2>1. CASE t.p[Nil] = Nil /\ t.root = Nil
    BY <1>1, <1>g, <1>i, <2>1 DEF Hole
  <2>2. ASSUME t.p[Nil] \in S, NEW s \in Side,
               t.child[s][t.p[Nil]] = Nil, t.child[Other(s)][t.p[Nil]] # Nil
        PROVE  Hole(r, T)
    <3>. DEFINE k == r.p[Nil]
    <3>1. k = IF t.p[Nil] = n THEN m ELSE t.p[Nil]
      BY <1>i
    <3>2. k \in T /\ old(k) = t.p[Nil]
      BY <1>1, <2>2, <3>1
    <3>3. r.child[s][k] = Nil /\ r.child[Other(s)][k] # Nil
      <4>1. \A b \in Side : r.child[b][k] = IF t.child[b][t.p[Nil]] = n THEN m ELSE t.child[b][t.p[Nil]]
        BY <1>4, <3>2
      <4>. QED
        BY <1>1, <2>2, <4>1, Sides, Zenon
    <3>. QED
      BY <3>2, <3>3 DEF Hole
  <2>. QED
    BY <1>8, <2>1, <2>2, Zenon DEF Hole
<1>9. r.color[Nil] = "black"
  BY <1>a, <1>1, <1>f, <1>j
<1>. QED
  BY <1>2, <1>6, <1>7, <1>8, <1>9, Zenon DEF Even, Reds, f

-----------------------------------------------------------------------------
\* No path is longer for what the root weighs.
LEMMA RootIsFree ==
  ASSUME NEW t, NEW S, Kin(t, S), NEW h
  PROVE  Even(t, S, {}, h) <=> Even(t, S, {t.root}, h)
<1>1. ASSUME NEW k \in S, NEW b \in Side
      PROVE  Below(t, {}, h, k, t.child[b][k]) = Below(t, {t.root}, h, k, t.child[b][k])
  <2>1. t.child[b][k] = Nil \/ t.child[b][k] # t.root
    BY DEF Kin
  <2>2. t.root # Nil
    BY DEF Kin
  <2>. QED
    BY <2>1, <2>2 DEF Below, Wt
<1>. QED
  BY <1>1, Zenon DEF Even

\* A node turns black: the root, or one that counted as black already.
LEMMA PaintBlack ==
  ASSUME NEW t \in TreeType, NEW S, Kin(t, S), NEW h, NEW X, NEW Z, Even(t, S, X, h), Reds(t, S, X, Z),
         NEW k, X \subseteq {k}, Z \subseteq {k}, k \in S \cup {Nil},
         k = t.root \/ (X = {k} /\ t.color[k] = "red"),
         NEW r \in TreeType, r.root = t.root, r.child = t.child, r.p = t.p,
         \A j \in Ref : r.color[j] = IF j = k THEN "black" ELSE t.color[j]
  PROVE  Even(r, S, {}, h) /\ Reds(r, S, {}, {})
<1>a. S \in SUBSET Node /\ Nil \notin S /\ Nil \in Ref /\ Node \subseteq Ref /\ (t.root = Nil => S = {})
  BY DEF Kin
<1>b. \A j \in S, b \in Side : t.child[b][j] \in S \cup {Nil}
  BY DEF Kin
<1>c. \A j \in S, b \in Side : t.child[b][j] # Nil => t.child[b][j] # t.root
  BY DEF Kin
<1>d. \A j \in S : j # t.root => t.p[j] \in S
  BY DEF Kin
<1>e. /\ h \in [Node -> Nat]
      /\ \A j \in S, b \in Side : h[j] = Below(t, X, h, j, t.child[b][j])
  BY DEF Even
<1>f. /\ t.color[Nil] = "black"
      /\ \A j \in S : t.color[j] = "red" /\ j \notin X \cup Z =>
           j # t.root /\ (t.color[t.p[j]] = "red" => t.p[j] \in X)
  BY DEF Reds
<1>1. S # {} => k # Nil
  BY <1>a, <1>f
<1>2. ASSUME NEW j \in S, NEW b \in Side
      PROVE  h[j] = Below(r, {}, h, j, r.child[b][j])
  <2>. DEFINE c == t.child[b][j]
  <2>1. h[j] = Below(t, X, h, j, c) /\ r.child[b][j] = c /\ c \in S \cup {Nil}
        /\ (c # Nil => c # t.root)
    BY <1>b, <1>c, <1>e
  <2>. HIDE DEF c
  <2>2. k # Nil
    BY <1>1
  <2>3. CASE c = Nil
    BY <2>1, <2>2, <2>3 DEF Below
  <2>4. CASE c # Nil /\ c = k
    <3>1. X = {k} /\ t.color[k] = "red" /\ r.color[k] = "black"
      BY <1>a, <2>1, <2>4
    <3>2. Wt(r, {}, c) = 1 /\ Wt(t, X, c) = 1
      BY <2>4, <3>1 DEF Wt
    <3>. QED
      BY <2>1, <2>4, <3>2 DEF Below
  <2>5. CASE c # Nil /\ c # k
    <3>1. r.color[c] = t.color[c] /\ c \notin X
      BY <1>a, <2>1, <2>5
    <3>. QED
      BY <2>1, <2>5, <3>1 DEF Below, Wt
  <2>. QED
    BY <2>3, <2>4, <2>5
<1>3. ASSUME NEW j \in S, r.color[j] = "red"
      PROVE  j # r.root /\ r.color[r.p[j]] # "red"
  <2>1. j # k /\ t.color[j] = "red" /\ j \notin X \cup Z
    BY <1>a, <1>3
  <2>2. j # t.root /\ (t.color[t.p[j]] = "red" => t.p[j] \in X) /\ t.p[j] \in S
    BY <1>d, <1>f, <2>1
  <2>. QED
    BY <1>a, <2>2
<1>4. r.color[Nil] = "black"
  BY <1>a, <1>f
<1>. QED
  BY <1>e, <1>2, <1>3, <1>4 DEF Even, Reds

\* insert_fixup() may stop: the only red node that may break the rule keeps it, or is the root.
LEMMA NoExemption ==
  ASSUME NEW t, NEW S, NEW z0, z0 \in S, t.color[t.p[z0]] # "red", Reds(t, S, {}, {z0})
  PROVE  Reds(t, S, {}, IF z0 = t.root THEN {z0} ELSE {})
BY DEF Reds

-----------------------------------------------------------------------------
(* Walks along the links.                                                  *)

\* A loop that follows nx until it stops is a function, whether it stops or not:
\* where a walk ends is in every set that is closed under the walk.
Walks(f, N, nx, Stop, out) == f = [m \in N |-> IF m \in Stop THEN out[m] ELSE f[nx[m]]]

\* There is such a function.
LEMMA WalksExist ==
  ASSUME NEW N, NEW nx, NEW Stop, NEW out, \A m \in N : m \notin Stop => nx[m] \in N
  PROVE  \E f : Walks(f, N, nx, Stop, out)
<1>. DEFINE Closed(C) == \A k \in C : k \notin Stop => nx[k] \in C
            Ends(m) == {e \in N \cap Stop : \A C \in SUBSET N : m \in C /\ Closed(C) => e \in C}
            val(E) == CHOOSE v : \E e \in E : v = out[e]
            f == [m \in N |-> val(Ends(m))]
<1>1. ASSUME NEW m \in N, m \in Stop
      PROVE  f[m] = out[m]
  <2>1. Ends(m) \subseteq {m}
    <3>1. {m} \in SUBSET N /\ m \in {m} /\ Closed({m})
      BY <1>1
    <3>. QED
      BY <3>1, Zenon
  <2>2. m \in Ends(m)
    BY <1>1
  <2>3. Ends(m) = {m}
    BY <2>1, <2>2
  <2>4. f[m] = val({m})
    BY <2>3
  <2>5. val({m}) = out[m]
    OBVIOUS
  <2>. QED
    BY <2>4, <2>5
<1>2. ASSUME NEW m \in N, m \notin Stop
      PROVE  f[m] = f[nx[m]]
  <2>0. nx[m] \in N
    BY <1>2
  <2>1. ASSUME NEW e \in Ends(m)
        PROVE  e \in Ends(nx[m])
    <3>1. SUFFICES ASSUME NEW C \in SUBSET N, nx[m] \in C, Closed(C)
                   PROVE  e \in C
      OBVIOUS
    <3>2. C \cup {m} \in SUBSET N /\ m \in C \cup {m} /\ Closed(C \cup {m})
      BY <3>1
    <3>3. e \in C \cup {m} /\ e # m
      BY <1>2, <3>2, Zenon
    <3>. QED
      BY <3>3
  <2>2. ASSUME NEW e \in Ends(nx[m])
        PROVE  e \in Ends(m)
    <3>1. SUFFICES ASSUME NEW C \in SUBSET N, m \in C, Closed(C)
                   PROVE  e \in C
      OBVIOUS
    <3>2. nx[m] \in C
      BY <1>2, <3>1
    <3>. QED
      BY <3>1, <3>2
  <2>3. Ends(m) = Ends(nx[m])
    <3>. HIDE DEF Ends
    <3>. QED
      BY <2>1, <2>2
  <2>. HIDE DEF Ends, val
  <2>. QED
    BY <2>0, <2>3
<1>3. f = [m \in N |-> IF m \in Stop THEN out[m] ELSE f[nx[m]]]
  <2>. DEFINE F == [m \in N |-> IF m \in Stop THEN out[m] ELSE f[nx[m]]]
  <2>1. \A m \in N : f[m] = F[m]
    <3>. HIDE DEF f
    <3>. QED
      BY <1>1, <1>2
  <2>2. DOMAIN f = N /\ DOMAIN F = N
    OBVIOUS
  <2>. QED
    BY <2>1, <2>2, Zenon
<1>. QED
  BY <1>3, Zenon DEF Walks

\* One step of minimum() and maximum().
LEMMA ExtremeStep ==
  ASSUME NEW t \in TreeType, NEW s \in Side, NEW n \in Node
  PROVE  /\ t.child[s][n] = Nil => Extreme(t, s, n) = n
         /\ t.child[s][n] # Nil => Extreme(t, s, n) = Extreme(t, s, t.child[s][n])
<1>. DEFINE Def(f) == [m \in Node |-> IF t.child[s][m] = Nil THEN m ELSE f[t.child[s][m]]]
            g == CHOOSE f : f = Def(f)
<1>1. \A m : Extreme(t, s, m) = g[m]
  BY Zenon DEF Extreme
<1>2. \E f : f = Def(f)
  <2>. DEFINE N == Node
              Stop == {m \in Node : t.child[s][m] = Nil}
              nx == t.child[s]
              out == [m \in Node |-> m]
  <2>1. \A m \in N : m \notin Stop => nx[m] \in N
    BY NilIsNoNode DEF TreeType, Ref
  <2>2. PICK f : Walks(f, N, nx, Stop, out)
    <3>. HIDE DEF N, Stop, nx, out
    <3>. QED
      BY <2>1, WalksExist, Zenon
  <2>3. f = Def(f)
    BY <2>2 DEF Walks
  <2>. QED
    BY <2>3
<1>3. g = Def(g)
  BY <1>2, Zenon
<1>. HIDE DEF g
<1>4. g[n] = Def(g)[n]
  BY <1>3
<1>. QED
  BY <1>1, <1>4

\* successor() and predecessor(): down on one side if there is a child, else up.
LEMMA NeighbourStep ==
  ASSUME NEW t \in TreeType, NEW s \in Side
  PROVE  \E climb :
           /\ \A m \in Node :
                /\ t.p[m] # Nil /\ m = t.child[s][t.p[m]] => climb[m] = climb[t.p[m]]
                /\ ~(t.p[m] # Nil /\ m = t.child[s][t.p[m]]) => climb[m] = t.p[m]
           /\ \A m \in Node :
                /\ t.child[s][m] # Nil => Neighbour(t, s, m) = Extreme(t, Other(s), t.child[s][m])
                /\ t.child[s][m] = Nil => Neighbour(t, s, m) = climb[m]
<1>. DEFINE Def(f) == [m \in Node |-> IF t.p[m] # Nil /\ m = t.child[s][t.p[m]] THEN f[t.p[m]] ELSE t.p[m]]
            g == CHOOSE f : f = Def(f)
<1>1. \A m : Neighbour(t, s, m) = IF t.child[s][m] # Nil THEN Extreme(t, Other(s), t.child[s][m]) ELSE g[m]
  BY Zenon DEF Neighbour
<1>2. \E f : f = Def(f)
  <2>. DEFINE N == Node
              Stop == {m \in Node : ~(t.p[m] # Nil /\ m = t.child[s][t.p[m]])}
              nx == t.p
  <2>1. \A m \in N : m \notin Stop => nx[m] \in N
    BY NilIsNoNode DEF TreeType, Ref
  <2>2. PICK f : Walks(f, N, nx, Stop, nx)
    <3>. HIDE DEF N, Stop, nx
    <3>. QED
      BY <2>1, WalksExist
  <2>3. f = Def(f)
    BY <2>2 DEF Walks
  <2>. QED
    BY <2>3
<1>3. g = Def(g)
  BY <1>2, Zenon
<1>. HIDE DEF g
<1>4. \A m \in Node : g[m] = Def(g)[m]
  BY <1>3
<1>5. \A m \in Node :
        /\ t.p[m] # Nil /\ m = t.child[s][t.p[m]] => g[m] = g[t.p[m]]
        /\ ~(t.p[m] # Nil /\ m = t.child[s][t.p[m]]) => g[m] = t.p[m]
  BY <1>4
<1>. QED
  BY <1>1, <1>5

-----------------------------------------------------------------------------
(* Inductions over the nodes, from the leaves up and from the root down.   *)

\* There are fewer nodes below a child than below the node.
LEMMA UnderSizes ==
  ASSUME NEW t \in TreeType, NEW S, NEW under, NEW pos, Laid(t, S, under, pos)
  PROVE  /\ IsFiniteSet(S) /\ Cardinality(S) \in Nat
         /\ \A n \in S : Cardinality(under[n]) \in Nat /\ Cardinality(under[n]) <= Cardinality(S)
         /\ \A n \in S, b \in Side :
              t.child[b][n] # Nil => Cardinality(under[t.child[b][n]]) < Cardinality(under[n])
<1>. DEFINE s == "left"
            o == "right"
<1>1. s \in Side /\ o \in Side /\ o = Other(s) /\ \A b \in Side : b = s \/ b = o
  BY DEF Side, Other
<1>. HIDE DEF s, o
<1>2. Tied(t, S, under, pos, s, o)
  BY <1>1, NodeIs
<1>3. S \in SUBSET Node /\ IsFiniteSet(S) /\ Cardinality(S) \in Nat
  BY <1>2, NodeAssumption, FS_Subset, FS_CardinalityType DEF Tied
<1>4. ASSUME NEW n \in S
      PROVE  /\ IsFiniteSet(under[n]) /\ under[n] \subseteq S
             /\ Cardinality(under[n]) \in Nat /\ Cardinality(under[n]) <= Cardinality(S)
  <2>1. under[n] \subseteq S
    BY <1>2, Zenon DEF Tied, FitsFrom
  <2>. QED
    BY <1>3, <2>1, FS_Subset, FS_CardinalityType
<1>5. ASSUME NEW n \in S, NEW b \in Side, t.child[b][n] # Nil
      PROVE  Cardinality(under[t.child[b][n]]) < Cardinality(under[n])
  <2>. DEFINE c == t.child[b][n]
  <2>1. c \in S
    BY <1>2, <1>5 DEF Tied
  <2>2. n \in under[n] /\ n \notin under[c] /\ under[c] \subseteq under[n]
    BY <1>1, <1>2 DEF Tied, FitsFrom
  <2>. HIDE DEF c
  <2>3. under[c] # under[n] /\ under[c] \in SUBSET under[n]
    BY <2>2
  <2>4. Cardinality(under[c]) <= Cardinality(under[n]) /\ Cardinality(under[c]) # Cardinality(under[n])
    BY <1>4, <2>3, FS_Subset
  <2>. QED
    BY <1>4, <2>1, <2>4 DEF c
<1>. QED
  BY <1>3, <1>4, <1>5

\* A set that has every node whose children it has has all nodes ...
LEMMA InductionUp ==
  ASSUME NEW t \in TreeType, NEW S, NEW under, NEW pos, Laid(t, S, under, pos), NEW P,
         \A n \in S : (\A b \in Side : t.child[b][n] # Nil => t.child[b][n] \in P) => n \in P
  PROVE  S \subseteq P
<1>. DEFINE T == {Cardinality(under[n]) : n \in S \ P}
<1>1. SUFFICES ASSUME S \ P # {} PROVE FALSE
  OBVIOUS
<1>2. T \in SUBSET Nat /\ T # {}
  BY <1>1, UnderSizes
<1>3. PICK i \in T : \A j \in T : i <= j
  <2>. HIDE DEF T
  <2>. QED
    BY <1>2, LeastNat
<1>4. PICK n \in S \ P : i = Cardinality(under[n])
  BY <1>3
<1>5. ASSUME NEW b \in Side, t.child[b][n] # Nil
      PROVE  t.child[b][n] \in P
  <2>1. t.child[b][n] \in S
    BY <1>5, KinIs DEF Kin
  <2>2. Cardinality(under[t.child[b][n]]) < i
    BY <1>4, <1>5, UnderSizes
  <2>3. t.child[b][n] \notin P => Cardinality(under[t.child[b][n]]) \in T
    BY <2>1
  <2>. QED
    BY <1>2, <1>3, <2>2, <2>3
<1>. QED
  BY <1>4, <1>5

\* ... as has a set that has every node whose parent it has.
LEMMA InductionDown ==
  ASSUME NEW t \in TreeType, NEW S, NEW under, NEW pos, Laid(t, S, under, pos), NEW P,
         \A n \in S : (n # t.root => t.p[n] \in P) => n \in P
  PROVE  S \subseteq P
<1>. DEFINE T == {Cardinality(S) - Cardinality(under[n]) : n \in S \ P}
<1>1. SUFFICES ASSUME S \ P # {} PROVE FALSE
  OBVIOUS
<1>2. T \in SUBSET Nat /\ T # {}
  <2>1. \A n \in S : Cardinality(S) - Cardinality(under[n]) \in Nat
    BY UnderSizes
  <2>. QED
    BY <1>1, <2>1
<1>3. PICK i \in T : \A j \in T : i <= j
  <2>. HIDE DEF T
  <2>. QED
    BY <1>2, LeastNat
<1>4. PICK n \in S \ P : i = Cardinality(S) - Cardinality(under[n])
  BY <1>3
<1>5. n # t.root => t.p[n] \in P
  <2>1. SUFFICES ASSUME n # t.root, t.p[n] \notin P PROVE FALSE
    OBVIOUS
  <2>. DEFINE q == t.p[n]
  <2>2. q \in S /\ \E b \in Side : n = t.child[b][q]
    BY <2>1, KinIs DEF Kin
  <2>3. q \notin P
    BY <2>1
  <2>. HIDE DEF q
  <2>4. n # Nil
    BY KinIs DEF Kin
  <2>5. Cardinality(under[n]) < Cardinality(under[q])
    BY <2>2, <2>4, UnderSizes
  <2>6. Cardinality(S) - Cardinality(under[q]) \in T
    BY <2>2, <2>3
  <2>7. Cardinality(S) \in Nat /\ Cardinality(under[q]) \in Nat /\ Cardinality(under[n]) \in Nat
    BY <1>4, <2>2, UnderSizes
  <2>8. Cardinality(S) - Cardinality(under[n]) <= Cardinality(S) - Cardinality(under[q])
    BY <1>3, <1>4, <2>6
  <2>. QED
    BY <2>5, <2>7, <2>8
<1>. QED
  BY <1>4, <1>5

\* All that is linked to a node, on a side s and on the other.
Both(t, S, under, pos, n, s, o, c, d) ==
  /\ n \in S /\ n \in Node /\ n # Nil /\ c = t.child[s][n] /\ d = t.child[o][n]
  /\ c \in S \cup {Nil} /\ d \in S \cup {Nil}
  /\ under[n] = {n} \cup under[c] \cup under[d] /\ under[n] \subseteq S
  /\ n \notin under[c] /\ n \notin under[d]
  /\ \A k \in under[c] : Apart(pos, s, k, n) /\ Apart(pos, o, n, k)
  /\ \A k \in under[d] : Apart(pos, o, k, n) /\ Apart(pos, s, n, k)
  /\ \A j \in under[c], k \in under[d] : Apart(pos, s, j, k) /\ Apart(pos, o, k, j)

\* What is laid is so.
LEMMA BothSides ==
  ASSUME NEW t \in TreeType, NEW S, NEW under, NEW pos, Laid(t, S, under, pos), NEW n \in S,
         NEW s \in Side, NEW o, o = Other(s)
  PROVE  Both(t, S, under, pos, n, s, o, t.child[s][n], t.child[o][n])
<1>. DEFINE c == t.child[s][n]
            d == t.child[o][n]
<1>1. o \in Side /\ o # s /\ \A b \in Side : b = s \/ b = o
  BY Sides
<1>2. Tied(t, S, under, pos, s, o)
  BY <1>1, NodeIs
<1>3. FitsFrom(t, S, under, pos, n, s, o)
  BY <1>2 DEF Tied
<1>4. c \in S \cup {Nil} /\ d \in S \cup {Nil} /\ n \notin under[c] /\ n \notin under[d]
  BY <1>2 DEF Tied
<1>5. /\ under[n] = {n} \cup under[c] \cup under[d] /\ under[n] \subseteq S
      /\ \A k \in under[c] : Apart(pos, s, k, n)
      /\ \A k \in under[d] : Apart(pos, s, n, k)
  BY <1>3 DEF FitsFrom
<1>. HIDE DEF c, d
<1>6. S \in SUBSET Node /\ pos \in [Node -> Int] /\ n # Nil /\ n \in Node
  BY <1>2 DEF Tied
<1>7. under[c] \subseteq Node /\ under[d] \subseteq Node
  BY <1>5, <1>6
<1>8. \A a, b \in Node : Apart(pos, o, a, b) <=> Apart(pos, s, b, a)
  BY <1>6, ApartIs
<1>9. \A a, b, e \in Node : Apart(pos, s, a, b) /\ Apart(pos, s, b, e) => Apart(pos, s, a, e)
  BY <1>6, ApartIs
<1>10. \A k \in under[c] : Apart(pos, s, k, n) /\ Apart(pos, o, n, k)
  BY <1>5, <1>6, <1>7, <1>8
<1>11. \A k \in under[d] : Apart(pos, o, k, n) /\ Apart(pos, s, n, k)
  BY <1>5, <1>6, <1>7, <1>8
<1>12. \A j \in under[c], k \in under[d] : Apart(pos, s, j, k) /\ Apart(pos, o, k, j)
  <2>1. SUFFICES ASSUME NEW j \in under[c], NEW k \in under[d]
                 PROVE  Apart(pos, s, j, k) /\ Apart(pos, o, k, j)
    OBVIOUS
  <2>2. j \in Node /\ k \in Node /\ Apart(pos, s, j, n) /\ Apart(pos, s, n, k)
    BY <1>5, <1>7
  <2>3. Apart(pos, s, j, k)
    BY <1>6, <1>9, <2>2
  <2>. QED
    BY <1>8, <2>2, <2>3
<1>. QED
  BY <1>4, <1>5, <1>6, <1>10, <1>11, <1>12 DEF Both, c, d

\* The nodes below a node are neighbours: any other one is on one side of all of them.
OneSide(S, under, pos, n) ==
  \A k \in S : k \notin under[n] => \E b \in Side : \A a \in under[n] : Apart(pos, b, a, k)

\* No other node is between the nodes below one.
LEMMA SubtreesAreConvex ==
  ASSUME NEW t \in TreeType, NEW S, NEW under, NEW pos, Laid(t, S, under, pos)
  PROVE  \A n \in S : OneSide(S, under, pos, n)
<1>. DEFINE P == {n \in S : OneSide(S, under, pos, n)}
<1>1. ASSUME NEW n \in S, n # t.root => t.p[n] \in P
      PROVE  n \in P
  <2>1. CASE n = t.root
    <3>1. under[n] = S
      BY <2>1, KinIs DEF Laid, Kin
    <3>. QED
      BY <3>1 DEF OneSide
  <2>2. CASE n # t.root
    <3>. DEFINE q == t.p[n]
    <3>1. q \in S /\ OneSide(S, under, pos, q)
      BY <1>1, <2>2
    <3>2. PICK b \in Side : n = t.child[b][q]
      BY <2>2, KinIs DEF Kin
    <3>. HIDE DEF q
    <3>. DEFINE o == Other(b)
                d == t.child[o][q]
    <3>3. Both(t, S, under, pos, q, b, o, n, d)
      BY <3>1, <3>2, BothSides
    <3>4. o \in Side
      BY Sides
    <3>. HIDE DEF o, d
    <3>5. ASSUME NEW k \in S, k \notin under[n]
          PROVE  \E e \in Side : \A a \in under[n] : Apart(pos, e, a, k)
      <4>1. under[q] = {q} \cup under[n] \cup under[d]
        BY <3>3 DEF Both
      <4>2. CASE k \notin under[q]
        BY <3>1, <4>1, <4>2 DEF OneSide
      <4>3. CASE k = q
        <5>1. \A a \in under[n] : Apart(pos, b, a, k)
          BY <3>3, <4>3 DEF Both
        <5>. QED
          BY <5>1
      <4>4. CASE k \in under[d]
        <5>1. \A a \in under[n] : Apart(pos, b, a, k)
          BY <3>3, <4>4 DEF Both
        <5>. QED
          BY <5>1
      <4>. QED
        BY <3>5, <4>1, <4>2, <4>3, <4>4
    <3>. QED
      BY <3>5 DEF OneSide
  <2>. QED
    BY <2>1, <2>2
<1>. HIDE DEF P
<1>2. S \subseteq P
  BY <1>1, InductionDown
<1>. QED
  BY <1>2 DEF P

\* Where minimum() and maximum() arrive.
IsExtreme(t, under, pos, s, n, e) ==
  /\ e \in under[n] /\ t.child[s][e] = Nil
  /\ \A k \in under[n] : k # e => Apart(pos, s, e, k)

\* minimum() and maximum() return the outermost node below a node.
LEMMA ExtremeIs ==
  ASSUME NEW t \in TreeType, NEW S, NEW under, NEW pos, Laid(t, S, under, pos), NEW s \in Side
  PROVE  \A n \in S : IsExtreme(t, under, pos, s, n, Extreme(t, s, n))
<1>. DEFINE P == {n \in S : IsExtreme(t, under, pos, s, n, Extreme(t, s, n))}
            o == Other(s)
<1>1. ASSUME NEW n \in S, \A b \in Side : t.child[b][n] # Nil => t.child[b][n] \in P
      PROVE  n \in P
  <2>. DEFINE c == t.child[s][n]
              d == t.child[o][n]
  <2>1. Both(t, S, under, pos, n, s, o, c, d)
    BY BothSides
  <2>2. n \in Node /\ (c = Nil => Extreme(t, s, n) = n) /\ (c # Nil => Extreme(t, s, n) = Extreme(t, s, c))
    BY <2>1, ExtremeStep DEF Both
  <2>3. under[Nil] = {}
    BY DEF Laid
  <2>4. t.child[s][n] = c
    OBVIOUS
  <2>5. c # Nil => c \in P
    BY <1>1
  <2>. HIDE DEF c, d, o
  <2>6. CASE c = Nil
    BY <2>1, <2>2, <2>3, <2>4, <2>6, Zenon DEF Both, IsExtreme
  <2>7. CASE c # Nil
    <3>. DEFINE e == Extreme(t, s, c)
    <3>1. IsExtreme(t, under, pos, s, c, e)
      BY <2>5, <2>7
    <3>. HIDE DEF e
    <3>2. e \in under[c] /\ t.child[s][e] = Nil /\ e \in under[n]
      BY <2>1, <3>1 DEF Both, IsExtreme
    <3>3. ASSUME NEW k \in under[n], k # e
          PROVE  Apart(pos, s, e, k)
      <4>1. CASE k \in under[c]
        BY <3>1, <3>3, <4>1 DEF IsExtreme
      <4>2. CASE k = n
        BY <2>1, <3>2, <4>2 DEF Both
      <4>3. CASE k \in under[d]
        BY <2>1, <3>2, <4>3 DEF Both
      <4>. QED
        BY <2>1, <4>1, <4>2, <4>3 DEF Both
    <3>4. IsExtreme(t, under, pos, s, n, e)
      BY <3>2, <3>3 DEF IsExtreme
    <3>. QED
      BY <2>2, <2>7, <3>4 DEF e
  <2>. QED
    BY <2>6, <2>7
<1>. HIDE DEF P
<1>2. S \subseteq P
  BY <1>1, InductionUp
<1>. QED
  BY <1>2 DEF P

\* r follows n on the side s: nothing is between them.
Follows(S, pos, s, o, n, r) ==
  /\ r = Nil => \A k \in S : k # n => Apart(pos, o, k, n)
  /\ r # Nil => /\ r \in S /\ r # n /\ Apart(pos, o, n, r)
                /\ \A k \in S : k \notin {n, r} => Apart(pos, o, k, n) \/ Apart(pos, o, r, k)

\* ... where the climb from n arrives, on that side of all nodes below n.
Climbs(S, under, pos, s, o, n, r) ==
  /\ r = Nil => \A k \in S : k \notin under[n] => \A a \in under[n] : Apart(pos, o, k, a)
  /\ r # Nil => /\ r \in S /\ r \notin under[n]
                /\ \A a \in under[n] : Apart(pos, o, a, r)
                /\ \A k \in S : k \notin under[n] /\ k # r =>
                     Apart(pos, o, r, k) \/ \A a \in under[n] : Apart(pos, o, k, a)

\* Where the climb of successor() and predecessor() arrives.
LEMMA ClimbIs ==
  ASSUME NEW t \in TreeType, NEW S, NEW under, NEW pos, Laid(t, S, under, pos), NEW s \in Side,
         NEW o, o = Other(s), NEW climb,
         \A m \in Node :
           /\ t.p[m] # Nil /\ m = t.child[s][t.p[m]] => climb[m] = climb[t.p[m]]
           /\ ~(t.p[m] # Nil /\ m = t.child[s][t.p[m]]) => climb[m] = t.p[m]
  PROVE  \A n \in S : Climbs(S, under, pos, s, o, n, climb[n])
<1>. DEFINE P == {n \in S : Climbs(S, under, pos, s, o, n, climb[n])}
<1>a. S \subseteq Node /\ pos \in [Node -> Int] /\ Nil \notin S
  BY NilIsNoNode DEF Laid
<1>1. ASSUME NEW n \in S, n # t.root => t.p[n] \in P
      PROVE  n \in P
  <2>1. CASE n = t.root
    <3>1. under[n] = S /\ t.p[n] = Nil
      BY <2>1, KinIs DEF Laid, Kin
    <3>2. climb[n] = Nil
      BY <1>a, <3>1
    <3>. QED
      BY <3>1, <3>2 DEF Climbs
  <2>2. CASE n # t.root
    <3>. DEFINE q == t.p[n]
    <3>1. q \in S /\ Climbs(S, under, pos, s, o, q, climb[q]) /\ q # Nil
      BY <1>1, <1>a, <2>2
    <3>2. \E b \in Side : n = t.child[b][q]
      BY <2>2, KinIs DEF Kin
    <3>3. /\ n = t.child[s][q] => climb[n] = climb[q]
          /\ n # t.child[s][q] => climb[n] = q
      BY <1>a, <3>1
    <3>. HIDE DEF q
    <3>4. CASE n = t.child[s][q]
      <4>. DEFINE d == t.child[o][q]
                  r == climb[q]
      <4>1. Both(t, S, under, pos, q, s, o, n, d)
        BY <3>1, <3>4, BothSides
      <4>. HIDE DEF d, r
      <4>2. under[q] = {q} \cup under[n] \cup under[d]
        BY <4>1 DEF Both
      <4>3. \A k \in under[q] : k \notin under[n] => \A a \in under[n] : Apart(pos, o, k, a)
        BY <4>1, <4>2 DEF Both
      <4>4. Climbs(S, under, pos, s, o, q, r)
        BY <3>1 DEF r
      <4>5. Climbs(S, under, pos, s, o, n, r)
        <5>1. CASE r = Nil
          BY <4>2, <4>3, <4>4, <5>1 DEF Climbs
        <5>2. CASE r # Nil
          <6>1. r \in S /\ r \notin under[n] /\ \A a \in under[n] : Apart(pos, o, a, r)
            BY <4>2, <4>4, <5>2 DEF Climbs
          <6>2. ASSUME NEW k \in S, k \notin under[n], k # r
                PROVE  Apart(pos, o, r, k) \/ \A a \in under[n] : Apart(pos, o, k, a)
            <7>1. CASE k \in under[q]
              BY <4>3, <6>2, <7>1
            <7>2. CASE k \notin under[q]
              BY <4>2, <4>4, <5>2, <6>2, <7>2 DEF Climbs
            <7>. QED
              BY <7>1, <7>2
          <6>. QED
            BY <5>2, <6>1, <6>2 DEF Climbs
        <5>. QED
          BY <5>1, <5>2
      <4>. QED
        BY <3>3, <3>4, <4>5 DEF r
    <3>5. CASE n # t.child[s][q]
      <4>. DEFINE c == t.child[s][q]
      <4>1. n = t.child[o][q]
        BY <3>2, <3>5, Sides
      <4>2. Both(t, S, under, pos, q, s, o, c, n)
        BY <3>1, <4>1, BothSides
      <4>. HIDE DEF c
      <4>3. under[q] = {q} \cup under[c] \cup under[n] /\ q \notin under[n] /\ under[q] \subseteq S
        BY <4>2 DEF Both
      <4>4. \A a \in under[n] : Apart(pos, o, a, q)
        BY <4>2 DEF Both
      <4>5. ASSUME NEW k \in S, k \notin under[n], k # q
            PROVE  Apart(pos, o, q, k) \/ \A a \in under[n] : Apart(pos, o, k, a)
        <5>1. CASE k \in under[q]
          BY <4>2, <4>3, <4>5, <5>1 DEF Both
        <5>2. CASE k \notin under[q]
          <6>1. OneSide(S, under, pos, q)
            BY <3>1, SubtreesAreConvex
          <6>2. PICK b \in Side : \A a \in under[q] : Apart(pos, b, a, k)
            BY <5>2, <6>1 DEF OneSide
          <6>3. CASE b = o
            BY <4>3, <6>2, <6>3
          <6>4. CASE b = s
            <7>1. \A i, j \in Node : Apart(pos, o, i, j) <=> Apart(pos, s, j, i)
              BY <1>a, ApartIs
            <7>2. \A a \in under[n] : a \in Node /\ Apart(pos, s, a, k)
              BY <1>a, <4>3, <6>2, <6>4
            <7>. QED
              BY <1>a, <7>1, <7>2
          <6>. QED
            BY <6>3, <6>4, Sides
        <5>. QED
          BY <5>1, <5>2
      <4>. QED
        BY <3>1, <3>3, <3>5, <4>3, <4>4, <4>5 DEF Climbs
    <3>. QED
      BY <3>4, <3>5
  <2>. QED
    BY <2>1, <2>2
<1>. HIDE DEF P
<1>2. S \subseteq P
  BY <1>1, InductionDown
<1>. QED
  BY <1>2 DEF P

\* successor() and predecessor() return the next node.
LEMMA NeighbourIs ==
  ASSUME NEW t \in TreeType, NEW S, NEW under, NEW pos, Laid(t, S, under, pos), NEW s \in Side,
         NEW n \in S
  PROVE  Follows(S, pos, s, Other(s), n, Neighbour(t, s, n))
<1>. DEFINE o == Other(s)
            r == Neighbour(t, s, n)
            c == t.child[s][n]
            d == t.child[o][n]
<1>1. Both(t, S, under, pos, n, s, o, c, d)
  BY BothSides
<1>2. o \in Side /\ s = Other(o) /\ \A b \in Side : b = s \/ b = o
  BY Sides
<1>a. S \subseteq Node /\ pos \in [Node -> Int] /\ Nil \notin S /\ under[Nil] = {}
  BY NilIsNoNode DEF Laid
<1>b. \A i, j \in Node : Apart(pos, o, i, j) <=> Apart(pos, s, j, i)
  BY <1>a, ApartIs
<1>3. PICK climb :
           /\ \A m \in Node :
                /\ t.p[m] # Nil /\ m = t.child[s][t.p[m]] => climb[m] = climb[t.p[m]]
                /\ ~(t.p[m] # Nil /\ m = t.child[s][t.p[m]]) => climb[m] = t.p[m]
           /\ \A m \in Node :
                /\ t.child[s][m] # Nil => Neighbour(t, s, m) = Extreme(t, Other(s), t.child[s][m])
                /\ t.child[s][m] = Nil => Neighbour(t, s, m) = climb[m]
  BY NeighbourStep
<1>4. n \in Node /\ (c # Nil => r = Extreme(t, o, c)) /\ (c = Nil => r = climb[n])
  BY <1>a, <1>3
<1>5. Climbs(S, under, pos, s, o, n, climb[n])
  BY <1>3, ClimbIs
<1>6. OneSide(S, under, pos, n)
  BY SubtreesAreConvex
<1>. HIDE DEF o, r, c, d
<1>7. under[n] = {n} \cup under[c] \cup under[d] /\ n \notin under[c] /\ under[n] \subseteq S
      /\ \A k \in under[d] : Apart(pos, o, k, n)
  BY <1>1 DEF Both
<1>8. CASE c = Nil
  <2>1. under[n] = {n} \cup under[d] /\ r = climb[n] /\ n \in under[n]
    BY <1>a, <1>4, <1>7, <1>8
  <2>2. Follows(S, pos, s, o, n, r)
    BY <1>5, <1>7, <2>1 DEF Climbs, Follows
  <2>. QED
    BY <2>2 DEF o, r
<1>9. CASE c # Nil
  <2>1. IsExtreme(t, under, pos, o, c, r)
    BY <1>1, <1>2, <1>4, <1>9, ExtremeIs DEF Both
  <2>2. r \in under[c] /\ r \in S /\ r # Nil /\ r # n /\ r \in under[n]
    BY <1>a, <1>7, <2>1 DEF IsExtreme
  <2>3. Apart(pos, o, n, r)
    BY <1>1, <2>2 DEF Both
  <2>4. ASSUME NEW k \in S, k \notin {n, r}
        PROVE  Apart(pos, o, k, n) \/ Apart(pos, o, r, k)
    <3>1. CASE k \in under[n]
      BY <1>7, <2>1, <2>4, <3>1 DEF IsExtreme
    <3>2. CASE k \notin under[n]
      <4>1. PICK b \in Side : \A a \in under[n] : Apart(pos, b, a, k)
        BY <1>6, <3>2 DEF OneSide
      <4>2. CASE b = o
        BY <2>2, <4>1, <4>2
      <4>3. CASE b = s
        BY <1>a, <1>b, <1>4, <1>7, <4>1, <4>3
      <4>. QED
        BY <1>2, <4>2, <4>3
    <3>. QED
      BY <3>1, <3>2
  <2>5. Follows(S, pos, s, o, n, r)
    BY <2>2, <2>3, <2>4 DEF Follows
  <2>. QED
    BY <2>5 DEF o, r
<1>. QED
  BY <1>8, <1>9

-----------------------------------------------------------------------------
(* find()                                                                  *)

\* The elements are in the order of their keys.
Ordered(S, pos, d) == \A a, b \in S : pos[a] < pos[b] => ~Less(d[b], d[a])

\* The values of a deadline.
Deadline == 0 .. Modulus - 1

\* How two deadlines compare: one is less, unless they are the same.
LEMMA KeysAre ==
  /\ Key \subseteq Deadline /\ 0 \in Deadline
  /\ \A a, b \in Deadline : /\ Same(a, b) <=> a = b
                            /\ a # b => Less(a, b) \/ Less(b, a)
                            /\ ~Less(a, a)
<1>1. Key \subseteq Deadline
  BY HoldsAssumption DEF Key, Deadline
<1>2. Modulus \in Nat /\ Modulus >= 2
  BY ModulusAssumption
<1>3. 0 \in Deadline
  BY <1>2 DEF Deadline
<1>4. ASSUME NEW a \in Deadline, NEW b \in Deadline
      PROVE  /\ Same(a, b) <=> a = b
             /\ a # b => Less(a, b) \/ Less(b, a)
             /\ ~Less(a, a)
  <2>1. a \in Int /\ b \in Int /\ 0 <= a /\ a < Modulus /\ 0 <= b /\ b < Modulus
    BY <1>2, <1>4 DEF Deadline
  <2>2. ASSUME a >= b
        PROVE (a - b) % Modulus = a - b
    BY <1>2, <2>1, <2>2
  <2>3. ASSUME a < b
        PROVE (a - b) % Modulus = a - b + Modulus
    BY <1>2, <2>1, <2>3
  <2>4. ASSUME b >= a
        PROVE (b - a) % Modulus = b - a
    BY <1>2, <2>1, <2>4
  <2>5. ASSUME b < a
        PROVE (b - a) % Modulus = b - a + Modulus
    BY <1>2, <2>1, <2>5
  <2>6. (a - a) % Modulus = 0
    BY <1>2, <2>1
  <2>7. PICK half \in Int : half = Modulus \div 2
    BY <1>2
  <2>8. half >= 1 /\ 2 * half <= Modulus
    BY <1>2, <2>7
  <2>9. Same(a, b) <=> a = b
    BY <1>2, <2>1, <2>2, <2>3 DEF Same
  <2>10. a # b => Less(a, b) \/ Less(b, a)
    BY <1>2, <2>1, <2>2, <2>3, <2>4, <2>5, <2>7, <2>8 DEF Less
  <2>11. ~Less(a, a)
    BY <2>6, <2>7, <2>8 DEF Less
  <2>. QED
    BY <2>9, <2>10, <2>11
<1>. QED
  BY <1>1, <1>3, <1>4

\* One step of find().
LEMMA SearchStep ==
  ASSUME NEW t \in TreeType, NEW k
  PROVE  \E w :
           /\ Search(t, k) = w[t.root]
           /\ w[Nil] = Nil
           /\ \A n \in Node :
                /\ Same(k, data[n]) => w[n] = n
                /\ ~Same(k, data[n]) /\ Less(k, data[n]) => w[n] = w[t.child["left"][n]]
                /\ ~Same(k, data[n]) /\ ~Less(k, data[n]) => w[n] = w[t.child["right"][n]]
<1>. DEFINE Def(f) == [n \in Ref |-> CASE n = Nil -> Nil
                                       [] n # Nil /\ Same(k, data[n]) -> n
                                       [] OTHER -> f[t.child[IF Less(k, data[n]) THEN "left" ELSE "right"][n]]]
            g == CHOOSE f : f = Def(f)
<1>1. Search(t, k) = g[t.root]
  BY Zenon DEF Search
<1>2. \E f : f = Def(f)
  <2>. DEFINE N == Ref
              Stop == {n \in Ref : n = Nil \/ Same(k, data[n])}
              nx == [n \in Ref |-> t.child[IF Less(k, data[n]) THEN "left" ELSE "right"][n]]
              out == [n \in Ref |-> n]
  <2>1. \A n \in N : n \notin Stop => nx[n] \in N
    BY NilIsNoNode DEF TreeType, Ref, Side
  <2>2. PICK f : Walks(f, N, nx, Stop, out)
    <3>. HIDE DEF N, Stop, nx, out
    <3>. QED
      BY <2>1, WalksExist, SMTT(30)
  <2>3. f = [n \in Ref |-> IF n \in Stop THEN out[n] ELSE f[nx[n]]]
    BY <2>2, Zenon DEF Walks
  <2>4. \A n \in Ref : (IF n \in Stop THEN out[n] ELSE f[nx[n]]) = Def(f)[n]
    BY SMTT(30) DEF Ref
  <2>5. f = Def(f)
    BY <2>3, <2>4, Zenon
  <2>. QED
    BY <2>5
<1>3. g = Def(g)
  BY <1>2, Zenon
<1>. HIDE DEF g
<1>4. \A n \in Ref : g[n] = Def(g)[n]
  BY <1>3, Zenon
<1>5. g[Nil] = Nil
  BY <1>4, Zenon DEF Ref
<1>6. \A n \in Node :
        /\ Same(k, data[n]) => g[n] = n
        /\ ~Same(k, data[n]) /\ Less(k, data[n]) => g[n] = g[t.child["left"][n]]
        /\ ~Same(k, data[n]) /\ ~Less(k, data[n]) => g[n] = g[t.child["right"][n]]
  <2>1. SUFFICES ASSUME NEW n \in Node
                 PROVE  /\ Same(k, data[n]) => g[n] = n
                        /\ ~Same(k, data[n]) /\ Less(k, data[n]) => g[n] = g[t.child["left"][n]]
                        /\ ~Same(k, data[n]) /\ ~Less(k, data[n]) => g[n] = g[t.child["right"][n]]
    OBVIOUS
  <2>2. n # Nil /\ n \in Ref
    BY NilIsNoNode
  <2>3. g[n] = Def(g)[n]
    BY <1>4, <2>2
  <2>. QED
    BY <2>2, <2>3
<1>. QED
  BY <1>1, <1>5, <1>6

\* What the search arrives at from n: a node of the key if one is below n.
Finds(under, k, n, r) ==
  /\ (\E m \in under[n] : k = data[m]) => r \in under[n] /\ k = data[r]
  /\ (\A m \in under[n] : k # data[m]) => r = Nil

\* find() returns a node with the key, if there is one, wherever the order of the
\* keys is that of the positions.
LEMMA SearchIs ==
  ASSUME NEW t \in TreeType, NEW S, NEW under, NEW pos, Laid(t, S, under, pos),
         Ordered(S, pos, data), \A n \in S : data[n] \in Deadline, NEW k \in Deadline
  PROVE  /\ (\E m \in S : Same(k, data[m])) => Search(t, k) \in S /\ Same(k, data[Search(t, k)])
         /\ (\A m \in S : ~Same(k, data[m])) => Search(t, k) = Nil
<1>1. PICK w :
           /\ Search(t, k) = w[t.root]
           /\ w[Nil] = Nil
           /\ \A n \in Node :
                /\ Same(k, data[n]) => w[n] = n
                /\ ~Same(k, data[n]) /\ Less(k, data[n]) => w[n] = w[t.child["left"][n]]
                /\ ~Same(k, data[n]) /\ ~Less(k, data[n]) => w[n] = w[t.child["right"][n]]
  BY SearchStep
<1>. DEFINE P == {n \in S : Finds(under, k, n, w[n])}
<1>2. ASSUME NEW n \in S, \A b \in Side : t.child[b][n] # Nil => t.child[b][n] \in P
      PROVE  n \in P
  <2>. DEFINE c == t.child["left"][n]
              d == t.child["right"][n]
  <2>1. Both(t, S, under, pos, n, "left", "right", c, d)
    <3>1. "left" \in Side /\ "right" = Other("left")
      BY DEF Side, Other
    <3>. QED
      BY <3>1, BothSides
  <2>2. (c # Nil => c \in P) /\ (d # Nil => d \in P)
    BY <1>2 DEF Side
  <2>3. n \in Node /\ under[Nil] = {}
    BY <2>1 DEF Both, Laid
  <2>4. /\ Same(k, data[n]) => w[n] = n
        /\ ~Same(k, data[n]) /\ Less(k, data[n]) => w[n] = w[c]
        /\ ~Same(k, data[n]) /\ ~Less(k, data[n]) => w[n] = w[d]
    BY <1>1, <2>3
  <2>. HIDE DEF c, d
  <2>5. Finds(under, k, c, w[c])
    BY <1>1, <2>2, <2>3 DEF Finds
  <2>6. Finds(under, k, d, w[d])
    BY <1>1, <2>2, <2>3 DEF Finds
  <2>7. under[n] = {n} \cup under[c] \cup under[d] /\ under[n] \subseteq S
    BY <2>1 DEF Both
  <2>8. (\A j \in under[c] : pos[j] < pos[n]) /\ (\A j \in under[d] : pos[n] < pos[j])
    BY <2>1 DEF Both, Apart
  <2>9. (Same(k, data[n]) <=> k = data[n]) /\ data[n] \in Deadline
    BY KeysAre
  <2>10. CASE k = data[n]
    BY <2>4, <2>7, <2>9, <2>10 DEF Finds
  <2>11. CASE k # data[n] /\ Less(k, data[n])
    <3>1. ASSUME NEW j \in under[d]
          PROVE  k # data[j]
      BY <2>7, <2>8, <2>11 DEF Ordered
    <3>2. w[n] = w[c]
      BY <2>4, <2>9, <2>11
    <3>. QED
      BY <2>5, <2>7, <2>11, <3>1, <3>2 DEF Finds
  <2>12. CASE k # data[n] /\ ~Less(k, data[n])
    <3>0. Less(data[n], k)
      BY <2>9, <2>12, KeysAre
    <3>1. ASSUME NEW j \in under[c]
          PROVE  k # data[j]
      BY <2>7, <2>8, <3>0 DEF Ordered
    <3>2. w[n] = w[d]
      BY <2>4, <2>9, <2>12
    <3>. QED
      BY <2>6, <2>7, <2>12, <3>1, <3>2 DEF Finds
  <2>. QED
    BY <2>10, <2>11, <2>12
<1>. HIDE DEF P
<1>3. S \subseteq P
  BY <1>2, InductionUp
<1>4. \A m \in S : Same(k, data[m]) <=> k = data[m]
  BY KeysAre
<1>5. CASE t.root = Nil
  <2>1. S = {} /\ Search(t, k) = Nil
    BY <1>1, <1>5 DEF Laid
  <2>. QED
    BY <2>1
<1>6. CASE t.root # Nil
  <2>1. t.root \in S /\ under[t.root] = S
    BY <1>6 DEF Laid
  <2>2. Finds(under, k, t.root, w[t.root])
    BY <1>3, <2>1 DEF P
  <2>. QED
    BY <1>1, <1>4, <2>1, <2>2 DEF Finds
<1>. QED
  BY <1>5, <1>6
=============================================================================
