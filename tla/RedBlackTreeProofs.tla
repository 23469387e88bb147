-------------------------- MODULE RedBlackTreeProofs --------------------------
(***************************************************************************)
(* Proofs about RedBlackTree, for any finite set of nodes, any width of    *)
(* the deadlines, any limit of the free list and any calls.                *)
(*                                                                         *)
(* Fine says that a tree is laid over the nodes S in the order pos and     *)
(* keeps its rules, but for the nodes that a fixup has still to repair.    *)
(* The invariant Inv says that in every state there are such an S and      *)
(* pos, and that every node is in one place; SortedInv adds that the order *)
(* is that of the keys.  The navigation, the rules and the list that the   *)
(* users see follow from it.                                               *)
(***************************************************************************)
EXTENDS RedBlackTreeLemmas

-----------------------------------------------------------------------------
(* The nodes in order.                                                     *)

\* One level of InOrderFrom.
LEMMA InOrderStep ==
  ASSUME NEW t \in TreeType, NEW d \in Nat
  PROVE  \E w :
           /\ \A n : InOrderFrom(t, n, d) = w[d][n]
           /\ \A i \in 0 .. d : w[i][Nil] = <<>>
           /\ \A m \in Node : w[0][m] = <<>>
           /\ \A m \in Node, i \in 1 .. d :
                w[i][m] = w[i - 1][t.child["left"][m]] \o <<m>> \o w[i - 1][t.child["right"][m]]
<1>. DEFINE Row(f, i) == [m \in Ref |-> IF m = Nil \/ i = 0 THEN <<>>
                                        ELSE f[i - 1][t.child["left"][m]] \o <<m>>
                                             \o f[i - 1][t.child["right"][m]]]
            Def(f, e) == [i \in 0 .. e |-> Row(f, i)]
            g == CHOOSE f : f = Def(f, d)
            T == {e \in Nat : \E f : f = Def(f, e)}
<1>1. \A n : InOrderFrom(t, n, d) = g[d][n]
  BY Zenon DEF InOrderFrom
<1>2. 0 \in T
  <2>. DEFINE f == [i \in 0 .. 0 |-> [m \in Ref |-> <<>>]]
  <2>1. f = Def(f, 0)
    OBVIOUS
  <2>. QED
    BY <2>1, Zenon
<1>3. ASSUME NEW e \in Nat, e \in T
      PROVE  e + 1 \in T
  <2>1. PICK f : f = Def(f, e)
    BY <1>3, Zenon
  <2>. DEFINE h == [i \in 0 .. e + 1 |-> Row(f, i)]
  <2>. HIDE DEF Row
  <2>2. \A i \in 0 .. e : h[i] = f[i]
    <3>1. \A i \in 0 .. e : f[i] = Row(f, i)
      BY <2>1
    <3>2. \A i \in 0 .. e : h[i] = Row(f, i)
      OBVIOUS
    <3>. QED
      BY <3>1, <3>2
  <2>3. \A i \in 0 .. e + 1 : Row(f, i) = Row(h, i)
    <3>1. SUFFICES ASSUME NEW i \in 0 .. e + 1
                   PROVE  Row(f, i) = Row(h, i)
      OBVIOUS
    <3>2. i # 0 => i - 1 \in 0 .. e
      OBVIOUS
    <3>3. i # 0 => f[i - 1] = h[i - 1]
      BY <2>2, <3>2
    <3>. HIDE DEF h
    <3>. QED
      BY <3>3 DEF Row
  <2>4. h = Def(h, e + 1)
    BY <2>3
  <2>. HIDE DEF h
  <2>5. \E k : k = Def(k, e + 1)
    BY <2>4, SMTT(30)
  <2>. HIDE DEF Def
  <2>. QED
    BY <2>5, SMTT(30)
<1>4. \E f : f = Def(f, d)
  <2>. HIDE DEF T
  <2>1. d \in T
    BY <1>2, <1>3, InductionOverNat
  <2>. QED
    BY <2>1, Zenon DEF T
<1>5. g = Def(g, d)
  BY <1>4, Zenon
<1>. HIDE DEF g
<1>6. \A i \in 0 .. d, m \in Ref : g[i][m] = Row(g, i)[m]
  <2>1. \A i \in 0 .. d : g[i] = Row(g, i)
    <3>. HIDE DEF Row
    <3>. QED
      BY <1>5, SMTT(30)
  <2>. QED
    BY <2>1, Zenon
<1>7. \A i \in 0 .. d : g[i][Nil] = <<>>
  BY <1>6, ZenonT(40) DEF Ref
<1>8. \A m \in Node : g[0][m] = <<>>
  <2>1. 0 \in 0 .. d
    BY SMTT(30)
  <2>. QED
    BY <1>6, <2>1, Zenon DEF Ref
<1>9. \A m \in Node, i \in 1 .. d :
        g[i][m] = g[i - 1][t.child["left"][m]] \o <<m>> \o g[i - 1][t.child["right"][m]]
  <2>1. SUFFICES ASSUME NEW m \in Node, NEW i \in 1 .. d
        PROVE g[i][m] = g[i - 1][t.child["left"][m]] \o <<m>> \o g[i - 1][t.child["right"][m]]
    BY Zenon
  <2>2. m # Nil /\ i # 0 /\ m \in Ref /\ i \in 0 .. d
    BY NilIsNoNode
  <2>3. g[i][m] = Row(g, i)[m]
    BY <1>6, <2>2
  <2>. QED
    BY <2>2, <2>3, ZenonT(40)
<1>. HIDE DEF Row, Def, T
<1>. QED
  BY <1>1, <1>7, <1>8, <1>9, ZenonT(40)

\* q has the nodes of A, in the order of their positions.
Lists(q, A, pos) ==
  /\ q \in Seq(Node)
  /\ \A i \in 1 .. Len(q) : q[i] \in A
  /\ \A a \in A : \E i \in 1 .. Len(q) : q[i] = a
  /\ \A i \in 1 .. Len(q), j \in 1 .. Len(q) : i < j => pos[q[i]] < pos[q[j]]

\* No node is listed by no sequence.
LEMMA ListsNothing ==
  ASSUME NEW pos
  PROVE  Lists(<<>>, {}, pos)
BY DEF Lists

\* What stands left of a node, the node, and what stands right of it.
LEMMA ListsJoin ==
  ASSUME NEW pos \in [Node -> Int], NEW A \in SUBSET Node, NEW B \in SUBSET Node, NEW n \in Node,
         NEW q, NEW r, Lists(q, A, pos), Lists(r, B, pos),
         \A a \in A : pos[a] < pos[n], \A b \in B : pos[n] < pos[b],
         \A a \in A, b \in B : pos[a] < pos[b]
  PROVE  Lists(q \o <<n>> \o r, {n} \cup A \cup B, pos)
<1>. DEFINE u == q \o <<n>> \o r
            l == Len(q)
<1>1. q \in Seq(Node) /\ r \in Seq(Node) /\ <<n>> \in Seq(Node)
  BY DEF Lists
<1>2. u \in Seq(Node) /\ Len(u) = l + 1 + Len(r) /\ l \in Nat /\ Len(r) \in Nat
  BY <1>1
<1>3. \A i \in 1 .. l : u[i] = q[i]
  BY <1>1
<1>4. u[l + 1] = n
  BY <1>1
<1>5. \A i \in 1 .. Len(r) : u[l + 1 + i] = r[i]
  BY <1>1, SMTT(30)
<1>. HIDE DEF u, l
<1>6. \A i \in 1 .. Len(u) : i \in 1 .. l \/ i = l + 1 \/ (i - (l + 1) \in 1 .. Len(r) /\ u[i] = r[i - (l + 1)])
  <2>1. SUFFICES ASSUME NEW i \in 1 .. Len(u), ~(i <= l), i # l + 1
                 PROVE  i - (l + 1) \in 1 .. Len(r) /\ u[i] = r[i - (l + 1)]
    BY <1>2
  <2>2. PICK j \in Int : j = i - (l + 1)
    BY <1>2
  <2>3. j \in 1 .. Len(r) /\ i = l + 1 + j
    BY <1>2, <2>1, <2>2
  <2>. QED
    BY <1>5, <2>2, <2>3
<1>7. \A i \in 1 .. l : u[i] \in A
  BY <1>3, Zenon DEF Lists, l
<1>8. \A i \in 1 .. Len(r) : r[i] \in B
  BY DEF Lists
<1>9. \A i \in 1 .. Len(u) : u[i] \in {n} \cup A \cup B
  BY <1>4, <1>6, <1>7, <1>8
<1>10. ASSUME NEW a \in {n} \cup A \cup B
       PROVE  \E i \in 1 .. Len(u) : u[i] = a
  <2>1. CASE a = n
    <3>1. l + 1 \in 1 .. Len(u)
      BY <1>2
    <3>. QED
      BY <1>4, <2>1, <3>1
  <2>2. CASE a \in A
    <3>1. PICK i \in 1 .. l : q[i] = a
      BY <2>2 DEF Lists, l
    <3>2. i \in 1 .. Len(u)
      BY <1>2
    <3>. QED
      BY <1>3, <3>1, <3>2
  <2>3. CASE a \in B
    <3>1. PICK i \in 1 .. Len(r) : r[i] = a
      BY <2>3 DEF Lists
    <3>2. l + 1 + i \in 1 .. Len(u)
      BY <1>2
    <3>. QED
      BY <1>5, <3>1, <3>2
  <2>. QED
    BY <2>1, <2>2, <2>3
<1>11. ASSUME NEW i \in 1 .. Len(u), NEW j \in 1 .. Len(u), i < j
       PROVE  pos[u[i]] < pos[u[j]]
  <2>1. CASE i \in 1 .. l
    <3>1. u[i] \in A
      BY <1>7, <2>1
    <3>2. CASE j \in 1 .. l
      BY <1>3, <1>11, <2>1, <3>2, Zenon DEF Lists, l
    <3>3. CASE j = l + 1
      BY <1>4, <3>1, <3>3
    <3>4. CASE j - (l + 1) \in 1 .. Len(r) /\ u[j] = r[j - (l + 1)]
      BY <1>8, <3>1, <3>4
    <3>. QED
      BY <1>6, <3>2, <3>3, <3>4
  <2>2. CASE i = l + 1
    <3>0. ~(j \in 1 .. l) /\ j # l + 1
      BY <1>2, <1>11, <2>2
    <3>1. j - (l + 1) \in 1 .. Len(r) /\ u[j] = r[j - (l + 1)]
      BY <1>6, <3>0
    <3>. QED
      BY <1>4, <1>8, <2>2, <3>1
  <2>3. CASE i - (l + 1) \in 1 .. Len(r) /\ u[i] = r[i - (l + 1)]
    <3>1. j - (l + 1) \in 1 .. Len(r) /\ u[j] = r[j - (l + 1)]
      <4>1. ~(j \in 1 .. l) /\ j # l + 1
        BY <1>2, <1>11, <2>3, SMTT(30)
      <4>. QED
        BY <1>6, <4>1
    <3>2. i - (l + 1) < j - (l + 1)
      BY <1>2, <1>11
    <3>. QED
      BY <2>3, <3>1, <3>2, Zenon DEF Lists
  <2>. QED
    BY <1>6, <2>1, <2>2, <2>3
<1>. QED
  BY <1>2, <1>9, <1>10, <1>11, Zenon DEF Lists, u

\* There is one such list.
LEMMA ListsOnce ==
  ASSUME NEW pos \in [Node -> Int], NEW A \in SUBSET Node, NEW q, NEW r,
         Lists(q, A, pos), Lists(r, A, pos)
  PROVE  q = r
<1>1. q \in Seq(Node) /\ r \in Seq(Node) /\ Len(q) \in Nat /\ Len(r) \in Nat
  BY DEF Lists
<1>. DEFINE T == {k \in Nat : k > Len(q) \/ (k <= Len(r) /\ \A i \in 1 .. k : q[i] = r[i])}
<1>2. ASSUME NEW a, NEW b, Lists(a, A, pos), Lists(b, A, pos),
             NEW k \in Nat, k + 1 <= Len(a), k <= Len(b), \A i \in 1 .. k : a[i] = b[i]
      PROVE  k + 1 <= Len(b) /\ ~(pos[a[k + 1]] < pos[b[k + 1]])
  <2>1. a \in Seq(Node) /\ b \in Seq(Node) /\ Len(a) \in Nat /\ Len(b) \in Nat /\ k + 1 \in 1 .. Len(a)
    BY <1>2 DEF Lists
  <2>2. PICK j \in 1 .. Len(b) : b[j] = a[k + 1]
    <3>1. a[k + 1] \in A
      BY <1>2, <2>1 DEF Lists
    <3>. QED
      BY <1>2, <3>1, Zenon DEF Lists
  <2>3. j > k
    <3>1. SUFFICES ASSUME j <= k PROVE FALSE
      BY <1>2
    <3>2. a[j] = b[j] /\ j \in 1 .. Len(a) /\ j < k + 1
      BY <1>2, <2>1, <3>1
    <3>3. pos[a[j]] < pos[a[k + 1]]
      BY <1>2, <2>1, <3>2, Zenon DEF Lists
    <3>4. a[j] \in Node
      BY <2>1, <3>2
    <3>. QED
      BY <2>2, <3>2, <3>3, <3>4
  <2>4. k + 1 \in 1 .. Len(b)
    BY <1>2, <2>1, <2>3
  <2>5. k + 1 = j \/ pos[b[k + 1]] < pos[b[j]]
    <3>1. k + 1 = j \/ k + 1 < j
      BY <1>2, <2>3
    <3>2. k + 1 < j => pos[b[k + 1]] < pos[b[j]]
      BY <1>2, <2>4, Zenon DEF Lists
    <3>. QED
      BY <3>1, <3>2
  <2>6. a[k + 1] \in Node /\ b[k + 1] \in Node
    BY <2>1, <2>4, SMTT(30)
  <2>7. ~(pos[a[k + 1]] < pos[b[k + 1]])
    BY <2>2, <2>5, <2>6
  <2>. QED
    BY <2>4, <2>7
<1>3. ASSUME NEW k \in Nat, k \in T
      PROVE  k + 1 \in T
  <2>1. CASE k + 1 > Len(q)
    BY <2>1
  <2>2. CASE k + 1 <= Len(q)
    <3>1. k <= Len(r) /\ k <= Len(q) /\ \A i \in 1 .. k : q[i] = r[i]
      BY <1>1, <1>3, <2>2
    <3>2. k + 1 <= Len(r) /\ ~(pos[q[k + 1]] < pos[r[k + 1]])
      BY <1>2, <2>2, <3>1
    <3>3. ~(pos[r[k + 1]] < pos[q[k + 1]])
      <4>1. \A i \in 1 .. k : r[i] = q[i]
        BY <3>1
      <4>. QED
        BY <1>2, <3>1, <3>2, <4>1
    <3>4. k + 1 \in 1 .. Len(q) /\ k + 1 \in 1 .. Len(r)
      BY <2>2, <3>2
    <3>5. q[k + 1] \in A /\ r[k + 1] \in A
      BY <3>4, Zenon DEF Lists
    <3>6. PICK j \in 1 .. Len(r) : r[j] = q[k + 1]
      BY <3>5, Zenon DEF Lists
    <3>7. j = k + 1
      <4>1. j < k + 1 => pos[r[j]] < pos[r[k + 1]]
        BY <3>4 DEF Lists
      <4>2. k + 1 < j => pos[r[k + 1]] < pos[r[j]]
        BY <3>4 DEF Lists
      <4>. QED
        BY <3>2, <3>3, <3>6, <4>1, <4>2
    <3>8. \A i \in 1 .. k + 1 : q[i] = r[i]
      BY <3>1, <3>6, <3>7
    <3>. QED
      BY <3>2, <3>8
  <2>. QED
    BY <1>1, <2>1, <2>2
<1>4. 0 \in T
  BY <1>1
<1>5. Len(q) \in T
  <2>. HIDE DEF T
  <2>. QED
    BY <1>1, <1>3, <1>4, InductionOverNat, Zenon
<1>6. Len(q) <= Len(r) /\ \A i \in 1 .. Len(q) : q[i] = r[i]
  BY <1>1, <1>5
<1>7. ~(Len(q) < Len(r))
  <2>1. SUFFICES ASSUME Len(q) + 1 <= Len(r) PROVE FALSE
    BY <1>1
  <2>2. \A i \in 1 .. Len(q) : r[i] = q[i]
    BY <1>6
  <2>3. Len(q) + 1 <= Len(q)
    BY <1>1, <1>2, <2>1, <2>2
  <2>. QED
    BY <1>1, <2>3
<1>. QED
  BY <1>1, <1>6, <1>7, SMTT(30)

\* InOrder has the nodes in order.
LEMMA InOrderIs ==
  ASSUME NEW t \in TreeType, NEW S, NEW under, NEW pos, Laid(t, S, under, pos)
  PROVE  Lists(InOrderFrom(t, t.root, Cardinality(Node)), S, pos)
<1>. DEFINE d == Cardinality(Node)
<1>1. d \in Nat
  BY NodeAssumption, FS_CardinalityType
<1>a. /\ S \in SUBSET Node /\ pos \in [Node -> Int] /\ Nil \notin S /\ under[Nil] = {}
      /\ IsFiniteSet(S) /\ Cardinality(S) \in Nat /\ Cardinality(S) <= d
  <2>1. S \in SUBSET Node /\ pos \in [Node -> Int] /\ Nil \notin S /\ under[Nil] = {}
    BY NilIsNoNode, SMTT(30) DEF Laid
  <2>. QED
    BY <2>1, NodeAssumption, FS_Subset, FS_CardinalityType
<1>2. PICK w :
           /\ \A n : InOrderFrom(t, n, d) = w[d][n]
           /\ \A i \in 0 .. d : w[i][Nil] = <<>>
           /\ \A m \in Node : w[0][m] = <<>>
           /\ \A m \in Node, i \in 1 .. d :
                w[i][m] = w[i - 1][t.child["left"][m]] \o <<m>> \o w[i - 1][t.child["right"][m]]
  <2>. HIDE DEF d
  <2>. QED
    BY <1>1, InOrderStep, Zenon
<1>. HIDE DEF d
<1>. DEFINE size(n) == Cardinality(under[n])
            P == {n \in S : \A i \in 0 .. d : size(n) <= i => Lists(w[i][n], under[n], pos)}
<1>3. ASSUME NEW n \in S, \A b \in Side : t.child[b][n] # Nil => t.child[b][n] \in P
      PROVE  n \in P
  <2>. DEFINE a == t.child["left"][n]
              b == t.child["right"][n]
  <2>1. Both(t, S, under, pos, n, "left", "right", a, b)
    <3>1. "left" \in Side /\ "right" = Other("left")
      BY DEF Side, Other
    <3>. QED
      BY <3>1, BothSides
  <2>2. (a # Nil => a \in P) /\ (b # Nil => b \in P)
    BY <1>3 DEF Side
  <2>3. /\ size(n) \in Nat
        /\ (a # Nil => size(a) < size(n) /\ size(a) \in Nat)
        /\ (b # Nil => size(b) < size(n) /\ size(b) \in Nat)
    <3>1. \A j \in S : size(j) \in Nat
      BY UnderSizes
    <3>2. (a # Nil => size(a) < size(n)) /\ (b # Nil => size(b) < size(n))
      BY UnderSizes DEF Side
    <3>3. (a # Nil => a \in S) /\ (b # Nil => b \in S)
      BY <2>1 DEF Both
    <3>. QED
      BY <3>1, <3>2, <3>3
  <2>4. size(n) > 0
    <3>1. under[n] # {} /\ IsFiniteSet(under[n])
      <4>1. n \in under[n] /\ under[n] \subseteq S
        BY <2>1 DEF Both
      <4>. QED
        BY <1>a, <4>1, FS_Subset
    <3>2. size(n) # 0
      BY <3>1, FS_EmptySet
    <3>. QED
      BY <2>3, <3>2
  <2>. HIDE DEF size
  <2>5. SUFFICES ASSUME NEW i \in 0 .. d, size(n) <= i
                 PROVE  Lists(w[i][n], under[n], pos)
    OBVIOUS
  <2>6. i \in 1 .. d /\ i - 1 \in 0 .. d /\ n \in Node
    BY <1>1, <2>1, <2>3, <2>4, <2>5, SMTT(30) DEF Both
  <2>7. w[i][n] = w[i - 1][a] \o <<n>> \o w[i - 1][b]
    BY <1>2, <2>6, Zenon
  <2>8. Lists(w[i - 1][a], under[a], pos)
    <3>1. CASE a = Nil
      BY <1>2, <1>a, <2>6, <3>1, ListsNothing, Zenon
    <3>2. CASE a # Nil
      <4>1. size(a) <= i - 1
        BY <2>3, <2>5, <2>6, <3>2
      <4>. QED
        BY <2>2, <2>6, <3>2, <4>1
    <3>. QED
      BY <3>1, <3>2, SMTT(30)
  <2>9. Lists(w[i - 1][b], under[b], pos)
    <3>1. CASE b = Nil
      BY <1>2, <1>a, <2>6, <3>1, ListsNothing, Zenon
    <3>2. CASE b # Nil
      <4>1. size(b) <= i - 1
        BY <2>3, <2>5, <2>6, <3>2
      <4>. QED
        BY <2>2, <2>6, <3>2, <4>1
    <3>. QED
      BY <3>1, <3>2, SMTT(30)
  <2>. HIDE DEF a, b, P
  <2>10. under[n] = {n} \cup under[a] \cup under[b] /\ under[a] \in SUBSET Node /\ under[b] \in SUBSET Node
    BY <1>a, <2>1 DEF Both
  <2>11. /\ \A k \in under[a] : pos[k] < pos[n]
         /\ \A k \in under[b] : pos[n] < pos[k]
         /\ \A j \in under[a], k \in under[b] : pos[j] < pos[k]
    BY <2>1 DEF Both, Apart
  <2>12. Lists(w[i - 1][a] \o <<n>> \o w[i - 1][b], {n} \cup under[a] \cup under[b], pos)
    BY <1>a, <2>6, <2>8, <2>9, <2>10, <2>11, ListsJoin
  <2>. QED
    BY <2>7, <2>10, <2>12
<1>. HIDE DEF P
<1>4. S \subseteq P
  BY <1>3, InductionUp, SMTT(30)
<1>5. CASE t.root = Nil
  <2>1. S = {} /\ w[d][t.root] = <<>>
    <3>1. d \in 0 .. d
      BY <1>1, SMTT(30)
    <3>. QED
      BY <1>2, <1>5, <3>1, Zenon DEF Laid
  <2>. QED
    BY <1>2, <2>1, ListsNothing, ZenonT(40) DEF d
<1>6. CASE t.root # Nil
  <2>1. t.root \in S /\ under[t.root] = S
    BY <1>6 DEF Laid
  <2>2. size(t.root) <= d /\ d \in 0 .. d
    BY <1>1, <1>a, <2>1
  <2>3. Lists(w[d][t.root], S, pos)
    BY <1>4, <2>1, <2>2 DEF P
  <2>. QED
    BY <1>2, <2>3, Zenon DEF d
<1>. QED
  BY <1>5, <1>6

-----------------------------------------------------------------------------
(* The properties of the tree, in these terms.                             *)

\* A list has each node once.
LEMMA ListLength ==
  ASSUME NEW pos \in [Node -> Int], NEW A \in SUBSET Node, NEW q, Lists(q, A, pos)
  PROVE  /\ ToSet(q) = A /\ Len(q) = Cardinality(A) /\ IsFiniteSet(A) /\ Len(q) \in Nat
         /\ \A i \in 1 .. Len(q) : q[i] \in Node
<1>1. q \in Seq(Node) /\ Len(q) \in Nat /\ DOMAIN q = 1 .. Len(q)
  BY DEF Lists
<1>2. ToSet(q) = A
  BY <1>1 DEF Lists, ToSet
<1>3. \A i, j \in 1 .. Len(q) : i # j => q[i] # q[j]
  <2>1. SUFFICES ASSUME NEW i \in 1 .. Len(q), NEW j \in 1 .. Len(q), i # j
                 PROVE  q[i] # q[j]
    OBVIOUS
  <2>2. pos[q[i]] \in Int /\ pos[q[j]] \in Int
    BY <1>1
  <2>3. (i < j => pos[q[i]] < pos[q[j]]) /\ (j < i => pos[q[j]] < pos[q[i]])
    BY DEF Lists
  <2>4. i < j \/ j < i
    BY <2>1
  <2>. QED
    BY <2>2, <2>3, <2>4
<1>4. q \in Bijection(1 .. Len(q), A)
  <2>1. q \in [1 .. Len(q) -> A]
    BY <1>1 DEF Lists
  <2>2. q \in Injection(1 .. Len(q), A)
    BY <1>3, <2>1 DEF Injection, IsInjective
  <2>3. q \in Surjection(1 .. Len(q), A)
    BY <2>1 DEF Lists, Surjection
  <2>. QED
    BY <2>2, <2>3 DEF Bijection
<1>5. IsFiniteSet(A) /\ Cardinality(A) = Len(q)
  <2>1. ExistsBijection(1 .. Len(q), A)
    BY <1>4 DEF ExistsBijection
  <2>. QED
    BY <1>1, <2>1, FS_CountingElements, FS_NatBijection
<1>. QED
  BY <1>1, <1>2, <1>5

\* The nodes in order and how many they are.
LEMMA LinkedIs ==
  ASSUME tree \in TreeType, NEW S, NEW under, NEW pos, Laid(tree, S, under, pos)
  PROVE  /\ Lists(InOrder, S, pos)
         /\ Linked = S
         /\ Len(InOrder) = Cardinality(S) /\ Cardinality(S) \in Nat
         /\ Cardinality(S) <= Cardinality(Node) /\ Cardinality(Node) \in Nat
<1>1. Lists(InOrder, S, pos)
  BY InOrderIs DEF InOrder
<1>2. S \in SUBSET Node /\ pos \in [Node -> Int]
  BY DEF Laid
<1>3. ToSet(InOrder) = S /\ Len(InOrder) = Cardinality(S)
  BY <1>1, <1>2, ListLength
<1>4. Cardinality(S) \in Nat /\ Cardinality(S) <= Cardinality(Node) /\ Cardinality(Node) \in Nat
  BY <1>2, NodeAssumption, FS_Subset, FS_CardinalityType
<1>. QED
  BY <1>1, <1>3, <1>4 DEF Linked

\* w[i][m] has the weights of the paths that go down from m, at most i nodes long.
Weighs(w, d) ==
  /\ PathWeights = w[d][tree.root]
  /\ \A i \in 0 .. d : w[i][Nil] = {0}
  /\ \A m \in Node, i \in 1 .. d :
       w[i][m] = {Weight(m) + v : v \in
                   UNION {IF tree.child[s][m] = Nil /\ m = tree.p[Nil] THEN {Extra}
                          ELSE w[i - 1][tree.child[s][m]] : s \in Side}}

\* PathWeights is computed so.
LEMMA PathWeightsStep ==
  ASSUME tree \in TreeType, NEW d, d = Cardinality(Node), d \in Nat
  PROVE  \E w : Weighs(w, d)
<1>. DEFINE Row(f, i) == [m \in Ref |->
                            IF m = Nil \/ i = 0 THEN {0}
                            ELSE {Weight(m) + v : v \in
                                    UNION {IF tree.child[s][m] = Nil /\ m = tree.p[Nil] THEN {Extra}
                                           ELSE f[i - 1][tree.child[s][m]] : s \in Side}}]
            Def(f, e) == [i \in 0 .. e |-> Row(f, i)]
            g == CHOOSE f : f = Def(f, Cardinality(Node))
            T == {e \in Nat : \E f : f = Def(f, e)}
<1>1. PathWeights = g[d][tree.root]
  <2>1. PathWeights = g[Cardinality(Node)][tree.root]
    BY Zenon DEF PathWeights
  <2>. HIDE DEF g
  <2>. QED
    BY <2>1
<1>2. 0 \in T
  <2>. DEFINE f == [i \in 0 .. 0 |-> [m \in Ref |-> {0}]]
  <2>1. f = Def(f, 0)
    OBVIOUS
  <2>. QED
    BY <2>1, Zenon
<1>3. ASSUME NEW e \in Nat, e \in T
      PROVE  e + 1 \in T
  <2>1. PICK f : f = Def(f, e)
    BY <1>3, Zenon
  <2>. DEFINE h == [i \in 0 .. e + 1 |-> Row(f, i)]
  <2>. HIDE DEF Row
  <2>2. \A i \in 0 .. e : h[i] = f[i]
    <3>1. \A i \in 0 .. e : f[i] = Row(f, i)
      BY <2>1
    <3>2. \A i \in 0 .. e : h[i] = Row(f, i)
      OBVIOUS
    <3>. QED
      BY <3>1, <3>2
  <2>3. \A i \in 0 .. e + 1 : Row(f, i) = Row(h, i)
    <3>1. SUFFICES ASSUME NEW i \in 0 .. e + 1
                   PROVE  Row(f, i) = Row(h, i)
      OBVIOUS
    <3>2. i # 0 => i - 1 \in 0 .. e
      OBVIOUS
    <3>3. i # 0 => f[i - 1] = h[i - 1]
      BY <2>2, <3>2
    <3>. HIDE DEF h
    <3>4. CASE i = 0
      BY <3>4 DEF Row
    <3>5. CASE i # 0
      <4>. DEFINE a == f[i - 1]
                  b == h[i - 1]
                  R(c) == [m \in Ref |->
                            IF m = Nil \/ i = 0 THEN {0}
                            ELSE {Weight(m) + v : v \in
                                    UNION {IF tree.child[s][m] = Nil /\ m = tree.p[Nil] THEN {Extra}
                                           ELSE c[tree.child[s][m]] : s \in Side}}]
      <4>1. Row(f, i) = R(a) /\ Row(h, i) = R(b)
        BY Zenon DEF Row
      <4>2. a = b
        BY <3>3, <3>5
      <4>. HIDE DEF a, b, R
      <4>. QED
        BY <4>1, <4>2
    <3>. QED
      BY <3>4, <3>5
  <2>4. h = Def(h, e + 1)
    BY <2>3
  <2>. HIDE DEF h
  <2>5. \E k : k = Def(k, e + 1)
    BY <2>4
  <2>. HIDE DEF Def
  <2>. QED
    BY <2>5
<1>4. \E f : f = Def(f, d)
  <2>. HIDE DEF T
  <2>1. d \in T
    BY <1>2, <1>3, InductionOverNat
  <2>. HIDE DEF Def
  <2>. QED
    BY <2>1 DEF T
<1>5. g = Def(g, d)
  <2>. DEFINE k == Cardinality(Node)
  <2>1. k = d
    OBVIOUS
  <2>2. g = Def(g, k)
    <3>. HIDE DEF Def
    <3>1. \E f : f = Def(f, k)
      BY <1>4, <2>1
    <3>. QED
      BY <3>1, Zenon
  <2>. HIDE DEF g, k, Def
  <2>. QED
    BY <2>1, <2>2
<1>. HIDE DEF g
<1>6. \A i \in 0 .. d : g[i] = Row(g, i)
  <2>. HIDE DEF Row
  <2>. QED
    BY <1>5
<1>7. \A i \in 0 .. d : g[i][Nil] = {0}
  <2>1. SUFFICES ASSUME NEW i \in 0 .. d PROVE g[i][Nil] = {0}
    OBVIOUS
  <2>2. Row(g, i)[Nil] = {0}
    BY DEF Ref
  <2>. HIDE DEF Row
  <2>. QED
    BY <1>6, <2>2
<1>8. ASSUME NEW m \in Node, NEW i \in 1 .. d
      PROVE  g[i][m] = {Weight(m) + v : v \in
                            UNION {IF tree.child[s][m] = Nil /\ m = tree.p[Nil] THEN {Extra}
                                   ELSE g[i - 1][tree.child[s][m]] : s \in Side}}
  <2>2. m # Nil /\ i # 0 /\ m \in Ref /\ i \in 0 .. d
    BY <1>8, NilIsNoNode
  <2>3. g[i][m] = Row(g, i)[m]
    <3>. HIDE DEF Row
    <3>. QED
      BY <1>6, <2>2
  <2>. QED
    BY <2>2, <2>3, Zenon
<1>9. Weighs(g, d)
  <2>. HIDE DEF g
  <2>1. \A m \in Node, i \in 1 .. d :
          g[i][m] = {Weight(m) + v : v \in
                      UNION {IF tree.child[s][m] = Nil /\ m = tree.p[Nil] THEN {Extra}
                             ELSE g[i - 1][tree.child[s][m]] : s \in Side}}
    BY <1>8
  <2>. QED
    BY <1>1, <1>7, <2>1, Zenon DEF Weighs
<1>. QED
  BY <1>9, Zenon

\* Even heights are one weight for all paths.
LEMMA PathWeightsAre ==
  ASSUME tree \in TreeType, NEW S, NEW under, NEW pos, Laid(tree, S, under, pos),
         NEW X, X = IF pc = "delete_fixup" THEN {x} ELSE {}, NEW h, Even(tree, S, X, h)
  PROVE  Cardinality(PathWeights) = 1
<1>. DEFINE d == Cardinality(Node)
<1>1. d \in Nat
  BY NodeAssumption, FS_CardinalityType
<1>a. /\ S \in SUBSET Node /\ Nil \notin S /\ under[Nil] = {}
      /\ IsFiniteSet(S) /\ Cardinality(S) \in Nat /\ Cardinality(S) <= d
  <2>1. S \in SUBSET Node /\ pos \in [Node -> Int] /\ Nil \notin S /\ under[Nil] = {}
    BY NilIsNoNode DEF Laid
  <2>. QED
    BY <2>1, NodeAssumption, FS_Subset, FS_CardinalityType
<1>0. PICK w : Weighs(w, d)
  BY <1>1, PathWeightsStep
<1>2. /\ PathWeights = w[d][tree.root]
      /\ \A i \in 0 .. d : w[i][Nil] = {0}
      /\ \A m \in Node, i \in 1 .. d :
           w[i][m] = {Weight(m) + v : v \in
                       UNION {IF tree.child[s][m] = Nil /\ m = tree.p[Nil] THEN {Extra}
                              ELSE w[i - 1][tree.child[s][m]] : s \in Side}}
  BY <1>0, Zenon DEF Weighs
<1>. HIDE DEF d
<1>3. \A m : Weight(m) = Wt(tree, X, m)
  BY DEF Weight, Wt, Red
<1>4. Extra = IF Nil \in X THEN 1 ELSE 0
  BY DEF Extra
<1>. DEFINE size(n) == Cardinality(under[n])
            P == {n \in S : \A i \in 0 .. d : size(n) <= i => w[i][n] = {Wt(tree, X, n) + h[n]}}
<1>5. ASSUME NEW n \in S, \A b \in Side : tree.child[b][n] # Nil => tree.child[b][n] \in P
      PROVE  n \in P
  <2>1. Kin(tree, S)
    BY KinIs
  <2>2. /\ size(n) \in Nat
        /\ \A b \in Side : tree.child[b][n] # Nil =>
             size(tree.child[b][n]) < size(n) /\ size(tree.child[b][n]) \in Nat
    <3>1. \A j \in S : size(j) \in Nat
      BY UnderSizes
    <3>2. \A b \in Side : tree.child[b][n] # Nil => size(tree.child[b][n]) < size(n)
      BY UnderSizes
    <3>3. \A b \in Side : tree.child[b][n] # Nil => tree.child[b][n] \in S
      BY <2>1 DEF Kin
    <3>. QED
      BY <3>1, <3>2, <3>3
  <2>3. size(n) > 0
    <3>1. under[n] # {} /\ IsFiniteSet(under[n])
      <4>1. Both(tree, S, under, pos, n, "left", "right", tree.child["left"][n], tree.child["right"][n])
        <5>1. "left" \in Side /\ "right" = Other("left")
          BY DEF Side, Other
        <5>. QED
          BY <5>1, BothSides
      <4>2. n \in under[n] /\ under[n] \subseteq S
        BY <4>1 DEF Both
      <4>. QED
        BY <1>a, <4>2, FS_Subset
    <3>2. size(n) # 0
      BY <3>1, FS_EmptySet
    <3>. QED
      BY <2>2, <3>2
  <2>. HIDE DEF size
  <2>4. SUFFICES ASSUME NEW i \in 0 .. d, size(n) <= i
                 PROVE  w[i][n] = {Wt(tree, X, n) + h[n]}
    BY Zenon
  <2>5. i \in 1 .. d /\ i - 1 \in 0 .. d /\ n \in Node
    BY <1>1, <1>a, <2>2, <2>3, <2>4
  <2>6. ASSUME NEW s \in Side
        PROVE  (IF tree.child[s][n] = Nil /\ n = tree.p[Nil] THEN {Extra}
                ELSE w[i - 1][tree.child[s][n]]) = {h[n]}
    <3>. DEFINE c == tree.child[s][n]
    <3>1. h[n] = Below(tree, X, h, n, c)
      BY DEF Even
    <3>2. c # Nil => c \in P /\ size(c) < size(n) /\ size(c) \in Nat
      BY <1>5, <2>2, Zenon
    <3>. HIDE DEF c
    <3>3. CASE c = Nil /\ n = tree.p[Nil]
      BY <1>4, <3>1, <3>3 DEF Below, c
    <3>4. CASE c = Nil /\ n # tree.p[Nil]
      BY <1>2, <2>5, <3>1, <3>4 DEF Below, c
    <3>5. CASE c # Nil
      <4>1. size(c) <= i - 1
        BY <2>2, <2>4, <2>5, <3>2, <3>5
      <4>2. w[i - 1][c] = {Wt(tree, X, c) + h[c]}
        BY <2>5, <3>2, <3>5, <4>1, Zenon
      <4>. QED
        BY <3>1, <3>5, <4>2 DEF Below, c
    <3>. QED
      BY <3>3, <3>4, <3>5
  <2>7. UNION {IF tree.child[s][n] = Nil /\ n = tree.p[Nil] THEN {Extra}
                ELSE w[i - 1][tree.child[s][n]] : s \in Side} = {h[n]}
    <3>. DEFINE F == [s \in Side |-> IF tree.child[s][n] = Nil /\ n = tree.p[Nil] THEN {Extra}
                ELSE w[i - 1][tree.child[s][n]]]
    <3>1. \A s \in Side : F[s] = {h[n]}
      BY <2>6
    <3>2. UNION {F[s] : s \in Side} = {h[n]}
      <4>1. {F[s] : s \in Side} = {{h[n]}}
        <5>. HIDE DEF F
        <5>. QED
          BY <3>1, Sides
      <4>. HIDE DEF F
      <4>. QED
        BY <4>1, Zenon
    <3>. QED
      BY <3>2
  <2>8. w[i][n] = {Weight(n) + v : v \in {h[n]}}
    BY <1>2, <2>5, <2>7, Zenon
  <2>9. {Weight(n) + v : v \in {h[n]}} = {Weight(n) + h[n]}
    OBVIOUS
  <2>. QED
    BY <1>3, <2>8, <2>9
<1>. HIDE DEF P
<1>6. S \subseteq P
  BY <1>5, InductionUp
<1>7. \E e : PathWeights = {e}
  <2>1. CASE tree.root = Nil
    <3>1. d \in 0 .. d
      BY <1>1
    <3>. QED
      BY <1>2, <2>1, <3>1, Zenon
  <2>2. CASE tree.root # Nil
    <3>1. tree.root \in S /\ under[tree.root] = S
      BY <2>2 DEF Laid
    <3>2. size(tree.root) <= d /\ d \in 0 .. d
      BY <1>1, <1>a, <3>1
    <3>. QED
      BY <1>2, <1>6, <3>1, <3>2, Zenon DEF P
  <2>. QED
    BY <2>1, <2>2, Zenon
<1>. QED
  BY <1>7, FS_Singleton

\* The order of a list is that of the positions.
LEMMA ListRanks ==
  ASSUME NEW pos \in [Node -> Int], NEW A \in SUBSET Node, NEW q, Lists(q, A, pos)
  PROVE  \A i, j \in 1 .. Len(q) : pos[q[i]] < pos[q[j]] <=> i < j
<1>1. SUFFICES ASSUME NEW i \in 1 .. Len(q), NEW j \in 1 .. Len(q)
               PROVE  pos[q[i]] < pos[q[j]] <=> i < j
  OBVIOUS
<1>2. q[i] \in Node /\ q[j] \in Node
  BY DEF Lists
<1>3. (i < j => pos[q[i]] < pos[q[j]]) /\ (j < i => pos[q[j]] < pos[q[i]])
  BY DEF Lists
<1>. QED
  BY <1>2, <1>3

\* Even heights and no two red nodes in line are the rules of the tree.
LEMMA RulesHold ==
  ASSUME tree \in TreeType, NEW S, NEW under, NEW pos, Laid(tree, S, under, pos),
         NEW X, X = IF pc = "delete_fixup" THEN {x} ELSE {},
         NEW Z, Z = IF pc = "insert_fixup" THEN {z} ELSE {},
         NEW h, Even(tree, S, X, h), Reds(tree, S, X, Z)
  PROVE  RedBlackRules
<1>1. Linked = S
  BY LinkedIs
<1>2. Kin(tree, S)
  BY KinIs
<1>3. ASSUME NEW n \in S, IsRed(n)
      PROVE  \/ pc = "insert_fixup" /\ n = z
             \/ tree.p[n] # Nil /\ ~IsRed(tree.p[n])
  <2>1. tree.color[n] = "red" /\ n \notin X
    BY <1>3 DEF IsRed, Red
  <2>2. SUFFICES ASSUME n \notin Z
                 PROVE  tree.p[n] # Nil /\ ~IsRed(tree.p[n])
    OBVIOUS
  <2>3. n # tree.root /\ (tree.color[tree.p[n]] = "red" => tree.p[n] \in X)
    BY <2>1, <2>2 DEF Reds
  <2>4. tree.p[n] \in S
    BY <1>2, <2>3 DEF Kin
  <2>5. tree.p[n] # Nil
    BY <1>2, <2>4 DEF Kin
  <2>6. ~IsRed(tree.p[n])
    BY <2>3 DEF IsRed, Red
  <2>. QED
    BY <2>5, <2>6
<1>4. Cardinality(PathWeights) = 1
  BY PathWeightsAre
<1>. QED
  BY <1>1, <1>3, <1>4 DEF RedBlackRules

\* Iterators and find() are exact in a tree that is laid in the order of its keys.
LEMMA NavigationHolds ==
  ASSUME tree \in TreeType, NEW S, NEW under, NEW pos, Laid(tree, S, under, pos),
         used = Cardinality(S), Ordered(S, pos, data), \A n \in S : data[n] \in Deadline
  PROVE  NavigationIsExact
<1>. DEFINE q == InOrder
<1>1. /\ Lists(q, S, pos) /\ Len(q) = used /\ used \in Nat
      /\ S \in SUBSET Node /\ pos \in [Node -> Int] /\ Nil \notin S
  BY LinkedIs, NilIsNoNode DEF Laid
<1>2. ToSet(q) = S /\ \A i \in 1 .. used : q[i] \in S /\ q[i] \in Node
  BY <1>1, ListLength, Zenon DEF Lists
<1>3. \A i, j \in 1 .. used : pos[q[i]] < pos[q[j]] <=> i < j
  BY <1>1, ListRanks
<1>4. \A a \in S : \E i \in 1 .. used : q[i] = a
  BY <1>1 DEF Lists
<1>. HIDE DEF q
<1>5. ASSUME used > 0
      PROVE  /\ Extreme(tree, "left", tree.root) = q[1]
             /\ Extreme(tree, "right", tree.root) = q[used]
  <2>1. tree.root \in S /\ under[tree.root] = S
    <3>1. S # {}
      BY <1>1, <1>2, <1>5
    <3>. QED
      BY <3>1 DEF Laid
  <2>2. 1 \in 1 .. used /\ used \in 1 .. used
    BY <1>1, <1>5
  <2>3. Extreme(tree, "left", tree.root) = q[1]
    <3>. DEFINE e == Extreme(tree, "left", tree.root)
    <3>1. IsExtreme(tree, under, pos, "left", tree.root, e)
      BY <2>1, ExtremeIs DEF Side
    <3>. HIDE DEF e
    <3>2. e \in S /\ \A k \in S : k # e => pos[e] < pos[k]
      BY <2>1, <3>1 DEF IsExtreme, Apart
    <3>3. PICK i \in 1 .. used : q[i] = e
      BY <1>4, <3>2
    <3>4. q[1] # e => i < 1
      BY <1>2, <1>3, <2>2, <3>2, <3>3
    <3>. QED
      BY <3>4 DEF e
  <2>4. Extreme(tree, "right", tree.root) = q[used]
    <3>. DEFINE e == Extreme(tree, "right", tree.root)
    <3>1. IsExtreme(tree, under, pos, "right", tree.root, e)
      BY <2>1, ExtremeIs DEF Side
    <3>. HIDE DEF e
    <3>2. e \in S /\ \A k \in S : k # e => pos[k] < pos[e]
      BY <2>1, <3>1 DEF IsExtreme, Apart
    <3>3. PICK i \in 1 .. used : q[i] = e
      BY <1>4, <3>2
    <3>4. q[used] # e => used < i
      BY <1>2, <1>3, <2>2, <3>2, <3>3
    <3>. QED
      BY <1>1, <3>4 DEF e
  <2>. QED
    BY <2>3, <2>4
<1>6. ASSUME NEW i \in 1 .. used
      PROVE  Neighbour(tree, "right", q[i]) = IF i = used THEN Nil ELSE q[i + 1]
  <2>. DEFINE n == q[i]
              r == Neighbour(tree, "right", n)
  <2>1. Follows(S, pos, "right", "left", n, r)
    <3>1. "right" \in Side /\ Other("right") = "left"
      BY DEF Side, Other
    <3>. QED
      BY <1>2, <3>1, NeighbourIs
  <2>. HIDE DEF r
  <2>2. /\ r = Nil => \A k \in S : k # n => pos[k] < pos[n]
        /\ r # Nil => /\ r \in S /\ pos[n] < pos[r]
                      /\ \A k \in S : k # n /\ k # r => pos[k] < pos[n] \/ pos[r] < pos[k]
    BY <2>1 DEF Follows, Apart
  <2>3. i # used => i + 1 \in 1 .. used
    BY <1>1
  <2>4. CASE r = Nil
    <3>1. ASSUME i # used
          PROVE  FALSE
      <4>1. pos[q[i]] < pos[q[i + 1]]
        BY <1>3, <2>3, <3>1
      <4>2. pos[q[i + 1]] \in Int /\ pos[q[i]] \in Int
        BY <1>1, <1>2, <2>3, <3>1
      <4>3. q[i + 1] # q[i] /\ q[i + 1] \in S
        BY <1>2, <2>3, <3>1, <4>1, <4>2
      <4>. QED
        BY <2>2, <2>4, <4>1, <4>2, <4>3
    <3>. QED
      BY <2>4, <3>1 DEF r
  <2>5. CASE r # Nil
    <3>1. PICK j \in 1 .. used : q[j] = r
      BY <1>4, <2>2, <2>5
    <3>2. i < j
      BY <1>3, <2>2, <2>5, <3>1
    <3>3. i # used /\ i + 1 \in 1 .. used
      BY <1>1, <3>2
    <3>4. ASSUME i + 1 # j
          PROVE  FALSE
      <4>1. i < i + 1 /\ i + 1 < j
        BY <3>2, <3>4
      <4>2. pos[n] < pos[q[i + 1]] /\ pos[q[i + 1]] < pos[r]
        BY <1>3, <3>1, <3>3, <4>1
      <4>3. pos[n] \in Int /\ pos[r] \in Int /\ pos[q[i + 1]] \in Int /\ q[i + 1] \in S
        BY <1>1, <1>2, <3>1, <3>3
      <4>4. q[i + 1] # n /\ q[i + 1] # r
        BY <4>2, <4>3
      <4>. QED
        BY <2>2, <2>5, <4>2, <4>3, <4>4
    <3>. QED
      BY <3>1, <3>3, <3>4 DEF r
  <2>. QED
    BY <2>4, <2>5
<1>7. ASSUME NEW i \in 1 .. used
      PROVE  Neighbour(tree, "left", q[i]) = IF i = 1 THEN Nil ELSE q[i - 1]
  <2>. DEFINE n == q[i]
              r == Neighbour(tree, "left", n)
  <2>1. Follows(S, pos, "left", "right", n, r)
    <3>1. "left" \in Side /\ Other("left") = "right"
      BY DEF Side, Other
    <3>. QED
      BY <1>2, <3>1, NeighbourIs
  <2>. HIDE DEF r
  <2>2. /\ r = Nil => \A k \in S : k # n => pos[n] < pos[k]
        /\ r # Nil => /\ r \in S /\ pos[r] < pos[n]
                      /\ \A k \in S : k # n /\ k # r => pos[n] < pos[k] \/ pos[k] < pos[r]
    BY <2>1 DEF Follows, Apart
  <2>3. i # 1 => i - 1 \in 1 .. used
    BY <1>1
  <2>4. CASE r = Nil
    <3>1. ASSUME i # 1
          PROVE  FALSE
      <4>1. pos[q[i - 1]] < pos[q[i]]
        BY <1>3, <2>3, <3>1
      <4>2. pos[q[i - 1]] \in Int /\ pos[q[i]] \in Int
        BY <1>1, <1>2, <2>3, <3>1
      <4>3. q[i - 1] # q[i] /\ q[i - 1] \in S
        BY <1>2, <2>3, <3>1, <4>1, <4>2
      <4>. QED
        BY <2>2, <2>4, <4>1, <4>2, <4>3
    <3>. QED
      BY <2>4, <3>1 DEF r
  <2>5. CASE r # Nil
    <3>1. PICK j \in 1 .. used : q[j] = r
      BY <1>4, <2>2, <2>5
    <3>2. j < i
      BY <1>3, <2>2, <2>5, <3>1
    <3>3. i # 1 /\ i - 1 \in 1 .. used
      BY <1>1, <3>2
    <3>4. ASSUME i - 1 # j
          PROVE  FALSE
      <4>1. j < i - 1 /\ i - 1 < i
        BY <3>2, <3>4
      <4>2. pos[r] < pos[q[i - 1]] /\ pos[q[i - 1]] < pos[n]
        BY <1>3, <3>1, <3>3, <4>1
      <4>3. pos[n] \in Int /\ pos[r] \in Int /\ pos[q[i - 1]] \in Int /\ q[i - 1] \in S
        BY <1>1, <1>2, <3>1, <3>3
      <4>4. q[i - 1] # n /\ q[i - 1] # r
        BY <4>2, <4>3
      <4>. QED
        BY <2>2, <2>5, <4>2, <4>3, <4>4
    <3>. QED
      BY <3>1, <3>3, <3>4 DEF r
  <2>. QED
    BY <2>4, <2>5
<1>8. ASSUME NEW k \in Key
      PROVE  LET found == Search(tree, k)
             IN IF \E n \in ToSet(q) : Same(k, data[n])
                  THEN found \in ToSet(q) /\ Same(k, data[found])
                  ELSE found = Nil
  <2>1. k \in Deadline
    BY KeysAre
  <2>2. /\ (\E m \in S : Same(k, data[m])) => Search(tree, k) \in S /\ Same(k, data[Search(tree, k)])
        /\ (\A m \in S : ~Same(k, data[m])) => Search(tree, k) = Nil
    BY <2>1, SearchIs
  <2>. QED
    BY <1>2, <2>2
<1>. QED
  BY <1>1, <1>2, <1>5, <1>6, <1>7, <1>8 DEF NavigationIsExact, q

-----------------------------------------------------------------------------
(* erase() of a node with two children.                                    *)

\* The least node right of n has no left child, and none is between the two.
LEMMA SuccessorIs ==
  ASSUME NEW t \in TreeType, NEW S, NEW under, NEW pos, Laid(t, S, under, pos),
         NEW n \in S, t.child["right"][n] # Nil,
         NEW m, m = Extreme(t, "left", t.child["right"][n])
  PROVE  /\ m \in S /\ m # n /\ m \in Node /\ n \in Node /\ m \in under[n]
         /\ t.child["left"][m] = Nil
         /\ pos[n] < pos[m]
         /\ \A k \in S : k # m /\ pos[n] < pos[k] => pos[m] < pos[k]
<1>. DEFINE a == t.child["left"][n]
            b == t.child["right"][n]
<1>1. Both(t, S, under, pos, n, "left", "right", a, b)
  <2>1. "left" \in Side /\ "right" = Other("left")
    BY DEF Side, Other
  <2>. QED
    BY <2>1, BothSides
<1>2. IsExtreme(t, under, pos, "left", b, m)
  <2>1. b \in S
    BY <1>1 DEF Both
  <2>. QED
    BY <2>1, ExtremeIs DEF Side
<1>3. OneSide(S, under, pos, n)
  BY SubtreesAreConvex
<1>4. S \in SUBSET Node /\ pos \in [Node -> Int]
  BY DEF Laid
<1>. HIDE DEF a, b
<1>5. m \in under[b] /\ t.child["left"][m] = Nil /\ \A k \in under[b] : k # m => pos[m] < pos[k]
  BY <1>2 DEF IsExtreme, Apart
<1>6. /\ under[n] = {n} \cup under[a] \cup under[b] /\ under[n] \subseteq S /\ n \notin under[b]
      /\ \A k \in under[b] : pos[n] < pos[k]
      /\ \A k \in under[a] : pos[k] < pos[n]
  BY <1>1 DEF Both, Apart
<1>7. m \in S /\ m # n /\ m \in Node /\ n \in Node /\ pos[n] < pos[m] /\ m \in under[n]
  BY <1>4, <1>5, <1>6
<1>8. ASSUME NEW k \in S, k # m, pos[n] < pos[k]
      PROVE  pos[m] < pos[k]
  <2>1. CASE k \in under[n]
    BY <1>4, <1>5, <1>6, <1>8, <2>1
  <2>2. CASE k \notin under[n]
    <3>1. PICK s \in Side : \A j \in under[n] : Apart(pos, s, j, k)
      BY <1>3, <2>2 DEF OneSide
    <3>2. Apart(pos, s, n, k) /\ Apart(pos, s, m, k)
      BY <1>5, <1>6, <3>1
    <3>3. s = "left"
      BY <1>4, <1>8, <3>2 DEF Apart
    <3>. QED
      BY <3>2, <3>3 DEF Apart
  <2>. QED
    BY <2>1, <2>2
<1>. QED
  BY <1>5, <1>7, <1>8

\* The links around n, which has two children, and m, its successor.
Around(t, S, n, m, l, r, below) ==
  /\ t \in TreeType /\ Kin(t, S)
  /\ n \in S /\ m \in S /\ m # n /\ n \in Node /\ m \in Node
  /\ l = t.child["left"][n] /\ r = t.child["right"][n] /\ below = t.child["right"][m]
  /\ l \in S /\ r \in S /\ below \in S \cup {Nil}
  /\ t.child["left"][m] = Nil /\ l # m /\ l # n /\ r # n /\ l # r /\ below # m /\ below # n
  /\ t.p[l] = n /\ t.p[r] = n /\ t.p[m] \in S /\ t.p[m] # m
  /\ t.p[m] = n => m = r
  /\ t.p[Nil] = Nil
  /\ below # Nil => t.p[below] = m
  /\ below # l /\ below # r

\* So are the links where Replace begins.
LEMMA AroundIs ==
  ASSUME NEW t \in TreeType, NEW S, NEW under, NEW pos, Laid(t, S, under, pos), t.p[Nil] = Nil,
         NEW n \in S, NEW l, l = t.child["left"][n], NEW r, r = t.child["right"][n], l # Nil, r # Nil,
         NEW m, m = Extreme(t, "left", r), NEW below, below = t.child["right"][m]
  PROVE  /\ Around(t, S, n, m, l, r, below)
         /\ t.p[n] # m
<1>1. Kin(t, S)
  BY KinIs
<1>2. Both(t, S, under, pos, n, "left", "right", l, r)
  <2>1. "left" \in Side /\ "right" = Other("left")
    BY DEF Side, Other
  <2>. QED
    BY <2>1, BothSides
<1>3. m \in S /\ m # n /\ m \in Node /\ n \in Node /\ t.child["left"][m] = Nil /\ m \in under[n] /\ pos[n] < pos[m]
  BY SuccessorIs
<1>4. S \in SUBSET Node /\ pos \in [Node -> Int] /\ Nil \notin S
  BY NilIsNoNode DEF Laid
<1>5. "left" \in Side /\ "right" \in Side /\ Other("left") = "right" /\ Other("right") = "left" /\ "left" # "right"
      /\ \A b \in Side : b = "left" \/ b = "right"
  BY DEF Side, Other
<1>6. l \in S /\ r \in S /\ t.p[l] = n /\ t.p[r] = n /\ l # n /\ r # n
  BY <1>1, <1>2, <1>5 DEF Both, Kin
<1>7. l # r
  BY <1>1, <1>5 DEF Kin
<1>8. below \in S \cup {Nil} /\ below # m /\ (below # Nil => t.p[below] = m /\ below # t.root)
  BY <1>1, <1>3, <1>5 DEF Kin
<1>9. l # m
  <2>1. Both(t, S, under, pos, l, "left", "right", t.child["left"][l], t.child["right"][l])
    BY <1>5, <1>6, BothSides, SMTT(30)
  <2>2. l \in under[l]
    BY <2>1, Zenon DEF Both
  <2>3. pos[l] < pos[n]
    BY <1>2, <2>2 DEF Both, Apart
  <2>4. pos[l] \in Int /\ pos[n] \in Int
    BY <1>4, <1>6
  <2>. QED
    BY <1>3, <2>3, <2>4
<1>10. m # t.root
  <2>1. SUFFICES ASSUME m = t.root PROVE FALSE
    OBVIOUS
  <2>2. m \in under[n] /\ n \in S /\ under[m] = S
    BY <1>3, <1>4, <2>1 DEF Laid
  <2>3. n \in under[m]
    BY <2>2
  <2>4. Both(t, S, under, pos, m, "left", "right", Nil, below)
    BY <1>3, <1>5, BothSides, SMTT(30)
  <2>5. under[m] = {m} \cup under[Nil] \cup under[below] /\ under[Nil] = {}
    BY <2>4, Zenon DEF Both, Laid
  <2>6. n \in under[below]
    BY <1>3, <2>3, <2>5, SMTT(30)
  <2>7. pos[m] < pos[n]
    BY <2>4, <2>6, Zenon DEF Both, Apart
  <2>. QED
    BY <1>3, <1>4, <2>7
<1>11. t.p[m] \in S /\ \E b \in Side : m = t.child[b][t.p[m]]
  BY <1>1, <1>3, <1>10, SMTT(30) DEF Kin
<1>12. t.p[m] # m
  <2>1. \A k \in S, b \in Side : t.child[b][k] # k
    BY <1>1, Zenon DEF Kin
  <2>. QED
    BY <1>11, <2>1, Zenon
<1>13. t.p[m] = n => m = r
  BY <1>5, <1>9, <1>11
<1>14. below # n
  <2>1. SUFFICES ASSUME below = n PROVE FALSE
    OBVIOUS
  <2>2. Both(t, S, under, pos, m, "left", "right", Nil, n)
    BY <1>3, <1>5, <2>1, BothSides, Zenon
  <2>3. n \in under[n]
    BY <1>2 DEF Both
  <2>4. pos[m] < pos[n]
    BY <2>2, <2>3, Zenon DEF Both, Apart
  <2>. QED
    BY <1>3, <1>4, <2>4
<1>15. below # l /\ below # r
  BY <1>3, <1>4, <1>6, <1>8, SMTT(30)
<1>16. t.p[n] # m
  <2>1. SUFFICES ASSUME t.p[n] = m PROVE FALSE
    OBVIOUS
  <2>2. n # t.root
    BY <1>1, <1>3, <1>4, <2>1 DEF Kin
  <2>3. \E b \in Side : n = t.child[b][m]
    BY <1>1, <2>1, <2>2 DEF Kin
  <2>. QED
    BY <1>3, <1>4, <1>5, <1>14, <2>3, Zenon
<1>. QED
  BY <1>1, <1>3, <1>6, <1>7, <1>8, <1>9, <1>11, <1>12, <1>13, <1>14, <1>15, <1>16, Zenon DEF Around

\* Single assignments.
SetChild(t, s, n, v) == [t EXCEPT !.child[s][n] = v]

\* ... and to p.
SetParent(t, n, v) == [t EXCEPT !.p[n] = v]

\* r is t with one child set.
Rechilded(t, r, s, n, v) ==
  /\ r \in TreeType /\ r.root = t.root /\ r.p = t.p /\ r.color = t.color
  /\ r.child[s][n] = v
  /\ \A b \in Side, k \in Node : ~(k = n /\ b = s) => r.child[b][k] = t.child[b][k]

\* An assignment to left or right.
LEMMA SetChildIs ==
  ASSUME NEW t \in TreeType, NEW s \in Side, NEW n \in Node, NEW v \in Ref
  PROVE  Rechilded(t, SetChild(t, s, n, v), s, n, v)
<1>. DEFINE r == SetChild(t, s, n, v)
<1>1. r \in TreeType /\ r.root = t.root /\ r.p = t.p /\ r.color = t.color
  BY Zenon DEF TreeType, SetChild
<1>2. \A b \in Side, k \in Node : r.child[b][k] = IF k = n /\ b = s THEN v ELSE t.child[b][k]
  BY DEF TreeType, SetChild
<1>. HIDE DEF r
<1>3. r.child[s][n] = v /\ \A b \in Side, k \in Node : ~(k = n /\ b = s) => r.child[b][k] = t.child[b][k]
  BY <1>2
<1>. QED
  BY <1>1, <1>3 DEF r, Rechilded

\* r is t with one parent set.
Reparented(t, r, n, v) ==
  /\ r \in TreeType /\ r.root = t.root /\ r.child = t.child /\ r.color = t.color
  /\ \A k \in Ref : r.p[k] = IF k = n THEN v ELSE t.p[k]

\* An assignment to p.
LEMMA SetParentIs ==
  ASSUME NEW t \in TreeType, NEW n \in Ref, NEW v \in Ref
  PROVE  Reparented(t, SetParent(t, n, v), n, v)
BY Zenon DEF TreeType, SetParent, Reparented

\* The last assignments of Replace.
Finished(t, r, m, l, c) ==
  /\ r \in TreeType /\ r.root = t.root
  /\ \A b \in Side, k \in Node : ~(k = m /\ b = "left") => r.child[b][k] = t.child[b][k]
  /\ r.child["left"][m] = l
  /\ \A k \in Ref : r.p[k] = IF k = l THEN m ELSE t.p[k]
  /\ \A k \in Ref : r.color[k] = IF k = m THEN c ELSE t.color[k]

\* The assignments themselves.
Finish(t, m, l, c) ==
  LET u == SetChild(t, "left", m, l)
  IN Paint(SetParent(u, u.child["left"][m], m), m, c)

\* What they change.
LEMMA ReplaceEnd ==
  ASSUME NEW t \in TreeType, NEW m \in Node, NEW l \in Ref, NEW c \in Color
  PROVE  Finished(t, Finish(t, m, l, c), m, l, c)
<1>. DEFINE u == SetChild(t, "left", m, l)
            g == SetParent(u, u.child["left"][m], m)
            r == Paint(g, m, c)
<1>0. "left" \in Side /\ m \in Ref
  BY NilIsNoNode DEF Side
<1>1. /\ u \in TreeType /\ u.root = t.root /\ u.p = t.p /\ u.color = t.color
      /\ u.child["left"][m] = l
      /\ \A b \in Side, k \in Node : ~(k = m /\ b = "left") => u.child[b][k] = t.child[b][k]
  <2>1. Rechilded(t, u, "left", m, l)
    BY <1>0, SetChildIs
  <2>. HIDE DEF u
  <2>. QED
    BY <2>1 DEF Rechilded
<1>. HIDE DEF u
<1>2. Reparented(u, g, l, m)
  BY <1>0, <1>1, SetParentIs
<1>. HIDE DEF g
<1>3. /\ r \in TreeType /\ r.root = g.root /\ r.child = g.child /\ r.p = g.p
      /\ \A k \in Ref : r.color[k] = IF k = m THEN c ELSE g.color[k]
  BY <1>0, <1>2, PaintIs, SMTT(30) DEF Reparented
<1>. HIDE DEF r
<1>4. Finished(t, r, m, l, c)
  BY <1>1, <1>2, <1>3 DEF Reparented, Finished
<1>. QED
  BY <1>4 DEF Finish, r, g, u

\* Replace as single steps.
Prepared(t, n, m) ==
  IF t.p[m] = n THEN SetParent(t, t.child["right"][m], m)
  ELSE LET u == SetChild(Transplant(t, m, t.child["right"][m]), "right", m, t.child["right"][n])
       IN SetParent(u, u.child["right"][m], m)

\* Replace is these steps.
LEMMA ReplaceSteps ==
  ASSUME NEW t \in TreeType, NEW n \in Node, NEW m \in Node, Prepared(t, n, m) \in TreeType
  PROVE  Replace(t, n, m) = Finish(Transplant(Prepared(t, n, m), n, m), m, t.child["left"][n], t.color[n])
<1>. DEFINE t1 == Prepared(t, n, m)
            l == t.child["left"][n]
<1>. DEFINE below == t.child["right"][m]
            a == IF t.p[m] = n THEN [t EXCEPT !.p[below] = m]
                 ELSE LET u == [Transplant(t, m, below) EXCEPT !.child["right"][m] = t.child["right"][n]]
                      IN [u EXCEPT !.p[u.child["right"][m]] = m]
            b == [Transplant(a, n, m) EXCEPT !.child["left"][m] = t.child["left"][n]]
            c == [b EXCEPT !.p[b.child["left"][m]] = m, !.color[m] = t.color[n]]
<1>1. Replace(t, n, m) = c
  BY Zenon DEF Replace
<1>0. t1 \in TreeType
  OBVIOUS
<1>2. a = t1
  BY DEF SetParent, SetChild, Prepared
<1>. HIDE DEF a, t1
<1>. DEFINE w == Transplant(t1, n, m)
            d == [w EXCEPT !.child["left"][m] = l]
<1>3. b = d
  BY <1>2
<1>4. d = SetChild(w, "left", m, l)
  BY DEF SetChild
<1>. HIDE DEF b, w
<1>5. c = [d EXCEPT !.p[d.child["left"][m]] = m, !.color[m] = t.color[n]]
  BY <1>3
<1>6. d \in TreeType
  <2>1. w \in TreeType
    BY <1>0, NilIsNoNode, TransplantIs DEF Spliced, w
  <2>2. "left" \in Side /\ l \in Ref
    BY DEF Side, TreeType
  <2>. HIDE DEF d
  <2>3. Rechilded(w, SetChild(w, "left", m, l), "left", m, l)
    BY <2>1, <2>2, SetChildIs
  <2>. QED
    BY <1>4, <2>3 DEF Rechilded
<1>. HIDE DEF c, d
<1>7. [d EXCEPT !.p[d.child["left"][m]] = m, !.color[m] = t.color[n]]
        = Paint(SetParent(d, d.child["left"][m], m), m, t.color[n])
  BY <1>6 DEF Paint, SetParent, TreeType
<1>. QED
  BY <1>1, <1>4, <1>5, <1>7, Zenon DEF w, Finish, t1

\* The successor hangs under the node itself.
LEMMA ReplaceChild ==
  ASSUME NEW t \in TreeType, NEW S, NEW under, NEW pos, Laid(t, S, under, pos), t.p[Nil] = Nil,
         NEW n \in S, NEW l, l = t.child["left"][n], NEW r, r = t.child["right"][n], l # Nil, r # Nil,
         NEW m, m = Extreme(t, "left", r), NEW below, below = t.child["right"][m], t.p[m] = n
  PROVE  Renamed(Transplant(t, m, below), Replace(t, n, m), S \ {m}, n, m)
<1>0. Around(t, S, n, m, l, r, below) /\ t.p[n] # m
  BY AroundIs
<1>. DEFINE T == Transplant(t, m, below)
            q == t.p[n]
            v == SideOf(t, n)
            t1 == SetParent(t, below, m)
            w == Transplant(t1, n, m)
            R == Finish(w, m, l, t.color[n])
<1>2. /\ S \in SUBSET Node /\ Nil \notin S /\ Nil \in Ref /\ Node \subseteq Ref
      /\ n \in S /\ m \in S /\ m # n /\ n \in Node /\ m \in Node /\ l \in S /\ r \in S
      /\ below \in Ref /\ l # m /\ l # n /\ below # m /\ below # n /\ below # l /\ m = r
      /\ t.p[l] = n /\ t.p[Nil] = Nil /\ t.p[n] # m
  BY <1>0, Zenon DEF Around, Kin, Ref
<1>3. /\ v \in Side /\ (n = t.root => q = Nil)
      /\ n # t.root => /\ q \in S /\ q # Nil /\ q # n /\ t.child[v][q] = n
      /\ \A k \in S, b \in Side : t.child[b][k] = n => n # t.root /\ k = q /\ b = v
  BY HangsAt
<1>4. /\ T \in TreeType /\ T.color = t.color /\ T.root = t.root
      /\ \A k \in Ref : T.p[k] = IF k = below THEN n ELSE t.p[k]
      /\ \A b \in Side, k \in Node \ {n} : T.child[b][k] = t.child[b][k]
      /\ T.child["right"][n] = below /\ T.child["left"][n] = l
  <2>1. Spliced(t, T, m, below, n, SideOf(t, m))
    BY <1>2, TransplantIs
  <2>2. SideOf(t, m) = "right"
    <3>1. \A k \in S, b \in Side : t.child[b][k] = m => b = SideOf(t, m)
      BY <1>2, HangsAt
    <3>. QED
      BY <1>2, <3>1 DEF Side
  <2>. HIDE DEF T
  <2>3. "left" \in Side /\ "left" # "right"
    BY DEF Side
  <2>. QED
    BY <1>2, <2>1, <2>2, <2>3 DEF Spliced
<1>5. /\ t1 \in TreeType /\ t1.root = t.root /\ t1.child = t.child /\ t1.color = t.color
      /\ \A k \in Ref : t1.p[k] = IF k = below THEN m ELSE t.p[k]
  <2>1. m \in Ref /\ below \in Ref
    BY <1>2
  <2>2. Reparented(t, t1, below, m)
    BY <2>1, SetParentIs
  <2>. HIDE DEF t1
  <2>. QED
    BY <2>2 DEF Reparented
<1>1. Replace(t, n, m) = R
  <2>1. Prepared(t, n, m) = t1
    BY DEF Prepared
  <2>. HIDE DEF t1
  <2>2. Replace(t, n, m) = Finish(Transplant(Prepared(t, n, m), n, m), m, t.child["left"][n], t.color[n])
    BY <1>2, <1>5, <2>1, ReplaceSteps, SMTT(30)
  <2>. QED
    BY <2>1, <2>2
<1>6. t1.p[n] = q /\ SideOf(t1, n) = v
  BY <1>2, <1>5, Zenon DEF SideOf
<1>. HIDE DEF t1
<1>7. Spliced(t1, w, n, m, q, v)
  BY <1>2, <1>5, <1>6, TransplantIs, SMTT(30)
<1>8. w \in TreeType /\ t.color[n] \in Color
  BY <1>2, <1>7, Zenon DEF Spliced, TreeType
<1>. HIDE DEF w, v, q, T
<1>a. Finished(w, R, m, l, t.color[n])
  <2>1. w \in TreeType /\ m \in Node /\ l \in Ref /\ t.color[n] \in Color
    BY <1>2, <1>8
  <2>. QED
    BY <2>1, ReplaceEnd
<1>. HIDE DEF R
<1>9. /\ R \in TreeType /\ R.root = w.root
      /\ \A b \in Side, k \in Node : ~(k = m /\ b = "left") => R.child[b][k] = w.child[b][k]
      /\ R.child["left"][m] = l
      /\ \A k \in Ref : R.p[k] = IF k = l THEN m ELSE w.p[k]
      /\ \A k \in Ref : R.color[k] = IF k = m THEN t.color[n] ELSE w.color[k]
  BY <1>a, SMTT(30) DEF Finished
<1>10. R.root = IF n = T.root THEN m ELSE T.root
  <2>1. w.root = IF q = Nil THEN m ELSE t1.root
    BY <1>7, Zenon DEF Spliced
  <2>. QED
    BY <1>2, <1>3, <1>4, <1>5, <1>9, <2>1
<1>11. \A k \in Ref : R.color[k] = IF k = m THEN T.color[n] ELSE T.color[k]
  BY <1>4, <1>5, <1>7, <1>9 DEF Spliced
<1>12. \A k \in Ref : R.p[k] = IF k = l THEN m ELSE IF k = m THEN q ELSE IF k = below THEN m ELSE t.p[k]
  BY <1>5, <1>7, <1>9 DEF Spliced
<1>13. R.p[m] = T.p[n]
  BY <1>2, <1>4, <1>12 DEF q
<1>14. ASSUME NEW k \in ((S \ {m}) \ {n}) \cup {Nil}
       PROVE  R.p[k] = IF T.p[k] = n THEN m ELSE T.p[k]
  <2>1. k \in Ref /\ k # m
    BY <1>2
  <2>2. t.p[k] = n => k = l \/ k = m
    <3>1. CASE k = Nil
      BY <1>2, <3>1
    <3>2. CASE k # Nil
      <4>1. k \in S
        BY <1>14, <3>2, SMTT(30)
      <4>2. t.p[k] = n => k # t.root
        <5>1. Kin(t, S)
          BY <1>0, Zenon DEF Around
        <5>2. t.root # Nil => t.p[t.root] = Nil
          BY <5>1, Zenon DEF Kin
        <5>. QED
          BY <1>2, <3>2, <5>2, Zenon
      <4>3. t.p[k] = n => \E b \in Side : k = t.child[b][n]
        BY <1>0, <4>1, <4>2 DEF Around, Kin
      <4>. QED
        BY <1>2, <4>3 DEF Side
    <3>. QED
      BY <3>1, <3>2
  <2>. QED
    BY <1>2, <1>4, <1>12, <2>1, <2>2
<1>15. \A b \in Side : R.child[b][m] = T.child[b][n]
  <2>1. R.child["left"][m] = T.child["left"][n]
    BY <1>4, <1>9
  <2>2. R.child["right"][m] = w.child["right"][m]
    BY <1>2, <1>9, Zenon DEF Side
  <2>3. w.child["right"][m] = t1.child["right"][m]
    <3>1. q # m
      BY <1>2 DEF q
    <3>. QED
      BY <1>2, <1>7, <3>1 DEF Spliced, Side
  <2>4. R.child["right"][m] = below
    BY <1>5, <2>2, <2>3
  <2>. QED
    BY <1>4, <2>1, <2>4 DEF Side
<1>16. ASSUME NEW k \in (S \ {m}) \ {n}, NEW b \in Side
       PROVE  R.child[b][k] = IF T.child[b][k] = n THEN m ELSE T.child[b][k]
  <2>1. k \in Node /\ k # m /\ k # n /\ k \in S
    BY <1>2
  <2>2. R.child[b][k] = w.child[b][k] /\ T.child[b][k] = t.child[b][k]
    BY <1>4, <1>9, <2>1
  <2>3. t.child[b][k] = n => k = q /\ b = v /\ q # Nil
    BY <1>2, <1>3, <2>1
  <2>4. q # Nil /\ k = q /\ b = v => t.child[b][k] = n /\ w.child[b][k] = m
    BY <1>2, <1>3, <1>7 DEF Spliced
  <2>5. ~(q # Nil /\ k = q /\ b = v) => w.child[b][k] = t.child[b][k]
    BY <1>5, <1>7, <2>1, SMTT(30) DEF Spliced
  <2>. QED
    BY <2>2, <2>3, <2>4, <2>5
<1>17. Renamed(T, R, S \ {m}, n, m)
  BY <1>9, <1>10, <1>11, <1>13, <1>14, <1>15, <1>16, Zenon DEF Renamed
<1>. QED
  BY <1>1, <1>17 DEF T

\* The successor hangs further down.
LEMMA ReplaceDeeper ==
  ASSUME NEW t \in TreeType, NEW S, NEW under, NEW pos, Laid(t, S, under, pos), t.p[Nil] = Nil,
         NEW n \in S, NEW l, l = t.child["left"][n], NEW r, r = t.child["right"][n], l # Nil, r # Nil,
         NEW m, m = Extreme(t, "left", r), NEW below, below = t.child["right"][m], t.p[m] # n
  PROVE  Renamed(Transplant(t, m, below), Replace(t, n, m), S \ {m}, n, m)
<1>0. Around(t, S, n, m, l, r, below) /\ t.p[n] # m
  BY AroundIs
<1>. DEFINE T == Transplant(t, m, below)
            q == t.p[n]
            q2 == t.p[m]
            v == SideOf(T, n)
            u == SetChild(T, "right", m, r)
            t1 == SetParent(u, r, m)
            w == Transplant(t1, n, m)
            R == Finish(w, m, l, t.color[n])
<1>2. /\ S \in SUBSET Node /\ Nil \notin S /\ Nil \in Ref /\ Node \subseteq Ref
      /\ n \in S /\ m \in S /\ m # n /\ n \in Node /\ m \in Node /\ l \in S /\ r \in S /\ l # r /\ r # n
      /\ below \in Ref /\ l # m /\ l # n /\ below # m /\ below # n /\ below # l /\ below # r
      /\ t.p[l] = n /\ t.p[r] = n /\ t.p[Nil] = Nil /\ t.p[n] # m /\ t.child["left"][m] = Nil
  BY <1>0, Zenon DEF Around, Kin, Ref
<1>3. Spliced(t, T, m, below, q2, SideOf(t, m)) /\ T \in TreeType
  <2>1. Spliced(t, T, m, below, q2, SideOf(t, m))
    BY <1>2, TransplantIs
  <2>. HIDE DEF T
  <2>. QED
    BY <2>1, Zenon DEF Spliced
<1>4. Laid(T, S \ {m}, Without(under, m), pos)
  <2>. HIDE DEF T
  <2>1. "left" \in Side /\ Other("left") = "right"
    BY DEF Side, Other
  <2>. QED
    BY <1>2, <1>3, <2>1, SpliceLaid, Zenon
<1>5. /\ q2 \in S /\ q2 # n /\ q2 # m
      /\ \A k \in S, b \in Side : t.child[b][k] = m => k = q2
      /\ t.root # m
  <2>1. q2 \in S /\ q2 # m
    BY <1>0 DEF Around
  <2>2. \A k \in S, b \in Side : t.child[b][k] = m => m # t.root /\ k = q2
    BY <1>2, HangsAt, SMTT(30)
  <2>3. t.root # m
    <3>1. t.root # Nil => t.p[t.root] = Nil
      BY <1>0, Zenon DEF Around, Kin
    <3>2. t.p[m] \in S /\ Nil \notin S /\ m # Nil
      BY <1>0, Zenon DEF Around, Kin
    <3>. QED
      BY <3>1, <3>2, Zenon
  <2>. QED
    BY <2>1, <2>2, <2>3
<1>6. /\ T.color = t.color /\ T.root = t.root
      /\ \A k \in Ref : T.p[k] = IF k = below THEN q2 ELSE t.p[k]
      /\ \A b \in Side, k \in Node \ {q2} : T.child[b][k] = t.child[b][k]
  <2>. HIDE DEF T
  <2>1. q2 # Nil
    BY <1>2, <1>5
  <2>. QED
    BY <1>3, <2>1, Zenon DEF Spliced
<1>. HIDE DEF T, q2
<1>7. /\ v \in Side /\ (n = T.root => q = Nil)
      /\ n # T.root => /\ q \in S /\ q # m /\ q # Nil /\ q # n /\ T.child[v][q] = n
      /\ \A k \in S \ {m}, b \in Side : T.child[b][k] = n => n # T.root /\ k = q /\ b = v
  <2>1. T.p[n] = q
    BY <1>2, <1>6
  <2>2. n \in S \ {m}
    BY <1>2
  <2>3. /\ v \in Side /\ (n = T.root => T.p[n] = Nil)
        /\ n # T.root => T.p[n] \in S \ {m} /\ T.p[n] # Nil /\ T.p[n] # n /\ T.child[v][T.p[n]] = n
        /\ \A k \in S \ {m}, b \in Side : T.child[b][k] = n => n # T.root /\ k = T.p[n] /\ b = v
    <3>. DEFINE A == S \ {m}
                Q == T.p[n]
    <3>1. Laid(T, A, Without(under, m), pos) /\ n \in A /\ Q = T.p[n] /\ v = SideOf(T, n)
      BY <1>4, <2>2
    <3>. HIDE DEF A, Q, v
    <3>2. /\ v \in Side /\ (n = T.root => Q = Nil)
          /\ n # T.root => Q \in A /\ Q # Nil /\ Q # n /\ T.child[v][Q] = n
          /\ \A k \in A, b \in Side : T.child[b][k] = n => n # T.root /\ k = Q /\ b = v
      BY <1>3, <3>1, HangsAt
    <3>. QED
      BY <3>2 DEF A, Q
  <2>. QED
    BY <2>1, <2>3
<1>8. "left" \in Side /\ "right" \in Side /\ "left" # "right" /\ \A b \in Side : b = "left" \/ b = "right"
  BY DEF Side
<1>9. /\ u \in TreeType /\ u.root = T.root /\ u.p = T.p /\ u.color = T.color
      /\ u.child["right"][m] = r
      /\ \A b \in Side, k \in Node : ~(k = m /\ b = "right") => u.child[b][k] = T.child[b][k]
  <2>1. r \in Ref
    BY <1>2
  <2>. QED
    <3>1. Rechilded(T, u, "right", m, r)
      BY <1>2, <1>3, <1>8, <2>1, SetChildIs
    <3>. HIDE DEF u
    <3>. QED
      BY <3>1 DEF Rechilded
<1>10. Reparented(u, t1, r, m)
  <2>. HIDE DEF u
  <2>. QED
    BY <1>2, <1>9, SetParentIs, SMTT(30)
<1>11. Prepared(t, n, m) = t1
  <2>1. u.child["right"][m] = r
    BY <1>9, Zenon
  <2>2. Prepared(t, n, m) = LET a == SetChild(Transplant(t, m, t.child["right"][m]), "right", m, t.child["right"][n])
                            IN SetParent(a, a.child["right"][m], m)
    BY DEF Prepared
  <2>. QED
    BY <2>1, <2>2, Zenon DEF T
<1>. HIDE DEF u, t1
<1>12. /\ t1 \in TreeType /\ t1.root = T.root /\ t1.child = u.child /\ t1.color = T.color
       /\ \A k \in Ref : t1.p[k] = IF k = r THEN m ELSE T.p[k]
  BY <1>9, <1>10 DEF Reparented
<1>13. Replace(t, n, m) = R
  <2>2. Replace(t, n, m) = Finish(Transplant(Prepared(t, n, m), n, m), m, t.child["left"][n], t.color[n])
    BY <1>2, <1>11, <1>12, ReplaceSteps
  <2>. QED
    BY <1>11, <2>2
<1>14. t1.p[n] = q /\ SideOf(t1, n) = v
  <2>1. T.p[n] = q /\ t1.p[n] = q
    BY <1>2, <1>6, <1>12
  <2>2. t1.child["left"] = T.child["left"]
    <3>1. \A k \in Node : t1.child["left"][k] = T.child["left"][k]
      BY <1>8, <1>9, <1>12
    <3>2. t1.child["left"] \in [Node -> Ref] /\ T.child["left"] \in [Node -> Ref]
      BY <1>3, <1>8, <1>12 DEF TreeType
    <3>. QED
      BY <3>1, <3>2
  <2>. QED
    BY <2>1, <2>2 DEF SideOf, v
<1>. HIDE DEF v, q
<1>15. Spliced(t1, w, n, m, q, v)
  <2>1. Spliced(t1, w, n, m, t1.p[n], SideOf(t1, n))
    BY <1>2, <1>12, TransplantIs, SMTT(30)
  <2>. QED
    BY <1>14, <2>1
<1>16. w \in TreeType /\ t.color[n] \in Color
  BY <1>2, <1>15, Zenon DEF Spliced, TreeType
<1>. HIDE DEF w
<1>17. Finished(w, R, m, l, t.color[n])
  <2>1. w \in TreeType /\ m \in Node /\ l \in Ref /\ t.color[n] \in Color
    BY <1>2, <1>16
  <2>. QED
    BY <2>1, ReplaceEnd
<1>. HIDE DEF R
<1>18. /\ R \in TreeType /\ R.root = w.root
       /\ \A b \in Side, k \in Node : ~(k = m /\ b = "left") => R.child[b][k] = w.child[b][k]
       /\ R.child["left"][m] = l
       /\ \A k \in Ref : R.p[k] = IF k = l THEN m ELSE w.p[k]
       /\ \A k \in Ref : R.color[k] = IF k = m THEN t.color[n] ELSE w.color[k]
  BY <1>17 DEF Finished
<1>19. R.root = IF n = T.root THEN m ELSE T.root
  BY <1>7, <1>12, <1>15, <1>18 DEF Spliced
<1>20. \A k \in Ref : R.color[k] = IF k = m THEN T.color[n] ELSE T.color[k]
  BY <1>6, <1>12, <1>15, <1>18 DEF Spliced
<1>21. \A k \in Ref : R.p[k] = IF k = l THEN m ELSE IF k = m THEN q ELSE IF k = r THEN m ELSE T.p[k]
  BY <1>12, <1>15, <1>18 DEF Spliced
<1>22. R.p[m] = T.p[n]
  BY <1>2, <1>6, <1>21 DEF q
<1>23. ASSUME NEW k \in ((S \ {m}) \ {n}) \cup {Nil}
       PROVE  R.p[k] = IF T.p[k] = n THEN m ELSE T.p[k]
  <2>1. k \in Ref /\ k # m
    BY <1>2
  <2>2. T.p[l] = n /\ T.p[r] = n
    BY <1>2, <1>6
  <2>3. T.p[k] = n => k = l \/ k = r
    <3>1. SUFFICES ASSUME T.p[k] = n PROVE k = l \/ k = r
      OBVIOUS
    <3>2. k # below /\ t.p[k] = n
      BY <1>5, <1>6, <2>1, <3>1
    <3>3. k \in S
      BY <1>2, <1>23, <3>2, SMTT(30)
    <3>k. Kin(t, S)
      BY <1>0, Zenon DEF Around
    <3>4. k # t.root
      <4>1. t.root # Nil => t.p[t.root] = Nil
        BY <3>k, Zenon DEF Kin
      <4>2. n # Nil /\ k # Nil
        BY <1>2, <3>3, Zenon
      <4>. QED
        BY <3>2, <4>1, <4>2, Zenon
    <3>5. \E b \in Side : k = t.child[b][n]
      <4>1. \A j \in S : j # t.root => \E b \in Side : j = t.child[b][t.p[j]]
        BY <3>k, Zenon DEF Kin
      <4>2. \E b \in Side : k = t.child[b][t.p[k]]
        BY <3>3, <3>4, <4>1, Zenon
      <4>. QED
        BY <3>2, <4>2
    <3>. QED
      BY <1>8, <3>5
  <2>. QED
    BY <1>21, <2>1, <2>2, <2>3
<1>24. \A b \in Side : R.child[b][m] = T.child[b][n]
  <2>1. T.child["left"][n] = l /\ T.child["right"][n] = r
    BY <1>2, <1>5, <1>6, <1>8
  <2>2. R.child["left"][m] = l
    BY <1>18
  <2>3. R.child["right"][m] = w.child["right"][m]
    BY <1>2, <1>8, <1>18
  <2>4. w.child["right"][m] = t1.child["right"][m]
    <3>1. q # m
      BY <1>2 DEF q
    <3>. QED
      BY <1>2, <1>8, <1>15, <3>1 DEF Spliced
  <2>5. R.child["right"][m] = r
    BY <1>9, <1>12, <2>3, <2>4
  <2>. QED
    BY <1>8, <2>1, <2>2, <2>5
<1>25. ASSUME NEW k \in (S \ {m}) \ {n}, NEW b \in Side
       PROVE  R.child[b][k] = IF T.child[b][k] = n THEN m ELSE T.child[b][k]
  <2>1. k \in Node /\ k # m /\ k # n /\ k \in S
    BY <1>2
  <2>2. R.child[b][k] = w.child[b][k] /\ t1.child[b][k] = T.child[b][k]
    BY <1>9, <1>12, <1>18, <2>1
  <2>3. T.child[b][k] = n => k = q /\ b = v /\ q # Nil
    BY <1>2, <1>7, <2>1
  <2>4. q # Nil /\ k = q /\ b = v => T.child[b][k] = n /\ w.child[b][k] = m
    BY <1>2, <1>7, <1>15 DEF Spliced
  <2>5. ~(q # Nil /\ k = q /\ b = v) => w.child[b][k] = T.child[b][k]
    BY <1>15, <2>1, <2>2, SMTT(30) DEF Spliced
  <2>. QED
    BY <2>2, <2>3, <2>4, <2>5
<1>26. Renamed(T, R, S \ {m}, n, m)
  BY <1>18, <1>19, <1>20, <1>22, <1>23, <1>24, <1>25, Zenon DEF Renamed
<1>. QED
  BY <1>13, <1>26 DEF T

\* A red-black tree over S, up to the exemptions X and Z.
Fine(t, S, X, Z, pos) ==
  /\ t \in TreeType
  /\ Nil \in X => Hole(t, S)
  /\ \E under, h : Laid(t, S, under, pos) /\ Even(t, S, X, h) /\ Reds(t, S, X, Z)

\* What the removal of a node's color exempts.
Missing(t, m, c) == IF t.color[m] = "red" THEN {} ELSE {c}

\* erase() of a node with at most one child.
LEMMA UnlinkOuter ==
  ASSUME NEW t, NEW S, NEW pos, Fine(t, S, {}, {}, pos),
         NEW n \in S, NEW s \in Side, t.child[s][n] = Nil, NEW c, c = t.child[Other(s)][n]
  PROVE  /\ Fine(Transplant(t, n, c), S \ {n}, Missing(t, n, c), {}, pos)
         /\ c \in (S \ {n}) \cup {Nil}
<1>1. PICK under, h : Laid(t, S, under, pos) /\ Even(t, S, {}, h) /\ Reds(t, S, {}, {})
  BY DEF Fine
<1>2. t \in TreeType /\ Kin(t, S)
  BY <1>1, KinIs DEF Fine
<1>3. Other(s) \in Side
  BY Sides
<1>4. n \in Node /\ c \in S \cup {Nil} /\ c # n /\ c \in Ref
  BY <1>2, <1>3 DEF Kin
<1>. DEFINE r == Transplant(t, n, c)
            q == t.p[n]
            v == SideOf(t, n)
            X == Missing(t, n, c)
<1>5. Spliced(t, r, n, c, q, v)
  BY <1>2, <1>4, TransplantIs
<1>6. q = t.p[n] /\ v = SideOf(t, n)
  OBVIOUS
<1>. HIDE DEF r, q, v
<1>7. Laid(r, S \ {n}, Without(under, n), pos)
  BY <1>1, <1>2, <1>5, <1>6, SpliceLaid, Zenon
<1>8. Skipped(t, r, S, n, c)
  BY <1>1, <1>2, <1>5, <1>6, SplicedIs
<1>9. X = IF t.color[n] = "red" THEN {} ELSE {c}
  BY DEF Missing
<1>. HIDE DEF X
<1>10. /\ Even(r, S \ {n}, X, h) /\ Reds(r, S \ {n}, X, {})
       /\ Nil \in X => Hole(r, S \ {n})
  BY <1>1, <1>2, <1>8, <1>9, SpliceColors
<1>11. r \in TreeType
  BY <1>5 DEF Spliced
<1>12. Fine(r, S \ {n}, X, {}, pos)
  BY <1>7, <1>10, <1>11, Zenon DEF Fine
<1>. QED
  BY <1>4, <1>12 DEF r, X

\* erase() of a node with two children.
LEMMA UnlinkInner ==
  ASSUME NEW t, NEW S, NEW pos, Fine(t, S, {}, {}, pos), t.p[Nil] = Nil,
         NEW n \in S, t.child["left"][n] # Nil, t.child["right"][n] # Nil,
         NEW m, m = Extreme(t, "left", t.child["right"][n]), NEW c, c = t.child["right"][m]
  PROVE  /\ Fine(Replace(t, n, m), S \ {n}, Missing(t, m, c), {}, pos)
         /\ c \in (S \ {n}) \cup {Nil}
         /\ m \in S /\ m # n
<1>1. PICK under, h : Laid(t, S, under, pos) /\ Even(t, S, {}, h) /\ Reds(t, S, {}, {})
  BY DEF Fine
<1>2. t \in TreeType /\ Kin(t, S)
  BY <1>1, KinIs DEF Fine
<1>. DEFINE l == t.child["left"][n]
            b == t.child["right"][n]
            T == Transplant(t, m, c)
            R == Replace(t, n, m)
            X == Missing(t, m, c)
<1>3. Around(t, S, n, m, l, b, c)
  BY <1>1, <1>2, AroundIs
<1>4. /\ m \in S /\ m # n /\ c \in S \cup {Nil} /\ c # n /\ c # m /\ t.child["left"][m] = Nil
      /\ n \in Node /\ m \in Node /\ c \in Ref /\ S \in SUBSET Node
  BY <1>3, Zenon DEF Around, Kin, Ref
<1>5. pos[n] < pos[m] /\ \A k \in S : k # m /\ pos[n] < pos[k] => pos[m] < pos[k]
  BY <1>1, <1>2, SuccessorIs
<1>6. "left" \in Side /\ c = t.child[Other("left")][m]
  BY DEF Side, Other
<1>7. Renamed(T, R, S \ {m}, n, m)
  <2>1. t.p[m] = n => Renamed(T, R, S \ {m}, n, m)
    BY <1>1, <1>2, ReplaceChild, Zenon
  <2>2. t.p[m] # n => Renamed(T, R, S \ {m}, n, m)
    BY <1>1, <1>2, ReplaceDeeper
  <2>. QED
    BY <2>1, <2>2
<1>. DEFINE q == t.p[m]
            v == SideOf(t, m)
            A == S \ {m}
<1>8. Spliced(t, T, m, c, q, v)
  BY <1>2, <1>4, TransplantIs
<1>9. q = t.p[m] /\ v = SideOf(t, m)
  BY SMTT(30)
<1>. HIDE DEF T, q, v, R, l, b
<1>10. Laid(T, A, Without(under, m), pos)
  BY <1>1, <1>2, <1>4, <1>6, <1>8, <1>9, SpliceLaid, Zenon
<1>11. Skipped(t, T, S, m, c)
  BY <1>1, <1>2, <1>4, <1>6, <1>8, <1>9, SplicedIs, Zenon
<1>12. X = (IF t.color[m] = "red" THEN {} ELSE {c})
  BY DEF Missing
<1>. HIDE DEF X
<1>13. /\ Even(T, A, X, h) /\ Reds(T, A, X, {})
       /\ Nil \in X => Hole(T, A)
  BY <1>1, <1>2, <1>4, <1>11, <1>12, SpliceColors
<1>14. T \in TreeType
  BY <1>8 DEF Spliced
<1>15. n \in A /\ m \in Node \ A /\ (A \ {n}) \cup {m} = S \ {n}
  BY <1>4
<1>16. X \in SUBSET (A \cup {Nil}) /\ n \notin X
  BY <1>4, <1>12
<1>17. Renamed(T, R, A, n, m)
  BY <1>7
<1>. HIDE DEF A
<1>18. Kin(T, A)
  BY <1>10, <1>14, KinIs
<1>. DEFINE pos2 == [pos EXCEPT ![m] = pos[n]]
            u2 == UnderInstead(Without(under, m), n, m)
            h2 == [h EXCEPT ![m] = h[n]]
<1>19. Laid(R, (A \ {n}) \cup {m}, u2, pos2)
  BY <1>10, <1>14, <1>15, <1>17, RenameLaid
<1>20. /\ Even(R, (A \ {n}) \cup {m}, X, h2)
       /\ Reds(R, (A \ {n}) \cup {m}, X, {})
       /\ Nil \in X => Hole(R, (A \ {n}) \cup {m})
  BY <1>13, <1>14, <1>15, <1>16, <1>17, <1>18, RenameColors, Zenon
<1>21. pos \in [Node -> Int]
  BY <1>1 DEF Laid
<1>22. ASSUME NEW i \in S \ {n}, NEW j \in S \ {n}, pos2[i] < pos2[j]
       PROVE  pos[i] < pos[j]
  <2>1. i \in Node /\ j \in Node /\ i # n /\ j # n /\ i \in S /\ j \in S
    BY <1>4
  <2>2. /\ pos2[i] = IF i = m THEN pos[n] ELSE pos[i]
        /\ pos2[j] = IF j = m THEN pos[n] ELSE pos[j]
    BY <1>21, <2>1
  <2>3. pos[i] \in Int /\ pos[j] \in Int /\ pos[n] \in Int /\ pos[m] \in Int
    BY <1>4, <1>21, <2>1
  <2>4. i = m /\ j # m => pos[m] < pos[j]
    BY <1>5, <1>22, <2>1, <2>2
  <2>. HIDE DEF pos2
  <2>. QED
    BY <1>5, <1>22, <2>2, <2>3, <2>4
<1>. HIDE DEF pos2, u2, h2
<1>23. Laid(R, S \ {n}, u2, pos)
  BY <1>15, <1>19, <1>21, <1>22, SameOrder, Zenon
<1>24. Even(R, S \ {n}, X, h2) /\ Reds(R, S \ {n}, X, {}) /\ (Nil \in X => Hole(R, S \ {n}))
  BY <1>15, <1>20
<1>25. R \in TreeType
  BY <1>17 DEF Renamed
<1>26. Fine(R, S \ {n}, X, {}, pos)
  BY <1>23, <1>24, <1>25, Zenon DEF Fine
<1>. QED
  BY <1>4, <1>26 DEF R, X

\* r is t with one color set.
Painted(t, r, n, c) ==
  /\ r \in TreeType /\ r.root = t.root /\ r.child = t.child /\ r.p = t.p
  /\ \A k \in Ref : r.color[k] = IF k = n THEN c ELSE t.color[k]

\* Paint sets one color.
LEMMA PaintingIs ==
  ASSUME NEW t \in TreeType, NEW n \in Ref, NEW c \in Color
  PROVE  Painted(t, Paint(t, n, c), n, c)
BY PaintIs DEF Painted

\* The two colors.
LEMMA Colors == Color = {"red", "black"} /\ "red" \in Color /\ "black" \in Color
BY DEF Color

\* r is t with three colors set, one after the other.
Painted3(t, r, n, c, m, d, k, e) ==
  /\ r \in TreeType /\ r.root = t.root /\ r.child = t.child /\ r.p = t.p
  /\ \A i \in Ref : r.color[i] = IF i = k THEN e ELSE IF i = m THEN d ELSE IF i = n THEN c ELSE t.color[i]

\* Three assignments of colors.
LEMMA ThreePaintings ==
  ASSUME NEW t \in TreeType, NEW n \in Ref, NEW c \in Color, NEW m \in Ref, NEW d \in Color,
         NEW k \in Ref, NEW e \in Color
  PROVE  Painted3(t, Paint(Paint(Paint(t, n, c), m, d), k, e), n, c, m, d, k, e)
<1>. DEFINE a == Paint(t, n, c)
            b == Paint(a, m, d)
            r == Paint(b, k, e)
<1>1. Painted(t, a, n, c)
  BY PaintingIs
<1>. HIDE DEF a
<1>2. Painted(a, b, m, d)
  BY <1>1, PaintingIs DEF Painted
<1>. HIDE DEF b
<1>3. Painted(b, r, k, e)
  BY <1>2, PaintingIs DEF Painted
<1>. HIDE DEF r
<1>4. Painted3(t, r, n, c, m, d, k, e)
  BY <1>1, <1>2, <1>3 DEF Painted, Painted3
<1>. QED
  BY <1>4 DEF r, b, a

\* Two assignments of colors.
LEMMA TwoPaintings ==
  ASSUME NEW t \in TreeType, NEW n \in Ref, NEW c \in Color, NEW m \in Ref, NEW d \in Color
  PROVE  Painted3(t, Paint(Paint(t, n, c), m, d), n, c, m, d, m, d)
<1>. DEFINE a == Paint(t, n, c)
            b == Paint(a, m, d)
<1>1. Painted(t, a, n, c)
  BY PaintingIs
<1>. HIDE DEF a
<1>2. Painted(a, b, m, d)
  BY <1>1, PaintingIs DEF Painted
<1>. HIDE DEF b
<1>3. Painted3(t, b, n, c, m, d, m, d)
  BY <1>1, <1>2 DEF Painted, Painted3
<1>. QED
  BY <1>3 DEF b, a

-----------------------------------------------------------------------------
(* delete_fixup().                                                         *)

\* a, which stands for a black node too many, hangs on the side s of up, and
\* has a sibling.
Ready(t, S, a, s, up) ==
  /\ up \in S /\ s \in Side /\ a \in S \cup {Nil} /\ a # up
  /\ t.child[s][up] = a /\ t.color[a] # "red"
  /\ t.child[Other(s)][up] # Nil
  /\ a = Nil => t.p[Nil] = up

\* Where a turn of delete_fixup() begins.
LEMMA ReadyToFix ==
  ASSUME NEW t, NEW S, NEW pos, NEW a, Fine(t, S, {a}, {}, pos),
         a \in S \cup {Nil}, a # t.root, t.color[a] # "red"
  PROVE  Ready(t, S, a, SideOf(t, a), t.p[a])
<1>1. PICK under, h : Laid(t, S, under, pos) /\ Even(t, S, {a}, h) /\ Reds(t, S, {a}, {})
  BY DEF Fine
<1>2. t \in TreeType /\ Kin(t, S)
  BY <1>1, KinIs DEF Fine
<1>. DEFINE s == SideOf(t, a)
            up == t.p[a]
            o == Other(s)
<1>3. s \in Side /\ o \in Side /\ o # s /\ \A b \in Side : b = s \/ b = o
  BY SideOfType, Sides
<1>4. CASE a # Nil
  <2>1. a \in S
    BY <1>4
  <2>2. up \in S /\ up # Nil /\ up # a /\ t.child[s][up] = a
    <3>1. s = SideOf(t, a) /\ up = t.p[a]
      OBVIOUS
    <3>. HIDE DEF s, up
    <3>. QED
      BY <1>1, <1>2, <2>1, <3>1, HangsAt
  <2>. HIDE DEF s, up, o
  <2>3. h[up] = Below(t, {a}, h, up, a) /\ h[a] \in Nat
    <3>1. h[up] = Below(t, {a}, h, up, t.child[s][up])
      BY <1>1, <1>3, <2>2, Zenon DEF Even
    <3>2. a \in Node /\ h \in [Node -> Nat]
      BY <1>1, <1>2, <2>1 DEF Even, Kin
    <3>. QED
      BY <2>2, <3>1, <3>2
  <2>4. h[up] = 2 + h[a]
    BY <1>4, <2>3 DEF Below, Wt
  <2>5. t.child[o][up] # Nil
    <3>1. h[up] = Below(t, {a}, h, up, t.child[o][up])
      BY <1>1, <1>3, <2>2, Zenon DEF Even
    <3>2. Below(t, {a}, h, up, Nil) = 0
      BY <1>4 DEF Below
    <3>. QED
      BY <2>3, <2>4, <3>1, <3>2
  <2>. QED
    BY <1>3, <1>4, <2>2, <2>5 DEF Ready, s, up, o
<1>5. CASE a = Nil
  <2>1. up \in S /\ \E b \in Side : t.child[b][up] = Nil /\ t.child[Other(b)][up] # Nil
    BY <1>5 DEF Fine, Hole
  <2>2. t.child[s][up] = Nil /\ t.child[o][up] # Nil
    BY <1>5, <2>1 DEF SideOf, Side, Other
  <2>3. up # a
    BY <1>2, <1>5, <2>1 DEF Kin
  <2>. QED
    BY <1>3, <1>5, <2>1, <2>2, <2>3 DEF Ready
<1>. QED
  BY <1>4, <1>5

\* Whatever a rotation is good for.
LEMMA RotateKeeps ==
  ASSUME NEW t \in TreeType, NEW S, NEW under, NEW pos, Laid(t, S, under, pos),
         NEW n \in S, NEW s \in Side, t.child[Other(s)][n] # Nil
  PROVE  /\ Rotate(t, s, n) \in TreeType
         /\ Rotate(t, s, n).color = t.color
         /\ Rotate(t, s, n).p[Nil] = t.p[Nil]
         /\ \E u : Laid(Rotate(t, s, n), S, u, pos)
<1>. DEFINE r == Rotate(t, s, n)
            o == Other(s)
            m == t.child[o][n]
            a == t.child[s][n]
            inner == t.child[s][m]
            outer == t.child[o][m]
<1>1. Laid(r, S, Turned(t, under, s, n), pos) /\ r \in TreeType
  BY RotateLaid
<1>2. Swung(t, r, S, s, o, n, m, a, inner, outer)
  BY RotateSwings
<1>3. n # Nil /\ m # Nil
  BY NilIsNoNode DEF Laid
<1>. HIDE DEF r, o, m, a, inner, outer
<1>4. r.color = t.color /\ r.p[Nil] = t.p[Nil]
  BY <1>2, <1>3 DEF Swung
<1>. QED
  BY <1>1, <1>4 DEF r

\* The sibling is black, or its rotation brings a black one.
LEMMA SiblingIsBlack ==
  ASSUME NEW S, NEW pos, NEW a, Fine(tree, S, {a}, {}, pos), NEW s, NEW up, Ready(tree, S, a, s, up)
  PROVE  /\ Fine(BlackSibling(s, up), S, {a}, {}, pos)
         /\ Ready(BlackSibling(s, up), S, a, s, up)
         /\ ~Red(BlackSibling(s, up), BlackSibling(s, up).child[Other(s)][up])
<1>1. PICK under, h : Laid(tree, S, under, pos) /\ Even(tree, S, {a}, h) /\ Reds(tree, S, {a}, {})
  BY DEF Fine
<1>. DEFINE t == tree
            o == Other(s)
            w == t.child[o][up]
            u == Paint(Paint(t, w, "black"), up, "red")
            r == Rotate(u, s, up)
<1>2. t \in TreeType /\ Kin(t, S)
  BY <1>1, KinIs DEF Fine
<1>3. /\ s \in Side /\ o \in Side /\ o # s /\ up \in S /\ a \in S \cup {Nil} /\ a # up
      /\ t.child[s][up] = a /\ t.color[a] # "red" /\ w # Nil
      /\ a = Nil => t.p[Nil] = up
  BY Sides DEF Ready
<1>4. CASE ~Red(t, w)
  <2>1. BlackSibling(s, up) = t
    BY <1>4 DEF BlackSibling
  <2>. QED
    BY <1>4, <2>1
<1>5. CASE Red(t, w)
  <2>1. BlackSibling(s, up) = r
    BY <1>5 DEF BlackSibling
  <2>2. w \in S /\ w # up /\ t.p[w] = up /\ w # t.root /\ w # a /\ Nil \notin S /\ S \subseteq Node /\ Nil \in Ref /\ Node \subseteq Ref
    BY <1>2, <1>3 DEF Kin
  <2>3. t.color[w] = "red" /\ t.color[up] # "red"
    BY <1>1, <1>3, <1>5, <2>2 DEF Red, Reds
  <2>4. /\ u \in TreeType /\ u.root = t.root /\ u.child = t.child /\ u.p = t.p
        /\ \A k \in Ref : u.color[k] = IF k = up THEN "red" ELSE IF k = w THEN "black" ELSE t.color[k]
    <3>1. w \in Ref /\ up \in Ref
      BY <1>3, <2>2
    <3>2. Painted3(t, u, w, "black", up, "red", up, "red")
      BY <1>2, <3>1, TwoPaintings, Colors
    <3>. HIDE DEF u
    <3>. QED
      BY <3>2 DEF Painted3
  <2>. HIDE DEF u
  <2>5. Swapped(t, u, up, w)
    <3>1. t.color[up] = "black"
      BY <1>2, <1>3, <2>2, <2>3 DEF TreeType, Color
    <3>2. up \in Ref /\ w \in Ref
      BY <1>3, <2>2
    <3>. QED
      BY <2>2, <2>4, <3>1, <3>2 DEF Swapped
  <2>6. Laid(u, S, under, pos)
    BY <1>1, <2>4, SameLaid
  <2>7. u.child[o][up] = w /\ u.child[s][up] = a
    BY <1>3, <2>4
  <2>. DEFINE inner == u.child[s][w]
              outer == u.child[o][w]
  <2>. HIDE DEF w
  <2>8. Swung(u, r, S, s, o, up, w, a, inner, outer)
    <3>1. o = Other(s)
      OBVIOUS
    <3>. HIDE DEF o, r
    <3>2. u.child[s][w] = inner /\ u.child[o][w] = outer
      OBVIOUS
    <3>. HIDE DEF inner, outer
    <3>. QED
      BY <1>3, <2>4, <2>6, <2>7, <3>1, <3>2, RotateSwings DEF r
  <2>9. /\ r \in TreeType /\ r.color = u.color /\ r.p[Nil] = u.p[Nil]
        /\ \E v : Laid(r, S, v, pos)
    <3>1. u.child[Other(s)][up] # Nil
      BY <1>3, <2>7
    <3>. HIDE DEF r
    <3>. QED
      BY <1>3, <2>4, <2>6, <3>1, RotateKeeps DEF r
  <2>10. Even(r, S, {a}, h)
    <3>1. Nil \in {a} => t.p[Nil] # w /\ (t.p[Nil] = up => t.child[s][up] = Nil)
      BY <1>3, <2>2
    <3>2. w = t.child[o][up] /\ o = Other(s)
      BY DEF w
    <3>. HIDE DEF r, o, t
    <3>. QED
      BY <1>1, <1>2, <1>3, <2>2, <2>3, <2>5, <3>1, <3>2, SwingEven, Zenon DEF r, t
  <2>11. Reds(r, S, {a}, {})
    <3>2. w = t.child[o][up] /\ o = Other(s)
      BY DEF w
    <3>. HIDE DEF r, o, t
    <3>. QED
      BY <1>1, <1>2, <1>3, <2>2, <2>3, <2>5, <3>2, SwingReds, Zenon DEF r, t
  <2>. HIDE DEF r, o
  <2>12. r.child[s][up] = a /\ r.child[o][up] = inner
    BY <2>8 DEF Swung
  <2>13. inner # Nil
    <3>1. h[up] = Below(t, {a}, h, up, a) /\ h[up] = Below(t, {a}, h, up, w) /\ h[w] = Below(t, {a}, h, w, inner)
      BY <1>1, <1>3, <2>2, <2>4, ZenonT(40) DEF Even, w
    <3>2. h[a] \in Nat \/ a = Nil
      BY <1>1, <1>3, <2>2 DEF Even
    <3>3. h[up] >= 1
      BY <1>3, <3>1, <3>2 DEF Below, Wt
    <3>4. h[w] \in Nat
      BY <1>1, <2>2 DEF Even
    <3>5. h[up] = h[w]
      BY <2>2, <2>3, <3>1, <3>4, <1>3 DEF Below, Wt
    <3>6. Below(t, {a}, h, w, Nil) = 0
      BY <1>3, <2>2 DEF Below
    <3>. HIDE DEF inner
    <3>. QED
      BY <3>1, <3>3, <3>5, <3>6
  <2>14. r.color[inner] # "red"
    <3>1. inner \in S /\ inner # w /\ inner # up /\ t.p[inner] = w
      BY <1>2, <1>3, <2>2, <2>4, <2>8, <2>13, ZenonT(60) DEF Kin, Swung
    <3>2. t.color[inner] # "red"
      <4>1. inner # a
        BY <1>3, <2>2, <2>4, <2>13, <3>1, <1>2 DEF Kin
      <4>. QED
        BY <1>1, <2>2, <2>3, <3>1, <4>1 DEF Reds
    <3>3. inner \in Ref
      BY <2>2, <3>1
    <3>. QED
      BY <2>4, <2>9, <3>1, <3>2, <3>3
  <2>15. r.color[a] # "red" /\ (a = Nil => r.p[Nil] = up)
    <3>1. a \in Ref
      BY <1>3, <2>2
    <3>. QED
      BY <1>3, <2>2, <2>4, <2>9, <3>1
  <2>16. Ready(r, S, a, s, up)
    BY <1>3, <2>12, <2>13, <2>15 DEF Ready, o
  <2>17. Nil \in {a} => Hole(r, S)
    BY <1>3, <2>12, <2>13, <2>15 DEF Hole, o
  <2>18. Fine(r, S, {a}, {}, pos)
    BY <2>9, <2>10, <2>11, <2>17, Zenon DEF Fine
  <2>. QED
    BY <2>1, <2>12, <2>14, <2>16, <2>18 DEF o, Red
<1>. QED
  BY <1>4, <1>5

\* a and w are the children of up, on the sides s and o.
Facing(t, s, o, up, a, w) ==
  /\ s \in Side /\ o \in Side /\ o = Other(s) /\ s = Other(o) /\ s # o
  /\ t.child[s][up] = a /\ t.child[o][up] = w

\* A sibling with black children turns red: the black node too many is up.
LEMMA SiblingReddens ==
  ASSUME NEW t, NEW S, NEW pos, NEW a, Fine(t, S, {a}, {}, pos), NEW s, NEW up, Ready(t, S, a, s, up),
         NEW o, NEW w, Facing(t, s, o, up, a, w), ~Red(t, w), BothBlack(t, w)
  PROVE  /\ Fine(Paint(t, w, "red"), S, {up}, {}, pos)
         /\ (Paint(t, w, "red")).p[Nil] = t.p[Nil]
<1>1. PICK under, h : Laid(t, S, under, pos) /\ Even(t, S, {a}, h) /\ Reds(t, S, {a}, {})
  BY DEF Fine
<1>2. t \in TreeType /\ Kin(t, S)
  BY <1>1, KinIs DEF Fine
<1>3. /\ s \in Side /\ up \in S /\ w # Nil /\ w \in S \cup {Nil} /\ Nil \notin S
      /\ S \subseteq Node /\ Node \subseteq Ref
      /\ t.color[a] # "red" /\ t.color[w] # "red"
      /\ a = Nil => t.p[Nil] = up
      /\ \A b \in Side : t.color[t.child[b][w]] # "red"
  BY <1>2, Sides DEF Ready, Kin, Red, BothBlack, Facing
<1>. DEFINE u == Paint(t, w, "red")
<1>4. Painted(t, u, w, "red")
  <2>1. w \in Ref
    BY <1>3
  <2>. QED
    BY <1>2, <2>1, PaintingIs, Colors
<1>. HIDE DEF u
<1>5. /\ u \in TreeType /\ u.root = t.root /\ u.child = t.child /\ u.p = t.p
      /\ \A k \in Ref : u.color[k] = IF k = w THEN "red" ELSE t.color[k]
  BY <1>4 DEF Painted
<1>6. u.color[w] = "red" /\ \A k \in Ref : k # w => u.color[k] = t.color[k]
  BY <1>3, <1>5, SMTT(30)
<1>7. (\E f : Even(u, S, {up}, f)) /\ Reds(u, S, {up}, {})
  <2>1. a = t.child[s][up] /\ w = t.child[Other(s)][up]
    BY DEF Facing
  <2>2. w \in S \cup {Nil} /\ up \in S /\ s \in Side /\ w # Nil
    BY <1>3, Zenon
  <2>3. \A k \in Ref : k # w => u.color[k] = t.color[k]
    BY <1>6, Zenon
  <2>4. Even(t, S, {a}, h) /\ Reds(t, S, {a}, {}) /\ t \in TreeType /\ Kin(t, S)
    BY <1>1, <1>2, Zenon
  <2>5. u \in TreeType /\ u.root = t.root /\ u.child = t.child /\ u.p = t.p /\ u.color[w] = "red"
    BY <1>5, <1>6, Zenon
  <2>6. /\ t.color[a] # "red" /\ t.color[w] # "red" /\ (a = Nil => t.p[Nil] = up)
        /\ \A b \in Side : t.color[t.child[b][w]] # "red"
    BY <1>3, Zenon
  <2>. QED
    BY <2>1, <2>2, <2>3, <2>4, <2>5, <2>6, BlackMovesUp, SMTT(40)
<1>8. Laid(u, S, under, pos)
  BY <1>1, <1>5, SameLaid
<1>9. Nil \in {up} => Hole(u, S)
  BY <1>3
<1>10. Fine(u, S, {up}, {}, pos)
  BY <1>5, <1>7, <1>8, <1>9, Zenon DEF Fine
<1>. QED
  BY <1>5, <1>10 DEF u

\* The two assignments before a rotation.
LEMMA PaintsSwap ==
  ASSUME NEW t \in TreeType, NEW n \in Ref, NEW m \in Ref, n # m, t.color[n] # "red"
  PROVE  Swapped(t, Paint(Paint(t, m, "black"), n, "red"), n, m)
<1>. DEFINE u == Paint(Paint(t, m, "black"), n, "red")
<1>1. Painted3(t, u, m, "black", n, "red", n, "red")
  BY TwoPaintings, Colors
<1>2. t.color[n] = "black"
  BY Colors DEF TreeType
<1>. HIDE DEF u
<1>3. Swapped(t, u, n, m)
  BY <1>1, <1>2 DEF Painted3, Swapped
<1>. QED
  BY <1>3 DEF u

\* A grandchild is not its grandparent.
LEMMA NotAbove ==
  ASSUME NEW t \in TreeType, NEW S, NEW under, NEW pos, Laid(t, S, under, pos),
         NEW n \in S, NEW b \in Side, NEW d \in Side, t.child[b][n] \in S
  PROVE  t.child[d][t.child[b][n]] # n /\ t.child[b][n] # n
<1>. DEFINE m == t.child[b][n]
            k == t.child[d][m]
<1>1. Nil \notin S /\ under[Nil] = {}
  BY NilIsNoNode DEF Laid
<1>2. Fits(t, S, under, pos, n) /\ Fits(t, S, under, pos, m)
  BY DEF Laid
<1>3. Tied(t, S, under, pos, b, Other(b)) /\ Tied(t, S, under, pos, d, Other(d))
  BY Sides, NodeIs
<1>4. n \notin under[m] /\ m # n
  BY <1>3 DEF Tied
<1>5. k # Nil => k \in under[m]
  <2>1. k # Nil => k \in S /\ k \in under[k]
    BY <1>2, <1>3, Zenon DEF Fits, Tied
  <2>2. under[k] \subseteq under[m]
    <3>. HIDE DEF m
    <3>1. under[m] = {m} \cup under[t.child["left"][m]] \cup under[t.child["right"][m]]
      BY <1>2 DEF Fits
    <3>. QED
      BY <3>1 DEF Side
  <2>. QED
    BY <2>1, <2>2, SMTT(30)
<1>. HIDE DEF k, m
<1>6. k # n
  BY <1>1, <1>4, <1>5
<1>. QED
  BY <1>4, <1>6 DEF k, m

\* The black sibling c of a has a red child on the outer side.
NephewOutside(r, S, pos, a, s, up, o, c) ==
  /\ Fine(r, S, {a}, {}, pos) /\ Ready(r, S, a, s, up)
  /\ r.child[o][up] = c /\ ~Red(r, c) /\ Red(r, r.child[o][c])

\* A red child c of the sibling w, on the side of a, turns to the other side.
LEMMA NephewTurns ==
  ASSUME NEW t, NEW S, NEW pos, NEW a, Fine(t, S, {a}, {}, pos), NEW s, NEW up, Ready(t, S, a, s, up),
         NEW o, NEW w, Facing(t, s, o, up, a, w), ~Red(t, w),
         NEW d, NEW c, Facing(t, o, s, w, d, c), Red(t, c), ~Red(t, d),
         NEW u, Swapped(t, u, w, c)
  PROVE  NephewOutside(Rotate(u, o, w), S, pos, a, s, up, o, c)
<1>1. PICK under, h : Laid(t, S, under, pos) /\ Even(t, S, {a}, h) /\ Reds(t, S, {a}, {})
  BY DEF Fine
<1>2. t \in TreeType /\ Kin(t, S)
  BY <1>1, KinIs DEF Fine
<1>3. /\ s \in Side /\ o \in Side /\ s # o /\ up \in S /\ a \in S \cup {Nil} /\ a # up
      /\ w # Nil /\ w \in S \cup {Nil} /\ Nil \notin S /\ Nil \in Ref
      /\ S \subseteq Node /\ Node \subseteq Ref
      /\ t.color[a] # "red" /\ t.color[w] # "red" /\ t.color[c] = "red" /\ t.color[d] # "red"
      /\ a = Nil => t.p[Nil] = up
      /\ t.color[Nil] = "black"
  BY <1>1, <1>2 DEF Ready, Kin, Red, Reds, Facing
<1>4. /\ t.child[s][up] = a /\ t.child[o][up] = w /\ t.child[o][w] = d /\ t.child[s][w] = c
      /\ s = Other(o) /\ o = Other(s)
  BY DEF Facing
<1>5. w \in S /\ t.p[w] = up /\ w # up /\ w # a
  BY <1>2, <1>3, <1>4 DEF Kin
<1>6. c \in S /\ t.p[c] = w /\ c # w /\ c # a /\ c # up
  <2>1. c # Nil
    BY <1>3
  <2>2. c \in S /\ t.p[c] = w /\ c # w
    BY <1>2, <1>3, <1>4, <1>5, <2>1 DEF Kin
  <2>3. c # up
    BY <1>1, <1>2, <1>3, <1>4, <1>5, NotAbove
  <2>. QED
    BY <1>3, <2>2, <2>3
<1>7. Laid(u, S, under, pos) /\ u \in TreeType /\ u.child = t.child /\ u.p = t.p /\ u.root = t.root
  BY <1>1, SameLaid DEF Swapped
<1>. DEFINE r == Rotate(u, o, w)
            e == t.child[o][c]
            f == t.child[s][c]
<1>. HIDE DEF r, e, f
<1>8. Swung(u, r, S, o, s, w, c, d, e, f)
  <2>1. c = u.child[s][w] /\ c # Nil /\ d = u.child[o][w] /\ e = u.child[o][c] /\ f = u.child[s][c]
    BY <1>3, <1>4, <1>6, <1>7 DEF e, f
  <2>. QED
    BY <1>3, <1>4, <1>5, <1>7, <2>1, RotateSwings, Zenon DEF r
<1>9. /\ r \in TreeType /\ r.color = u.color /\ r.p[Nil] = u.p[Nil]
      /\ \E v : Laid(r, S, v, pos)
  <2>1. u.child[Other(o)][w] # Nil
    BY <1>3, <1>4, <1>6, <1>7
  <2>. QED
    BY <1>3, <1>5, <1>7, <2>1, RotateKeeps DEF r
<1>10. Even(r, S, {a}, h)
  <2>1. Nil \in {a} => t.p[Nil] # c /\ (t.p[Nil] = w => t.child[o][w] = Nil)
    BY <1>3, <1>5, <1>6
  <2>2. w \notin {a} /\ c \notin {a}
    BY <1>5, <1>6
  <2>3. c = t.child[s][w] /\ c # Nil
    BY <1>3, <1>4, <1>6
  <2>. QED
    BY <1>1, <1>2, <1>3, <1>4, <1>5, <2>1, <2>2, <2>3, SwingEven, Zenon DEF r
<1>11. Reds(r, S, {a}, {})
  <2>2. w \notin {a} /\ c \notin {a}
    BY <1>5, <1>6
  <2>3. c = t.child[s][w] /\ c # Nil /\ t.color[t.child[o][w]] # "red"
    BY <1>3, <1>4, <1>6
  <2>. QED
    BY <1>1, <1>2, <1>3, <1>4, <1>5, <2>2, <2>3, SwingReds, Zenon DEF r
<1>12. r.child[o][up] = c /\ r.child[s][up] = a /\ r.child[o][c] = w
  <2>1. up \in S \ {w, c}
    BY <1>3, <1>5, <1>6
  <2>2. \A b \in Side : r.child[b][up] = IF u.child[b][up] = w THEN c ELSE u.child[b][up]
    BY <1>8, <2>1 DEF Swung
  <2>3. r.child[o][c] = w
    BY <1>8 DEF Swung
  <2>. QED
    BY <1>3, <1>4, <1>5, <1>7, <2>2, <2>3
<1>13. r.color[c] = "black" /\ r.color[w] = "red" /\ r.color[a] # "red"
  <2>1. w \in Ref /\ c \in Ref /\ a \in Ref
    BY <1>3, <1>5, <1>6
  <2>2. t.color[w] = "black"
    BY <1>2, <1>3, <2>1, Colors DEF TreeType
  <2>. QED
    BY <1>3, <1>5, <1>6, <1>9, <2>1, <2>2 DEF Swapped
<1>14. a = Nil => r.p[Nil] = up
  BY <1>3, <1>7, <1>9
<1>15. Ready(r, S, a, s, up)
  BY <1>3, <1>4, <1>6, <1>12, <1>13, <1>14 DEF Ready
<1>16. Nil \in {a} => Hole(r, S)
  <2>1. r.child[s][up] = a /\ r.child[Other(s)][up] # Nil
    BY <1>3, <1>4, <1>6, <1>12
  <2>. QED
    BY <1>3, <1>14, <2>1 DEF Hole
<1>17. Fine(r, S, {a}, {}, pos)
  BY <1>9, <1>10, <1>11, <1>16, Zenon DEF Fine
<1>18. ~Red(r, c) /\ Red(r, r.child[o][c])
  BY <1>12, <1>13 DEF Red
<1>19. NephewOutside(r, S, pos, a, s, up, o, c)
  BY <1>12, <1>15, <1>17, <1>18 DEF NephewOutside
<1>. QED
  BY <1>19 DEF r

\* The three assignments before the last rotation.
LEMMA PaintsTakeOver ==
  ASSUME NEW t \in TreeType, NEW w \in Ref, NEW up \in Ref, NEW outer \in Ref,
         w # up, w # outer, up # outer
  PROVE  TakenOver(t, Paint(Paint(Paint(t, w, t.color[up]), up, "black"), outer, "black"), w, up, outer)
<1>. DEFINE u == Paint(Paint(Paint(t, w, t.color[up]), up, "black"), outer, "black")
<1>1. t.color[up] \in Color
  BY DEF TreeType
<1>2. Painted3(t, u, w, t.color[up], up, "black", outer, "black")
  BY <1>1, ThreePaintings, Colors
<1>. HIDE DEF u
<1>3. TakenOver(t, u, w, up, outer)
  BY <1>2 DEF Painted3, TakenOver
<1>. QED
  BY <1>3 DEF u

\* The nodes SiblingTakesOver() paints are three.
LEMMA TakersAre ==
  ASSUME NEW t, NEW S, NEW pos, NEW a, Fine(t, S, {a}, {}, pos), NEW s, NEW up, Ready(t, S, a, s, up),
         NEW o, NEW w, Facing(t, s, o, up, a, w), ~Red(t, w),
         NEW c, NEW outer, Facing(t, s, o, w, c, outer), Red(t, outer)
  PROVE  /\ w \in S /\ up \in S /\ outer \in S /\ w # up /\ w # outer /\ up # outer
         /\ w \in Ref /\ up \in Ref /\ outer \in Ref /\ t \in TreeType
<1>1. PICK under, h : Laid(t, S, under, pos) /\ Even(t, S, {a}, h) /\ Reds(t, S, {a}, {})
  BY DEF Fine
<1>2. t \in TreeType /\ Kin(t, S)
  BY <1>1, KinIs DEF Fine
<1>3. /\ s \in Side /\ o \in Side /\ up \in S /\ w # Nil /\ Nil \notin S
      /\ S \subseteq Node /\ Node \subseteq Ref
      /\ t.color[outer] = "red" /\ t.color[Nil] = "black"
      /\ t.child[o][up] = w /\ t.child[o][w] = outer
  BY <1>1, <1>2 DEF Ready, Kin, Red, Reds, Facing
<1>4. outer # Nil
  BY <1>3
<1>5. w \in S /\ w # up
  BY <1>2, <1>3 DEF Kin
<1>6. outer \in S /\ outer # w
  BY <1>2, <1>3, <1>4, <1>5 DEF Kin
<1>7. outer # up
  BY <1>1, <1>2, <1>3, <1>5, NotAbove
<1>. QED
  BY <1>2, <1>3, <1>5, <1>6, <1>7

\* The rotation of up gives the black node that is missing: the loop ends.
LEMMA SiblingTakesOver ==
  ASSUME NEW t, NEW S, NEW pos, NEW a, Fine(t, S, {a}, {}, pos), NEW s, NEW up, Ready(t, S, a, s, up),
         NEW o, NEW w, Facing(t, s, o, up, a, w), ~Red(t, w),
         NEW c, NEW outer, Facing(t, s, o, w, c, outer), Red(t, outer),
         NEW u, TakenOver(t, u, w, up, outer)
  PROVE  /\ Fine(Rotate(u, s, up), S, {Rotate(u, s, up).root}, {}, pos)
         /\ Rotate(u, s, up).root \in S
         /\ (Rotate(u, s, up)).p[Nil] = t.p[Nil]
<1>1. PICK under, h : Laid(t, S, under, pos) /\ Even(t, S, {a}, h) /\ Reds(t, S, {a}, {})
  BY DEF Fine
<1>2. t \in TreeType /\ Kin(t, S)
  BY <1>1, KinIs DEF Fine
<1>3. /\ s \in Side /\ up \in S /\ w # Nil /\ Nil \notin S
      /\ t.color[a] # "red" /\ t.color[w] # "red" /\ t.color[outer] = "red"
      /\ a = Nil => t.p[Nil] = up
  BY <1>1, <1>2 DEF Ready, Kin, Red, Reds, Facing
<1>4. /\ o = Other(s) /\ w = t.child[o][up] /\ a = t.child[s][up] /\ outer = t.child[o][w]
  BY DEF Facing
<1>5. /\ u \in TreeType /\ u.root = t.root /\ u.child = t.child /\ u.p = t.p
      /\ u.color[w] = t.color[up] /\ u.color[up] = "black" /\ u.color[outer] = "black"
      /\ \A k \in Ref : k \notin {up, w, outer} => u.color[k] = t.color[k]
  BY SMTT(30) DEF TakenOver
<1>. DEFINE r == Rotate(u, s, up)
<1>. HIDE DEF r
<1>6. (\E k : Even(r, S, {}, k)) /\ Reds(r, S, {}, {})
  BY <1>1, <1>2, <1>3, <1>4, LastSwing, Zenon DEF r
<1>7. Laid(u, S, under, pos)
  BY <1>1, <1>5, SameLaid
<1>8. r \in TreeType /\ r.p[Nil] = t.p[Nil] /\ \E v : Laid(r, S, v, pos)
  <2>1. u.child[Other(s)][up] # Nil
    BY <1>3, <1>4, <1>5, Zenon
  <2>2. r \in TreeType /\ r.p[Nil] = u.p[Nil] /\ \E v : Laid(r, S, v, pos)
    BY <1>3, <1>5, <1>7, <2>1, RotateKeeps DEF r
  <2>. QED
    BY <1>5, <2>2, SMTT(30)
<1>9. PICK v : Laid(r, S, v, pos)
  BY <1>8
<1>10. r.root \in S
  BY <1>3, <1>9 DEF Laid
<1>11. \E k : Even(r, S, {r.root}, k)
  BY <1>6, <1>8, <1>9, KinIs, RootIsFree
<1>12. Reds(r, S, {r.root}, {})
  BY <1>6 DEF Reds
<1>13. Nil \in {r.root} => Hole(r, S)
  BY <1>3, <1>10
<1>14. Fine(r, S, {r.root}, {}, pos)
  BY <1>8, <1>11, <1>12, <1>13, Zenon DEF Fine
<1>. QED
  BY <1>8, <1>10, <1>14 DEF r

\* The children of a node.
LEMMA Faces ==
  ASSUME NEW t, NEW s \in Side, NEW n
  PROVE  /\ Facing(t, s, Other(s), n, t.child[s][n], t.child[Other(s)][n])
         /\ Facing(t, Other(s), s, n, t.child[Other(s)][n], t.child[s][n])
BY Sides DEF Facing

\* The tree once the red child of the sibling w is the outer one.
Flipped(t, s, o, w) ==
  IF Red(t, t.child[o][w]) THEN t
  ELSE Rotate(Paint(Paint(t, t.child[s][w], "black"), w, "red"), o, w)

\* The red child of w that SiblingRotates() needs is the outer one, or its turn makes it so.
LEMMA OuterNephew ==
  ASSUME NEW t, NEW S, NEW pos, NEW a, Fine(t, S, {a}, {}, pos), NEW s, NEW up, Ready(t, S, a, s, up),
         NEW o, NEW w, Facing(t, s, o, up, a, w), ~Red(t, w), ~BothBlack(t, w)
  PROVE  /\ Fine(Flipped(t, s, o, w), S, {a}, {}, pos)
         /\ Ready(Flipped(t, s, o, w), S, a, s, up)
         /\ ~Red(Flipped(t, s, o, w), Flipped(t, s, o, w).child[o][up])
         /\ Red(Flipped(t, s, o, w), Flipped(t, s, o, w).child[o][Flipped(t, s, o, w).child[o][up]])
<1>. DEFINE d == t.child[o][w]
            c == t.child[s][w]
            r == Flipped(t, s, o, w)
<1>1. s \in Side /\ o \in Side /\ o = Other(s) /\ s = Other(o) /\ t.child[o][up] = w
      /\ \A b \in Side : b = s \/ b = o
  BY Sides DEF Facing
<1>2. CASE Red(t, d)
  <2>1. r = t
    BY <1>2 DEF Flipped
  <2>. HIDE DEF r
  <2>. QED
    BY <1>1, <1>2, <2>1 DEF r
<1>3. CASE ~Red(t, d)
  <2>. DEFINE u == Paint(Paint(t, c, "black"), w, "red")
  <2>1. r = Rotate(u, o, w)
    BY <1>3 DEF Flipped
  <2>2. Red(t, c)
    BY <1>1, <1>3 DEF BothBlack
  <2>3. Facing(t, o, s, w, d, c)
    BY <1>1, Faces
  <2>. HIDE DEF r, c, d
  <2>4. Swapped(t, u, w, c)
    <3>1. PICK under, h : Laid(t, S, under, pos) /\ Even(t, S, {a}, h) /\ Reds(t, S, {a}, {})
      BY DEF Fine
    <3>2. t \in TreeType /\ Kin(t, S)
      BY <3>1, KinIs DEF Fine
    <3>3. t.color[Nil] = "black" /\ t.child[s][w] = c /\ w \in S \cup {Nil} /\ w # Nil
          /\ S \subseteq Node /\ Node \subseteq Ref
      BY <1>1, <3>1, <3>2 DEF Reds, Kin, Ready, c
    <3>4. c # Nil
      BY <2>2, <3>3 DEF Red
    <3>5. c \in Ref /\ w \in Ref /\ c # w
      BY <1>1, <3>2, <3>3, <3>4 DEF Kin
    <3>. QED
      BY <3>2, <3>5, PaintsSwap DEF Red
  <2>. HIDE DEF u
  <2>5. NephewOutside(Rotate(u, o, w), S, pos, a, s, up, o, c)
    <3>1. ~Red(t, d)
      BY <1>3 DEF d
    <3>. QED
      BY <2>2, <2>3, <2>4, <3>1, NephewTurns
  <2>6. Fine(r, S, {a}, {}, pos) /\ Ready(r, S, a, s, up) /\ r.child[o][up] = c /\ ~Red(r, c) /\ Red(r, r.child[o][c])
    BY <2>1, <2>5 DEF NephewOutside
  <2>. QED
    BY <2>6 DEF r
<1>. QED
  BY <1>2, <1>3

\* What every turn of delete_fixup() starts from.
LEMMA FixingStarts ==
  ASSUME NEW S, NEW pos, NEW a, Fine(tree, S, {a}, {}, pos), a \in S \cup {Nil}, a # tree.root, ~Red(tree, a),
         NEW s, s = SideOf(tree, a), NEW up, up = tree.p[a], NEW t, t = BlackSibling(s, up),
         NEW w, w = t.child[Other(s)][up]
  PROVE  /\ Fine(t, S, {a}, {}, pos)
         /\ Ready(t, S, a, s, up)
         /\ Facing(t, s, Other(s), up, a, w)
         /\ ~Red(t, w)
<1>1. Ready(tree, S, a, SideOf(tree, a), tree.p[a])
  BY ReadyToFix DEF Red
<1>. DEFINE s0 == SideOf(tree, a)
            up0 == tree.p[a]
            t0 == BlackSibling(s0, up0)
<1>. HIDE DEF s0, up0
<1>2. Ready(tree, S, a, s0, up0)
  BY <1>1 DEF s0, up0
<1>3. /\ Fine(t0, S, {a}, {}, pos)
      /\ Ready(t0, S, a, s0, up0)
      /\ ~Red(t0, t0.child[Other(s0)][up0])
  BY <1>2, SiblingIsBlack
<1>. HIDE DEF t0
<1>4. Facing(t0, s0, Other(s0), up0, a, t0.child[Other(s0)][up0])
  BY <1>3, Faces DEF Ready
<1>. QED
  BY <1>3, <1>4 DEF t0, s0, up0

\* delete_fixup(), a turn that moves x up.
LEMMA TurnsRedKeeps ==
  ASSUME NEW S, NEW pos, Fine(tree, S, {x}, {}, pos), x \in S \cup {Nil}, SiblingTurnsRed
  PROVE  Fine(tree', S, {x'}, {}, pos) /\ x' \in S
<1>. DEFINE s == SideOf(tree, x)
            up == tree.p[x]
            t == BlackSibling(s, up)
            w == t.child[Other(s)][up]
<1>1. BothBlack(t, w) /\ tree' = Paint(t, w, "red") /\ x' = up /\ x # tree.root /\ ~Red(tree, x)
  BY DEF SiblingTurnsRed, DeleteFixupGuard
<1>2. /\ Fine(t, S, {x}, {}, pos)
      /\ Ready(t, S, x, s, up)
      /\ Facing(t, s, Other(s), up, x, w)
      /\ ~Red(t, w)
  BY <1>1, FixingStarts, Zenon
<1>. HIDE DEF s, up, t, w
<1>3. Fine(Paint(t, w, "red"), S, {up}, {}, pos)
  BY <1>1, <1>2, SiblingReddens
<1>4. up \in S
  BY <1>2 DEF Ready
<1>. QED
  BY <1>1, <1>3, <1>4

\* delete_fixup(), the turn that ends it.
LEMMA RotatesKeeps ==
  ASSUME NEW S, NEW pos, Fine(tree, S, {x}, {}, pos), x \in S \cup {Nil}, SiblingRotates
  PROVE  Fine(tree', S, {x'}, {}, pos) /\ x' \in S
<1>. DEFINE s == SideOf(tree, x)
            o == Other(s)
            up == tree.p[x]
            t == BlackSibling(s, up)
            w == t.child[o][up]
            t1 == Flipped(t, s, o, w)
            w1 == t1.child[o][up]
            outer == t1.child[o][w1]
            t2 == Paint(Paint(Paint(t1, w1, t1.color[up]), up, "black"), outer, "black")
<1>1. ~BothBlack(t, w) /\ tree' = Rotate(t2, s, up) /\ x' = tree'.root /\ x # tree.root /\ ~Red(tree, x)
  BY ZenonT(40) DEF SiblingRotates, DeleteFixupGuard, Flipped
<1>2. /\ Fine(t, S, {x}, {}, pos)
      /\ Ready(t, S, x, s, up)
      /\ Facing(t, s, o, up, x, w)
      /\ ~Red(t, w)
  BY <1>1, FixingStarts, Zenon
<1>3. s \in Side
  BY SideOfType
<1>4. o = Other(s)
  OBVIOUS
<1>. HIDE DEF s, up, t, w, o
<1>5. Fine(t1, S, {x}, {}, pos) /\ Ready(t1, S, x, s, up) /\ ~Red(t1, w1) /\ Red(t1, outer)
  BY <1>1, <1>2, OuterNephew, SMTT(30)
<1>. HIDE DEF t1
<1>6. Facing(t1, s, o, up, x, w1) /\ Facing(t1, s, o, w1, t1.child[s][w1], outer)
  BY <1>3, <1>4, <1>5, Faces DEF Ready
<1>. HIDE DEF w1, outer
<1>7. /\ w1 \in S /\ up \in S /\ outer \in S /\ w1 # up /\ w1 # outer /\ up # outer
      /\ w1 \in Ref /\ up \in Ref /\ outer \in Ref /\ t1 \in TreeType
  BY <1>5, <1>6, TakersAre
<1>8. TakenOver(t1, t2, w1, up, outer)
  BY <1>7, PaintsTakeOver
<1>. HIDE DEF t2
<1>9. Fine(Rotate(t2, s, up), S, {Rotate(t2, s, up).root}, {}, pos) /\ Rotate(t2, s, up).root \in S
  BY <1>5, <1>6, <1>8, SiblingTakesOver
<1>. QED
  BY <1>1, <1>9, SMTT(30)

\* delete_fixup(), its end.
LEMMA RecoloredKeeps ==
  ASSUME NEW S, NEW pos, Fine(tree, S, {x}, {}, pos), x \in S \cup {Nil}, Recolored
  PROVE  Fine(tree', S, {}, {}, pos)
<1>1. PICK under, h : Laid(tree, S, under, pos) /\ Even(tree, S, {x}, h) /\ Reds(tree, S, {x}, {})
  BY DEF Fine
<1>2. tree \in TreeType /\ Kin(tree, S)
  BY <1>1, KinIs DEF Fine
<1>3. /\ x = tree.root \/ ({x} = {x} /\ tree.color[x] = "red")
      /\ tree' = Paint(tree, x, "black")
      /\ x \in Ref
  BY <1>2 DEF Recolored, Red, Kin
<1>. DEFINE r == Paint(tree, x, "black")
<1>4. Painted(tree, r, x, "black")
  BY <1>2, <1>3, PaintingIs, Colors
<1>. HIDE DEF r
<1>5. /\ r \in TreeType /\ r.root = tree.root /\ r.child = tree.child /\ r.p = tree.p
      /\ \A j \in Ref : r.color[j] = IF j = x THEN "black" ELSE tree.color[j]
  BY <1>4 DEF Painted
<1>6. Even(r, S, {}, h) /\ Reds(r, S, {}, {})
  BY <1>1, <1>2, <1>3, <1>5, PaintBlack
<1>7. Laid(r, S, under, pos)
  BY <1>1, <1>5, SameLaid
<1>8. Fine(r, S, {}, {}, pos)
  BY <1>5, <1>6, <1>7, Zenon DEF Fine
<1>. QED
  BY <1>3, <1>8 DEF r

-----------------------------------------------------------------------------
(* insert_fixup().                                                         *)

\* n and its parent low are red: low has a black parent g, another child of which is uncle.
TwoReds(t, S, n, low, g, v, o, uncle) ==
  /\ n \in S /\ low \in S /\ g \in S /\ n # low /\ low # g /\ n # g
  /\ t.p[n] = low /\ t.p[low] = g
  /\ Red(t, n) /\ Red(t, low) /\ ~Red(t, g)
  /\ Facing(t, v, o, g, low, uncle) /\ uncle # low /\ uncle # g
  /\ t.child[v][low] = n \/ t.child[o][low] = n

\* Where a turn of insert_fixup() begins.
LEMMA TwoRedsAre ==
  ASSUME NEW t, NEW S, NEW pos, NEW n \in S, Fine(t, S, {}, {n}, pos), Red(t, n), Red(t, t.p[n]),
         NEW low, low = t.p[n], NEW g, g = t.p[low], NEW v, v = SideOf(t, low),
         NEW uncle, uncle = t.child[Other(v)][g]
  PROVE  TwoReds(t, S, n, low, g, v, Other(v), uncle)
<1>1. PICK under, h : Laid(t, S, under, pos) /\ Even(t, S, {}, h) /\ Reds(t, S, {}, {n})
  BY DEF Fine
<1>2. t \in TreeType /\ Kin(t, S)
  BY <1>1, KinIs DEF Fine
<1>. DEFINE low0 == t.p[n]
            g0 == t.p[low0]
            v0 == SideOf(t, low0)
            uncle0 == t.child[Other(v0)][g0]
<1>3. t.color[Nil] = "black" /\ \A k \in S : t.color[k] = "red" /\ k # n => k # t.root /\ t.color[t.p[k]] # "red"
  BY <1>1 DEF Reds
<1>4. low0 \in S /\ low0 # n /\ \E b \in Side : n = t.child[b][low0]
  <2>1. low0 # Nil
    BY <1>3 DEF Red
  <2>2. n # t.root
    BY <1>2, <2>1 DEF Kin
  <2>3. low0 \in S /\ \E b \in Side : n = t.child[b][low0]
    BY <1>2, <2>2 DEF Kin
  <2>. QED
    BY <1>2, <2>3 DEF Kin
<1>5. v0 = SideOf(t, low0) /\ g0 = t.p[low0]
  OBVIOUS
<1>6. Red(t, low0)
  BY SMTT(30)
<1>. HIDE DEF low0
<1>7. low0 # t.root /\ t.color[g0] # "red"
  BY <1>3, <1>4, <1>6, Zenon DEF Red
<1>. HIDE DEF v0, g0
<1>8. v0 \in Side /\ g0 \in S /\ g0 # low0 /\ t.child[v0][g0] = low0
  <2>1. low0 \in S /\ low0 # t.root
    BY <1>4, <1>7, Zenon
  <2>. QED
    BY <1>1, <1>2, <1>5, <2>1, HangsAt, SMTT(30)
<1>9. Other(v0) \in Side /\ Other(Other(v0)) = v0 /\ Other(v0) # v0 /\ \A b \in Side : b = v0 \/ b = Other(v0)
  BY <1>8, Sides, SMTT(30)
<1>10. uncle0 # low0 /\ uncle0 # g0
  BY <1>2, <1>4, <1>8, <1>9, ZenonT(40) DEF Kin
<1>11. g0 # n
  BY <1>7 DEF Red
<1>12. Facing(t, v0, Other(v0), g0, low0, uncle0)
  BY <1>8, <1>9 DEF Facing
<1>. HIDE DEF uncle0
<1>13. t.p[n] = low0
  BY DEF low0
<1>14. t.child[v0][low0] = n \/ t.child[Other(v0)][low0] = n
  BY <1>4, <1>9, Zenon
<1>15. TwoReds(t, S, n, low0, g0, v0, Other(v0), uncle0)
  BY <1>4, <1>5, <1>6, <1>7, <1>8, <1>10, <1>11, <1>12, <1>13, <1>14 DEF TwoReds, Red
<1>. QED
  BY <1>15 DEF uncle0, v0, g0, low0

\* The three assignments of a turn with a red uncle.
LEMMA PaintsRelieve ==
  ASSUME NEW t \in TreeType, NEW low \in Ref, NEW uncle \in Ref, NEW g \in Ref, g # low, g # uncle
  PROVE  Relieved(t, Paint(Paint(Paint(t, low, "black"), uncle, "black"), g, "red"), low, g, uncle)
<1>. DEFINE u == Paint(Paint(Paint(t, low, "black"), uncle, "black"), g, "red")
<1>1. Painted3(t, u, low, "black", uncle, "black", g, "red")
  BY ThreePaintings, Colors
<1>. HIDE DEF u
<1>2. Relieved(t, u, low, g, uncle)
  BY <1>1 DEF Painted3, Relieved
<1>. QED
  BY <1>2 DEF u

\* What insert_fixup() keeps.
Inserting(t, S, n, pos) == n \in S /\ Fine(t, S, {}, {n}, pos) /\ Red(t, n) /\ t.p[Nil] = Nil

\* A turn with a red uncle.
LEMMA RedUncleKeeps ==
  ASSUME NEW S, NEW pos, Inserting(tree, S, z, pos), RedUncle
  PROVE  Inserting(tree', S, z', pos)
<1>. DEFINE low == tree.p[z]
            g == tree.p[low]
            v == SideOf(tree, low)
            uncle == tree.child[Other(v)][g]
            u == Paint(Paint(Paint(tree, low, "black"), uncle, "black"), g, "red")
<1>1. Red(tree, low) /\ Red(tree, uncle) /\ tree' = u /\ z' = g
  BY Zenon DEF RedUncle, InsertFixupGuard, Uncle
<1>2. z \in S /\ Fine(tree, S, {}, {z}, pos) /\ Red(tree, z) /\ tree.p[Nil] = Nil
  BY SMTT(30) DEF Inserting
<1>3. TwoReds(tree, S, z, low, g, v, Other(v), uncle)
  BY <1>1, <1>2, TwoRedsAre, Zenon
<1>4. low = tree.p[z] /\ g = tree.p[low]
  OBVIOUS
<1>. HIDE DEF low, g, v, uncle
<1>5. PICK under, h : Laid(tree, S, under, pos) /\ Even(tree, S, {}, h) /\ Reds(tree, S, {}, {z})
  BY <1>2 DEF Fine
<1>6. tree \in TreeType /\ Kin(tree, S)
  BY <1>2, <1>5, KinIs DEF Fine
<1>7. /\ v \in Side /\ tree.child[v][g] = low /\ tree.child[Other(v)][g] = uncle /\ low \in S /\ g \in S
      /\ low # g /\ uncle # g /\ tree.color[low] = "red" /\ tree.color[uncle] = "red"
  BY <1>1, <1>3 DEF TwoReds, Facing, Red
<1>8. low \in Ref /\ g \in Ref /\ uncle \in Ref
  BY <1>6, <1>7, Sides DEF Kin
<1>9. Relieved(tree, u, low, g, uncle)
  BY <1>6, <1>7, <1>8, PaintsRelieve
<1>. HIDE DEF u
<1>10. Family(tree, z, low, g, v, uncle)
  BY <1>4, <1>7 DEF Family
<1>11. (\E k : Even(u, S, {}, k)) /\ Reds(u, S, {}, {g})
  <2>1. z \in S /\ v \in Side /\ tree.color[tree.p[z]] = "red" /\ tree.color[uncle] = "red"
    BY <1>2, <1>4, <1>7
  <2>2. Reds(u, S, {}, {g})
    BY <1>5, <1>6, <1>9, <1>10, <2>1, BlackMovesDown, Zenon
  <2>3. \E k : Even(u, S, {}, k)
    <3>1. Even(u, S, {}, [h EXCEPT ![g] = h[g] + 1])
      BY <1>5, <1>6, <1>9, <1>10, <2>1, <2>2, BlackMovesDown, Zenon
    <3>. QED
      BY <3>1
  <2>. QED
    BY <2>2, <2>3
<1>12. u \in TreeType /\ u.root = tree.root /\ u.child = tree.child /\ u.p = tree.p /\ u.color[g] = "red"
  BY <1>9 DEF Relieved
<1>13. Laid(u, S, under, pos)
  BY <1>5, <1>12, SameLaid
<1>14. Fine(u, S, {}, {g}, pos)
  BY <1>11, <1>12, <1>13, Zenon DEF Fine
<1>15. Inserting(u, S, g, pos)
  BY <1>2, <1>7, <1>12, <1>14 DEF Inserting, Red
<1>. QED
  BY <1>1, <1>15

\* Two red nodes on the same side of their parents, under a black uncle.
Line(t, S, pos, s, o, g, top, uncle, low, d) ==
  /\ Fine(t, S, {}, {low}, pos) /\ t.p[Nil] = Nil
  /\ g \in S /\ top \in S /\ low \in S /\ g # top /\ top # low
  /\ Facing(t, s, o, g, top, uncle) /\ Facing(t, s, o, top, low, d) /\ d # low
  /\ Red(t, top) /\ Red(t, low) /\ ~Red(t, g) /\ ~Red(t, uncle)

\* The rotation of g ends insert_fixup().
LEMMA OuterTurns ==
  ASSUME NEW t, NEW S, NEW pos, NEW s, NEW o, NEW g, NEW top, NEW uncle, NEW low, NEW d,
         Line(t, S, pos, s, o, g, top, uncle, low, d), NEW u, Swapped(t, u, g, top)
  PROVE  Inserting(Rotate(u, o, g), S, low, pos)
<1>1. PICK under, h : Laid(t, S, under, pos) /\ Even(t, S, {}, h) /\ Reds(t, S, {}, {low})
  BY DEF Line, Fine
<1>2. t \in TreeType /\ Kin(t, S)
  BY <1>1, KinIs DEF Line, Fine
<1>3. /\ s \in Side /\ o \in Side /\ s = Other(o)
      /\ top = t.child[s][g] /\ uncle = t.child[o][g] /\ low = t.child[s][top] /\ d = t.child[o][top]
      /\ g \in S /\ top \in S /\ low \in S /\ top # low /\ d # low /\ g # top
      /\ t.color[top] = "red" /\ t.color[low] = "red" /\ t.color[g] # "red" /\ t.color[uncle] # "red"
      /\ t.p[Nil] = Nil
  BY SMTT(30) DEF Line, Facing, Red
<1>4. top # Nil /\ S \subseteq Node /\ Node \subseteq Ref /\ Nil \in Ref
  BY <1>2, <1>3, Zenon DEF Kin
<1>. DEFINE r == Rotate(u, o, g)
<1>. HIDE DEF r
<1>5. Even(r, S, {}, h)
  <2>1. g \notin {} /\ top \notin {} /\ (Nil \in {} => t.p[Nil] # top /\ (t.p[Nil] = g => t.child[o][g] = Nil))
    BY SMTT(30)
  <2>2. top = t.child[s][g] /\ s = Other(o)
    BY <1>3, Zenon
  <2>. QED
    BY <1>1, <1>2, <1>3, <1>4, <2>1, <2>2, SwingEven, Zenon DEF r
<1>6. Reds(r, S, {}, {low})
  <2>1. g \notin {} /\ top \notin {} /\ top \notin {low}
    BY <1>3, Zenon
  <2>2. t.color[t.child[o][g]] # "red" /\ t.child[o][top] \notin {low}
    BY <1>3, Zenon
  <2>3. top = t.child[s][g] /\ s = Other(o) /\ g \in S /\ o \in Side /\ top # Nil /\ t.color[top] = "red" /\ t.color[g] # "red"
    BY <1>3, <1>4, Zenon
  <2>. QED
    BY <1>1, <1>2, <2>1, <2>2, <2>3, SwingReds, SMTT(30) DEF r
<1>7. u \in TreeType /\ u.root = t.root /\ u.child = t.child /\ u.p = t.p
      /\ \A k \in Ref : k \notin {g, top} => u.color[k] = t.color[k]
  BY DEF Swapped
<1>8. Laid(u, S, under, pos)
  BY <1>1, <1>7, SameLaid
<1>9. r \in TreeType /\ r.color = u.color /\ r.p[Nil] = u.p[Nil] /\ \E w : Laid(r, S, w, pos)
  <2>1. u.child[Other(o)][g] # Nil
    BY <1>3, <1>4, <1>7, Zenon
  <2>2. g \in S /\ o \in Side
    BY <1>3, Zenon
  <2>. QED
    BY <1>7, <1>8, <2>1, <2>2, RotateKeeps, SMTT(30) DEF r
<1>10. Fine(r, S, {}, {low}, pos)
  BY <1>5, <1>6, <1>9, Zenon DEF Fine
<1>11. r.color[low] = "red" /\ r.p[Nil] = Nil /\ low \in S
  <2>1. low \in Ref /\ low \notin {g, top}
    BY <1>3, <1>4, Zenon
  <2>. QED
    BY <1>3, <1>7, <1>9, <2>1, ZenonT(60)
<1>12. Inserting(r, S, low, pos)
  BY <1>10, <1>11 DEF Inserting, Red
<1>. QED
  BY <1>12 DEF r

\* The rotation of an inner z: z and its parent low change places.
LEMMA InnerTurns ==
  ASSUME NEW t, NEW S, NEW pos, NEW n, NEW low, NEW g, NEW v, NEW o, NEW uncle,
         Inserting(t, S, n, pos), TwoReds(t, S, n, low, g, v, o, uncle), ~Red(t, uncle),
         t.child[o][low] = n
  PROVE  /\ Rotate(t, v, low).p[low] = n /\ Rotate(t, v, low).p[n] = g
         /\ \E d : Line(Rotate(t, v, low), S, pos, v, o, g, n, uncle, low, d)
<1>1. PICK under, h : Laid(t, S, under, pos) /\ Even(t, S, {}, h) /\ Reds(t, S, {}, {n})
  BY DEF Inserting, Fine
<1>2. t \in TreeType /\ Kin(t, S)
  BY <1>1, KinIs DEF Inserting, Fine
<1>3. /\ v \in Side /\ o \in Side /\ o = Other(v) /\ v = Other(o) /\ v # o
      /\ t.child[v][g] = low /\ t.child[o][g] = uncle
      /\ t.p[n] = low /\ t.p[low] = g
      /\ n \in S /\ low \in S /\ g \in S /\ n # low /\ low # g /\ n # g /\ uncle # low /\ uncle # g
      /\ t.color[n] = "red" /\ t.color[low] = "red" /\ t.color[g] # "red" /\ t.color[uncle] # "red"
      /\ t.p[Nil] = Nil
  BY DEF TwoReds, Facing, Red, Inserting
<1>. DEFINE r == Rotate(t, v, low)
            a == t.child[v][low]
            inner == t.child[v][n]
            outer == t.child[o][n]
<1>4. n = t.child[o][low] /\ n # Nil /\ S \subseteq Node /\ Node \subseteq Ref /\ Nil \notin S
  BY <1>2, <1>3 DEF Kin
<1>. HIDE DEF r
<1>5. Swung(t, r, S, v, o, low, n, a, inner, outer)
  BY <1>1, <1>2, <1>3, <1>4, RotateSwings DEF r
<1>. HIDE DEF a, inner, outer
<1>6. Swapped(t, t, low, n) /\ Reds(r, S, {}, {low})
  BY <1>1, <1>2, <1>3, <1>4, SwingBothRed, Zenon DEF r
<1>7. Even(r, S, {}, h)
  <2>1. low \notin {} /\ n \notin {} /\ (Nil \in {} => t.p[Nil] # n /\ (t.p[Nil] = low => t.child[v][low] = Nil))
    OBVIOUS
  <2>. QED
    BY <1>1, <1>2, <1>3, <1>4, <1>6, <2>1, SwingEven, Zenon DEF r
<1>8. r \in TreeType /\ r.color = t.color /\ r.p[Nil] = t.p[Nil] /\ \E w : Laid(r, S, w, pos)
  BY <1>1, <1>2, <1>3, <1>4, RotateKeeps DEF r
<1>9. Fine(r, S, {}, {low}, pos)
  BY <1>6, <1>7, <1>8, Zenon DEF Fine
<1>10. r.child[v][n] = low /\ r.child[o][n] = outer /\ outer # low /\ r.p[low] = n /\ r.p[n] = g
  BY <1>3, <1>5 DEF Swung
<1>11. r.child[v][g] = n /\ r.child[o][g] = uncle
  <2>1. \A b \in Side : r.child[b][g] = IF t.child[b][g] = low THEN n ELSE t.child[b][g]
    BY <1>3, <1>5 DEF Swung
  <2>. QED
    BY <1>3, <2>1
<1>12. Facing(r, v, o, g, n, uncle) /\ Facing(r, v, o, n, low, outer)
  BY <1>3, <1>10, <1>11 DEF Facing
<1>13. Line(r, S, pos, v, o, g, n, uncle, low, outer)
  BY <1>3, <1>8, <1>9, <1>10, <1>12 DEF Line, Red
<1>. QED
  BY <1>10, <1>13 DEF r

\* The links of such a tree.
LEMMA FineIs ==
  ASSUME NEW t, NEW S, NEW X, NEW Z, NEW pos, Fine(t, S, X, Z, pos)
  PROVE  t \in TreeType /\ Kin(t, S)
<1>1. PICK under, h : Laid(t, S, under, pos) /\ Even(t, S, X, h) /\ Reds(t, S, X, Z)
  BY DEF Fine
<1>. QED
  BY <1>1, KinIs DEF Fine

\* The turn with a black uncle.
LEMMA BlackUncleKeeps ==
  ASSUME NEW S, NEW pos, Inserting(tree, S, z, pos), BlackUncle
  PROVE  Inserting(tree', S, z', pos)
<1>. DEFINE p1 == tree.p[z]
            g == tree.p[p1]
            v == SideOf(tree, p1)
            o == Other(v)
            uncle == tree.child[o][g]
            inner == z = tree.child[o][p1]
            low == IF inner THEN p1 ELSE z
            t == IF inner THEN Rotate(tree, v, low) ELSE tree
            top == t.p[low]
            g1 == t.p[top]
            u == Paint(Paint(t, top, "black"), g1, "red")
<1>1. Red(tree, p1) /\ ~Red(tree, uncle) /\ tree' = Rotate(u, o, g1) /\ z' = low
  BY ZenonT(40) DEF BlackUncle, InsertFixupGuard, Uncle
<1>2. z \in S /\ Fine(tree, S, {}, {z}, pos) /\ Red(tree, z) /\ tree.p[Nil] = Nil
  BY DEF Inserting
<1>3. TwoReds(tree, S, z, p1, g, v, o, uncle)
  BY <1>1, <1>2, TwoRedsAre, Zenon
<1>4. p1 = tree.p[z] /\ g = tree.p[p1]
  OBVIOUS
<1>. HIDE DEF p1, g, v, o, uncle
<1>5. top = t.p[low] /\ g1 = t.p[top]
  BY SMTT(30)
<1>6. g1 = g /\ \E d : Line(t, S, pos, v, o, g, top, uncle, low, d)
  <2>1. CASE inner
    <3>1. low = p1 /\ t = Rotate(tree, v, p1) /\ tree.child[o][p1] = z
      BY <2>1
    <3>. HIDE DEF low, t, top, g1
    <3>2. /\ t.p[p1] = z /\ t.p[z] = g
          /\ \E d : Line(t, S, pos, v, o, g, z, uncle, p1, d)
      BY <1>1, <1>3, <3>1, InnerTurns
    <3>. QED
      BY <1>5, <3>1, <3>2
  <2>2. CASE ~inner
    <3>1. low = z /\ t = tree /\ tree.child[o][p1] # z
      BY <2>2
    <3>. HIDE DEF low, t, top, g1
    <3>2. top = p1 /\ g1 = g
      BY <1>4, <1>5, <3>1
    <3>3. /\ tree.child[v][p1] = z /\ g \in S /\ p1 \in S /\ z # p1 /\ p1 # g
          /\ Facing(tree, v, o, g, p1, uncle) /\ ~Red(tree, g)
      BY <3>1, <1>3 DEF TwoReds
    <3>4. Facing(tree, v, o, p1, z, tree.child[o][p1])
      BY <3>3 DEF Facing
    <3>5. Line(tree, S, pos, v, o, g, p1, uncle, z, tree.child[o][p1])
      BY <1>1, <1>2, <3>1, <3>3, <3>4 DEF Line
    <3>. QED
      BY <3>1, <3>2, <3>5
  <2>. QED
    BY <2>1, <2>2, Zenon
<1>. HIDE DEF t, low, top, g1
<1>7. PICK d : Line(t, S, pos, v, o, g, top, uncle, low, d)
  BY <1>6
<1>8. Swapped(t, u, g, top)
  <2>1. t \in TreeType /\ Kin(t, S)
    BY <1>7, FineIs DEF Line
  <2>2. g \in Ref /\ top \in Ref /\ g # top /\ t.color[g] # "red"
    BY <1>7, <2>1 DEF Line, Kin, Red
  <2>. QED
    BY <1>6, <2>1, <2>2, PaintsSwap
<1>. HIDE DEF u
<1>9. Inserting(Rotate(u, o, g), S, low, pos)
  BY <1>7, <1>8, OuterTurns
<1>. QED
  BY <1>1, <1>6, <1>9, SMTT(30)

\* The end of insert().
LEMMA InsertReturnsKeeps ==
  ASSUME NEW S, NEW pos, Inserting(tree, S, z, pos), InsertReturns
  PROVE  Fine(tree', S, {}, {}, pos) /\ tree'.p[Nil] = Nil
<1>1. z \in S /\ Fine(tree, S, {}, {z}, pos) /\ tree.p[Nil] = Nil
  BY DEF Inserting
<1>2. PICK under, h : Laid(tree, S, under, pos) /\ Even(tree, S, {}, h) /\ Reds(tree, S, {}, {z})
  BY <1>1 DEF Fine
<1>3. tree \in TreeType /\ Kin(tree, S)
  BY <1>1, FineIs
<1>. DEFINE k == tree.root
            r == Paint(tree, k, "black")
            Z == IF z = k THEN {z} ELSE {}
<1>4. tree' = r /\ tree.color[tree.p[z]] # "red"
  BY DEF InsertReturns, Red
<1>5. k \in Ref /\ k \in S \cup {Nil}
  BY <1>3 DEF Kin
<1>6. Reds(tree, S, {}, Z) /\ Z \subseteq {k} /\ {} \subseteq {k}
  BY <1>1, <1>2, <1>4, NoExemption
<1>7. k = tree.root
  OBVIOUS
<1>. HIDE DEF k, Z
<1>8. Painted(tree, r, k, "black")
  BY <1>3, <1>5, PaintingIs, Colors
<1>. HIDE DEF r
<1>9. /\ r \in TreeType /\ r.root = tree.root /\ r.child = tree.child /\ r.p = tree.p
      /\ \A j \in Ref : r.color[j] = IF j = k THEN "black" ELSE tree.color[j]
  BY <1>8 DEF Painted
<1>10. Even(r, S, {}, h) /\ Reds(r, S, {}, {})
  BY <1>2, <1>3, <1>5, <1>6, <1>7, <1>9, PaintBlack
<1>11. Laid(r, S, under, pos)
  BY <1>2, <1>9, SameLaid
<1>12. Fine(r, S, {}, {}, pos)
  BY <1>9, <1>10, <1>11, Zenon DEF Fine
<1>. QED
  BY <1>1, <1>4, <1>9, <1>12

-----------------------------------------------------------------------------
(* The leaf of insert() and the end of erase().                            *)

\* Towards() is a side.
LEMMA TowardsIs == ASSUME NEW k, NEW n PROVE Towards(k, n) \in Side
BY DEF Towards, Side

\* A new leaf under y.
LEMMA LinkKeeps ==
  ASSUME NEW S, NEW pos, Fine(tree, S, {}, {}, pos), tree.p[Nil] = Nil,
         z \in Node \ S, y = Nil => tree.root = Nil,
         y # Nil => y \in S /\ tree.child[Towards(data[z], y)][y] = Nil, Link
  PROVE  Inserting(tree', S \cup {z}, z, Spread(pos, z, y, Towards(data[z], y)))
<1>. DEFINE s == Towards(data[z], y)
            t == IF y = Nil THEN [tree EXCEPT !.root = z] ELSE [tree EXCEPT !.child[s][y] = z]
            r == [t EXCEPT !.p[z] = y, !.child["left"][z] = Nil, !.child["right"][z] = Nil, !.color[z] = "red"]
<1>1. tree' = r
  BY DEF Link
<1>2. s \in Side
  BY TowardsIs
<1>3. PICK under, h : Laid(tree, S, under, pos) /\ Even(tree, S, {}, h) /\ Reds(tree, S, {}, {})
  BY DEF Fine
<1>4. tree \in TreeType /\ Kin(tree, S)
  BY FineIs
<1>5. (y = Nil /\ tree.root = Nil) \/ (y \in S /\ tree.child[s][y] = Nil)
  OBVIOUS
<1>. HIDE DEF s
<1>6. z \in Node /\ z \in Ref /\ Nil \in Ref /\ z # Nil /\ S \subseteq Node /\ y \in Ref /\ z # y
      /\ Nil \notin Node /\ "red" \in Color /\ "left" \in Side /\ "right" \in Side /\ "left" # "right"
      /\ (y # Nil => y \in Node) /\ \A b \in Side : b = "left" \/ b = "right"
  BY <1>4, <1>5, NilIsNoNode, Colors DEF Kin, Side
<1>7. Linking(tree, r, z, y, s)
  <2>1. /\ t \in TreeType /\ t.p = tree.p /\ t.color = tree.color
        /\ t.root = IF y = Nil THEN z ELSE tree.root
        /\ \A b \in Side, k \in Node : t.child[b][k] = IF k = y /\ b = s THEN z ELSE tree.child[b][k]
    BY <1>2, <1>4, <1>6, Zenon DEF TreeType
  <2>. HIDE DEF t
  <2>2. r \in TreeType
    BY <1>6, <2>1, Zenon DEF TreeType
  <2>3. r.root = t.root
    BY <2>1 DEF TreeType
  <2>4. \A b \in Side, k \in Node : r.child[b][k] = IF k = z THEN Nil ELSE t.child[b][k]
    BY <1>6, <2>1 DEF TreeType
  <2>5. \A k \in Ref : r.p[k] = IF k = z THEN y ELSE t.p[k]
    BY <1>6, <2>1 DEF TreeType
  <2>6. \A k \in Ref : r.color[k] = IF k = z THEN "red" ELSE t.color[k]
    BY <1>6, <2>1 DEF TreeType
  <2>. HIDE DEF r
  <2>7. \A b \in Side, k \in Node :
          r.child[b][k] = IF k = z THEN Nil ELSE IF k = y /\ b = s THEN z ELSE tree.child[b][k]
    BY <2>1, <2>4
  <2>. QED
    BY <2>1, <2>2, <2>3, <2>5, <2>6, <2>7 DEF Linking
<1>. HIDE DEF r
<1>8. Laid(r, S \cup {z}, Joined1(under, z, y), Spread(pos, z, y, s))
  BY <1>2, <1>3, <1>4, <1>5, <1>7, LinkLaid
<1>9. (\E k : Even(r, S \cup {z}, {}, k)) /\ Reds(r, S \cup {z}, {}, {z})
  <2>1. Reds(r, S \cup {z}, {}, {z})
    BY <1>2, <1>3, <1>4, <1>5, <1>7, LinkColors, Zenon
  <2>2. Even(r, S \cup {z}, {}, [h EXCEPT ![z] = 0])
    BY <1>2, <1>3, <1>4, <1>5, <1>7, LinkColors, Zenon
  <2>. QED
    BY <2>1, <2>2
<1>10. r \in TreeType /\ r.color[z] = "red" /\ r.p[Nil] = Nil
  BY <1>6, <1>7 DEF Linking
<1>11. Fine(r, S \cup {z}, {}, {z}, Spread(pos, z, y, s))
  BY <1>8, <1>9, <1>10, Zenon DEF Fine
<1>12. Inserting(r, S \cup {z}, z, Spread(pos, z, y, s))
  BY <1>10, <1>11 DEF Inserting, Red
<1>. QED
  BY <1>1, <1>12 DEF s

\* Only the nodes that are linked count.
LEMMA SameTree ==
  ASSUME NEW t, NEW S, NEW pos, Fine(t, S, {}, {}, pos), NEW r \in TreeType, r.root = t.root,
         \A k \in S : r.p[k] = t.p[k] /\ r.color[k] = t.color[k],
         r.color[Nil] = t.color[Nil],
         \A k \in S, b \in Side : r.child[b][k] = t.child[b][k]
  PROVE  Fine(r, S, {}, {}, pos)
<1>1. PICK under, h : Laid(t, S, under, pos) /\ Even(t, S, {}, h) /\ Reds(t, S, {}, {})
  BY DEF Fine
<1>2. t \in TreeType /\ Kin(t, S)
  BY FineIs
<1>3. Laid(r, S, under, pos)
  <2>1. ASSUME NEW n \in S
        PROVE  Fits(r, S, under, pos, n)
    <3>1. Fits(t, S, under, pos, n)
      BY <1>1 DEF Laid
    <3>2. r.child["left"][n] = t.child["left"][n] /\ r.child["right"][n] = t.child["right"][n]
          /\ \A b \in Side : r.child[b][n] = t.child[b][n]
      BY DEF Side
    <3>3. \A b \in Side : t.child[b][n] # Nil => t.child[b][n] \in S /\ t.p[t.child[b][n]] = n
                                                 /\ r.p[t.child[b][n]] = n
      BY <3>1 DEF Fits
    <3>4. n # t.root => t.p[n] \in S /\ \E b \in Side : n = t.child[b][t.p[n]]
      BY <3>1 DEF Fits
    <3>5. n # t.root => r.p[n] \in S /\ \E b \in Side : n = r.child[b][r.p[n]]
      BY <3>4
    <3>6. \A b \in Side : \A k \in under[t.child[b][n]] : Apart(pos, b, k, n)
      BY <3>1 DEF Fits
    <3>7. under[n] = {n} \cup under[t.child["left"][n]] \cup under[t.child["right"][n]] /\ under[n] \subseteq S
      BY <3>1 DEF Fits
    <3>. QED
      BY <3>2, <3>3, <3>5, <3>6, <3>7 DEF Fits
  <2>2. /\ S \in SUBSET Node /\ pos \in [Node -> Int]
        /\ under \in [Ref -> SUBSET Node] /\ under[Nil] = {}
        /\ t.root = Nil => S = {}
        /\ t.root # Nil => t.root \in S /\ t.p[t.root] = Nil /\ under[t.root] = S
    BY <1>1 DEF Laid
  <2>. QED
    BY <2>1, <2>2 DEF Laid
<1>4. Even(r, S, {}, h)
  <2>1. ASSUME NEW n \in S, NEW s \in Side
        PROVE  h[n] = Below(r, {}, h, n, r.child[s][n])
    <3>1. h[n] = Below(t, {}, h, n, t.child[s][n])
      BY <1>1 DEF Even
    <3>2. r.child[s][n] = t.child[s][n] /\ t.child[s][n] \in S \cup {Nil}
      BY <1>2 DEF Kin
    <3>. QED
      BY <3>1, <3>2 DEF Below, Wt
  <2>. QED
    BY <1>1, <2>1 DEF Even
<1>5. Reds(r, S, {}, {})
  <2>1. \A n \in S : n # t.root => t.p[n] \in S
    BY <1>2 DEF Kin
  <2>. QED
    BY <1>1, <2>1 DEF Reds
<1>. QED
  BY <1>3, <1>4, <1>5, Zenon DEF Fine

\* The end of erase().
LEMMA ReleaseKeeps ==
  ASSUME NEW S, NEW pos, Fine(tree, S, {}, {}, pos), z \in Node \ S, Release
  PROVE  Fine(tree', S, {}, {}, pos) /\ tree'.p[Nil] = Nil
<1>1. tree \in TreeType /\ Kin(tree, S)
  BY FineIs
<1>2. "left" \in Side /\ "right" \in Side /\ "left" # "right" /\ "black" \in Color /\ z # Nil /\ Nil \notin S
      /\ S \subseteq Node /\ Nil \in Ref /\ Node \subseteq Ref
  BY <1>1, NilIsNoNode, Colors DEF Side, Kin
<1>. DEFINE a == Forget(tree)
            b == Blank(tree, z)
            c == Forget(b)
<1>3. /\ a \in TreeType /\ a.root = tree.root /\ a.child = tree.child /\ a.color = tree.color /\ a.p[Nil] = Nil
      /\ \A k \in S : a.p[k] = tree.p[k]
  BY <1>1, <1>2, Zenon DEF TreeType, Forget
<1>4. /\ b \in TreeType /\ b.root = tree.root
      /\ \A k \in S : b.p[k] = tree.p[k] /\ b.color[k] = tree.color[k]
      /\ b.color[Nil] = tree.color[Nil]
      /\ \A k \in S, s \in Side : b.child[s][k] = tree.child[s][k]
  BY <1>1, <1>2, Zenon DEF TreeType, Blank
<1>. HIDE DEF b
<1>5. /\ c \in TreeType /\ c.root = b.root /\ c.child = b.child /\ c.color = b.color /\ c.p[Nil] = Nil
      /\ \A k \in S : c.p[k] = b.p[k]
  BY <1>2, <1>4, Zenon DEF TreeType, Forget
<1>. HIDE DEF a, c
<1>6. Fine(a, S, {}, {}, pos)
  BY <1>3, SameTree
<1>7. Fine(c, S, {}, {}, pos)
  BY <1>4, <1>5, SameTree
<1>8. tree' = a \/ tree' = c
  BY DEF Release, a, b, c
<1>. QED
  BY <1>3, <1>5, <1>6, <1>7, <1>8

-----------------------------------------------------------------------------
(* The free list.                                                          *)

\* No element twice.
Distinct(e) == \A i, j \in 1 .. Len(e) : e[i] = e[j] => i = j

\* The last node of the free list is taken ...
LEMMA ListTakes ==
  ASSUME NEW e \in Seq(Node), Distinct(e), e # <<>>
  PROVE  /\ Front(e) \in Seq(Node) /\ Len(Front(e)) = Len(e) - 1 /\ Distinct(Front(e))
         /\ Last(e) \in Node /\ Last(e) \notin ToSet(Front(e)) /\ ToSet(e) = ToSet(Front(e)) \cup {Last(e)}
<1>. DEFINE n == Len(e)
            f == Front(e)
<1>1. n \in Nat /\ n >= 1 /\ DOMAIN e = 1 .. n /\ n \in 1 .. n /\ \A i \in 1 .. n : e[i] \in Node
  OBVIOUS
<1>2. f \in Seq(Node) /\ Len(f) = n - 1 /\ \A i \in 1 .. n - 1 : f[i] = e[i]
  <2>1. n - 1 \in Nat /\ 0 <= n - 1 /\ n - 1 <= Len(e) /\ 0 \in Nat
    BY <1>1
  <2>2. /\ SubSeq(e, 0 + 1, n - 1) \in Seq(Node) /\ Len(SubSeq(e, 0 + 1, n - 1)) = (n - 1) - 0
        /\ \A i \in 1 .. (n - 1) - 0 : SubSeq(e, 0 + 1, n - 1)[i] = e[0 + i]
    BY <2>1, Stretch, Zenon
  <2>3. f = SubSeq(e, 0 + 1, n - 1)
    BY DEF Front
  <2>. HIDE DEF f, n
  <2>. QED
    BY <1>1, <2>2, <2>3
<1>3. DOMAIN f = 1 .. n - 1 /\ ToSet(f) = {f[i] : i \in 1 .. n - 1} /\ ToSet(e) = {e[i] : i \in 1 .. n} /\ Last(e) = e[n]
  <2>. HIDE DEF f
  <2>. QED
    BY <1>1, <1>2 DEF ToSet, Last
<1>. HIDE DEF f, n
<1>4. \A i, j \in 1 .. n : e[i] = e[j] => i = j
  BY DEF Distinct, n
<1>5. Distinct(f)
  BY <1>1, <1>2, <1>4 DEF Distinct
<1>6. e[n] \notin ToSet(f)
  BY <1>1, <1>2, <1>3, <1>4
<1>7. ToSet(e) = ToSet(f) \cup {e[n]}
  <2>1. \A i \in 1 .. n : i = n \/ i \in 1 .. n - 1
    BY <1>1
  <2>2. \A i \in 1 .. n - 1 : i \in 1 .. n
    BY <1>1
  <2>. QED
    BY <1>1, <1>2, <1>3, <2>1, <2>2
<1>. QED
  BY <1>1, <1>2, <1>3, <1>5, <1>6, <1>7 DEF f, n

\* ... and a node is given back.
LEMMA ListGives ==
  ASSUME NEW e \in Seq(Node), Distinct(e), NEW n \in Node, n \notin ToSet(e)
  PROVE  /\ Append(e, n) \in Seq(Node) /\ Len(Append(e, n)) = Len(e) + 1 /\ Distinct(Append(e, n))
         /\ ToSet(Append(e, n)) = ToSet(e) \cup {n}
<1>. DEFINE f == Append(e, n)
            m == Len(e)
<1>1. /\ f \in Seq(Node) /\ Len(f) = m + 1 /\ m \in Nat /\ f[m + 1] = n
      /\ \A i \in 1 .. m : f[i] = e[i]
      /\ DOMAIN f = 1 .. m + 1 /\ DOMAIN e = 1 .. m
  OBVIOUS
<1>. HIDE DEF f
<1>2. \A i \in 1 .. m + 1 : i = m + 1 \/ i \in 1 .. m
  BY <1>1
<1>3. \A i \in 1 .. m : i \in 1 .. m + 1 /\ e[i] \in ToSet(e)
  BY <1>1 DEF ToSet
<1>4. m + 1 \in 1 .. m + 1
  BY <1>1
<1>5. ToSet(f) = {f[i] : i \in 1 .. m + 1} /\ ToSet(e) = {e[i] : i \in 1 .. m}
  BY <1>1 DEF ToSet
<1>6. \A i, j \in 1 .. m : e[i] = e[j] => i = j
  BY DEF Distinct
<1>. HIDE DEF m
<1>7. Distinct(f)
  BY <1>1, <1>2, <1>3, <1>6 DEF Distinct
<1>8. ToSet(f) = ToSet(e) \cup {n}
  BY <1>1, <1>2, <1>3, <1>4, <1>5, Zenon
<1>. QED
  BY <1>1, <1>7, <1>8 DEF f, m

\* A list without repetition is as long as it has elements.
LEMMA ListCounts ==
  ASSUME NEW e \in Seq(Node), Distinct(e)
  PROVE  Cardinality(ToSet(e)) = Len(e)
<1>1. e \in [1 .. Len(e) -> ToSet(e)] /\ Len(e) \in Nat
  BY DEF ToSet
<1>2. e \in Bijection(1 .. Len(e), ToSet(e))
  <2>1. e \in Injection(1 .. Len(e), ToSet(e))
    BY <1>1 DEF Injection, IsInjective, Distinct
  <2>2. e \in Surjection(1 .. Len(e), ToSet(e))
    BY <1>1 DEF Surjection, ToSet
  <2>. QED
    BY <2>1, <2>2 DEF Bijection
<1>3. ExistsBijection(1 .. Len(e), ToSet(e))
  BY <1>2 DEF ExistsBijection
<1>4. Cardinality(1 .. Len(e)) = Len(e) /\ IsFiniteSet(1 .. Len(e))
  <2>1. \A a, b \in Int : IsFiniteSet(a .. b) /\ Cardinality(a .. b) = IF a > b THEN 0 ELSE b - a + 1
    BY FS_Interval
  <2>2. IsFiniteSet(1 .. Len(e)) /\ Cardinality(1 .. Len(e)) = IF 1 > Len(e) THEN 0 ELSE Len(e) - 1 + 1
    BY <1>1, <2>1, SMTT(30)
  <2>. QED
    BY <1>1, <2>2
<1>. QED
  BY <1>3, <1>4, FS_Bijection

-----------------------------------------------------------------------------
(* The invariant.                                                          *)

\* The nodes of S are a red-black tree, in the order of their positions, but for
\* what the fixup that runs has still to repair.
Shape(S, pos) ==
  /\ pc \in {"idle", "descend"} => Fine(tree, S, {}, {}, pos) /\ tree.p[Nil] = Nil
  /\ pc = "insert_fixup" => Inserting(tree, S, z, pos)
  /\ pc = "delete_fixup" => Fine(tree, S, {x}, {}, pos) /\ x \in S \cup {Nil}
  /\ pc = "free" => Fine(tree, S, {}, {}, pos)

\* The node in hand, and where insert() looks for a place.
Hands(S) ==
  /\ S \subseteq Node
  /\ pc \in {"descend", "delete_fixup", "free"} => z \in Node \ S
  /\ pc = "descend" => /\ y = Nil => x = tree.root
                       /\ y # Nil => y \in S /\ x = tree.child[Towards(data[z], y)][y]

\* Every node is in one place.
Owned(S) ==
  /\ heap = S \cup ToSet(erased) \cup InHand
  /\ S \cap ToSet(erased) = {}
  /\ InHand \cap (S \cup ToSet(erased)) = {}
  /\ Distinct(erased)

\* The count lags behind while a call runs.
Counted(S) ==
  /\ pc \in {"idle", "descend"} => used = Cardinality(S)
  /\ pc = "insert_fixup" => used = Cardinality(S) - 1
  /\ pc \in {"delete_fixup", "free"} => used = Cardinality(S) + 1

\* The nodes have keys.
Keyed(S) ==
  /\ \A n \in S : data[n] \in Key
  /\ pc = "descend" => data[z] \in Key

\* What is true of the linked nodes S and their positions in every state.
Held(S, pos) == Shape(S, pos) /\ Hands(S) /\ Owned(S) /\ Counted(S) /\ Keyed(S)

\* The loops.
Pcs == {"idle", "descend", "insert_fixup", "delete_fixup", "free"}

\* What of TypeOK does not follow.
Typed ==
  /\ data \in [Node -> Key \cup {0}]
  /\ used \in Nat
  /\ erased \in Seq(Node) /\ Len(erased) <= MaxErased
  /\ heap \subseteq Node
  /\ pc \in Pcs
  /\ {z, x, y} \subseteq Ref

\* How many nodes are linked.
LEMMA SizeOfTree ==
  ASSUME NEW S \in SUBSET Node
  PROVE  /\ IsFiniteSet(S) /\ Cardinality(S) \in Nat /\ Cardinality(S) <= Cardinality(Node)
         /\ Cardinality(Node) \in Nat
         /\ \A n \in Node \ S : /\ Cardinality(S \cup {n}) = Cardinality(S) + 1
                                /\ Cardinality(S) + 1 <= Cardinality(Node)
         /\ \A n \in S : Cardinality(S \ {n}) = Cardinality(S) - 1 /\ Cardinality(S) >= 1
<1>1. IsFiniteSet(Node) /\ Cardinality(Node) \in Nat
  BY NodeAssumption, FS_CardinalityType
<1>2. IsFiniteSet(S) /\ Cardinality(S) <= Cardinality(Node) /\ Cardinality(S) \in Nat
  BY <1>1, FS_Subset, FS_CardinalityType
<1>3. ASSUME NEW n \in Node \ S
      PROVE  /\ Cardinality(S \cup {n}) = Cardinality(S) + 1
             /\ Cardinality(S) + 1 <= Cardinality(Node)
  <2>1. Cardinality(S \cup {n}) = Cardinality(S) + 1
    BY <1>2, FS_AddElement, Zenon
  <2>2. S \cup {n} \subseteq Node
    OBVIOUS
  <2>3. Cardinality(S \cup {n}) <= Cardinality(Node)
    BY <1>1, <2>2, FS_Subset
  <2>. QED
    BY <2>1, <2>3
<1>4. ASSUME NEW n \in S
      PROVE  Cardinality(S \ {n}) = Cardinality(S) - 1 /\ Cardinality(S) >= 1
  <2>1. Cardinality(S \ {n}) = Cardinality(S) - 1
    BY <1>2, FS_RemoveElement, Zenon
  <2>2. IsFiniteSet(S \ {n})
    BY <1>2, FS_Subset
  <2>3. Cardinality(S \ {n}) \in Nat
    BY <2>2, FS_CardinalityType
  <2>. QED
    BY <1>2, <2>1, <2>3
<1>. QED
  BY <1>1, <1>2, <1>3, <1>4

\* The types follow ...
LEMMA TypeHolds ==
  ASSUME Typed, NEW S, NEW pos, Held(S, pos)
  PROVE  TypeOK
<1>1. tree \in TreeType
  BY FineIs DEF Typed, Pcs, Held, Shape, Inserting
<1>2. used \in 0 .. Cardinality(Node)
  <2>1. S \in SUBSET Node
    BY DEF Held, Hands
  <2>2. pc \in {"delete_fixup", "free"} => z \in Node \ S
    BY DEF Held, Hands
  <2>3. /\ Cardinality(S) \in Nat /\ Cardinality(S) <= Cardinality(Node) /\ Cardinality(Node) \in Nat
        /\ pc \in {"delete_fixup", "free"} => Cardinality(S) + 1 <= Cardinality(Node)
    BY <2>1, <2>2, SizeOfTree, Zenon
  <2>4. /\ pc \in {"idle", "descend"} => used = Cardinality(S)
        /\ pc = "insert_fixup" => used = Cardinality(S) - 1
        /\ pc \in {"delete_fixup", "free"} => used = Cardinality(S) + 1
        /\ pc \in Pcs /\ used \in Nat
    BY DEF Held, Counted, Typed
  <2>. QED
    BY <2>3, <2>4 DEF Pcs
<1>. QED
  BY <1>1, <1>2 DEF TypeOK, TreeType, Typed, Pcs

\* ... and the rules of the tree ...
LEMMA RulesFollow ==
  ASSUME Typed, NEW S, NEW pos, Held(S, pos)
  PROVE  RedBlackRules
<1>. DEFINE X == IF pc = "delete_fixup" THEN {x} ELSE {}
            Z == IF pc = "insert_fixup" THEN {z} ELSE {}
<1>1. Fine(tree, S, X, Z, pos)
  BY DEF Typed, Pcs, Held, Shape, Inserting
<1>. HIDE DEF X, Z
<1>2. PICK under, h : Laid(tree, S, under, pos) /\ Even(tree, S, X, h) /\ Reds(tree, S, X, Z)
  BY <1>1 DEF Fine
<1>3. tree \in TreeType
  BY <1>1, FineIs
<1>. QED
  BY <1>2, <1>3, RulesHold DEF X, Z

\* ... and which nodes are linked, in which order ...
LEMMA LinkedNodes ==
  ASSUME Typed, NEW S, NEW pos, Held(S, pos)
  PROVE  Linked = S /\ Lists(InOrder, S, pos) /\ pos \in [Node -> Int] /\ S \in SUBSET Node
<1>. DEFINE X == IF pc = "delete_fixup" THEN {x} ELSE {}
            Z == IF pc = "insert_fixup" THEN {z} ELSE {}
<1>1. Fine(tree, S, X, Z, pos)
  BY DEF Typed, Pcs, Held, Shape, Inserting
<1>. HIDE DEF X, Z
<1>2. PICK under, h : Laid(tree, S, under, pos) /\ Even(tree, S, X, h) /\ Reds(tree, S, X, Z)
  BY <1>1 DEF Fine
<1>3. tree \in TreeType
  BY <1>1, FineIs
<1>4. pos \in [Node -> Int] /\ S \in SUBSET Node
  BY <1>2 DEF Laid
<1>. QED
  BY <1>2, <1>3, <1>4, LinkedIs

\* ... and where the nodes are.
LEMMA OwnershipFollows ==
  ASSUME Typed, NEW S, NEW pos, Held(S, pos)
  PROVE  NodesAreOwned
<1>1. Linked = S
  BY LinkedNodes
<1>2. Cardinality(ToSet(erased)) = Len(erased)
  BY ListCounts DEF Typed, Held, Owned
<1>. QED
  BY <1>1, <1>2 DEF NodesAreOwned, Held, Owned

-----------------------------------------------------------------------------
(* The invariant, action by action.                                        *)

\* Between two calls.
LEMMA AtRest ==
  ASSUME NEW S, NEW pos, Typed, Held(S, pos), pc = "idle"
  PROVE  /\ Fine(tree, S, {}, {}, pos) /\ tree.p[Nil] = Nil /\ S \subseteq Node /\ used = Cardinality(S)
         /\ heap = S \cup ToSet(erased) /\ S \cap ToSet(erased) = {} /\ Distinct(erased)
         /\ \A n \in S : data[n] \in Key
         /\ tree \in TreeType /\ Kin(tree, S) /\ Linked = S
<1>1. Fine(tree, S, {}, {}, pos) /\ tree.p[Nil] = Nil
  BY DEF Held, Shape
<1>2. tree \in TreeType /\ Kin(tree, S)
  BY <1>1, FineIs
<1>. QED
  BY <1>1, <1>2, LinkedNodes DEF Held, Hands, Owned, Counted, Keyed, InHand

\* insert() takes a node.
LEMMA InsertStep ==
  ASSUME NEW S, NEW pos, Typed, Held(S, pos), NEW n \in Node, NEW k \in Key, Insert(n, k)
  PROVE  Typed' /\ Held(S, pos)' /\ n \notin S
<1>1. /\ pc = "idle" /\ pc' = "descend" /\ z' = n /\ y' = Nil /\ x' = tree.root
      /\ data' = [data EXCEPT ![n] = k] /\ tree' = tree /\ used' = used
      /\ IF erased # <<>> THEN n = Last(erased) /\ erased' = Front(erased) /\ heap' = heap
         ELSE n \notin heap /\ heap' = heap \cup {n} /\ erased' = erased
  BY DEF Insert
<1>2. /\ Fine(tree, S, {}, {}, pos) /\ tree.p[Nil] = Nil /\ S \subseteq Node /\ used = Cardinality(S)
      /\ heap = S \cup ToSet(erased) /\ S \cap ToSet(erased) = {} /\ Distinct(erased)
      /\ \A m \in S : data[m] \in Key
      /\ tree \in TreeType /\ Kin(tree, S)
  BY <1>1, AtRest
<1>3. erased \in Seq(Node) /\ Len(erased) <= MaxErased /\ data \in [Node -> Key \cup {0}] /\ heap \subseteq Node
      /\ MaxErased \in Nat
  BY MaxErasedAssumption DEF Typed
<1>4. /\ n \notin S /\ n \notin ToSet(erased') /\ Distinct(erased') /\ erased' \in Seq(Node)
      /\ Len(erased') <= MaxErased
      /\ heap' = S \cup ToSet(erased') \cup {n} /\ S \cap ToSet(erased') = {} /\ heap' \subseteq Node
  <2>1. CASE erased # <<>>
    <3>1. /\ erased' \in Seq(Node) /\ Len(erased') = Len(erased) - 1 /\ Distinct(erased')
          /\ n \notin ToSet(erased') /\ ToSet(erased) = ToSet(erased') \cup {n}
      BY <1>1, <1>2, <1>3, <2>1, ListTakes
    <3>2. Len(erased') <= MaxErased
      BY <1>3, <3>1
    <3>3. heap' = S \cup ToSet(erased') \cup {n} /\ S \cap ToSet(erased') = {} /\ heap' \subseteq Node /\ n \notin S
      BY <1>1, <1>2, <1>3, <2>1, <3>1
    <3>. QED
      BY <3>1, <3>2, <3>3
  <2>2. CASE erased = <<>>
    <3>1. n \notin heap /\ heap' = heap \cup {n} /\ erased' = erased
      BY <1>1, <2>2
    <3>. QED
      BY <1>2, <1>3, <3>1
  <2>. QED
    BY <2>1, <2>2
<1>5. data' \in [Node -> Key \cup {0}] /\ data'[n] = k /\ \A m \in Node : m # n => data'[m] = data[m]
  BY <1>1, <1>3
<1>6. Typed'
  <2>1. used \in Nat
    BY DEF Typed
  <2>2. n \in Ref /\ Nil \in Ref /\ tree.root \in Ref
    BY <1>2, NilIsNoNode DEF TreeType
  <2>. QED
    BY <1>1, <1>4, <1>5, <2>1, <2>2 DEF Typed, Pcs
<1>7. Shape(S, pos)' /\ Counted(S)'
  BY <1>1, <1>2 DEF Shape, Counted
<1>8. Hands(S)' /\ Keyed(S)'
  BY <1>1, <1>2, <1>4, <1>5 DEF Hands, Keyed
<1>9. Owned(S)'
  <2>1. InHand' = {n}
    BY <1>1 DEF InHand
  <2>. QED
    BY <1>4, <2>1 DEF Owned
<1>. QED
  BY <1>4, <1>6, <1>7, <1>8, <1>9 DEF Held

\* insert() goes down one level.
LEMMA DescendStep ==
  ASSUME NEW S, NEW pos, Typed, Held(S, pos), Descend
  PROVE  Typed' /\ Held(S, pos)' /\ x \in S
<1>1. /\ pc = "descend" /\ x # Nil /\ y' = x /\ x' = tree.child[Towards(data[z], x)][x]
      /\ tree' = tree /\ data' = data /\ used' = used /\ erased' = erased /\ heap' = heap /\ pc' = pc /\ z' = z
  BY DEF Descend
<1>2. /\ Fine(tree, S, {}, {}, pos) /\ tree.p[Nil] = Nil /\ S \subseteq Node /\ z \in Node \ S
      /\ y = Nil => x = tree.root
      /\ y # Nil => y \in S /\ x = tree.child[Towards(data[z], y)][y]
  BY <1>1 DEF Held, Shape, Hands
<1>3. tree \in TreeType /\ Kin(tree, S)
  BY <1>2, FineIs
<1>4. Towards(data[z], x) \in Side /\ Towards(data[z], y) \in Side
  BY TowardsIs
<1>5. x \in S
  BY <1>1, <1>2, <1>3, <1>4 DEF Kin
<1>6. x' \in Ref /\ y' \in Ref
  BY <1>1, <1>2, <1>3, <1>4, <1>5 DEF Kin
<1>7. Typed'
  BY <1>1, <1>6 DEF Typed
<1>8. Shape(S, pos)' /\ Counted(S)' /\ Keyed(S)'
  BY <1>1, <1>2 DEF Shape, Counted, Keyed, Held
<1>9. Hands(S)'
  <2>1. Towards(data[z], x)' = Towards(data[z], x)'
    OBVIOUS
  <2>2. x' = tree'.child[Towards(data'[z'], y')][y']
    BY <1>1 DEF Towards
  <2>. QED
    BY <1>1, <1>2, <1>5, <2>2 DEF Hands, Towards
<1>10. Owned(S)'
  BY <1>1 DEF Held, Owned, InHand
<1>. QED
  BY <1>5, <1>7, <1>8, <1>9, <1>10 DEF Held

\* insert() links the node.
LEMMA LinkStep ==
  ASSUME NEW S, NEW pos, Typed, Held(S, pos), Link,
         NEW T, T = S \cup {z}, NEW at, at = Spread(pos, z, y, Towards(data[z], y))
  PROVE  /\ Typed' /\ Held(T, at)'
         /\ z \in Node \ S /\ y \in (S \cup {Nil}) \ {z} /\ (y = Nil => S = {})
         /\ pos \in [Node -> Int]
<1>. DEFINE s == Towards(data[z], y)
<1>1. /\ pc = "descend" /\ x = Nil /\ pc' = "insert_fixup" /\ x' = Nil /\ y' = Nil /\ z' = z
      /\ data' = data /\ used' = used /\ erased' = erased /\ heap' = heap
  BY DEF Link
<1>2. /\ Fine(tree, S, {}, {}, pos) /\ tree.p[Nil] = Nil /\ S \subseteq Node /\ z \in Node \ S
      /\ y = Nil => tree.root = Nil
      /\ y # Nil => y \in S /\ tree.child[s][y] = Nil
  BY <1>1 DEF Held, Shape, Hands
<1>3. tree \in TreeType /\ Kin(tree, S)
  BY <1>2, FineIs
<1>4. Inserting(tree', T, z, at)
  BY <1>2, LinkKeeps
<1>. HIDE DEF s
<1>5. Typed'
  <2>1. Nil \in Ref
    BY NilIsNoNode
  <2>. QED
    BY <1>1, <2>1 DEF Typed, Pcs
<1>6. Shape(T, at)'
  BY <1>1, <1>4 DEF Shape
<1>7. Hands(T)' /\ Keyed(T)'
  BY <1>1, <1>2 DEF Hands, Held, Keyed
<1>8. Counted(T)'
  <2>1. S \in SUBSET Node
    BY <1>2
  <2>2. Cardinality(S \cup {z}) = Cardinality(S) + 1 /\ Cardinality(S) \in Nat
    BY <1>2, <2>1, SizeOfTree
  <2>3. used = Cardinality(S)
    BY <1>1 DEF Held, Counted
  <2>. QED
    BY <1>1, <2>2, <2>3 DEF Counted
<1>9. Owned(T)'
  <2>1. InHand = {z} /\ InHand' = {}
    BY <1>1 DEF InHand
  <2>. QED
    BY <1>1, <2>1 DEF Held, Owned
<1>10. pos \in [Node -> Int] /\ (y = Nil => S = {}) /\ y \in (S \cup {Nil}) \ {z}
  <2>1. \E under : Laid(tree, S, under, pos)
    BY <1>2 DEF Fine
  <2>2. Nil \notin Node
    BY NilIsNoNode
  <2>. QED
    BY <1>2, <2>1, <2>2 DEF Laid
<1>. QED
  BY <1>2, <1>5, <1>6, <1>7, <1>8, <1>9, <1>10 DEF Held

\* The turns of insert_fixup() change colors and links only.
LEMMA InsertFixupStep ==
  ASSUME NEW S, NEW pos, Typed, Held(S, pos), RedUncle \/ BlackUncle
  PROVE  Typed' /\ Held(S, pos)' /\ data' = data
<1>1. /\ pc = "insert_fixup" /\ pc' = pc /\ x' = x /\ y' = y
      /\ data' = data /\ used' = used /\ erased' = erased /\ heap' = heap
  BY Zenon DEF RedUncle, BlackUncle, InsertFixupGuard
<1>2. Inserting(tree, S, z, pos)
  BY <1>1 DEF Held, Shape
<1>3. Inserting(tree', S, z', pos)
  BY <1>2, RedUncleKeeps, BlackUncleKeeps
<1>4. z' \in Ref
  <2>1. z' \in S /\ S \subseteq Node
    BY <1>3 DEF Inserting, Held, Hands
  <2>. QED
    BY <2>1 DEF Ref
<1>5. Typed'
  BY <1>1, <1>4 DEF Typed
<1>6. Shape(S, pos)' /\ Hands(S)' /\ Counted(S)' /\ Keyed(S)'
  BY <1>1, <1>3 DEF Held, Shape, Hands, Counted, Keyed
<1>7. Owned(S)'
  BY <1>1 DEF Held, Owned, InHand
<1>. QED
  BY <1>1, <1>5, <1>6, <1>7, SMTT(30) DEF Held

\* insert() returns.
LEMMA InsertReturnsStep ==
  ASSUME NEW S, NEW pos, Typed, Held(S, pos), InsertReturns
  PROVE  Typed' /\ Held(S, pos)' /\ data' = data
<1>1. /\ pc = "insert_fixup" /\ pc' = "idle" /\ x' = x /\ y' = y /\ z' = Nil
      /\ data' = data /\ used' = used + 1 /\ erased' = erased /\ heap' = heap
  BY DEF InsertReturns
<1>2. Inserting(tree, S, z, pos)
  BY <1>1 DEF Held, Shape
<1>3. Fine(tree', S, {}, {}, pos) /\ tree'.p[Nil] = Nil
  BY <1>2, InsertReturnsKeeps
<1>4. Typed'
  <2>1. Nil \in Ref
    BY NilIsNoNode
  <2>. QED
    BY <1>1, <2>1 DEF Typed, Pcs
<1>5. Shape(S, pos)' /\ Hands(S)' /\ Keyed(S)'
  BY <1>1, <1>3 DEF Held, Shape, Hands, Keyed
<1>6. Counted(S)'
  <2>1. S \in SUBSET Node
    BY DEF Held, Hands
  <2>2. Cardinality(S) \in Nat
    BY <2>1, SizeOfTree
  <2>3. used = Cardinality(S) - 1
    BY <1>1 DEF Held, Counted
  <2>. QED
    BY <1>1, <2>2, <2>3 DEF Counted
<1>7. Owned(S)'
  BY <1>1 DEF Held, Owned, InHand
<1>. QED
  BY <1>1, <1>4, <1>5, <1>6, <1>7 DEF Held

\* Where erase() begins.
LEMMA UnlinkKeeps ==
  ASSUME NEW S, NEW pos, Fine(tree, S, {}, {}, pos), tree.p[Nil] = Nil, NEW n \in S, Unlink(n)
  PROVE  /\ pc' \in {"delete_fixup", "free"}
         /\ pc' = "delete_fixup" => Fine(tree', S \ {n}, {x'}, {}, pos)
         /\ pc' = "free" => Fine(tree', S \ {n}, {}, {}, pos)
         /\ x' \in (S \ {n}) \cup {Nil}
<1>. DEFINE l == tree.child["left"][n]
            r == tree.child["right"][n]
            m == IF l = Nil \/ r = Nil THEN n ELSE Extreme(tree, "left", r)
            up == IF l = Nil THEN r ELSE IF r = Nil THEN l ELSE tree.child["right"][m]
<1>1. /\ tree' = IF m = n THEN Transplant(tree, n, up) ELSE Replace(tree, n, m)
      /\ x' = up
      /\ pc' = IF Red(tree, m) THEN "free" ELSE "delete_fixup"
  BY DEF Unlink
<1>2. "left" \in Side /\ "right" \in Side /\ Other("left") = "right" /\ Other("right") = "left"
  BY DEF Side, Other
<1>3. Fine(tree', S \ {n}, Missing(tree, m, up), {}, pos) /\ up \in (S \ {n}) \cup {Nil}
  <2>1. CASE l = Nil
    <3>1. m = n /\ up = r /\ tree' = Transplant(tree, n, r)
      BY <1>1, <2>1
    <3>2. Fine(Transplant(tree, n, r), S \ {n}, Missing(tree, n, r), {}, pos) /\ r \in (S \ {n}) \cup {Nil}
      BY <1>2, <2>1, UnlinkOuter
    <3>. QED
      BY <3>1, <3>2
  <2>2. CASE l # Nil /\ r = Nil
    <3>1. m = n /\ up = l /\ tree' = Transplant(tree, n, l)
      BY <1>1, <2>2
    <3>2. Fine(Transplant(tree, n, l), S \ {n}, Missing(tree, n, l), {}, pos) /\ l \in (S \ {n}) \cup {Nil}
      BY <1>2, <2>2, UnlinkOuter
    <3>. QED
      BY <3>1, <3>2
  <2>3. CASE l # Nil /\ r # Nil
    <3>1. m = Extreme(tree, "left", r) /\ up = tree.child["right"][m]
      BY <2>3
    <3>2. /\ Fine(Replace(tree, n, m), S \ {n}, Missing(tree, m, up), {}, pos)
          /\ up \in (S \ {n}) \cup {Nil}
          /\ m # n
      <4>. HIDE DEF m, up
      <4>. QED
        BY <2>3, <3>1, UnlinkInner
    <3>. HIDE DEF m, up
    <3>. QED
      BY <1>1, <3>2
  <2>. QED
    BY <2>1, <2>2, <2>3, Zenon
<1>. HIDE DEF m, up
<1>. QED
  BY <1>1, <1>3 DEF Missing, Red

\* erase() takes a node out.
LEMMA UnlinkStep ==
  ASSUME NEW S, NEW pos, Typed, Held(S, pos), NEW n, Unlink(n), NEW T, T = S \ {n}
  PROVE  Typed' /\ Held(T, pos)' /\ data' = data /\ n \in S
<1>1. /\ pc = "idle" /\ z' = n /\ y' = y /\ n \in Linked
      /\ data' = data /\ used' = used /\ erased' = erased /\ heap' = heap
  BY DEF Unlink
<1>2. /\ Fine(tree, S, {}, {}, pos) /\ tree.p[Nil] = Nil /\ S \subseteq Node /\ used = Cardinality(S)
      /\ heap = S \cup ToSet(erased) /\ S \cap ToSet(erased) = {} /\ Distinct(erased)
      /\ \A m \in S : data[m] \in Key
      /\ n \in S
  BY <1>1, AtRest
<1>3. /\ pc' \in {"delete_fixup", "free"}
      /\ pc' = "delete_fixup" => Fine(tree', T, {x'}, {}, pos)
      /\ pc' = "free" => Fine(tree', T, {}, {}, pos)
      /\ x' \in T \cup {Nil}
  BY <1>2, UnlinkKeeps
<1>4. Typed'
  <2>1. x' \in Ref /\ z' \in Ref
    BY <1>1, <1>2, <1>3, NilIsNoNode
  <2>. QED
    BY <1>1, <1>3, <2>1 DEF Typed, Pcs
<1>5. Shape(T, pos)' /\ Hands(T)' /\ Keyed(T)'
  BY <1>1, <1>2, <1>3 DEF Shape, Hands, Keyed
<1>6. Counted(T)'
  <2>1. S \in SUBSET Node
    BY <1>2
  <2>2. Cardinality(T) = Cardinality(S) - 1 /\ Cardinality(S) \in Nat
    BY <1>2, <2>1, SizeOfTree
  <2>. QED
    BY <1>1, <1>2, <1>3, <2>2 DEF Counted
<1>7. Owned(T)'
  <2>1. InHand' = {n}
    BY <1>1, <1>3 DEF InHand
  <2>. QED
    BY <1>1, <1>2, <2>1 DEF Owned
<1>. QED
  BY <1>1, <1>2, <1>4, <1>5, <1>6, <1>7 DEF Held

\* The turns of delete_fixup() change colors and links only.
LEMMA DeleteFixupStep ==
  ASSUME NEW S, NEW pos, Typed, Held(S, pos), SiblingTurnsRed \/ SiblingRotates \/ Recolored
  PROVE  Typed' /\ Held(S, pos)' /\ data' = data
<1>1. /\ pc = "delete_fixup" /\ z' = z /\ y' = y
      /\ data' = data /\ used' = used /\ erased' = erased /\ heap' = heap
  BY Zenon DEF SiblingTurnsRed, SiblingRotates, Recolored, DeleteFixupGuard
<1>2. Fine(tree, S, {x}, {}, pos) /\ x \in S \cup {Nil} /\ S \subseteq Node /\ z \in Node \ S
  BY <1>1 DEF Held, Shape, Hands
<1>3. CASE Recolored
  <2>1. pc' = "free" /\ x' = x
    BY <1>3 DEF Recolored
  <2>2. Fine(tree', S, {}, {}, pos)
    BY <1>2, <1>3, RecoloredKeeps
  <2>3. Typed'
    BY <1>1, <2>1 DEF Typed, Pcs
  <2>4. Shape(S, pos)' /\ Hands(S)' /\ Counted(S)' /\ Keyed(S)'
    BY <1>1, <1>2, <2>1, <2>2 DEF Held, Shape, Hands, Counted, Keyed
  <2>5. Owned(S)'
    BY <1>1, <2>1, SMTT(30) DEF Held, Owned, InHand
  <2>. QED
    BY <1>1, <2>3, <2>4, <2>5 DEF Held
<1>4. CASE SiblingTurnsRed \/ SiblingRotates
  <2>1. pc' = pc
    BY <1>4, Zenon DEF SiblingTurnsRed, SiblingRotates
  <2>2. Fine(tree', S, {x'}, {}, pos) /\ x' \in S
    BY <1>2, <1>4, TurnsRedKeeps, RotatesKeeps
  <2>3. Typed'
    <3>1. x' \in Ref
      BY <1>2, <2>2 DEF Ref
    <3>. QED
      BY <1>1, <2>1, <3>1 DEF Typed
  <2>4. Shape(S, pos)' /\ Hands(S)' /\ Counted(S)' /\ Keyed(S)'
    BY <1>1, <1>2, <2>1, <2>2 DEF Held, Shape, Hands, Counted, Keyed
  <2>5. Owned(S)'
    BY <1>1, <2>1 DEF Held, Owned, InHand
  <2>. QED
    BY <1>1, <2>3, <2>4, <2>5 DEF Held
<1>. QED
  BY <1>3, <1>4, SMTT(30)

\* erase() gives the node back.
LEMMA ReleaseStep ==
  ASSUME NEW S, NEW pos, Typed, Held(S, pos), Release
  PROVE  Typed' /\ Held(S, pos)' /\ \A n \in S : data'[n] = data[n]
<1>1. /\ pc = "free" /\ pc' = "idle" /\ z' = Nil /\ x' = Nil /\ y' = y /\ used' = used - 1
      /\ IF Len(erased) = MaxErased
           THEN heap' = heap \ {z} /\ data' = [data EXCEPT ![z] = 0] /\ erased' = erased
           ELSE erased' = Append(erased, z) /\ heap' = heap /\ data' = data
  BY DEF Release
<1>2. /\ Fine(tree, S, {}, {}, pos) /\ S \subseteq Node /\ z \in Node \ S /\ used = Cardinality(S) + 1
      /\ heap = S \cup ToSet(erased) \cup {z} /\ S \cap ToSet(erased) = {} /\ Distinct(erased)
      /\ z \notin ToSet(erased)
      /\ \A m \in S : data[m] \in Key
  BY <1>1 DEF Held, Shape, Hands, Counted, Owned, Keyed, InHand
<1>3. erased \in Seq(Node) /\ Len(erased) <= MaxErased /\ data \in [Node -> Key \cup {0}] /\ heap \subseteq Node
      /\ MaxErased \in Nat
  BY MaxErasedAssumption DEF Typed
<1>4. Fine(tree', S, {}, {}, pos) /\ tree'.p[Nil] = Nil
  BY <1>2, ReleaseKeeps
<1>5. data' \in [Node -> Key \cup {0}] /\ \A m \in S : data'[m] = data[m]
  BY <1>1, <1>2, <1>3
<1>6. /\ erased' \in Seq(Node) /\ Len(erased') <= MaxErased /\ Distinct(erased')
      /\ heap' = S \cup ToSet(erased') /\ S \cap ToSet(erased') = {} /\ heap' \subseteq Node
  <2>1. CASE Len(erased) = MaxErased
    BY <1>1, <1>2, <1>3, <2>1
  <2>2. CASE Len(erased) # MaxErased
    <3>1. erased' = Append(erased, z) /\ heap' = heap
      BY <1>1, <2>2
    <3>2. /\ Append(erased, z) \in Seq(Node) /\ Len(Append(erased, z)) = Len(erased) + 1
          /\ Distinct(Append(erased, z)) /\ ToSet(Append(erased, z)) = ToSet(erased) \cup {z}
      BY <1>2, <1>3, ListGives
    <3>3. Len(erased) \in Nat
      BY <1>3
    <3>4. Len(erased') <= MaxErased
      BY <1>3, <2>2, <3>1, <3>2, <3>3
    <3>5. ToSet(erased') = ToSet(erased) \cup {z}
      BY <3>1, <3>2
    <3>. QED
      BY <1>2, <1>3, <3>1, <3>2, <3>4, <3>5
  <2>. QED
    BY <2>1, <2>2
<1>7. S \in SUBSET Node /\ Cardinality(S) \in Nat
  BY <1>2, SizeOfTree
<1>8. Typed'
  <2>1. Nil \in Ref
    BY NilIsNoNode
  <2>2. y \in Ref
    BY DEF Typed
  <2>3. used' \in Nat
    BY <1>1, <1>2, <1>7
  <2>. QED
    BY <1>1, <1>5, <1>6, <2>1, <2>2, <2>3 DEF Typed, Pcs
<1>9. Shape(S, pos)' /\ Hands(S)' /\ Keyed(S)'
  BY <1>1, <1>2, <1>4, <1>5 DEF Shape, Hands, Keyed
<1>10. Counted(S)'
  BY <1>1, <1>2, <1>7 DEF Counted
<1>11. Owned(S)'
  BY <1>1, <1>6 DEF Owned, InHand
<1>. QED
  BY <1>5, <1>8, <1>9, <1>10, <1>11 DEF Held

\* The empty tree.
LEMMA EmptyIs ==
  ASSUME NEW pos \in [Node -> Int]
  PROVE  Fine(Empty, {}, {}, {}, pos) /\ Empty.p[Nil] = Nil /\ Empty.root = Nil /\ Empty \in TreeType
<1>. DEFINE under == [r \in Ref |-> {}]
            h == [n \in Node |-> 0]
<1>1. Empty \in TreeType /\ Empty.root = Nil /\ Empty.p[Nil] = Nil /\ Empty.color[Nil] = "black"
  BY NilIsNoNode DEF Empty, TreeType, Color
<1>2. under \in [Ref -> SUBSET Node] /\ under[Nil] = {} /\ h \in [Node -> Nat]
  BY NilIsNoNode
<1>. HIDE DEF under, h
<1>3. Laid(Empty, {}, under, pos)
  BY <1>1, <1>2 DEF Laid
<1>4. Even(Empty, {}, {}, h)
  BY <1>2 DEF Even
<1>5. Reds(Empty, {}, {}, {})
  BY <1>1 DEF Reds
<1>6. Nil \in {} => Hole(Empty, {})
  OBVIOUS
<1>. QED
  BY <1>1, <1>3, <1>4, <1>5, <1>6, Zenon DEF Fine

\* No node has been taken, or all have been given back.
LEMMA StartStep ==
  ASSUME NEW pos \in [Node -> Int], pc = "idle", tree = Empty, data = [n \in Node |-> 0], used = 0,
         erased = <<>>, heap = {}, {z, x, y} \subseteq Ref
  PROVE  Typed /\ Held({}, pos)
<1>1. Fine(tree, {}, {}, {}, pos) /\ tree.p[Nil] = Nil
  BY EmptyIs
<1>2. erased \in Seq(Node) /\ Len(erased) = 0 /\ ToSet(erased) = {} /\ Distinct(erased)
  BY DEF ToSet, Distinct
<1>3. Typed
  BY <1>2, MaxErasedAssumption DEF Typed, Pcs
<1>4. Shape({}, pos) /\ Hands({}) /\ Keyed({})
  BY <1>1 DEF Shape, Hands, Keyed
<1>5. Cardinality({}) = 0
  BY FS_EmptySet
<1>6. Counted({})
  BY <1>5 DEF Counted
<1>7. Owned({})
  BY <1>2 DEF Owned, InHand
<1>. QED
  BY <1>3, <1>4, <1>6, <1>7 DEF Held

-----------------------------------------------------------------------------
(* The order of the keys.                                                  *)

\* Keys that compare as the numbers of a line.
Comparable(K) ==
  /\ \A a, b \in K : Less(a, b) => ~Less(b, a)
  /\ \A a, b, c \in K : Less(a, b) /\ ~Less(c, b) => Less(a, c)

\* The keys in use, of the elements and of the one that comes or goes.
KeysInUse == {data[n] : n \in Linked \cup InHand}

\* What operator< of timer needs: the deadlines of one moment compare so.
KeysCompare == Comparable(KeysInUse)

\* insert() compares the new key with those of the elements.
LEMMA InsertCompares ==
  ASSUME Typed, NEW S, NEW pos, Held(S, pos), pc = "descend", KeysCompare
  PROVE  \E K : Comparable(K) /\ (\A n \in S : data[n] \in K) /\ data[z] \in K
<1>1. Linked = S /\ z \in InHand
  BY LinkedNodes DEF InHand
<1>2. (\A n \in S : data[n] \in KeysInUse) /\ data[z] \in KeysInUse
  BY <1>1 DEF KeysInUse
<1>. QED
  BY <1>2 DEF KeysCompare

\* Two nodes are in two places.
LEMMA PlacesDiffer ==
  ASSUME NEW t \in TreeType, NEW S, NEW under, NEW pos, Laid(t, S, under, pos),
         NEW a \in S, NEW b \in S, a # b
  PROVE  pos[a] < pos[b] \/ pos[b] < pos[a]
<1>1. Both(t, S, under, pos, a, "left", "right", t.child["left"][a], t.child["right"][a])
  BY BothSides DEF Side, Other
<1>2. OneSide(S, under, pos, a)
  BY SubtreesAreConvex
<1>3. a \in under[a]
  BY <1>1 DEF Both
<1>4. CASE b \in under[a]
  BY <1>1, <1>4 DEF Both, Apart
<1>5. CASE b \notin under[a]
  BY <1>2, <1>3, <1>5 DEF OneSide, Apart
<1>. QED
  BY <1>4, <1>5

\* All nodes but those below b, where the search goes on, are on the side of a
\* where the key of v puts them.
SpotAt(S, under, pos, d, v, a, b) ==
  \A k \in S \ under[b] : k # a => (Less(d[v], d[k]) <=> pos[a] < pos[k])

\* Where insert() goes down, it leaves nodes on the right side.
LEMMA DescentKeeps ==
  ASSUME NEW t \in TreeType, NEW S, NEW under, NEW pos, Laid(t, S, under, pos), NEW d, NEW v,
         NEW K, Comparable(K), Ordered(S, pos, d), \A k \in S : d[k] \in K, d[v] \in K,
         NEW a, NEW b \in S, NEW s \in Side, NEW r \in Side,
         r = IF Less(d[v], d[b]) THEN "left" ELSE "right",
         a = Nil => b = t.root,
         a # Nil => /\ a \in S /\ b = t.child[s][a] /\ SpotAt(S, under, pos, d, v, a, b)
                    /\ s = IF Less(d[v], d[a]) THEN "left" ELSE "right"
  PROVE  SpotAt(S, under, pos, d, v, b, t.child[r][b])
<1>. DEFINE c == t.child[r][b]
            e == t.child[Other(r)][b]
<1>1. S \in SUBSET Node /\ pos \in [Node -> Int] /\ Nil \notin S
  BY NilIsNoNode DEF Laid
<1>2. Both(t, S, under, pos, b, r, Other(r), c, e)
  BY BothSides
<1>3. "left" \in Side /\ "right" \in Side /\ Other("left") = "right" /\ Other("right") = "left"
  BY DEF Side, Other
<1>. HIDE DEF c, e
<1>4. ASSUME NEW k \in S, k \in under[b], k \notin under[c], k # b
      PROVE  Less(d[v], d[k]) <=> pos[b] < pos[k]
  <2>1. k \in under[e]
    BY <1>2, <1>4, Zenon DEF Both
  <2>2. Apart(pos, Other(r), k, b) /\ pos[k] \in Int /\ pos[b] \in Int
    BY <1>1, <1>2, <2>1, Zenon DEF Both
  <2>3. d[k] \in K /\ d[b] \in K
    OBVIOUS
  <2>4. CASE Less(d[v], d[b])
    <3>1. Other(r) = "right"
      BY <1>3, <2>4
    <3>2. pos[b] < pos[k]
      BY <2>2, <3>1 DEF Apart
    <3>3. ~Less(d[k], d[b])
      BY <3>2 DEF Ordered
    <3>. QED
      BY <2>3, <2>4, <3>2, <3>3 DEF Comparable
  <2>5. CASE ~Less(d[v], d[b])
    <3>1. Other(r) = "left"
      BY <1>3, <2>5
    <3>2. pos[k] < pos[b]
      BY <2>2, <3>1 DEF Apart
    <3>3. ~Less(d[b], d[k])
      BY <3>2 DEF Ordered
    <3>4. ~Less(d[v], d[k])
      BY <2>3, <2>5, <3>3 DEF Comparable
    <3>. QED
      BY <2>2, <3>2, <3>4
  <2>. QED
    BY <2>4, <2>5, SMTT(30)
<1>5. ASSUME NEW k \in S, k \notin under[b]
      PROVE  Less(d[v], d[k]) <=> pos[b] < pos[k]
  <2>1. a # Nil
    <3>1. a = Nil => under[b] = S
      BY <1>1 DEF Laid
    <3>. QED
      BY <1>5, <3>1
  <2>2. a \in S /\ b = t.child[s][a]
    BY <2>1
  <2>. DEFINE f == t.child[Other(s)][a]
  <2>3. Both(t, S, under, pos, a, s, Other(s), b, f)
    BY <2>2, BothSides, SMTT(30)
  <2>. HIDE DEF f
  <2>4. b \in under[b] /\ b \in under[a] /\ a \in under[a] /\ under[a] = {a} \cup under[b] \cup under[f]
    BY <1>2, <2>3, Zenon DEF Both
  <2>5. pos[a] \in Int /\ pos[b] \in Int /\ pos[k] \in Int
    BY <1>1, <2>2
  <2>6. CASE k = a
    <3>1. Apart(pos, s, b, a)
      BY <2>3, <2>4 DEF Both
    <3>2. s = IF Less(d[v], d[a]) THEN "left" ELSE "right"
      BY <2>1
    <3>. QED
      BY <2>5, <2>6, <3>1, <3>2 DEF Apart
  <2>7. CASE k # a
    <3>1. Less(d[v], d[k]) <=> pos[a] < pos[k]
      BY <1>5, <2>1, <2>7 DEF SpotAt
    <3>2. pos[a] < pos[k] <=> pos[b] < pos[k]
      <4>1. CASE k \in under[a]
        <5>1. k \in under[f]
          BY <1>5, <2>4, <2>7, <4>1
        <5>2. Apart(pos, s, a, k) /\ Apart(pos, s, b, k)
          BY <2>3, <2>4, <5>1 DEF Both
        <5>. QED
          BY <2>5, <5>2 DEF Apart
      <4>2. CASE k \notin under[a]
        <5>1. PICK g \in Side : \A j \in under[a] : Apart(pos, g, j, k)
          BY <2>2, <4>2, SubtreesAreConvex DEF OneSide
        <5>2. Apart(pos, g, a, k) /\ Apart(pos, g, b, k)
          BY <2>4, <5>1
        <5>. QED
          BY <2>5, <5>2 DEF Apart
      <4>. QED
        BY <4>1, <4>2
    <3>. QED
      BY <3>1, <3>2
  <2>. QED
    BY <2>6, <2>7
<1>6. SpotAt(S, under, pos, d, v, b, c)
  BY <1>4, <1>5 DEF SpotAt
<1>. QED
  BY <1>6 DEF c

\* Where the new leaf n is: behind the nodes that are not greater, before the greater ones.
Placed(S, at, d, n) == \A k \in S : /\ Less(d[n], d[k]) <=> at[n] < at[k]
                                    /\ at[n] < at[k] \/ at[k] < at[n]

\* Where insert() arrives, the new element is behind all that are not greater.
LEMMA LeafIsPlaced ==
  ASSUME NEW t \in TreeType, NEW S, NEW under, NEW pos, Laid(t, S, under, pos), NEW d, NEW n \in Node \ S,
         NEW a, NEW s \in Side, a = Nil => S = {},
         a # Nil => /\ a \in S /\ SpotAt(S, under, pos, d, n, a, Nil)
                    /\ s = IF Less(d[n], d[a]) THEN "left" ELSE "right"
  PROVE  Placed(S, Spread(pos, n, a, s), d, n)
<1>. DEFINE at == Spread(pos, n, a, s)
<1>1. S \in SUBSET Node /\ pos \in [Node -> Int] /\ Nil \notin S /\ under[Nil] = {}
  BY NilIsNoNode DEF Laid
<1>2. ASSUME a # Nil, NEW k \in S
      PROVE  (Less(d[n], d[k]) <=> at[n] < at[k]) /\ (at[n] < at[k] \/ at[k] < at[n])
  <2>1. a \in S /\ a \in Node /\ a # n /\ k # n /\ k \in Node /\ n \in Node
    BY <1>1, <1>2
  <2>2. /\ at \in [Node -> Int]
        /\ k # a => /\ pos[a] < pos[k] => at[n] < at[k]
                    /\ pos[k] < pos[a] => at[k] < at[n]
        /\ s = "left" => at[n] < at[a]
        /\ s = "right" => at[a] < at[n]
    <3>1. /\ at \in [Node -> Int]
          /\ \A b \in Side : \A j \in Node \ {n, a} :
               a # Nil => /\ Apart(pos, b, a, j) => Apart(at, b, n, j)
                          /\ Apart(pos, b, j, a) => Apart(at, b, j, n)
          /\ a # Nil => Apart(at, s, n, a)
      BY <1>1, <2>1, SpreadIs
    <3>. HIDE DEF at
    <3>2. "left" \in Side /\ "left" # "right"
      BY DEF Side
    <3>. QED
      BY <1>2, <2>1, <3>1, <3>2 DEF Apart
  <2>. HIDE DEF at
  <2>3. at[n] \in Int /\ at[k] \in Int /\ at[a] \in Int
    BY <2>1, <2>2
  <2>4. CASE k = a
    <3>1. s = IF Less(d[n], d[a]) THEN "left" ELSE "right"
      BY <1>2
    <3>. QED
      BY <2>2, <2>3, <2>4, <3>1
  <2>5. CASE k # a
    <3>1. Less(d[n], d[k]) <=> pos[a] < pos[k]
      BY <1>1, <1>2, <2>5 DEF SpotAt
    <3>2. pos[a] < pos[k] \/ pos[k] < pos[a]
      BY <2>1, <2>5, PlacesDiffer
    <3>3. pos[a] \in Int /\ pos[k] \in Int
      BY <1>1, <2>1
    <3>. QED
      BY <2>2, <2>3, <2>5, <3>1, <3>2, <3>3
  <2>. QED
    BY <2>4, <2>5
<1>. HIDE DEF at
<1>3. Placed(S, at, d, n)
  BY <1>2 DEF Placed
<1>. QED
  BY <1>3 DEF at

\* With the new element the order of the elements is that of their keys.
LEMMA LinkOrders ==
  ASSUME NEW S \in SUBSET Node, NEW pos \in [Node -> Int], NEW d, NEW n \in Node \ S,
         NEW a \in (S \cup {Nil}) \ {n}, NEW s \in Side, NEW at, at = Spread(pos, n, a, s),
         NEW K, Comparable(K), Ordered(S, pos, d), \A k \in S : d[k] \in K, d[n] \in K, Placed(S, at, d, n)
  PROVE  /\ Ordered(S \cup {n}, at, d)
         /\ at \in [Node -> Int]
         /\ \A j, k \in S : at[j] < at[k] <=> pos[j] < pos[k]
<1>1. at \in [Node -> Int] /\ \A j, k \in Node \ {n} : at[j] < at[k] <=> pos[j] < pos[k]
  <2>. DEFINE w == Spread(pos, n, a, s)
  <2>1. w \in [Node -> Int] /\ \A b \in Side : \A j, k \in Node \ {n} : Apart(w, b, j, k) <=> Apart(pos, b, j, k)
    BY SpreadIs
  <2>. HIDE DEF w
  <2>2. "left" \in Side
    BY DEF Side
  <2>3. w \in [Node -> Int] /\ \A j, k \in Node \ {n} : w[j] < w[k] <=> pos[j] < pos[k]
    BY <2>1, <2>2 DEF Apart
  <2>4. at = w
    BY DEF w
  <2>. QED
    BY <2>3, <2>4
<1>2. Placed(S, at, d, n)
  OBVIOUS
<1>3. ASSUME NEW k \in S \cup {n}, NEW j \in S \cup {n}, at[k] < at[j]
      PROVE  ~Less(d[j], d[k])
  <2>1. k \in Node /\ j \in Node /\ at[k] \in Int /\ at[j] \in Int /\ n \in Node
    BY <1>1
  <2>2. CASE k \in S /\ j \in S
    BY <1>1, <1>3, <2>2 DEF Ordered
  <2>3. CASE k = n /\ j \in S
    <3>1. Less(d[n], d[j])
      BY <1>2, <1>3, <2>3 DEF Placed
    <3>. QED
      BY <2>3, <3>1 DEF Comparable
  <2>4. CASE k \in S /\ j = n
    <3>1. ~(at[n] < at[k])
      BY <1>3, <2>1, <2>4
    <3>. QED
      BY <1>2, <2>4, <3>1 DEF Placed
  <2>5. CASE k = n /\ j = n
    BY <1>3, <2>1, <2>5
  <2>. QED
    BY <2>2, <2>3, <2>4, <2>5
<1>4. \A j, k \in S : at[j] < at[k] <=> pos[j] < pos[k]
  BY <1>1
<1>. QED
  BY <1>1, <1>3, <1>4 DEF Ordered

-----------------------------------------------------------------------------
(* The theorems.                                                           *)

\* The elements are in the order of their keys, and insert() looks on the right side.
Sorted(S, pos) ==
  /\ Ordered(S, pos, data)
  /\ pc = "descend" /\ y # Nil =>
       \E under : Laid(tree, S, under, pos) /\ SpotAt(S, under, pos, data, z, y, x)

\* The invariant: the linked nodes have an order ...
Inv == Typed /\ \E S, pos : Held(S, pos)

\* ... which is that of the keys as long as they compare.
SortedInv == Typed /\ \E S, pos : Held(S, pos) /\ Sorted(S, pos)

\* What a step does to the elements: nothing, or one comes (where its key belongs, if C
\* says that the keys compare), or one goes, or all go.
Changes(C, S, pos, T, at) ==
  \/ T = S /\ at = pos /\ \A n \in S : data'[n] = data[n]
  \/ \E n \in Node \ S :
       /\ T = S \cup {n} /\ data' = data
       /\ \A j, k \in S : at[j] < at[k] <=> pos[j] < pos[k]
       /\ C => Placed(S, at, data, n)
  \/ \E n \in S : T = S \ {n} /\ at = pos /\ data' = data
  \/ T = {}

\* The order is one of the linked nodes.
LEMMA SameOrdered ==
  ASSUME NEW S, NEW pos, Ordered(S, pos, data), \A n \in S : data'[n] = data[n]
  PROVE  Ordered(S, pos, data')
BY DEF Ordered

\* A step that neither links nor takes out a node.
LEMMA StayStep ==
  ASSUME NEW C \in BOOLEAN, NEW S, NEW pos, C => Sorted(S, pos), \A n \in S : data'[n] = data[n],
         pc' # "descend" \/ y' = Nil
  PROVE  (C => Sorted(S, pos)') /\ Changes(C, S, pos, S, pos)
<1>1. C => Ordered(S, pos, data')
  BY SameOrdered DEF Sorted
<1>. QED
  BY <1>1 DEF Sorted, Changes

\* insert() goes down on the side where the key belongs.
LEMMA DescendSorts ==
  ASSUME NEW S, NEW pos, Typed, Held(S, pos), KeysCompare, Sorted(S, pos), Descend
  PROVE  Sorted(S, pos)'
<1>1. /\ pc = "descend" /\ y' = x /\ x' = tree.child[Towards(data[z], x)][x]
      /\ tree' = tree /\ data' = data /\ pc' = pc /\ z' = z
  BY DEF Descend
<1>2. x \in S
  BY DescendStep
<1>3. /\ Fine(tree, S, {}, {}, pos) /\ S \subseteq Node /\ z \in Node \ S
      /\ y = Nil => x = tree.root
      /\ y # Nil => y \in S /\ x = tree.child[Towards(data[z], y)][y]
      /\ \A n \in S : data[n] \in Key
      /\ data[z] \in Key
  BY <1>1 DEF Held, Shape, Hands, Keyed
<1>4. \E under : /\ Laid(tree, S, under, pos)
                 /\ y # Nil => SpotAt(S, under, pos, data, z, y, x)
  BY <1>1, <1>3 DEF Fine, Sorted
<1>5. PICK under : /\ Laid(tree, S, under, pos)
                   /\ y # Nil => SpotAt(S, under, pos, data, z, y, x)
  BY <1>4
<1>6. tree \in TreeType
  BY <1>3, FineIs
<1>7. Ordered(S, pos, data)
  BY DEF Sorted
<1>. DEFINE s == Towards(data[z], y)
            r == Towards(data[z], x)
<1>8. s \in Side /\ r \in Side
  BY TowardsIs
<1>9. s = (IF Less(data[z], data[y]) THEN "left" ELSE "right") /\ r = (IF Less(data[z], data[x]) THEN "left" ELSE "right")
  BY DEF Towards
<1>10. y # Nil => y \in S /\ x = tree.child[s][y]
  BY <1>3
<1>11. x' = tree.child[r][x]
  BY <1>1
<1>. HIDE DEF s, r
<1>12. SpotAt(S, under, pos, data, z, x, tree.child[r][x])
  <2>1. PICK K : Comparable(K) /\ (\A n \in S : data[n] \in K) /\ data[z] \in K
    BY <1>1, InsertCompares
  <2>. QED
    BY <1>2, <1>3, <1>5, <1>6, <1>7, <1>8, <1>9, <1>10, <2>1, DescentKeeps
<1>13. Laid(tree', S, under, pos) /\ SpotAt(S, under, pos, data', z', y', x')
  BY <1>1, <1>5, <1>11, <1>12
<1>14. Ordered(S, pos, data')
  BY <1>1, <1>7
<1>. QED
  BY <1>13, <1>14 DEF Sorted

\* insert() links the node where the key belongs.
LEMMA LinkSorts ==
  ASSUME NEW S, NEW pos, Typed, Held(S, pos), NEW C \in BOOLEAN, C => KeysCompare /\ Sorted(S, pos), Link,
         NEW T, T = S \cup {z}, NEW at, at = Spread(pos, z, y, Towards(data[z], y))
  PROVE  (C => Sorted(T, at)') /\ Changes(C, S, pos, T, at)
<1>1. pc = "descend" /\ x = Nil /\ pc' = "insert_fixup" /\ data' = data
  BY DEF Link
<1>2. /\ z \in Node \ S /\ y \in (S \cup {Nil}) \ {z} /\ (y = Nil => S = {})
      /\ pos \in [Node -> Int]
  BY LinkStep
<1>3. /\ Fine(tree, S, {}, {}, pos) /\ S \in SUBSET Node
      /\ \A n \in S : data[n] \in Key
      /\ data[z] \in Key
  BY <1>1 DEF Held, Shape, Hands, Keyed
<1>. DEFINE s == Towards(data[z], y)
<1>4. s \in Side /\ s = (IF Less(data[z], data[y]) THEN "left" ELSE "right") /\ at = Spread(pos, z, y, s)
  BY TowardsIs DEF Towards
<1>. HIDE DEF s
<1>5. C => Placed(S, at, data, z)
  <2>1. SUFFICES ASSUME C PROVE Placed(S, Spread(pos, z, y, s), data, z)
    BY <1>4
  <2>2. \E under : /\ Laid(tree, S, under, pos)
                   /\ y # Nil => SpotAt(S, under, pos, data, z, y, Nil)
    BY <1>1, <1>3, <2>1 DEF Fine, Sorted
  <2>3. PICK under : /\ Laid(tree, S, under, pos)
                     /\ y # Nil => SpotAt(S, under, pos, data, z, y, Nil)
    BY <2>2
  <2>4. tree \in TreeType
    BY <1>3, FineIs
  <2>5. y # Nil => y \in S
    BY <1>2
  <2>6. z \in Node \ S /\ s \in Side /\ s = IF Less(data[z], data[y]) THEN "left" ELSE "right"
    BY <1>2, <1>4
  <2>. QED
    BY <1>2, <2>3, <2>4, <2>5, <2>6, LeafIsPlaced
<1>6. \A j, k \in S : at[j] < at[k] <=> pos[j] < pos[k]
  <2>. DEFINE w == Spread(pos, z, y, s)
  <2>1. w \in [Node -> Int] /\ \A b \in Side : \A j, k \in Node \ {z} : Apart(w, b, j, k) <=> Apart(pos, b, j, k)
    <3>1. z \in Node /\ y \in Node \cup {Nil} /\ y # z
      BY <1>2, <1>3
    <3>. QED
      BY <1>2, <1>4, <3>1, SpreadIs, Zenon
  <2>. HIDE DEF w
  <2>2. \A j, k \in S : w[j] < w[k] <=> pos[j] < pos[k]
    BY <1>2, <1>3, <2>1 DEF Apart, Side
  <2>3. at = w
    BY <1>4 DEF w
  <2>. QED
    BY <2>2, <2>3
<1>7. C => Ordered(T, at, data')
  <2>1. SUFFICES ASSUME C PROVE Ordered(S \cup {z}, at, data)
    BY <1>1
  <2>2. Ordered(S, pos, data) /\ Placed(S, at, data, z)
    BY <1>5, <2>1 DEF Sorted
  <2>3. z \in Node \ S
    BY <1>2
  <2>4. PICK K : Comparable(K) /\ (\A n \in S : data[n] \in K) /\ data[z] \in K
    BY <1>1, <2>1, InsertCompares
  <2>. QED
    BY <1>2, <1>3, <1>4, <2>2, <2>3, <2>4, LinkOrders, Zenon
<1>8. Changes(C, S, pos, T, at)
  BY <1>1, <1>2, <1>5, <1>6 DEF Changes
<1>. QED
  BY <1>1, <1>7, <1>8 DEF Sorted

\* clear() gives every node back.
LEMMA ClearStep ==
  ASSUME NEW S, NEW pos, Typed, Held(S, pos), Clear
  PROVE  /\ Typed' /\ Held({}, pos)' /\ Sorted({}, pos)' /\ \A C \in BOOLEAN : Changes(C, S, pos, {}, pos)
<1>1. /\ pc = "idle" /\ pc' = "idle" /\ tree' = Empty /\ data' = [n \in Node |-> 0] /\ used' = 0
      /\ erased' = <<>> /\ heap' = heap \ (Linked \cup ToSet(erased)) /\ x' = x /\ y' = y /\ z' = z
  BY DEF Clear
<1>2. heap' = {}
  BY <1>1, AtRest
<1>3. pos \in [Node -> Int]
  BY LinkedNodes
<1>4. Fine(tree', {}, {}, {}, pos) /\ tree'.p[Nil] = Nil
  BY <1>1, <1>3, EmptyIs
<1>5. erased' \in Seq(Node) /\ Len(erased') = 0 /\ ToSet(erased') = {} /\ Distinct(erased')
  BY <1>1 DEF ToSet, Distinct
<1>6. Typed'
  <2>1. {z, x, y} \subseteq Ref
    BY DEF Typed
  <2>. QED
    BY <1>1, <1>2, <1>5, <2>1, MaxErasedAssumption DEF Typed, Pcs
<1>7. Shape({}, pos)' /\ Hands({})' /\ Keyed({})'
  BY <1>1, <1>4 DEF Shape, Hands, Keyed
<1>8. Cardinality({}) = 0
  BY FS_EmptySet
<1>9. Counted({})'
  BY <1>1, <1>8 DEF Counted
<1>10. Owned({})'
  BY <1>1, <1>2, <1>5 DEF Owned, InHand
<1>11. Sorted({}, pos)' /\ \A C \in BOOLEAN : Changes(C, S, pos, {}, pos)
  BY <1>1 DEF Sorted, Ordered, Changes
<1>. QED
  BY <1>6, <1>7, <1>9, <1>10, <1>11 DEF Held

\* Every step keeps the invariant, and does one of four things to the elements.
Goes(C, S, pos) ==
  Typed' /\ \E T, at : Held(T, at)' /\ (C => Sorted(T, at)') /\ Changes(C, S, pos, T, at)

\* The steps of the program do.
LEMMA StepGoes ==
  ASSUME NEW S, NEW pos, Typed, Held(S, pos), NEW C \in BOOLEAN, C => KeysCompare /\ Sorted(S, pos), [Next]_vars
  PROVE  Goes(C, S, pos)
<1>1. ASSUME NEW n \in Node, NEW k \in Key, Insert(n, k)
      PROVE  Goes(C, S, pos)
  <2>1. Typed' /\ Held(S, pos)' /\ n \notin S
    BY <1>1, InsertStep
  <2>2. y' = Nil /\ \A m \in S : data'[m] = data[m]
    <3>1. S \subseteq Node
      BY DEF Held, Hands
    <3>. QED
      BY <1>1, <2>1, <3>1 DEF Insert, Typed
  <2>3. (C => Sorted(S, pos)') /\ Changes(C, S, pos, S, pos)
    BY <2>2, StayStep
  <2>. QED
    BY <2>1, <2>3 DEF Goes
<1>2. ASSUME NEW n \in Node, Unlink(n)
      PROVE  Goes(C, S, pos)
  <2>1. \E T : T = S \ {n}
    BY Zenon
  <2>2. PICK T : T = S \ {n}
    BY <2>1
  <2>3. Typed' /\ Held(T, pos)' /\ data' = data /\ n \in S
    BY <1>2, <2>2, UnlinkStep
  <2>4. pc' # "descend"
    BY <1>2 DEF Unlink
  <2>5. (C => Sorted(T, pos)') /\ Changes(C, S, pos, T, pos)
    BY <2>2, <2>3, <2>4 DEF Sorted, Changes, Ordered
  <2>. QED
    BY <2>3, <2>5 DEF Goes
<1>3. ASSUME Clear
      PROVE  Goes(C, S, pos)
  BY <1>3, ClearStep DEF Goes
<1>4. ASSUME Descend
      PROVE  Goes(C, S, pos)
  <2>1. Typed' /\ Held(S, pos)'
    BY <1>4, DescendStep
  <2>2. C => Sorted(S, pos)'
    BY <1>4, DescendSorts
  <2>3. Changes(C, S, pos, S, pos)
    BY <1>4 DEF Descend, Changes
  <2>. QED
    BY <2>1, <2>2, <2>3 DEF Goes
<1>5. ASSUME Link
      PROVE  Goes(C, S, pos)
  <2>1. \E T, at : T = S \cup {z} /\ at = Spread(pos, z, y, Towards(data[z], y))
    BY Zenon
  <2>2. PICK T, at : T = S \cup {z} /\ at = Spread(pos, z, y, Towards(data[z], y))
    BY <2>1
  <2>3. Typed' /\ Held(T, at)'
    BY <1>5, <2>2, LinkStep
  <2>4. (C => Sorted(T, at)') /\ Changes(C, S, pos, T, at)
    BY <1>5, <2>2, LinkSorts
  <2>. QED
    BY <2>3, <2>4 DEF Goes
<1>6. ASSUME RedUncle \/ BlackUncle
      PROVE  Goes(C, S, pos)
  <2>1. Typed' /\ Held(S, pos)' /\ data' = data
    BY <1>6, InsertFixupStep, SMTT(30)
  <2>2. pc' # "descend"
    BY <1>6, Zenon DEF RedUncle, BlackUncle, InsertFixupGuard
  <2>3. (C => Sorted(S, pos)') /\ Changes(C, S, pos, S, pos)
    BY <2>1, <2>2, StayStep
  <2>. QED
    BY <2>1, <2>3 DEF Goes
<1>7. ASSUME InsertReturns
      PROVE  Goes(C, S, pos)
  <2>1. Typed' /\ Held(S, pos)' /\ data' = data
    BY <1>7, InsertReturnsStep
  <2>2. pc' # "descend"
    BY <1>7 DEF InsertReturns
  <2>3. (C => Sorted(S, pos)') /\ Changes(C, S, pos, S, pos)
    BY <2>1, <2>2, StayStep
  <2>. QED
    BY <2>1, <2>3 DEF Goes
<1>8. ASSUME SiblingTurnsRed \/ SiblingRotates \/ Recolored
      PROVE  Goes(C, S, pos)
  <2>1. Typed' /\ Held(S, pos)' /\ data' = data
    BY <1>8, DeleteFixupStep, SMTT(30)
  <2>2. pc' # "descend"
    BY <1>8, Zenon DEF SiblingTurnsRed, SiblingRotates, Recolored, DeleteFixupGuard
  <2>3. (C => Sorted(S, pos)') /\ Changes(C, S, pos, S, pos)
    BY <2>1, <2>2, StayStep
  <2>. QED
    BY <2>1, <2>3 DEF Goes
<1>9. ASSUME Release
      PROVE  Goes(C, S, pos)
  <2>1. Typed' /\ Held(S, pos)' /\ \A n \in S : data'[n] = data[n]
    BY <1>9, ReleaseStep
  <2>2. pc' # "descend"
    BY <1>9 DEF Release
  <2>3. (C => Sorted(S, pos)') /\ Changes(C, S, pos, S, pos)
    BY <2>1, <2>2, StayStep
  <2>. QED
    BY <2>1, <2>3 DEF Goes
<1>10. ASSUME UNCHANGED vars
       PROVE  Goes(C, S, pos)
  <2>1. Typed'
    BY <1>10 DEF vars, Typed
  <2>2. Held(S, pos)'
    BY <1>10 DEF vars, Held, Shape, Hands, Owned, Counted, Keyed, InHand, Towards
  <2>3. C => Sorted(S, pos)'
    BY <1>10 DEF vars, Sorted
  <2>4. Changes(C, S, pos, S, pos)
    BY <1>10 DEF vars, Changes
  <2>. QED
    BY <2>1, <2>2, <2>3, <2>4 DEF Goes
<1>. QED
  BY <1>1, <1>2, <1>3, <1>4, <1>5, <1>6, <1>7, <1>8, <1>9, <1>10 DEF Next, Step

\* The invariant at the beginning ...
LEMMA InitHolds == ASSUME Init PROVE Inv /\ SortedInv
<1>1. \E pos : pos \in [Node -> Int]
  <2>1. [n \in Node |-> 0] \in [Node -> Int]
    OBVIOUS
  <2>. QED
    BY <2>1, Zenon
<1>2. PICK pos : pos \in [Node -> Int]
  BY <1>1
<1>3. Typed /\ Held({}, pos)
  BY <1>2, StartStep, NilIsNoNode DEF Init
<1>4. Sorted({}, pos)
  BY DEF Init, Sorted, Ordered
<1>. QED
  BY <1>3, <1>4 DEF Inv, SortedInv

\* ... and after every step.
LEMMA InvKept == ASSUME Inv, [Next]_vars PROVE Inv'
<1>1. PICK S, pos : Held(S, pos)
  BY DEF Inv
<1>2. Goes(FALSE, S, pos)
  BY <1>1, StepGoes, Zenon DEF Inv
<1>. QED
  BY <1>2 DEF Goes, Inv

\* A step keeps the order of the keys.
LEMMA SortedKept == ASSUME SortedInv, KeysCompare, [Next]_vars PROVE SortedInv'
<1>1. PICK S, pos : Held(S, pos) /\ Sorted(S, pos)
  BY DEF SortedInv
<1>2. Goes(TRUE, S, pos)
  BY <1>1, StepGoes, Zenon DEF SortedInv
<1>. QED
  BY <1>2 DEF Goes, SortedInv

\* Theorem: in the middle of every call of insert() and erase() the linked nodes have
\* an order in which the tree, but for what the fixup that runs has still to repair, is a
\* red-black tree, and each node has one place, whatever the keys are.
THEOREM InvHolds == Spec => []Inv
<1>1. Init => Inv
  BY InitHolds
<1>2. Inv /\ [Next]_vars => Inv'
  BY InvKept
<1>. QED
  BY <1>1, <1>2, PTL DEF Spec

\* Theorem: while the keys in use compare as the numbers of a line, that order is the
\* order of the keys.
THEOREM SortedInvHolds == Spec /\ []KeysCompare => []SortedInv
<1>1. Init => SortedInv
  BY InitHolds
<1>2. SortedInv /\ KeysCompare /\ [Next]_vars => SortedInv'
  BY SortedKept
<1>. QED
  BY <1>1, <1>2, PTL DEF Spec

\* Theorem: the tree, its count and its free list keep their types.
THEOREM TypesHold == Spec => []TypeOK
<1>1. Inv => TypeOK
  BY TypeHolds DEF Inv
<1>. QED
  BY <1>1, InvHolds, PTL

\* Theorem: in the middle of every call of insert() and erase() the tree keeps the rules
\* that bound its height, up to what the fixup that runs has still to repair.
THEOREM TreeStaysBalanced == Spec => []RedBlackRules
<1>1. Inv => RedBlackRules
  BY RulesFollow DEF Inv
<1>. QED
  BY <1>1, InvHolds, PTL

\* Theorem: no node leaks, none is handed out or freed twice: malloc(), the free list
\* and free() of red_black_tree.
THEOREM NodesStayOwned == Spec => []NodesAreOwned
<1>1. Inv => NodesAreOwned
  BY OwnershipFollows DEF Inv
<1>. QED
  BY <1>1, InvHolds, PTL

\* Between two calls iterators and find() are exact.
LEMMA NavigationFollows ==
  ASSUME SortedInv
  PROVE  NavigationIsExact
<1>1. PICK S, pos : Held(S, pos) /\ Sorted(S, pos)
  BY DEF SortedInv
<1>2. SUFFICES ASSUME pc = "idle" PROVE NavigationIsExact
  BY DEF NavigationIsExact
<1>3. /\ Fine(tree, S, {}, {}, pos) /\ used = Cardinality(S) /\ \A n \in S : data[n] \in Key
      /\ tree \in TreeType
  BY <1>1, <1>2, AtRest DEF SortedInv
<1>4. PICK under : Laid(tree, S, under, pos)
  BY <1>3 DEF Fine
<1>5. Ordered(S, pos, data) /\ \A n \in S : data[n] \in Deadline
  BY <1>1, <1>3, KeysAre DEF Sorted
<1>. QED
  BY <1>3, <1>4, <1>5, NavigationHolds

\* Theorem: while the keys in use compare as the numbers of a line, the tree keeps its rules
\* in the middle of every call, its nodes are owned, and between two calls begin(), end(),
\* next(), previous() and find() are exact.
THEOREM TreeStaysSound == Spec /\ []KeysCompare => []TreeIsSound
<1>1. SortedInv => TreeIsSound
  BY RulesFollow, OwnershipFollows, NavigationFollows DEF SortedInv, TreeIsSound
<1>. QED
  BY <1>1, SortedInvHolds, PTL

-----------------------------------------------------------------------------
(* The elements, as a list.                                                *)

\* A sequence without one of its elements.
LEMMA RemoveAtIs ==
  ASSUME NEW A, NEW s \in Seq(A), NEW i \in 1 .. Len(s)
  PROVE  /\ RemoveAt(s, i) \in Seq(A) /\ Len(RemoveAt(s, i)) = Len(s) - 1
         /\ \A j \in 1 .. Len(s) - 1 : RemoveAt(s, i)[j] = IF j < i THEN s[j] ELSE s[j + 1]
<1>. DEFINE a == SubSeq(s, 1, i - 1)
            b == SubSeq(s, i + 1, Len(s))
<1>1. Len(s) \in Nat /\ i \in Nat /\ i - 1 \in Nat /\ i <= Len(s)
  OBVIOUS
<1>2. a \in Seq(A) /\ Len(a) = i - 1 /\ \A j \in 1 .. i - 1 : a[j] = s[j]
  <2>1. /\ SubSeq(s, 0 + 1, i - 1) \in Seq(A) /\ Len(SubSeq(s, 0 + 1, i - 1)) = (i - 1) - 0
        /\ \A j \in 1 .. (i - 1) - 0 : SubSeq(s, 0 + 1, i - 1)[j] = s[0 + j]
    <3>1. 0 \in Nat /\ 0 <= i - 1 /\ i - 1 <= Len(s)
      BY <1>1
    <3>. QED
      BY <1>1, <3>1, Stretch
  <2>2. 0 + 1 = 1 /\ (i - 1) - 0 = i - 1 /\ \A j \in 1 .. i - 1 : 0 + j = j
    BY <1>1
  <2>. QED
    BY <2>1, <2>2
<1>3. b \in Seq(A) /\ Len(b) = Len(s) - i /\ \A j \in 1 .. Len(s) - i : b[j] = s[i + j]
  BY <1>1, Stretch
<1>4. RemoveAt(s, i) = a \o b
  BY DEF RemoveAt
<1>. HIDE DEF a, b
<1>5. a \o b \in Seq(A) /\ Len(a \o b) = Len(s) - 1
  <2>1. a \o b \in Seq(A)
    BY <1>2, <1>3
  <2>2. Len(a \o b) = Len(a) + Len(b)
    <3>1. a \in Seq(A) /\ b \in Seq(A)
      BY <1>2, <1>3
    <3>. QED
      BY <3>1, ConcatProperties
  <2>. QED
    BY <1>1, <1>2, <1>3, <2>1, <2>2
<1>6. ASSUME NEW j \in 1 .. Len(s) - 1
      PROVE  (a \o b)[j] = IF j < i THEN s[j] ELSE s[j + 1]
  <2>1. CASE j < i
    <3>1. j \in 1 .. Len(a)
      BY <1>1, <1>2, <2>1
    <3>2. (a \o b)[j] = a[j]
      BY <1>2, <1>3, <3>1
    <3>3. a[j] = s[j]
      BY <1>2, <3>1
    <3>. QED
      BY <2>1, <3>2, <3>3
  <2>2. CASE ~(j < i)
    <3>1. j \in Len(a) + 1 .. Len(a) + Len(b) /\ j - Len(a) \in 1 .. Len(s) - i
      BY <1>1, <1>2, <1>3, <2>2
    <3>2. (a \o b)[j] = b[j - Len(a)]
      BY <1>2, <1>3, <3>1
    <3>3. b[j - Len(a)] = s[i + (j - Len(a))] /\ i + (j - Len(a)) = j + 1
      BY <1>1, <1>2, <1>3, <3>1
    <3>. QED
      BY <2>2, <3>2, <3>3
  <2>. QED
    BY <2>1, <2>2, Zenon
<1>. QED
  BY <1>4, <1>5, <1>6

\* A node and its key.
WithKeyed(d) == Node \X {d[n] : n \in Node}

\* The nodes of q, each with its key.
WithKeys(q, d) == [i \in 1 .. Len(q) |-> <<q[i], d[q[i]]>>]

\* The elements of that list.
LEMMA WithKeysIs ==
  ASSUME NEW q \in Seq(Node), NEW d
  PROVE  /\ WithKeys(q, d) \in Seq(WithKeyed(d))
         /\ Len(WithKeys(q, d)) = Len(q)
         /\ \A i \in 1 .. Len(q) : WithKeys(q, d)[i] = <<q[i], d[q[i]]>>
<1>1. Len(q) \in Nat /\ \A i \in 1 .. Len(q) : q[i] \in Node
  OBVIOUS
<1>. DEFINE E == WithKeyed(d)
<1>2. \A i \in 1 .. Len(q) : <<q[i], d[q[i]]>> \in E
  BY <1>1 DEF WithKeyed
<1>. HIDE DEF E
<1>3. WithKeys(q, d) \in [1 .. Len(q) -> E]
  BY <1>2 DEF WithKeys
<1>4. WithKeys(q, d) \in Seq(E) /\ Len(WithKeys(q, d)) = Len(q)
  BY <1>1, <1>3
<1>. QED
  BY <1>4 DEF WithKeys, E

\* Without the i-th node.
LEMMA WithKeysDrops ==
  ASSUME NEW q \in Seq(Node), NEW d, NEW i \in 1 .. Len(q)
  PROVE  WithKeys(RemoveAt(q, i), d) = RemoveAt(WithKeys(q, d), i)
<1>. DEFINE r == RemoveAt(q, i)
            e == WithKeys(q, d)
            f == RemoveAt(e, i)
            E == WithKeyed(d)
<1>1. /\ r \in Seq(Node) /\ Len(r) = Len(q) - 1
      /\ \A j \in 1 .. Len(q) - 1 : r[j] = IF j < i THEN q[j] ELSE q[j + 1]
  BY RemoveAtIs
<1>2. e \in Seq(E) /\ Len(e) = Len(q) /\ \A j \in 1 .. Len(q) : e[j] = <<q[j], d[q[j]]>>
  BY WithKeysIs
<1>. HIDE DEF e, E
<1>3. /\ f \in Seq(E) /\ Len(f) = Len(q) - 1
      /\ \A j \in 1 .. Len(q) - 1 : f[j] = IF j < i THEN e[j] ELSE e[j + 1]
  BY <1>2, RemoveAtIs
<1>. HIDE DEF r, f
<1>4. WithKeys(r, d) \in Seq(E) /\ Len(WithKeys(r, d)) = Len(r) /\ \A j \in 1 .. Len(r) : WithKeys(r, d)[j] = <<r[j], d[r[j]]>>
  BY <1>1, WithKeysIs DEF E
<1>5. ASSUME NEW j \in 1 .. Len(q) - 1
      PROVE  WithKeys(r, d)[j] = f[j]
  <2>1. j \in 1 .. Len(r) /\ j \in 1 .. Len(q) /\ j + 1 \in 1 .. Len(q)
    BY <1>1
  <2>2. WithKeys(r, d)[j] = <<r[j], d[r[j]]>>
    BY <1>4, <2>1
  <2>3. CASE j < i
    BY <1>1, <1>2, <1>3, <2>1, <2>2, <2>3, Zenon
  <2>4. CASE ~(j < i)
    BY <1>1, <1>2, <1>3, <2>1, <2>2, <2>4, Zenon
  <2>. QED
    BY <2>3, <2>4
<1>. QED
  <2>1. Len(WithKeys(r, d)) = Len(q) - 1 /\ Len(f) = Len(q) - 1 /\ Len(q) \in Nat
    BY <1>1, <1>3, <1>4
  <2>. QED
    BY <1>3, <1>4, <1>5, <2>1 DEF f, e, r

\* Without one of the nodes listed.
LEMMA ListsWithout ==
  ASSUME NEW pos \in [Node -> Int], NEW A \in SUBSET Node, NEW q, Lists(q, A, pos), NEW i \in 1 .. Len(q)
  PROVE  Lists(RemoveAt(q, i), A \ {q[i]}, pos)
<1>. DEFINE r == RemoveAt(q, i)
<1>1. q \in Seq(Node) /\ Len(q) \in Nat
  BY DEF Lists
<1>2. /\ r \in Seq(Node) /\ Len(r) = Len(q) - 1
      /\ \A j \in 1 .. Len(q) - 1 : r[j] = IF j < i THEN q[j] ELSE q[j + 1]
  BY <1>1, RemoveAtIs, Zenon
<1>. HIDE DEF r
<1>. DEFINE skip(j) == IF j < i THEN j ELSE j + 1
<1>3. \A j \in 1 .. Len(r) : skip(j) \in 1 .. Len(q) /\ skip(j) # i /\ r[j] = q[skip(j)]
  <2>1. ASSUME NEW j \in 1 .. Len(r)
        PROVE  skip(j) \in 1 .. Len(q) /\ skip(j) # i /\ r[j] = q[skip(j)]
    <3>1. j \in 1 .. Len(q) - 1
      BY <1>2
    <3>2. r[j] = q[skip(j)]
      BY <1>2, <3>1, Zenon
    <3>3. skip(j) \in 1 .. Len(q) /\ skip(j) # i
      BY <1>1, <3>1
    <3>. QED
      BY <3>2, <3>3
  <2>. HIDE DEF skip
  <2>. QED
    BY <2>1
<1>4. \A j \in 1 .. Len(r), k \in 1 .. Len(r) : j < k => skip(j) < skip(k)
  <2>1. \A j, k \in Int : j < k => skip(j) < skip(k)
    <3>1. i \in Int
      BY <1>1
    <3>. QED
      BY <3>1
  <2>. HIDE DEF skip
  <2>. QED
    BY <2>1
<1>5. \A k \in 1 .. Len(q) : k # i => \E j \in 1 .. Len(r) : skip(j) = k
  <2>1. ASSUME NEW k \in 1 .. Len(q), k # i
        PROVE  \E j \in 1 .. Len(r) : skip(j) = k
    <3>1. CASE k < i
      <4>1. k \in 1 .. Len(r) /\ skip(k) = k
        BY <1>1, <1>2, <3>1
      <4>. QED
        BY <4>1
    <3>2. CASE ~(k < i)
      <4>1. k - 1 \in 1 .. Len(r) /\ skip(k - 1) = k
        BY <1>1, <1>2, <2>1, <3>2, SMTT(30)
      <4>. QED
        BY <4>1
    <3>. QED
      BY <3>1, <3>2
  <2>. QED
    BY <2>1
<1>. HIDE DEF skip
<1>6. ASSUME NEW k \in 1 .. Len(q), k # i
      PROVE  q[k] # q[i]
  <2>1. k < i \/ i < k
    BY <1>6
  <2>2. pos[q[k]] < pos[q[i]] \/ pos[q[i]] < pos[q[k]]
    BY <2>1 DEF Lists
  <2>3. q[k] \in Node /\ pos[q[k]] \in Int
    BY <1>1
  <2>. QED
    BY <2>2, <2>3
<1>7. \A j \in 1 .. Len(r) : r[j] \in A \ {q[i]}
  <2>1. ASSUME NEW j \in 1 .. Len(r)
        PROVE  r[j] \in A \ {q[i]}
    <3>1. skip(j) \in 1 .. Len(q) /\ skip(j) # i /\ r[j] = q[skip(j)]
      BY <1>3
    <3>2. q[skip(j)] # q[i]
      BY <1>6, <3>1
    <3>3. q[skip(j)] \in A
      BY <3>1 DEF Lists
    <3>. QED
      BY <3>1, <3>2, <3>3
  <2>. QED
    BY <2>1
<1>8. \A a \in A \ {q[i]} : \E j \in 1 .. Len(r) : r[j] = a
  <2>1. ASSUME NEW a \in A \ {q[i]}
        PROVE  \E j \in 1 .. Len(r) : r[j] = a
    <3>1. PICK k \in 1 .. Len(q) : q[k] = a
      BY DEF Lists
    <3>2. k # i
      BY <3>1
    <3>3. PICK j \in 1 .. Len(r) : skip(j) = k
      BY <1>5, <3>2
    <3>. QED
      BY <1>3, <3>1, <3>3
  <2>. QED
    BY <2>1
<1>9. ASSUME NEW j \in 1 .. Len(r), NEW k \in 1 .. Len(r), j < k
      PROVE  pos[r[j]] < pos[r[k]]
  <2>1. skip(j) < skip(k) /\ skip(j) \in 1 .. Len(q) /\ skip(k) \in 1 .. Len(q)
    BY <1>3, <1>4, <1>9
  <2>2. pos[q[skip(j)]] < pos[q[skip(k)]]
    BY <2>1, Zenon DEF Lists
  <2>. QED
    BY <1>3, <2>2, Zenon
<1>10. Lists(r, A \ {q[i]}, pos)
  BY <1>2, <1>7, <1>8, <1>9, Zenon DEF Lists
<1>. QED
  BY <1>10 DEF r

\* A new node where its key belongs.
LEMMA ListTakesOne ==
  ASSUME NEW S \in SUBSET Node, NEW pos \in [Node -> Int], NEW at \in [Node -> Int], NEW n \in Node \ S,
         NEW d, NEW q, NEW r, Lists(q, S, pos), Lists(r, S \cup {n}, at),
         \A j, k \in S : at[j] < at[k] <=> pos[j] < pos[k], Placed(S, at, d, n)
  PROVE  List!Inserted(WithKeys(q, d), WithKeys(r, d))
<1>1. q \in Seq(Node) /\ r \in Seq(Node) /\ Len(r) \in Nat
  BY DEF Lists
<1>2. PICK i \in 1 .. Len(r) : r[i] = n
  BY DEF Lists
<1>3. Lists(RemoveAt(r, i), S, at)
  <2>1. (S \cup {n}) \ {r[i]} = S
    BY <1>2
  <2>2. S \cup {n} \in SUBSET Node
    OBVIOUS
  <2>3. Lists(RemoveAt(r, i), (S \cup {n}) \ {r[i]}, at)
    BY <2>2, ListsWithout
  <2>. QED
    BY <2>1, <2>3, Zenon
<1>4. Lists(q, S, at)
  BY Zenon DEF Lists
<1>5. q = RemoveAt(r, i)
  BY <1>3, <1>4, ListsOnce
<1>. DEFINE a == WithKeys(q, d)
            b == WithKeys(r, d)
<1>6. a = RemoveAt(b, i)
  BY <1>1, <1>5, WithKeysDrops
<1>7. Len(a) = Len(q) /\ \A j \in 1 .. Len(q) : a[j] = <<q[j], d[q[j]]>>
  BY <1>1, WithKeysIs, Zenon
<1>8. Len(b) = Len(r) /\ DOMAIN b = 1 .. Len(r) /\ \A j \in 1 .. Len(r) : b[j] = <<r[j], d[r[j]]>>
  BY <1>1, WithKeysIs DEF WithKeys
<1>9. Len(q) = Len(r) - 1
  BY <1>1, <1>5, RemoveAtIs, Zenon
<1>10. DOMAIN a = 1 .. Len(q)
  BY DEF WithKeys
<1>. HIDE DEF a, b
<1>11. b[i][1] \notin {e[1] : e \in ToSet(a)}
  <2>1. ASSUME NEW j \in 1 .. Len(q)
        PROVE  a[j][1] # n
    <3>1. q[j] \in S
      BY DEF Lists
    <3>. QED
      BY <1>7, <3>1
  <2>2. b[i][1] = n
    BY <1>2, <1>8
  <2>. QED
    BY <1>10, <2>1, <2>2 DEF ToSet
<1>12. ASSUME NEW j \in 1 .. Len(r), j # i
       PROVE  r[j] \in S /\ (Less(d[n], d[r[j]]) <=> i < j)
  <2>1. j < i \/ i < j
    BY <1>12
  <2>2. (j < i => at[r[j]] < at[n]) /\ (i < j => at[n] < at[r[j]])
    BY <1>2, Zenon DEF Lists
  <2>3. r[j] \in S \cup {n}
    BY Zenon DEF Lists
  <2>4. at[r[j]] \in Int /\ at[n] \in Int
    BY <2>3
  <2>5. r[j] \in S
    BY <2>1, <2>2, <2>3, <2>4
  <2>6. at[n] < at[r[j]] <=> i < j
    BY <2>1, <2>2, <2>4
  <2>. QED
    BY <2>5, <2>6 DEF Placed
<1>13. b[i][2] = d[n] /\ \A j \in 1 .. Len(r) : b[j][2] = d[r[j]]
  BY <1>2, <1>8
<1>14. ASSUME NEW j \in 1 .. i - 1
       PROVE  ~Less(b[i][2], b[j][2])
  <2>1. j \in 1 .. Len(r) /\ j # i /\ ~(i < j)
    BY <1>1
  <2>. QED
    BY <1>12, <1>13, <2>1
<1>15. ASSUME NEW j \in i + 1 .. Len(b)
       PROVE  Less(b[i][2], b[j][2])
  <2>1. j \in 1 .. Len(r) /\ j # i /\ i < j
    BY <1>1, <1>8
  <2>. QED
    BY <1>12, <1>13, <2>1
<1>16. Len(b) = Len(a) + 1 /\ i \in DOMAIN b
  BY <1>1, <1>7, <1>8, <1>9
<1>17. List!Inserted(a, b)
  <2>1. a = List!RemoveAt(b, i)
    BY <1>6 DEF RemoveAt, List!RemoveAt
  <2>2. b[i][1] \notin List!Addresses(a)
    BY <1>11 DEF List!Addresses, List!ToSet, ToSet
  <2>. QED
    BY <1>14, <1>15, <1>16, <2>1, <2>2 DEF List!Inserted
<1>. QED
  BY <1>17 DEF a, b

\* A node goes.
LEMMA ListGivesOne ==
  ASSUME NEW S \in SUBSET Node, NEW pos \in [Node -> Int], NEW n \in S,
         NEW d, NEW q, NEW r, Lists(q, S, pos), Lists(r, S \ {n}, pos)
  PROVE  List!Removed(WithKeys(q, d), WithKeys(r, d))
<1>1. q \in Seq(Node) /\ r \in Seq(Node) /\ Len(q) \in Nat
  BY DEF Lists
<1>2. PICK i \in 1 .. Len(q) : q[i] = n
  BY DEF Lists
<1>3. Lists(RemoveAt(q, i), S \ {n}, pos)
  BY <1>2, ListsWithout
<1>4. r = RemoveAt(q, i)
  <2>1. S \ {n} \in SUBSET Node
    OBVIOUS
  <2>. QED
    BY <1>3, <2>1, ListsOnce
<1>. DEFINE a == WithKeys(q, d)
            b == WithKeys(r, d)
<1>5. b = RemoveAt(a, i)
  BY <1>1, <1>4, WithKeysDrops
<1>6. Len(a) = Len(q) /\ DOMAIN a = 1 .. Len(q)
  BY <1>1, WithKeysIs DEF WithKeys
<1>7. Len(b) = Len(r) /\ Len(r) = Len(q) - 1
  BY <1>1, <1>4, WithKeysIs, RemoveAtIs
<1>. HIDE DEF a, b
<1>8. List!Removed(a, b)
  <2>1. b = List!RemoveAt(a, i)
    BY <1>5 DEF RemoveAt, List!RemoveAt
  <2>. QED
    BY <1>6, <1>7, <2>1 DEF List!Removed
<1>. QED
  BY <1>8 DEF a, b

\* The elements before a step ...
LEMMA ElementsAre ==
  ASSUME Typed, NEW S, NEW pos, Held(S, pos)
  PROVE  Elements = WithKeys(InOrder, data) /\ Lists(InOrder, S, pos)
BY LinkedNodes DEF Elements, WithKeys

\* The same after a step.
LEMMA ElementsBecome ==
  ASSUME Typed', NEW S, NEW pos, Held(S, pos)'
  PROVE  Elements' = WithKeys(InOrder', data') /\ Lists(InOrder', S, pos) /\ S \in SUBSET Node /\ pos \in [Node -> Int]
<1>. DEFINE X == IF pc' = "delete_fixup" THEN {x'} ELSE {}
            Z == IF pc' = "insert_fixup" THEN {z'} ELSE {}
<1>1. Fine(tree', S, X, Z, pos)
  BY DEF Typed, Pcs, Held, Shape, Inserting
<1>. HIDE DEF X, Z
<1>2. PICK under, h : Laid(tree', S, under, pos) /\ Even(tree', S, X, h) /\ Reds(tree', S, X, Z)
  BY <1>1 DEF Fine
<1>3. tree' \in TreeType
  BY <1>1, FineIs
<1>4. Lists(InOrderFrom(tree', tree'.root, Cardinality(Node)), S, pos)
  BY <1>2, <1>3, InOrderIs
<1>5. S \in SUBSET Node /\ pos \in [Node -> Int]
  BY <1>2 DEF Laid
<1>. QED
  BY <1>4, <1>5 DEF InOrder, Elements, WithKeys

\* A step of the tree is a step of the list, or none.
LEMMA StepOfList ==
  ASSUME KeysCompare, SortedInv, [Next]_vars
  PROVE  List!ListNext \/ Elements' = Elements
<1>1. PICK S, pos : Held(S, pos) /\ Sorted(S, pos)
  BY DEF SortedInv
<1>2. Typed
  BY DEF SortedInv
<1>3. Goes(TRUE, S, pos)
  BY <1>1, <1>2, StepGoes, Zenon
<1>4. PICK T, at : Held(T, at)' /\ Changes(TRUE, S, pos, T, at)
  BY <1>3, Zenon DEF Goes
<1>5. Elements = WithKeys(InOrder, data) /\ Lists(InOrder, S, pos)
  BY <1>1, <1>2, ElementsAre
<1>6. Elements' = WithKeys(InOrder', data') /\ Lists(InOrder', T, at) /\ T \in SUBSET Node /\ at \in [Node -> Int]
  BY <1>3, <1>4, ElementsBecome DEF Goes
<1>7. /\ S \in SUBSET Node /\ pos \in [Node -> Int]
  BY <1>1, <1>2, LinkedNodes
<1>8. T \in SUBSET Node /\ at \in [Node -> Int]
  BY <1>6
<1>9. CASE T = S /\ at = pos /\ \A n \in S : data'[n] = data[n]
  <2>1. InOrder' = InOrder
    BY <1>5, <1>6, <1>7, <1>9, ListsOnce
  <2>2. \A i \in 1 .. Len(InOrder) : InOrder[i] \in S
    BY <1>5 DEF Lists
  <2>3. WithKeys(InOrder, data') = WithKeys(InOrder, data)
    BY <1>9, <2>2 DEF WithKeys
  <2>. QED
    BY <1>5, <1>6, <2>1, <2>3
<1>10. ASSUME NEW n \in Node \ S, T = S \cup {n}, data' = data, Placed(S, at, data, n),
              \A j, k \in S : at[j] < at[k] <=> pos[j] < pos[k]
       PROVE  List!Inserted(Elements, Elements')
  <2>1. Lists(InOrder', S \cup {n}, at)
    BY <1>6, <1>10
  <2>2. List!Inserted(WithKeys(InOrder, data), WithKeys(InOrder', data))
    BY <1>5, <1>7, <1>8, <1>10, <2>1, ListTakesOne
  <2>. QED
    BY <1>5, <1>6, <1>10, <2>2
<1>11. ASSUME NEW n \in S, T = S \ {n}, at = pos, data' = data
       PROVE  List!Removed(Elements, Elements')
  <2>1. Lists(InOrder', S \ {n}, pos)
    BY <1>6, <1>11
  <2>2. List!Removed(WithKeys(InOrder, data), WithKeys(InOrder', data))
    BY <1>5, <1>7, <2>1, ListGivesOne
  <2>. QED
    BY <1>5, <1>6, <1>11, <2>2
<1>12. CASE T = {}
  <2>1. Len(InOrder') = 0
    <3>1. InOrder' \in Seq(Node) /\ Len(InOrder') \in Nat
      BY <1>6 DEF Lists
    <3>2. ~(1 \in 1 .. Len(InOrder'))
      BY <1>6, <1>12 DEF Lists
    <3>. QED
      BY <3>1, <3>2
  <2>2. Elements' = <<>>
    BY <1>6, <2>1 DEF WithKeys
  <2>. QED
    BY <2>2 DEF List!ListNext
<1>. QED
  BY <1>4, <1>9, <1>10, <1>11, <1>12 DEF Changes, List!ListNext

\* The list is empty at the beginning.
LEMMA StartOfList ==
  ASSUME Init
  PROVE  List!ListInit
<1>1. PICK pos : pos \in [Node -> Int]
  <2>1. [n \in Node |-> 0] \in [Node -> Int]
    OBVIOUS
  <2>. QED
    BY <2>1, Zenon
<1>2. Typed /\ Held({}, pos)
  BY <1>1, StartStep, NilIsNoNode DEF Init
<1>3. Elements = WithKeys(InOrder, data) /\ Lists(InOrder, {}, pos)
  BY <1>2, ElementsAre
<1>4. InOrder \in Seq(Node) /\ Len(InOrder) \in Nat
  BY <1>3 DEF Lists
<1>5. ~(1 \in 1 .. Len(InOrder))
  BY <1>3 DEF Lists
<1>6. Len(InOrder) = 0
  BY <1>4, <1>5
<1>. QED
  BY <1>3, <1>6 DEF WithKeys, List!ListInit

\* Theorem: while the keys in use compare as the numbers of a line, what the users of the tree
\* see is a list in the order of the keys, in which insert() puts a new element behind the
\* equal ones at once, erase() takes one out, and nothing else changes anything.
THEOREM TreeImplementsList == Spec /\ []KeysCompare => ImplementsList
<1>1. Init => List!ListInit
  BY StartOfList
<1>2. SortedInv /\ KeysCompare /\ [Next]_vars => [List!ListNext]_Elements
  BY StepOfList
<1>. QED
  BY <1>1, <1>2, SortedInvHolds, PTL DEF Spec, ImplementsList, List!ListSpec

\* Deadlines that are less than half of their range apart, wherever in the range.
KeysAreNear == \E b \in Deadline : \A k \in KeysInUse : (k - b) % Modulus < Modulus \div 2

\* Such deadlines compare as the numbers of a line.
LEMMA NearCompares ==
  ASSUME Inv, KeysAreNear
  PROVE  KeysCompare
<1>0. PICK b \in Deadline : \A k \in KeysInUse : (k - b) % Modulus < Modulus \div 2
  BY DEF KeysAreNear
<1>. DEFINE o(k) == IF k >= b THEN k - b ELSE k - b + Modulus
<1>9. \A k \in KeysInUse : k \in Deadline
  <2>1. PICK S, pos : Held(S, pos)
    BY DEF Inv
  <2>2. Linked = S /\ S \in SUBSET Node
    BY <2>1, LinkedNodes DEF Inv
  <2>3. InHand \subseteq Node
    BY <2>1 DEF InHand, Held, Hands
  <2>4. \A n \in Node : data[n] \in Deadline
    BY KeysAre DEF Inv, Typed
  <2>. QED
    BY <2>2, <2>3, <2>4 DEF KeysInUse
<1>1. Modulus \in Nat /\ Modulus >= 2
  BY ModulusAssumption
<1>2. \E half \in Int : half = Modulus \div 2
  BY <1>1
<1>3. PICK half \in Int : half = Modulus \div 2
  BY <1>2
<1>4. half >= 1 /\ 2 * half <= Modulus
  BY <1>1, <1>3
<1>5. ASSUME NEW k \in KeysInUse
      PROVE  o(k) \in Int /\ 0 <= o(k) /\ o(k) < half /\ k \in Int /\ 0 <= k /\ k < Modulus
  <2>1. k \in Int /\ 0 <= k /\ k < Modulus /\ b \in Int /\ 0 <= b /\ b < Modulus
    BY <1>1, <1>9 DEF Deadline
  <2>2. ASSUME k >= b
        PROVE  (k - b) % Modulus = k - b
    BY <1>1, <2>1, <2>2
  <2>3. ASSUME k < b
        PROVE  (k - b) % Modulus = k - b + Modulus
    BY <1>1, <2>1, <2>3
  <2>4. (k - b) % Modulus = o(k)
    BY <2>1, <2>2, <2>3
  <2>5. (k - b) % Modulus < half
    BY <1>0, <1>3
  <2>6. o(k) < half
    BY <2>4, <2>5
  <2>. QED
    BY <1>1, <2>1, <2>6
<1>6. ASSUME NEW a \in KeysInUse, NEW c \in KeysInUse
      PROVE  Less(a, c) <=> o(a) < o(c)
  <2>1. /\ a \in Int /\ 0 <= a /\ a < Modulus /\ c \in Int /\ 0 <= c /\ c < Modulus
        /\ b \in Int /\ o(a) \in Int /\ o(c) \in Int /\ 0 <= o(a) /\ o(a) < half /\ 0 <= o(c) /\ o(c) < half
    BY <1>1, <1>5 DEF Deadline
  <2>2. ASSUME a >= c
        PROVE  (a - c) % Modulus = a - c
    BY <1>1, <2>1, <2>2
  <2>3. ASSUME a < c
        PROVE  (a - c) % Modulus = a - c + Modulus
    BY <1>1, <2>1, <2>3
  <2>4. Less(a, c) <=> (a - c) % Modulus >= half
    BY <1>3 DEF Less
  <2>5. CASE a >= c
    BY <1>1, <1>4, <2>1, <2>2, <2>4, <2>5
  <2>6. CASE a < c
    BY <1>1, <1>4, <2>1, <2>3, <2>4, <2>6
  <2>. QED
    BY <2>1, <2>5, <2>6
<1>7. ASSUME NEW a \in KeysInUse, NEW c \in KeysInUse, Less(a, c)
      PROVE  ~Less(c, a)
  <2>1. o(a) < o(c) /\ ~(o(c) < o(a))
    <3>1. o(a) \in Int /\ o(c) \in Int /\ o(a) < o(c)
      BY <1>5, <1>6, <1>7
    <3>. HIDE DEF o
    <3>. QED
      BY <3>1
  <2>. QED
    BY <1>6, <2>1
<1>8. ASSUME NEW a \in KeysInUse, NEW c \in KeysInUse, NEW e \in KeysInUse, Less(a, c), ~Less(e, c)
      PROVE  Less(a, e)
  <2>1. o(a) < o(c) /\ ~(o(e) < o(c))
    BY <1>6, <1>8
  <2>2. o(a) \in Int /\ o(c) \in Int /\ o(e) \in Int
    BY <1>5
  <2>3. o(a) < o(e)
    <3>. HIDE DEF o
    <3>. QED
      BY <2>1, <2>2
  <2>. QED
    BY <1>6, <2>3
<1>. QED
  BY <1>7, <1>8 DEF KeysCompare, Comparable

\* Theorem: such deadlines compare as the numbers of a line, on both sides of the wrap
\* too: tcp_server and tcp_connection add one idle time to the clock.
THEOREM NearKeysCompare == Spec /\ []KeysAreNear => []KeysCompare
<1>1. Inv /\ KeysAreNear => KeysCompare
  BY NearCompares
<1>. QED
  BY <1>1, InvHolds, PTL
=============================================================================
