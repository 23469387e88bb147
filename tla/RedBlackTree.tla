---------------------------- MODULE RedBlackTree ----------------------------
(***************************************************************************)
(* util::red_black_tree, the tree behind the timer queue, ordered as       *)
(* timer::timer orders deadlines.  One action is one turn of a loop of     *)
(* insert(), insert_fixup(), erase() or delete_fixup(), or the straight    *)
(* code between two loops.  Each pair of mirrored branches of the code is  *)
(* one action with a Side.                                                 *)
(***************************************************************************)
EXTENDS Integers, FiniteSets, SequencesExt

CONSTANTS Node,       \* addresses malloc() can return
          Nil,        \* _M_nil
          Modulus,    \* 2^32: deadlines are unsigned milliseconds
          Holds,      \* the keys the element at an address may be given
          MaxErased   \* MAX_ERASED_NODES

ASSUME NodeAssumption == IsFiniteSet(Node)
ASSUME NilAssumption == Nil \notin Node
ASSUME ModulusAssumption == Modulus \in Nat \ {0, 1}
ASSUME HoldsAssumption == Holds \in [Node -> SUBSET (0 .. Modulus - 1)]
ASSUME MaxErasedAssumption == MaxErased \in Nat

Ref == Node \cup {Nil}
Side == {"left", "right"}
Other(s) == IF s = "left" THEN "right" ELSE "left"
Color == {"red", "black"}
Key == UNION {Holds[n] : n \in Node}

\* operator< and operator- of timer: the sign of a 32-bit difference.
Less(a, b) == (a - b) % Modulus >= Modulus \div 2
Same(a, b) == (a - b) % Modulus = 0

VARIABLES tree,    \* _M_root, and left, right, p and color of the nodes and of _M_nil
          data,    \* data of the nodes
          used,    \* _M_used
          erased,  \* _M_erased, of length _M_nerased
          heap,    \* the addresses in use: returned by malloc() and not freed
          pc,      \* the loop that runs, "idle" between two calls
          z, x, y  \* the locals of these names

vars == <<tree, data, used, erased, heap, pc, z, x, y>>

Empty == [root |-> Nil,
          child |-> [s \in Side |-> [n \in Node |-> Nil]],
          p |-> [n \in Ref |-> Nil],
          color |-> [n \in Ref |-> "black"]]

\* left and right of _M_nil are never set: reading them is an error.
Init ==
  /\ tree = Empty
  /\ data = [n \in Node |-> 0]
  /\ used = 0
  /\ erased = <<>>
  /\ heap = {}
  /\ pc = "idle"
  /\ z = Nil /\ x = Nil /\ y = Nil

-----------------------------------------------------------------------------
\* Relinking.

SideOf(t, n) == IF n = t.child["left"][t.p[n]] THEN "left" ELSE "right"

\* The link that leads to u leads to v.
Hang(t, u, v) ==
  IF t.p[u] = Nil THEN [t EXCEPT !.root = v]
                  ELSE [t EXCEPT !.child[SideOf(t, u)][t.p[u]] = v]

Transplant(t, u, v) == [Hang(t, u, v) EXCEPT !.p[v] = t.p[u]]

\* The links of a rotation: m takes the place of n, n hangs under m and inner under n.
Relink(t, s, n, m, inner) ==
  [Hang(t, n, m) EXCEPT !.child[Other(s)][n] = inner, !.child[s][m] = n]

\* left_rotate() for the side "left", right_rotate() for "right".
Rotate(t, s, n) ==
  LET m == t.child[Other(s)][n]
      inner == t.child[s][m]
  IN [Relink(t, s, n, m, inner) EXCEPT !.p = [r \in Ref |-> CASE r = m -> t.p[n]
                                                              [] r = n -> m
                                                              [] r = inner /\ r # Nil -> n
                                                              [] OTHER -> @[r]]]

Red(t, n) == t.color[n] = "red"
Paint(t, n, c) == [t EXCEPT !.color[n] = c]

\* The leftmost or rightmost node under n: minimum() and maximum().
Extreme(t, s, n) ==
  LET walk[m \in Node] == IF t.child[s][m] = Nil THEN m ELSE walk[t.child[s][m]]
  IN walk[n]

\* successor() for the side "right", predecessor() for "left".
Neighbour(t, s, n) ==
  LET climb[m \in Node] ==
        IF t.p[m] # Nil /\ m = t.child[s][t.p[m]] THEN climb[t.p[m]] ELSE t.p[m]
  IN IF t.child[s][n] # Nil THEN Extreme(t, Other(s), t.child[s][n]) ELSE climb[n]

Search(t, k) ==
  LET walk[n \in Ref] ==
        CASE n = Nil -> Nil
          [] n # Nil /\ Same(k, data[n]) -> n
          [] OTHER -> walk[t.child[IF Less(k, data[n]) THEN "left" ELSE "right"][n]]
  IN walk[t.root]

\* The nodes reached from n, in order, at most d levels deep.
InOrderFrom(t, n, d) ==
  LET walk[i \in 0 .. d] ==
        [m \in Ref |-> IF m = Nil \/ i = 0 THEN <<>>
                       ELSE walk[i - 1][t.child["left"][m]] \o <<m>>
                            \o walk[i - 1][t.child["right"][m]]]
  IN walk[d][n]

InOrder == InOrderFrom(tree, tree.root, Cardinality(Node))
Linked == ToSet(InOrder)

-----------------------------------------------------------------------------
\* insert()

\* A node of the free list, the last one first, else one from malloc().
Insert(n, k) ==
  /\ pc = "idle"
  /\ k \in Holds[n]
  /\ IF erased # <<>>
       THEN n = Last(erased) /\ erased' = Front(erased) /\ UNCHANGED heap
       ELSE n \notin heap /\ heap' = heap \cup {n} /\ UNCHANGED erased
  /\ data' = [data EXCEPT ![n] = k]
  /\ pc' = "descend"
  /\ z' = n
  /\ y' = Nil
  /\ x' = tree.root
  /\ UNCHANGED <<tree, used>>

\* Defect: a new element left of the equal ones.
TowardsLeftOfEqual(k, n) == IF Less(data[n], k) THEN "right" ELSE "left"

Towards(k, n) == IF Less(k, data[n]) THEN "left" ELSE "right"

Descend ==
  /\ pc = "descend"
  /\ x # Nil
  /\ y' = x
  /\ x' = tree.child[Towards(data[z], x)][x]
  /\ UNCHANGED <<tree, data, used, erased, heap, pc, z>>

\* z becomes a red leaf under y.
Link ==
  /\ pc = "descend"
  /\ x = Nil
  /\ LET t == IF y = Nil THEN [tree EXCEPT !.root = z]
                         ELSE [tree EXCEPT !.child[Towards(data[z], y)][y] = z]
     IN tree' = [t EXCEPT !.p[z] = y, !.child["left"][z] = Nil,
                          !.child["right"][z] = Nil, !.color[z] = "red"]
  /\ pc' = "insert_fixup"
  /\ x' = Nil
  /\ y' = Nil
  /\ UNCHANGED <<data, used, erased, heap, z>>

Uncle == tree.child[Other(SideOf(tree, tree.p[z]))][tree.p[tree.p[z]]]

InsertFixupGuard == pc = "insert_fixup" /\ Red(tree, tree.p[z])

RedUncle ==
  /\ InsertFixupGuard
  /\ Red(tree, Uncle)
  /\ LET g == tree.p[tree.p[z]]
     IN /\ tree' = Paint(Paint(Paint(tree, tree.p[z], "black"), Uncle, "black"), g, "red")
        /\ z' = g
  /\ UNCHANGED <<data, used, erased, heap, pc, x, y>>

\* Defect: the turn without the rotation of an inner z to the outside.
BlackUncleOuterOnly ==
  /\ InsertFixupGuard
  /\ ~Red(tree, Uncle)
  /\ LET s == SideOf(tree, tree.p[z])
         g == tree.p[tree.p[z]]
     IN tree' = Rotate(Paint(Paint(tree, tree.p[z], "black"), g, "red"), Other(s), g)
  /\ UNCHANGED <<data, used, erased, heap, pc, z, x, y>>

BlackUncle ==
  /\ InsertFixupGuard
  /\ ~Red(tree, Uncle)
  /\ LET s == SideOf(tree, tree.p[z])
         inner == z = tree.child[Other(s)][tree.p[z]]
         low == IF inner THEN tree.p[z] ELSE z
         t == IF inner THEN Rotate(tree, s, low) ELSE tree
         g == t.p[t.p[low]]
     IN /\ tree' = Rotate(Paint(Paint(t, t.p[low], "black"), g, "red"), Other(s), g)
        /\ z' = low
  /\ UNCHANGED <<data, used, erased, heap, pc, x, y>>

\* The end of insert(): the iterator it returns is z.
InsertReturns ==
  /\ pc = "insert_fixup"
  /\ ~Red(tree, tree.p[z])
  /\ tree' = Paint(tree, tree.root, "black")
  /\ used' = used + 1
  /\ pc' = "idle"
  /\ z' = Nil
  /\ UNCHANGED <<data, erased, heap, x, y>>

-----------------------------------------------------------------------------
\* erase()

\* A node with two children is replaced by its successor m, relinked and
\* not copied, so that iterators to m stay valid.
Replace(t, n, m) ==
  LET below == t.child["right"][m]
      t1 == IF t.p[m] = n
              THEN [t EXCEPT !.p[below] = m]
              ELSE LET u == [Transplant(t, m, below) EXCEPT
                               !.child["right"][m] = t.child["right"][n]]
                   IN [u EXCEPT !.p[u.child["right"][m]] = m]
      t2 == [Transplant(t1, n, m) EXCEPT !.child["left"][m] = t.child["left"][n]]
  IN [t2 EXCEPT !.p[t2.child["left"][m]] = m, !.color[m] = t.color[n]]

\* Defect: erase() that looks at the color of the erased node, not of the moved one.
UnlinkByOwnColor(n) ==
  /\ pc = "idle"
  /\ n \in Linked
  /\ LET single == {s \in Side : tree.child[s][n] = Nil}
         m == Extreme(tree, "left", tree.child["right"][n])
         up == IF "left" \in single THEN tree.child["right"][n] ELSE tree.child["left"][n]
     IN /\ tree' = IF single # {} THEN Transplant(tree, n, up) ELSE Replace(tree, n, m)
        /\ x' = IF single # {} THEN up ELSE tree.child["right"][m]
        /\ pc' = IF Red(tree, n) THEN "free" ELSE "delete_fixup"
  /\ z' = n
  /\ UNCHANGED <<data, used, erased, heap, y>>

\* erase(it), up to delete_fixup(): n is the node of a valid iterator.
Unlink(n) ==
  /\ pc = "idle"
  /\ n \in Linked
  /\ LET l == tree.child["left"][n]
         r == tree.child["right"][n]
         m == IF l = Nil \/ r = Nil THEN n ELSE Extreme(tree, "left", r)
         up == CASE l = Nil -> r
                 [] l # Nil /\ r = Nil -> l
                 [] OTHER -> tree.child["right"][m]
     IN /\ tree' = IF m = n THEN Transplant(tree, n, up) ELSE Replace(tree, n, m)
        /\ x' = up
        /\ pc' = IF Red(tree, m) THEN "free" ELSE "delete_fixup"
  /\ z' = n
  /\ UNCHANGED <<data, used, erased, heap, y>>

DeleteFixupGuard == pc = "delete_fixup" /\ x # tree.root /\ ~Red(tree, x)

\* A red sibling of x, which hangs on side s of up, is rotated away.
BlackSibling(s, up) ==
  LET w == tree.child[Other(s)][up]
  IN IF Red(tree, w) THEN Rotate(Paint(Paint(tree, w, "black"), up, "red"), s, up)
                     ELSE tree

BothBlack(t, n) == \A s \in Side : ~Red(t, t.child[s][n])

\* The sibling gives up its black: the missing one moves up.
SiblingTurnsRed ==
  /\ DeleteFixupGuard
  /\ LET s == SideOf(tree, x)
         up == tree.p[x]
         t == BlackSibling(s, up)
         w == t.child[Other(s)][up]
     IN /\ BothBlack(t, w)
        /\ tree' = Paint(t, w, "red")
        /\ x' = up
  /\ UNCHANGED <<data, used, erased, heap, pc, z, y>>

\* The sibling has a red child: rotations restore the missing black.
SiblingRotates ==
  /\ DeleteFixupGuard
  /\ LET s == SideOf(tree, x)
         o == Other(s)
         up == tree.p[x]
         t == BlackSibling(s, up)
         w == t.child[o][up]
         t1 == IF Red(t, t.child[o][w]) THEN t
               ELSE Rotate(Paint(Paint(t, t.child[s][w], "black"), w, "red"), o, w)
         w1 == t1.child[o][up]
         t2 == Paint(Paint(Paint(t1, w1, t1.color[up]), up, "black"),
                     t1.child[o][w1], "black")
     IN /\ ~BothBlack(t, w)
        /\ tree' = Rotate(t2, s, up)
        /\ x' = tree'.root
  /\ UNCHANGED <<data, used, erased, heap, pc, z, y>>

Recolored ==
  /\ pc = "delete_fixup"
  /\ x = tree.root \/ Red(tree, x)
  /\ tree' = Paint(tree, x, "black")
  /\ pc' = "free"
  /\ UNCHANGED <<data, used, erased, heap, z, x, y>>

\* What a node contains ends with free().
Blank(t, n) == [t EXCEPT !.child["left"][n] = Nil, !.child["right"][n] = Nil,
                         !.p[n] = Nil, !.color[n] = "black"]

\* p of _M_nil is only read in the erase() that has set it.
Forget(t) == [t EXCEPT !.p[Nil] = Nil]

\* The end of erase(): the node is kept for later, or freed.
Release ==
  /\ pc = "free"
  /\ IF Len(erased) = MaxErased
       THEN /\ heap' = heap \ {z}
            /\ tree' = Forget(Blank(tree, z))
            /\ data' = [data EXCEPT ![z] = 0]
            /\ UNCHANGED erased
       ELSE /\ erased' = Append(erased, z)
            /\ tree' = Forget(tree)
            /\ UNCHANGED <<heap, data>>
  /\ used' = used - 1
  /\ pc' = "idle"
  /\ z' = Nil
  /\ x' = Nil
  /\ UNCHANGED y

-----------------------------------------------------------------------------
\* Defect: clear() that forgets the count.
ClearKeepsCount ==
  /\ pc = "idle"
  /\ heap' = heap \ (Linked \cup ToSet(erased))
  /\ tree' = Empty
  /\ data' = [n \in Node |-> 0]
  /\ erased' = <<>>
  /\ UNCHANGED <<used, pc, z, x, y>>

\* clear(): frees the nodes under the root, then those of the free list.
Clear ==
  /\ pc = "idle"
  /\ heap' = heap \ (Linked \cup ToSet(erased))
  /\ tree' = Empty
  /\ data' = [n \in Node |-> 0]
  /\ erased' = <<>>
  /\ used' = 0
  /\ UNCHANGED <<pc, z, x, y>>

\* The steps of a call that has begun.
Step ==
  \/ Descend \/ Link \/ RedUncle \/ BlackUncle \/ InsertReturns
  \/ SiblingTurnsRed \/ SiblingRotates \/ Recolored \/ Release

Next ==
  \/ \E n \in Node, k \in Key : Insert(n, k)
  \/ \E n \in Node : Unlink(n)
  \/ Clear
  \/ Step

Spec == Init /\ [][Next]_vars /\ WF_vars(Step)

-----------------------------------------------------------------------------
\* Type invariant: the count stays within the number of nodes, the free list
\* within its array.
TypeOK ==
  /\ tree \in [root : Ref, child : [Side -> [Node -> Ref]],
               p : [Ref -> Ref], color : [Ref -> Color]]
  /\ data \in [Node -> Key \cup {0}]
  /\ used \in 0 .. Cardinality(Node)
  /\ erased \in Seq(Node) /\ Len(erased) <= MaxErased
  /\ heap \subseteq Node
  /\ pc \in {"idle", "descend", "insert_fixup", "delete_fixup", "free"}
  /\ {z, x, y} \subseteq Ref

\* delete_fixup() goes on as if x, whatever its color, were black once more.
IsRed(n) == Red(tree, n) /\ ~(pc = "delete_fixup" /\ n = x)
Weight(n) == (IF Red(tree, n) THEN 0 ELSE 1)
             + (IF pc = "delete_fixup" /\ n = x THEN 1 ELSE 0)

\* The missing child delete_fixup() starts from is x too: p of _M_nil says where.
Extra == IF pc = "delete_fixup" /\ x = Nil THEN 1 ELSE 0

\* The weight of every path from the root to a missing child.
PathWeights ==
  LET walk[i \in 0 .. Cardinality(Node)] ==
        [n \in Ref |-> IF n = Nil \/ i = 0 THEN {0}
                       ELSE {Weight(n) + w : w \in
                               UNION {IF tree.child[s][n] = Nil /\ n = tree.p[Nil] THEN {Extra}
                                      ELSE walk[i - 1][tree.child[s][n]] : s \in Side}}]
  IN walk[Cardinality(Node)][tree.root]

\* The loop invariant of both fixups, and between two calls the definition of
\* a red-black tree: a red node hangs under a black one, and every path from
\* the root to a missing child has the same number of black nodes.  Only z in
\* insert_fixup() may break the first rule, and x in delete_fixup() stands for
\* one black node more than there is.
RedBlackRules ==
  /\ \A n \in Linked :
       IsRed(n) => \/ pc = "insert_fixup" /\ n = z
                   \/ tree.p[n] # Nil /\ ~IsRed(tree.p[n])
  /\ Cardinality(PathWeights) = 1

\* begin(), end(), next(), previous() and find() agree with the order of the
\* elements: an iterator that insert() returned moves through all of them,
\* whatever rotations and removals have relinked its node since.
NavigationIsExact ==
  pc = "idle" =>
    LET order == InOrder IN
    /\ used = Len(order) /\ used = Cardinality(ToSet(order))
    /\ used > 0 => /\ Extreme(tree, "left", tree.root) = order[1]
                   /\ Extreme(tree, "right", tree.root) = order[used]
    /\ \A i \in 1 .. used :
         /\ Neighbour(tree, "right", order[i]) = IF i = used THEN Nil ELSE order[i + 1]
         /\ Neighbour(tree, "left", order[i]) = IF i = 1 THEN Nil ELSE order[i - 1]
    /\ \A k \in Key :
         LET found == Search(tree, k)
         IN IF \E n \in ToSet(order) : Same(k, data[n])
              THEN found \in ToSet(order) /\ Same(k, data[found])
              ELSE found = Nil

\* The node a call works on is in neither the tree nor the free list.
InHand == IF pc \in {"descend", "delete_fixup", "free"} THEN {z} ELSE {}

\* Every node malloc() returned is in exactly one place, the tree, the free
\* list or the hands of the call that runs, until free(): none leaks, none is
\* handed out or freed twice.
NodesAreOwned ==
  /\ heap = Linked \cup ToSet(erased) \cup InHand
  /\ Linked \cap ToSet(erased) = {}
  /\ InHand \cap (Linked \cup ToSet(erased)) = {}
  /\ Cardinality(ToSet(erased)) = Len(erased)

\* The elements in order, as the users of the tree see them: rotations and
\* recoloring change nothing, an insertion or a removal happens at once.
Elements == LET order == InOrder
            IN [i \in 1 .. Len(order) |-> <<order[i], data[order[i]]>>]

List == INSTANCE OrderedList WITH list <- Elements

ImplementsList == List!ListSpec

\* Every call ends: no fixup loop turns for ever.
CallsReturn == []<>(pc = "idle")
=============================================================================
