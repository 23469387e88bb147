--------------------------- MODULE MCRedBlackTree ---------------------------
(***************************************************************************)
(* RedBlackTree for TLC.  Every address is given one key, so that the      *)
(* names of the nodes do not multiply the states: malloc() may return any  *)
(* address, and nothing depends on which.                                  *)
(***************************************************************************)
EXTENDS RedBlackTree

CONSTANTS n1, n2, n3, n4, n5, n6, n7

\* Deadlines on both sides of the wrap, two of them equal.
OneKeyEach == n1 :> {14} @@ n2 :> {15} @@ n3 :> {0} @@ n4 :> {0}
           @@ n5 :> {1} @@ n6 :> {2} @@ n7 :> {3}

-----------------------------------------------------------------------------
\* In the middle of every call the tree keeps the rules that bound its height,
\* and every node is in one place; between two calls, iterators move through all
\* the elements in order.
TreeIsSound == RedBlackRules /\ NavigationIsExact /\ NodesAreOwned
=============================================================================
