----------------------------- MODULE Positions -----------------------------
(***************************************************************************)
(* Sets of positions in a text, in ascending order.  (SetToSortSeq() of    *)
(* the community modules tries every order.)                               *)
(***************************************************************************)
LOCAL INSTANCE Naturals
LOCAL INSTANCE FiniteSets

Ascending(S) ==
  [n \in 1 .. Cardinality(S) |-> CHOOSE x \in S : Cardinality({y \in S : y <= x}) = n]
=============================================================================
