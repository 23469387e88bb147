---------------------------- MODULE OrderedList ----------------------------
(***************************************************************************)
(* What util::red_black_tree promises: elements in the order of their      *)
(* keys, equal keys in the order they were inserted, each at the address   *)
(* (the iterator) insert() returned until it is erased.                    *)
(***************************************************************************)
EXTENDS Integers, SequencesExt

CONSTANT Less(_, _)   \* operator< of the keys

VARIABLE list         \* the elements in order: <<address, key>>

Addresses(l) == {e[1] : e \in ToSet(l)}

\* A new element stands behind all that are not greater, before all that are.
Inserted(before, after) ==
  /\ Len(after) = Len(before) + 1
  /\ \E i \in DOMAIN after :
       /\ before = RemoveAt(after, i)
       /\ after[i][1] \notin Addresses(before)
       /\ \A j \in 1 .. i - 1 : ~Less(after[i][2], after[j][2])
       /\ \A j \in i + 1 .. Len(after) : Less(after[i][2], after[j][2])

\* One element is erased, wherever it is.
Removed(before, after) ==
  /\ Len(after) = Len(before) - 1
  /\ \E i \in DOMAIN before : after = RemoveAt(before, i)

ListInit == list = <<>>

ListNext ==
  \/ Inserted(list, list')
  \/ Removed(list, list')
  \/ list' = <<>>

ListSpec == ListInit /\ [][ListNext]_list
=============================================================================
