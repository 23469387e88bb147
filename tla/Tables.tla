------------------------------- MODULE Tables -------------------------------
(***************************************************************************)
(* The sorted tables of names of the server - methods, schemes, standard   *)
(* headers, MIME types - and the binary search they share.  A name is a    *)
(* sequence of letters, compared with strncmp() or strncasecmp(); a letter *)
(* stands for both its cases where the code ignores them.                  *)
(***************************************************************************)
EXTENDS Integers, SequencesExt

CONSTANT Letter   \* the letters of names, in alphabetical order

Letters == ToSet(Letter)
Rank(c) == CHOOSE r \in 1 .. Len(Letter) : Letter[r] = c

\* strncasecmp(name, entry, Len(name)).
Compare(name, entry) ==
  LET differ == {k \in 1 .. Len(name) : k > Len(entry) \/ name[k] # entry[k]}
      k == Min(differ)
  IN CASE differ = {} -> 0
       [] differ # {} /\ k > Len(entry) -> 1
       [] OTHER -> Rank(name[k]) - Rank(entry[k])

Unknown == 0

\* A name that is a proper prefix of an entry is before it.
Order(name, entry) ==
  IF Compare(name, entry) = 0 THEN Len(name) - Len(entry) ELSE Compare(name, entry)

\* search(): side says for every entry whether what is looked for is before it (a
\* negative number), behind it or there (0); if it is nowhere, at is where it
\* belongs.
Place(side) ==
  LET n == Len(side)
      find[i \in 1 .. n + 1, j \in 0 .. n] ==
        IF i > j THEN [found |-> FALSE, at |-> i]
        ELSE LET pivot == (i + j) \div 2
             IN CASE side[pivot] < 0 -> find[i, pivot - 1]
                  [] side[pivot] = 0 -> [found |-> TRUE, at |-> pivot]
                  [] OTHER -> find[pivot + 1, j]
  IN find[1, n]

SearchTable(table, name) ==
  LET place == Place([k \in 1 .. Len(table) |-> Order(name, table[k])])
  IN IF place.found THEN place.at ELSE Unknown

\* What the search relies on.
InOrderOfNames(table) ==
  \A i, j \in 1 .. Len(table) :
    i < j => Order(table[i], table[j]) < 0
=============================================================================
