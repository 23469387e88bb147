------------------------------- MODULE FdSet -------------------------------
(***************************************************************************)
(* net::fdset: the descriptors an event selector watches.  Descriptors     *)
(* index an array of entries; the ones in use are also kept, without gaps, *)
(* in a second array that poll() and the destructor walk.  Removal moves   *)
(* the last element of that array into the hole.                           *)
(***************************************************************************)
EXTENDS Integers, FiniteSets

CONSTANTS Size,    \* RLIMIT_NOFILE: the size of both arrays
          Item     \* a type (socket or listener) with its event handler

ASSUME SizeAssumption == Size \in Nat \ {0}

Fd == 0 .. Size - 1

NotInserted == -1

VARIABLES pos,     \* _M_entries[fd].index
          item,    \* _M_entries[fd].type and .handler
          index,   \* _M_index
          used,    \* _M_used
          ok       \* what the last call returned

vars == <<pos, item, index, used, ok>>

\* create(): malloc leaves everything but the index fields uninitialised.
Init ==
  /\ pos = [fd \in Fd |-> NotInserted]
  /\ item \in [Fd -> Item]
  /\ index \in [Fd -> Fd]
  /\ used = 0
  /\ ok = TRUE

\* Defect: add() without the test for a descriptor that is already inserted.
AddUnguarded(fd, it) ==
  /\ used < Size
  /\ pos' = [pos EXCEPT ![fd] = used]
  /\ item' = [item EXCEPT ![fd] = it]
  /\ index' = [index EXCEPT ![used] = fd]
  /\ used' = used + 1
  /\ ok' = TRUE

Add(fd, it) ==
  \/ /\ pos[fd] # NotInserted
     /\ ok' = FALSE
     /\ UNCHANGED <<pos, item, index, used>>
  \/ /\ pos[fd] = NotInserted
     /\ pos' = [pos EXCEPT ![fd] = used]
     /\ item' = [item EXCEPT ![fd] = it]
     /\ index' = [index EXCEPT ![used] = fd]
     /\ used' = used + 1
     /\ ok' = TRUE

\* The element after the last one in use, once used has been decremented.
Last == index[used - 1]

\* Defect: remove() that forgets to update the entry of the descriptor it moves.
RemoveWithoutBackPointer(fd) ==
  /\ pos[fd] # NotInserted
  /\ used' = used - 1
  /\ ok' = TRUE
  /\ pos' = [pos EXCEPT ![fd] = NotInserted]
  /\ index' = [index EXCEPT ![pos[fd]] = Last]
  /\ UNCHANGED item

\* Defect: remove() that decrements the count before it looks for the descriptor.
RemoveCountingFirst(fd) ==
  /\ pos[fd] = NotInserted
  /\ used' = used - 1
  /\ ok' = FALSE
  /\ UNCHANGED <<pos, item, index>>

Remove(fd) ==
  \/ /\ pos[fd] = NotInserted
     /\ ok' = FALSE
     /\ UNCHANGED <<pos, item, index, used>>
  \/ /\ pos[fd] # NotInserted
     /\ used' = used - 1
     /\ ok' = TRUE
     /\ UNCHANGED item
     /\ IF pos[fd] < used - 1
          THEN /\ index' = [index EXCEPT ![pos[fd]] = Last]
               /\ pos' = [pos EXCEPT ![fd] = NotInserted, ![Last] = pos[fd]]
          ELSE /\ pos' = [pos EXCEPT ![fd] = NotInserted]
               /\ UNCHANGED index

Next ==
  \/ \E fd \in Fd, it \in Item : Add(fd, it)
  \/ \E fd \in Fd : Remove(fd)

Spec == Init /\ [][Next]_vars

\* handler(fd) and type(fd): nothing for a descriptor that is not inserted.
HandlerOf(fd) == IF pos[fd] # NotInserted THEN {item[fd]} ELSE {}

-----------------------------------------------------------------------------
\* Type invariant.  used never leaves 0 .. Size, so neither _M_index[_M_used++]
\* in add() nor _M_index[_M_used] in remove() is out of bounds.
TypeOK ==
  /\ pos \in [Fd -> Fd \cup {NotInserted}]
  /\ item \in [Fd -> Item]
  /\ index \in [Fd -> Fd]
  /\ used \in 0 .. Size
  /\ ok \in BOOLEAN

\* The two arrays agree: an inserted descriptor is found in _M_index at the
\* position its entry says, and every used position of _M_index names a
\* descriptor whose entry points back.  So _M_index lists the inserted
\* descriptors, each once, whatever was removed from its middle.
ArraysAgree ==
  /\ \A fd \in Fd : pos[fd] # NotInserted =>
        pos[fd] < used /\ index[pos[fd]] = fd
  /\ \A i \in Fd : i < used => pos[index[i]] = i

\* count() is the number of inserted descriptors.
CountIsExact == used = Cardinality({fd \in Fd : pos[fd] # NotInserted})

MovesOnlyTheLast ==
  \A fd \in Fd :
    pos[fd] # NotInserted /\ pos'[fd] # NotInserted /\ pos'[fd] # pos[fd]
      => /\ pos[fd] = used - 1
         /\ pos[index[pos'[fd]]] = pos'[fd]
         /\ pos'[index[pos'[fd]]] = NotInserted

\* A removal moves at most one other descriptor, the one that was last, and
\* moves it to the hole: poll_selector::remove() mirrors exactly that move in
\* its own array of pollfd.
RemovalMovesOnlyTheLast == [][MovesOnlyTheLast]_vars

\* fdset implements the descriptor table its users see.
Table == INSTANCE FdTable WITH
           item <- [fd \in Fd |-> HandlerOf(fd)],
           count <- used

ImplementsTable == Table!TableSpec
=============================================================================
