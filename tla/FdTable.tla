------------------------------ MODULE FdTable ------------------------------
(***************************************************************************)
(* What a set of descriptors promises its users, the event selectors: a    *)
(* finite map from descriptor numbers to what was registered for them, and *)
(* a count.  How the map is stored is left to FdSet.                       *)
(***************************************************************************)
EXTENDS Integers, FiniteSets

CONSTANTS Fd,      \* descriptor numbers
          Item     \* what is registered: the type and the event handler

VARIABLES item,    \* item[fd] is a set: empty when fd is not registered
          count,   \* number of registered descriptors
          ok       \* result of the last call

tableVars == <<item, count, ok>>

TableInit ==
  /\ item = [fd \in Fd |-> {}]
  /\ count = 0
  /\ ok = TRUE

\* Registering a descriptor that is already there fails and changes nothing.
Register(fd, it) ==
  \/ /\ item[fd] = {}
     /\ item' = [item EXCEPT ![fd] = {it}]
     /\ count' = count + 1
     /\ ok' = TRUE
  \/ /\ item[fd] # {}
     /\ ok' = FALSE
     /\ UNCHANGED <<item, count>>

\* Removing a descriptor that is not there fails and changes nothing.
Unregister(fd) ==
  \/ /\ item[fd] # {}
     /\ item' = [item EXCEPT ![fd] = {}]
     /\ count' = count - 1
     /\ ok' = TRUE
  \/ /\ item[fd] = {}
     /\ ok' = FALSE
     /\ UNCHANGED <<item, count>>

TableNext ==
  \/ \E fd \in Fd, it \in Item : Register(fd, it)
  \/ \E fd \in Fd : Unregister(fd)

TableSpec == TableInit /\ [][TableNext]_tableVars
=============================================================================
