--------------------------- MODULE SelectSelector ---------------------------
(***************************************************************************)
(* net::selector over select(): two sets of descriptors, a lazily          *)
(* recomputed highest descriptor, and a copy of the sets that process()    *)
(* walks by descriptor number while its handlers close and accept sockets. *)
(***************************************************************************)
EXTENDS Readiness, FiniteSetsExt

VARIABLES watched,   \* _M_rfds ("in") and _M_wfds ("out")
          highest,   \* _M_highest_fd
          shown,     \* the copies of both that select() has filled in
          pc,        \* "wait" in select(), else where process() is
          i,         \* the position process() looks at
          todo,      \* the events of that descriptor not handled yet
          nevents,   \* events process() still has to find
          called     \* the descriptor whose handler ran last

selector == <<pos, item, index, used, ok, watched, highest>>
vars == <<selector, ready, shown, pc, i, todo, nevents, called>>

NoOne == -1
Undefined == -2
EmptySet == -1
Nothing == [e \in Event |-> {}]

Init ==
  /\ Listening
  /\ watched = [e \in Event |-> IF e = "in" THEN {Listener} ELSE {}]
  /\ highest = Listener
  /\ shown = Nothing
  /\ pc = "wait"
  /\ i = 0
  /\ todo = {}
  /\ nevents = 0
  /\ called = NoOne

-----------------------------------------------------------------------------
Watch(fd, evs) ==
  watched' = [e \in Event |-> IF e \in evs THEN watched[e] \cup {fd} ELSE watched[e] \ {fd}]

\* selector::add() of a descriptor that is not inserted.
Add(fd, evs) ==
  /\ Set!Add(fd, "socket")
  /\ Watch(fd, evs)
  /\ highest' = IF highest = EmptySet \/ (highest # Undefined /\ fd > highest)
                  THEN fd ELSE highest

\* selector::remove()
Remove(fd) ==
  /\ Set!Remove(fd)
  /\ Closed(fd)
  /\ Watch(fd, {})
  /\ highest' = IF fd = highest THEN Undefined ELSE highest

\* selector::modify()
Modify(fd, evs) == Watch(fd, evs) /\ UNCHANGED <<pos, item, index, used, ok, highest>>

\* highest_fd(): recomputed when it is not known.
HighestFd ==
  IF highest = Undefined THEN Max({Undefined} \cup {index[n] : n \in 0 .. used - 1})
                         ELSE highest

-----------------------------------------------------------------------------
\* What select() finds among the first n descriptors.
Found(n) == [e \in Event |-> {fd \in watched[e] : fd < n /\ e \in ready[fd]}]
Bits(sets) == Cardinality(sets["in"]) + Cardinality(sets["out"])

SelectReturns ==
  /\ pc = "wait"
  /\ Bits(Found(HighestFd + 1)) > 0
  /\ shown' = Found(HighestFd + 1)
  /\ nevents' = Bits(shown')
  /\ highest' = HighestFd
  /\ i' = 0
  /\ pc' = "process"
  /\ UNCHANGED <<pos, item, index, used, ok, watched, ready, todo, called>>

\* A timer expires between two calls of select(): delete_connection().
Expire(fd) ==
  /\ pc = "wait"
  /\ fd \in Sockets
  /\ Remove(fd)
  /\ UNCHANGED <<shown, pc, i, todo, nevents, called>>

Looking == pc = "process" /\ i < used /\ nevents > 0

\* The bits of the next descriptor, looked up by its number.
Look ==
  /\ Looking
  /\ todo' = {e \in Event : index[i] \in shown[e]}
  /\ nevents' = nevents - Cardinality(todo')
  /\ IF todo' = {} THEN i' = i + 1 /\ UNCHANGED pc
                   ELSE pc' = "handle" /\ UNCHANGED i
  /\ UNCHANGED <<selector, ready, shown, called>>

Done ==
  /\ pc = "process"
  /\ ~Looking
  /\ pc' = "wait"
  /\ i' = 0
  /\ nevents' = 0
  /\ shown' = Nothing
  /\ UNCHANGED <<selector, ready, todo, called>>

\* on_readable() first, then on_writable(), of the descriptor at i.
Calls(e) ==
  /\ pc = "handle"
  /\ e \in todo
  /\ e = "out" => "in" \notin todo
  /\ called' = index[i]

\* After a handler that returned true.
Onwards(e) ==
  /\ todo' = todo \ {e}
  /\ IF todo' = {} THEN pc' = "process" /\ i' = i + 1 ELSE UNCHANGED <<pc, i>>
  /\ UNCHANGED <<shown, nevents>>

Stays ==
  /\ \E e \in Event : Calls(e) /\ Onwards(e)
  /\ index[i] # Listener
  /\ Served(index[i])
  /\ \/ UNCHANGED selector
     \/ \E e \in Event : Modify(index[i], {e})

\* It returns false: the descriptor that takes its position is looked at next.
Leaves ==
  /\ \E e \in Event : Calls(e)
  /\ index[i] # Listener
  /\ Remove(index[i])
  /\ todo' = {}
  /\ pc' = "process"
  /\ UNCHANGED <<shown, i, nevents>>

Accept ==
  /\ Calls("in") /\ Onwards("in")
  /\ index[i] = Listener
  /\ \E fd \in Fd : Accepted(fd) /\ Add(fd, {"in"})

AcceptsNone ==
  /\ Calls("in") /\ Onwards("in")
  /\ index[i] = Listener
  /\ Served(Listener)
  /\ UNCHANGED selector

Loop ==
  \/ SelectReturns \/ Look \/ Done
  \/ Stays \/ Leaves \/ Accept \/ AcceptsNone

Next ==
  \/ Loop
  \/ \E fd \in Fd : Expire(fd)
  \/ \E fd \in Fd, e \in Event :
       PeerActs(fd, e) /\ UNCHANGED <<selector, shown, pc, i, todo, nevents, called>>

\* The loop runs as long as there is something to do.
Spec == Init /\ [][Next]_vars /\ WF_vars(Loop)

-----------------------------------------------------------------------------
\* Type invariant; the unsigned count of events never passes below 0.
TypeOK ==
  /\ ReadinessOK
  /\ watched \in [Event -> SUBSET Fd]
  /\ highest \in Fd \cup {EmptySet, Undefined}
  /\ shown \in [Event -> SUBSET Fd]
  /\ pc \in {"wait", "process", "handle"}
  /\ i \in 0 .. Size
  /\ todo \subseteq Event
  /\ nevents \in 0 .. 2 * Size
  /\ called \in Fd \cup {NoOne}

\* Whenever select() is about to be called, the number it is given covers
\* every descriptor that is watched, after any order of insertions and
\* removals with a cached, stale or unknown highest descriptor; and no closed
\* descriptor, which would make every call fail, is among them.
SelectSeesAll ==
  pc = "wait" =>
    /\ HighestFd = Max(Inserted)
    /\ \A e \in Event : watched[e] \subseteq Inserted

\* The positions process() has not looked at yet.
Ahead == CASE pc = "wait" -> {} [] pc = "process" -> i .. used - 1 [] OTHER -> i + 1 .. used - 1

\* The count of events that are left is exact in the middle of the walk.  The
\* copies are looked up by number, so this rests on the order of the walk:
\* listeners stand before all sockets and accept before any socket of the walk
\* is closed, so no number whose bits are still set passes to a new client.
EveryBitIsServed ==
  pc # "wait" =>
    nevents = Cardinality({b \in Ahead \X Event : index[b[1]] \in shown[b[2]]})

Wanted(fd) == fd \in Inserted /\ \E e \in ready[fd] : fd \in watched[e]

=============================================================================
