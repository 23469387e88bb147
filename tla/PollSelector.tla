---------------------------- MODULE PollSelector ----------------------------
(***************************************************************************)
(* net::selector over poll(): an array of pollfd that runs in parallel to  *)
(* the index of net::fdset.  process() walks it while the handlers it      *)
(* calls append accepted sockets and removals move the last entry forward. *)
(***************************************************************************)
EXTENDS Readiness

VARIABLES events,    \* _M_events: fd, events and revents of each entry
          pc,        \* "wait" in poll(), else where process() is
          i,         \* the entry process() looks at
          nevents,   \* reported entries it still has to find
          called     \* the descriptor whose handler ran last

selector == <<pos, item, index, used, ok>>
vars == <<selector, ready, events, pc, i, nevents, called>>

NoOne == -1
PollFd(fd, evs) == [fd |-> fd, events |-> evs, revents |-> {}]

Init ==
  /\ Listening
  /\ events = [n \in Fd |-> PollFd(Listener, {"in"})]
  /\ pc = "wait"
  /\ i = 0
  /\ nevents = 0
  /\ called = NoOne

-----------------------------------------------------------------------------
\* selector::add(): called by on_new_connection() for a socket that will read.
Add(fd, evs) ==
  /\ Set!Add(fd, "socket")
  /\ events' = IF pos[fd] = Set!NotInserted
                 THEN [events EXCEPT ![used] = PollFd(fd, evs)] ELSE events

\* Defect: remove() that leaves its own array alone.
RemoveFromSetOnly(fd) ==
  /\ Set!Remove(fd)
  /\ Closed(fd)
  /\ UNCHANGED events

\* selector::remove(): the entry that net::fdset moves is moved here too.
Remove(fd) ==
  /\ Set!Remove(fd)
  /\ Closed(fd)
  /\ events' = IF pos[fd] < used - 1
                 THEN [events EXCEPT ![pos[fd]] = events[used - 1]] ELSE events

\* selector::modify(): what was reported is forgotten.
Modify(fd, evs) ==
  events' = [events EXCEPT ![pos[fd]] = PollFd(fd, evs)]

-----------------------------------------------------------------------------
Reported(e) == e.events \cap ready[e.fd]
Polled == [n \in Fd |-> IF n < used THEN [events[n] EXCEPT !.revents = Reported(events[n])]
                                    ELSE events[n]]

\* poll() returns with at least one entry to look at.
PollReturns ==
  /\ pc = "wait"
  /\ \E n \in 0 .. used - 1 : Polled[n].revents # {}
  /\ events' = Polled
  /\ nevents' = Cardinality({n \in 0 .. used - 1 : Polled[n].revents # {}})
  /\ i' = 0
  /\ pc' = "process"
  /\ UNCHANGED <<selector, ready, called>>

\* A timer expires between two calls of poll(): delete_connection().
Expire(fd) ==
  /\ pc = "wait"
  /\ fd \in Sockets
  /\ Remove(fd)
  /\ UNCHANGED <<pc, i, nevents, called>>

\* Defect: off by one: the last reported entry is left.
LookingTooShort == pc = "process" /\ i < used /\ nevents > 1

Looking == pc = "process" /\ i < used /\ nevents > 0

Skip ==
  /\ Looking
  /\ events[i].revents = {}
  /\ i' = i + 1
  /\ UNCHANGED <<selector, ready, events, pc, nevents, called>>

Find ==
  /\ Looking
  /\ events[i].revents # {}
  /\ nevents' = nevents - 1
  /\ pc' = "readable"
  /\ UNCHANGED <<selector, ready, events, i, called>>

\* The end of process().
Done ==
  /\ pc = "process"
  /\ ~Looking
  /\ pc' = "wait"
  /\ i' = 0
  /\ nevents' = 0
  /\ UNCHANGED <<selector, ready, events, called>>

\* Which handler runs: on_readable(), then on_writable(), of entry i.
Calls(e) ==
  /\ \/ pc = "readable" /\ e = "in"
     \/ pc = "writable" /\ e = "out"
  /\ e \in events[i].revents
  /\ called' = events[i].fd

\* After a handler that returned true.
Onwards ==
  \/ pc = "readable" /\ pc' = "writable" /\ UNCHANGED i
  \/ pc = "writable" /\ pc' = "process" /\ i' = i + 1

NoCall ==
  /\ \/ pc = "readable" /\ "in" \notin events[i].revents
     \/ pc = "writable" /\ "out" \notin events[i].revents
  /\ Onwards
  /\ UNCHANGED <<selector, ready, events, nevents, called>>

\* The handler of a socket returns true; run() may have called modify().
Stays ==
  /\ \E e \in Event : Calls(e)
  /\ events[i].fd # Listener
  /\ Served(events[i].fd)
  /\ \/ UNCHANGED events
     \/ \E e \in Event : Modify(events[i].fd, {e})
  /\ Onwards
  /\ UNCHANGED <<selector, nevents>>

\* Defect: process() that steps over the entry it has just removed.
LeavesAndSteps ==
  /\ \E e \in Event : Calls(e)
  /\ events[i].fd # Listener
  /\ Remove(events[i].fd)
  /\ pc' = "process"
  /\ i' = i + 1
  /\ UNCHANGED nevents

\* It returns false: the entry that takes its place is looked at next.
Leaves ==
  /\ \E e \in Event : Calls(e)
  /\ events[i].fd # Listener
  /\ Remove(events[i].fd)
  /\ pc' = "process"
  /\ UNCHANGED <<i, nevents>>

\* The listener accepts a client.
Accept ==
  /\ Calls("in")
  /\ events[i].fd = Listener
  /\ \E fd \in Fd : Accepted(fd) /\ Add(fd, {"in"})
  /\ Onwards
  /\ UNCHANGED nevents

\* There is none any more, or it is turned away and closed.
AcceptsNone ==
  /\ Calls("in")
  /\ events[i].fd = Listener
  /\ Served(Listener)
  /\ Onwards
  /\ UNCHANGED <<selector, events, nevents>>

Loop ==
  \/ PollReturns \/ Skip \/ Find \/ Done
  \/ NoCall \/ Stays \/ Leaves \/ Accept \/ AcceptsNone

Next ==
  \/ Loop
  \/ \E fd \in Fd : Expire(fd)
  \/ \E fd \in Fd, e \in Event :
       PeerActs(fd, e) /\ UNCHANGED <<selector, events, pc, i, nevents, called>>

\* The loop runs as long as there is something to do.
Spec == Init /\ [][Next]_vars /\ WF_vars(Loop)

-----------------------------------------------------------------------------
\* Type invariant: neither array is overrun, the count never goes below 0.
TypeOK ==
  /\ ReadinessOK
  /\ events \in [Fd -> [fd : Fd, events : SUBSET Event, revents : SUBSET Event]]
  /\ pc \in {"wait", "process", "readable", "writable"}
  /\ i \in 0 .. Size
  /\ nevents \in 0 .. Size
  /\ called \in Fd \cup {NoOne}

\* The two arrays list the same descriptors at the same positions, whatever
\* handlers have appended, removed and moved: fdset::index(fd) may be used to
\* index _M_events, and the handler that is called is that of the entry.
ArraysRunInParallel ==
  \A n \in 0 .. used - 1 : events[n].fd = index[n]

\* Entries process() has not looked at yet.
Ahead == IF pc = "process" THEN i .. used - 1
         ELSE IF pc = "wait" THEN {} ELSE i + 1 .. used - 1

\* The count of reported entries that are left is exact in the middle of the
\* walk: a removal does not make process() skip the entry that is moved
\* forward, look twice at one, or stop before the last, and a socket accepted
\* during the walk is not given what was reported of another.
EveryReportIsServed ==
  pc # "wait" =>
    nevents = Cardinality({n \in Ahead : events[n].revents # {}})

Wanted(fd) == fd \in Inserted /\ events[pos[fd]].events \cap ready[fd] # {}

=============================================================================
