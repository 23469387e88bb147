--------------------------- MODULE KqueueSelector ---------------------------
(***************************************************************************)
(* net::selector over kqueue.  Reading and writing are two filters, both   *)
(* edge-triggered (EV_CLEAR) for sockets and for listeners: an event is    *)
(* reported once, when it happens.  A batch of events, no larger than the  *)
(* set of descriptors, is dispatched by descriptor number while handlers   *)
(* close and accept sockets: an event of a socket that has gone may be     *)
(* given to the one that has its number now.  "ready" is here what         *)
(* happened to a socket since its handler was last told.                   *)
(***************************************************************************)
EXTENDS Readiness, Sequences

CONSTANT MaxClients    \* clients that will ever connect

VARIABLES active,    \* filters kevent() will report, <<descriptor, event>>
          batch,     \* _M_events from the one process() looks at
          backlog,   \* clients waiting to be accepted
          clients    \* clients that have connected so far

selector == <<pos, item, index, used, ok>>
vars == <<selector, ready, active, batch, backlog, clients>>

Seqs == INSTANCE SequencesExt

Filters(fd) == {f \in active : f[1] = fd}

Init ==
  /\ Listening
  /\ active = {}
  /\ batch = <<>>
  /\ backlog = 0
  /\ clients = 0

-----------------------------------------------------------------------------
\* selector::add() of a socket: a filter is active at once for what the
\* socket is already ready for.
Add(fd, first) ==
  /\ Set!Add(fd, "socket")
  /\ ready' = [ready EXCEPT ![fd] = first]
  /\ active' = active \cup {<<fd, e>> : e \in first}

\* selector::remove(): closing the descriptor deletes its filters, but not
\* the events that have been reported already.
Remove(fd) ==
  /\ Set!Remove(fd)
  /\ Closed(fd)
  /\ active' = active \ Filters(fd)

\* kevent() returns active filters, as many as _M_events has room for, and
\* EV_CLEAR makes them inactive; the others stay active.
KeventReturns ==
  /\ batch = <<>>
  /\ \E reported \in SUBSET active :
       /\ reported # {} /\ Cardinality(reported) <= Size
       /\ batch' \in Seqs!SetToSeqs(reported)
       /\ active' = active \ reported
  /\ UNCHANGED <<selector, ready, backlog, clients>>

\* A call of kevent() that has room for the filter.
Reports(fd, e) == <<fd, e>> \in active /\ KeventReturns /\ <<fd, e>> \notin active'

\* A timer expires between two calls of kevent(): delete_connection().
Expire(fd) ==
  /\ batch = <<>>
  /\ fd \in Sockets
  /\ Remove(fd)
  /\ UNCHANGED <<batch, backlog, clients>>

NextEvent == batch' = Tail(batch)

\* The descriptor has no handler any more.
Ignored ==
  /\ batch # <<>>
  /\ Head(batch)[1] \notin Inserted
  /\ NextEvent
  /\ UNCHANGED <<selector, ready, active, backlog, clients>>

\* The filter of a socket that stays: its handler has been told.
Stays ==
  /\ batch # <<>>
  /\ LET fd == Head(batch)[1]
         e == Head(batch)[2]
     IN /\ fd \in Sockets
        /\ ready' = [ready EXCEPT ![fd] = @ \ {e}]
  /\ NextEvent
  /\ UNCHANGED <<selector, active, backlog, clients>>

\* Defect: process() that drops the rest of the batch with the socket.
LeavesWithBatch ==
  /\ batch # <<>>
  /\ Head(batch)[1] \in Sockets
  /\ Remove(Head(batch)[1])
  /\ batch' = <<>>
  /\ UNCHANGED <<backlog, clients>>

\* Its handler returns false.
Leaves ==
  /\ batch # <<>>
  /\ Head(batch)[1] \in Sockets
  /\ Remove(Head(batch)[1])
  /\ NextEvent
  /\ UNCHANGED <<backlog, clients>>

\* listener::on_readable() accepts one client.
Accept ==
  /\ batch # <<>>
  /\ Head(batch)[1] = Listener
  /\ backlog > 0
  /\ \E fd \in Fd \ Inserted, first \in SUBSET Event : Add(fd, first)
  /\ backlog' = backlog - 1
  /\ NextEvent
  /\ UNCHANGED clients

\* The client is turned away and closed, or there is none.
AcceptsNone ==
  /\ batch # <<>>
  /\ Head(batch)[1] = Listener
  /\ backlog' = IF backlog > 0 THEN backlog - 1 ELSE 0
  /\ NextEvent
  /\ UNCHANGED <<selector, ready, active, clients>>

\* Something happens to a socket: its filter becomes active.
Happens(fd, e) ==
  /\ fd \in Sockets
  /\ PeerActs(fd, e)
  /\ active' = active \cup {<<fd, e>>}
  /\ UNCHANGED <<selector, batch, backlog, clients>>

Connects ==
  /\ clients < MaxClients
  /\ clients' = clients + 1
  /\ backlog' = backlog + 1
  /\ active' = active \cup {<<Listener, "in">>}
  /\ UNCHANGED <<selector, ready, batch>>

Loop == KeventReturns \/ Ignored \/ Stays \/ Leaves \/ Accept \/ AcceptsNone

Next ==
  \/ Loop
  \/ Connects
  \/ \E fd \in Fd : Expire(fd)
  \/ \E fd \in Fd, e \in Event : Happens(fd, e)

\* The loop runs as long as there is something to do.  A kernel queue is served
\* in turn: a filter that is active in one call of kevent() after the other is
\* reported in one of them.
Spec ==
  /\ Init
  /\ [][Next]_vars
  /\ WF_vars(Loop)
  /\ \A fd \in Fd, e \in Event : SF_vars(Reports(fd, e))

-----------------------------------------------------------------------------
\* Type invariant.
TypeOK ==
  /\ ReadinessOK
  /\ active \subseteq Inserted \X Event
  /\ batch \in Seq(Fd \X Event) /\ Len(batch) <= Size
  /\ backlog \in 0 .. MaxClients
  /\ clients \in 0 .. MaxClients

\* An event of a socket that its handler has not been told of will be
\* reported or is in the batch, also when the number of the socket belonged to
\* another one, with events of its own in the same batch: no edge is lost.
NoLostEdge ==
  \A fd \in Sockets : \A e \in ready[fd] :
    <<fd, e>> \in active \cup Seqs!ToSet(batch)

\* What happened to a socket is told to its handler, or it is closed.
EdgesAreTold ==
  \A fd \in Fd \ {Listener}, e \in Event : (e \in ready[fd]) ~> (e \notin ready[fd])
=============================================================================
