----------------------------- MODULE Readiness -----------------------------
(***************************************************************************)
(* What every event selector sees: the descriptors in net::fdset and what  *)
(* the kernel says of them.  One listener and the sockets accepted from    *)
(* it; the handlers of a socket and the peers are free in what they do.    *)
(***************************************************************************)
EXTENDS Integers, FiniteSets

CONSTANTS Size,       \* RLIMIT_NOFILE
          Listener    \* the descriptor of the listener, below Size

Fd == 0 .. Size - 1

VARIABLES pos, item, index, used, ok,   \* net::fdset
          ready                         \* what a descriptor is ready for

Set == INSTANCE FdSet WITH Item <- {"listener", "socket"}

Event == {"in", "out"}
Inserted == {fd \in Fd : pos[fd] # Set!NotInserted}
Sockets == Inserted \ {Listener}

\* Once listen() has added the listener.
Listening ==
  /\ pos = [fd \in Fd |-> IF fd = Listener THEN 0 ELSE Set!NotInserted]
  /\ item = [fd \in Fd |-> IF fd = Listener THEN "listener" ELSE "socket"]
  /\ index = [n \in Fd |-> Listener]
  /\ used = 1
  /\ ok = TRUE
  /\ ready = [fd \in Fd |-> {}]

\* Data, end of stream or buffer space for a socket, a client for a listener.
PeerActs(fd, e) ==
  /\ fd \in Inserted
  /\ fd = Listener => e = "in"
  /\ ready' = [ready EXCEPT ![fd] = @ \cup {e}]

\* What the handler of a socket leaves to be read or written.
Served(fd) == \E left \in SUBSET ready[fd] : ready' = [ready EXCEPT ![fd] = left]

\* listener::on_readable() takes one client, more may be waiting.
Accepted(fd) ==
  /\ fd \notin Inserted
  /\ \E more \in SUBSET ready[Listener], first \in SUBSET Event :
       ready' = [ready EXCEPT ![Listener] = more, ![fd] = first]

Closed(fd) == ready' = [ready EXCEPT ![fd] = {}]

-----------------------------------------------------------------------------
\* Type invariant of the set and the kernel.
ReadinessOK ==
  /\ Set!TypeOK
  /\ ready \in [Fd -> SUBSET Event]
=============================================================================
