----------------------------- MODULE TcpServer -----------------------------
(***************************************************************************)
(* The event loop of the server on Linux: net::tcp_server with its epoll   *)
(* selector, its listeners, its queue of idle timers and the connections,  *)
(* one per descriptor number and used again with the number.               *)
(*                                                                         *)
(* One process runs the loop.  Around it the kernel accepts clients in the *)
(* background, data and buffer space arrive on sockets, time passes and a  *)
(* signal may interrupt any two steps.  What a connection does with its    *)
(* bytes is the subject of module Connection; here a call of its run() may *)
(* arm or clear its timer, open or close a file, and ask to be dropped.    *)
(***************************************************************************)
EXTENDS Integers, FiniteSets, Sequences

CONSTANTS
  Fd,            \* descriptor numbers: RLIMIT_NOFILE of them
  Configs,       \* configuration files: each the addresses to listen on, in order
  MaxIdle,       \* _M_max_idle_time, in ticks
  Modulus,       \* 2^32: _M_current_msec and timer::msec wrap here
  TimerEffects,  \* what run() may do to the timer: "arm", "clear", "keep"
  Signals        \* where SIGTERM may hit: "starting", "running"

CONSTANTS        \* bounds on the environment
  MaxClients,    \* clients that ever connect
  LastArrival,   \* peers are silent after this time
  MaxClock,      \* time stops here
  MaxLag         \* ticks that may pass between two reads of the clock

ASSUME TimeAssumption ==
  /\ Modulus \in Nat \ {0}
  /\ MaxIdle \in Nat
ASSUME FdAssumption == Fd \subseteq Nat
ASSUME ConfigAssumption == Configs \subseteq Seq(STRING)
ASSUME EffectAssumption == TimerEffects \subseteq {"arm", "clear", "keep"}
ASSUME BoundAssumption ==
  MaxClients \in Nat /\ LastArrival \in Nat /\ MaxClock \in Nat /\ MaxLag \in Nat

None == -1                      \* no file: fs::file holding -1
Nobody == 0                     \* no client
NoAddress == "no address"

Address == {NoAddress} \cup UNION {{c[i] : i \in DOMAIN c} : c \in Configs}
Mask == SUBSET {"in", "out"}
Timer == [conn : Fd, msec : 0 .. Modulus - 1]
Event == [fd : Fd, events : Mask, client : Nat]

VARIABLES
  \* the process
  pc,          \* where start() is
  config,      \* the configuration file
  configured,  \* addresses of config already handled
  address,     \* listener::_M_addr of the listeners
  mustStop,    \* _M_must_stop
  kind,        \* fdset: type of the registered descriptors
  timers,      \* timer::timers::_M_timers
  timerSet,    \* tcp_connection::_M_timer_set
  node,        \* tcp_connection::_M_timer, the node an iterator names
  file,        \* connection::_M_file, the descriptor it holds
  batch,       \* events of the last epoll_wait() still to be dispatched
  current,     \* event whose on_writable() is still to be called, if any
  \* the kernel
  open,        \* what a descriptor number stands for
  backlog,     \* clients waiting to be accepted, by listener
  edge,        \* events epoll will report for a socket
  clock,       \* time
  clients,     \* clients that have connected so far
  served,      \* clients that have been accepted so far
  \* history
  seen,        \* clock when _M_current_msec was last read
  client,      \* the client served on a descriptor
  armed,       \* clock when the timer of a connection was last set
  signalled    \* when the signal came: "no", "starting", "running"

loopVars == <<pc, config, configured, address, mustStop>>
timerVars == <<timers, timerSet, node, armed>>
eventVars == <<batch, current>>
kernelVars == <<kind, open, file, backlog, edge, client>>
timeVars == <<clock, seen>>
vars == <<loopVars, timerVars, eventVars, kernelVars, timeVars, clients, served, signalled>>

-----------------------------------------------------------------------------
\* _M_current_msec: the time read after the last epoll_wait(), as an unsigned.
Now == seen % Modulus

\* timer::operator<: the sign of the difference as a signed integer.
Before(a, b) == a # b /\ (a - b) % Modulus >= Modulus \div 2

\* The leftmost nodes of the timer tree.  Deadlines never span half the range
\* of the counter, so the set is empty only when the tree is.
Heads == {t \in timers : \A u \in timers : ~Before(u.msec, t.msec)}

\* open() and accept() return the lowest descriptor that is free.
LowestFree(table, fd) ==
  /\ table[fd] = "free"
  /\ \A f \in Fd : table[f] = "free" => fd <= f

Full(table) == \A fd \in Fd : table[fd] # "free"

\* The timer a connection gets when it is armed now.
Deadline(fd) == [conn |-> fd, msec |-> (Now + MaxIdle) % Modulus]

\* delete_timer(): the queue without the timer of a connection that has one.
Unqueued(fd) == IF timerSet[fd] THEN timers \ {node[fd]} ELSE timers

\* connection::_reset(): the descriptors once the file, if any, is closed.
FileClosed(fd) == IF file[fd] = None THEN open ELSE [open EXCEPT ![file[fd]] = "free"]

Init ==
  /\ pc = "listening"
  /\ config \in Configs
  /\ configured = 0
  /\ address = [fd \in Fd |-> NoAddress]
  /\ mustStop = TRUE
  /\ kind = [fd \in Fd |-> "none"]
  /\ timers = {}
  /\ timerSet = [fd \in Fd |-> FALSE]
  /\ node = [fd \in Fd |-> [conn |-> fd, msec |-> 0]]
  /\ file = [fd \in Fd |-> None]
  /\ batch = {}
  /\ current = {}
  /\ open = [fd \in Fd |-> "free"]
  /\ backlog = [fd \in Fd |-> 0]
  /\ edge = [fd \in Fd |-> {}]
  /\ clock = 0
  /\ clients = 0
  /\ served = 0
  /\ seen = 0
  /\ client = [fd \in Fd |-> Nobody]
  /\ armed = [fd \in Fd |-> 0]
  /\ signalled = "no"

-----------------------------------------------------------------------------
(* Start-up: server::create() listens on every address, then start().      *)

\* tcp_server::listen(): an address that is already served is skipped.
Listen ==
  LET addr == config[configured + 1] IN
  /\ pc = "listening"
  /\ configured < Len(config)
  /\ configured' = configured + 1
  /\ IF \E fd \in Fd : address[fd] = addr
       THEN UNCHANGED <<address, kind, open>>
       ELSE \E fd \in Fd :
              /\ LowestFree(open, fd)
              /\ open' = [open EXCEPT ![fd] = "listening"]
              /\ kind' = [kind EXCEPT ![fd] = "listener"]
              /\ address' = [address EXCEPT ![fd] = addr]
  /\ UNCHANGED <<pc, config, mustStop, timerVars, eventVars, file, backlog, edge, client,
                 timeVars, clients, served, signalled>>

\* An address cannot be used: create() fails and main() returns.
ListenFails ==
  /\ pc = "listening"
  /\ configured < Len(config)
  /\ ~\E fd \in Fd : address[fd] = config[configured + 1]
  /\ pc' = "done"
  /\ UNCHANGED <<config, configured, address, mustStop, timerVars, eventVars, kernelVars,
                 timeVars, clients, served, signalled>>

Created ==
  /\ pc = "listening"
  /\ configured = Len(config)
  /\ pc' = "starting"
  /\ UNCHANGED <<config, configured, address, mustStop, timerVars, eventVars, kernelVars,
                 timeVars, clients, served, signalled>>

Start ==
  /\ pc = "starting"
  /\ \E fd \in Fd : address[fd] # NoAddress
  /\ pc' = "waiting"
  /\ mustStop' = FALSE
  /\ UNCHANGED <<config, configured, address, timerVars, eventVars, kernelVars,
                 timeVars, clients, served, signalled>>

\* A configuration without listeners is accepted, but start() returns at once.
StartRefused ==
  /\ pc = "starting"
  /\ \A fd \in Fd : address[fd] = NoAddress
  /\ pc' = "done"
  /\ UNCHANGED <<config, configured, address, mustStop, timerVars, eventVars, kernelVars,
                 timeVars, clients, served, signalled>>

-----------------------------------------------------------------------------
(* selector::process_events(): epoll_wait(), then update_time().           *)

\* Listeners are level-triggered, sockets edge-triggered.
Ready == {fd \in Fd : \/ kind[fd] = "listener" /\ backlog[fd] > 0
                      \/ kind[fd] = "socket" /\ edge[fd] # {}}

\* Defect: read and write readiness reported as two events, as kqueue does.
WaitReturnsSplit ==
  /\ pc = "waiting"
  /\ Ready # {}
  /\ batch' = {[fd |-> fd, events |-> {e}, client |-> client[fd]] :
                 fd \in Ready, e \in {"in", "out"}}
               \ {[fd |-> fd, events |-> {"out"}, client |-> Nobody] : fd \in Fd}
  /\ edge' = [fd \in Fd |-> IF fd \in Ready THEN {} ELSE edge[fd]]
  /\ seen' = clock
  /\ pc' = "dispatching"
  /\ UNCHANGED <<config, configured, address, mustStop, timerVars, current, kind, open, file,
                 backlog, client, clock, clients, served, signalled>>

\* One entry per ready descriptor, with the condition that made it ready and
\* whatever else holds of the socket.
WaitReturns ==
  /\ pc = "waiting"
  /\ Ready # {}
  /\ \E mask \in [Ready -> Mask] :
       /\ \A fd \in Ready : IF kind[fd] = "listener" THEN mask[fd] = {"in"}
                                                     ELSE edge[fd] \subseteq mask[fd]
       /\ batch' = {[fd |-> fd, events |-> mask[fd], client |-> client[fd]] : fd \in Ready}
  /\ edge' = [fd \in Fd |-> IF fd \in Ready THEN {} ELSE edge[fd]]
  /\ seen' = clock
  /\ pc' = "dispatching"
  /\ UNCHANGED <<config, configured, address, mustStop, timerVars, current, kind, open, file,
                 backlog, client, clock, clients, served, signalled>>

\* Defect: the stop request cleared on every turn of the loop.
WaitClearsStop ==
  /\ pc = "waiting"
  /\ Ready = {}
  /\ seen' = clock
  /\ pc' = "expiring"
  /\ mustStop' = FALSE
  /\ UNCHANGED <<config, configured, address, timerVars, eventVars, kernelVars,
                 clock, clients, served, signalled>>

\* Nothing within the timeout, or a signal interrupted the wait.
WaitTimesOut ==
  /\ pc = "waiting"
  /\ Ready = {}
  /\ seen' = clock
  /\ pc' = "expiring"
  /\ UNCHANGED <<config, configured, address, mustStop, timerVars, eventVars, kernelVars,
                 clock, clients, served, signalled>>

-----------------------------------------------------------------------------
(* selector::process(): dispatch, one handler call per step.  The events    *)
(* of a batch may come in any order.  An event for a descriptor without a   *)
(* handler would be ignored; EventsReachTheirClient shows there is none.    *)

\* listener::on_readable() when accept() fails: no client any more, or no
\* descriptor for it.
AcceptNothing(ev) ==
  /\ kind[ev.fd] = "listener"
  /\ backlog[ev.fd] = 0 \/ Full(open)
  /\ batch' = batch \ {ev}
  /\ UNCHANGED <<loopVars, timerVars, current, kernelVars, timeVars, clients, served, signalled>>

\* Defect: accept() trusted to return a client.
AcceptUnchecked(ev) ==
  /\ kind[ev.fd] = "listener"
  /\ backlog' = [backlog EXCEPT ![ev.fd] = @ - 1]
  /\ batch' = batch \ {ev}
  /\ UNCHANGED <<loopVars, timerVars, current, kind, open, file, edge,
                 client, timeVars, clients, served, signalled>>

\* listener::on_readable() when on_new_connection() fails: what it had done is
\* undone and the socket is closed.  The iterator of the connection may be
\* left naming the timer that was added and deleted again.
AcceptRefused(ev) ==
  /\ kind[ev.fd] = "listener"
  /\ backlog[ev.fd] > 0
  /\ \E fd \in Fd :
       /\ LowestFree(open, fd)
       /\ node' \in {node, [node EXCEPT ![fd] = Deadline(fd)]}
  /\ backlog' = [backlog EXCEPT ![ev.fd] = @ - 1]
  /\ batch' = batch \ {ev}
  /\ UNCHANGED <<loopVars, timers, timerSet, armed, current, kind, open, file, edge,
                 client, timeVars, clients, served, signalled>>

\* listener::on_readable() when on_new_connection() succeeds.  A new socket is
\* writable; it may be readable already.
Accept(ev) ==
  /\ kind[ev.fd] = "listener"
  /\ backlog[ev.fd] > 0
  /\ backlog' = [backlog EXCEPT ![ev.fd] = @ - 1]
  /\ \E fd \in Fd, e \in {{"out"}, {"in", "out"}} :
       /\ LowestFree(open, fd)
       /\ open' = [open EXCEPT ![fd] = "connected"]
       /\ kind' = [kind EXCEPT ![fd] = "socket"]
       /\ timers' = timers \cup {Deadline(fd)}
       /\ node' = [node EXCEPT ![fd] = Deadline(fd)]
       /\ timerSet' = [timerSet EXCEPT ![fd] = TRUE]
       /\ edge' = [edge EXCEPT ![fd] = e]
       /\ armed' = [armed EXCEPT ![fd] = seen]
       /\ client' = [client EXCEPT ![fd] = served + 1]
  /\ served' = served + 1
  /\ batch' = batch \ {ev}
  /\ UNCHANGED <<loopVars, current, file, timeVars, clients, signalled>>

\* Defect: add_timer() without the delete_timer() it starts with.
TimerAddedTwice(fd, effect) ==
  /\ effect = "arm"
  /\ timers' = timers \cup {Deadline(fd)}
  /\ node' = [node EXCEPT ![fd] = Deadline(fd)]
  /\ timerSet' = [timerSet EXCEPT ![fd] = TRUE]
  /\ armed' = [armed EXCEPT ![fd] = seen]

\* Defect: _M_timer_set set although the timer was not inserted.
TimerNotInserted(fd, effect) ==
  /\ effect = "arm"
  /\ timers' = Unqueued(fd)
  /\ timerSet' = [timerSet EXCEPT ![fd] = TRUE]
  /\ UNCHANGED <<node, armed>>

\* What a call of run() that returns true leaves behind: the timer as
\* add_timer() or delete_timer() set it last, or as it was.
TimerAfterRun(fd, effect) ==
  \/ /\ effect = "arm"
     /\ timers' = Unqueued(fd) \cup {Deadline(fd)}
     /\ node' = [node EXCEPT ![fd] = Deadline(fd)]
     /\ timerSet' = [timerSet EXCEPT ![fd] = TRUE]
     /\ armed' = [armed EXCEPT ![fd] = seen]
  \/ /\ effect = "clear"
     /\ timers' = Unqueued(fd)
     /\ timerSet' = [timerSet EXCEPT ![fd] = FALSE]
     /\ UNCHANGED <<node, armed>>
  \/ /\ effect = "keep"
     /\ UNCHANGED timerVars

\* ... and the file of the request it is answering: the same one, none, or
\* another one, opened after the last one was closed.
FileAfterRun(fd) ==
  \/ UNCHANGED <<file, open>>
  \/ /\ file[fd] # None
     /\ open' = FileClosed(fd)
     /\ file' = [file EXCEPT ![fd] = None]
  \/ \E f \in Fd :
       /\ LowestFree(FileClosed(fd), f)
       /\ open' = [FileClosed(fd) EXCEPT ![f] = "file"]
       /\ file' = [file EXCEPT ![fd] = f]

\* run() returned true.  What it read or wrote since the last epoll_wait() may
\* change what epoll reports of an event that came in the meantime.
Keep(fd) ==
  /\ \E effect \in TimerEffects : TimerAfterRun(fd, effect)
  /\ FileAfterRun(fd)
  /\ \E e \in Mask : /\ edge[fd] = {} => e = {}
                     /\ edge' = [edge EXCEPT ![fd] = e]
  /\ UNCHANGED <<kind, backlog, client>>

\* Defect: free() without delete_timer().
DropKeepsTimer(fd) ==
  /\ file' = [file EXCEPT ![fd] = None]
  /\ open' = [FileClosed(fd) EXCEPT ![fd] = "free"]
  /\ kind' = [kind EXCEPT ![fd] = "none"]
  /\ edge' = [edge EXCEPT ![fd] = {}]
  /\ client' = [client EXCEPT ![fd] = Nobody]
  /\ UNCHANGED <<timerVars, backlog>>

\* Defect: the file is closed but its number is not forgotten.
DropKeepsFileNumber(fd) ==
  /\ timers' = Unqueued(fd)
  /\ timerSet' = [timerSet EXCEPT ![fd] = FALSE]
  /\ open' = [FileClosed(fd) EXCEPT ![fd] = "free"]
  /\ kind' = [kind EXCEPT ![fd] = "none"]
  /\ edge' = [edge EXCEPT ![fd] = {}]
  /\ client' = [client EXCEPT ![fd] = Nobody]
  /\ UNCHANGED <<node, armed, backlog, file>>

\* run() returned false: connection::free(), then selector::remove().
Drop(fd) ==
  /\ timers' = Unqueued(fd)
  /\ timerSet' = [timerSet EXCEPT ![fd] = FALSE]
  /\ file' = [file EXCEPT ![fd] = None]
  /\ open' = [FileClosed(fd) EXCEPT ![fd] = "free"]
  /\ kind' = [kind EXCEPT ![fd] = "none"]
  /\ edge' = [edge EXCEPT ![fd] = {}]
  /\ client' = [client EXCEPT ![fd] = Nobody]
  /\ UNCHANGED <<node, armed, backlog>>

\* EPOLLIN of a socket: tcp_connection::on_readable().  When it keeps the
\* connection and the event has EPOLLOUT too, on_writable() comes next.
OnReadable(ev) ==
  /\ kind[ev.fd] = "socket"
  /\ "in" \in ev.events
  /\ batch' = batch \ {ev}
  /\ \/ Keep(ev.fd) /\ current' = {ev} \cap {e \in batch : "out" \in e.events}
     \/ Drop(ev.fd) /\ UNCHANGED current
  /\ UNCHANGED <<loopVars, timeVars, clients, served, signalled>>

\* EPOLLOUT alone.
OnlyWritable(ev) ==
  /\ kind[ev.fd] = "socket"
  /\ ev.events = {"out"}
  /\ batch' = batch \ {ev}
  /\ Keep(ev.fd) \/ Drop(ev.fd)
  /\ UNCHANGED <<loopVars, current, timeVars, clients, served, signalled>>

\* EPOLLOUT of an event whose EPOLLIN has been handled.
ThenWritable(ev) ==
  /\ current' = {}
  /\ Keep(ev.fd) \/ Drop(ev.fd)
  /\ UNCHANGED <<loopVars, batch, timeVars, clients, served, signalled>>

Dispatch ==
  /\ pc = "dispatching"
  /\ \/ \E ev \in current : ThenWritable(ev)
     \/ /\ current = {}
        /\ \E ev \in batch : \/ AcceptNothing(ev)
                             \/ AcceptRefused(ev)
                             \/ Accept(ev)
                             \/ OnReadable(ev)
                             \/ OnlyWritable(ev)

Dispatched ==
  /\ pc = "dispatching"
  /\ batch = {} /\ current = {}
  /\ pc' = "expiring"
  /\ UNCHANGED <<config, configured, address, mustStop, timerVars, eventVars, kernelVars,
                 timeVars, clients, served, signalled>>

-----------------------------------------------------------------------------
(* timers::handle_expired() and the test of the loop.                      *)

\* The comparison of timers.cpp:11, on unsigned values.
Expired(t) == Now >= t.msec

\* Defect: a connection that times out closes neither its socket nor its file.
ExpireLeaks(t) ==
  /\ Expired(t)
  /\ timers' = timers \ {t}
  /\ timerSet' = [timerSet EXCEPT ![t.conn] = FALSE]
  /\ file' = [file EXCEPT ![t.conn] = None]
  /\ kind' = [kind EXCEPT ![t.conn] = "none"]
  /\ edge' = [edge EXCEPT ![t.conn] = {}]
  /\ client' = [client EXCEPT ![t.conn] = Nobody]
  /\ UNCHANGED <<loopVars, node, armed, eventVars, open, backlog, timeVars, clients, served,
                 signalled>>

\* connection::on_timer(): the flag is cleared first, so that free() leaves the
\* timer in the queue; handle_expired() then erases it.
Expire(t) ==
  /\ Expired(t)
  /\ timers' = timers \ {t}
  /\ timerSet' = [timerSet EXCEPT ![t.conn] = FALSE]
  /\ file' = [file EXCEPT ![t.conn] = None]
  /\ open' = [FileClosed(t.conn) EXCEPT ![t.conn] = IF kind[t.conn] = "none" THEN @ ELSE "free"]
  /\ kind' = [kind EXCEPT ![t.conn] = "none"]
  /\ edge' = [edge EXCEPT ![t.conn] = {}]
  /\ client' = [client EXCEPT ![t.conn] = Nobody]
  /\ UNCHANGED <<loopVars, node, armed, eventVars, backlog, timeVars, clients, served,
                 signalled>>

HandleExpired ==
  /\ pc = "expiring"
  /\ \E t \in Heads : Expire(t)

\* Defect: at most one timer handled per turn of the loop.
LoopTestTooEarly ==
  /\ pc = "expiring"
  /\ pc' = IF mustStop THEN "done" ELSE "waiting"
  /\ UNCHANGED <<config, configured, address, mustStop, timerVars, eventVars, kernelVars,
                 timeVars, clients, served, signalled>>

\* No timer has expired: while (!_M_must_stop).
LoopTest ==
  /\ pc = "expiring"
  /\ \/ timers = {}
     \/ \E t \in Heads : ~Expired(t)
  /\ pc' = IF mustStop THEN "done" ELSE "waiting"
  /\ UNCHANGED <<config, configured, address, mustStop, timerVars, eventVars, kernelVars,
                 timeVars, clients, served, signalled>>

-----------------------------------------------------------------------------
(* The environment.                                                        *)

Connects ==
  /\ clients < MaxClients
  /\ clock <= LastArrival
  /\ pc # "done"
  /\ \E fd \in Fd : kind[fd] = "listener" /\ backlog' = [backlog EXCEPT ![fd] = @ + 1]
  /\ clients' = clients + 1
  /\ UNCHANGED <<loopVars, timerVars, eventVars, kind, open, file, edge, client,
                 timeVars, served, signalled>>

\* A client goes away before it is accepted.
Aborts ==
  /\ clock <= LastArrival
  /\ pc # "done"
  /\ \E fd \in Fd : backlog[fd] > 0 /\ backlog' = [backlog EXCEPT ![fd] = @ - 1]
  /\ UNCHANGED <<loopVars, timerVars, eventVars, kind, open, file, edge, client,
                 timeVars, clients, served, signalled>>

\* Data or the end of the stream arrives, or buffer space becomes free.
PeerActs ==
  /\ clock <= LastArrival
  /\ pc # "done"
  /\ \E fd \in Fd, e \in {"in", "out"} :
       /\ kind[fd] = "socket"
       /\ e \notin edge[fd]
       /\ edge' = [edge EXCEPT ![fd] = @ \cup {e}]
  /\ UNCHANGED <<loopVars, timerVars, eventVars, kind, open, file, backlog, client,
                 timeVars, clients, served, signalled>>

Tick ==
  /\ clock < MaxClock
  /\ clock - seen < MaxLag
  /\ pc # "done"
  /\ clock' = clock + 1
  /\ UNCHANGED <<loopVars, timerVars, eventVars, kernelVars, seen, clients, served,
                 signalled>>

\* signal_handler() calls tcp_server::stop().  The handler is installed before
\* the server is created.
Phase == IF pc \in {"listening", "starting"} THEN "starting" ELSE "running"

Signal ==
  /\ pc # "done"
  /\ signalled = "no"
  /\ Phase \in Signals
  /\ signalled' = Phase
  /\ mustStop' = TRUE
  /\ UNCHANGED <<pc, config, configured, address, timerVars, eventVars, kernelVars,
                 timeVars, clients, served>>

-----------------------------------------------------------------------------
Server ==
  \/ Listen \/ ListenFails \/ Created \/ Start \/ StartRefused
  \/ WaitReturns \/ WaitTimesOut
  \/ Dispatch \/ Dispatched
  \/ HandleExpired \/ LoopTest

\* start() has returned: only stuttering is left.
Terminated == pc = "done" /\ UNCHANGED vars

Next == Server \/ Connects \/ Aborts \/ PeerActs \/ Tick \/ Signal \/ Terminated

Spec == Init /\ [][Next]_vars

\* The process runs as long as it can do something, and time passes.
FairSpec == Spec /\ WF_vars(Server) /\ WF_vars(Tick)

-----------------------------------------------------------------------------
\* Type invariant.
TypeOK ==
  /\ pc \in {"listening", "starting", "waiting", "dispatching", "expiring", "done"}
  /\ config \in Configs /\ configured \in 0 .. Len(config)
  /\ address \in [Fd -> Address]
  /\ mustStop \in BOOLEAN
  /\ kind \in [Fd -> {"none", "listener", "socket"}]
  /\ timers \subseteq Timer
  /\ timerSet \in [Fd -> BOOLEAN]
  /\ node \in [Fd -> Timer]
  /\ file \in [Fd -> Fd \cup {None}]
  /\ batch \subseteq Event /\ current \subseteq Event
  /\ open \in [Fd -> {"free", "listening", "connected", "file"}]
  /\ backlog \in [Fd -> Nat]
  /\ edge \in [Fd -> Mask]
  /\ clock \in Nat /\ seen \in Nat /\ clients \in Nat /\ served \in Nat
  /\ client \in [Fd -> Nat]
  /\ armed \in [Fd -> Nat]
  /\ signalled \in {"no", "starting", "running"}

\* No timer outlives its connection and none is inherited by the next
\* connection with the same descriptor: the queue holds, for the connections
\* that are served and whose _M_timer_set is 1, the one node their iterator
\* names, and nothing else.  So erase() never gets a dangling iterator and
\* on_timer() never a connection that is not in use.
TimersAreOwned ==
  /\ \A t \in timers : timerSet[t.conn] /\ node[t.conn] = t
  /\ \A fd \in Fd : timerSet[fd] =>
        node[fd] \in timers /\ node[fd].conn = fd /\ kind[fd] = "socket"

\* The process and the kernel agree on what every descriptor is: what the
\* selector watches is open and is what it was registered as; an open file
\* belongs to exactly one connection that is still served.  Closing a
\* descriptor twice, or not at all, breaks this as soon as its number is used
\* for something else.
DescriptorsAgree ==
  /\ \A fd \in Fd : /\ open[fd] = "listening" <=> kind[fd] = "listener"
                    /\ open[fd] = "connected" <=> kind[fd] = "socket"
  /\ \A fd \in Fd : file[fd] # None => open[file[fd]] = "file" /\ kind[fd] = "socket"
  /\ \A f, g \in Fd : file[f] = file[g] /\ file[f] # None => f = g
  /\ \A fd \in Fd : open[fd] = "file" => \E f \in Fd : file[f] = fd

\* An event is dispatched to the connection that it was reported for, although
\* connections are closed and descriptors reused while the batch of events is
\* processed: what the batch still holds for a descriptor is meant for the
\* client served on it now.
EventsReachTheirClient ==
  \A ev \in batch \cup current : kind[ev.fd] # "none" /\ client[ev.fd] = ev.client

\* After handle_expired() no timer that is due is left in the queue, however
\* the deadlines are ordered in it.
NoneOverdue ==
  [][pc = "expiring" /\ pc' # "expiring" =>
       \A fd \in Fd : timerSet[fd] => seen - armed[fd] < MaxIdle]_vars

\* The timer closes a connection only once it has been idle for MaxIdle.
NoEarlyTimeout ==
  [][pc = "expiring" =>
       \A fd \in Fd : client[fd] # Nobody /\ client'[fd] = Nobody
                        => seen - armed[fd] >= MaxIdle]_vars

\* A connection whose timer stays armed is closed in the end.
Idling(c) == \E fd \in Fd : client[fd] = c /\ timerSet[fd]
IdleIsClosed ==
  \A c \in 1 .. MaxClients : Idling(c) ~> ~Idling(c) \/ pc = "done"

\* No run() leaves its connection without a timer.
AllTimed == pc = "waiting" => \A fd \in Fd : client[fd] # Nobody => timerSet[fd]

\* Then clients that wait for a descriptor, which connections and the files
\* they serve have taken, get one in the end: idle connections give theirs up.
BacklogIsServed ==
  []AllTimed => \A fd \in Fd : backlog[fd] > 0 ~> backlog[fd] = 0 \/ pc = "done"

\* stop() called while the loop runs ends the loop.
StopEndsTheLoop == signalled = "running" ~> pc = "done"

\* stop() called by the signal handler, at any time, makes the server stop.
StopIsNeverLost == signalled # "no" ~> pc = "done"
=============================================================================
