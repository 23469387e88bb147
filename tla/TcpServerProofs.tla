-------------------------- MODULE TcpServerProofs --------------------------
(***************************************************************************)
(* Proofs about TcpServer, for any set of descriptors, any configuration,  *)
(* any idle time, any width of the millisecond counter and any bound on    *)
(* the environment.                                                        *)
(***************************************************************************)
EXTENDS TcpServer, TLAPS

\* What a batch of events is while it is dispatched: at most one event for a
\* descriptor, and none outside the dispatching phase.
BatchIsApart ==
  /\ pc # "dispatching" => batch = {} /\ current = {}
  /\ \A e, f \in batch \cup current : e.fd = f.fd => e = f
  /\ \A e \in current : e \notin batch /\ kind[e.fd] = "socket"

\* The inductive invariant.  That descriptors are reused only after whatever
\* refers to them is gone needs all of its parts: a number is free only when
\* the selector does not watch it (DescriptorsAgree), so the client accepted
\* on it finds no timer (TimersAreOwned) and no event (EventsReachTheirClient)
\* of the client before it.
IInv ==
  /\ TypeOK
  /\ TimersAreOwned
  /\ DescriptorsAgree
  /\ EventsReachTheirClient
  /\ BatchIsApart

-----------------------------------------------------------------------------
LEMMA DeadlineType ==
  ASSUME TypeOK, NEW fd \in Fd
  PROVE  Deadline(fd) \in Timer
<1>1. Now \in Nat
  BY TimeAssumption DEF TypeOK, Now
<1>2. (Now + MaxIdle) % Modulus \in 0 .. Modulus - 1
  BY <1>1, TimeAssumption
<1>. QED
  BY <1>2 DEF Deadline, Timer

LEMMA FileClosedType ==
  ASSUME TypeOK, NEW fd \in Fd
  PROVE  FileClosed(fd) \in [Fd -> {"free", "listening", "connected", "file"}]
BY DEF TypeOK, FileClosed, None

LEMMA TypeInit == Init => TypeOK
<1>1. SUFFICES ASSUME Init PROVE TypeOK
  OBVIOUS
<1>2. Len(config) \in Nat /\ config \in Configs
  BY <1>1, ConfigAssumption DEF Init
<1>3. node \in [Fd -> Timer]
  BY <1>1, TimeAssumption DEF Init, Timer
<1>4. address \in [Fd -> Address]
  <2>1. NoAddress \in Address
    BY DEF Address
  <2>. QED
    BY <1>1, <2>1 DEF Init
<1>5. configured \in 0 .. Len(config)
  BY <1>1, <1>2 DEF Init
<1>. QED
  BY <1>1, <1>2, <1>3, <1>4, <1>5 DEF Init, TypeOK, Mask, None, Nobody

LEMMA TypeKeep ==
  ASSUME TypeOK, NEW fd \in Fd, Keep(fd)
  PROVE  /\ timers' \subseteq Timer /\ timerSet' \in [Fd -> BOOLEAN]
         /\ node' \in [Fd -> Timer] /\ armed' \in [Fd -> Nat]
         /\ file' \in [Fd -> Fd \cup {None}]
         /\ open' \in [Fd -> {"free", "listening", "connected", "file"}]
         /\ edge' \in [Fd -> Mask]
         /\ UNCHANGED <<kind, backlog, client>>
<1>1. PICK effect \in TimerEffects : TimerAfterRun(fd, effect)
  BY DEF Keep
<1>2. Deadline(fd) \in Timer /\ Unqueued(fd) \subseteq Timer
  BY DeadlineType DEF Unqueued, TypeOK
<1>3. /\ timers' \subseteq Timer /\ timerSet' \in [Fd -> BOOLEAN]
      /\ node' \in [Fd -> Timer] /\ armed' \in [Fd -> Nat]
  <2>1. CASE effect = "arm"
    <3>1. /\ timers' = Unqueued(fd) \cup {Deadline(fd)}
          /\ node' = [node EXCEPT ![fd] = Deadline(fd)]
          /\ timerSet' = [timerSet EXCEPT ![fd] = TRUE]
          /\ armed' = [armed EXCEPT ![fd] = seen]
      BY <1>1, <2>1 DEF TimerAfterRun
    <3>2. timers' \subseteq Timer /\ node' \in [Fd -> Timer]
      BY <1>2, <3>1 DEF TypeOK
    <3>. QED
      BY <3>1, <3>2 DEF TypeOK
  <2>2. CASE effect = "clear"
    BY <1>1, <1>2, <2>2 DEF TimerAfterRun, TypeOK
  <2>3. CASE effect = "keep"
    BY <1>1, <2>3 DEF TimerAfterRun, TypeOK, timerVars
  <2>. QED
    BY <2>1, <2>2, <2>3, EffectAssumption
<1>4. FileAfterRun(fd) /\ UNCHANGED <<kind, backlog, client>>
  BY DEF Keep
<1>6. edge' \in [Fd -> Mask]
  BY DEF Keep, TypeOK
<1>5. /\ file' \in [Fd -> Fd \cup {None}]
      /\ open' \in [Fd -> {"free", "listening", "connected", "file"}]
  <2>1. FileClosed(fd) \in [Fd -> {"free", "listening", "connected", "file"}]
    BY FileClosedType
  <2>2. CASE UNCHANGED <<file, open>>
    BY <2>2 DEF TypeOK
  <2>3. CASE open' = FileClosed(fd) /\ file' = [file EXCEPT ![fd] = None]
    BY <2>1, <2>3 DEF TypeOK
  <2>4. CASE \E f \in Fd : /\ open' = [FileClosed(fd) EXCEPT ![f] = "file"]
                           /\ file' = [file EXCEPT ![fd] = f]
    BY <2>1, <2>4, SMTT(30) DEF TypeOK
  <2>. QED
    BY <1>4, <2>2, <2>3, <2>4 DEF FileAfterRun
<1>. QED
  BY <1>3, <1>4, <1>5, <1>6

LEMMA TypeDrop ==
  ASSUME TypeOK, NEW fd \in Fd, Drop(fd)
  PROVE  /\ timers' \subseteq Timer /\ timerSet' \in [Fd -> BOOLEAN]
         /\ node' \in [Fd -> Timer] /\ armed' \in [Fd -> Nat]
         /\ file' \in [Fd -> Fd \cup {None}]
         /\ open' \in [Fd -> {"free", "listening", "connected", "file"}]
         /\ kind' \in [Fd -> {"none", "listener", "socket"}]
         /\ edge' \in [Fd -> Mask]
         /\ client' \in [Fd -> Nat]
         /\ UNCHANGED backlog
BY FileClosedType DEF Drop, TypeOK, Unqueued, Mask, Nobody, None

LEMMA TypeListen == ASSUME TypeOK, Listen PROVE TypeOK'
<1> DEFINE addr == config[configured + 1]
<1>1. /\ configured \in Nat /\ configured < Len(config)
      /\ configured' = configured + 1
      /\ UNCHANGED <<pc, config, mustStop, timerVars, eventVars, file, backlog, edge, client,
                     timeVars, clients, served, signalled>>
  <2>1. config \in Seq(STRING)
    BY ConfigAssumption DEF TypeOK
  <2>. QED
    BY <2>1 DEF Listen, TypeOK
<1>2. addr \in Address
  <2>1. config \in Seq(STRING) /\ config \in Configs
    BY ConfigAssumption DEF TypeOK
  <2>2. configured + 1 \in DOMAIN config
    BY <1>1, <2>1
  <2>. QED
    BY <2>1, <2>2 DEF Address
<1>3. /\ address' \in [Fd -> Address]
      /\ open' \in [Fd -> {"free", "listening", "connected", "file"}]
      /\ kind' \in [Fd -> {"none", "listener", "socket"}]
  <2>1. CASE UNCHANGED <<address, kind, open>>
    BY <2>1 DEF TypeOK
  <2>2. CASE \E fd \in Fd : /\ open' = [open EXCEPT ![fd] = "listening"]
                            /\ kind' = [kind EXCEPT ![fd] = "listener"]
                            /\ address' = [address EXCEPT ![fd] = addr]
    BY <1>2, <2>2 DEF TypeOK
  <2>. QED
    BY <2>1, <2>2 DEF Listen
<1>4. configured' \in 0 .. Len(config')
  <2>1. Len(config) \in Nat
    BY ConfigAssumption DEF TypeOK
  <2>. QED
    BY <1>1, <2>1
<1>. QED
  BY <1>1, <1>3, <1>4 DEF TypeOK, timerVars, eventVars, timeVars

LEMMA TypeWait == ASSUME TypeOK, WaitReturns PROVE TypeOK'
<1>1. PICK mask \in [Ready -> Mask] :
        batch' = {[fd |-> fd, events |-> mask[fd], client |-> client[fd]] : fd \in Ready}
  BY DEF WaitReturns
<1>2. Ready \subseteq Fd
  BY DEF Ready
<1>3. batch' \subseteq Event
  BY <1>1, <1>2 DEF Event, TypeOK
<1>4. edge' \in [Fd -> Mask]
  BY DEF WaitReturns, TypeOK, Mask
<1>. QED
  BY <1>3, <1>4 DEF WaitReturns, TypeOK, timerVars

LEMMA TypeAcceptRefused ==
  ASSUME TypeOK, NEW ev \in batch, AcceptRefused(ev) PROVE TypeOK'
<1>1. ev.fd \in Fd
  BY DEF TypeOK, Event
<1>2. node' \in [Fd -> Timer]
  BY DeadlineType, ZenonT(40) DEF AcceptRefused, TypeOK
<1>3. backlog' \in [Fd -> Nat]
  BY <1>1 DEF AcceptRefused, TypeOK
<1>. QED
  BY <1>2, <1>3 DEF AcceptRefused, TypeOK, loopVars, timeVars

LEMMA TypeAccept ==
  ASSUME TypeOK, NEW ev \in batch, Accept(ev) PROVE TypeOK'
<1>1. ev.fd \in Fd
  BY DEF TypeOK, Event
<1>2. PICK fd \in Fd, e \in {{"out"}, {"in", "out"}} :
        /\ open' = [open EXCEPT ![fd] = "connected"]
        /\ kind' = [kind EXCEPT ![fd] = "socket"]
        /\ timers' = timers \cup {Deadline(fd)}
        /\ node' = [node EXCEPT ![fd] = Deadline(fd)]
        /\ timerSet' = [timerSet EXCEPT ![fd] = TRUE]
        /\ edge' = [edge EXCEPT ![fd] = e]
        /\ armed' = [armed EXCEPT ![fd] = seen]
        /\ client' = [client EXCEPT ![fd] = served + 1]
  BY DEF Accept
<1>3. /\ open' \in [Fd -> {"free", "listening", "connected", "file"}]
      /\ kind' \in [Fd -> {"none", "listener", "socket"}]
  BY <1>2 DEF TypeOK
<1>4. timers' \subseteq Timer /\ node' \in [Fd -> Timer]
  BY <1>2, DeadlineType DEF TypeOK
<1>5. timerSet' \in [Fd -> BOOLEAN] /\ armed' \in [Fd -> Nat] /\ client' \in [Fd -> Nat]
  BY <1>2 DEF TypeOK
<1>6. edge' \in [Fd -> Mask]
  BY <1>2 DEF TypeOK, Mask
<1>7. backlog' \in [Fd -> Nat] /\ served' \in Nat
  BY <1>1, SMTT(30) DEF Accept, TypeOK
<1>. QED
  BY <1>3, <1>4, <1>5, <1>6, <1>7 DEF Accept, TypeOK, loopVars, timeVars

\* Keep and Drop, wherever they occur.
LEMMA TypeRun ==
  ASSUME TypeOK, NEW fd \in Fd, Keep(fd) \/ Drop(fd),
         batch' \subseteq Event, current' \subseteq Event,
         UNCHANGED <<loopVars, timeVars, clients, served, signalled>>
  PROVE  TypeOK'
<1>1. CASE Keep(fd)
  BY <1>1, TypeKeep DEF TypeOK, loopVars, timeVars
<1>2. CASE Drop(fd)
  BY <1>2, TypeDrop DEF TypeOK, loopVars, timeVars
<1>. QED
  BY <1>1, <1>2

LEMMA TypeDispatch == ASSUME TypeOK, Dispatch PROVE TypeOK'
<1>1. ASSUME NEW ev \in current, ThenWritable(ev) PROVE TypeOK'
  BY <1>1, TypeRun DEF ThenWritable, TypeOK, Event
<1>2. ASSUME NEW ev \in batch, AcceptNothing(ev) PROVE TypeOK'
  BY <1>2 DEF AcceptNothing, TypeOK, loopVars, timerVars, kernelVars, timeVars
<1>3. ASSUME NEW ev \in batch, OnReadable(ev) PROVE TypeOK'
  <2>1. ev.fd \in Fd /\ batch' \subseteq Event /\ current' \subseteq Event
    BY <1>3 DEF OnReadable, TypeOK, Event
  <2>. QED
    BY <1>3, <2>1, TypeRun DEF OnReadable
<1>4. ASSUME NEW ev \in batch, OnlyWritable(ev) PROVE TypeOK'
  <2>1. ev.fd \in Fd /\ batch' \subseteq Event /\ current' \subseteq Event
    BY <1>4 DEF OnlyWritable, TypeOK, Event
  <2>. QED
    BY <1>4, <2>1, TypeRun DEF OnlyWritable
<1>. QED
  BY <1>1, <1>2, <1>3, <1>4, TypeAccept, TypeAcceptRefused DEF Dispatch

LEMMA TypeExpire == ASSUME TypeOK, NEW t \in timers, Expire(t) PROVE TypeOK'
<1>1. t.conn \in Fd /\ FileClosed(t.conn) \in [Fd -> {"free", "listening", "connected", "file"}]
  BY FileClosedType DEF TypeOK, Timer
<1>2. /\ open' \in [Fd -> {"free", "listening", "connected", "file"}]
      /\ kind' \in [Fd -> {"none", "listener", "socket"}]
      /\ edge' \in [Fd -> Mask] /\ client' \in [Fd -> Nat]
  BY <1>1 DEF Expire, TypeOK, Mask, Nobody
<1>3. /\ timers' \subseteq Timer /\ timerSet' \in [Fd -> BOOLEAN]
      /\ file' \in [Fd -> Fd \cup {None}]
  BY <1>1 DEF Expire, TypeOK, None
<1>. QED
  BY <1>2, <1>3 DEF Expire, TypeOK, loopVars, eventVars, timeVars

LEMMA TypeEnvironment ==
  ASSUME TypeOK, Connects \/ Aborts \/ PeerActs \/ Tick \/ Signal
  PROVE  TypeOK'
<1>. USE DEF TypeOK, loopVars, timerVars, eventVars, kernelVars, timeVars
<1>1. CASE Connects
  BY <1>1 DEF Connects
<1>2. CASE Aborts
  <2>1. backlog' \in [Fd -> Nat]
    BY <1>2 DEF Aborts
  <2>. QED
    BY <1>2, <2>1 DEF Aborts
<1>3. CASE PeerActs
  <2>1. edge' \in [Fd -> Mask]
    BY <1>3 DEF PeerActs, Mask
  <2>. QED
    BY <1>3, <2>1 DEF PeerActs
<1>4. CASE Tick
  BY <1>4 DEF Tick
<1>5. CASE Signal
  BY <1>5 DEF Signal, Phase
<1>. QED
  BY <1>1, <1>2, <1>3, <1>4, <1>5

LEMMA TypeNext == TypeOK /\ [Next]_vars => TypeOK'
<1>1. SUFFICES ASSUME TypeOK, [Next]_vars PROVE TypeOK'
  OBVIOUS
<1>. USE DEF loopVars, timerVars, eventVars, kernelVars, timeVars
<1>2. CASE ListenFails \/ Created \/ Start \/ StartRefused
  BY <1>1, <1>2 DEF ListenFails, Created, Start, StartRefused, TypeOK
<1>3. CASE WaitTimesOut \/ Dispatched \/ LoopTest
  BY <1>1, <1>3 DEF WaitTimesOut, Dispatched, LoopTest, TypeOK
<1>4. CASE HandleExpired
  BY <1>1, <1>4, TypeExpire DEF HandleExpired, Heads
<1>5. CASE UNCHANGED vars
  BY <1>1, <1>5 DEF vars, TypeOK
<1>. QED
  BY <1>1, <1>2, <1>3, <1>4, <1>5, TypeListen, TypeWait, TypeDispatch, TypeEnvironment
  DEF Next, Server, Terminated

\* Every variable keeps its type: no index of a descriptor, no backlog and no
\* deadline leaves its range.
THEOREM TypeCorrect == Spec => []TypeOK
<1>. QED
  BY TypeInit, TypeNext, PTL DEF Spec

-----------------------------------------------------------------------------
LEMMA InvInit == Init => IInv
<1>1. SUFFICES ASSUME Init PROVE IInv
  OBVIOUS
<1>2. TypeOK
  BY <1>1, TypeInit
<1>. QED
  BY <1>1, <1>2
  DEF Init, IInv, TimersAreOwned, DescriptorsAgree, EventsReachTheirClient, BatchIsApart

\* A free descriptor is not watched, has no timer and no event.
LEMMA FreeIsUnused ==
  ASSUME IInv, NEW fd \in Fd, open[fd] = "free"
  PROVE  /\ kind[fd] = "none" /\ ~timerSet[fd]
         /\ \A t \in timers : t.conn # fd
         /\ \A ev \in batch \cup current : ev.fd # fd
         /\ \A f \in Fd : file[f] # fd
<1>1. kind[fd] = "none"
  <2>1. kind[fd] \in {"none", "listener", "socket"}
    BY DEF IInv, TypeOK
  <2>2. \A g \in Fd : /\ open[g] = "listening" <=> kind[g] = "listener"
                      /\ open[g] = "connected" <=> kind[g] = "socket"
    BY DEF IInv, DescriptorsAgree
  <2>. QED
    BY <2>1, <2>2
<1>2. \A f \in Fd : file[f] # fd
  <2>1. fd # None
    BY FdAssumption DEF None
  <2>2. \A f \in Fd : file[f] # None => open[file[f]] = "file"
    BY DEF IInv, DescriptorsAgree
  <2>. QED
    BY <2>1, <2>2
<1>3. ~timerSet[fd]
  BY <1>1 DEF IInv, TimersAreOwned
<1>4. \A t \in timers : t.conn # fd
  BY <1>3 DEF IInv, TimersAreOwned
<1>. QED
  BY <1>1, <1>2, <1>3, <1>4 DEF IInv, EventsReachTheirClient

LEMMA TimersUntouched ==
  ASSUME TimersAreOwned, UNCHANGED <<timers, timerSet, node, kind>>
  PROVE  TimersAreOwned'
BY DEF TimersAreOwned

LEMMA TimersKeep ==
  ASSUME IInv, NEW fd \in Fd, kind[fd] = "socket", Keep(fd)
  PROVE  TimersAreOwned'
<1>1. PICK effect \in TimerEffects : TimerAfterRun(fd, effect)
  BY DEF Keep
<1>2. kind' = kind /\ node \in [Fd -> Timer] /\ timerSet \in [Fd -> BOOLEAN] /\ timers \subseteq Timer
  BY DEF Keep, IInv, TypeOK
<1>3. \A t \in timers : t.conn \in Fd
  BY <1>2 DEF Timer
<1>4. \A t \in timers : t.conn = fd => t \notin Unqueued(fd)
  BY <1>3 DEF IInv, TimersAreOwned, Unqueued
<1>5. \A t \in timers : t.conn # fd => t \in Unqueued(fd)
  BY <1>3 DEF IInv, TimersAreOwned, Unqueued
<1>6. Unqueued(fd) \subseteq timers
  BY DEF Unqueued
<1>7. CASE effect = "arm"
  <2>1. /\ timers' = Unqueued(fd) \cup {Deadline(fd)}
        /\ node' = [node EXCEPT ![fd] = Deadline(fd)]
        /\ timerSet' = [timerSet EXCEPT ![fd] = TRUE]
    BY <1>1, <1>7 DEF TimerAfterRun
  <2>2. Deadline(fd).conn = fd
    BY DEF Deadline
  <2>3. \A t \in timers' : timerSet'[t.conn] /\ node'[t.conn] = t
    BY <1>2, <1>3, <1>4, <1>6, <2>1, <2>2 DEF IInv, TimersAreOwned
  <2>4. \A g \in Fd : timerSet'[g] =>
           node'[g] \in timers' /\ node'[g].conn = g /\ kind'[g] = "socket"
    <3>1. ASSUME NEW g \in Fd, timerSet'[g], g # fd
          PROVE  node'[g] \in timers' /\ node'[g].conn = g /\ kind'[g] = "socket"
      <4>1. /\ timerSet[g] /\ node[g] \in timers /\ kind[g] = "socket" /\ node'[g] = node[g]
            /\ node[g].conn = g
        BY <1>2, <2>1, <3>1 DEF IInv, TimersAreOwned
      <4>2. node[g] # node[fd] \/ ~timerSet[fd]
        BY <3>1, <4>1 DEF IInv, TimersAreOwned
      <4>. QED
        BY <1>2, <2>1, <4>1, <4>2 DEF Unqueued
    <3>. QED
      BY <1>2, <2>1, <2>2, <3>1
  <2>. QED
    BY <2>3, <2>4 DEF TimersAreOwned
<1>8. CASE effect = "clear"
  <2>1. timers' = Unqueued(fd) /\ timerSet' = [timerSet EXCEPT ![fd] = FALSE] /\ node' = node
    BY <1>1, <1>8 DEF TimerAfterRun
  <2>. QED
    <3>1. \A t \in timers' : t \in timers /\ t.conn # fd
      BY <1>4, <1>6, <2>1
    <3>2. \A t \in timers' : timerSet'[t.conn] /\ node'[t.conn] = t
      BY <1>2, <1>3, <2>1, <3>1 DEF IInv, TimersAreOwned
    <3>3. ASSUME NEW g \in Fd, timerSet'[g]
          PROVE  node'[g] \in timers' /\ node'[g].conn = g /\ kind'[g] = "socket"
      <4>1. g # fd /\ timerSet[g] /\ node[g] \in timers /\ kind[g] = "socket" /\ node[g].conn = g
        BY <1>2, <2>1, <3>3 DEF IInv, TimersAreOwned
      <4>. QED
        BY <1>2, <1>5, <2>1, <4>1
    <3>. QED
      BY <3>2, <3>3 DEF TimersAreOwned
<1>9. CASE effect = "keep"
  BY <1>1, <1>2, <1>9 DEF TimerAfterRun, timerVars, IInv, TimersAreOwned
<1>. QED
  BY <1>7, <1>8, <1>9, EffectAssumption

LEMMA TimersDrop ==
  ASSUME IInv, NEW fd \in Fd, kind[fd] = "socket", Drop(fd)
  PROVE  TimersAreOwned'
<1>1. /\ timers' = Unqueued(fd) /\ timerSet' = [timerSet EXCEPT ![fd] = FALSE] /\ node' = node
      /\ kind' = [kind EXCEPT ![fd] = "none"]
  BY DEF Drop
<1>2. /\ node \in [Fd -> Timer] /\ timerSet \in [Fd -> BOOLEAN]
      /\ \A t \in timers : t.conn \in Fd
      /\ kind \in [Fd -> {"none", "listener", "socket"}]
  BY DEF IInv, TypeOK, Timer
<1>3. \A t \in Unqueued(fd) : t \in timers /\ t.conn # fd
  BY <1>2 DEF IInv, TimersAreOwned, Unqueued
<1>4. \A t \in timers' : timerSet'[t.conn] /\ node'[t.conn] = t
  BY <1>1, <1>2, <1>3 DEF IInv, TimersAreOwned
<1>5. \A g \in Fd : timerSet'[g] =>
         node'[g] \in timers' /\ node'[g].conn = g /\ kind'[g] = "socket"
  <2>1. ASSUME NEW g \in Fd, timerSet'[g]
        PROVE  node'[g] \in timers' /\ node'[g].conn = g /\ kind'[g] = "socket"
    <3>1. g # fd /\ timerSet[g] /\ node[g] \in timers /\ kind[g] = "socket" /\ node[g].conn = g
      BY <1>1, <1>2, <2>1 DEF IInv, TimersAreOwned
    <3>2. node[g] # node[fd] \/ ~timerSet[fd]
      BY <3>1 DEF IInv, TimersAreOwned
    <3>. QED
      BY <1>1, <1>2, <3>1, <3>2 DEF Unqueued
  <2>. QED
    BY <2>1
<1>. QED
  BY <1>4, <1>5 DEF TimersAreOwned

LEMMA TimersExpire ==
  ASSUME IInv, NEW t \in timers, Expire(t)
  PROVE  TimersAreOwned'
<1>1. /\ timers' = timers \ {t} /\ timerSet' = [timerSet EXCEPT ![t.conn] = FALSE] /\ node' = node
      /\ kind' = [kind EXCEPT ![t.conn] = "none"]
  BY DEF Expire
<1>2. /\ node \in [Fd -> Timer] /\ timerSet \in [Fd -> BOOLEAN]
      /\ \A u \in timers : u.conn \in Fd
      /\ kind \in [Fd -> {"none", "listener", "socket"}]
  BY DEF IInv, TypeOK, Timer
<1>3. \A u \in timers : u # t => u.conn # t.conn
  BY <1>2 DEF IInv, TimersAreOwned
<1>4. \A u \in timers' : timerSet'[u.conn] /\ node'[u.conn] = u
  BY <1>1, <1>2, <1>3 DEF IInv, TimersAreOwned
<1>5. ASSUME NEW g \in Fd, timerSet'[g]
      PROVE  node'[g] \in timers' /\ node'[g].conn = g /\ kind'[g] = "socket"
  <2>1. g # t.conn /\ timerSet[g] /\ node[g] \in timers /\ kind[g] = "socket" /\ node[g].conn = g
    BY <1>1, <1>2, <1>5 DEF IInv, TimersAreOwned
  <2>. QED
    BY <1>1, <1>2, <2>1
<1>. QED
  BY <1>4, <1>5 DEF TimersAreOwned

LEMMA TimersNext == ASSUME IInv, Next PROVE TimersAreOwned'
<1>. USE DEF loopVars, timerVars, eventVars, kernelVars, timeVars
<1>1. TimersAreOwned
  BY DEF IInv
<1>2. CASE Listen
  <2>1. UNCHANGED <<timers, timerSet, node>>
    BY <1>2 DEF Listen
  <2>2. \A fd \in Fd : timerSet[fd] => kind'[fd] = kind[fd]
    <3>1. CASE UNCHANGED kind
      BY <3>1
    <3>2. CASE \E f \in Fd : LowestFree(open, f) /\ kind' = [kind EXCEPT ![f] = "listener"]
      <4>1. PICK f \in Fd : LowestFree(open, f) /\ kind' = [kind EXCEPT ![f] = "listener"]
        BY <3>2
      <4>2. ~timerSet[f]
        BY <4>1, FreeIsUnused DEF LowestFree
      <4>. QED
        BY <4>1, <4>2 DEF IInv, TypeOK
    <3>. QED
      BY <1>2, <3>1, <3>2 DEF Listen
  <2>. QED
    BY <1>1, <2>1, <2>2 DEF TimersAreOwned
<1>3. CASE UNCHANGED <<timers, timerSet, node, kind>>
  BY <1>1, <1>3, TimersUntouched
<1>4. ASSUME NEW ev \in batch, AcceptRefused(ev) PROVE TimersAreOwned'
  <2>1. PICK fd \in Fd : /\ LowestFree(open, fd)
                         /\ node' \in {node, [node EXCEPT ![fd] = Deadline(fd)]}
    BY <1>4 DEF AcceptRefused
  <2>2. ~timerSet[fd] /\ \A t \in timers : t.conn # fd
    BY <2>1, FreeIsUnused DEF LowestFree
  <2>3. UNCHANGED <<timers, timerSet, kind>>
    BY <1>4 DEF AcceptRefused
  <2>4. \A g \in Fd : g # fd => node'[g] = node[g]
    BY <2>1 DEF IInv, TypeOK
  <2>5. \A t \in timers : t.conn \in Fd
    BY DEF IInv, TypeOK, Timer
  <2>6. \A t \in timers' : timerSet'[t.conn] /\ node'[t.conn] = t
    BY <1>1, <2>2, <2>3, <2>4, <2>5 DEF TimersAreOwned
  <2>7. ASSUME NEW g \in Fd, timerSet'[g]
        PROVE  node'[g] \in timers' /\ node'[g].conn = g /\ kind'[g] = "socket"
    BY <1>1, <2>2, <2>3, <2>4, <2>7 DEF TimersAreOwned
  <2>. QED
    BY <2>6, <2>7 DEF TimersAreOwned
<1>5. ASSUME NEW ev \in batch, Accept(ev) PROVE TimersAreOwned'
  <2>1. PICK fd \in Fd :
          /\ LowestFree(open, fd)
          /\ kind' = [kind EXCEPT ![fd] = "socket"]
          /\ timers' = timers \cup {Deadline(fd)}
          /\ node' = [node EXCEPT ![fd] = Deadline(fd)]
          /\ timerSet' = [timerSet EXCEPT ![fd] = TRUE]
    BY <1>5 DEF Accept
  <2>2. ~timerSet[fd] /\ \A t \in timers : t.conn # fd
    BY <2>1, FreeIsUnused DEF LowestFree
  <2>3. /\ node \in [Fd -> Timer] /\ timerSet \in [Fd -> BOOLEAN]
        /\ \A t \in timers : t.conn \in Fd
        /\ kind \in [Fd -> {"none", "listener", "socket"}]
    BY DEF IInv, TypeOK, Timer
  <2>4. Deadline(fd).conn = fd
    BY DEF Deadline
  <2>5. \A t \in timers' : timerSet'[t.conn] /\ node'[t.conn] = t
    BY <1>1, <2>1, <2>2, <2>3, <2>4 DEF TimersAreOwned
  <2>6. ASSUME NEW g \in Fd, timerSet'[g]
        PROVE  node'[g] \in timers' /\ node'[g].conn = g /\ kind'[g] = "socket"
    <3>1. CASE g = fd
      BY <2>1, <2>3, <2>4, <3>1
    <3>2. CASE g # fd
      BY <1>1, <2>1, <2>3, <2>6, <3>2 DEF TimersAreOwned
    <3>. QED
      BY <3>1, <3>2
  <2>. QED
    BY <2>5, <2>6 DEF TimersAreOwned
<1>6. ASSUME NEW ev \in current, ThenWritable(ev) PROVE TimersAreOwned'
  <2>1. ev.fd \in Fd /\ kind[ev.fd] = "socket"
    BY DEF IInv, TypeOK, Event, BatchIsApart
  <2>. QED
    BY <1>6, <2>1, TimersKeep, TimersDrop DEF ThenWritable
<1>7. ASSUME NEW ev \in batch, OnReadable(ev) \/ OnlyWritable(ev) PROVE TimersAreOwned'
  <2>1. ev.fd \in Fd
    BY DEF IInv, TypeOK, Event
  <2>. QED
    BY <1>7, <2>1, TimersKeep, TimersDrop DEF OnReadable, OnlyWritable
<1>8. CASE Dispatch
  <2>1. ASSUME NEW ev \in batch, AcceptNothing(ev) PROVE UNCHANGED <<timers, timerSet, node, kind>>
    BY <2>1 DEF AcceptNothing
  <2>. QED
    BY <1>3, <1>4, <1>5, <1>6, <1>7, <1>8, <2>1 DEF Dispatch
<1>9. CASE HandleExpired
  BY <1>9, TimersExpire DEF HandleExpired, Heads
<1>10. CASE ListenFails \/ Created \/ Start \/ StartRefused \/ WaitReturns \/ WaitTimesOut
            \/ Dispatched \/ LoopTest
  BY <1>3, <1>10
  DEF ListenFails, Created, Start, StartRefused, WaitReturns, WaitTimesOut, Dispatched, LoopTest
<1>11. CASE Connects \/ Aborts \/ PeerActs \/ Tick \/ Signal \/ Terminated
  BY <1>3, <1>11 DEF Connects, Aborts, PeerActs, Tick, Signal, Terminated, vars
<1>. QED
  BY <1>2, <1>8, <1>9, <1>10, <1>11 DEF Next, Server

-----------------------------------------------------------------------------
(* The descriptors.  Agree is DescriptorsAgree of any three tables; each   *)
(* system call that opens or closes a descriptor keeps it.                 *)
OpenTable == [Fd -> {"free", "listening", "connected", "file"}]
KindTable == [Fd -> {"none", "listener", "socket"}]
FileTable == [Fd -> Fd \cup {None}]

Agree(o, k, f) ==
  /\ \A fd \in Fd : /\ o[fd] = "listening" <=> k[fd] = "listener"
                    /\ o[fd] = "connected" <=> k[fd] = "socket"
  /\ \A fd \in Fd : f[fd] # None => o[f[fd]] = "file" /\ k[fd] = "socket"
  /\ \A g, h \in Fd : f[g] = f[h] /\ f[g] # None => g = h
  /\ \A fd \in Fd : o[fd] = "file" => \E g \in Fd : f[g] = fd

\* close() of the file of fd.
LEMMA AgreeFileClosed ==
  ASSUME NEW o \in OpenTable, NEW k \in KindTable, NEW f \in FileTable,
         NEW fd \in Fd, Agree(o, k, f)
  PROVE  LET c == IF f[fd] = None THEN o ELSE [o EXCEPT ![f[fd]] = "free"]
         IN  c \in OpenTable /\ Agree(c, k, [f EXCEPT ![fd] = None])
<1>0. None \notin Fd
  BY FdAssumption DEF None
<1>1. CASE f[fd] = None
  <2>1. [f EXCEPT ![fd] = None] = f
    BY <1>1 DEF FileTable
  <2>. QED
    BY <1>1, <2>1
<1>2. CASE f[fd] # None
  <2>. DEFINE x == f[fd]
              c == [o EXCEPT ![x] = "free"]
              e == [f EXCEPT ![fd] = None]
  <2>1. x \in Fd /\ o[x] = "file"
    BY <1>2 DEF FileTable, Agree
  <2>2. c \in OpenTable
    BY <2>1 DEF OpenTable
  <2>3. /\ c[x] = "free"
        /\ \A g \in Fd : g # x => c[g] = o[g]
        /\ e[fd] = None
        /\ \A g \in Fd : g # fd => e[g] = f[g] /\ (f[g] # None => f[g] # x)
    <3>1. \A g \in Fd : g # fd /\ f[g] # None => f[g] # x
      BY DEF Agree
    <3>. QED
      BY <2>1, <3>1 DEF OpenTable, FileTable
  <2>4. \A g \in Fd : /\ c[g] = "listening" <=> k[g] = "listener"
                      /\ c[g] = "connected" <=> k[g] = "socket"
    BY <2>1, <2>3 DEF Agree
  <2>5. \A g \in Fd : e[g] # None => c[e[g]] = "file" /\ k[g] = "socket"
    BY <2>1, <2>3 DEF Agree, FileTable
  <2>6. \A g, h \in Fd : e[g] = e[h] /\ e[g] # None => g = h
    BY <2>3 DEF Agree
  <2>7. \A g \in Fd : c[g] = "file" => \E h \in Fd : e[h] = g
    <3>1. ASSUME NEW g \in Fd, c[g] = "file" PROVE \E h \in Fd : e[h] = g
      <4>1. g # x /\ o[g] = "file"
        BY <2>3, <3>1
      <4>2. PICK h \in Fd : f[h] = g
        BY <4>1 DEF Agree
      <4>. QED
        BY <2>3, <4>1, <4>2
    <3>. QED
      BY <3>1
  <2>8. Agree(c, k, e)
    BY <2>4, <2>5, <2>6, <2>7 DEF Agree
  <2>. QED
    BY <1>2, <2>2, <2>8
<1>. QED
  BY <1>1, <1>2

\* open() returns g to a connection without a file.
LEMMA AgreeFileOpened ==
  ASSUME NEW o \in OpenTable, NEW k \in KindTable, NEW f \in FileTable,
         NEW fd \in Fd, NEW g \in Fd, Agree(o, k, f),
         k[fd] = "socket", f[fd] = None, o[g] = "free"
  PROVE  Agree([o EXCEPT ![g] = "file"], k, [f EXCEPT ![fd] = g])
<1>. DEFINE c == [o EXCEPT ![g] = "file"]
            e == [f EXCEPT ![fd] = g]
<1>0. None \notin Fd
  BY FdAssumption DEF None
<1>1. /\ c[g] = "file" /\ \A h \in Fd : h # g => c[h] = o[h]
      /\ e[fd] = g /\ \A h \in Fd : h # fd => e[h] = f[h] /\ f[h] # g
  <2>1. \A h \in Fd : f[h] # g
    BY <1>0 DEF Agree
  <2>. QED
    BY <2>1 DEF OpenTable, FileTable
<1>2. k[g] = "none"
  BY DEF Agree, KindTable
<1>3. \A h \in Fd : /\ c[h] = "listening" <=> k[h] = "listener"
                    /\ c[h] = "connected" <=> k[h] = "socket"
  BY <1>1, <1>2 DEF Agree
<1>4. \A h \in Fd : e[h] # None => c[e[h]] = "file" /\ k[h] = "socket"
  BY <1>1 DEF Agree, FileTable
<1>5. \A h, i \in Fd : e[h] = e[i] /\ e[h] # None => h = i
  BY <1>1 DEF Agree
<1>6. \A h \in Fd : c[h] = "file" => \E i \in Fd : e[i] = h
  <2>1. ASSUME NEW h \in Fd, c[h] = "file", h # g PROVE \E i \in Fd : e[i] = h
    <3>1. PICK i \in Fd : f[i] = h
      BY <1>1, <2>1 DEF Agree
    <3>. QED
      BY <1>0, <1>1, <3>1
  <2>. QED
    BY <1>1, <2>1
<1>. QED
  BY <1>3, <1>4, <1>5, <1>6 DEF Agree

\* socket() or accept() returns fd, and it is registered.
LEMMA AgreeOpened ==
  ASSUME NEW o \in OpenTable, NEW k \in KindTable, NEW f \in FileTable,
         NEW fd \in Fd, Agree(o, k, f), o[fd] = "free", NEW a, NEW b,
         a = "listening" <=> b = "listener", a = "connected" <=> b = "socket", a # "file"
  PROVE  Agree([o EXCEPT ![fd] = a], [k EXCEPT ![fd] = b], f)
<1>. DEFINE c == [o EXCEPT ![fd] = a]
            d == [k EXCEPT ![fd] = b]
<1>0. None \notin Fd
  BY FdAssumption DEF None
<1>1. k[fd] = "none" /\ f[fd] = None
  BY DEF Agree, KindTable
<1>2. \A h \in Fd : f[h] # fd
  BY <1>0 DEF Agree
<1>3. c[fd] = a /\ d[fd] = b /\ \A h \in Fd : h # fd => c[h] = o[h] /\ d[h] = k[h]
  BY DEF OpenTable, KindTable
<1>. HIDE DEF c, d
<1>4. \A h \in Fd : /\ c[h] = "listening" <=> d[h] = "listener"
                    /\ c[h] = "connected" <=> d[h] = "socket"
  BY <1>3 DEF Agree
<1>5. \A h \in Fd : f[h] # None => c[f[h]] = "file" /\ d[h] = "socket"
  BY <1>1, <1>2, <1>3 DEF Agree, FileTable
<1>6. \A h \in Fd : c[h] = "file" => \E i \in Fd : f[i] = h
  BY <1>3 DEF Agree
<1>7. Agree(c, d, f)
  BY <1>4, <1>5, <1>6 DEF Agree
<1>. QED
  BY <1>7 DEF c, d

\* close() of the socket of a connection without a file, and remove().
LEMMA AgreeClosed ==
  ASSUME NEW o \in OpenTable, NEW k \in KindTable, NEW f \in FileTable,
         NEW fd \in Fd, Agree(o, k, f), k[fd] = "socket", f[fd] = None
  PROVE  Agree([o EXCEPT ![fd] = "free"], [k EXCEPT ![fd] = "none"], f)
<1>. DEFINE c == [o EXCEPT ![fd] = "free"]
            d == [k EXCEPT ![fd] = "none"]
<1>0. None \notin Fd /\ o[fd] = "connected"
  BY FdAssumption DEF None, Agree
<1>1. /\ c[fd] = "free" /\ d[fd] = "none"
      /\ \A h \in Fd : h # fd => c[h] = o[h] /\ d[h] = k[h]
  BY DEF OpenTable, KindTable
<1>2. \A h \in Fd : f[h] # fd
  BY <1>0 DEF Agree
<1>. HIDE DEF c, d
<1>3. \A h \in Fd : /\ c[h] = "listening" <=> d[h] = "listener"
                    /\ c[h] = "connected" <=> d[h] = "socket"
  BY <1>1 DEF Agree
<1>4. \A h \in Fd : f[h] # None => c[f[h]] = "file" /\ d[h] = "socket"
  BY <1>1, <1>2 DEF Agree, FileTable
<1>5. \A h \in Fd : c[h] = "file" => \E i \in Fd : f[i] = h
  BY <1>1 DEF Agree
<1>6. Agree(c, d, f)
  BY <1>3, <1>4, <1>5 DEF Agree
<1>. QED
  BY <1>6 DEF c, d

LEMMA AgreeIs ==
  /\ DescriptorsAgree <=> Agree(open, kind, file)
  /\ DescriptorsAgree' <=> Agree(open', kind', file')
BY DEF DescriptorsAgree, Agree

LEMMA DescriptorsKeep ==
  ASSUME IInv, NEW fd \in Fd, kind[fd] = "socket", Keep(fd)
  PROVE  DescriptorsAgree'
<1>1. /\ open \in OpenTable /\ kind \in KindTable /\ file \in FileTable
      /\ kind' = kind /\ Agree(open, kind, file)
  BY AgreeIs DEF IInv, TypeOK, OpenTable, KindTable, FileTable, Keep
<1>2. /\ FileClosed(fd) \in OpenTable
      /\ Agree(FileClosed(fd), kind, [file EXCEPT ![fd] = None])
  BY <1>1, AgreeFileClosed DEF FileClosed
<1>3. CASE UNCHANGED <<file, open>>
  BY <1>1, <1>3, AgreeIs
<1>4. CASE open' = FileClosed(fd) /\ file' = [file EXCEPT ![fd] = None]
  BY <1>1, <1>2, <1>4, AgreeIs
<1>5. ASSUME NEW g \in Fd, LowestFree(FileClosed(fd), g),
             open' = [FileClosed(fd) EXCEPT ![g] = "file"],
             file' = [file EXCEPT ![fd] = g]
      PROVE  DescriptorsAgree'
  <2>. DEFINE f == [file EXCEPT ![fd] = None]
  <2>1. f \in FileTable /\ f[fd] = None /\ [f EXCEPT ![fd] = g] = [file EXCEPT ![fd] = g]
    BY <1>1 DEF FileTable
  <2>2. FileClosed(fd)[g] = "free"
    BY <1>5 DEF LowestFree
  <2>3. Agree(FileClosed(fd), kind, f)
    BY <1>2
  <2>. HIDE DEF f
  <2>4. Agree([FileClosed(fd) EXCEPT ![g] = "file"], kind, [f EXCEPT ![fd] = g])
    BY <1>1, <1>2, <2>1, <2>2, <2>3, AgreeFileOpened
  <2>. QED
    BY <1>1, <1>5, <2>1, <2>4, AgreeIs
<1>. QED
  BY <1>3, <1>4, <1>5 DEF Keep, FileAfterRun

\* free() and remove(), of a connection that is dropped or that has expired.
LEMMA DescriptorsDropped ==
  ASSUME IInv, NEW fd \in Fd, kind[fd] = "socket",
         open' = [FileClosed(fd) EXCEPT ![fd] = "free"],
         kind' = [kind EXCEPT ![fd] = "none"],
         file' = [file EXCEPT ![fd] = None]
  PROVE  DescriptorsAgree'
<1>. DEFINE f == [file EXCEPT ![fd] = None]
<1>1. /\ open \in OpenTable /\ kind \in KindTable /\ file \in FileTable
      /\ Agree(open, kind, file)
  BY AgreeIs DEF IInv, TypeOK, OpenTable, KindTable, FileTable
<1>2. FileClosed(fd) \in OpenTable /\ Agree(FileClosed(fd), kind, f)
  BY <1>1, AgreeFileClosed DEF FileClosed
<1>3. f \in FileTable /\ f[fd] = None
  BY <1>1 DEF FileTable
<1>4. f = file'
  OBVIOUS
<1>. HIDE DEF f
<1>. QED
  BY <1>1, <1>2, <1>3, <1>4, AgreeClosed, AgreeIs

LEMMA DescriptorsNext == ASSUME IInv, Next PROVE DescriptorsAgree'
<1>. USE DEF loopVars, timerVars, eventVars, kernelVars, timeVars
<1>1. /\ open \in OpenTable /\ kind \in KindTable /\ file \in FileTable
      /\ Agree(open, kind, file)
  BY AgreeIs DEF IInv, TypeOK, OpenTable, KindTable, FileTable
<1>2. CASE UNCHANGED <<open, kind, file>>
  BY <1>1, <1>2, AgreeIs
<1>3. CASE Listen
  <2>1. file' = file
    BY <1>3 DEF Listen
  <2>2. CASE \E fd \in Fd : /\ LowestFree(open, fd)
                            /\ open' = [open EXCEPT ![fd] = "listening"]
                            /\ kind' = [kind EXCEPT ![fd] = "listener"]
    <3>1. PICK fd \in Fd : /\ LowestFree(open, fd)
                           /\ open' = [open EXCEPT ![fd] = "listening"]
                           /\ kind' = [kind EXCEPT ![fd] = "listener"]
      BY <2>2
    <3>. QED
      BY <1>1, <2>1, <3>1, AgreeOpened, AgreeIs DEF LowestFree
  <2>. QED
    BY <1>2, <1>3, <2>1, <2>2 DEF Listen
<1>4. ASSUME NEW ev \in batch, Accept(ev) PROVE DescriptorsAgree'
  <2>1. PICK fd \in Fd : /\ LowestFree(open, fd)
                         /\ open' = [open EXCEPT ![fd] = "connected"]
                         /\ kind' = [kind EXCEPT ![fd] = "socket"]
    BY <1>4 DEF Accept
  <2>2. file' = file
    BY <1>4 DEF Accept
  <2>. QED
    BY <1>1, <2>1, <2>2, AgreeOpened, AgreeIs DEF LowestFree
<1>5. ASSUME NEW fd \in Fd, kind[fd] = "socket", Drop(fd) PROVE DescriptorsAgree'
  BY <1>5, DescriptorsDropped DEF Drop
<1>6. ASSUME NEW ev \in current, ThenWritable(ev) PROVE DescriptorsAgree'
  <2>1. ev.fd \in Fd /\ kind[ev.fd] = "socket"
    BY DEF IInv, TypeOK, Event, BatchIsApart
  <2>. QED
    BY <1>5, <1>6, <2>1, DescriptorsKeep DEF ThenWritable
<1>7. ASSUME NEW ev \in batch, OnReadable(ev) \/ OnlyWritable(ev) PROVE DescriptorsAgree'
  <2>1. ev.fd \in Fd
    BY DEF IInv, TypeOK, Event
  <2>. QED
    BY <1>5, <1>7, <2>1, DescriptorsKeep DEF OnReadable, OnlyWritable
<1>8. CASE Dispatch
  <2>1. ASSUME NEW ev \in batch, AcceptNothing(ev) \/ AcceptRefused(ev)
        PROVE  UNCHANGED <<open, kind, file>>
    BY <2>1 DEF AcceptNothing, AcceptRefused
  <2>. QED
    BY <1>2, <1>4, <1>6, <1>7, <1>8, <2>1 DEF Dispatch
<1>9. ASSUME NEW t \in timers, Expire(t) PROVE DescriptorsAgree'
  <2>1. t.conn \in Fd
    BY DEF IInv, TypeOK, Timer
  <2>2. kind[t.conn] = "socket"
    BY <2>1 DEF IInv, TimersAreOwned
  <2>3. open' = [FileClosed(t.conn) EXCEPT ![t.conn] = "free"]
    BY <1>9, <2>2 DEF Expire
  <2>. QED
    BY <1>9, <2>1, <2>2, <2>3, DescriptorsDropped DEF Expire
<1>10. CASE HandleExpired
  BY <1>9, <1>10 DEF HandleExpired, Heads
<1>11. CASE ListenFails \/ Created \/ Start \/ StartRefused \/ WaitReturns \/ WaitTimesOut
            \/ Dispatched \/ LoopTest
  BY <1>2, <1>11
  DEF ListenFails, Created, Start, StartRefused, WaitReturns, WaitTimesOut, Dispatched, LoopTest
<1>12. CASE Connects \/ Aborts \/ PeerActs \/ Tick \/ Signal \/ Terminated
  BY <1>2, <1>12 DEF Connects, Aborts, PeerActs, Tick, Signal, Terminated, vars
<1>. QED
  BY <1>3, <1>8, <1>10, <1>11, <1>12 DEF Next, Server

-----------------------------------------------------------------------------
(* The events.                                                             *)

\* The events that are left still reach their clients when the descriptors
\* they are about are left alone.
LEMMA EventsKept ==
  ASSUME EventsReachTheirClient, BatchIsApart,
         batch' \subseteq batch, current' \subseteq batch \cup current,
         \A e \in batch' \cup current' : kind'[e.fd] = kind[e.fd] /\ client'[e.fd] = client[e.fd],
         \A e \in current' : e \notin batch' /\ kind[e.fd] = "socket",
         pc' = pc
  PROVE  EventsReachTheirClient' /\ BatchIsApart'
<1>1. batch' \cup current' \subseteq batch \cup current
  OBVIOUS
<1>2. EventsReachTheirClient'
  BY <1>1 DEF EventsReachTheirClient
<1>3. pc' # "dispatching" => batch' = {} /\ current' = {}
  BY DEF BatchIsApart
<1>4. \A e, f \in batch' \cup current' : e.fd = f.fd => e = f
  BY <1>1 DEF BatchIsApart
<1>5. \A e \in current' : e \notin batch' /\ kind'[e.fd] = "socket"
  OBVIOUS
<1>. QED
  BY <1>2, <1>3, <1>4, <1>5 DEF BatchIsApart

\* Without events there is nothing to show.
LEMMA EventsNone ==
  ASSUME batch' = {}, current' = {}
  PROVE  EventsReachTheirClient' /\ BatchIsApart'
BY DEF EventsReachTheirClient, BatchIsApart

LEMMA EventsWait ==
  ASSUME IInv, WaitReturns
  PROVE  EventsReachTheirClient' /\ BatchIsApart'
<1>1. /\ current' = {} /\ kind' = kind /\ client' = client /\ pc' = "dispatching"
      /\ \A fd \in Ready : kind[fd] # "none"
  BY DEF WaitReturns, IInv, BatchIsApart, Ready
<1>2. PICK mask : batch' = {[fd |-> fd, events |-> mask[fd], client |-> client[fd]] : fd \in Ready}
  BY DEF WaitReturns
<1>3. \A e \in batch' :
        /\ e.fd \in Ready
        /\ e = [fd |-> e.fd, events |-> mask[e.fd], client |-> client[e.fd]]
  BY <1>2
<1>4. EventsReachTheirClient'
  BY <1>1, <1>3 DEF EventsReachTheirClient
<1>5. \A e, f \in batch' : e.fd = f.fd => e = f
  BY <1>3
<1>. QED
  BY <1>1, <1>4, <1>5 DEF BatchIsApart

\* A connection is kept or dropped by the handler of one of its events.
LEMMA EventsHandled ==
  ASSUME IInv, NEW ev \in batch \cup current, pc' = pc,
         Keep(ev.fd) \/ Drop(ev.fd),
         batch' = batch \ {ev}, current' = {}
  PROVE  EventsReachTheirClient' /\ BatchIsApart'
<1>1. \A e \in batch' : e.fd # ev.fd /\ e.fd \in Fd
  BY DEF IInv, TypeOK, Event, BatchIsApart
<1>2. \A e \in batch' : kind'[e.fd] = kind[e.fd] /\ client'[e.fd] = client[e.fd]
  <2>1. kind \in [Fd -> {"none", "listener", "socket"}] /\ client \in [Fd -> Nat]
    BY DEF IInv, TypeOK
  <2>2. CASE Keep(ev.fd)
    BY <2>2 DEF Keep
  <2>3. CASE Drop(ev.fd)
    BY <1>1, <2>1, <2>3 DEF Drop
  <2>. QED
    BY <2>2, <2>3
<1>3. EventsReachTheirClient /\ BatchIsApart
  BY DEF IInv
<1>. QED
  BY <1>2, <1>3, EventsKept

LEMMA EventsDispatch ==
  ASSUME IInv, Dispatch
  PROVE  EventsReachTheirClient' /\ BatchIsApart'
<1>. USE DEF loopVars, timerVars, eventVars, kernelVars, timeVars
<1>1. EventsReachTheirClient /\ BatchIsApart
  BY DEF IInv
<1>2. ASSUME NEW ev \in current, ThenWritable(ev)
      PROVE  EventsReachTheirClient' /\ BatchIsApart'
  <2>1. batch' = batch /\ batch = batch \ {ev} /\ current' = {} /\ pc' = pc
    BY <1>1, <1>2 DEF ThenWritable, BatchIsApart
  <2>. QED
    BY <1>2, <2>1, EventsHandled DEF ThenWritable
<1>3. ASSUME current = {}, NEW ev \in batch, AcceptNothing(ev) \/ AcceptRefused(ev)
      PROVE  EventsReachTheirClient' /\ BatchIsApart'
  <2>1. batch' = batch \ {ev} /\ current' = {} /\ kind' = kind /\ client' = client /\ pc' = pc
    BY <1>3 DEF AcceptNothing, AcceptRefused
  <2>. QED
    BY <1>1, <2>1, EventsKept
<1>4. ASSUME current = {}, NEW ev \in batch, Accept(ev)
      PROVE  EventsReachTheirClient' /\ BatchIsApart'
  <2>1. PICK fd \in Fd : /\ LowestFree(open, fd)
                         /\ kind' = [kind EXCEPT ![fd] = "socket"]
                         /\ client' = [client EXCEPT ![fd] = served + 1]
    BY <1>4 DEF Accept
  <2>2. \A e \in batch : e.fd # fd /\ e.fd \in Fd
    BY <2>1, FreeIsUnused DEF LowestFree, IInv, TypeOK, Event
  <2>3. batch' = batch \ {ev} /\ current' = {} /\ pc' = pc
    BY <1>4 DEF Accept
  <2>4. \A e \in batch' : kind'[e.fd] = kind[e.fd] /\ client'[e.fd] = client[e.fd]
    BY <2>1, <2>2, <2>3 DEF IInv, TypeOK
  <2>. QED
    BY <1>1, <2>3, <2>4, EventsKept
<1>5. ASSUME current = {}, NEW ev \in batch, OnReadable(ev)
      PROVE  EventsReachTheirClient' /\ BatchIsApart'
  <2>1. batch' = batch \ {ev} /\ pc' = pc /\ kind[ev.fd] = "socket"
    BY <1>5 DEF OnReadable
  <2>2. CASE current' = {}
    BY <1>5, <2>1, <2>2, EventsHandled DEF OnReadable
  <2>3. CASE Keep(ev.fd) /\ current' = {ev}
    <3>1. kind' = kind /\ client' = client
      BY <2>3 DEF Keep
    <3>. QED
      BY <1>1, <2>1, <2>3, <3>1, EventsKept
  <2>. QED
    BY <1>5, <2>2, <2>3 DEF OnReadable
<1>6. ASSUME current = {}, NEW ev \in batch, OnlyWritable(ev)
      PROVE  EventsReachTheirClient' /\ BatchIsApart'
  BY <1>6, EventsHandled DEF OnlyWritable
<1>. QED
  BY <1>2, <1>3, <1>4, <1>5, <1>6 DEF Dispatch

LEMMA EventsNext == ASSUME IInv, Next PROVE EventsReachTheirClient' /\ BatchIsApart'
<1>. USE DEF loopVars, timerVars, eventVars, kernelVars, timeVars
<1>1. EventsReachTheirClient /\ BatchIsApart
  BY DEF IInv
<1>2. CASE UNCHANGED <<pc, batch, current, kind, client>>
  BY <1>1, <1>2, EventsKept DEF BatchIsApart
<1>3. CASE Listen \/ ListenFails \/ Created \/ Start \/ StartRefused \/ WaitTimesOut
           \/ Dispatched \/ LoopTest \/ HandleExpired
  <2>1. batch = {} /\ current = {}
    BY <1>1, <1>3 DEF BatchIsApart, Listen, ListenFails, Created, Start, StartRefused,
                      WaitTimesOut, Dispatched, LoopTest, HandleExpired
  <2>2. UNCHANGED <<batch, current>>
    BY <1>3 DEF Listen, ListenFails, Created, Start, StartRefused, WaitTimesOut, Dispatched,
                LoopTest, HandleExpired, Expire
  <2>. QED
    BY <2>1, <2>2, EventsNone
<1>4. CASE Connects \/ Aborts \/ PeerActs \/ Tick \/ Signal \/ Terminated
  BY <1>2, <1>4 DEF Connects, Aborts, PeerActs, Tick, Signal, Terminated, vars
<1>. QED
  BY <1>3, <1>4, EventsWait, EventsDispatch DEF Next, Server

-----------------------------------------------------------------------------
LEMMA InvNext == IInv /\ [Next]_vars => IInv'
<1>1. SUFFICES ASSUME IInv, [Next]_vars PROVE IInv'
  OBVIOUS
<1>2. CASE Next
  <2>1. TypeOK'
    BY <1>1, TypeNext DEF IInv
  <2>. QED
    BY <1>1, <1>2, <2>1, TimersNext, DescriptorsNext, EventsNext DEF IInv
<1>3. CASE UNCHANGED vars
  BY <1>1, <1>3
  DEF vars, loopVars, timerVars, eventVars, kernelVars, timeVars, IInv, TypeOK,
      TimersAreOwned, DescriptorsAgree, EventsReachTheirClient, BatchIsApart
<1>. QED
  BY <1>1, <1>2, <1>3

\* The inductive invariant, the ground of the three theorems below.
THEOREM Invariant == Spec => []IInv
<1>. QED
  BY InvInit, InvNext, PTL DEF Spec

\* The timer queue holds exactly the timers of the connections being served:
\* no connection inherits the timer of the one before it on its descriptor.
THEOREM TimersAlwaysOwned == Spec => []TimersAreOwned
<1>1. IInv => TimersAreOwned
  BY DEF IInv
<1>. QED
  BY <1>1, Invariant, PTL

\* However connections come, open files, time out and go, the process never
\* closes a descriptor twice, uses a closed one or leaks one.
THEOREM DescriptorsAlwaysAgree == Spec => []DescriptorsAgree
<1>1. IInv => DescriptorsAgree
  BY DEF IInv
<1>. QED
  BY <1>1, Invariant, PTL

\* An event of a batch is never delivered to a client accepted later on the
\* same descriptor.
THEOREM EventsAlwaysReachTheirClient == Spec => []EventsReachTheirClient
<1>1. IInv => EventsReachTheirClient
  BY DEF IInv
<1>. QED
  BY <1>1, Invariant, PTL

-----------------------------------------------------------------------------
(* Timers are on time, until the counter of milliseconds wraps.            *)

\* The server runs for less than the range of the counter, 49.7 days, and its
\* idle time and the time a turn of the loop takes are short beside half of it.
CounterSuffices == MaxClock + MaxIdle < Modulus
DeadlinesCompare == MaxIdle + MaxLag < Modulus \div 2

\* A timer says when its connection will have been idle for MaxIdle, and is not
\* in the queue for longer than a turn of the loop after that.
Timed(fd) ==
  /\ armed[fd] <= seen
  /\ node[fd].msec = armed[fd] + MaxIdle
  /\ seen - armed[fd] <= MaxIdle + MaxLag
  /\ pc = "waiting" => seen - armed[fd] <= MaxIdle

OnTime ==
  /\ seen <= clock /\ clock <= MaxClock /\ clock <= seen + MaxLag
  /\ pc \in {"listening", "starting"} => \A fd \in Fd : ~timerSet[fd]
  /\ \A fd \in Fd : timerSet[fd] => Timed(fd)

\* What the remainder does to a number that is at most one modulus away.
LEMMA Remainders ==
  ASSUME NEW x \in Int
  PROVE  /\ x \in 0 .. Modulus - 1 => x % Modulus = x
         /\ x < 0 /\ x >= -Modulus => x % Modulus = x + Modulus
<1>1. Modulus \in Nat /\ Modulus > 0
  BY TimeAssumption
<1>2. /\ (x % Modulus) \in 0 .. Modulus - 1
      /\ x = Modulus * (x \div Modulus) + (x % Modulus)
      /\ (x \div Modulus) \in Int
  BY <1>1
<1>. DEFINE q == x \div Modulus
            r == x % Modulus
<1>. HIDE DEF q, r
<1>3. ASSUME x \in 0 .. Modulus - 1
      PROVE  r = x
  <2>1. q = 0
    BY <1>1, <1>2, <1>3 DEF q, r
  <2>. QED
    BY <1>1, <1>2, <2>1 DEF q, r
<1>4. ASSUME x < 0, x >= -Modulus
      PROVE  r = x + Modulus
  <2>1. q = -1
    BY <1>1, <1>2, <1>4 DEF q, r
  <2>. QED
    BY <1>1, <1>2, <2>1 DEF q, r
<1>. QED
  BY <1>3, <1>4 DEF r

\* Deadlines that are not far from each other are compared as they are.
LEMMA BeforeIsLess ==
  ASSUME NEW a \in 0 .. Modulus - 1, NEW b \in 0 .. Modulus - 1,
         a - b < Modulus \div 2, b - a < Modulus \div 2
  PROVE  Before(a, b) <=> a < b
<1>1. Modulus \in Nat /\ Modulus > 0 /\ Modulus \div 2 \in Nat /\ 2 * (Modulus \div 2) <= Modulus
  BY TimeAssumption
<1>2. CASE a < b
  <2>1. (a - b) % Modulus = a - b + Modulus
    BY <1>1, <1>2, Remainders
  <2>. QED
    BY <1>1, <1>2, <2>1 DEF Before
<1>3. CASE a >= b
  <2>1. (a - b) % Modulus = a - b
    BY <1>1, <1>3, Remainders
  <2>. QED
    BY <1>1, <1>3, <2>1 DEF Before
<1>. QED
  BY <1>2, <1>3, <1>1

\* Before the counter wraps, it is the clock.
LEMMA ClockIsRead ==
  ASSUME CounterSuffices, TypeOK, OnTime
  PROVE  /\ Now = seen
         /\ \A fd \in Fd : Deadline(fd).msec = seen + MaxIdle
         /\ seen + MaxIdle \in 0 .. Modulus - 1
<1>1. /\ seen \in Nat /\ clock \in Nat /\ MaxClock \in Nat /\ MaxIdle \in Nat
      /\ seen <= MaxClock /\ MaxClock + MaxIdle < Modulus /\ Modulus \in Nat
  BY TimeAssumption, BoundAssumption DEF TypeOK, OnTime, CounterSuffices
<1>2. seen \in 0 .. Modulus - 1 /\ seen + MaxIdle \in 0 .. Modulus - 1
  BY <1>1
<1>3. Now = seen
  BY <1>1, <1>2, Remainders DEF Now
<1>4. (Now + MaxIdle) % Modulus = seen + MaxIdle
  BY <1>1, <1>2, <1>3, Remainders
<1>. QED
  BY <1>2, <1>3, <1>4 DEF Deadline

\* A timer has expired when its connection has been idle for MaxIdle.
LEMMA ExpiredIsIdle ==
  ASSUME CounterSuffices, IInv, OnTime, NEW t \in timers
  PROVE  /\ t.conn \in Fd /\ timerSet[t.conn] /\ node[t.conn] = t /\ t.msec \in 0 .. Modulus - 1
         /\ t.msec = armed[t.conn] + MaxIdle
         /\ Expired(t) <=> seen - armed[t.conn] >= MaxIdle
<1>1. t.conn \in Fd /\ t.msec \in 0 .. Modulus - 1 /\ seen \in Nat /\ armed[t.conn] \in Nat /\ MaxIdle \in Nat
  BY TimeAssumption DEF IInv, TypeOK, Timer
<1>2. timerSet[t.conn] /\ node[t.conn] = t
  BY DEF IInv, TimersAreOwned
<1>3. t.msec = armed[t.conn] + MaxIdle
  BY <1>1, <1>2 DEF OnTime, Timed
<1>4. Now = seen
  BY ClockIsRead DEF IInv
<1>. QED
  BY <1>1, <1>2, <1>3, <1>4 DEF Expired

\* Steps that read no clock: a timer is as it was, or has just been set.
LEMMA TimedStays ==
  ASSUME CounterSuffices, IInv, OnTime, UNCHANGED <<clock, seen>>,
         pc' \in {"listening", "starting"} => \A fd \in Fd : ~timerSet'[fd],
         pc' = pc \/ pc' # "waiting",
         \A fd \in Fd : timerSet'[fd] =>
           \/ timerSet[fd] /\ armed'[fd] = armed[fd] /\ node'[fd] = node[fd]
           \/ armed'[fd] = seen /\ node'[fd] = Deadline(fd)
  PROVE  OnTime'
<1>1. seen \in Nat /\ MaxIdle \in Nat /\ MaxLag \in Nat
  BY TimeAssumption, BoundAssumption DEF IInv, TypeOK
<1>2. ASSUME NEW fd \in Fd, timerSet'[fd]
      PROVE  Timed(fd)'
  <2>1. CASE timerSet[fd] /\ armed'[fd] = armed[fd] /\ node'[fd] = node[fd]
    <3>1. Timed(fd)
      BY <2>1 DEF OnTime
    <3>. QED
      BY <2>1, <3>1 DEF Timed
  <2>2. CASE armed'[fd] = seen /\ node'[fd] = Deadline(fd)
    <3>1. Deadline(fd).msec = seen + MaxIdle
      BY ClockIsRead DEF IInv
    <3>. QED
      BY <1>1, <2>2, <3>1 DEF Timed
  <2>. QED
    BY <1>2, <2>1, <2>2
<1>. QED
  BY <1>2 DEF OnTime

\* Reading the clock, after a turn of the loop or a wait.
LEMMA TimedRead ==
  ASSUME CounterSuffices, IInv, OnTime, pc = "waiting", pc' \notin {"waiting", "listening", "starting"},
         clock' = clock, seen' = clock, UNCHANGED <<timerSet, node, armed>>
  PROVE  OnTime'
<1>1. seen \in Nat /\ clock \in Nat /\ MaxIdle \in Nat /\ MaxLag \in Nat /\ MaxClock \in Nat
  BY TimeAssumption, BoundAssumption DEF IInv, TypeOK
<1>2. seen <= clock /\ clock <= MaxClock /\ clock <= seen + MaxLag
  BY DEF OnTime
<1>3. ASSUME NEW fd \in Fd, timerSet'[fd]
      PROVE  Timed(fd)'
  <2>1. Timed(fd) /\ armed[fd] \in Nat
    BY <1>3 DEF OnTime, IInv, TypeOK
  <2>. QED
    BY <1>1, <1>2, <2>1 DEF Timed
<1>. QED
  BY <1>1, <1>2, <1>3 DEF OnTime

\* When handle_expired() is through, whatever timer is left is of a connection
\* that has not been idle for MaxIdle: the first in the order of the queue is
\* the one that was armed first.
LEMMA NothingOverdue ==
  ASSUME CounterSuffices, DeadlinesCompare, IInv, OnTime, LoopTest, NEW fd \in Fd, timerSet[fd]
  PROVE  seen - armed[fd] < MaxIdle
<1>1. node[fd] \in timers /\ node[fd].conn = fd
  BY DEF IInv, TimersAreOwned
<1>2. PICK t \in Heads : ~Expired(t)
  BY <1>1 DEF LoopTest
<1>3. t \in timers /\ ~Before(node[fd].msec, t.msec)
  BY <1>1, <1>2 DEF Heads
<1>. DEFINE a == armed[fd]
            b == armed[t.conn]
            u == node[fd]
<1>4. /\ t.conn \in Fd /\ t.msec \in 0 .. Modulus - 1 /\ t.msec = b + MaxIdle
      /\ timerSet[t.conn] /\ ~(seen - b >= MaxIdle)
  BY <1>2, <1>3, ExpiredIsIdle
<1>5. u.msec \in 0 .. Modulus - 1 /\ u.msec = a + MaxIdle
  BY <1>1, ExpiredIsIdle
<1>6. a \in Nat /\ b \in Nat /\ seen \in Nat /\ MaxIdle \in Nat /\ MaxLag \in Nat
  BY <1>4, TimeAssumption, BoundAssumption DEF IInv, TypeOK
<1>7. a <= seen /\ seen - a <= MaxIdle + MaxLag /\ b <= seen /\ seen - b <= MaxIdle + MaxLag
  BY <1>4 DEF OnTime, Timed
<1>8. MaxIdle + MaxLag < Modulus \div 2 /\ Modulus \div 2 \in Int
  BY TimeAssumption DEF DeadlinesCompare
<1>. DEFINE h == Modulus \div 2
            x == u.msec
            y == t.msec
<1>9. x - y < h /\ y - x < h /\ x \in 0 .. Modulus - 1 /\ y \in 0 .. Modulus - 1
  <2>. HIDE DEF h, a, b, x, y
  <2>1. x = a + MaxIdle /\ y = b + MaxIdle /\ MaxIdle + MaxLag < h /\ h \in Int
    BY <1>4, <1>5, <1>8 DEF h, x, y
  <2>2. x - y < h /\ y - x < h
    BY <1>6, <1>7, <2>1
  <2>. QED
    BY <1>4, <1>5, <2>2 DEF x, y
<1>10. ~(x < y)
  <2>1. Before(x, y) <=> x < y
    <3>. HIDE DEF x, y
    <3>. QED
      BY <1>9, BeforeIsLess DEF h
  <2>. QED
    BY <1>3, <2>1
<1>11. x = a + MaxIdle /\ y = b + MaxIdle
  BY <1>4, <1>5
<1>. HIDE DEF x, y, a, b
<1>12. seen - a < MaxIdle
  BY <1>4, <1>6, <1>10, <1>11
<1>. QED
  BY <1>12 DEF a

\* What every handler does to the timers: they stay, go, or are set now.
TimersCarried ==
  \A fd \in Fd : timerSet'[fd] =>
    \/ timerSet[fd] /\ armed'[fd] = armed[fd] /\ node'[fd] = node[fd]
    \/ armed'[fd] = seen /\ node'[fd] = Deadline(fd)

LEMMA CarriedByRun ==
  ASSUME IInv, NEW fd \in Fd, Keep(fd) \/ Drop(fd)
  PROVE  TimersCarried
<1>1. /\ timerSet \in [Fd -> BOOLEAN] /\ node \in [Fd -> Timer] /\ armed \in [Fd -> Nat]
  BY DEF IInv, TypeOK
<1>2. CASE Keep(fd)
  <2>1. PICK effect \in TimerEffects : TimerAfterRun(fd, effect)
    BY <1>2 DEF Keep
  <2>. QED
    BY <1>1, <2>1 DEF TimerAfterRun, TimersCarried, timerVars
<1>3. CASE Drop(fd)
  BY <1>1, <1>3 DEF Drop, TimersCarried
<1>. QED
  BY <1>2, <1>3

LEMMA CarriedByDispatch == ASSUME IInv, Dispatch PROVE TimersCarried
<1>1. /\ timerSet \in [Fd -> BOOLEAN] /\ node \in [Fd -> Timer] /\ armed \in [Fd -> Nat]
      /\ \A e \in batch \cup current : e.fd \in Fd
  BY DEF IInv, TypeOK, Event
<1>2. ASSUME NEW ev \in current, ThenWritable(ev) PROVE TimersCarried
  BY <1>1, <1>2, CarriedByRun DEF ThenWritable
<1>3. ASSUME NEW ev \in batch, OnReadable(ev) \/ OnlyWritable(ev) PROVE TimersCarried
  BY <1>1, <1>3, CarriedByRun DEF OnReadable, OnlyWritable
<1>4. ASSUME NEW ev \in batch, AcceptNothing(ev) PROVE TimersCarried
  BY <1>4 DEF AcceptNothing, TimersCarried, timerVars
<1>5. ASSUME NEW ev \in batch, AcceptRefused(ev) PROVE TimersCarried
  <2>1. PICK fd \in Fd : /\ open[fd] = "free"
                         /\ node' \in {node, [node EXCEPT ![fd] = Deadline(fd)]}
    BY <1>5 DEF AcceptRefused, LowestFree
  <2>2. ~timerSet[fd]
    BY <2>1, FreeIsUnused
  <2>3. timerSet' = timerSet /\ armed' = armed
    BY <1>5 DEF AcceptRefused
  <2>. QED
    BY <1>1, <2>1, <2>2, <2>3 DEF TimersCarried
<1>6. ASSUME NEW ev \in batch, Accept(ev) PROVE TimersCarried
  BY <1>1, <1>6 DEF Accept, TimersCarried
<1>. QED
  BY <1>2, <1>3, <1>4, <1>5, <1>6 DEF Dispatch

LEMMA PhaseKept == ASSUME Dispatch PROVE pc = "dispatching" /\ UNCHANGED <<pc, clock, seen>>
BY DEF Dispatch, ThenWritable, AcceptNothing, AcceptRefused, Accept, OnReadable, OnlyWritable,
       loopVars, timeVars

LEMMA OnTimeInit == Init => OnTime
BY BoundAssumption DEF Init, OnTime

\* The loop goes back to waiting only when nothing is overdue.
LEMMA OnTimeLoop ==
  ASSUME CounterSuffices, DeadlinesCompare, IInv, OnTime, LoopTest
  PROVE  OnTime'
<1>1. /\ pc = "expiring" /\ pc' \in {"done", "waiting"}
      /\ UNCHANGED <<timerSet, node, armed, clock, seen>>
  BY DEF LoopTest, timerVars, timeVars
<1>2. seen \in Nat /\ MaxIdle \in Nat
  BY TimeAssumption DEF IInv, TypeOK
<1>3. ASSUME NEW fd \in Fd, timerSet[fd]
      PROVE  Timed(fd)'
  <2>1. seen - armed[fd] < MaxIdle /\ armed[fd] \in Nat
    BY <1>3, NothingOverdue DEF IInv, TypeOK
  <2>2. Timed(fd)
    BY <1>3 DEF OnTime
  <2>. QED
    BY <1>1, <1>2, <2>1, <2>2 DEF Timed
<1>. QED
  BY <1>1, <1>3 DEF OnTime

LEMMA OnTimeTick ==
  ASSUME IInv, OnTime, Tick
  PROVE  OnTime'
<1>1. /\ UNCHANGED <<pc, timerSet, node, armed, seen>> /\ clock' = clock + 1
      /\ clock < MaxClock /\ clock - seen < MaxLag
  BY DEF Tick, loopVars, timerVars
<1>2. seen \in Nat /\ clock \in Nat /\ MaxClock \in Nat /\ MaxLag \in Nat
  BY BoundAssumption DEF IInv, TypeOK
<1>3. seen <= clock' /\ clock' <= MaxClock /\ clock' <= seen + MaxLag
  BY <1>1, <1>2 DEF OnTime
<1>. QED
  BY <1>1, <1>3 DEF OnTime, Timed

LEMMA OnTimeNext ==
  ASSUME CounterSuffices, DeadlinesCompare, IInv, OnTime, [Next]_vars
  PROVE  OnTime'
<1>. USE DEF loopVars, timerVars, eventVars, kernelVars, timeVars
<1>1. timerSet \in [Fd -> BOOLEAN]
  BY DEF IInv, TypeOK
<1>2. CASE UNCHANGED <<pc, timerSet, node, armed, clock, seen>>
  BY <1>2 DEF OnTime, Timed
<1>3. CASE ListenFails \/ Created \/ Start \/ StartRefused
  <2>1. /\ pc \in {"listening", "starting"} /\ UNCHANGED <<timerSet, node, armed, clock, seen>>
    BY <1>3 DEF ListenFails, Created, Start, StartRefused
  <2>2. \A fd \in Fd : ~timerSet[fd]
    BY <2>1 DEF OnTime
  <2>. QED
    BY <2>1, <2>2 DEF OnTime
<1>4. CASE Listen
  BY <1>2, <1>4 DEF Listen
<1>5. CASE WaitReturns \/ WaitTimesOut
  <2>1. /\ pc = "waiting" /\ pc' \in {"dispatching", "expiring"} /\ seen' = clock
        /\ UNCHANGED <<timerSet, node, armed, clock>>
    BY <1>5 DEF WaitReturns, WaitTimesOut
  <2>. QED
    BY <2>1, TimedRead
<1>6. CASE Dispatch
  BY <1>6, PhaseKept, CarriedByDispatch, TimedStays DEF TimersCarried
<1>7. CASE Dispatched
  <2>1. /\ pc' = "expiring" /\ UNCHANGED <<timerSet, node, armed, clock, seen>>
    BY <1>7 DEF Dispatched
  <2>. QED
    BY <2>1, TimedStays
<1>8. CASE HandleExpired
  <2>1. PICK t \in timers : Expire(t)
    BY <1>8 DEF HandleExpired, Heads
  <2>2. /\ pc' = pc /\ pc = "expiring" /\ UNCHANGED <<node, armed, clock, seen>>
        /\ timerSet' = [timerSet EXCEPT ![t.conn] = FALSE]
    BY <1>8, <2>1 DEF HandleExpired, Expire
  <2>3. \A fd \in Fd : timerSet'[fd] => timerSet[fd]
    BY <1>1, <2>2
  <2>. QED
    BY <2>2, <2>3, TimedStays
<1>9. CASE LoopTest
  BY <1>9, OnTimeLoop
<1>10. CASE Connects \/ Aborts \/ PeerActs \/ Signal \/ Terminated \/ UNCHANGED vars
  BY <1>2, <1>10 DEF Connects, Aborts, PeerActs, Signal, Terminated, vars
<1>11. CASE Tick
  BY <1>11, OnTimeTick
<1>. QED
  BY <1>3, <1>4, <1>5, <1>6, <1>7, <1>8, <1>9, <1>10, <1>11 DEF Next, Server

\* OnTime is inductive beside IInv.
LEMMA AlwaysOnTime == CounterSuffices /\ DeadlinesCompare => (Spec => []OnTime)
<1>1. CounterSuffices /\ DeadlinesCompare /\ IInv /\ OnTime /\ [Next]_vars => OnTime'
  BY OnTimeNext
<1>2. SUFFICES ASSUME CounterSuffices, DeadlinesCompare
               PROVE  Spec => []OnTime
  OBVIOUS
<1>3. IInv /\ OnTime /\ [Next]_vars => OnTime'
  BY <1>1, <1>2
<1>. QED
  BY <1>3, OnTimeInit, Invariant, PTL DEF Spec

\* Only LoopTest leaves the expiring phase.
LEMMA OnlyTheLoopGoesOn ==
  ASSUME Next, pc = "expiring", pc' # "expiring" PROVE LoopTest
<1>. USE DEF loopVars, timerVars, eventVars, kernelVars, timeVars
<1>1. CASE Server
  <2>1. pc # "dispatching"
    OBVIOUS
  <2>. QED
    BY <1>1, <2>1, PhaseKept
    DEF Server, Listen, ListenFails, Created, Start, StartRefused, WaitReturns, WaitTimesOut,
        Dispatched, HandleExpired, Expire
<1>2. CASE ~Server
  BY <1>2 DEF Next, Connects, Aborts, PeerActs, Tick, Signal, Terminated, vars
<1>. QED
  BY <1>1, <1>2

\* After handle_expired() no connection that is left has been idle for too
\* long, whatever the order of the deadlines: as long as the counter of
\* milliseconds has not wrapped.
THEOREM NobodyIsOverdue == CounterSuffices /\ DeadlinesCompare => (Spec => NoneOverdue)
<1>. DEFINE Left == pc = "expiring" /\ pc' # "expiring" =>
                      \A fd \in Fd : timerSet[fd] => seen - armed[fd] < MaxIdle
<1>1. SUFFICES ASSUME CounterSuffices, DeadlinesCompare
               PROVE  Spec => NoneOverdue
  OBVIOUS
<1>2. IInv /\ OnTime /\ [Next]_vars => [Left]_vars
  BY <1>1, OnlyTheLoopGoesOn, NothingOverdue
<1>3. Spec => []OnTime
  BY <1>1, AlwaysOnTime
<1>. QED
  BY <1>2, <1>3, Invariant, PTL DEF Spec, NoneOverdue

\* While timers are handled, a client leaves only when its own has expired.
LEMMA OnlyTheExpiredLeave ==
  ASSUME CounterSuffices, IInv, OnTime, Next, pc = "expiring",
         NEW fd \in Fd, client[fd] # Nobody, client'[fd] = Nobody
  PROVE  seen - armed[fd] >= MaxIdle
<1>. USE DEF loopVars, timerVars, eventVars, kernelVars, timeVars
<1>1. client \in [Fd -> Nat] /\ client' # client
  BY DEF IInv, TypeOK
<1>2. HandleExpired
  <2>1. CASE Server
    <3>1. pc # "dispatching"
      OBVIOUS
    <3>. QED
      BY <1>1, <2>1, <3>1, PhaseKept
      DEF Server, Listen, ListenFails, Created, Start, StartRefused, WaitReturns, WaitTimesOut,
          Dispatched, LoopTest
  <2>2. CASE ~Server
    BY <1>1, <2>2 DEF Next, Connects, Aborts, PeerActs, Tick, Signal, Terminated, vars
  <2>. QED
    BY <2>1, <2>2
<1>3. PICK t \in timers : Expire(t)
  BY <1>2 DEF HandleExpired, Heads
<1>4. Expired(t) /\ client' = [client EXCEPT ![t.conn] = Nobody]
  BY <1>3 DEF Expire
<1>5. fd = t.conn
  BY <1>1, <1>4
<1>. QED
  BY <1>4, <1>5, ExpiredIsIdle

\* No connection is closed by its timer before it has been idle for MaxIdle.
THEOREM NobodyLeavesEarly == CounterSuffices /\ DeadlinesCompare => (Spec => NoEarlyTimeout)
<1>. DEFINE Stays == pc = "expiring" =>
                       \A fd \in Fd : client[fd] # Nobody /\ client'[fd] = Nobody
                                        => seen - armed[fd] >= MaxIdle
<1>1. SUFFICES ASSUME CounterSuffices, DeadlinesCompare
               PROVE  Spec => NoEarlyTimeout
  OBVIOUS
<1>2. IInv /\ OnTime /\ [Next]_vars => [Stays]_vars
  BY <1>1, OnlyTheExpiredLeave
<1>3. Spec => []OnTime
  BY <1>1, AlwaysOnTime
<1>. QED
  BY <1>2, <1>3, Invariant, PTL DEF Spec, NoEarlyTimeout
=============================================================================
