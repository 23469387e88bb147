---------------------------- MODULE MCSelectors ----------------------------
(***************************************************************************)
(* net::fdset and the three selectors built on it, side by side for TLC:   *)
(* "running" says which of them a behaviour is about.  The selectors have  *)
(* a descriptor fewer than net::fdset.                                     *)
(***************************************************************************)
EXTENDS FdSet

CONSTANTS Descriptors,   \* RLIMIT_NOFILE for the selectors
          Listener,
          MaxClients

ASSUME InstanceAssumption ==
  /\ Descriptors \in Nat \ {0}
  /\ Listener \in 0 .. Descriptors - 1
  /\ MaxClients \in Nat

VARIABLES running,                                       \* never changes
          spos, sitem, sindex, sused, sok, ready,        \* net::fdset of a selector
          events, watched, highest, shown, pc, at, todo, nevents, called,
          active, batch, backlog, clients

set == <<spos, sitem, sindex, sused, sok, ready>>
walk == <<pc, at, nevents, called>>
all == <<running, vars, set, events, watched, highest, shown, walk, todo,
         active, batch, backlog, clients>>

Poll == INSTANCE PollSelector WITH
  Size <- Descriptors, pos <- spos, item <- sitem, index <- sindex, used <- sused, ok <- sok,
  i <- at
Select == INSTANCE SelectSelector WITH
  Size <- Descriptors, pos <- spos, item <- sitem, index <- sindex, used <- sused, ok <- sok,
  i <- at
Kqueue == INSTANCE KqueueSelector WITH
  Size <- Descriptors, pos <- spos, item <- sitem, index <- sindex, used <- sused, ok <- sok

-----------------------------------------------------------------------------
Watchable == 0 .. Descriptors - 1

FdSetRests == pos = [fd \in Fd |-> NotInserted] /\ item = [fd \in Fd |-> "socket"]
              /\ index = [fd \in Fd |-> 0] /\ used = 0 /\ ok = TRUE
SetRests ==
  /\ spos = [n \in Watchable |-> NotInserted] /\ sitem = <<>> /\ sindex = <<>>
  /\ sused = 0 /\ sok = TRUE /\ ready = [n \in Watchable |-> {}]
WalkRests == pc = "wait" /\ at = 0 /\ nevents = 0 /\ called = Poll!NoOne
PollRests == events = [n \in Watchable |-> Poll!PollFd(Listener, {})]
SelectRests == watched = Select!Nothing /\ highest = 0 /\ shown = <<>> /\ todo = {}
KqueueRests == active = {} /\ batch = <<>> /\ backlog = 0 /\ clients = 0

SelectorsInit ==
  \/ running = "fdset" /\ Init /\ SetRests /\ WalkRests /\ PollRests /\ SelectRests /\ KqueueRests
  \/ running = "poll" /\ Poll!Init /\ FdSetRests /\ SelectRests /\ KqueueRests
  \/ running = "select" /\ Select!Init /\ FdSetRests /\ PollRests /\ KqueueRests
  \/ running = "kqueue" /\ Kqueue!Init /\ FdSetRests /\ WalkRests /\ PollRests /\ SelectRests

\* What each leaves alone is what rests while it runs.
FdSetRuns ==
  /\ running = "fdset"
  /\ Next
  /\ UNCHANGED <<running, set, walk, events, watched, highest, shown, todo, active, batch, backlog, clients>>
PollRuns ==
  /\ running = "poll"
  /\ Poll!Next
  /\ UNCHANGED <<running, vars, watched, highest, shown, todo, active, batch, backlog, clients>>
SelectRuns ==
  /\ running = "select"
  /\ Select!Next
  /\ UNCHANGED <<running, vars, events, active, batch, backlog, clients>>
KqueueRuns ==
  /\ running = "kqueue"
  /\ Kqueue!Next
  /\ UNCHANGED <<running, vars, walk, events, watched, highest, shown, todo>>

SelectorsNext == FdSetRuns \/ PollRuns \/ SelectRuns \/ KqueueRuns

\* The loop of a selector runs as long as there is something to do.
Loops ==
  \/ /\ running = "poll" /\ Poll!Loop
     /\ UNCHANGED <<running, vars, watched, highest, shown, todo, active, batch, backlog, clients>>
  \/ /\ running = "select" /\ Select!Loop
     /\ UNCHANGED <<running, vars, events, active, batch, backlog, clients>>
  \/ /\ running = "kqueue" /\ Kqueue!Loop
     /\ UNCHANGED <<running, vars, walk, events, watched, highest, shown, todo>>

KqueueReports(fd, e) ==
  /\ running = "kqueue" /\ Kqueue!Reports(fd, e)
  /\ UNCHANGED <<running, vars, walk, events, watched, highest, shown, todo>>

\* The loop's and the kernel's, as in the modules of the selectors.
Fairness ==
  /\ WF_all(Loops)
  /\ \A fd \in Watchable, e \in Kqueue!Event : SF_all(KqueueReports(fd, e))

SelectorsSpec == SelectorsInit /\ [][SelectorsNext]_all /\ Fairness

-----------------------------------------------------------------------------
\* The type invariants of the selectors: neither of the arrays of poll() is
\* overrun and no count of reported events passes below 0.
SelectorsTypeOK ==
  /\ running = "poll" => Poll!TypeOK
  /\ running = "select" => Select!TypeOK
  /\ running = "kqueue" => Kqueue!TypeOK

\* The kernel is asked about the inserted descriptors, all of them and no
\* others, in the middle of the walk over its answer too: the array of poll()
\* lists them in the order of net::fdset, for what their handlers wait for, and
\* select() is given a number that covers every watched one.
WatchedAsInserted ==
  /\ SelectorsTypeOK
  /\ running = "poll" => Poll!ArraysRunInParallel
  /\ running = "select" => Select!SelectSeesAll

\* No report of the kernel is lost while its handlers close descriptors and
\* accept new ones: the counts of what poll() and select() have reported are
\* exact, and an edge of kqueue is pending or the handler has been told.
NoReportIsLost ==
  /\ running = "poll" => Poll!EveryReportIsServed
  /\ running = "select" => Select!EveryBitIsServed
  /\ running = "kqueue" => Kqueue!NoLostEdge

Wanted(fd) ==
  \/ running = "poll" /\ Poll!Wanted(fd)
  \/ running = "select" /\ Select!Wanted(fd)

\* A descriptor that is and stays ready for what poll() or select() watches it
\* for gets its handler called.
ReadyIsServed == \A fd \in Watchable : Wanted(fd) ~> (called = fd \/ ~Wanted(fd))

\* What happened to a socket under kqueue is told to its handler, or the
\* socket is closed.
EdgesAreTold == running = "kqueue" => Kqueue!EdgesAreTold
=============================================================================
