-------------------------- MODULE SelectorsProofs --------------------------
(***************************************************************************)
(* Proofs about the selectors on net::fdset, for any number of descriptors *)
(* and of clients, and any descriptor of the listener: in the middle of    *)
(* the walk over what the kernel has reported, while handlers close and    *)
(* accept sockets, nothing of it is lost and the kernel is asked about     *)
(* what is inserted.                                                       *)
(***************************************************************************)
EXTENDS MCSelectors, Sequences, FiniteSetTheorems, WellFoundedInduction, TLAPS

Numbers == 0 .. Descriptors - 1

\* net::fdset inside a selector, with what is proved about it.
Held == INSTANCE FdSetProofs WITH
  Size <- Descriptors, Item <- {"listener", "socket"},
  pos <- spos, item <- sitem, index <- sindex, used <- sused, ok <- sok

\* The operations of the three selectors are those of this set.
LEMMA OneSet ==
  /\ Poll!Set!TypeOK = Held!TypeOK /\ Select!Set!TypeOK = Held!TypeOK /\ Kqueue!Set!TypeOK = Held!TypeOK
  /\ \A fd \in Numbers : /\ Poll!Set!Add(fd, "socket") = Held!Add(fd, "socket")
                         /\ Select!Set!Add(fd, "socket") = Held!Add(fd, "socket")
                         /\ Kqueue!Set!Add(fd, "socket") = Held!Add(fd, "socket")
  /\ \A fd \in Numbers : /\ Poll!Set!Remove(fd) = Held!Remove(fd)
                         /\ Select!Set!Remove(fd) = Held!Remove(fd)
                         /\ Kqueue!Set!Remove(fd) = Held!Remove(fd)
  /\ Poll!Inserted = Held!Inserted /\ Select!Inserted = Held!Inserted /\ Kqueue!Inserted = Held!Inserted
  /\ Held!Fd = Numbers /\ Poll!Fd = Numbers /\ Select!Fd = Numbers /\ Kqueue!Fd = Numbers
<1>1. /\ Held!Fd = Numbers /\ Poll!Fd = Numbers /\ Select!Fd = Numbers /\ Kqueue!Fd = Numbers
      /\ Poll!Set!Fd = Numbers /\ Select!Set!Fd = Numbers /\ Kqueue!Set!Fd = Numbers
      /\ Poll!Set!NotInserted = Held!NotInserted /\ Select!Set!NotInserted = Held!NotInserted
      /\ Kqueue!Set!NotInserted = Held!NotInserted
  BY DEF Held!Fd, Poll!Fd, Select!Fd, Kqueue!Fd, Poll!Set!Fd, Select!Set!Fd, Kqueue!Set!Fd, Numbers,
         Poll!Set!NotInserted, Select!Set!NotInserted, Kqueue!Set!NotInserted, Held!NotInserted
<1>2. Poll!Set!TypeOK = Held!TypeOK /\ Select!Set!TypeOK = Held!TypeOK /\ Kqueue!Set!TypeOK = Held!TypeOK
  BY <1>1, Zenon DEF Poll!Set!TypeOK, Select!Set!TypeOK, Kqueue!Set!TypeOK, Held!TypeOK
<1>3. Poll!Inserted = Held!Inserted /\ Select!Inserted = Held!Inserted /\ Kqueue!Inserted = Held!Inserted
  BY <1>1, Zenon DEF Poll!Inserted, Select!Inserted, Kqueue!Inserted, Held!Inserted
<1>4. ASSUME NEW fd \in Numbers
      PROVE  /\ Poll!Set!Add(fd, "socket") = Held!Add(fd, "socket")
             /\ Select!Set!Add(fd, "socket") = Held!Add(fd, "socket")
             /\ Kqueue!Set!Add(fd, "socket") = Held!Add(fd, "socket")
  BY <1>1, Zenon DEF Poll!Set!Add, Select!Set!Add, Kqueue!Set!Add, Held!Add
<1>5. ASSUME NEW fd \in Numbers
      PROVE  /\ Poll!Set!Remove(fd) = Held!Remove(fd)
             /\ Select!Set!Remove(fd) = Held!Remove(fd)
             /\ Kqueue!Set!Remove(fd) = Held!Remove(fd)
  BY <1>1, Zenon DEF Poll!Set!Remove, Select!Set!Remove, Kqueue!Set!Remove, Held!Remove,
                     Poll!Set!Last, Select!Set!Last, Kqueue!Set!Last, Held!Last
<1>. QED
  BY <1>1, <1>2, <1>3, <1>4, <1>5

\* They count alike.
LEMMA OneCardinality ==
  ASSUME NEW S
  PROVE  Poll!Cardinality(S) = Cardinality(S) /\ Select!Cardinality(S) = Cardinality(S)
         /\ Kqueue!Cardinality(S) = Cardinality(S)
  BY Zenon DEF Poll!Cardinality, Select!Cardinality, Kqueue!Cardinality, Cardinality

-----------------------------------------------------------------------------
(* What inserting and removing a descriptor does to the index.             *)

\* The set, with the listener in front.
Sound == Held!IInv /\ spos[Listener] = 0

\* An inserted descriptor is where its entry says, and nowhere else.
LEMMA Places ==
  ASSUME Sound
  PROVE  /\ Descriptors \in Nat \ {0} /\ Listener \in Numbers /\ sused \in 1 .. Descriptors /\ sindex[0] = Listener
         /\ spos \in [Numbers -> Numbers \cup {-1}] /\ sindex \in [Numbers -> Numbers]
         /\ Held!Inserted = {fd \in Numbers : spos[fd] # -1} /\ Listener \in Held!Inserted
         /\ \A fd \in Held!Inserted : spos[fd] \in 0 .. sused - 1 /\ sindex[spos[fd]] = fd
         /\ \A n \in 0 .. sused - 1 : n \in Numbers /\ sindex[n] \in Held!Inserted /\ spos[sindex[n]] = n
<1>1. Descriptors \in Nat \ {0} /\ Listener \in Numbers
  BY InstanceAssumption DEF Numbers
<1>2. Held!TypeOK /\ Held!ArraysAgree /\ Held!Fd = Numbers /\ Held!NotInserted = -1
  BY OneSet DEF Sound, Held!IInv, Held!NotInserted
<1>3. /\ spos \in [Numbers -> Numbers \cup {-1}] /\ sindex \in [Numbers -> Numbers]
      /\ sused \in 0 .. Descriptors
  BY <1>2 DEF Held!TypeOK
<1>4. /\ \A fd \in Numbers : spos[fd] # -1 => spos[fd] < sused /\ sindex[spos[fd]] = fd
      /\ \A n \in Numbers : n < sused => spos[sindex[n]] = n
  BY <1>2 DEF Held!ArraysAgree
<1>5. Held!Inserted = {fd \in Numbers : spos[fd] # -1}
  BY <1>2 DEF Held!Inserted
<1>6. ASSUME NEW fd \in Held!Inserted
      PROVE  spos[fd] \in 0 .. sused - 1 /\ sindex[spos[fd]] = fd
  <2>1. fd \in Numbers /\ spos[fd] # -1 /\ spos[fd] \in Numbers
    BY <1>3, <1>5
  <2>. QED
    BY <1>1, <1>3, <1>4, <2>1 DEF Numbers
<1>7. ASSUME NEW n \in 0 .. sused - 1
      PROVE  n \in Numbers /\ sindex[n] \in Held!Inserted /\ spos[sindex[n]] = n
  <2>1. n \in Numbers /\ n < sused /\ n # -1
    BY <1>1, <1>3 DEF Numbers
  <2>2. sindex[n] \in Numbers /\ spos[sindex[n]] = n
    BY <1>3, <1>4, <2>1
  <2>. QED
    BY <1>5, <2>1, <2>2
<1>8. Listener \in Held!Inserted
  BY <1>1, <1>5 DEF Sound
<1>9. sused \in 1 .. Descriptors /\ sindex[0] = Listener
  <2>1. spos[Listener] = 0
    BY DEF Sound
  <2>. QED
    BY <1>1, <1>3, <1>6, <1>8, <2>1
<1>. QED
  BY <1>1, <1>3, <1>5, <1>6, <1>7, <1>8, <1>9

\* add() appends.
LEMMA Added ==
  ASSUME Sound, NEW fd \in Numbers \ Held!Inserted, Held!Add(fd, "socket")
  PROVE  /\ Sound'
         /\ sused \in Numbers /\ sused' = sused + 1 /\ sindex'[sused] = fd
         /\ \A n \in 0 .. sused - 1 : sindex'[n] = sindex[n]
         /\ Held!Inserted' = Held!Inserted \cup {fd}
<1>1. /\ Descriptors \in Nat \ {0} /\ Listener \in Numbers /\ sused \in 1 .. Descriptors
      /\ spos \in [Numbers -> Numbers \cup {-1}] /\ sindex \in [Numbers -> Numbers]
      /\ Held!Inserted = {f \in Numbers : spos[f] # -1} /\ Listener \in Held!Inserted
  BY Places
<1>2. Held!IInv /\ spos[Listener] = 0 /\ fd \in Held!Fd
  BY OneSet DEF Sound
<1>3. Held!IInv'
  <2>1. Held!SizeAssumption
    BY <1>1 DEF Held!SizeAssumption
  <2>2. "socket" \in {"listener", "socket"}
    OBVIOUS
  <2>. QED
    BY <1>2, <2>1, <2>2, Held!AddPreserves, Zenon
<1>4. spos[fd] = -1 /\ Held!NotInserted = -1
  BY <1>1 DEF Held!NotInserted
<1>5. spos' = [spos EXCEPT ![fd] = sused] /\ sindex' = [sindex EXCEPT ![sused] = fd] /\ sused' = sused + 1
  BY <1>4 DEF Held!Add
<1>6. sused \in Numbers
  <2>1. sused' \in 0 .. Descriptors
    BY <1>3 DEF Held!IInv, Held!TypeOK
  <2>. QED
    BY <1>1, <1>5, <2>1 DEF Numbers
<1>7. Held!Inserted' = Held!Inserted \cup {fd}
  <2>1. Held!Inserted' = {f \in Numbers : spos'[f] # -1}
    BY OneSet, <1>4 DEF Held!Inserted
  <2>2. sused # -1
    BY <1>1
  <2>3. \A f \in Numbers : spos'[f] = IF f = fd THEN sused ELSE spos[f]
    BY <1>1, <1>5
  <2>. QED
    BY <1>1, <2>1, <2>2, <2>3
<1>8. spos'[Listener] = 0
  BY <1>1, <1>2, <1>5
<1>9. sindex'[sused] = fd
  BY <1>1, <1>5, <1>6
<1>10. \A n \in 0 .. sused - 1 : sindex'[n] = sindex[n]
  <2>1. \A n \in 0 .. sused - 1 : n \in Numbers /\ n # sused
    BY Places
  <2>. QED
    BY <1>1, <1>5, <2>1
<1>. QED
  BY <1>3, <1>5, <1>6, <1>7, <1>8, <1>9, <1>10 DEF Sound

\* remove() of a descriptor that is inserted moves the last one to its place,
\* and never the listener.
LEMMA Removed ==
  ASSUME Sound, NEW fd \in Held!Inserted, fd # Listener, Held!Remove(fd)
  PROVE  /\ Sound'
         /\ spos[fd] \in 1 .. sused - 1 /\ sused' = sused - 1
         /\ \A n \in 0 .. sused - 2 : sindex'[n] = IF n = spos[fd] THEN sindex[sused - 1] ELSE sindex[n]
         /\ Held!Inserted' = Held!Inserted \ {fd}
<1>1. /\ Descriptors \in Nat \ {0} /\ Listener \in Numbers /\ sused \in 1 .. Descriptors
      /\ spos \in [Numbers -> Numbers \cup {-1}] /\ sindex \in [Numbers -> Numbers]
      /\ Held!Inserted = {f \in Numbers : spos[f] # -1}
      /\ Listener \in Held!Inserted /\ sindex[0] = Listener
      /\ \A f \in Held!Inserted : spos[f] \in 0 .. sused - 1 /\ sindex[spos[f]] = f
      /\ \A n \in 0 .. sused - 1 : n \in Numbers /\ sindex[n] \in Held!Inserted /\ spos[sindex[n]] = n
  BY Places
<1>2. Held!IInv /\ spos[Listener] = 0 /\ fd \in Held!Fd /\ fd \in Numbers /\ Held!NotInserted = -1
  BY <1>1, OneSet DEF Sound, Held!NotInserted
<1>3. Held!IInv'
  <2>1. Held!SizeAssumption
    BY <1>1 DEF Held!SizeAssumption
  <2>. QED
    BY <1>2, <2>1, Held!RemovePreserves, Zenon
<1>. DEFINE p == spos[fd]
            last == sindex[sused - 1]
<1>4. p \in 1 .. sused - 1 /\ p \in Numbers
  <2>1. p \in 0 .. sused - 1 /\ sindex[p] = fd
    BY <1>1
  <2>2. p # 0
    BY <1>1, <2>1
  <2>. HIDE DEF p
  <2>3. p \in 1 .. sused - 1
    BY <1>1, <2>1, <2>2
  <2>. QED
    BY <1>1, <2>1, <2>3
<1>5. sused - 1 \in 0 .. sused - 1 /\ sused - 1 \in Numbers /\ sused - 1 # 0
  BY <1>1, <1>4 DEF Numbers
<1>6. last \in Held!Inserted /\ last \in Numbers /\ spos[last] = sused - 1 /\ last # Listener
  BY <1>1, <1>2, <1>5
<1>7. /\ sused' = sused - 1
      /\ IF p < sused - 1
           THEN /\ sindex' = [sindex EXCEPT ![p] = last]
                /\ spos' = [spos EXCEPT ![fd] = -1, ![last] = p]
           ELSE /\ spos' = [spos EXCEPT ![fd] = -1]
                /\ sindex' = sindex
  <2>1. spos[fd] # -1
    BY <1>1
  <2>. QED
    BY <1>2, <2>1 DEF Held!Remove, Held!Last
<1>8. ASSUME NEW n \in 0 .. sused - 2
      PROVE  sindex'[n] = IF n = p THEN last ELSE sindex[n]
  <2>1. n \in Numbers /\ n < sused - 1 /\ (n = p => p < sused - 1)
    BY <1>1 DEF Numbers
  <2>. HIDE DEF p, last
  <2>2. CASE p < sused - 1
    BY <1>1, <1>4, <1>7, <2>1, <2>2
  <2>3. CASE ~(p < sused - 1)
    BY <1>7, <2>1, <2>3
  <2>. QED
    BY <2>2, <2>3
<1>9. \A f \in Numbers : spos'[f] = -1 <=> (f = fd \/ spos[f] = -1)
  <2>. HIDE DEF p
  <2>1. p # -1 /\ p \in Int
    BY <1>4
  <2>2. CASE p < sused - 1
    <3>1. last # fd
      <4>1. spos[fd] = p
        BY DEF p
      <4>. QED
        BY <1>6, <2>1, <2>2, <4>1
    <3>2. spos[last] # -1
      BY <1>1, <1>6
    <3>. HIDE DEF last
    <3>. QED
      BY <1>1, <1>2, <1>6, <1>7, <2>1, <2>2, <3>1, <3>2
  <2>3. CASE ~(p < sused - 1)
    BY <1>1, <1>2, <1>7, <2>3
  <2>. QED
    BY <2>2, <2>3
<1>10. Held!Inserted' = Held!Inserted \ {fd}
  <2>1. Held!Inserted' = {f \in Numbers : spos'[f] # -1}
    BY OneSet, <1>2 DEF Held!Inserted
  <2>. QED
    BY <1>1, <1>9, <2>1
<1>11. spos'[Listener] = 0
  <2>. HIDE DEF p, last
  <2>. QED
    BY <1>1, <1>2, <1>6, <1>7
<1>. QED
  BY <1>3, <1>4, <1>7, <1>8, <1>10, <1>11 DEF Sound

\* A step that leaves the set alone.
LEMMA SetStays ==
  ASSUME Sound, UNCHANGED <<spos, sitem, sindex, sused, sok>>
  PROVE  Sound' /\ Held!Inserted' = Held!Inserted
<1>1. Held!Inserted' = Held!Inserted
  BY Zenon DEF Held!Inserted
<1>2. Held!TypeOK' /\ Held!ArraysAgree'
  BY DEF Sound, Held!IInv, Held!TypeOK, Held!ArraysAgree
<1>3. Held!CountIsExact'
  BY Zenon DEF Sound, Held!IInv, Held!CountIsExact
<1>. QED
  BY <1>1, <1>2, <1>3 DEF Sound, Held!IInv

-----------------------------------------------------------------------------
(* Counting positions.                                                     *)

\* Positions below u are finitely many, u at most.
LEMMA Below ==
  ASSUME NEW i \in Nat, NEW u \in Nat, NEW S \in SUBSET (i .. u - 1)
  PROVE  IsFiniteSet(S) /\ Cardinality(S) \in 0 .. u
<1>1. i \in Int /\ u - 1 \in Int
  OBVIOUS
<1>2. IsFiniteSet(i .. u - 1) /\ Cardinality(i .. u - 1) = IF i > u - 1 THEN 0 ELSE u - 1 - i + 1
  BY <1>1, FS_Interval
<1>3. Cardinality(i .. u - 1) \in 0 .. u
  BY <1>2
<1>4. IsFiniteSet(S) /\ Cardinality(S) <= Cardinality(i .. u - 1)
  BY <1>2, FS_Subset
<1>5. Cardinality(S) \in Nat
  BY <1>4, FS_CardinalityType
<1>. QED
  BY <1>3, <1>4, <1>5

\* Looking at position i takes it out of what is ahead.
LEMMA LookedAt ==
  ASSUME NEW i \in Nat, NEW u \in Nat, NEW S \in SUBSET (i .. u - 1), NEW T,
         T = S \ {i}
  PROVE  /\ T \in SUBSET (i + 1 .. u - 1) /\ Cardinality(S) \in Nat /\ Cardinality(T) \in Nat
         /\ i \in S => Cardinality(S) = Cardinality(T) + 1
         /\ i \notin S => T = S
<1>1. IsFiniteSet(S) /\ Cardinality(S) \in Nat
  BY Below
<1>2. ASSUME i \in S
      PROVE  Cardinality(S) = Cardinality(T) + 1
  <2>1. Cardinality(S \ {i}) = Cardinality(S) - 1
    BY <1>1, <1>2, FS_RemoveElement
  <2>. QED
    BY <1>1, <2>1
<1>3. IsFiniteSet(T) /\ Cardinality(T) \in Nat
  BY <1>1, FS_RemoveElement, FS_CardinalityType
<1>. QED
  BY <1>1, <1>2, <1>3

\* The walk steps onto i again, where what was at the end, u - 1, has been moved
\* to: as many are ahead as before.
LEMMA MovedForward ==
  ASSUME NEW i \in Nat, NEW u \in Nat, i < u,
         NEW S \in SUBSET (i + 1 .. u - 1), NEW T \in SUBSET (i .. u - 2),
         \A n \in i + 1 .. u - 2 : n \in T <=> n \in S,
         i < u - 1 => (i \in T <=> u - 1 \in S)
  PROVE  Cardinality(T) = Cardinality(S)
<1>. DEFINE A == S \cap (i + 1 .. u - 2)
<1>1. IsFiniteSet(A)
  <2>1. A \in SUBSET (i + 1 .. u - 1) /\ i + 1 \in Nat
    OBVIOUS
  <2>. QED
    BY <2>1, Below
<1>2. i \notin A /\ u - 1 \notin A
  OBVIOUS
<1>3. Cardinality(A \cup {i}) = Cardinality(A) + 1 /\ Cardinality(A \cup {u - 1}) = Cardinality(A) + 1
  <2>. HIDE DEF A
  <2>. QED
    BY <1>1, <1>2, FS_AddElement
<1>0. /\ \A n \in T : n = i \/ n \in i + 1 .. u - 2
      /\ \A n \in S : n = u - 1 \/ n \in i + 1 .. u - 2
      /\ \A n \in A : n \in S /\ n \in T
  OBVIOUS
<1>4. CASE i \in T
  <2>1. i < u - 1 /\ u - 1 \in S
    BY <1>4
  <2>2. T = A \cup {i} /\ S = A \cup {u - 1}
    BY <1>0, <1>4, <2>1
  <2>. QED
    BY <1>3, <2>2
<1>5. CASE i \notin T
  <2>1. u - 1 \notin S
    BY <1>5
  <2>2. T = A /\ S = A
    BY <1>0, <1>5, <2>1
  <2>. QED
    BY <2>2
<1>. QED
  BY <1>4, <1>5

-----------------------------------------------------------------------------
(* poll().                                                                 *)

Filters == {"in", "out"}
PollEntry == [fd : Numbers, events : SUBSET Filters, revents : SUBSET Filters]

\* Positions from "from" on, below u, for which the kernel has reported something.
Marked(evs, from, u) == {n \in from .. u - 1 : evs[n].revents # {}}

PollShape ==
  /\ ready \in [Numbers -> SUBSET Filters]
  /\ events \in [Numbers -> PollEntry]
  /\ pc \in {"wait", "process", "readable", "writable"}
  /\ at \in 0 .. Descriptors
  /\ nevents \in 0 .. Descriptors
  /\ called \in Numbers \cup {-1}
  /\ pc \in {"readable", "writable"} => at < sused

PollCount ==
  /\ pc = "process" => nevents = Cardinality(Marked(events, at, sused))
  /\ pc \in {"readable", "writable"} => nevents = Cardinality(Marked(events, at + 1, sused))

\* The inductive invariant of the selector over poll().
PollInv == Sound /\ PollShape /\ Poll!ArraysRunInParallel /\ PollCount

\* It has in it what the run checks.
LEMMA PollPromises ==
  ASSUME PollInv
  PROVE  Poll!TypeOK /\ Poll!ArraysRunInParallel /\ Poll!EveryReportIsServed
<1>1. Poll!Fd = Numbers /\ Poll!Event = Filters /\ Poll!NoOne = -1
  BY OneSet DEF Poll!Event, Filters, Poll!NoOne
<1>2. Poll!ReadinessOK
  BY <1>1, OneSet DEF Poll!ReadinessOK, PollInv, Sound, Held!IInv, PollShape
<1>3. Poll!TypeOK
  BY <1>1, <1>2, Zenon DEF Poll!TypeOK, PollInv, PollShape, PollEntry
<1>4. Poll!EveryReportIsServed
  <2>1. CASE pc = "process"
    <3>1. {n \in Poll!Ahead : events[n].revents # {}} = Marked(events, at, sused)
      BY <2>1 DEF Poll!Ahead, Marked
    <3>2. nevents = Cardinality(Marked(events, at, sused))
      BY <2>1 DEF PollInv, PollCount
    <3>. QED
      BY <3>1, <3>2, OneCardinality, Zenon DEF Poll!EveryReportIsServed
  <2>2. CASE pc \in {"readable", "writable"}
    <3>1. {n \in Poll!Ahead : events[n].revents # {}} = Marked(events, at + 1, sused)
      BY <2>2 DEF Poll!Ahead, Marked
    <3>2. nevents = Cardinality(Marked(events, at + 1, sused))
      BY <2>2 DEF PollInv, PollCount
    <3>. QED
      BY <3>1, <3>2, OneCardinality, Zenon DEF Poll!EveryReportIsServed
  <2>3. CASE pc = "wait"
    BY <2>3 DEF Poll!EveryReportIsServed
  <2>. QED
    BY <2>1, <2>2, <2>3 DEF PollInv, PollShape
<1>. QED
  BY <1>3, <1>4 DEF PollInv

\* What every step may use.
LEMMA PollFacts ==
  ASSUME PollInv
  PROVE  /\ Descriptors \in Nat /\ sused \in 1 .. Descriptors
         /\ at \in Nat /\ nevents \in Nat
         /\ \A n \in 0 .. sused - 1 : n \in Numbers /\ events[n].fd = sindex[n]
         /\ \A f, u \in Nat : /\ Marked(events, f, u) \in SUBSET (f .. u - 1)
                              /\ Cardinality(Marked(events, f, u)) \in 0 .. u
         /\ Poll!Fd = Numbers /\ Poll!Inserted = Held!Inserted /\ Poll!Event = Filters
         /\ \A n \in Numbers : events[n] \in PollEntry
<1>1. Sound /\ PollShape /\ Poll!ArraysRunInParallel
  BY DEF PollInv
<1>2. Descriptors \in Nat /\ sused \in 1 .. Descriptors /\ \A n \in 0 .. sused - 1 : n \in Numbers
  BY <1>1, Places
<1>3. \A f, u \in Nat : Marked(events, f, u) \in SUBSET (f .. u - 1)
  BY DEF Marked
<1>4. \A f, u \in Nat : Cardinality(Marked(events, f, u)) \in 0 .. u
  BY <1>3, Below
<1>5. at \in Nat /\ nevents \in Nat /\ \A n \in Numbers : events[n] \in PollEntry
  BY <1>1, <1>2 DEF PollShape
<1>6. \A n \in 0 .. sused - 1 : events[n].fd = sindex[n]
  BY <1>1 DEF Poll!ArraysRunInParallel
<1>7. Poll!Fd = Numbers /\ Poll!Inserted = Held!Inserted /\ Poll!Event = Filters
  BY OneSet DEF Poll!Event, Filters
<1>. QED
  BY <1>2, <1>3, <1>4, <1>5, <1>6, <1>7

\* poll() returns: everything reported is ahead.
LEMMA PollPollReturns ==
  ASSUME PollInv, Poll!PollReturns
  PROVE  PollInv'
<1>1. /\ UNCHANGED <<spos, sitem, sindex, sused, sok, ready, called>>
      /\ events' = Poll!Polled /\ at' = 0 /\ pc' = "process"
      /\ nevents' = Cardinality({n \in 0 .. sused - 1 : Poll!Polled[n].revents # {}})
  BY OneCardinality DEF Poll!PollReturns, Poll!selector
<1>2. /\ Descriptors \in Nat /\ sused \in 1 .. Descriptors /\ Poll!Fd = Numbers
      /\ \A n \in 0 .. sused - 1 : n \in Numbers /\ events[n].fd = sindex[n]
      /\ \A n \in Numbers : events[n] \in PollEntry
  BY PollFacts
<1>3. Sound'
  BY <1>1, SetStays DEF PollInv
<1>4. /\ events' \in [Numbers -> PollEntry]
      /\ \A n \in Numbers : events'[n].fd = events[n].fd
  <2>1. events' = [n \in Numbers |-> IF n < sused THEN [events[n] EXCEPT !.revents = Poll!Reported(events[n])]
                                     ELSE events[n]]
    BY <1>1, <1>2 DEF Poll!Polled
  <2>2. \A n \in Numbers : Poll!Reported(events[n]) \in SUBSET Filters
    BY <1>2 DEF Poll!Reported, PollEntry
  <2>3. ASSUME NEW n \in Numbers
        PROVE  events'[n] \in PollEntry /\ events'[n].fd = events[n].fd
    <3>1. events'[n] = IF n < sused THEN [events[n] EXCEPT !.revents = Poll!Reported(events[n])] ELSE events[n]
      BY <2>1
    <3>2. events[n] \in PollEntry /\ Poll!Reported(events[n]) \in SUBSET Filters
      BY <1>2, <2>2
    <3>. QED
      BY <3>1, <3>2 DEF PollEntry
  <2>. QED
    BY <2>1, <2>3
<1>5. nevents' = Cardinality(Marked(events', at', sused'))
  BY <1>1, Zenon DEF Marked
<1>6. nevents' \in 0 .. Descriptors
  <2>1. Marked(events', 0, sused) \in SUBSET (0 .. sused - 1)
    BY DEF Marked
  <2>2. nevents' \in 0 .. sused
    BY <1>1, <1>2, <1>5, <2>1, Below
  <2>. QED
    BY <1>2, <2>2
<1>7. PollShape'
  BY <1>1, <1>2, <1>4, <1>6 DEF PollInv, PollShape
<1>8. Poll!ArraysRunInParallel'
  BY <1>1, <1>2, <1>4 DEF Poll!ArraysRunInParallel
<1>9. PollCount'
  BY <1>1, <1>5 DEF PollCount
<1>. QED
  BY <1>3, <1>7, <1>8, <1>9 DEF PollInv

\* A step that leaves the set and the descriptors of the array alone.
LEMMA PollSame ==
  ASSUME PollInv, UNCHANGED <<spos, sitem, sindex, sused, sok>>,
         events' \in [Numbers -> PollEntry], \A n \in Numbers : events'[n].fd = events[n].fd,
         ready' \in [Numbers -> SUBSET Filters],
         pc' \in {"wait", "process", "readable", "writable"},
         at' \in 0 .. Descriptors, nevents' \in 0 .. Descriptors, called' \in Numbers \cup {-1},
         pc' \in {"readable", "writable"} => at' < sused,
         PollCount'
  PROVE  PollInv'
<1>1. Sound'
  BY SetStays DEF PollInv
<1>2. PollShape'
  BY Zenon DEF PollShape
<1>3. Poll!ArraysRunInParallel'
  BY PollFacts DEF Poll!ArraysRunInParallel
<1>. QED
  BY <1>1, <1>2, <1>3 DEF PollInv

\* What the steps of the walk do to the count.
LEMMA PollCountOf ==
  ASSUME PollInv, sused' = sused, NEW f \in Nat, events' = events
  PROVE  Marked(events', f, sused') = Marked(events, f, sused)
BY DEF Marked

\* An entry with nothing reported is not counted.
LEMMA PollSkip ==
  ASSUME PollInv, Poll!Skip
  PROVE  PollInv'
<1>1. /\ UNCHANGED <<spos, sitem, sindex, sused, sok, ready, events, pc, nevents, called>>
      /\ pc = "process" /\ at < sused /\ events[at].revents = {} /\ at' = at + 1
  BY DEF Poll!Skip, Poll!Looking, Poll!selector
<1>2. Descriptors \in Nat /\ sused \in 1 .. Descriptors /\ at \in Nat
  BY PollFacts
<1>3. at \notin Marked(events, at, sused) /\ Marked(events, at + 1, sused) = Marked(events, at, sused) \ {at}
  BY <1>1, <1>2 DEF Marked
<1>4. Marked(events, at + 1, sused) = Marked(events, at, sused)
  BY <1>3
<1>5. nevents = Cardinality(Marked(events, at, sused))
  BY <1>1 DEF PollInv, PollCount
<1>6. PollCount'
  BY <1>1, <1>4, <1>5 DEF PollCount
<1>7. at' \in 0 .. Descriptors
  BY <1>1, <1>2
<1>8. PollShape
  BY DEF PollInv
<1>. QED
  BY <1>1, <1>6, <1>7, <1>8, PollSame DEF PollShape

\* An entry with something reported is counted.
LEMMA PollFind ==
  ASSUME PollInv, Poll!Find
  PROVE  PollInv'
<1>1. /\ UNCHANGED <<spos, sitem, sindex, sused, sok, ready, events, at, called>>
      /\ pc = "process" /\ at < sused /\ events[at].revents # {} /\ nevents' = nevents - 1
      /\ pc' = "readable" /\ nevents > 0
  BY DEF Poll!Find, Poll!Looking, Poll!selector
<1>2. /\ Descriptors \in Nat /\ sused \in 1 .. Descriptors /\ at \in Nat /\ nevents \in Nat
  BY PollFacts
<1>3. at \in Marked(events, at, sused) /\ Marked(events, at + 1, sused) = Marked(events, at, sused) \ {at}
  BY <1>1, <1>2 DEF Marked
<1>4. nevents = Cardinality(Marked(events, at, sused))
  BY <1>1 DEF PollInv, PollCount
<1>5. /\ Cardinality(Marked(events, at, sused)) = Cardinality(Marked(events, at + 1, sused)) + 1
      /\ Cardinality(Marked(events, at + 1, sused)) \in Nat
  <2>1. Marked(events, at, sused) \in SUBSET (at .. sused - 1) /\ sused \in Nat
    BY <1>2 DEF Marked
  <2>. QED
    BY <1>2, <1>3, <2>1, LookedAt
<1>6. nevents' = Cardinality(Marked(events, at + 1, sused))
  BY <1>1, <1>4, <1>5
<1>7. PollCount'
  BY <1>1, <1>6 DEF PollCount
<1>8. PollShape /\ nevents' \in 0 .. Descriptors
  BY <1>1, <1>2 DEF PollInv, PollShape
<1>. QED
  BY <1>1, <1>7, <1>8, PollSame DEF PollShape

\* The end of the walk.
LEMMA PollDone ==
  ASSUME PollInv, Poll!Done
  PROVE  PollInv'
<1>1. /\ UNCHANGED <<spos, sitem, sindex, sused, sok, ready, events, called>>
      /\ pc' = "wait" /\ at' = 0 /\ nevents' = 0
  BY DEF Poll!Done, Poll!selector
<1>2. PollCount' /\ PollShape /\ 0 \in 0 .. Descriptors
  BY <1>1, PollFacts DEF PollCount, PollInv
<1>. QED
  BY <1>1, <1>2, PollSame DEF PollShape

\* The walk goes on from an entry whose handler keeps it: what is ahead stays.
LEMMA PollOnwards ==
  ASSUME PollInv, Poll!Onwards, UNCHANGED <<sused, nevents>>,
         \A n \in at + 1 .. sused - 1 : events'[n] = events[n]
  PROVE  /\ PollCount' /\ pc' \in {"process", "writable"} /\ at' \in 0 .. Descriptors
         /\ pc' = "writable" => at' < sused
<1>1. Descriptors \in Nat /\ sused \in 1 .. Descriptors /\ at \in Nat
  BY PollFacts
<1>2. /\ pc \in {"readable", "writable"}
      /\ IF pc = "readable" THEN pc' = "writable" /\ at' = at ELSE pc' = "process" /\ at' = at + 1
  BY DEF Poll!Onwards
<1>3. at < sused /\ nevents = Cardinality(Marked(events, at + 1, sused))
  BY <1>2 DEF PollInv, PollShape, PollCount
<1>4. Marked(events', at + 1, sused') = Marked(events, at + 1, sused)
  BY <1>1 DEF Marked
<1>5. PollCount'
  BY <1>2, <1>3, <1>4 DEF PollCount
<1>. QED
  BY <1>1, <1>2, <1>3, <1>5

\* No handler for this event.
LEMMA PollNoCall ==
  ASSUME PollInv, Poll!NoCall
  PROVE  PollInv'
<1>1. Poll!Onwards /\ UNCHANGED <<spos, sitem, sindex, sused, sok, ready, events, nevents, called>>
  BY DEF Poll!NoCall, Poll!selector
<1>2. /\ PollCount' /\ pc' \in {"process", "writable"} /\ at' \in 0 .. Descriptors
      /\ pc' = "writable" => at' < sused
  BY <1>1, PollOnwards
<1>3. PollShape
  BY DEF PollInv
<1>. QED
  BY <1>1, <1>2, <1>3, PollSame DEF PollShape

\* The descriptor whose handler runs is at this place of the index.
LEMMA PollCalled ==
  ASSUME PollInv, NEW e, Poll!Calls(e)
  PROVE  /\ pc \in {"readable", "writable"} /\ at \in 0 .. sused - 1
         /\ events[at].fd = sindex[at] /\ events[at].fd \in Held!Inserted /\ spos[events[at].fd] = at
         /\ called' = events[at].fd
<1>1. pc \in {"readable", "writable"} /\ called' = events[at].fd
  BY DEF Poll!Calls
<1>2. at \in 0 .. sused - 1
  BY <1>1, PollFacts DEF PollInv, PollShape
<1>3. sindex[at] \in Held!Inserted /\ spos[sindex[at]] = at
  BY <1>2, Places DEF PollInv
<1>. QED
  BY <1>1, <1>2, <1>3, PollFacts

\* The handler of a socket keeps it, and may change what it waits for.
LEMMA PollStays ==
  ASSUME PollInv, Poll!Stays
  PROVE  PollInv'
<1>1. PICK e : Poll!Calls(e)
  BY DEF Poll!Stays
<1>2. /\ at \in 0 .. sused - 1 /\ events[at].fd \in Held!Inserted /\ spos[events[at].fd] = at
      /\ called' = events[at].fd
  BY <1>1, PollCalled
<1>3. /\ UNCHANGED <<spos, sitem, sindex, sused, sok, nevents>> /\ Poll!Onwards
      /\ Poll!Served(events[at].fd)
      /\ \/ events' = events
         \/ \E w \in Poll!Event : events' = [events EXCEPT ![at] = Poll!PollFd(events[at].fd, {w})]
  BY <1>2 DEF Poll!Stays, Poll!selector, Poll!Modify
<1>4. /\ Descriptors \in Nat /\ sused \in 1 .. Descriptors /\ at \in Numbers /\ Poll!Event = Filters
      /\ events[at].fd \in Numbers /\ PollShape
  BY <1>2, Places, PollFacts DEF PollInv
<1>5. /\ events' \in [Numbers -> PollEntry] /\ \A n \in Numbers : events'[n].fd = events[n].fd
      /\ \A n \in at + 1 .. sused - 1 : events'[n] = events[n]
  <2>1. CASE events' = events
    BY <1>4, <2>1 DEF PollShape
  <2>2. ASSUME NEW w \in Poll!Event, events' = [events EXCEPT ![at] = Poll!PollFd(events[at].fd, {w})]
        PROVE  /\ events' \in [Numbers -> PollEntry] /\ \A n \in Numbers : events'[n].fd = events[n].fd
               /\ \A n \in at + 1 .. sused - 1 : events'[n] = events[n]
    <3>. DEFINE entry == Poll!PollFd(events[at].fd, {w})
    <3>1. entry \in PollEntry /\ entry.fd = events[at].fd
      BY <1>4, <2>2 DEF PollEntry, Poll!PollFd
    <3>2. events \in [Numbers -> PollEntry] /\ events' = [events EXCEPT ![at] = entry]
      BY <1>4, <2>2 DEF PollShape
    <3>. HIDE DEF entry
    <3>. QED
      BY <1>2, <1>4, <3>1, <3>2 DEF Numbers
  <2>. QED
    BY <1>3, <2>1, <2>2
<1>6. /\ PollCount' /\ pc' \in {"process", "writable"} /\ at' \in 0 .. Descriptors
      /\ pc' = "writable" => at' < sused
  BY <1>3, <1>5, PollOnwards
<1>7. ready' \in [Numbers -> SUBSET Filters]
  <2>. DEFINE fd == events[at].fd
  <2>1. PICK left \in SUBSET ready[fd] : ready' = [ready EXCEPT ![fd] = left]
    BY <1>3 DEF Poll!Served
  <2>2. ready \in [Numbers -> SUBSET Filters]
    BY <1>4 DEF PollShape
  <2>. HIDE DEF fd
  <2>. QED
    BY <2>1, <2>2
<1>. QED
  BY <1>2, <1>3, <1>4, <1>5, <1>6, <1>7, PollSame DEF PollShape

\* The listener takes no client.
LEMMA PollAcceptsNone ==
  ASSUME PollInv, Poll!AcceptsNone
  PROVE  PollInv'
<1>1. /\ UNCHANGED <<spos, sitem, sindex, sused, sok, events, nevents>> /\ Poll!Onwards
      /\ Poll!Served(Listener) /\ Poll!Calls("in")
  BY DEF Poll!AcceptsNone, Poll!selector
<1>2. called' \in Numbers
  BY <1>1, PollCalled, Places DEF PollInv
<1>3. PollShape /\ Listener \in Numbers
  BY Places DEF PollInv
<1>4. /\ PollCount' /\ pc' \in {"process", "writable"} /\ at' \in 0 .. Descriptors
      /\ pc' = "writable" => at' < sused
  BY <1>1, PollOnwards
<1>5. ready' \in [Numbers -> SUBSET Filters]
  BY <1>1, <1>3 DEF Poll!Served, PollShape
<1>. QED
  BY <1>1, <1>2, <1>3, <1>4, <1>5, PollSame DEF PollShape

\* Peers act at any time.
LEMMA PollPeerActs ==
  ASSUME PollInv, NEW fd \in Numbers, NEW e \in Filters, Poll!PeerActs(fd, e),
         UNCHANGED <<Poll!selector, events, pc, at, nevents, called>>
  PROVE  PollInv'
<1>1. UNCHANGED <<spos, sitem, sindex, sused, sok, events, pc, at, nevents, called>>
  BY DEF Poll!selector
<1>2. PollShape
  BY DEF PollInv
<1>3. ready' \in [Numbers -> SUBSET Filters]
  BY <1>2 DEF Poll!PeerActs, PollShape
<1>4. PollCount'
  BY <1>1, Zenon DEF PollInv, PollCount, Marked
<1>. QED
  BY <1>1, <1>2, <1>3, <1>4, PollSame DEF PollShape

\* remove() does to the array what net::fdset does to its index.
LEMMA PollRemoved ==
  ASSUME PollInv, NEW fd \in Held!Inserted, fd # Listener, Poll!Remove(fd)
  PROVE  /\ Sound' /\ Poll!ArraysRunInParallel'
         /\ spos[fd] \in 1 .. sused - 1 /\ sused' = sused - 1
         /\ \A n \in 0 .. sused - 2 : events'[n] = IF n = spos[fd] THEN events[sused - 1] ELSE events[n]
         /\ events' \in [Numbers -> PollEntry] /\ ready' \in [Numbers -> SUBSET Filters]
<1>1. /\ Sound /\ PollShape /\ fd \in Numbers
      /\ \A n \in 0 .. sused - 1 : n \in Numbers /\ events[n].fd = sindex[n]
      /\ Descriptors \in Nat /\ sused \in 1 .. Descriptors
  BY PollFacts, Places DEF PollInv
<1>2. /\ Held!Remove(fd) /\ Poll!Closed(fd)
      /\ events' = IF spos[fd] < sused - 1 THEN [events EXCEPT ![spos[fd]] = events[sused - 1]] ELSE events
  BY <1>1, OneSet DEF Poll!Remove
<1>3. /\ Sound'
      /\ spos[fd] \in 1 .. sused - 1 /\ sused' = sused - 1
      /\ \A n \in 0 .. sused - 2 : sindex'[n] = IF n = spos[fd] THEN sindex[sused - 1] ELSE sindex[n]
  BY <1>1, <1>2, Removed
<1>. DEFINE p == spos[fd]
            u == sused
<1>4. p \in 1 .. u - 1 /\ u \in Nat /\ u - 1 \in 0 .. u - 1 /\ \A n \in 0 .. u - 2 : n \in 0 .. u - 1
  BY <1>1, <1>3
<1>5. p \in Numbers /\ u - 1 \in Numbers /\ events \in [Numbers -> PollEntry]
  BY <1>1, <1>4 DEF PollShape
<1>6. events' \in [Numbers -> PollEntry]
  <2>1. events[u - 1] \in PollEntry
    BY <1>5
  <2>. QED
    BY <1>2, <1>5, <2>1
<1>7. ready' \in [Numbers -> SUBSET Filters]
  BY <1>1, <1>2 DEF Poll!Closed, PollShape
<1>8. ASSUME NEW n \in 0 .. u - 2
      PROVE  events'[n] = IF n = p THEN events[u - 1] ELSE events[n]
  <2>1. n \in Numbers /\ (n = p => p < u - 1)
    BY <1>1, <1>4
  <2>2. IF p < u - 1 THEN events' = [events EXCEPT ![p] = events[u - 1]] ELSE events' = events
    BY <1>2
  <2>. HIDE DEF p, u
  <2>. QED
    BY <1>5, <2>1, <2>2
<1>9. Poll!ArraysRunInParallel'
  <2>1. ASSUME NEW n \in 0 .. sused' - 1
        PROVE  events'[n].fd = sindex'[n]
    <3>1. n \in 0 .. u - 2
      BY <1>3, <1>4, <2>1
    <3>2. events[u - 1].fd = sindex[u - 1] /\ events[n].fd = sindex[n]
      BY <1>1, <1>4, <3>1
    <3>. QED
      BY <1>3, <1>8, <3>1, <3>2
  <2>. QED
    BY <2>1 DEF Poll!ArraysRunInParallel
<1>. QED
  BY <1>3, <1>6, <1>7, <1>8, <1>9

\* A handler closes its socket: the entry that takes its place is ahead.
LEMMA PollLeaves ==
  ASSUME PollInv, Poll!Leaves
  PROVE  PollInv'
<1>1. PICK e : Poll!Calls(e)
  BY DEF Poll!Leaves
<1>. DEFINE fd == events[at].fd
<1>2. /\ pc \in {"readable", "writable"} /\ at \in 0 .. sused - 1 /\ fd \in Held!Inserted
      /\ spos[fd] = at /\ called' = fd
  BY <1>1, PollCalled
<1>3. /\ Poll!Remove(fd) /\ fd # Listener /\ pc' = "process" /\ at' = at /\ nevents' = nevents
  BY DEF Poll!Leaves
<1>4. /\ Sound' /\ Poll!ArraysRunInParallel'
      /\ spos[fd] \in 1 .. sused - 1 /\ sused' = sused - 1
      /\ \A n \in 0 .. sused - 2 : events'[n] = IF n = spos[fd] THEN events[sused - 1] ELSE events[n]
      /\ events' \in [Numbers -> PollEntry] /\ ready' \in [Numbers -> SUBSET Filters]
  BY <1>2, <1>3, PollRemoved
<1>5. /\ PollShape /\ Descriptors \in Nat /\ sused \in 1 .. Descriptors /\ fd \in Numbers
  BY <1>2, PollFacts, Places DEF PollInv
<1>6. nevents = Cardinality(Marked(events, at + 1, sused))
  BY <1>2 DEF PollInv, PollCount
<1>. DEFINE S == Marked(events, at + 1, sused)
            T == Marked(events', at, sused')
<1>7. Cardinality(T) = Cardinality(S)
  <2>1. at \in Nat /\ sused \in Nat /\ at < sused
    BY <1>2, <1>5
  <2>2. S \in SUBSET (at + 1 .. sused - 1) /\ T \in SUBSET (at .. sused - 2)
    BY <1>4, <1>5 DEF Marked
  <2>3. ASSUME NEW n \in at + 1 .. sused - 2
        PROVE  n \in T <=> n \in S
    <3>1. n \in 0 .. sused - 2 /\ n # at /\ n \in at .. sused' - 1 /\ n \in at + 1 .. sused - 1
      BY <1>4, <2>1
    <3>2. events'[n] = events[n]
      BY <1>2, <1>4, <3>1
    <3>. QED
      BY <3>1, <3>2 DEF Marked
  <2>4. ASSUME at < sused - 1
        PROVE  at \in T <=> sused - 1 \in S
    <3>1. at \in 0 .. sused - 2 /\ at \in at .. sused' - 1 /\ sused - 1 \in at + 1 .. sused - 1
      BY <1>4, <2>1, <2>4
    <3>2. events'[at] = events[sused - 1]
      BY <1>2, <1>4, <3>1
    <3>. QED
      BY <3>1, <3>2 DEF Marked
  <2>. HIDE DEF S, T
  <2>. QED
    BY <2>1, <2>2, <2>3, <2>4, MovedForward
<1>8. PollCount'
  BY <1>3, <1>6, <1>7 DEF PollCount
<1>9. PollShape'
  <2>1. called' \in Numbers \cup {-1}
    BY <1>2, <1>5
  <2>. QED
    BY <1>3, <1>4, <1>5, <2>1 DEF PollShape
<1>. QED
  BY <1>4, <1>8, <1>9 DEF PollInv

\* A timer closes a socket between two walks.
LEMMA PollExpire ==
  ASSUME PollInv, NEW fd \in Numbers, Poll!Expire(fd)
  PROVE  PollInv'
<1>1. /\ fd \in Held!Inserted /\ fd # Listener /\ Poll!Remove(fd) /\ pc = "wait"
      /\ UNCHANGED <<pc, at, nevents, called>>
  BY PollFacts DEF Poll!Expire, Poll!Sockets
<1>2. /\ Sound' /\ Poll!ArraysRunInParallel'
      /\ events' \in [Numbers -> PollEntry] /\ ready' \in [Numbers -> SUBSET Filters]
  BY <1>1, PollRemoved
<1>3. PollShape' /\ PollCount'
  BY <1>1, <1>2 DEF PollInv, PollShape, PollCount
<1>. QED
  BY <1>2, <1>3 DEF PollInv

\* The listener accepts a client: nothing has been reported of it yet.
LEMMA PollAccept ==
  ASSUME PollInv, Poll!Accept
  PROVE  PollInv'
<1>1. /\ Poll!Calls("in") /\ Poll!Onwards /\ nevents' = nevents
  BY DEF Poll!Accept
<1>2. PICK fd \in Numbers : Poll!Accepted(fd) /\ Poll!Add(fd, {"in"})
  BY PollFacts DEF Poll!Accept
<1>3. /\ Sound /\ PollShape /\ Listener \in Numbers /\ Descriptors \in Nat /\ sused \in 1 .. Descriptors
      /\ spos \in [Numbers -> Numbers \cup {-1}] /\ Held!Inserted = {f \in Numbers : spos[f] # -1}
      /\ \A n \in 0 .. sused - 1 : n \in Numbers /\ events[n].fd = sindex[n]
  BY Places, PollFacts DEF PollInv
<1>4. fd \in Numbers \ Held!Inserted /\ spos[fd] = -1
  BY <1>2, <1>3, PollFacts DEF Poll!Accepted
<1>5. Held!Add(fd, "socket") /\ events' = [events EXCEPT ![sused] = Poll!PollFd(fd, {"in"})]
  <2>1. Poll!Set!NotInserted = -1
    BY DEF Poll!Set!NotInserted
  <2>. QED
    BY <1>2, <1>4, <2>1, OneSet DEF Poll!Add
<1>6. /\ Sound'
      /\ sused \in Numbers /\ sused' = sused + 1 /\ sindex'[sused] = fd
      /\ \A n \in 0 .. sused - 1 : sindex'[n] = sindex[n]
  BY <1>3, <1>4, <1>5, Added
<1>. DEFINE entry == Poll!PollFd(fd, {"in"})
            u == sused
<1>7. entry \in PollEntry /\ entry.fd = fd /\ entry.revents = {}
  BY <1>2 DEF PollEntry, Poll!PollFd, Filters
<1>8. /\ events' \in [Numbers -> PollEntry] /\ events'[u] = entry
      /\ \A n \in Numbers : n # u => events'[n] = events[n]
  <2>1. events \in [Numbers -> PollEntry] /\ events' = [events EXCEPT ![u] = entry] /\ u \in Numbers
    BY <1>3, <1>5, <1>6 DEF PollShape
  <2>. HIDE DEF entry, u
  <2>. QED
    BY <1>7, <2>1
<1>9. Poll!ArraysRunInParallel'
  <2>1. ASSUME NEW n \in 0 .. sused' - 1
        PROVE  events'[n].fd = sindex'[n]
    <3>1. n = u \/ (n \in 0 .. u - 1 /\ n # u)
      BY <1>3, <1>6
    <3>2. CASE n = u
      BY <1>6, <1>7, <1>8, <3>2
    <3>3. CASE n \in 0 .. u - 1 /\ n # u
      <4>1. n \in Numbers /\ events[n].fd = sindex[n] /\ sindex'[n] = sindex[n]
        BY <1>3, <1>6, <3>3
      <4>. QED
        BY <1>8, <3>3, <4>1
    <3>. QED
      BY <3>1, <3>2, <3>3
  <2>. QED
    BY <2>1 DEF Poll!ArraysRunInParallel
<1>10. ready' \in [Numbers -> SUBSET Filters]
  <2>1. PICK more \in SUBSET ready[Listener], first \in SUBSET Filters :
          ready' = [ready EXCEPT ![Listener] = more, ![fd] = first]
    BY <1>2, PollFacts DEF Poll!Accepted
  <2>. QED
    BY <1>3, <2>1 DEF PollShape
<1>11. /\ pc = "readable" /\ at \in 0 .. u - 1 /\ called' \in Numbers
  <2>1. pc = "readable"
    BY <1>1 DEF Poll!Calls
  <2>. QED
    BY <1>1, <1>3, <2>1, PollCalled
<1>12. pc' = "writable" /\ at' = at
  BY <1>1, <1>11 DEF Poll!Onwards
<1>13. PollShape'
  BY <1>1, <1>3, <1>6, <1>8, <1>10, <1>11, <1>12 DEF PollShape
<1>14. PollCount'
  <2>1. nevents = Cardinality(Marked(events, at + 1, sused))
    BY <1>11 DEF PollInv, PollCount
  <2>2. Marked(events', at + 1, sused') = Marked(events, at + 1, sused)
    <3>1. ASSUME NEW n
          PROVE  n \in Marked(events', at + 1, sused') <=> n \in Marked(events, at + 1, sused)
      <4>1. at + 1 .. sused' - 1 = (at + 1 .. u - 1) \cup {u} /\ u \notin at + 1 .. u - 1
        BY <1>3, <1>6, <1>11
      <4>2. events'[u].revents = {}
        BY <1>7, <1>8
      <4>3. ASSUME n \in at + 1 .. u - 1
            PROVE  events'[n] = events[n]
        <5>1. n \in 0 .. u - 1 /\ n # u
          BY <1>3, <1>11, <4>3
        <5>. QED
          BY <1>3, <1>8, <5>1
      <4>. QED
        BY <4>1, <4>2, <4>3 DEF Marked
    <3>. QED
      BY <3>1
  <2>. QED
    BY <1>1, <1>12, <2>1, <2>2 DEF PollCount
<1>. QED
  BY <1>6, <1>9, <1>13, <1>14 DEF PollInv

\* What the three start from: listen() has added the listener.
LEMMA SoundFirst ==
  ASSUME /\ spos = [fd \in Numbers |-> IF fd = Listener THEN 0 ELSE -1]
         /\ sitem = [fd \in Numbers |-> IF fd = Listener THEN "listener" ELSE "socket"]
         /\ sindex = [n \in Numbers |-> Listener]
         /\ sused = 1
         /\ sok = TRUE
  PROVE  Sound
<1>1. Descriptors \in Nat \ {0} /\ Listener \in Numbers /\ 0 \in Numbers
  BY InstanceAssumption DEF Numbers
<1>2. Held!Fd = Numbers /\ Held!NotInserted = -1
  BY OneSet DEF Held!NotInserted
<1>3. Held!TypeOK
  <2>1. spos \in [Numbers -> Numbers \cup {-1}] /\ sindex \in [Numbers -> Numbers]
    BY <1>1
  <2>2. sitem \in [Numbers -> {"listener", "socket"}]
    OBVIOUS
  <2>3. sused \in 0 .. Descriptors /\ sok \in BOOLEAN
    BY <1>1
  <2>. QED
    BY <1>2, <2>1, <2>2, <2>3 DEF Held!TypeOK
<1>4. Held!ArraysAgree
  <2>1. \A n \in Numbers : n < 1 => n = 0
    BY <1>1 DEF Numbers
  <2>. QED
    BY <1>1, <1>2, <2>1 DEF Held!ArraysAgree
<1>5. Held!CountIsExact
  <2>1. {fd \in Held!Fd : spos[fd] # Held!NotInserted} = {Listener}
    BY <1>1, <1>2
  <2>2. Cardinality({Listener}) = 1
    BY FS_Singleton
  <2>3. Held!Cardinality({Listener}) = Cardinality({Listener})
    BY Zenon DEF Held!Cardinality, Cardinality
  <2>. QED
    BY <2>1, <2>2, <2>3 DEF Held!CountIsExact
<1>. QED
  BY <1>1, <1>3, <1>4, <1>5 DEF Sound, Held!IInv

\* Before the first call of poll().
LEMMA PollInitially ==
  ASSUME Poll!Init
  PROVE  PollInv
<1>1. /\ Poll!Listening /\ events = [n \in Numbers |-> Poll!PollFd(Listener, {"in"})]
      /\ pc = "wait" /\ at = 0 /\ nevents = 0 /\ called = -1
  BY OneSet DEF Poll!Init, Poll!NoOne
<1>2. Sound /\ ready = [fd \in Numbers |-> {}] /\ sused = 1 /\ sindex = [n \in Numbers |-> Listener]
  <2>1. Poll!Set!NotInserted = -1
    BY DEF Poll!Set!NotInserted
  <2>. QED
    BY <1>1, <2>1, OneSet, SoundFirst DEF Poll!Listening
<1>3. Descriptors \in Nat \ {0} /\ Listener \in Numbers /\ 0 \in Numbers
  BY InstanceAssumption DEF Numbers
<1>4. Poll!PollFd(Listener, {"in"}) \in PollEntry /\ Poll!PollFd(Listener, {"in"}).fd = Listener
  BY <1>3 DEF PollEntry, Poll!PollFd, Filters
<1>5. PollShape
  BY <1>1, <1>2, <1>3, <1>4 DEF PollShape
<1>6. Poll!ArraysRunInParallel
  <2>1. \A n \in 0 .. sused - 1 : n \in Numbers
    BY <1>2, <1>3
  <2>. QED
    BY <1>1, <1>2, <1>4, <2>1 DEF Poll!ArraysRunInParallel
<1>7. PollCount
  BY <1>1 DEF PollCount
<1>. QED
  BY <1>2, <1>5, <1>6, <1>7 DEF PollInv

\* Every step over poll() keeps the invariant.
LEMMA PollNext ==
  ASSUME PollInv, Poll!Next
  PROVE  PollInv'
<1>1. CASE Poll!Loop
  BY <1>1, PollPollReturns, PollSkip, PollFind, PollDone, PollNoCall, PollStays, PollLeaves,
     PollAccept, PollAcceptsNone DEF Poll!Loop
<1>2. CASE \E fd \in Poll!Fd : Poll!Expire(fd)
  BY <1>2, OneSet, PollExpire
<1>3. CASE \E fd \in Poll!Fd, e \in Poll!Event :
             Poll!PeerActs(fd, e) /\ UNCHANGED <<Poll!selector, events, pc, at, nevents, called>>
  <2>1. Poll!Fd = Numbers /\ Poll!Event = Filters
    BY PollFacts
  <2>. QED
    BY <1>3, <2>1, PollPeerActs
<1>. QED
  BY <1>1, <1>2, <1>3 DEF Poll!Next

-----------------------------------------------------------------------------
(* More about counting.                                                    *)

\* A set of naturals has a least element.  (The induction theorems of the
\* library cannot be instantiated by the provers; this one needs no operator.)
LEMMA LeastNat ==
  ASSUME NEW T \in SUBSET Nat, T # {}
  PROVE  \E m \in T : \A n \in T : m <= n
<1>1. IsWellFoundedOn(OpToRel(<, Nat), Nat)
  BY NatLessThanWellFounded
<1>2. \E x \in T : \A y \in T : <<y, x>> \notin OpToRel(<, Nat)
  BY <1>1, WFMin
<1>3. \A x, y \in Nat : x < y => <<x, y>> \in OpToRel(<, Nat)
  BY DEF OpToRel
<1>4. PICK R : /\ \E x \in T : \A y \in T : <<y, x>> \notin R
               /\ \A x, y \in Nat : x < y => <<x, y>> \in R
  BY <1>2, <1>3, Zenon
<1>5. PICK m \in T : \A y \in T : <<y, m>> \notin R
  BY <1>4
<1>6. \A y \in T : ~(y < m)
  BY <1>4, <1>5
<1>. QED
  BY <1>6

\* A set and another that it is mapped to one to one have the same size.
LEMMA OneToOne ==
  ASSUME NEW S, NEW T, IsFiniteSet(S), NEW f \in [S -> T],
         \A a, b \in S : f[a] = f[b] => a = b, \A t \in T : \E a \in S : f[a] = t
  PROVE  IsFiniteSet(T) /\ Cardinality(T) = Cardinality(S)
<1>1. f \in Bijection(S, T)
  BY DEF Bijection, Injection, Surjection, IsInjective
<1>2. ExistsBijection(S, T)
  BY <1>1 DEF ExistsBijection
<1>. QED
  BY <1>2, FS_Bijection

\* Inserted descriptors and their positions are equally many.
LEMMA AsManyPlaces ==
  ASSUME Sound, NEW X \in SUBSET Held!Inserted
  PROVE  Cardinality({n \in 0 .. sused - 1 : sindex[n] \in X}) = Cardinality(X)
<1>. DEFINE S == {n \in 0 .. sused - 1 : sindex[n] \in X}
            f == [n \in S |-> sindex[n]]
<1>1. /\ sused \in Nat
      /\ \A fd \in Held!Inserted : spos[fd] \in 0 .. sused - 1 /\ sindex[spos[fd]] = fd
      /\ \A n \in 0 .. sused - 1 : spos[sindex[n]] = n
  BY Places
<1>2. IsFiniteSet(S)
  <2>1. S \in SUBSET (0 .. sused - 1) /\ 0 \in Nat
    OBVIOUS
  <2>. QED
    BY <1>1, <2>1, Below
<1>3. f \in [S -> X]
  OBVIOUS
<1>4. \A a, b \in S : f[a] = f[b] => a = b
  BY <1>1
<1>5. \A t \in X : \E a \in S : f[a] = t
  <2>1. ASSUME NEW t \in X
        PROVE  spos[t] \in S /\ f[spos[t]] = t
    BY <1>1
  <2>. QED
    BY <2>1
<1>. HIDE DEF S, f
<1>6. Cardinality(X) = Cardinality(S)
  BY <1>2, <1>3, <1>4, <1>5, OneToOne
<1>. QED
  BY <1>6 DEF S

\* There is a highest inserted descriptor.
LEMMA HighestExists ==
  ASSUME Sound
  PROVE  \E m \in Held!Inserted : \A fd \in Held!Inserted : fd <= m
<1>1. Descriptors \in Nat /\ Listener \in Held!Inserted /\ Held!Inserted \in SUBSET Numbers
  BY Places
<1>. DEFINE T == {n \in Nat : Descriptors - n \in Held!Inserted}
<1>2. \A fd \in Held!Inserted : fd \in Int /\ Descriptors - fd \in T
  BY <1>1 DEF Numbers
<1>3. T # {} /\ T \in SUBSET Nat
  BY <1>1, <1>2
<1>4. PICK t \in T : \A n \in T : t <= n
  <2>. HIDE DEF T
  <2>. QED
    BY <1>3, LeastNat
<1>5. Descriptors - t \in Held!Inserted /\ t \in Nat
  BY <1>4
<1>6. ASSUME NEW fd \in Held!Inserted
      PROVE  fd <= Descriptors - t
  <2>1. t <= Descriptors - fd /\ fd \in Int
    BY <1>2, <1>4
  <2>. QED
    BY <1>1, <1>5, <2>1
<1>. QED
  BY <1>5, <1>6

-----------------------------------------------------------------------------
(* select().                                                               *)

\* Positions from "from" on, below u, whose descriptor has a bit for e.
BitsOf(sets, ind, e, from, u) == {n \in from .. u - 1 : ind[n] \in sets[e]}

BitsFrom(sets, ind, from, u) ==
  Cardinality(BitsOf(sets, ind, "in", from, u)) + Cardinality(BitsOf(sets, ind, "out", from, u))

SelectShape ==
  /\ ready \in [Numbers -> SUBSET Filters]
  /\ watched \in [Filters -> SUBSET Numbers]
  /\ shown \in [Filters -> SUBSET Numbers]
  /\ pc \in {"wait", "process", "handle"}
  /\ at \in 0 .. Descriptors
  /\ todo \in SUBSET Filters
  /\ nevents \in 0 .. 2 * Descriptors
  /\ called \in Numbers \cup {-1}
  /\ pc = "handle" => at < sused

\* What is watched is inserted, and _M_highest_fd is right or known to be stale.
SelectSets ==
  /\ \A e \in Filters : watched[e] \in SUBSET Held!Inserted
  /\ \/ highest = -2
     \/ highest \in Held!Inserted /\ \A fd \in Held!Inserted : fd <= highest

\* While the listener in front is looked at, nothing reported has been closed.
SelectNew ==
  pc # "wait" /\ at = 0 => \A e \in Filters : shown[e] \in SUBSET Held!Inserted

SelectCount ==
  /\ pc = "process" => nevents = BitsFrom(shown, sindex, at, sused)
  /\ pc = "handle" => nevents = BitsFrom(shown, sindex, at + 1, sused)

\* The inductive invariant of the selector over select().
SelectInv == Sound /\ SelectShape /\ SelectSets /\ SelectNew /\ SelectCount

\* highest_fd() is the highest inserted descriptor, cached or not.
LEMMA HighestIs ==
  ASSUME Sound, SelectSets
  PROVE  /\ Select!HighestFd \in Held!Inserted
         /\ \A fd \in Held!Inserted : fd <= Select!HighestFd
         /\ Select!HighestFd = Select!Max(Held!Inserted)
<1>1. /\ Descriptors \in Nat /\ Held!Inserted \in SUBSET Numbers
      /\ \A fd \in Held!Inserted : spos[fd] \in 0 .. sused - 1 /\ sindex[spos[fd]] = fd
      /\ \A n \in 0 .. sused - 1 : sindex[n] \in Held!Inserted
  BY Places
<1>2. PICK m \in Held!Inserted : \A fd \in Held!Inserted : fd <= m
  BY HighestExists
<1>3. \A fd \in Held!Inserted : fd \in Int /\ fd > -2
  BY <1>1 DEF Numbers
<1>4. Select!Max(Held!Inserted) = m
  BY <1>2, <1>3 DEF Select!Max
<1>5. CASE highest = -2
  <2>1. {sindex[n] : n \in 0 .. sused - 1} = Held!Inserted
    BY <1>1
  <2>2. Select!HighestFd = Select!Max({-2} \cup Held!Inserted)
    BY <1>5, <2>1 DEF Select!HighestFd, Select!Undefined
  <2>3. Select!Max({-2} \cup Held!Inserted) = m
    BY <1>2, <1>3 DEF Select!Max
  <2>. QED
    BY <1>2, <1>4, <2>2, <2>3
<1>6. CASE highest # -2
  <2>1. Select!HighestFd = highest
    BY <1>6 DEF Select!HighestFd, Select!Undefined
  <2>2. highest \in Held!Inserted /\ \A fd \in Held!Inserted : fd <= highest
    BY <1>6 DEF SelectSets
  <2>3. highest = m
    BY <1>2, <1>3, <2>2
  <2>. QED
    BY <1>2, <1>4, <2>1, <2>3
<1>. QED
  BY <1>5, <1>6

\* Pairs with a fixed second component are as many as the first ones.
LEMMA Paired ==
  ASSUME NEW S, NEW e, IsFiniteSet(S)
  PROVE  IsFiniteSet(S \X {e}) /\ Cardinality(S \X {e}) = Cardinality(S)
<1>. DEFINE f == [n \in S |-> <<n, e>>]
            T == S \X {e}
<1>1. f \in [S -> T] /\ \A a, b \in S : f[a] = f[b] => a = b
  OBVIOUS
<1>2. \A t \in T : \E a \in S : f[a] = t
  OBVIOUS
<1>. HIDE DEF f, T
<1>3. IsFiniteSet(T) /\ Cardinality(T) = Cardinality(S)
  BY <1>1, <1>2, OneToOne
<1>. QED
  BY <1>3 DEF T

\* The bits ahead are those for reading and those for writing.
LEMMA BitsAre ==
  ASSUME NEW sets, NEW ind, NEW from \in Nat, NEW u \in Nat
  PROVE  Cardinality({b \in (from .. u - 1) \X Filters : ind[b[1]] \in sets[b[2]]})
           = BitsFrom(sets, ind, from, u)
<1>. DEFINE I == BitsOf(sets, ind, "in", from, u)
            O == BitsOf(sets, ind, "out", from, u)
            B == {b \in (from .. u - 1) \X Filters : ind[b[1]] \in sets[b[2]]}
<1>1. IsFiniteSet(I) /\ IsFiniteSet(O) /\ Cardinality(I) \in Nat /\ Cardinality(O) \in Nat
  <2>1. I \in SUBSET (from .. u - 1) /\ O \in SUBSET (from .. u - 1)
    BY DEF BitsOf
  <2>. HIDE DEF I, O
  <2>2. IsFiniteSet(I) /\ IsFiniteSet(O)
    BY <2>1, Below
  <2>. QED
    BY <2>2, FS_CardinalityType
<1>2. B = (I \X {"in"}) \cup (O \X {"out"})
  BY DEF BitsOf, Filters
<1>3. (I \X {"in"}) \cap (O \X {"out"}) = {}
  OBVIOUS
<1>. HIDE DEF I, O, B
<1>4. /\ IsFiniteSet(I \X {"in"}) /\ Cardinality(I \X {"in"}) = Cardinality(I)
      /\ IsFiniteSet(O \X {"out"}) /\ Cardinality(O \X {"out"}) = Cardinality(O)
  BY <1>1, Paired
<1>5. /\ Cardinality((I \X {"in"}) \cup (O \X {"out"}))
           = Cardinality(I \X {"in"}) + Cardinality(O \X {"out"}) - Cardinality((I \X {"in"}) \cap (O \X {"out"}))
  BY <1>4, FS_Union
<1>6. Cardinality((I \X {"in"}) \cap (O \X {"out"})) = 0
  BY <1>3, FS_EmptySet
<1>7. Cardinality(B) = Cardinality(I) + Cardinality(O)
  BY <1>1, <1>2, <1>4, <1>5, <1>6
<1>. QED
  BY <1>7 DEF BitsFrom, I, O, B

\* What every step may use.
LEMMA SelectFacts ==
  ASSUME SelectInv
  PROVE  /\ Descriptors \in Nat /\ sused \in 1 .. Descriptors /\ at \in Nat /\ nevents \in Nat
         /\ Select!Fd = Numbers /\ Select!Inserted = Held!Inserted /\ Select!Event = Filters
         /\ Held!Inserted \in SUBSET Numbers /\ Listener \in Held!Inserted
<1>1. Sound /\ SelectShape
  BY DEF SelectInv
<1>. QED
  BY <1>1, OneSet, Places DEF SelectShape, Select!Event, Filters

\* It has in it what the run checks.
LEMMA SelectPromises ==
  ASSUME SelectInv
  PROVE  Select!TypeOK /\ Select!SelectSeesAll /\ Select!EveryBitIsServed
<1>1. /\ Select!Fd = Numbers /\ Select!Event = Filters /\ Select!Inserted = Held!Inserted
      /\ Select!NoOne = -1 /\ Select!Undefined = -2
      /\ at \in Nat /\ sused \in Nat /\ Held!Inserted \in SUBSET Numbers
  BY SelectFacts DEF Select!NoOne, Select!Undefined
<1>2. Sound /\ SelectShape /\ SelectSets /\ SelectCount
  BY DEF SelectInv
<1>3. Select!TypeOK
  <2>1. Select!ReadinessOK
    BY <1>1, <1>2, OneSet DEF Select!ReadinessOK, Sound, Held!IInv, SelectShape
  <2>2. highest \in Numbers \cup {Select!EmptySet, -2}
    BY <1>1, <1>2 DEF SelectSets
  <2>. QED
    BY <1>1, <1>2, <2>1, <2>2 DEF Select!TypeOK, SelectShape
<1>4. Select!SelectSeesAll
  BY <1>1, <1>2, HighestIs DEF Select!SelectSeesAll, SelectSets
<1>5. Select!EveryBitIsServed
  <2>1. SUFFICES ASSUME pc # "wait"
                 PROVE  nevents = Cardinality({b \in Select!Ahead \X Filters : sindex[b[1]] \in shown[b[2]]})
    BY <1>1, OneCardinality, Zenon DEF Select!EveryBitIsServed
  <2>2. CASE pc = "process"
    <3>1. Select!Ahead = at .. sused - 1
      BY <2>2 DEF Select!Ahead
    <3>2. Cardinality({b \in (at .. sused - 1) \X Filters : sindex[b[1]] \in shown[b[2]]})
            = BitsFrom(shown, sindex, at, sused)
      BY <1>1, BitsAre
    <3>3. nevents = BitsFrom(shown, sindex, at, sused)
      BY <1>2, <2>2 DEF SelectCount
    <3>. QED
      BY <3>1, <3>2, <3>3, Zenon
  <2>3. CASE pc = "handle"
    <3>1. Select!Ahead = at + 1 .. sused - 1 /\ at + 1 \in Nat
      BY <1>1, <2>3 DEF Select!Ahead
    <3>2. Cardinality({b \in (at + 1 .. sused - 1) \X Filters : sindex[b[1]] \in shown[b[2]]})
            = BitsFrom(shown, sindex, at + 1, sused)
      BY <1>1, <3>1, BitsAre
    <3>3. nevents = BitsFrom(shown, sindex, at + 1, sused)
      BY <1>2, <2>3 DEF SelectCount
    <3>. QED
      BY <3>1, <3>2, <3>3, Zenon
  <2>. QED
    BY <1>2, <2>1, <2>2, <2>3 DEF SelectShape
<1>. QED
  BY <1>3, <1>4, <1>5

\* select() returns: every bit it has set is ahead.
LEMMA SelectSelectReturns ==
  ASSUME SelectInv, Select!SelectReturns
  PROVE  SelectInv'
<1>1. /\ UNCHANGED <<spos, sitem, sindex, sused, sok, watched, ready, todo, called>>
      /\ shown' = Select!Found(Select!HighestFd + 1) /\ highest' = Select!HighestFd
      /\ at' = 0 /\ pc' = "process"
      /\ nevents' = Cardinality(shown'["in"]) + Cardinality(shown'["out"])
  BY OneCardinality DEF Select!SelectReturns, Select!Bits
<1>2. /\ Descriptors \in Nat /\ sused \in 1 .. Descriptors /\ Select!Event = Filters
      /\ Held!Inserted \in SUBSET Numbers
  BY SelectFacts
<1>3. Sound /\ SelectShape /\ SelectSets
  BY DEF SelectInv
<1>4. Sound' /\ Held!Inserted' = Held!Inserted
  BY <1>1, <1>3, SetStays
<1>5. /\ shown' \in [Filters -> SUBSET Held!Inserted]
  <2>1. shown' = [e \in Filters |-> {fd \in watched[e] : fd < Select!HighestFd + 1 /\ e \in ready[fd]}]
    BY <1>1, <1>2 DEF Select!Found
  <2>. QED
    BY <1>3, <2>1 DEF SelectSets
<1>6. SelectSets'
  BY <1>1, <1>3, <1>4, HighestIs DEF SelectSets
<1>7. SelectNew'
  BY <1>4, <1>5 DEF SelectNew
<1>8. ASSUME NEW e \in Filters
      PROVE  /\ Cardinality(BitsOf(shown', sindex, e, 0, sused)) = Cardinality(shown'[e])
             /\ Cardinality(BitsOf(shown', sindex, e, 0, sused)) \in 0 .. sused
  <2>1. Cardinality({n \in 0 .. sused - 1 : sindex[n] \in shown'[e]}) = Cardinality(shown'[e])
    BY <1>3, <1>5, AsManyPlaces
  <2>2. BitsOf(shown', sindex, e, 0, sused) \in SUBSET (0 .. sused - 1) /\ sused \in Nat /\ 0 \in Nat
    BY <1>2 DEF BitsOf
  <2>3. Cardinality(BitsOf(shown', sindex, e, 0, sused)) \in 0 .. sused
    BY <2>2, Below
  <2>. QED
    BY <2>1, <2>3 DEF BitsOf
<1>9. nevents' = BitsFrom(shown', sindex', at', sused')
  <2>1. nevents' = Cardinality(BitsOf(shown', sindex, "in", 0, sused)) + Cardinality(BitsOf(shown', sindex, "out", 0, sused))
    BY <1>1, <1>8 DEF Filters
  <2>. QED
    BY <1>1, <2>1, Zenon DEF BitsFrom
<1>10. nevents' \in 0 .. 2 * Descriptors
  <2>. DEFINE x == Cardinality(BitsOf(shown', sindex, "in", 0, sused))
              y == Cardinality(BitsOf(shown', sindex, "out", 0, sused))
  <2>1. x \in 0 .. sused /\ y \in 0 .. sused /\ x = Cardinality(shown'["in"]) /\ y = Cardinality(shown'["out"])
    BY <1>8 DEF Filters
  <2>2. nevents' = x + y
    BY <1>1, <2>1
  <2>. HIDE DEF x, y
  <2>. QED
    BY <1>2, <2>1, <2>2
<1>11. SelectCount'
  BY <1>1, <1>9 DEF SelectCount
<1>12. SelectShape'
  BY <1>1, <1>2, <1>3, <1>5, <1>10 DEF SelectShape
<1>. QED
  BY <1>4, <1>6, <1>7, <1>11, <1>12 DEF SelectInv

\* The bits of the position that is looked at are counted.
LEMMA BitsLookedAt ==
  ASSUME NEW sets, NEW ind, NEW i \in Nat, NEW u \in Nat, i < u,
         NEW here, here = {e \in Filters : ind[i] \in sets[e]}
  PROVE  /\ BitsFrom(sets, ind, i, u) = BitsFrom(sets, ind, i + 1, u) + Cardinality(here)
         /\ BitsFrom(sets, ind, i + 1, u) \in Nat /\ Cardinality(here) \in Nat
<1>. DEFINE one(e) == IF ind[i] \in sets[e] THEN 1 ELSE 0
<1>1. ASSUME NEW e \in Filters
      PROVE  /\ Cardinality(BitsOf(sets, ind, e, i, u)) = Cardinality(BitsOf(sets, ind, e, i + 1, u)) + one(e)
             /\ Cardinality(BitsOf(sets, ind, e, i + 1, u)) \in Nat
  <2>. DEFINE S == BitsOf(sets, ind, e, i, u)
              T == BitsOf(sets, ind, e, i + 1, u)
  <2>1. S \in SUBSET (i .. u - 1) /\ T = S \ {i} /\ (i \in S <=> ind[i] \in sets[e])
    BY DEF BitsOf
  <2>. HIDE DEF S, T
  <2>2. /\ Cardinality(S) \in Nat /\ Cardinality(T) \in Nat
        /\ i \in S => Cardinality(S) = Cardinality(T) + 1
        /\ i \notin S => T = S
    BY <2>1, LookedAt, ZenonT(60)
  <2>3. Cardinality(S) = Cardinality(T) + one(e)
    <3>. DEFINE x == Cardinality(S)
                y == Cardinality(T)
    <3>1. CASE i \in S
      BY <2>1, <2>2, <3>1
    <3>2. CASE i \notin S
      <4>1. one(e) = 0 /\ x = y /\ y \in Nat
        BY <2>1, <2>2, <3>2
      <4>. HIDE DEF x, y, one
      <4>2. x = y + one(e)
        BY <4>1
      <4>. QED
        BY <4>2 DEF x, y
    <3>. QED
      BY <3>1, <3>2
  <2>. QED
    BY <2>2, <2>3 DEF S, T
<1>2. Cardinality(here) = one("in") + one("out")
  <2>1. Cardinality({}) = 0 /\ Cardinality({"in"}) = 1 /\ Cardinality({"out"}) = 1 /\ IsFiniteSet({"in"})
    BY FS_EmptySet, FS_Singleton
  <2>2. Cardinality({"in"} \cup {"out"}) = 2
    <3>1. "out" \notin {"in"}
      OBVIOUS
    <3>2. Cardinality({"in"} \cup {"out"}) = Cardinality({"in"}) + 1
      BY <2>1, <3>1, FS_AddElement
    <3>. QED
      BY <2>1, <3>2
  <2>3. here = (IF ind[i] \in sets["in"] THEN {"in"} ELSE {}) \cup (IF ind[i] \in sets["out"] THEN {"out"} ELSE {})
    BY DEF Filters
  <2>4. CASE ind[i] \in sets["in"] /\ ind[i] \in sets["out"]
    <3>1. here = {"in"} \cup {"out"}
      BY <2>3, <2>4
    <3>. QED
      BY <2>2, <2>4, <3>1
  <2>5. CASE ind[i] \in sets["in"] /\ ind[i] \notin sets["out"]
    <3>1. here = {"in"}
      BY <2>3, <2>5
    <3>. QED
      BY <2>1, <2>5, <3>1
  <2>6. CASE ind[i] \notin sets["in"] /\ ind[i] \in sets["out"]
    <3>1. here = {"out"}
      BY <2>3, <2>6
    <3>. QED
      BY <2>1, <2>6, <3>1
  <2>7. CASE ind[i] \notin sets["in"] /\ ind[i] \notin sets["out"]
    <3>1. here = {}
      BY <2>3, <2>7
    <3>. QED
      BY <2>1, <2>7, <3>1, SMTT(30)
  <2>. QED
    BY <2>4, <2>5, <2>6, <2>7
<1>. DEFINE a == Cardinality(BitsOf(sets, ind, "in", i, u))
            b == Cardinality(BitsOf(sets, ind, "out", i, u))
            c == Cardinality(BitsOf(sets, ind, "in", i + 1, u))
            d == Cardinality(BitsOf(sets, ind, "out", i + 1, u))
            x == one("in")
            y == one("out")
<1>3. a = c + x /\ b = d + y /\ c \in Nat /\ d \in Nat
  BY <1>1 DEF Filters
<1>4. x \in Nat /\ y \in Nat
  OBVIOUS
<1>5. BitsFrom(sets, ind, i, u) = a + b /\ BitsFrom(sets, ind, i + 1, u) = c + d /\ Cardinality(here) = x + y
  BY <1>2 DEF BitsFrom
<1>. HIDE DEF a, b, c, d, x, y
<1>. QED
  BY <1>3, <1>4, <1>5

\* process() takes the bits of the next descriptor.
LEMMA SelectLook ==
  ASSUME SelectInv, Select!Look
  PROVE  SelectInv'
<1>1. /\ UNCHANGED <<spos, sitem, sindex, sused, sok, watched, highest, ready, shown, called>>
      /\ pc = "process" /\ at < sused
      /\ todo' = {e \in Filters : sindex[at] \in shown[e]}
      /\ nevents' = nevents - Cardinality(todo')
      /\ IF todo' = {} THEN at' = at + 1 /\ pc' = pc ELSE pc' = "handle" /\ at' = at
  BY OneCardinality, SelectFacts DEF Select!Look, Select!Looking, Select!selector
<1>2. Descriptors \in Nat /\ sused \in 1 .. Descriptors /\ at \in Nat /\ nevents \in Nat
  BY SelectFacts
<1>3. Sound /\ SelectShape /\ SelectSets /\ SelectNew /\ nevents = BitsFrom(shown, sindex, at, sused)
  BY <1>1 DEF SelectInv, SelectCount
<1>4. Sound' /\ Held!Inserted' = Held!Inserted
  BY <1>1, <1>3, SetStays
<1>5. /\ BitsFrom(shown, sindex, at, sused) = BitsFrom(shown, sindex, at + 1, sused) + Cardinality(todo')
      /\ BitsFrom(shown, sindex, at + 1, sused) \in Nat /\ Cardinality(todo') \in Nat
  <2>1. at \in Nat /\ sused \in Nat /\ at < sused
    BY <1>1, <1>2
  <2>2. SUFFICES ASSUME NEW here, here = todo'
                 PROVE  /\ BitsFrom(shown, sindex, at, sused) = BitsFrom(shown, sindex, at + 1, sused) + Cardinality(here)
                        /\ BitsFrom(shown, sindex, at + 1, sused) \in Nat /\ Cardinality(here) \in Nat
    OBVIOUS
  <2>3. here = {e \in Filters : sindex[at] \in shown[e]}
    BY <1>1, <2>2
  <2>. QED
    BY <2>1, <2>3, BitsLookedAt
<1>6. nevents' = BitsFrom(shown, sindex, at + 1, sused) /\ nevents' \in Nat /\ nevents' <= nevents
  BY <1>1, <1>2, <1>3, <1>5
<1>7. SelectCount'
  BY <1>1, <1>6 DEF SelectCount
<1>8. SelectSets'
  BY <1>1, <1>3, <1>4 DEF SelectSets
<1>9. SelectNew'
  BY <1>1, <1>2, <1>3, <1>4 DEF SelectNew
<1>10. SelectShape'
  <2>1. nevents' \in 0 .. 2 * Descriptors
    BY <1>2, <1>3, <1>6 DEF SelectShape
  <2>2. todo' \in SUBSET Filters /\ at' \in 0 .. Descriptors /\ pc' \in {"process", "handle"}
        /\ (pc' = "handle" => at' < sused)
    BY <1>1, <1>2
  <2>. QED
    BY <1>1, <1>3, <2>1, <2>2 DEF SelectShape
<1>. QED
  BY <1>4, <1>7, <1>8, <1>9, <1>10 DEF SelectInv

\* The end of the walk.
LEMMA SelectDone ==
  ASSUME SelectInv, Select!Done
  PROVE  SelectInv'
<1>1. /\ UNCHANGED <<spos, sitem, sindex, sused, sok, watched, highest, ready, todo, called>>
      /\ pc' = "wait" /\ at' = 0 /\ nevents' = 0 /\ shown' = [e \in Filters |-> {}]
  BY SelectFacts DEF Select!Done, Select!selector, Select!Nothing
<1>2. Sound /\ SelectShape /\ SelectSets /\ Descriptors \in Nat
  BY SelectFacts DEF SelectInv
<1>3. Sound' /\ Held!Inserted' = Held!Inserted
  BY <1>1, <1>2, SetStays
<1>4. SelectCount' /\ SelectNew'
  BY <1>1 DEF SelectCount, SelectNew
<1>5. SelectSets' /\ SelectShape'
  BY <1>1, <1>2, <1>3 DEF SelectSets, SelectShape
<1>. QED
  BY <1>3, <1>4, <1>5 DEF SelectInv

\* The walk goes on from an event whose handler keeps its descriptor.
LEMMA SelectOnwards ==
  ASSUME SelectInv, pc = "handle", NEW e, Select!Onwards(e),
         BitsFrom(shown, sindex', at + 1, sused') = BitsFrom(shown, sindex, at + 1, sused)
  PROVE  /\ SelectCount' /\ todo' \in SUBSET Filters /\ shown' = shown /\ nevents' = nevents
         /\ pc' \in {"process", "handle"} /\ at' \in 0 .. Descriptors
         /\ pc' = "handle" => at' = at
         /\ at' = 0 => at = 0
<1>1. /\ todo' = todo \ {e} /\ shown' = shown /\ nevents' = nevents
      /\ IF todo' = {} THEN pc' = "process" /\ at' = at + 1 ELSE pc' = pc /\ at' = at
  BY DEF Select!Onwards
<1>2. /\ Descriptors \in Nat /\ sused \in 1 .. Descriptors /\ at \in Nat /\ at < sused
      /\ todo \in SUBSET Filters /\ nevents = BitsFrom(shown, sindex, at + 1, sused)
  BY SelectFacts DEF SelectInv, SelectShape, SelectCount
<1>3. CASE todo' = {}
  <2>1. pc' = "process" /\ at' = at + 1
    BY <1>1, <1>3
  <2>. QED
    BY <1>1, <1>2, <2>1 DEF SelectCount
<1>4. CASE todo' # {}
  <2>1. pc' = "handle" /\ at' = at
    BY <1>1, <1>4
  <2>. QED
    BY <1>1, <1>2, <2>1 DEF SelectCount
<1>. QED
  BY <1>3, <1>4

\* The descriptor whose handler runs.
LEMMA SelectCalled ==
  ASSUME SelectInv, NEW e, Select!Calls(e)
  PROVE  /\ pc = "handle" /\ at \in 0 .. sused - 1 /\ called' = sindex[at]
         /\ sindex[at] \in Held!Inserted /\ sindex[at] \in Numbers /\ spos[sindex[at]] = at
<1>1. pc = "handle" /\ called' = sindex[at]
  BY DEF Select!Calls
<1>2. at \in 0 .. sused - 1
  BY <1>1, SelectFacts DEF SelectInv, SelectShape
<1>. QED
  BY <1>1, <1>2, Places DEF SelectInv

\* The handler of a socket keeps it, and may change what it waits for.
LEMMA SelectStays ==
  ASSUME SelectInv, Select!Stays
  PROVE  SelectInv'
<1>1. PICK e \in Select!Event : Select!Calls(e) /\ Select!Onwards(e)
  BY DEF Select!Stays
<1>2. /\ pc = "handle" /\ at \in 0 .. sused - 1 /\ called' = sindex[at]
      /\ sindex[at] \in Held!Inserted /\ sindex[at] \in Numbers
  BY <1>1, SelectCalled
<1>3. /\ UNCHANGED <<spos, sitem, sindex, sused, sok, highest>> /\ Select!Served(sindex[at])
      /\ \/ watched' = watched
         \/ \E w \in Select!Event : Select!Watch(sindex[at], {w})
  BY DEF Select!Stays, Select!Modify, Select!selector
<1>4. Sound /\ SelectShape /\ SelectSets /\ SelectNew /\ Select!Event = Filters
  BY SelectFacts DEF SelectInv
<1>5. Sound' /\ Held!Inserted' = Held!Inserted
  BY <1>3, <1>4, SetStays
<1>6. /\ SelectCount' /\ todo' \in SUBSET Filters /\ shown' = shown /\ nevents' = nevents
      /\ pc' \in {"process", "handle"} /\ at' \in 0 .. Descriptors
      /\ pc' = "handle" => at' = at
      /\ at' = 0 => at = 0
  BY <1>1, <1>2, <1>3, SelectOnwards
<1>7. /\ watched' \in [Filters -> SUBSET Numbers]
      /\ \A f \in Filters : watched'[f] \in SUBSET Held!Inserted
  BY <1>2, <1>3, <1>4 DEF Select!Watch, SelectShape, SelectSets
<1>8. SelectSets' /\ SelectNew'
  BY <1>2, <1>3, <1>4, <1>5, <1>6, <1>7 DEF SelectSets, SelectNew
<1>9. ready' \in [Numbers -> SUBSET Filters]
  <2>. DEFINE fd == sindex[at]
  <2>1. PICK left \in SUBSET ready[fd] : ready' = [ready EXCEPT ![fd] = left]
    BY <1>3 DEF Select!Served
  <2>2. ready \in [Numbers -> SUBSET Filters]
    BY <1>4 DEF SelectShape
  <2>. HIDE DEF fd
  <2>. QED
    BY <2>1, <2>2
<1>10. SelectShape'
  BY <1>2, <1>3, <1>4, <1>6, <1>7, <1>9 DEF SelectShape
<1>. QED
  BY <1>5, <1>6, <1>8, <1>10 DEF SelectInv

\* The listener takes no client.
LEMMA SelectAcceptsNone ==
  ASSUME SelectInv, Select!AcceptsNone
  PROVE  SelectInv'
<1>1. /\ Select!Calls("in") /\ Select!Onwards("in") /\ Select!Served(Listener)
      /\ UNCHANGED <<spos, sitem, sindex, sused, sok, watched, highest>>
  BY DEF Select!AcceptsNone, Select!selector
<1>2. pc = "handle" /\ at \in 0 .. sused - 1 /\ called' = sindex[at] /\ sindex[at] \in Numbers
  BY <1>1, SelectCalled
<1>3. Sound /\ SelectShape /\ SelectSets /\ SelectNew
  BY DEF SelectInv
<1>4. Sound' /\ Held!Inserted' = Held!Inserted
  BY <1>1, <1>3, SetStays
<1>5. /\ SelectCount' /\ todo' \in SUBSET Filters /\ shown' = shown /\ nevents' = nevents
      /\ pc' \in {"process", "handle"} /\ at' \in 0 .. Descriptors
      /\ pc' = "handle" => at' = at
      /\ at' = 0 => at = 0
  BY <1>1, <1>2, SelectOnwards
<1>6. SelectSets' /\ SelectNew'
  BY <1>1, <1>2, <1>3, <1>4, <1>5 DEF SelectSets, SelectNew
<1>7. ready' \in [Numbers -> SUBSET Filters]
  BY <1>1, <1>3 DEF Select!Served, SelectShape
<1>8. SelectShape'
  BY <1>1, <1>2, <1>3, <1>5, <1>7 DEF SelectShape
<1>. QED
  BY <1>4, <1>5, <1>6, <1>8 DEF SelectInv

\* Peers act at any time.
LEMMA SelectPeerActs ==
  ASSUME SelectInv, NEW fd \in Numbers, NEW e \in Filters, Select!PeerActs(fd, e),
         UNCHANGED <<Select!selector, shown, pc, at, todo, nevents, called>>
  PROVE  SelectInv'
<1>1. UNCHANGED <<spos, sitem, sindex, sused, sok, watched, highest, shown, pc, at, todo, nevents, called>>
  BY DEF Select!selector
<1>2. Sound /\ SelectShape /\ SelectSets /\ SelectNew /\ SelectCount
  BY DEF SelectInv
<1>3. Sound' /\ Held!Inserted' = Held!Inserted
  BY <1>1, <1>2, SetStays
<1>4. ready' \in [Numbers -> SUBSET Filters]
  BY <1>2 DEF Select!PeerActs, SelectShape
<1>5. SelectShape' /\ SelectSets' /\ SelectNew'
  BY <1>1, <1>2, <1>3, <1>4 DEF SelectShape, SelectSets, SelectNew
<1>6. SelectCount'
  BY <1>1, <1>2, Zenon DEF SelectCount, BitsFrom, BitsOf
<1>. QED
  BY <1>3, <1>5, <1>6 DEF SelectInv

\* remove(): what is watched stays inserted, and the highest descriptor is known
\* to be stale when it was the one that went.
LEMMA SelectRemoved ==
  ASSUME SelectInv, NEW fd \in Held!Inserted, fd # Listener, Select!Remove(fd)
  PROVE  /\ Sound' /\ SelectSets'
         /\ spos[fd] \in 1 .. sused - 1 /\ sused' = sused - 1
         /\ \A n \in 0 .. sused - 2 : sindex'[n] = IF n = spos[fd] THEN sindex[sused - 1] ELSE sindex[n]
         /\ watched' \in [Filters -> SUBSET Numbers] /\ ready' \in [Numbers -> SUBSET Filters]
<1>1. /\ Sound /\ SelectShape /\ SelectSets /\ fd \in Numbers /\ Select!Event = Filters
  BY SelectFacts, Places DEF SelectInv
<1>2. /\ Held!Remove(fd) /\ Select!Closed(fd)
      /\ watched' = [e \in Filters |-> watched[e] \ {fd}]
      /\ highest' = IF fd = highest THEN -2 ELSE highest
  <2>1. Select!Undefined = -2
    BY DEF Select!Undefined
  <2>. QED
    BY <1>1, <2>1, OneSet DEF Select!Remove, Select!Watch
<1>3. /\ Sound'
      /\ spos[fd] \in 1 .. sused - 1 /\ sused' = sused - 1
      /\ \A n \in 0 .. sused - 2 : sindex'[n] = IF n = spos[fd] THEN sindex[sused - 1] ELSE sindex[n]
      /\ Held!Inserted' = Held!Inserted \ {fd}
  BY <1>1, <1>2, Removed
<1>4. watched' \in [Filters -> SUBSET Numbers] /\ ready' \in [Numbers -> SUBSET Filters]
  BY <1>1, <1>2 DEF Select!Closed, SelectShape
<1>5. SelectSets'
  <2>1. \A e \in Filters : watched'[e] \in SUBSET Held!Inserted'
    BY <1>1, <1>2, <1>3 DEF SelectSets
  <2>2. \/ highest' = -2
        \/ highest' \in Held!Inserted' /\ \A f \in Held!Inserted' : f <= highest'
    BY <1>1, <1>2, <1>3 DEF SelectSets
  <2>. QED
    BY <2>1, <2>2 DEF SelectSets
<1>. QED
  BY <1>3, <1>4, <1>5

\* A handler closes its socket: the descriptor that takes its place is ahead.
LEMMA SelectLeaves ==
  ASSUME SelectInv, Select!Leaves
  PROVE  SelectInv'
<1>1. PICK e : Select!Calls(e)
  BY DEF Select!Leaves
<1>. DEFINE fd == sindex[at]
<1>2. /\ pc = "handle" /\ at \in 0 .. sused - 1 /\ called' = fd
      /\ fd \in Held!Inserted /\ fd \in Numbers /\ spos[fd] = at
  BY <1>1, SelectCalled
<1>3. /\ Select!Remove(fd) /\ fd # Listener
      /\ todo' = {} /\ pc' = "process" /\ shown' = shown /\ at' = at /\ nevents' = nevents
  BY DEF Select!Leaves
<1>4. /\ Sound' /\ SelectSets'
      /\ spos[fd] \in 1 .. sused - 1 /\ sused' = sused - 1
      /\ \A n \in 0 .. sused - 2 : sindex'[n] = IF n = spos[fd] THEN sindex[sused - 1] ELSE sindex[n]
      /\ watched' \in [Filters -> SUBSET Numbers] /\ ready' \in [Numbers -> SUBSET Filters]
  BY <1>2, <1>3, SelectRemoved
<1>5. SelectShape /\ Descriptors \in Nat /\ sused \in 1 .. Descriptors
  BY SelectFacts DEF SelectInv
<1>6. nevents = BitsFrom(shown, sindex, at + 1, sused)
  BY <1>2 DEF SelectInv, SelectCount
<1>7. ASSUME NEW f \in Filters
      PROVE  Cardinality(BitsOf(shown, sindex', f, at, sused')) = Cardinality(BitsOf(shown, sindex, f, at + 1, sused))
  <2>. DEFINE S == BitsOf(shown, sindex, f, at + 1, sused)
              T == BitsOf(shown, sindex', f, at, sused')
  <2>1. at \in Nat /\ sused \in Nat /\ at < sused
    BY <1>2, <1>5
  <2>2. S \in SUBSET (at + 1 .. sused - 1) /\ T \in SUBSET (at .. sused - 2)
    BY <1>4, <1>5 DEF BitsOf
  <2>3. ASSUME NEW n \in at + 1 .. sused - 2
        PROVE  n \in T <=> n \in S
    <3>1. n \in 0 .. sused - 2 /\ n # at /\ n \in at .. sused' - 1 /\ n \in at + 1 .. sused - 1
      BY <1>4, <2>1
    <3>2. sindex'[n] = sindex[n]
      BY <1>2, <1>4, <3>1
    <3>. QED
      BY <3>1, <3>2 DEF BitsOf
  <2>4. ASSUME at < sused - 1
        PROVE  at \in T <=> sused - 1 \in S
    <3>1. at \in 0 .. sused - 2 /\ at \in at .. sused' - 1 /\ sused - 1 \in at + 1 .. sused - 1
      BY <1>4, <2>1, <2>4
    <3>2. sindex'[at] = sindex[sused - 1]
      BY <1>2, <1>4, <3>1
    <3>. QED
      BY <3>1, <3>2 DEF BitsOf
  <2>. HIDE DEF S, T
  <2>5. Cardinality(T) = Cardinality(S)
    BY <2>1, <2>2, <2>3, <2>4, MovedForward
  <2>. QED
    BY <2>5 DEF S, T
<1>8. nevents' = BitsFrom(shown', sindex', at', sused')
  <2>1. BitsFrom(shown, sindex', at, sused') = BitsFrom(shown, sindex, at + 1, sused)
    BY <1>7, Zenon DEF BitsFrom, Filters
  <2>. QED
    BY <1>3, <1>6, <2>1
<1>9. SelectCount'
  BY <1>3, <1>8 DEF SelectCount
<1>10. SelectNew'
  <2>1. at' # 0
    BY <1>2, <1>3, <1>4
  <2>. QED
    BY <2>1 DEF SelectNew
<1>11. SelectShape'
  BY <1>2, <1>3, <1>4, <1>5 DEF SelectShape
<1>. QED
  BY <1>4, <1>9, <1>10, <1>11 DEF SelectInv

\* A timer closes a socket between two walks.
LEMMA SelectExpire ==
  ASSUME SelectInv, NEW fd \in Numbers, Select!Expire(fd)
  PROVE  SelectInv'
<1>1. /\ fd \in Held!Inserted /\ fd # Listener /\ Select!Remove(fd) /\ pc = "wait"
      /\ UNCHANGED <<shown, pc, at, todo, nevents, called>>
  BY SelectFacts DEF Select!Expire, Select!Sockets
<1>2. /\ Sound' /\ SelectSets'
      /\ watched' \in [Filters -> SUBSET Numbers] /\ ready' \in [Numbers -> SUBSET Filters]
  BY <1>1, SelectRemoved
<1>3. SelectShape' /\ SelectNew' /\ SelectCount'
  BY <1>1, <1>2 DEF SelectInv, SelectShape, SelectNew, SelectCount
<1>. QED
  BY <1>2, <1>3 DEF SelectInv

\* The listener in front accepts a client: no bit of it has been reported, and
\* it takes the place of the highest descriptor when it is higher.
LEMMA SelectAccept ==
  ASSUME SelectInv, Select!Accept
  PROVE  SelectInv'
<1>1. /\ Select!Calls("in") /\ Select!Onwards("in") /\ sindex[at] = Listener
  BY DEF Select!Accept
<1>2. PICK fd \in Numbers : Select!Accepted(fd) /\ Select!Add(fd, {"in"})
  BY SelectFacts DEF Select!Accept
<1>3. /\ Sound /\ SelectShape /\ SelectSets /\ SelectNew /\ Listener \in Numbers
      /\ Descriptors \in Nat /\ sused \in 1 .. Descriptors /\ Select!Event = Filters
      /\ spos[Listener] = 0
  BY Places, SelectFacts DEF SelectInv, Sound
<1>4. fd \in Numbers \ Held!Inserted
  BY <1>2, <1>3, SelectFacts DEF Select!Accepted
<1>5. /\ Held!Add(fd, "socket")
      /\ watched' = [e \in Filters |-> IF e = "in" THEN watched[e] \cup {fd} ELSE watched[e] \ {fd}]
      /\ highest' = IF highest = -1 \/ (highest # -2 /\ fd > highest) THEN fd ELSE highest
  <2>1. Select!Undefined = -2 /\ Select!EmptySet = -1
    BY DEF Select!Undefined, Select!EmptySet
  <2>2. \A e : e \in {"in"} <=> e = "in"
    OBVIOUS
  <2>. QED
    BY <1>2, <1>3, <2>1, <2>2, OneSet DEF Select!Add, Select!Watch
<1>6. /\ Sound'
      /\ sused \in Numbers /\ sused' = sused + 1 /\ sindex'[sused] = fd
      /\ \A n \in 0 .. sused - 1 : sindex'[n] = sindex[n]
      /\ Held!Inserted' = Held!Inserted \cup {fd}
  BY <1>3, <1>4, <1>5, Added
<1>7. /\ pc = "handle" /\ at = 0 /\ called' \in Numbers /\ at \in 0 .. sused - 1
  BY <1>1, <1>3, SelectCalled
<1>8. \A e \in Filters : shown[e] \in SUBSET Held!Inserted
  BY <1>3, <1>7 DEF SelectNew
<1>9. ASSUME NEW e \in Filters
      PROVE  BitsOf(shown, sindex', e, at + 1, sused') = BitsOf(shown, sindex, e, at + 1, sused)
  <2>1. fd \notin shown[e]
    BY <1>4, <1>8
  <2>2. at + 1 .. sused' - 1 = (at + 1 .. sused - 1) \cup {sused}
    BY <1>3, <1>6, <1>7
  <2>3. \A n \in at + 1 .. sused - 1 : n \in 0 .. sused - 1
    BY <1>3, <1>7
  <2>4. \A n \in at + 1 .. sused - 1 : sindex'[n] = sindex[n]
    BY <1>6, <2>3
  <2>5. sindex'[sused] \notin shown[e]
    BY <1>6, <2>1
  <2>. QED
    BY <2>2, <2>4, <2>5 DEF BitsOf
<1>10. BitsFrom(shown, sindex', at + 1, sused') = BitsFrom(shown, sindex, at + 1, sused)
  BY <1>9, Zenon DEF BitsFrom, Filters
<1>11. /\ SelectCount' /\ todo' \in SUBSET Filters /\ shown' = shown /\ nevents' = nevents
       /\ pc' \in {"process", "handle"} /\ at' \in 0 .. Descriptors
       /\ pc' = "handle" => at' = at
  BY <1>1, <1>7, <1>10, SelectOnwards
<1>12. SelectSets'
  <2>1. \A e \in Filters : watched'[e] \in SUBSET Held!Inserted'
    BY <1>3, <1>5, <1>6 DEF SelectSets
  <2>2. \A f \in Held!Inserted : f \in Int /\ f # -1 /\ f # -2
    BY SelectFacts DEF Numbers
  <2>3. fd \in Int
    BY DEF Numbers
  <2>4. \/ highest' = -2
        \/ highest' \in Held!Inserted' /\ \A f \in Held!Inserted' : f <= highest'
    <3>1. CASE highest = -2
      BY <1>5, <3>1
    <3>2. CASE highest \in Held!Inserted /\ \A f \in Held!Inserted : f <= highest
      <4>1. highest \in Int /\ highest # -1 /\ highest # -2
        BY <2>2, <3>2
      <4>2. highest' = IF fd > highest THEN fd ELSE highest
        BY <1>5, <4>1
      <4>. QED
        BY <1>6, <2>2, <2>3, <3>2, <4>1, <4>2
    <3>. QED
      BY <1>3, <3>1, <3>2 DEF SelectSets
  <2>. QED
    BY <2>1, <2>4 DEF SelectSets
<1>13. SelectNew'
  BY <1>6, <1>8, <1>11 DEF SelectNew
<1>14. ready' \in [Numbers -> SUBSET Filters]
  <2>1. PICK more \in SUBSET ready[Listener], first \in SUBSET Filters :
          ready' = [ready EXCEPT ![Listener] = more, ![fd] = first]
    BY <1>2, <1>3 DEF Select!Accepted
  <2>. QED
    BY <1>3, <2>1 DEF SelectShape
<1>15. watched' \in [Filters -> SUBSET Numbers]
  BY <1>3, <1>5 DEF SelectShape
<1>16. SelectShape'
  BY <1>3, <1>6, <1>7, <1>11, <1>14, <1>15 DEF SelectShape
<1>. QED
  BY <1>6, <1>11, <1>12, <1>13, <1>16 DEF SelectInv

\* Before the first call of select().
LEMMA SelectInitially ==
  ASSUME Select!Init
  PROVE  SelectInv
<1>1. /\ Select!Listening /\ Select!Event = Filters
      /\ watched = [e \in Filters |-> IF e = "in" THEN {Listener} ELSE {}] /\ highest = Listener
      /\ shown = [e \in Filters |-> {}] /\ pc = "wait" /\ at = 0 /\ todo = {} /\ nevents = 0 /\ called = -1
  BY DEF Select!Init, Select!NoOne, Select!Nothing, Select!Event, Filters
<1>2. /\ Sound /\ ready = [fd \in Numbers |-> {}] /\ sused = 1 /\ Held!Inserted = {Listener}
  <2>1. Select!Set!NotInserted = -1
    BY DEF Select!Set!NotInserted
  <2>2. Sound /\ ready = [fd \in Numbers |-> {}] /\ sused = 1 /\ spos = [fd \in Numbers |-> IF fd = Listener THEN 0 ELSE -1]
    BY <1>1, <2>1, OneSet, SoundFirst DEF Select!Listening
  <2>3. Held!Inserted = {fd \in Numbers : spos[fd] # -1} /\ Listener \in Numbers
    BY <2>2, Places
  <2>. QED
    BY <2>2, <2>3
<1>3. Descriptors \in Nat \ {0} /\ Listener \in Numbers /\ Listener \in Int
  BY InstanceAssumption DEF Numbers
<1>4. SelectShape
  BY <1>1, <1>2, <1>3 DEF SelectShape
<1>5. SelectSets
  BY <1>1, <1>2, <1>3 DEF SelectSets
<1>6. SelectNew /\ SelectCount
  BY <1>1 DEF SelectNew, SelectCount
<1>. QED
  BY <1>2, <1>4, <1>5, <1>6 DEF SelectInv

\* Every step over select() keeps the invariant.
LEMMA SelectNext ==
  ASSUME SelectInv, Select!Next
  PROVE  SelectInv'
<1>1. CASE Select!Loop
  BY <1>1, SelectSelectReturns, SelectLook, SelectDone, SelectStays, SelectLeaves,
     SelectAccept, SelectAcceptsNone DEF Select!Loop
<1>2. CASE \E fd \in Select!Fd : Select!Expire(fd)
  BY <1>2, OneSet, SelectExpire
<1>3. CASE \E fd \in Select!Fd, e \in Select!Event :
             Select!PeerActs(fd, e) /\ UNCHANGED <<Select!selector, shown, pc, at, todo, nevents, called>>
  <2>1. Select!Fd = Numbers /\ Select!Event = Filters
    BY SelectFacts
  <2>. QED
    BY <1>3, <2>1, SelectPeerActs
<1>. QED
  BY <1>1, <1>2, <1>3 DEF Select!Next

-----------------------------------------------------------------------------
(* kevent().                                                               *)

Listed(b, edge) == \E j \in 1 .. Len(b) : b[j] = edge

KqueueShape ==
  /\ ready \in [Numbers -> SUBSET Filters]
  /\ active \in SUBSET (Held!Inserted \X Filters)
  /\ batch \in Seq(Numbers \X Filters)
  /\ Len(batch) <= Descriptors
  /\ backlog \in Nat /\ clients \in 0 .. MaxClients /\ backlog <= clients

\* What happened to a socket will be reported or is in the batch.
KqueueEdges ==
  \A fd \in Held!Inserted \ {Listener} : \A e \in ready[fd] :
    <<fd, e>> \in active \/ Listed(batch, <<fd, e>>)

\* The inductive invariant of the selector over kqueue.
KqueueInv == Sound /\ KqueueShape /\ KqueueEdges

\* What every step may use.
LEMMA KqueueFacts ==
  ASSUME KqueueInv
  PROVE  /\ Descriptors \in Nat /\ MaxClients \in Nat
         /\ Kqueue!Fd = Numbers /\ Kqueue!Event = Filters /\ Kqueue!Inserted = Held!Inserted
         /\ Held!Inserted \in SUBSET Numbers /\ Listener \in Held!Inserted
         /\ Kqueue!Sockets = Held!Inserted \ {Listener}
<1>1. Sound
  BY DEF KqueueInv
<1>2. MaxClients \in Nat
  BY InstanceAssumption
<1>. QED
  BY <1>1, <1>2, OneSet, Places DEF Kqueue!Event, Filters, Kqueue!Sockets

\* It has in it what the run checks.
LEMMA KqueuePromises ==
  ASSUME KqueueInv
  PROVE  Kqueue!TypeOK /\ Kqueue!NoLostEdge
<1>1. /\ Descriptors \in Nat /\ MaxClients \in Nat
      /\ Kqueue!Fd = Numbers /\ Kqueue!Event = Filters /\ Kqueue!Inserted = Held!Inserted
      /\ Kqueue!Sockets = Held!Inserted \ {Listener}
  BY KqueueFacts
<1>2. Sound /\ KqueueShape /\ KqueueEdges
  BY DEF KqueueInv
<1>3. Kqueue!ReadinessOK
  BY <1>1, <1>2, OneSet DEF Kqueue!ReadinessOK, Sound, Held!IInv, KqueueShape
<1>4. backlog \in 0 .. MaxClients
  BY <1>1, <1>2 DEF KqueueShape
<1>5. Kqueue!TypeOK
  BY <1>1, <1>2, <1>3, <1>4 DEF Kqueue!TypeOK, KqueueShape
<1>6. Kqueue!Seqs!ToSet(batch) = {batch[j] : j \in 1 .. Len(batch)}
  BY <1>2 DEF Kqueue!Seqs!ToSet, KqueueShape
<1>7. Kqueue!NoLostEdge
  <2>1. ASSUME NEW fd \in Held!Inserted \ {Listener}, NEW e \in ready[fd]
        PROVE  <<fd, e>> \in active \cup Kqueue!Seqs!ToSet(batch)
    <3>1. <<fd, e>> \in active \/ Listed(batch, <<fd, e>>)
      BY <1>2, <2>1 DEF KqueueEdges
    <3>. QED
      BY <1>6, <3>1 DEF Listed
  <2>. QED
    BY <1>1, <2>1 DEF Kqueue!NoLostEdge
<1>. QED
  BY <1>5, <1>7

\* Dispatching the first event of the batch leaves the others to be told.
LEMMA RestOfBatch ==
  ASSUME KqueueInv, batch # <<>>
  PROVE  /\ Head(batch) \in Numbers \X Filters
         /\ Tail(batch) \in Seq(Numbers \X Filters) /\ Len(Tail(batch)) <= Descriptors
         /\ \A fd \in Held!Inserted \ {Listener} : \A e \in ready[fd] :
              <<fd, e>> \in active \/ <<fd, e>> = Head(batch) \/ Listed(Tail(batch), <<fd, e>>)
<1>1. batch \in Seq(Numbers \X Filters) /\ Len(batch) <= Descriptors /\ KqueueEdges /\ Descriptors \in Nat
  BY KqueueFacts DEF KqueueInv, KqueueShape
<1>. DEFINE rest == Tail(batch)
<1>2. /\ Head(batch) \in Numbers \X Filters
      /\ rest \in Seq(Numbers \X Filters) /\ Len(rest) = Len(batch) - 1 /\ Len(batch) \in Nat
      /\ Head(batch) = batch[1] /\ \A j \in 1 .. Len(rest) : rest[j] = batch[j + 1]
  BY <1>1
<1>3. Len(rest) <= Descriptors
  BY <1>1, <1>2
<1>4. ASSUME NEW edge, Listed(batch, edge)
      PROVE  edge = Head(batch) \/ Listed(rest, edge)
  <2>1. PICK j \in 1 .. Len(batch) : batch[j] = edge
    BY <1>4 DEF Listed
  <2>2. CASE j = 1
    BY <1>2, <2>1, <2>2
  <2>3. CASE j # 1
    <3>1. j - 1 \in 1 .. Len(rest) /\ (j - 1) + 1 = j
      BY <1>2, <2>1, <2>3
    <3>2. rest[j - 1] = edge
      BY <1>2, <2>1, <3>1
    <3>. QED
      BY <3>1, <3>2 DEF Listed
  <2>. QED
    BY <2>2, <2>3
<1>5. ASSUME NEW fd \in Held!Inserted \ {Listener}, NEW e \in ready[fd]
      PROVE  <<fd, e>> \in active \/ <<fd, e>> = Head(batch) \/ Listed(rest, <<fd, e>>)
  <2>1. <<fd, e>> \in active \/ Listed(batch, <<fd, e>>)
    BY <1>1, <1>5 DEF KqueueEdges
  <2>. QED
    BY <1>4, <2>1
<1>. QED
  BY <1>2, <1>3, <1>5

\* Every filter that kevent() makes inactive is in its batch, and the batch fits.
LEMMA KqueueReturns ==
  ASSUME KqueueInv, Kqueue!KeventReturns
  PROVE  KqueueInv'
<1>1. /\ UNCHANGED <<spos, sitem, sindex, sused, sok, ready, backlog, clients>> /\ batch = <<>>
      /\ \E reported \in SUBSET active :
           /\ Kqueue!Cardinality(reported) <= Descriptors
           /\ batch' \in Kqueue!Seqs!SetToSeqs(reported) /\ active' = active \ reported
  BY DEF Kqueue!KeventReturns, Kqueue!selector
<1>2. Sound /\ KqueueShape /\ KqueueEdges /\ Descriptors \in Nat /\ Held!Inserted \in SUBSET Numbers
  BY KqueueFacts DEF KqueueInv
<1>3. Sound' /\ Held!Inserted' = Held!Inserted
  BY <1>1, <1>2, SetStays
<1>4. PICK reported \in SUBSET active :
        /\ Kqueue!Cardinality(reported) <= Descriptors
        /\ batch' \in Kqueue!Seqs!SetToSeqs(reported) /\ active' = active \ reported
  BY <1>1
<1>. DEFINE n == Cardinality(reported)
<1>5. IsFiniteSet(Numbers \X Filters)
  <2>1. IsFiniteSet(Numbers)
    <3>1. 0 \in Int /\ Descriptors - 1 \in Int
      BY <1>2
    <3>. QED
      BY <3>1, FS_Interval DEF Numbers
  <2>2. IsFiniteSet(Filters)
    <3>1. Filters = {"in"} \cup {"out"}
      BY DEF Filters
    <3>. QED
      BY <3>1, FS_Singleton, FS_Union
  <2>. QED
    BY <2>1, <2>2, FS_Product
<1>6. IsFiniteSet(reported) /\ n \in Nat /\ n <= Descriptors
  <2>1. reported \in SUBSET (Numbers \X Filters)
    BY <1>2, <1>4 DEF KqueueShape
  <2>2. IsFiniteSet(reported)
    BY <1>5, <2>1, FS_Subset
  <2>3. Kqueue!Cardinality(reported) = n
    BY Zenon DEF Kqueue!Cardinality, Cardinality
  <2>. QED
    BY <1>4, <2>2, <2>3, FS_CardinalityType
<1>7. batch' \in [1 .. n -> reported] /\ \A i, j \in 1 .. n : i # j => batch'[i] # batch'[j]
  <2>1. Kqueue!Seqs!Cardinality(reported) = Cardinality(reported)
    BY Zenon DEF Kqueue!Seqs!Cardinality, Cardinality
  <2>. QED
    BY <1>4, <2>1 DEF Kqueue!Seqs!SetToSeqs
<1>. HIDE DEF n
<1>8. \A edge \in reported : \E j \in 1 .. n : batch'[j] = edge
  <2>1. batch' \in Injection(1 .. n, reported)
    BY <1>7 DEF Injection, IsInjective
  <2>2. Cardinality(1 .. n) = n
    <3>1. Cardinality(1 .. n) = IF 1 > n THEN 0 ELSE n - 1 + 1
      BY <1>6, FS_Interval
    <3>. QED
      BY <1>6, <3>1
  <2>3. Cardinality(1 .. n) = Cardinality(reported)
    BY <2>2 DEF n
  <2>4. batch' \in Surjection(1 .. n, reported)
    BY <1>6, <2>1, <2>3, FS_Injection
  <2>. QED
    BY <2>4 DEF Surjection
<1>9. batch' \in Seq(Numbers \X Filters) /\ Len(batch') = n
  <2>1. reported \in SUBSET (Numbers \X Filters)
    BY <1>2, <1>4 DEF KqueueShape
  <2>2. batch' \in Seq(reported) /\ Len(batch') = n
    BY <1>6, <1>7
  <2>3. batch' \in [1 .. n -> Numbers \X Filters]
    BY <1>7, <2>1
  <2>. QED
    BY <1>6, <2>2, <2>3
<1>10. KqueueEdges'
  <2>1. ASSUME NEW fd \in Held!Inserted \ {Listener}, NEW e \in ready[fd]
        PROVE  <<fd, e>> \in active' \/ Listed(batch', <<fd, e>>)
    <3>1. ~Listed(batch, <<fd, e>>)
      BY <1>1 DEF Listed
    <3>2. <<fd, e>> \in active
      BY <1>2, <2>1, <3>1 DEF KqueueEdges
    <3>3. CASE <<fd, e>> \in reported
      BY <1>8, <1>9, <3>3 DEF Listed
    <3>4. CASE <<fd, e>> \notin reported
      BY <1>4, <3>2, <3>4
    <3>. QED
      BY <3>3, <3>4
  <2>. QED
    BY <1>1, <1>3, <2>1 DEF KqueueEdges
<1>11. active' \in SUBSET (Held!Inserted' \X Filters)
  BY <1>2, <1>3, <1>4 DEF KqueueShape
<1>12. KqueueShape'
  BY <1>1, <1>2, <1>6, <1>9, <1>11 DEF KqueueShape
<1>. QED
  BY <1>3, <1>10, <1>12 DEF KqueueInv

\* The descriptor of the event has no handler any more.
LEMMA KqueueIgnored ==
  ASSUME KqueueInv, Kqueue!Ignored
  PROVE  KqueueInv'
<1>1. /\ UNCHANGED <<spos, sitem, sindex, sused, sok, ready, active, backlog, clients>>
      /\ batch # <<>> /\ Head(batch)[1] \notin Held!Inserted /\ batch' = Tail(batch)
  BY KqueueFacts DEF Kqueue!Ignored, Kqueue!selector, Kqueue!NextEvent
<1>2. Sound /\ KqueueShape
  BY DEF KqueueInv
<1>3. Sound' /\ Held!Inserted' = Held!Inserted
  BY <1>1, <1>2, SetStays
<1>4. KqueueShape'
  BY <1>1, <1>2, <1>3, RestOfBatch DEF KqueueShape
<1>5. KqueueEdges'
  <2>1. ASSUME NEW fd \in Held!Inserted \ {Listener}, NEW e \in ready[fd]
        PROVE  <<fd, e>> \in active \/ Listed(batch', <<fd, e>>)
    <3>1. <<fd, e>> \in active \/ <<fd, e>> = Head(batch) \/ Listed(Tail(batch), <<fd, e>>)
      BY <1>1, <2>1, RestOfBatch
    <3>2. <<fd, e>> # Head(batch)
      BY <1>1, <2>1
    <3>. QED
      BY <1>1, <3>1, <3>2
  <2>. QED
    BY <1>1, <1>3, <2>1 DEF KqueueEdges
<1>. QED
  BY <1>3, <1>4, <1>5 DEF KqueueInv

\* The handler of a socket that stays has been told of the event.
LEMMA KqueueStays ==
  ASSUME KqueueInv, Kqueue!Stays
  PROVE  KqueueInv'
<1>. DEFINE fd == Head(batch)[1]
            e == Head(batch)[2]
<1>1. /\ UNCHANGED <<spos, sitem, sindex, sused, sok, active, backlog, clients>>
      /\ batch # <<>> /\ fd \in Held!Inserted \ {Listener} /\ batch' = Tail(batch)
      /\ ready' = [ready EXCEPT ![fd] = ready[fd] \ {e}]
  BY KqueueFacts DEF Kqueue!Stays, Kqueue!selector, Kqueue!NextEvent
<1>2. Sound /\ KqueueShape
  BY DEF KqueueInv
<1>3. Sound' /\ Held!Inserted' = Held!Inserted
  BY <1>1, <1>2, SetStays
<1>4. fd \in Numbers /\ Head(batch) = <<fd, e>>
  BY <1>1, RestOfBatch
<1>5. ready' \in [Numbers -> SUBSET Filters] /\ \A f \in Numbers : ready'[f] = IF f = fd THEN ready[fd] \ {e} ELSE ready[f]
  BY <1>1, <1>2, <1>4 DEF KqueueShape
<1>6. KqueueShape'
  BY <1>1, <1>2, <1>3, <1>5, RestOfBatch DEF KqueueShape
<1>7. KqueueEdges'
  <2>1. ASSUME NEW f \in Held!Inserted \ {Listener}, NEW g \in ready'[f]
        PROVE  <<f, g>> \in active \/ Listed(batch', <<f, g>>)
    <3>1. f \in Numbers /\ g \in ready[f] /\ <<f, g>> # <<fd, e>>
      BY <1>5, <2>1, KqueueFacts
    <3>2. <<f, g>> \in active \/ <<f, g>> = Head(batch) \/ Listed(Tail(batch), <<f, g>>)
      BY <1>1, <2>1, <3>1, RestOfBatch
    <3>. QED
      BY <1>1, <1>4, <3>1, <3>2
  <2>. QED
    BY <1>1, <1>3, <2>1 DEF KqueueEdges
<1>. QED
  BY <1>3, <1>6, <1>7 DEF KqueueInv

\* remove(): the filters of the socket go with it, and what it was ready for.
LEMMA KqueueRemoved ==
  ASSUME KqueueInv, NEW fd \in Held!Inserted, fd # Listener, Kqueue!Remove(fd)
  PROVE  /\ Sound' /\ Held!Inserted' = Held!Inserted \ {fd}
         /\ active' \in SUBSET (Held!Inserted' \X Filters)
         /\ ready' \in [Numbers -> SUBSET Filters]
         /\ \A f \in Held!Inserted' : \A e \in ready'[f] :
              e \in ready[f] /\ f # fd /\ (<<f, e>> \in active => <<f, e>> \in active')
<1>1. Sound /\ KqueueShape /\ fd \in Numbers /\ Held!Inserted \in SUBSET Numbers
  BY KqueueFacts DEF KqueueInv
<1>2. /\ Held!Remove(fd) /\ ready' = [ready EXCEPT ![fd] = {}]
      /\ active' = {f \in active : f[1] # fd}
  BY <1>1, OneSet DEF Kqueue!Remove, Kqueue!Closed, Kqueue!Filters
<1>3. Sound' /\ Held!Inserted' = Held!Inserted \ {fd}
  BY <1>1, <1>2, Removed
<1>4. active' \in SUBSET (Held!Inserted' \X Filters)
  BY <1>1, <1>2, <1>3 DEF KqueueShape
<1>5. ready' \in [Numbers -> SUBSET Filters] /\ \A f \in Numbers : ready'[f] = IF f = fd THEN {} ELSE ready[f]
  BY <1>1, <1>2 DEF KqueueShape
<1>6. ASSUME NEW f \in Held!Inserted', NEW e \in ready'[f]
      PROVE  e \in ready[f] /\ f # fd /\ (<<f, e>> \in active => <<f, e>> \in active')
  BY <1>1, <1>2, <1>3, <1>5, <1>6
<1>. QED
  BY <1>3, <1>4, <1>5, <1>6

\* A handler closes its socket: what else of the batch was its own is ignored.
LEMMA KqueueLeaves ==
  ASSUME KqueueInv, Kqueue!Leaves
  PROVE  KqueueInv'
<1>. DEFINE fd == Head(batch)[1]
<1>1. /\ UNCHANGED <<backlog, clients>>
      /\ batch # <<>> /\ fd \in Held!Inserted /\ fd # Listener /\ Kqueue!Remove(fd) /\ batch' = Tail(batch)
  BY KqueueFacts DEF Kqueue!Leaves, Kqueue!NextEvent
<1>2. /\ Sound' /\ Held!Inserted' = Held!Inserted \ {fd}
      /\ active' \in SUBSET (Held!Inserted' \X Filters)
      /\ ready' \in [Numbers -> SUBSET Filters]
      /\ \A f \in Held!Inserted' : \A e \in ready'[f] :
           e \in ready[f] /\ f # fd /\ (<<f, e>> \in active => <<f, e>> \in active')
  BY <1>1, KqueueRemoved
<1>3. KqueueShape'
  BY <1>1, <1>2, RestOfBatch DEF KqueueInv, KqueueShape
<1>4. KqueueEdges'
  <2>1. ASSUME NEW f \in Held!Inserted' \ {Listener}, NEW e \in ready'[f]
        PROVE  <<f, e>> \in active' \/ Listed(batch', <<f, e>>)
    <3>1. f \in Held!Inserted \ {Listener} /\ e \in ready[f] /\ f # fd /\ (<<f, e>> \in active => <<f, e>> \in active')
      BY <1>2, <2>1
    <3>2. <<f, e>> \in active \/ <<f, e>> = Head(batch) \/ Listed(Tail(batch), <<f, e>>)
      BY <1>1, <3>1, RestOfBatch
    <3>3. <<f, e>> # Head(batch)
      BY <3>1
    <3>. QED
      BY <1>1, <3>1, <3>2, <3>3
  <2>. QED
    BY <2>1 DEF KqueueEdges
<1>. QED
  BY <1>2, <1>3, <1>4 DEF KqueueInv

\* A timer closes a socket between two calls of kevent().
LEMMA KqueueExpire ==
  ASSUME KqueueInv, NEW fd \in Numbers, Kqueue!Expire(fd)
  PROVE  KqueueInv'
<1>1. /\ UNCHANGED <<batch, backlog, clients>>
      /\ fd \in Held!Inserted /\ fd # Listener /\ Kqueue!Remove(fd)
  BY KqueueFacts DEF Kqueue!Expire
<1>2. /\ Sound' /\ Held!Inserted' = Held!Inserted \ {fd}
      /\ active' \in SUBSET (Held!Inserted' \X Filters)
      /\ ready' \in [Numbers -> SUBSET Filters]
      /\ \A f \in Held!Inserted' : \A e \in ready'[f] :
           e \in ready[f] /\ f # fd /\ (<<f, e>> \in active => <<f, e>> \in active')
  BY <1>1, KqueueRemoved
<1>3. KqueueShape'
  BY <1>1, <1>2 DEF KqueueInv, KqueueShape
<1>4. KqueueEdges'
  BY <1>1, <1>2 DEF KqueueInv, KqueueEdges
<1>. QED
  BY <1>2, <1>3, <1>4 DEF KqueueInv

\* The listener accepts a client: kevent() will report what it is ready for
\* already, also when its number belonged to a socket with events in the batch.
LEMMA KqueueAccept ==
  ASSUME KqueueInv, Kqueue!Accept
  PROVE  KqueueInv'
<1>1. /\ batch # <<>> /\ Head(batch)[1] = Listener /\ backlog > 0
      /\ backlog' = backlog - 1 /\ batch' = Tail(batch) /\ clients' = clients
  BY DEF Kqueue!Accept, Kqueue!NextEvent
<1>2. PICK fd \in Numbers \ Held!Inserted, first \in SUBSET Filters : Kqueue!Add(fd, first)
  BY KqueueFacts DEF Kqueue!Accept
<1>3. Sound /\ KqueueShape /\ Held!Inserted \in SUBSET Numbers /\ Listener \in Held!Inserted
  BY KqueueFacts DEF KqueueInv
<1>4. /\ Held!Add(fd, "socket") /\ ready' = [ready EXCEPT ![fd] = first]
      /\ active' = active \cup {<<fd, e>> : e \in first}
  BY <1>2, OneSet DEF Kqueue!Add
<1>5. Sound' /\ Held!Inserted' = Held!Inserted \cup {fd}
  BY <1>2, <1>3, <1>4, Added
<1>6. ready' \in [Numbers -> SUBSET Filters] /\ \A f \in Numbers : ready'[f] = IF f = fd THEN first ELSE ready[f]
  BY <1>2, <1>3, <1>4 DEF KqueueShape
<1>7. active' \in SUBSET (Held!Inserted' \X Filters)
  BY <1>2, <1>3, <1>4, <1>5 DEF KqueueShape
<1>8. backlog' \in Nat /\ backlog' <= clients'
  BY <1>1, <1>3 DEF KqueueShape
<1>9. KqueueShape'
  BY <1>1, <1>3, <1>6, <1>7, <1>8, RestOfBatch DEF KqueueShape
<1>10. KqueueEdges'
  <2>1. ASSUME NEW f \in Held!Inserted' \ {Listener}, NEW e \in ready'[f]
        PROVE  <<f, e>> \in active' \/ Listed(batch', <<f, e>>)
    <3>1. CASE f = fd
      BY <1>2, <1>4, <1>6, <2>1, <3>1
    <3>2. CASE f # fd
      <4>1. f \in Held!Inserted \ {Listener} /\ e \in ready[f]
        BY <1>3, <1>5, <1>6, <2>1, <3>2
      <4>2. <<f, e>> \in active \/ <<f, e>> = Head(batch) \/ Listed(Tail(batch), <<f, e>>)
        BY <1>1, <4>1, RestOfBatch
      <4>3. <<f, e>> # Head(batch)
        BY <1>1, <4>1
      <4>. QED
        BY <1>1, <1>4, <4>2, <4>3
    <3>. QED
      BY <3>1, <3>2
  <2>. QED
    BY <2>1 DEF KqueueEdges
<1>. QED
  BY <1>5, <1>9, <1>10 DEF KqueueInv

\* The listener takes no client, or turns it away.
LEMMA KqueueAcceptsNone ==
  ASSUME KqueueInv, Kqueue!AcceptsNone
  PROVE  KqueueInv'
<1>1. /\ UNCHANGED <<spos, sitem, sindex, sused, sok, ready, active, clients>>
      /\ batch # <<>> /\ Head(batch)[1] = Listener /\ batch' = Tail(batch)
      /\ backlog' = IF backlog > 0 THEN backlog - 1 ELSE 0
  BY KqueueFacts DEF Kqueue!AcceptsNone, Kqueue!selector, Kqueue!NextEvent
<1>2. Sound /\ KqueueShape
  BY DEF KqueueInv
<1>3. Sound' /\ Held!Inserted' = Held!Inserted
  BY <1>1, <1>2, SetStays
<1>4. backlog' \in Nat /\ backlog' <= clients'
  BY <1>1, <1>2 DEF KqueueShape
<1>5. KqueueShape'
  BY <1>1, <1>2, <1>3, <1>4, RestOfBatch DEF KqueueShape
<1>6. KqueueEdges'
  <2>1. ASSUME NEW fd \in Held!Inserted \ {Listener}, NEW e \in ready[fd]
        PROVE  <<fd, e>> \in active \/ Listed(batch', <<fd, e>>)
    <3>1. <<fd, e>> \in active \/ <<fd, e>> = Head(batch) \/ Listed(Tail(batch), <<fd, e>>)
      BY <1>1, <2>1, RestOfBatch
    <3>2. <<fd, e>> # Head(batch)
      BY <1>1, <2>1
    <3>. QED
      BY <1>1, <3>1, <3>2
  <2>. QED
    BY <1>1, <1>3, <2>1 DEF KqueueEdges
<1>. QED
  BY <1>3, <1>5, <1>6 DEF KqueueInv

\* Something happens to a socket.
LEMMA KqueueHappens ==
  ASSUME KqueueInv, NEW fd \in Numbers, NEW e \in Filters, Kqueue!Happens(fd, e)
  PROVE  KqueueInv'
<1>1. /\ UNCHANGED <<spos, sitem, sindex, sused, sok, batch, backlog, clients>>
      /\ fd \in Held!Inserted \ {Listener} /\ active' = active \cup {<<fd, e>>}
      /\ ready' = [ready EXCEPT ![fd] = ready[fd] \cup {e}]
  BY KqueueFacts DEF Kqueue!Happens, Kqueue!selector, Kqueue!PeerActs
<1>2. Sound /\ KqueueShape /\ KqueueEdges /\ Held!Inserted \in SUBSET Numbers
  BY KqueueFacts DEF KqueueInv
<1>3. Sound' /\ Held!Inserted' = Held!Inserted
  BY <1>1, <1>2, SetStays
<1>4. ready' \in [Numbers -> SUBSET Filters]
      /\ \A f \in Numbers : ready'[f] = IF f = fd THEN ready[fd] \cup {e} ELSE ready[f]
  BY <1>1, <1>2 DEF KqueueShape
<1>5. KqueueShape'
  BY <1>1, <1>2, <1>3, <1>4 DEF KqueueShape
<1>6. KqueueEdges'
  <2>1. ASSUME NEW f \in Held!Inserted \ {Listener}, NEW g \in ready'[f]
        PROVE  <<f, g>> \in active' \/ Listed(batch, <<f, g>>)
    <3>1. g \in ready[f] \/ <<f, g>> = <<fd, e>>
      BY <1>2, <1>4, <2>1
    <3>. QED
      BY <1>1, <1>2, <2>1, <3>1 DEF KqueueEdges
  <2>. QED
    BY <1>1, <1>3, <2>1 DEF KqueueEdges
<1>. QED
  BY <1>3, <1>5, <1>6 DEF KqueueInv

\* A client connects.
LEMMA KqueueConnects ==
  ASSUME KqueueInv, Kqueue!Connects
  PROVE  KqueueInv'
<1>1. /\ UNCHANGED <<spos, sitem, sindex, sused, sok, ready, batch>>
      /\ clients < MaxClients /\ clients' = clients + 1 /\ backlog' = backlog + 1
      /\ active' = active \cup {<<Listener, "in">>}
  BY DEF Kqueue!Connects, Kqueue!selector
<1>2. Sound /\ KqueueShape /\ KqueueEdges /\ Listener \in Held!Inserted /\ MaxClients \in Nat
  BY KqueueFacts DEF KqueueInv
<1>3. Sound' /\ Held!Inserted' = Held!Inserted
  BY <1>1, <1>2, SetStays
<1>4. backlog' \in Nat /\ clients' \in 0 .. MaxClients /\ backlog' <= clients'
  BY <1>1, <1>2 DEF KqueueShape
<1>5. active' \in SUBSET (Held!Inserted' \X Filters)
  BY <1>1, <1>2, <1>3 DEF KqueueShape, Filters
<1>6. KqueueShape'
  BY <1>1, <1>2, <1>4, <1>5 DEF KqueueShape
<1>7. KqueueEdges'
  BY <1>1, <1>2, <1>3 DEF KqueueEdges
<1>. QED
  BY <1>3, <1>6, <1>7 DEF KqueueInv

\* Before the first call of kevent().
LEMMA KqueueInitially ==
  ASSUME Kqueue!Init
  PROVE  KqueueInv
<1>1. Kqueue!Listening /\ active = {} /\ batch = <<>> /\ backlog = 0 /\ clients = 0
  BY DEF Kqueue!Init
<1>2. Sound /\ ready = [fd \in Numbers |-> {}]
  <2>1. Kqueue!Set!NotInserted = -1
    BY DEF Kqueue!Set!NotInserted
  <2>. QED
    BY <1>1, <2>1, OneSet, SoundFirst DEF Kqueue!Listening
<1>3. Descriptors \in Nat /\ MaxClients \in Nat
  BY InstanceAssumption
<1>4. KqueueShape
  BY <1>1, <1>2, <1>3 DEF KqueueShape
<1>5. KqueueEdges
  BY <1>2, Places DEF KqueueEdges
<1>. QED
  BY <1>2, <1>4, <1>5 DEF KqueueInv

\* Every step over kqueue keeps the invariant.
LEMMA KqueueNext ==
  ASSUME KqueueInv, Kqueue!Next
  PROVE  KqueueInv'
<1>1. CASE Kqueue!Loop
  BY <1>1, KqueueReturns, KqueueIgnored, KqueueStays, KqueueLeaves, KqueueAccept,
     KqueueAcceptsNone DEF Kqueue!Loop
<1>2. CASE \E fd \in Kqueue!Fd : Kqueue!Expire(fd)
  BY <1>2, OneSet, KqueueExpire
<1>3. CASE \E fd \in Kqueue!Fd, e \in Kqueue!Event : Kqueue!Happens(fd, e)
  BY <1>3, KqueueFacts, KqueueHappens
<1>. QED
  BY <1>1, <1>2, <1>3, KqueueConnects DEF Kqueue!Next

-----------------------------------------------------------------------------
(* The theorems.                                                           *)

\* The inductive invariant: that of the selector that is running.
SelectorsInv ==
  /\ running = "poll" => PollInv
  /\ running = "select" => SelectInv
  /\ running = "kqueue" => KqueueInv

\* A step that changes nothing.
LEMMA NothingMoves ==
  ASSUME SelectorsInv, UNCHANGED all
  PROVE  SelectorsInv'
<1>1. /\ UNCHANGED <<spos, sitem, sindex, sused, sok>>
      /\ UNCHANGED <<running, ready, events, watched, highest, shown, pc, at, todo, nevents, called,
                     active, batch, backlog, clients>>
  BY DEF all, set, walk
<1>2. ASSUME Sound
      PROVE  Sound' /\ Held!Inserted' = Held!Inserted
  BY <1>1, <1>2, SetStays
<1>3. ASSUME PollInv
      PROVE  PollInv'
  <2>1. Sound'
    BY <1>2, <1>3 DEF PollInv
  <2>2. PollShape' = PollShape /\ PollCount' = PollCount
    BY <1>1, Zenon DEF PollShape, PollCount, Marked
  <2>3. Poll!ArraysRunInParallel' = Poll!ArraysRunInParallel
    BY <1>1, Zenon DEF Poll!ArraysRunInParallel
  <2>. QED
    BY <1>3, <2>1, <2>2, <2>3 DEF PollInv
<1>4. ASSUME SelectInv
      PROVE  SelectInv'
  <2>1. Sound' /\ Held!Inserted' = Held!Inserted
    BY <1>2, <1>4 DEF SelectInv
  <2>2. SelectShape' = SelectShape /\ SelectCount' = SelectCount
    BY <1>1, Zenon DEF SelectShape, SelectCount, BitsFrom, BitsOf
  <2>3. SelectSets' = SelectSets /\ SelectNew' = SelectNew
    BY <1>1, <2>1, Zenon DEF SelectSets, SelectNew
  <2>. QED
    BY <1>4, <2>1, <2>2, <2>3 DEF SelectInv
<1>5. ASSUME KqueueInv
      PROVE  KqueueInv'
  <2>1. Sound' /\ Held!Inserted' = Held!Inserted
    BY <1>2, <1>5 DEF KqueueInv
  <2>2. KqueueShape' = KqueueShape /\ KqueueEdges' = KqueueEdges
    BY <1>1, <2>1, Zenon DEF KqueueShape, KqueueEdges, Listed
  <2>. QED
    BY <1>5, <2>1, <2>2 DEF KqueueInv
<1>. QED
  BY <1>1, <1>3, <1>4, <1>5 DEF SelectorsInv

\* It holds first, and every step keeps it.
LEMMA SelectorsInductive ==
  /\ SelectorsInit => SelectorsInv
  /\ SelectorsInv /\ [SelectorsNext]_all => SelectorsInv'
<1>1. SelectorsInit => SelectorsInv
  BY PollInitially, SelectInitially, KqueueInitially DEF SelectorsInit, SelectorsInv
<1>2. ASSUME SelectorsInv, SelectorsNext
      PROVE  SelectorsInv'
  <2>1. CASE FdSetRuns
    BY <2>1 DEF FdSetRuns, SelectorsInv
  <2>2. CASE PollRuns
    BY <1>2, <2>2, PollNext DEF PollRuns, SelectorsInv
  <2>3. CASE SelectRuns
    BY <1>2, <2>3, SelectNext DEF SelectRuns, SelectorsInv
  <2>4. CASE KqueueRuns
    BY <1>2, <2>4, KqueueNext DEF KqueueRuns, SelectorsInv
  <2>. QED
    BY <1>2, <2>1, <2>2, <2>3, <2>4 DEF SelectorsNext
<1>. QED
  BY <1>1, <1>2, NothingMoves

\* The kernel is asked about what net::fdset holds, at every point of the walk
\* of process() over poll() and select(): the array of poll() lists the index of
\* the set, select() is given the highest descriptor of it, and none of the
\* counts and arrays of the three selectors passes its bounds.
THEOREM SelectorsWatchTheInserted == SelectorsSpec => []WatchedAsInserted
<1>1. SelectorsInv => WatchedAsInserted
  BY PollPromises, SelectPromises, KqueuePromises DEF SelectorsInv, WatchedAsInserted, SelectorsTypeOK
<1>. QED
  BY <1>1, SelectorsInductive, PTL DEF SelectorsSpec

\* Nothing the kernel has reported is lost while handlers close descriptors and
\* accept others: the counts that end the walks of poll() and of select() are
\* those of the reports ahead, and an edge of kqueue is pending, or listed, until
\* its handler is told.
THEOREM ReportsAreServed == SelectorsSpec => []NoReportIsLost
<1>1. SelectorsInv => NoReportIsLost
  BY PollPromises, SelectPromises, KqueuePromises DEF SelectorsInv, NoReportIsLost
<1>. QED
  BY <1>1, SelectorsInductive, PTL DEF SelectorsSpec
=============================================================================
