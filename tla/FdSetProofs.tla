---------------------------- MODULE FdSetProofs ----------------------------
(***************************************************************************)
(* Proofs about FdSet, for every size of the arrays.                       *)
(***************************************************************************)
EXTENDS FdSet, FiniteSetTheorems, TLAPS

Inserted == {fd \in Fd : pos[fd] # NotInserted}

\* The inductive invariant: the arrays agree, which keeps _M_index free of
\* duplicates, which is why it cannot overflow.
IInv == TypeOK /\ ArraysAgree /\ CountIsExact

\* A descriptor that is not inserted leaves room in _M_index: its used
\* positions hold distinct descriptors, all different from this one.
LEMMA RoomForOneMore ==
  ASSUME TypeOK, ArraysAgree, NEW fd \in Fd, pos[fd] = NotInserted
  PROVE  used < Size
<1>1. SUFFICES ASSUME used = Size PROVE FALSE
  BY SizeAssumption DEF TypeOK
<1> DEFINE S == 0 .. Size - 1
           T == (0 .. Size - 1) \ {fd}
           f == [i \in S |-> index[i]]
<1>2. IsFiniteSet(S) /\ Cardinality(S) = Size
  <2>1. Size \in Nat /\ Size > 0
    BY SizeAssumption
  <2>2. 0 \in Int /\ Size - 1 \in Int /\ ~(0 > Size - 1) /\ Size - 1 - 0 + 1 = Size
    BY <2>1
  <2>. QED
    BY <2>2, FS_Interval
<1>3. IsFiniteSet(T) /\ Cardinality(T) < Cardinality(S)
  <2>1. fd \in S
    BY DEF Fd
  <2>2. IsFiniteSet(T) /\ Cardinality(T) = Cardinality(S) - 1
    BY <1>2, <2>1, FS_RemoveElement
  <2>. QED
    BY <1>2, <2>2, SizeAssumption
<1>4. \A i \in S : index[i] \in Fd /\ pos[index[i]] = i
  BY <1>1, SizeAssumption DEF TypeOK, ArraysAgree, Fd
<1>5. f \in [S -> T]
  BY <1>4 DEF Fd, NotInserted
<1>6. \E x, y \in S : x # y /\ f[x] = f[y]
  <2>. HIDE DEF S, T, f
  <2>. QED
    BY <1>2, <1>3, <1>5, FS_PigeonHole
<1>. QED
  BY <1>4, <1>6

LEMMA InitEstablishes == Init => IInv
<1>1. SUFFICES ASSUME Init PROVE IInv
  OBVIOUS
<1>2. TypeOK /\ ArraysAgree
  BY <1>1, SizeAssumption DEF Init, TypeOK, ArraysAgree, Fd, NotInserted
<1>3. {fd \in Fd : pos[fd] # NotInserted} = {}
  BY <1>1 DEF Init
<1>4. CountIsExact
  BY <1>1, <1>3, FS_EmptySet DEF Init, CountIsExact
<1>. QED
  BY <1>2, <1>4 DEF IInv

LEMMA FiniteInserted == IsFiniteSet(Inserted)
<1>1. IsFiniteSet(Fd)
  BY FS_Interval, SizeAssumption DEF Fd
<1>2. Inserted \in SUBSET Fd
  BY DEF Inserted
<1>. QED
  BY <1>1, <1>2, FS_Subset

LEMMA AddPreserves ==
  ASSUME IInv, NEW fd \in Fd, NEW it \in Item, Add(fd, it)
  PROVE  IInv'
<1>. USE DEF IInv
<1>1. CASE pos[fd] # NotInserted
  <2>1. ok' = FALSE /\ UNCHANGED <<pos, item, index, used>>
    BY <1>1 DEF Add
  <2>. QED
    BY <2>1, ZenonT(40) DEF TypeOK, ArraysAgree, CountIsExact
<1>2. CASE pos[fd] = NotInserted
  <2>1. used < Size /\ used \in Fd
    <3>1. used < Size
      BY <1>2, RoomForOneMore
    <3>. QED
      BY <3>1, SizeAssumption DEF TypeOK, Fd
  <2>2. /\ pos' = [pos EXCEPT ![fd] = used]
        /\ item' = [item EXCEPT ![fd] = it]
        /\ index' = [index EXCEPT ![used] = fd]
        /\ used' = used + 1
        /\ ok' = TRUE
    BY <1>2 DEF Add
  <2>3. TypeOK'
    <3>1. pos' \in [Fd -> Fd \cup {NotInserted}]
      BY <2>1, <2>2 DEF TypeOK
    <3>2. item' \in [Fd -> Item] /\ index' \in [Fd -> Fd]
      BY <2>1, <2>2 DEF TypeOK
    <3>3. used' \in 0 .. Size /\ ok' \in BOOLEAN
      BY <2>1, <2>2, SizeAssumption DEF TypeOK
    <3>. QED
      BY <3>1, <3>2, <3>3 DEF TypeOK
  <2>4. ArraysAgree'
    <3>1. ASSUME NEW g \in Fd, pos'[g] # NotInserted
          PROVE  pos'[g] < used' /\ index'[pos'[g]] = g
      BY <2>1, <2>2, <3>1 DEF TypeOK, ArraysAgree, Fd, NotInserted
    <3>2. ASSUME NEW i \in Fd, i < used'
          PROVE  pos'[index'[i]] = i
      <4>1. CASE i = used
        BY <2>1, <2>2, <4>1 DEF TypeOK
      <4>2. CASE i # used
        <5>1. i < used
          BY <2>2, <3>2, <4>2 DEF TypeOK, Fd
        <5>2. pos[index[i]] = i /\ index[i] \in Fd
          BY <5>1 DEF ArraysAgree, TypeOK
        <5>3. index[i] # fd
          BY <1>2, <5>2 DEF NotInserted, Fd
        <5>. QED
          BY <2>2, <4>2, <5>2, <5>3 DEF TypeOK
      <4>. QED
        BY <4>1, <4>2
    <3>. QED
      BY <3>1, <3>2 DEF ArraysAgree
  <2>5. CountIsExact'
    <3>1. Inserted' = Inserted \cup {fd} /\ fd \notin Inserted
      BY <1>2, <2>1, <2>2 DEF Inserted, TypeOK, Fd, NotInserted
    <3>2. Cardinality(Inserted') = Cardinality(Inserted) + 1
      BY <3>1, FiniteInserted, FS_AddElement
    <3>. QED
      BY <2>2, <3>2 DEF CountIsExact, Inserted
  <2>. QED
    BY <2>3, <2>4, <2>5
<1>. QED
  BY <1>1, <1>2

LEMMA RemovePreserves ==
  ASSUME IInv, NEW fd \in Fd, Remove(fd)
  PROVE  IInv'
<1>. USE DEF IInv
<1>1. CASE pos[fd] = NotInserted
  <2>1. ok' = FALSE /\ UNCHANGED <<pos, item, index, used>>
    BY <1>1 DEF Remove
  <2>. QED
    BY <2>1 DEF TypeOK, ArraysAgree, CountIsExact
<1>2. CASE pos[fd] # NotInserted
  <2>1. /\ pos[fd] \in Fd /\ pos[fd] < used /\ index[pos[fd]] = fd
        /\ used \in Nat /\ used >= 1 /\ used - 1 \in Fd
    BY <1>2, SizeAssumption DEF TypeOK, ArraysAgree, Fd
  <2>2. Last \in Fd /\ pos[Last] = used - 1
    BY <2>1 DEF TypeOK, ArraysAgree, Last
  <2>3. used' = used - 1 /\ ok' = TRUE /\ item' = item
    BY <1>2 DEF Remove
  <2>4. CASE pos[fd] < used - 1
    <3>1. /\ index' = [index EXCEPT ![pos[fd]] = Last]
          /\ pos' = [pos EXCEPT ![fd] = NotInserted, ![Last] = pos[fd]]
      BY <1>2, <2>4 DEF Remove
    <3>2. Last # fd
      BY <2>1, <2>2, <2>4
    <3>3. TypeOK'
      <4>1. pos' \in [Fd -> Fd \cup {NotInserted}]
        BY <2>1, <3>1 DEF TypeOK
      <4>2. item' \in [Fd -> Item] /\ index' \in [Fd -> Fd]
        BY <2>2, <2>3, <3>1 DEF TypeOK
      <4>3. used' \in 0 .. Size /\ ok' \in BOOLEAN
        BY <2>1, <2>3, SizeAssumption DEF TypeOK
      <4>. QED
        BY <4>1, <4>2, <4>3 DEF TypeOK
    <3>4. ASSUME NEW g \in Fd, pos'[g] # NotInserted
          PROVE  pos'[g] < used' /\ index'[pos'[g]] = g
      <4>1. CASE g = Last
        BY <2>1, <2>2, <2>3, <2>4, <3>1, <3>2, <4>1 DEF TypeOK
      <4>2. CASE g # Last
        <5>1. g # fd /\ pos'[g] = pos[g] /\ pos[g] # NotInserted
          BY <3>1, <3>4, <4>2, <3>2 DEF TypeOK
        <5>2. pos[g] \in Fd /\ pos[g] < used /\ index[pos[g]] = g
          BY <5>1 DEF TypeOK, ArraysAgree
        <5>3. pos[g] # used - 1 /\ pos[g] # pos[fd]
          BY <2>1, <4>2, <5>1, <5>2 DEF Last
        <5>. QED
          BY <2>1, <2>3, <3>1, <5>1, <5>2, <5>3 DEF TypeOK, Fd
      <4>. QED
        BY <4>1, <4>2
    <3>5. ASSUME NEW i \in Fd, i < used'
          PROVE  pos'[index'[i]] = i
      <4>1. CASE i = pos[fd]
        BY <2>1, <2>2, <3>1, <4>1 DEF TypeOK
      <4>2. CASE i # pos[fd]
        <5>1. i < used /\ i # used - 1
          BY <2>1, <2>3, <3>5 DEF Fd
        <5>2. index'[i] = index[i] /\ pos[index[i]] = i /\ index[i] \in Fd
          BY <3>1, <4>2, <5>1 DEF TypeOK, ArraysAgree
        <5>3. index[i] # fd /\ index[i] # Last
          BY <2>2, <4>2, <5>1, <5>2
        <5>. QED
          BY <3>1, <5>2, <5>3 DEF TypeOK
      <4>. QED
        BY <4>1, <4>2
    <3>6. Inserted' = Inserted \ {fd}
      BY <1>2, <2>1, <2>2, <3>1, <3>2 DEF Inserted, TypeOK, NotInserted, Fd
    <3>. QED
      <4>1. CountIsExact'
        <5>1. fd \in Inserted
          BY <1>2 DEF Inserted
        <5>2. Cardinality(Inserted') = Cardinality(Inserted) - 1
          BY <3>6, <5>1, FiniteInserted, FS_RemoveElement
        <5>. QED
          BY <2>3, <5>2 DEF CountIsExact, Inserted
      <4>. QED
        BY <3>3, <3>4, <3>5, <4>1 DEF ArraysAgree
  <2>5. CASE ~(pos[fd] < used - 1)
    <3>1. pos' = [pos EXCEPT ![fd] = NotInserted] /\ index' = index
      BY <1>2, <2>5 DEF Remove
    <3>2. pos[fd] = used - 1
      BY <2>1, <2>5 DEF Fd
    <3>3. TypeOK'
      <4>1. pos' \in [Fd -> Fd \cup {NotInserted}]
        BY <3>1 DEF TypeOK
      <4>2. item' \in [Fd -> Item] /\ index' \in [Fd -> Fd]
        BY <2>3, <3>1 DEF TypeOK
      <4>3. used' \in 0 .. Size /\ ok' \in BOOLEAN
        BY <2>1, <2>3, SizeAssumption DEF TypeOK
      <4>. QED
        BY <4>1, <4>2, <4>3 DEF TypeOK
    <3>4. ASSUME NEW g \in Fd, pos'[g] # NotInserted
          PROVE  pos'[g] < used' /\ index'[pos'[g]] = g
      <4>1. g # fd /\ pos'[g] = pos[g]
        BY <3>1, <3>4 DEF TypeOK
      <4>2. pos[g] \in Fd /\ pos[g] < used /\ index[pos[g]] = g
        BY <3>4, <4>1 DEF TypeOK, ArraysAgree
      <4>3. pos[g] # used - 1
        BY <2>1, <3>2, <4>1, <4>2
      <4>. QED
        BY <2>1, <2>3, <3>1, <4>1, <4>2, <4>3 DEF Fd
    <3>5. ASSUME NEW i \in Fd, i < used'
          PROVE  pos'[index'[i]] = i
      <4>1. i < used /\ i # used - 1
        BY <2>1, <2>3, <3>5 DEF Fd
      <4>2. pos[index[i]] = i /\ index[i] \in Fd
        BY <4>1 DEF TypeOK, ArraysAgree
      <4>3. index[i] # fd
        BY <3>2, <4>1, <4>2
      <4>. QED
        BY <3>1, <4>2, <4>3 DEF TypeOK
    <3>6. CountIsExact'
      <4>1. Inserted' = Inserted \ {fd} /\ fd \in Inserted
        BY <1>2, <3>1 DEF Inserted, TypeOK
      <4>2. Cardinality(Inserted') = Cardinality(Inserted) - 1
        BY <4>1, FiniteInserted, FS_RemoveElement
      <4>. QED
        BY <2>3, <4>2 DEF CountIsExact, Inserted
    <3>. QED
      BY <3>3, <3>4, <3>5, <3>6 DEF ArraysAgree
  <2>. QED
    BY <2>4, <2>5
<1>. QED
  BY <1>1, <1>2

LEMMA NextPreserves == IInv /\ [Next]_vars => IInv'
<1>1. SUFFICES ASSUME IInv, [Next]_vars PROVE IInv'
  OBVIOUS
<1>2. ASSUME NEW fd \in Fd, NEW it \in Item, Add(fd, it) PROVE IInv'
  BY <1>1, <1>2, AddPreserves
<1>3. ASSUME NEW fd \in Fd, Remove(fd) PROVE IInv'
  BY <1>1, <1>3, RemovePreserves
<1>4. CASE UNCHANGED vars
  BY <1>1, <1>4 DEF vars, IInv, TypeOK, ArraysAgree, CountIsExact
<1>. QED
  BY <1>1, <1>2, <1>3, <1>4 DEF Next

THEOREM Invariant == Spec => []IInv
<1>. QED
  BY InitEstablishes, NextPreserves, PTL DEF Spec

\* fdset.cpp: both arrays are only ever accessed within their bounds.
THEOREM TypeCorrect == Spec => []TypeOK
<1>1. IInv => TypeOK
  BY DEF IInv
<1>. QED
  BY <1>1, Invariant, PTL

\* fdset.cpp: the two arrays agree after any sequence of add() and remove().
THEOREM ArraysAlwaysAgree == Spec => []ArraysAgree
<1>1. IInv => ArraysAgree
  BY DEF IInv
<1>. QED
  BY <1>1, Invariant, PTL

\* fdset::count() is the number of inserted descriptors.
THEOREM CountAlwaysExact == Spec => []CountIsExact
<1>1. IInv => CountIsExact
  BY DEF IInv
<1>. QED
  BY <1>1, Invariant, PTL

-----------------------------------------------------------------------------
\* remove() moves only the last descriptor, into the hole it makes.
THEOREM OnlyTheLastMoves == Spec => RemovalMovesOnlyTheLast
<1>1. ASSUME IInv, Next PROVE MovesOnlyTheLast
  <2>1. ASSUME NEW f \in Fd, NEW it \in Item, Add(f, it) PROVE MovesOnlyTheLast
    BY <1>1, <2>1 DEF Add, MovesOnlyTheLast, IInv, TypeOK
  <2>2. ASSUME NEW f \in Fd, Remove(f) PROVE MovesOnlyTheLast
    <3>1. CASE pos[f] = NotInserted \/ ~(pos[f] < used - 1)
      BY <1>1, <2>2, <3>1 DEF Remove, MovesOnlyTheLast, IInv, TypeOK
    <3>2. CASE pos[f] # NotInserted /\ pos[f] < used - 1
      <4>1. pos' = [pos EXCEPT ![f] = NotInserted, ![Last] = pos[f]]
        BY <2>2, <3>2 DEF Remove
      <4>2. /\ pos[f] \in Fd /\ index[pos[f]] = f /\ used - 1 \in Fd
            /\ Last \in Fd /\ pos[Last] = used - 1
        BY <1>1, <3>2, SizeAssumption DEF IInv, TypeOK, ArraysAgree, Fd, Last
      <4>3. Last # f
        BY <3>2, <4>2 DEF Fd
      <4>4. pos \in [Fd -> Fd \cup {NotInserted}]
        BY <1>1 DEF IInv, TypeOK
      <4>. QED
        BY <4>1, <4>2, <4>3, <4>4 DEF MovesOnlyTheLast
    <3>. QED
      BY <3>1, <3>2
  <2>. QED
    BY <1>1, <2>1, <2>2 DEF Next
<1>. QED
  BY <1>1, Invariant, PTL DEF Spec, RemovalMovesOnlyTheLast

-----------------------------------------------------------------------------
\* Every step of fdset is a step of the descriptor table or leaves it alone.
LEMMA StepImplementsTable ==
  ASSUME IInv, [Next]_vars
  PROVE  [Table!TableNext]_(Table!tableVars)
<1> DEFINE shown == [fd \in Fd |-> HandlerOf(fd)]
<1>1. ASSUME NEW fd \in Fd, NEW it \in Item, Add(fd, it)
      PROVE  Table!Register(fd, it)
  <2>1. CASE pos[fd] # NotInserted
    <3>1. ok' = FALSE /\ UNCHANGED <<pos, item, index, used>>
      BY <1>1, <2>1 DEF Add
    <3>2. shown[fd] # {} /\ shown' = shown
      BY <2>1, <3>1 DEF HandlerOf
    <3>. QED
      BY <3>1, <3>2 DEF Table!Register
  <2>2. CASE pos[fd] = NotInserted
    <3>1. /\ pos' = [pos EXCEPT ![fd] = used]
          /\ item' = [item EXCEPT ![fd] = it]
          /\ used' = used + 1 /\ ok' = TRUE
      BY <1>1, <2>2 DEF Add
    <3>2. used # NotInserted /\ pos \in [Fd -> Fd \cup {NotInserted}] /\ item \in [Fd -> Item]
      BY DEF IInv, TypeOK, NotInserted
    <3>3. shown[fd] = {}
      BY <2>2 DEF HandlerOf
    <3>4. \A g \in Fd : HandlerOf(g)' = IF g = fd THEN {it} ELSE HandlerOf(g)
      BY <3>1, <3>2 DEF HandlerOf
    <3>5. shown' = [shown EXCEPT ![fd] = {it}]
      BY <3>4
    <3>. QED
      BY <3>1, <3>3, <3>5 DEF Table!Register
  <2>. QED
    BY <2>1, <2>2
<1>2. ASSUME NEW fd \in Fd, Remove(fd)
      PROVE  Table!Unregister(fd)
  <2>1. CASE pos[fd] = NotInserted
    <3>1. ok' = FALSE /\ UNCHANGED <<pos, item, index, used>>
      BY <1>2, <2>1 DEF Remove
    <3>2. shown[fd] = {} /\ shown' = shown
      BY <2>1, <3>1 DEF HandlerOf
    <3>. QED
      BY <3>1, <3>2 DEF Table!Unregister
  <2>2. CASE pos[fd] # NotInserted
    <3>1. used' = used - 1 /\ ok' = TRUE /\ item' = item
      BY <1>2, <2>2 DEF Remove
    <3>2. pos \in [Fd -> Fd \cup {NotInserted}] /\ pos[fd] \in Fd /\ pos[fd] < used /\ used - 1 \in Fd
      BY <2>2, SizeAssumption DEF IInv, TypeOK, ArraysAgree, Fd
    <3>3. \A g \in Fd : (pos'[g] = NotInserted) <=> (g = fd \/ pos[g] = NotInserted)
      <4>1. CASE pos[fd] < used - 1
        <5>1. pos' = [pos EXCEPT ![fd] = NotInserted, ![Last] = pos[fd]]
          BY <1>2, <2>2, <4>1 DEF Remove
        <5>2. Last \in Fd /\ pos[Last] = used - 1
          BY <3>2 DEF IInv, TypeOK, ArraysAgree, Last
        <5>3. Last # fd /\ pos[Last] # NotInserted
          BY <3>2, <4>1, <5>2 DEF NotInserted, Fd
        <5>. QED
          BY <2>2, <3>2, <5>1, <5>2, <5>3
      <4>2. CASE ~(pos[fd] < used - 1)
        <5>1. pos' = [pos EXCEPT ![fd] = NotInserted]
          BY <1>2, <2>2, <4>2 DEF Remove
        <5>. QED
          BY <3>2, <5>1
      <4>. QED
        BY <4>1, <4>2
    <3>4. \A g \in Fd : HandlerOf(g)' = IF g = fd THEN {} ELSE HandlerOf(g)
      BY <3>1, <3>3 DEF HandlerOf
    <3>5. shown' = [shown EXCEPT ![fd] = {}] /\ shown[fd] # {}
      BY <2>2, <3>4 DEF HandlerOf
    <3>. QED
      BY <3>1, <3>5 DEF Table!Unregister
  <2>. QED
    BY <2>1, <2>2
<1>3. CASE UNCHANGED vars
  BY <1>3 DEF vars, Table!tableVars, HandlerOf
<1>. QED
  BY <1>1, <1>2, <1>3 DEF Next, Table!TableNext

\* fdset keeps the promise of the descriptor table its users rely on.
THEOREM FdSetImplementsTable == Spec => ImplementsTable
<1>1. Init => Table!TableInit
  BY DEF Init, Table!TableInit, HandlerOf
<1>. QED
  BY <1>1, Invariant, StepImplementsTable, PTL DEF Spec, ImplementsTable, Table!TableSpec
=============================================================================
