---------------------------- MODULE RamCfgProofs ----------------------------
(***************************************************************************)
(* Proofs about the RAM file system: what holds however many files are     *)
(* open, and that it implements SeekableFile when the table is big enough. *)
(***************************************************************************)
EXTENDS RamCfg, FiniteSetTheorems, TLAPS

LEMMA ClipType ==
    ASSUME NEW o \in 0 .. Size, NEW n \in Nat
    PROVE  /\ Clip(o, n) \in 0 .. n
           /\ o + Clip(o, n) \in 0 .. Size
  BY RamCfgAssumption DEF Clip

LEMMA SlotType ==
    ASSUME TypeOK, NEW h \in Handles, fd[h] # NoFd
    PROVE  /\ ram_slot(fd[h]) \in Slots
           /\ fd[h] = ram_slot(fd[h]) + FdBase
           /\ s_ram_off[ram_slot(fd[h])] \in 0 .. Size
  BY RamCfgAssumption DEF TypeOK, NoFd, ram_slot, Slots, FdBase

\* A transfer leaves the seek offset inside the buffer.
LEMMA TransferType ==
    ASSUME TypeOK, NEW h \in Handles, fd[h] # NoFd, NEW n \in 0 .. MaxIo
    PROVE  LET i == ram_slot(fd[h])
           IN  i \in Slots /\ s_ram_off[i] + Clip(s_ram_off[i], n) \in 0 .. Size
<1> DEFINE o == s_ram_off[ram_slot(fd[h])]
<1>1. ram_slot(fd[h]) \in Slots /\ o \in 0 .. Size /\ n \in Nat
  BY SlotType, RamCfgAssumption
<1> HIDE DEF o
<1>2. o + Clip(o, n) \in 0 .. Size
  BY <1>1, ClipType
<1> QED BY <1>1, <1>2 DEF o

LEMMA TypeInit == Init => TypeOK
  BY RamCfgAssumption DEF Init, TypeOK, Slots, NoFd

LEMMA TypeNext == TypeOK /\ [Next]_vars => TypeOK'
<1> SUFFICES ASSUME TypeOK, [Next]_vars PROVE TypeOK'
  OBVIOUS
<1> USE RamCfgAssumption
<1>1. ASSUME NEW h \in Handles, ram_open(h) PROVE TypeOK'
  <2>1. CASE OpenFree(h)
    BY <1>1, <2>1 DEF ram_open, OpenFree, FreeSlots, TypeOK, Slots, NoFd, FdBase
  <2>2. CASE OpenFull(h)
    BY <1>1, <2>2 DEF ram_open, OpenFull, TypeOK, Slots, NoFd, FdBase
  <2> QED BY <1>1, <2>1, <2>2 DEF ram_open
<1>2. ASSUME NEW h \in Handles, ram_close(h) PROVE TypeOK'
  BY <1>2, SlotType DEF ram_close, TypeOK
<1>3. ASSUME NEW h \in Handles, NEW n \in 0 .. MaxIo, ram_read(h, n) PROVE TypeOK'
  <2> DEFINE i == ram_slot(fd[h])
  <2>1. i \in Slots /\ s_ram_off[i] + Clip(s_ram_off[i], n) \in 0 .. Size
    BY <1>3, TransferType DEF ram_read
  <2> QED BY <1>3, <2>1 DEF ram_read, TypeOK
<1>4. ASSUME NEW h \in Handles, NEW n \in 0 .. MaxIo, NEW v \in Bytes, ram_write(h, n, v)
      PROVE  TypeOK'
  <2> DEFINE i == ram_slot(fd[h])
  <2>1. i \in Slots /\ s_ram_off[i] + Clip(s_ram_off[i], n) \in 0 .. Size
    BY <1>4, TransferType DEF ram_write
  <2> QED BY <1>4, <2>1 DEF ram_write, TypeOK
<1>5. ASSUME NEW h \in Handles, NEW o \in Offsets, NEW w \in Whence, ram_lseek(h, o, w)
      PROVE  TypeOK'
  <2> DEFINE i == ram_slot(fd[h])
             next == SeekTarget(s_ram_off[i], o, w)
  <2>1. i \in Slots /\ next \in Int
    BY <1>5, SlotType DEF ram_lseek, SeekTarget, Whence
  <2>2. \/ UNCHANGED s_ram_off
        \/ next \in 0 .. Size /\ s_ram_off' = [s_ram_off EXCEPT ![i] = next]
    BY <1>5, <2>1 DEF ram_lseek
  <2> QED BY <1>5, <2>1, <2>2 DEF ram_lseek, TypeOK
<1>6. CASE UNCHANGED vars
  BY <1>6 DEF vars, TypeOK
<1> QED BY <1>1, <1>2, <1>3, <1>4, <1>5, <1>6 DEF Next

\* Every seek offset stays inside the buffer and every descriptor names a slot,
\* whatever the table size, the file size, and the calls made.
THEOREM TypeCorrect == Spec => []TypeOK
  BY TypeInit, TypeNext, PTL DEF Spec

-----------------------------------------------------------------------------
\* The three calls that move data leave the table of holders alone.
LEMMA TransfersKeepTable ==
    ASSUME NEW h \in Handles,
           \/ \E n \in 0 .. MaxIo : ram_read(h, n) \/ \E v \in Bytes : ram_write(h, n, v)
           \/ \E o \in Offsets, w \in Whence : ram_lseek(h, o, w)
    PROVE  UNCHANGED <<s_ram_used, fd>>
  BY DEF ram_read, ram_write, ram_lseek

\* A free slot keeps every exclusive slot exclusive when it is handed out, as
\* long as nobody holds it.
LEMMA OpenKeepsExclusive ==
    ASSUME TypeOK, NEW h \in Handles, fd[h] = NoFd, OpenFree(h),
           NEW i \in Slots, Exclusive(i)
    PROVE  Exclusive(i)'
<1>1. PICK k \in Slots :
          /\ s_ram_used[k] = 0
          /\ s_ram_used' = [s_ram_used EXCEPT ![k] = 1]
          /\ fd' = [fd EXCEPT ![h] = k + FdBase]
  BY DEF OpenFree, FreeSlots
<1>2. i \in Int /\ k \in Int
  BY <1>1, RamCfgAssumption DEF Slots
<1>3. CASE i = k
  <2>1. \A g \in Handles : ~Holds(g, i)
    BY <1>1, <1>3 DEF Exclusive
  <2>2. \A g \in Handles : Holds(g, i)' <=> g = h
    <3> TAKE g \in Handles
    <3>1. CASE g = h
      BY <1>1, <1>3, <3>1 DEF TypeOK, Holds
    <3>2. CASE g # h
      BY <1>1, <2>1, <3>2 DEF TypeOK, Holds
    <3> QED BY <3>1, <3>2
  <2>3. s_ram_used'[i] = 1
    BY <1>1, <1>3 DEF TypeOK
  <2> QED BY <2>2, <2>3 DEF Exclusive
<1>4. CASE i # k
  <2>1. \A g \in Handles : Holds(g, i)' <=> Holds(g, i)
    <3> TAKE g \in Handles
    <3>1. CASE g = h
      <4>1. fd'[g] = k + FdBase /\ fd[g] = NoFd
        BY <1>1, <3>1 DEF TypeOK
      <4>2. i \in Nat
        BY RamCfgAssumption DEF Slots
      <4> QED BY <1>2, <1>4, <4>1, <4>2 DEF Holds, NoFd, FdBase
    <3>2. CASE g # h
      BY <1>1, <3>2 DEF TypeOK, Holds
    <3> QED BY <3>1, <3>2
  <2>2. s_ram_used'[i] = s_ram_used[i]
    BY <1>1, <1>4 DEF TypeOK
  <2> QED BY <2>1, <2>2 DEF Exclusive
<1> QED BY <1>3, <1>4

LEMMA CloseKeepsExclusive ==
    ASSUME TypeOK, NEW h \in Handles, ram_close(h), NEW i \in Slots, Exclusive(i)
    PROVE  Exclusive(i)'
<1> USE RamCfgAssumption DEF TypeOK, Exclusive, Holds, Slots, NoFd, FdBase
<1>1. /\ ram_slot(fd[h]) \in Slots
      /\ fd[h] = ram_slot(fd[h]) + FdBase
  BY SlotType DEF ram_close
<1>2. /\ s_ram_used' = [s_ram_used EXCEPT ![ram_slot(fd[h])] = 0]
      /\ fd' = [fd EXCEPT ![h] = NoFd]
  BY DEF ram_close
<1>3. CASE i = ram_slot(fd[h])
  BY <1>1, <1>2, <1>3
<1>4. CASE i # ram_slot(fd[h])
  BY <1>1, <1>2, <1>4
<1> QED BY <1>3, <1>4

LEMMA SharedInit == Init => OnlySlotZeroShared
  BY RamCfgAssumption DEF Init, OnlySlotZeroShared, Exclusive, Holds, Slots, NoFd, FdBase

LEMMA SharedNext == TypeOK /\ OnlySlotZeroShared /\ [Next]_vars => OnlySlotZeroShared'
<1> SUFFICES ASSUME TypeOK, OnlySlotZeroShared, [Next]_vars PROVE OnlySlotZeroShared'
  OBVIOUS
<1> USE RamCfgAssumption
<1>1. ASSUME NEW h \in Handles, ram_open(h) PROVE OnlySlotZeroShared'
  <2>1. CASE OpenFree(h)
    <3>1. \A i \in Slots \ {0} : Exclusive(i)'
      BY <1>1, <2>1, OpenKeepsExclusive DEF ram_open, OnlySlotZeroShared
    <3>2. (s_ram_used[0] = 1)' => \E g \in Handles : Holds(g, 0)'
      BY <1>1, <2>1 DEF ram_open, OpenFree, FreeSlots, OnlySlotZeroShared, Holds, TypeOK,
                        Slots, NoFd, FdBase
    <3> QED BY <3>1, <3>2 DEF OnlySlotZeroShared
  <2>2. CASE OpenFull(h)
    <3>1. /\ fd[h] = NoFd
          /\ fd' = [fd EXCEPT ![h] = FdBase]
          /\ UNCHANGED s_ram_used
      BY <1>1, <2>2 DEF ram_open, OpenFull
    <3>2. Holds(h, 0)'
      BY <3>1 DEF TypeOK, Holds, FdBase
    <3>3. \A i \in Slots \ {0}, g \in Handles : Holds(g, i)' <=> Holds(g, i)
      BY <3>1 DEF TypeOK, Holds, FdBase, NoFd, Slots
    <3> QED BY <3>1, <3>2, <3>3 DEF OnlySlotZeroShared, Exclusive
  <2> QED BY <1>1, <2>1, <2>2 DEF ram_open
<1>2. ASSUME NEW h \in Handles, ram_close(h) PROVE OnlySlotZeroShared'
  <2>1. \A i \in Slots \ {0} : Exclusive(i)'
    BY <1>2, CloseKeepsExclusive DEF OnlySlotZeroShared
  <2>2. (s_ram_used[0] = 1)' => \E g \in Handles : Holds(g, 0)'
    <3>1. CASE ram_slot(fd[h]) = 0
      BY <1>2, <3>1 DEF ram_close, TypeOK, Slots
    <3>2. CASE ram_slot(fd[h]) # 0
      <4>1. s_ram_used'[0] = s_ram_used[0]
        BY <1>2, <3>2, SlotType DEF ram_close, TypeOK, Slots
      <4>2. \A g \in Handles : Holds(g, 0) => Holds(g, 0)'
        <5>1. fd[h] # 0 + FdBase /\ fd' = [fd EXCEPT ![h] = NoFd]
          BY <1>2, <3>2 DEF ram_close, ram_slot, FdBase, NoFd
        <5> QED BY <5>1 DEF TypeOK, Holds
      <4> QED BY <4>1, <4>2 DEF OnlySlotZeroShared
    <3> QED BY <3>1, <3>2
  <2> QED BY <2>1, <2>2 DEF OnlySlotZeroShared
<1>3. CASE UNCHANGED <<s_ram_used, fd>>
  BY <1>3 DEF OnlySlotZeroShared, Exclusive, Holds
<1> QED BY <1>1, <1>2, <1>3, TransfersKeepTable DEF Next, vars

\* However many files the stack opens, only slot 0 can end up with two holders,
\* and no slot stays marked used after its last holder has closed it.
THEOREM OverflowConfined == Spec => []OnlySlotZeroShared
<1>1. Init => TypeOK /\ OnlySlotZeroShared
  BY TypeInit, SharedInit
<1>2. TypeOK /\ OnlySlotZeroShared /\ [Next]_vars => (TypeOK /\ OnlySlotZeroShared)'
  BY TypeNext, SharedNext
<1> QED BY <1>1, <1>2, PTL DEF Spec

-----------------------------------------------------------------------------
\* Two handles on one slot are sharers of slot 0.
LEMMA SharersMeetAtZero ==
    ASSUME TypeOK, OnlySlotZeroShared, NEW h \in Handles, NEW g \in Handles, g # h,
           fd[h] # NoFd, fd[g] = fd[h]
    PROVE  fd[h] = FdBase
<1> DEFINE i == ram_slot(fd[h])
<1>1. i \in Slots /\ fd[h] = i + FdBase
  BY SlotType DEF ram_slot, FdBase, TypeOK, NoFd
<1>2. Holds(h, i) /\ Holds(g, i)
  BY <1>1 DEF Holds
<1>3. i = 0
  BY <1>1, <1>2 DEF OnlySlotZeroShared, Exclusive
<1> QED BY <1>1, <1>3 DEF FdBase

\* A call that sets the offset of one slot moves no other position than those of
\* that slot's holders.
LEMMA OtherPositionsStay ==
    ASSUME TypeOK, NEW h \in Handles, fd[h] # NoFd,
           NEW k \in Slots, NEW o, s_ram_off' = [s_ram_off EXCEPT ![k] = o],
           fd'[h] = fd[h], Pos'[h] # Pos[h]
    PROVE  fd[h] = k + FdBase
<1>1. fd'[h] = fd[h] /\ ram_slot(fd[h]) \in Slots
  BY SlotType
<1>2. Pos[h] = s_ram_off[ram_slot(fd[h])] /\ Pos'[h] = s_ram_off'[ram_slot(fd[h])]
  BY <1>1 DEF Pos
<1>3. ram_slot(fd[h]) = k
  BY <1>1, <1>2 DEF TypeOK
<1> QED BY <1>1, <1>3 DEF ram_slot, FdBase, TypeOK, NoFd

LEMMA OwnSeekNext ==
    ASSUME TypeOK, OnlySlotZeroShared, Next, NEW h \in Handles,
           fd[h] # NoFd, ret'[2] # h, Pos'[h] # Pos[h]
    PROVE  fd[h] = FdBase /\ fd'[ret'[2]] \in {FdBase, NoFd}
<1> USE RamCfgAssumption
<1>1. ASSUME NEW g \in Handles, ram_open(g)
      PROVE  fd[h] = FdBase /\ fd'[ret'[2]] \in {FdBase, NoFd}
  <2>1. ret'[2] = g /\ g # h /\ fd[g] = NoFd
    BY <1>1 DEF ram_open
  <2>2. CASE OpenFree(g)
    <3>1. PICK k \in Slots :
             /\ s_ram_used[k] = 0
             /\ s_ram_off' = [s_ram_off EXCEPT ![k] = 0]
             /\ fd' = [fd EXCEPT ![g] = k + FdBase]
      BY <2>2 DEF OpenFree, FreeSlots
    <3>2. fd[h] = k + FdBase
      <4>1. fd'[h] = fd[h]
        BY <2>1, <3>1 DEF TypeOK
      <4> QED BY <3>1, <4>1, OtherPositionsStay
    <3>3. k = 0
      BY <3>1, <3>2 DEF OnlySlotZeroShared, Exclusive, Holds
    <3> QED BY <2>1, <3>1, <3>2, <3>3 DEF TypeOK, FdBase
  <2>3. CASE OpenFull(g)
    <3>1. /\ s_ram_off' = [s_ram_off EXCEPT ![0] = 0]
          /\ fd' = [fd EXCEPT ![g] = FdBase] /\ 0 \in Slots
      BY <2>3 DEF OpenFull, Slots
    <3>2. fd[h] = 0 + FdBase
      <4>1. fd'[h] = fd[h]
        BY <2>1, <3>1 DEF TypeOK
      <4> QED BY <3>1, <4>1, OtherPositionsStay
    <3> QED BY <2>1, <3>1, <3>2 DEF TypeOK, FdBase
  <2> QED BY <1>1, <2>2, <2>3 DEF ram_open
<1>2. ASSUME NEW g \in Handles, ram_close(g)
      PROVE  fd[h] = FdBase /\ fd'[ret'[2]] \in {FdBase, NoFd}
  <2>1. /\ ret'[2] = g /\ g # h /\ fd[g] # NoFd
        /\ s_ram_off' = [s_ram_off EXCEPT ![ram_slot(fd[g])] = 0]
        /\ fd' = [fd EXCEPT ![g] = NoFd]
    BY <1>2 DEF ram_close
  <2>2. ram_slot(fd[g]) \in Slots /\ fd[g] = ram_slot(fd[g]) + FdBase
    BY <2>1, SlotType DEF ram_slot, FdBase, TypeOK, NoFd
  <2>3. fd'[h] = fd[h]
    BY <2>1 DEF TypeOK
  <2>4. fd[h] = fd[g]
    BY <2>1, <2>2, <2>3, OtherPositionsStay
  <2> QED BY <2>1, <2>4, SharersMeetAtZero DEF TypeOK
<1>3. ASSUME NEW g \in Handles,
             \/ \E n \in 0 .. MaxIo : ram_read(g, n) \/ \E v \in Bytes : ram_write(g, n, v)
             \/ \E o \in Offsets, w \in Whence : ram_lseek(g, o, w)
      PROVE  fd[h] = FdBase /\ fd'[ret'[2]] \in {FdBase, NoFd}
  <2>1. ret'[2] = g /\ g # h /\ fd[g] # NoFd /\ fd' = fd
    BY <1>3 DEF ram_read, ram_write, ram_lseek
  <2>2. ram_slot(fd[g]) \in Slots /\ fd[g] = ram_slot(fd[g]) + FdBase
    BY <2>1, SlotType DEF ram_slot, FdBase, TypeOK, NoFd
  <2>3. \E o : s_ram_off' = [s_ram_off EXCEPT ![ram_slot(fd[g])] = o]
    <3>1. CASE UNCHANGED s_ram_off
      BY <2>2, <3>1 DEF TypeOK
    <3>2. CASE ~UNCHANGED s_ram_off
      BY <1>3, <3>2 DEF ram_read, ram_write, ram_lseek
    <3> QED BY <3>1, <3>2
  <2>4. PICK o : s_ram_off' = [s_ram_off EXCEPT ![ram_slot(fd[g])] = o]
    BY <2>3
  <2>5. fd[h] = fd[g]
    BY <2>1, <2>2, <2>4, OtherPositionsStay
  <2> QED BY <2>1, <2>5, SharersMeetAtZero
<1> QED BY <1>1, <1>2, <1>3 DEF Next

\* A call moves the position of its own handle only, unless it shares slot 0 of
\* a table that was full, however many files are open (ram_slot, ram_open).
THEOREM SeeksAreOwn == Spec => OwnSeek
<1> DEFINE Own == \A h \in Handles :
                     fd[h] # NoFd /\ ret'[2] # h /\ Pos'[h] # Pos[h]
                         => fd[h] = FdBase /\ fd'[ret'[2]] \in {FdBase, NoFd}
<1>1. TypeOK /\ OnlySlotZeroShared /\ [Next]_vars => [Own]_vars
  BY OwnSeekNext
<1> QED BY <1>1, TypeCorrect, OverflowConfined, PTL DEF Spec, OwnSeek

-----------------------------------------------------------------------------
\* By the pigeonhole principle a slot is free whenever a user without a
\* descriptor remains, if there are no more users than slots.
LEMMA SomeSlotFree ==
    ASSUME Cardinality(Handles) <= NSlots, TypeOK, SlotsMatchHandles,
           NEW h \in Handles, fd[h] = NoFd
    PROVE  FreeSlots # {}
<1> USE RamCfgAssumption
<1> DEFINE others == Handles \ {h}
           holder == [i \in Slots |-> CHOOSE g \in others : Holds(g, i)]
<1>1. SUFFICES ASSUME FreeSlots = {} PROVE FALSE
  OBVIOUS
<1>2. \A i \in Slots : \E g \in others : Holds(g, i)
  <2> TAKE i \in Slots
  <2>1. s_ram_used[i] = 1
    BY <1>1 DEF FreeSlots, TypeOK
  <2>2. PICK g \in Handles : Holds(g, i)
    BY <2>1 DEF SlotsMatchHandles, Exclusive
  <2>3. g # h
    BY <2>2 DEF Holds, NoFd, FdBase, Slots
  <2> QED BY <2>2, <2>3
<1>3. \A i \in Slots : holder[i] \in others /\ Holds(holder[i], i)
  BY <1>2
<1>4. holder \in [Slots -> others]
  BY <1>3
<1>5. IsFiniteSet(others) /\ Cardinality(others) = Cardinality(Handles) - 1
  BY FS_RemoveElement
<1>6. IsFiniteSet(Slots) /\ Cardinality(Slots) = NSlots
  BY FS_Interval DEF Slots
<1>7. Cardinality(others) < Cardinality(Slots)
  BY <1>5, <1>6, FS_CardinalityType
<1> HIDE DEF others, holder
<1>8. PICK x, y \in Slots : x # y /\ holder[x] = holder[y]
  BY <1>4, <1>5, <1>6, <1>7, FS_PigeonHole
<1> QED BY <1>3, <1>8 DEF Holds, Slots, FdBase

LEMMA MatchInit == Init => SlotsMatchHandles
  BY RamCfgAssumption DEF Init, SlotsMatchHandles, Exclusive, Holds, Slots, NoFd, FdBase

LEMMA MatchNext ==
    ASSUME Cardinality(Handles) <= NSlots
    PROVE  TypeOK /\ SlotsMatchHandles /\ [Next]_vars => SlotsMatchHandles'
<1> SUFFICES ASSUME TypeOK, SlotsMatchHandles, [Next]_vars PROVE SlotsMatchHandles'
  OBVIOUS
<1>1. ASSUME NEW h \in Handles, ram_open(h) PROVE SlotsMatchHandles'
  <2>1. OpenFree(h) /\ fd[h] = NoFd
    BY <1>1, SomeSlotFree DEF ram_open, OpenFull
  <2> QED BY <2>1, OpenKeepsExclusive DEF SlotsMatchHandles, Slots
<1>2. ASSUME NEW h \in Handles, ram_close(h) PROVE SlotsMatchHandles'
  BY <1>2, CloseKeepsExclusive DEF SlotsMatchHandles, Slots
<1>3. CASE UNCHANGED <<s_ram_used, fd>>
  BY <1>3 DEF SlotsMatchHandles, Exclusive, Holds
<1> QED BY <1>1, <1>2, <1>3, TransfersKeepTable DEF Next, vars

\* With no more users than slots, a slot is marked used exactly while one user
\* holds it, for every number of slots and users.
THEOREM SlotsExclusive ==
    ASSUME Cardinality(Handles) <= NSlots
    PROVE  Spec => []SlotsMatchHandles
<1>1. Init => TypeOK /\ SlotsMatchHandles
  BY TypeInit, MatchInit
<1>2. TypeOK /\ SlotsMatchHandles /\ [Next]_vars => (TypeOK /\ SlotsMatchHandles)'
  BY TypeNext, MatchNext
<1> QED BY <1>1, <1>2, PTL DEF Spec

-----------------------------------------------------------------------------
LEMMA RefineInit == Init => File!Init
  BY RamCfgAssumption DEF Init, File!Init, Pos, File!Closed

\* Two handles never share a slot while SlotsMatchHandles holds, so moving the
\* offset of one slot moves the position of one handle.
LEMMA MovesOnePosition ==
    ASSUME TypeOK, SlotsMatchHandles, NEW h \in Handles, fd[h] # NoFd,
           NEW p \in 0 .. Size,
           s_ram_off' = [s_ram_off EXCEPT ![ram_slot(fd[h])] = p],
           UNCHANGED fd
    PROVE  Pos' = [Pos EXCEPT ![h] = p]
<1>1. ram_slot(fd[h]) \in Slots /\ fd[h] = ram_slot(fd[h]) + FdBase
  BY SlotType
<1>2. ASSUME NEW g \in Handles PROVE Pos'[g] = [Pos EXCEPT ![h] = p][g]
  <2>1. CASE g = h
    BY <1>1, <2>1 DEF Pos, TypeOK
  <2>2. CASE g # h /\ fd[g] # NoFd
    <3>1. ram_slot(fd[g]) \in Slots /\ fd[g] = ram_slot(fd[g]) + FdBase
      BY <2>2, SlotType
    <3>2. ram_slot(fd[g]) # ram_slot(fd[h])
      BY <1>1, <2>2, <3>1 DEF SlotsMatchHandles, Exclusive, Holds
    <3> QED BY <1>1, <2>2, <3>1, <3>2 DEF Pos, TypeOK
  <2>3. CASE g # h /\ fd[g] = NoFd
    BY <2>3 DEF Pos
  <2> QED BY <2>1, <2>2, <2>3
<1> QED BY <1>2 DEF Pos

LEMMA PosOf ==
    ASSUME TypeOK, NEW h \in Handles, fd[h] # NoFd
    PROVE  /\ Pos[h] = s_ram_off[ram_slot(fd[h])]
           /\ Pos[h] \in 0 .. Size
           /\ Pos[h] # File!Closed
  BY SlotType DEF Pos, File!Closed

LEMMA ClipIsMoved ==
    ASSUME NEW o \in 0 .. Size, NEW n \in Nat
    PROVE  Clip(o, n) = File!Moved(o, n)
  BY RamCfgAssumption DEF Clip, File!Moved

LEMMA RefineOpen ==
    ASSUME Cardinality(Handles) <= NSlots, TypeOK, SlotsMatchHandles,
           NEW h \in Handles, ram_open(h)
    PROVE  File!Open(h)
<1> USE RamCfgAssumption
<1>1. OpenFree(h) /\ fd[h] = NoFd
  BY SomeSlotFree DEF ram_open, OpenFull
<1>2. PICK k \in Slots :
          /\ s_ram_used[k] = 0
          /\ s_ram_off' = [s_ram_off EXCEPT ![k] = 0]
          /\ fd' = [fd EXCEPT ![h] = k + FdBase]
  BY <1>1 DEF OpenFree, FreeSlots
<1>3. ASSUME NEW g \in Handles PROVE Pos'[g] = [Pos EXCEPT ![h] = 0][g]
  <2>1. CASE g = h
    BY <1>2, <2>1 DEF Pos, TypeOK, ram_slot, FdBase, NoFd, Slots
  <2>2. CASE g # h /\ fd[g] # NoFd
    <3>1. ram_slot(fd[g]) \in Slots /\ fd[g] = ram_slot(fd[g]) + FdBase
      BY <2>2, SlotType
    <3>2. ram_slot(fd[g]) # k
      BY <1>2, <3>1 DEF SlotsMatchHandles, Exclusive, Holds
    <3>3. fd'[g] = fd[g]
      BY <1>2, <2>2 DEF TypeOK
    <3>4. s_ram_off'[ram_slot(fd[g])] = s_ram_off[ram_slot(fd[g])]
      BY <1>2, <3>1, <3>2 DEF TypeOK
    <3> QED BY <2>2, <3>3, <3>4 DEF Pos
  <2>3. CASE g # h /\ fd[g] = NoFd
    BY <1>2, <2>3 DEF Pos, TypeOK
  <2> QED BY <2>1, <2>2, <2>3
<1>4. Pos' = [Pos EXCEPT ![h] = 0]
  BY <1>3 DEF Pos
<1>5. Pos[h] = File!Closed
  BY <1>1 DEF Pos, File!Closed
<1> QED BY <1>4, <1>5 DEF ram_open, File!Open

LEMMA RefineClose ==
    ASSUME TypeOK, SlotsMatchHandles, NEW h \in Handles, ram_close(h)
    PROVE  File!Close(h)
<1>1. /\ fd[h] # NoFd
      /\ fd' = [fd EXCEPT ![h] = NoFd]
      /\ s_ram_off' = [s_ram_off EXCEPT ![ram_slot(fd[h])] = 0]
  BY DEF ram_close
<1>2. ASSUME NEW g \in Handles PROVE Pos'[g] = [Pos EXCEPT ![h] = File!Closed][g]
  <2>1. CASE g = h
    BY <1>1, <2>1 DEF Pos, TypeOK, File!Closed
  <2>2. CASE g # h /\ fd[g] # NoFd
    <3>1. /\ ram_slot(fd[g]) \in Slots /\ fd[g] = ram_slot(fd[g]) + FdBase
          /\ ram_slot(fd[h]) \in Slots /\ fd[h] = ram_slot(fd[h]) + FdBase
      BY <1>1, <2>2, SlotType
    <3>2. ram_slot(fd[g]) # ram_slot(fd[h])
      BY <2>2, <3>1 DEF SlotsMatchHandles, Exclusive, Holds
    <3>3. fd'[g] = fd[g]
      BY <1>1, <2>2 DEF TypeOK
    <3>4. s_ram_off'[ram_slot(fd[g])] = s_ram_off[ram_slot(fd[g])]
      BY <1>1, <3>1, <3>2 DEF TypeOK
    <3> QED BY <2>2, <3>3, <3>4 DEF Pos
  <2>3. CASE g # h /\ fd[g] = NoFd
    BY <1>1, <2>3 DEF Pos, TypeOK
  <2> QED BY <2>1, <2>2, <2>3
<1>3. Pos' = [Pos EXCEPT ![h] = File!Closed]
  BY <1>2 DEF Pos
<1> QED BY <1>1, <1>3, PosOf DEF ram_close, File!Close

LEMMA RefineRead ==
    ASSUME TypeOK, SlotsMatchHandles, NEW h \in Handles, NEW n \in 0 .. MaxIo, ram_read(h, n)
    PROVE  File!Read(h, n)
<1> DEFINE o == s_ram_off[ram_slot(fd[h])]
           m == Clip(o, n)
<1>1. fd[h] # NoFd /\ s_ram_off' = [s_ram_off EXCEPT ![ram_slot(fd[h])] = o + m]
  BY DEF ram_read
<1>2. Pos[h] = o /\ o \in 0 .. Size /\ Pos[h] # File!Closed /\ o + m \in 0 .. Size
  BY <1>1, PosOf, TransferType
<1>3. n \in Nat
  BY RamCfgAssumption
<1>4. m = File!Moved(Pos[h], n)
  BY <1>2, <1>3, ClipIsMoved
<1>5. Pos' = [Pos EXCEPT ![h] = o + m]
  BY <1>1, <1>2, MovesOnePosition DEF ram_read
<1>6. Pos' = [Pos EXCEPT ![h] = @ + m]
  BY <1>2, <1>5
<1>7. ret' = <<"read", h, [k \in 0 .. m - 1 |-> s_cfg[Pos[h] + k]]>> /\ UNCHANGED s_cfg
  BY <1>2 DEF ram_read
<1> HIDE DEF m
<1> QED BY <1>2, <1>4, <1>6, <1>7 DEF File!Read

LEMMA RefineWrite ==
    ASSUME TypeOK, SlotsMatchHandles, NEW h \in Handles, NEW n \in 0 .. MaxIo,
           NEW v \in Bytes, ram_write(h, n, v)
    PROVE  File!Write(h, n, v)
<1> DEFINE o == s_ram_off[ram_slot(fd[h])]
           m == Clip(o, n)
<1>1. fd[h] # NoFd /\ s_ram_off' = [s_ram_off EXCEPT ![ram_slot(fd[h])] = o + m]
  BY DEF ram_write
<1>2. Pos[h] = o /\ o \in 0 .. Size /\ Pos[h] # File!Closed /\ o + m \in 0 .. Size
  BY <1>1, PosOf, TransferType
<1>3. n \in Nat
  BY RamCfgAssumption
<1>4. m = File!Moved(Pos[h], n)
  BY <1>2, <1>3, ClipIsMoved
<1>5. Pos' = [Pos EXCEPT ![h] = o + m]
  BY <1>1, <1>2, MovesOnePosition DEF ram_write
<1>6. Pos' = [Pos EXCEPT ![h] = @ + m]
  BY <1>2, <1>5
<1>7. /\ s_cfg' = [j \in 0 .. Size - 1 |->
                     IF Pos[h] <= j /\ j < Pos[h] + m THEN v ELSE s_cfg[j]]
      /\ ret' = <<"write", h, m>>
  BY <1>2 DEF ram_write
<1> HIDE DEF m
<1> QED BY <1>2, <1>4, <1>6, <1>7 DEF File!Write

LEMMA RefineSeek ==
    ASSUME TypeOK, SlotsMatchHandles, NEW h \in Handles, NEW f \in Offsets,
           NEW w \in Whence, ram_lseek(h, f, w)
    PROVE  File!Seek(h, f, w)
<1> DEFINE next == SeekTarget(s_ram_off[ram_slot(fd[h])], f, w)
<1>1. fd[h] # NoFd /\ UNCHANGED <<s_cfg, fd>>
  BY DEF ram_lseek
<1>2. next \in Int
  BY <1>1, SlotType, RamCfgAssumption DEF SeekTarget, Whence
<1>3. next = File!Origin(Pos[h])[w] + f /\ Pos[h] # File!Closed
  BY <1>1, PosOf, RamCfgAssumption DEF SeekTarget, Whence, File!Origin
<1>4. CASE next \notin 0 .. Size /\ ret' = <<"seek", h, f, w, -1>> /\ UNCHANGED s_ram_off
  <2> HIDE DEF next
  <2> QED BY <1>1, <1>4, <1>3 DEF File!Seek, Pos
<1>5. CASE /\ 0 <= next /\ next <= Size
           /\ s_ram_off' = [s_ram_off EXCEPT ![ram_slot(fd[h])] = next]
           /\ ret' = <<"seek", h, f, w, next>>
  <2>1. next \in 0 .. Size
    BY <1>2, <1>5, RamCfgAssumption
  <2> HIDE DEF next
  <2>2. Pos' = [Pos EXCEPT ![h] = next]
    BY <1>1, <1>5, <2>1, MovesOnePosition
  <2> QED BY <1>1, <1>5, <1>3, <2>1, <2>2 DEF File!Seek
<1> QED BY <1>2, <1>4, <1>5, RamCfgAssumption DEF ram_lseek

LEMMA RefineNext ==
    ASSUME Cardinality(Handles) <= NSlots
    PROVE  TypeOK /\ SlotsMatchHandles /\ [Next]_vars => [File!Next]_(File!vars)
<1> SUFFICES ASSUME TypeOK, SlotsMatchHandles, [Next]_vars
             PROVE  File!Next \/ UNCHANGED File!vars
  OBVIOUS
<1>1. ASSUME NEW h \in Handles,
             \/ ram_open(h)
             \/ ram_close(h)
             \/ \E n \in 0 .. MaxIo : ram_read(h, n) \/ \E v \in Bytes : ram_write(h, n, v)
             \/ \E o \in Offsets, w \in Whence : ram_lseek(h, o, w)
      PROVE  File!Next
  <2>1. ASSUME NEW o \in Offsets, NEW w \in Whence, ram_lseek(h, o, w) PROVE File!Next
    BY <2>1, RefineSeek DEF File!Next, File!Origin, Whence
  <2> QED BY <1>1, <2>1, RefineOpen, RefineClose, RefineRead, RefineWrite DEF File!Next
<1>2. CASE UNCHANGED vars
  BY <1>2 DEF vars, File!vars, Pos
<1> QED BY <1>1, <1>2 DEF Next

\* With no more users than slots, the RAM file system is a fixed-size file in
\* which every user has a position of its own, for every size and every call.
THEOREM ImplementsSeekableFile ==
    ASSUME Cardinality(Handles) <= NSlots
    PROVE  Spec => PerFdSeeks
<1>1. Init => TypeOK /\ SlotsMatchHandles /\ File!Init
  BY TypeInit, MatchInit, RefineInit
<1>2. TypeOK /\ SlotsMatchHandles /\ [Next]_vars => (TypeOK /\ SlotsMatchHandles)'
  BY TypeNext, MatchNext
<1>3. TypeOK /\ SlotsMatchHandles /\ [Next]_vars => [File!Next]_(File!vars)
  BY RefineNext
<1> QED BY <1>1, <1>2, <1>3, PTL DEF Spec, PerFdSeeks, File!Spec
=============================================================================
