------------------------------- MODULE RamCfg -------------------------------
(***************************************************************************)
(* The RAM file system of main/lcc_uplink.cpp that backs /ramcfg/openlcb:  *)
(* one buffer s_cfg, and a table of slots with a `used' flag and a seek    *)
(* offset each.  A user of the file holds a descriptor, which is a slot    *)
(* number plus FdBase.  When every slot is taken ram_open does not fail:   *)
(* it rewinds slot 0 and returns the descriptor of slot 0 once more.       *)
(*                                                                         *)
(* Each call is one action: the OpenMRN stack calls the file system from   *)
(* its executor thread, and from the main task only before that thread     *)
(* runs, so two calls never overlap.                                       *)
(***************************************************************************)
EXTENDS Integers, FiniteSets

CONSTANTS Handles,   \* the open files the OpenMRN stack may hold at a time
          NSlots,    \* entries of s_ram_used and s_ram_off (4 in the code)
          Size,      \* sizeof(s_cfg) (1024 in the code)
          Bytes,     \* the byte values written
          Offsets,   \* the offsets passed to lseek
          MaxIo      \* the longest read or write asked for

ASSUME RamCfgAssumption ==
    /\ IsFiniteSet(Handles)
    /\ NSlots \in Nat \ {0}
    /\ Size \in Nat \ {0}
    /\ {0, 2} \subseteq Bytes
    /\ Offsets \subseteq Int
    /\ MaxIo \in Nat

VARIABLES s_cfg,       \* the config image
          s_ram_used,  \* per slot: 1 if handed out, else 0
          s_ram_off,   \* per slot: the seek offset
          fd,          \* per handle: its descriptor, or NoFd
          ret          \* the last call: its handle, its arguments if a seek, its result

vars == <<s_cfg, s_ram_used, s_ram_off, fd, ret>>

Slots  == 0 .. NSlots - 1
NoFd   == -1
FdBase == 3
Whence == {"SEEK_SET", "SEEK_CUR", "SEEK_END"}

OpenHandles == {h \in Handles : fd[h] # NoFd}

ram_slot(f) == f - FdBase
FreeSlots   == {i \in Slots : s_ram_used[i] = 0}

\* The part of a transfer of n bytes that fits between offset o and the end.
Clip(o, n) ==
    CASE o >= Size -> 0
      [] o < Size /\ n > Size - o -> Size - o
      [] o < Size /\ n <= Size - o -> n

-----------------------------------------------------------------------------
\* lcc_uplink_start stores the ACDI version byte before the stack exists.
Init ==
    /\ s_cfg = [j \in 0 .. Size - 1 |-> IF j = 0 THEN 2 ELSE 0]
    /\ s_ram_used = [i \in Slots |-> 0]
    /\ s_ram_off = [i \in Slots |-> 0]
    /\ fd = [h \in Handles |-> NoFd]
    /\ ret = <<"none">>

\* Mutant of OpenFree: the slot returned is not marked used.
OpenFreeUnmarked(h) ==
    \E i \in FreeSlots :
        /\ \A k \in FreeSlots : i <= k
        /\ s_ram_off' = [s_ram_off EXCEPT ![i] = 0]
        /\ fd' = [fd EXCEPT ![h] = i + FdBase]
        /\ UNCHANGED s_ram_used

\* The first free slot, in the order of the loop.
OpenFree(h) ==
    \E i \in FreeSlots :
        /\ \A k \in FreeSlots : i <= k
        /\ s_ram_used' = [s_ram_used EXCEPT ![i] = 1]
        /\ s_ram_off' = [s_ram_off EXCEPT ![i] = 0]
        /\ fd' = [fd EXCEPT ![h] = i + FdBase]

\* Mutant of OpenFull: the slot the loop looked at last is shared.
OpenFullLast(h) ==
    /\ FreeSlots = {}
    /\ s_ram_off' = [s_ram_off EXCEPT ![NSlots - 1] = 0]
    /\ fd' = [fd EXCEPT ![h] = NSlots - 1 + FdBase]
    /\ UNCHANGED s_ram_used

\* No slot is free: slot 0 is rewound under its holder and shared.
OpenFull(h) ==
    /\ FreeSlots = {}
    /\ s_ram_off' = [s_ram_off EXCEPT ![0] = 0]
    /\ fd' = [fd EXCEPT ![h] = FdBase]
    /\ UNCHANGED s_ram_used

ram_open(h) ==
    /\ fd[h] = NoFd
    /\ OpenFree(h) \/ OpenFull(h)
    /\ ret' = <<"open", h>>
    /\ UNCHANGED s_cfg

\* Mutant of ram_close: the slot is not given back.
CloseLeaks(h) ==
    /\ fd[h] # NoFd
    /\ s_ram_off' = [s_ram_off EXCEPT ![ram_slot(fd[h])] = 0]
    /\ fd' = [fd EXCEPT ![h] = NoFd]
    /\ ret' = <<"close", h>>
    /\ UNCHANGED <<s_cfg, s_ram_used>>

ram_close(h) ==
    /\ fd[h] # NoFd
    /\ s_ram_used' = [s_ram_used EXCEPT ![ram_slot(fd[h])] = 0]
    /\ s_ram_off' = [s_ram_off EXCEPT ![ram_slot(fd[h])] = 0]
    /\ fd' = [fd EXCEPT ![h] = NoFd]
    /\ ret' = <<"close", h>>
    /\ UNCHANGED s_cfg

\* A write of n bytes, all of value v.
ram_write(h, n, v) ==
    LET i == ram_slot(fd[h])
        o == s_ram_off[i]
        m == Clip(o, n)
    IN  /\ fd[h] # NoFd
        /\ s_cfg' = [j \in 0 .. Size - 1 |-> IF o <= j /\ j < o + m THEN v ELSE s_cfg[j]]
        /\ s_ram_off' = [s_ram_off EXCEPT ![i] = o + m]
        /\ ret' = <<"write", h, m>>
        /\ UNCHANGED <<s_ram_used, fd>>

ram_read(h, n) ==
    LET i == ram_slot(fd[h])
        o == s_ram_off[i]
        m == Clip(o, n)
    IN  /\ fd[h] # NoFd
        /\ ret' = <<"read", h, [k \in 0 .. m - 1 |-> s_cfg[o + k]]>>
        /\ s_ram_off' = [s_ram_off EXCEPT ![i] = o + m]
        /\ UNCHANGED <<s_cfg, s_ram_used, fd>>

\* Mutant of SeekTarget: SEEK_CUR counts from the start.
SeekTargetFromStart(o, offset, whence) ==
    CASE whence \in {"SEEK_SET", "SEEK_CUR"} -> offset
      [] whence = "SEEK_END" -> Size + offset

\* Where lseek would land; SEEK_END counts from the end of the buffer.
SeekTarget(o, offset, whence) ==
    CASE whence = "SEEK_SET" -> offset
      [] whence = "SEEK_CUR" -> o + offset
      [] whence = "SEEK_END" -> Size + offset

\* Mutant of ram_lseek: only the lower bound is tested.
SeekUnbounded(h, offset, whence) ==
    LET i    == ram_slot(fd[h])
        next == SeekTarget(s_ram_off[i], offset, whence)
    IN  /\ fd[h] # NoFd
        /\ next >= 0
        /\ s_ram_off' = [s_ram_off EXCEPT ![i] = next]
        /\ ret' = <<"seek", h, offset, whence, next>>
        /\ UNCHANGED <<s_cfg, s_ram_used, fd>>

ram_lseek(h, offset, whence) ==
    LET i    == ram_slot(fd[h])
        next == SeekTarget(s_ram_off[i], offset, whence)
    IN  /\ fd[h] # NoFd
        /\ \/ /\ next < 0 \/ next > Size
              /\ ret' = <<"seek", h, offset, whence, -1>>
              /\ UNCHANGED s_ram_off
           \/ /\ 0 <= next /\ next <= Size
              /\ s_ram_off' = [s_ram_off EXCEPT ![i] = next]
              /\ ret' = <<"seek", h, offset, whence, next>>
        /\ UNCHANGED <<s_cfg, s_ram_used, fd>>

Next ==
    \E h \in Handles :
        \/ ram_open(h)
        \/ ram_close(h)
        \/ \E n \in 0 .. MaxIo : ram_read(h, n) \/ \E v \in Bytes : ram_write(h, n, v)
        \/ \E o \in Offsets, w \in Whence : ram_lseek(h, o, w)

Spec == Init /\ [][Next]_vars

-----------------------------------------------------------------------------
\* The types of the variables; no seek offset is ever outside the buffer.
TypeOK ==
    /\ s_cfg \in [0 .. Size - 1 -> Bytes]
    /\ s_ram_used \in [Slots -> {0, 1}]
    /\ s_ram_off \in [Slots -> 0 .. Size]
    /\ fd \in [Handles -> {NoFd} \cup (FdBase .. FdBase + NSlots - 1)]

Holds(h, i) == fd[h] = i + FdBase
Exclusive(i) ==
    /\ s_ram_used[i] = 1 <=> \E h \in Handles : Holds(h, i)
    /\ \A h, g \in Handles : Holds(h, i) /\ Holds(g, i) => h = g

\* While the users fit in the table, a slot is marked used exactly while one
\* user holds its descriptor, and never two: ram_open does not hand out a slot
\* that is held, and ram_close leaks none.
SlotsMatchHandles == \A i \in Slots : Exclusive(i)

\* However many files are open, the damage a full table does is confined to
\* slot 0: every other slot still has one holder, and slot 0 is never left
\* marked used with nobody to close it.
OnlySlotZeroShared ==
    /\ \A i \in Slots \ {0} : Exclusive(i)
    /\ s_ram_used[0] = 1 => \E h \in Handles : Holds(h, 0)

\* The position each open file sees.
Pos == [h \in Handles |-> IF fd[h] = NoFd THEN -1 ELSE s_ram_off[ram_slot(fd[h])]]

\* README.md, "RAM OpenLCB config uses per-fd seeks": a call moves no position
\* but that of its own handle, except between the sharers of slot 0.
OwnSeek ==
    [][\A h \in Handles :
          fd[h] # NoFd /\ ret'[2] # h /\ Pos'[h] # Pos[h] => fd[h] = FdBase /\ fd'[ret'[2]] \in {FdBase, NoFd}]_vars

\* The RAM file system implements a fixed-size file with a position per handle.
File == INSTANCE SeekableFile WITH content <- s_cfg, pos <- Pos
PerFdSeeks == File!Spec
=============================================================================
