---------------------------- MODULE SeekableFile ----------------------------
(***************************************************************************)
(* What a fixed-size file promises its users: every open handle has a      *)
(* position of its own, which only that handle's calls move, and all       *)
(* handles share one content that never grows.  This is the abstract       *)
(* specification that the RAM file system of lcc_uplink.cpp implements     *)
(* (module RamCfg) as long as no more handles are open than it has slots.  *)
(***************************************************************************)
EXTENDS Integers

CONSTANTS Handles,   \* the users of the file
          Size,      \* its fixed length in bytes
          Bytes,     \* the values of a byte
          Offsets,   \* the distances a user seeks
          MaxIo      \* the longest transfer a user asks for

VARIABLES content,   \* the bytes, numbered from 0
          pos,       \* the position of each open handle
          ret        \* the last call: its handle, its arguments if a seek, its result

vars == <<content, pos, ret>>

Closed == -1

\* Bytes a transfer of n bytes moves at position p: it is cut at the end.
Moved(p, n) == IF n <= Size - p THEN n ELSE Size - p

Init ==
    /\ content = [j \in 0 .. Size - 1 |-> IF j = 0 THEN 2 ELSE 0]
    /\ pos = [h \in Handles |-> Closed]
    /\ ret = <<"none">>

Open(h) ==
    /\ pos[h] = Closed
    /\ pos' = [pos EXCEPT ![h] = 0]
    /\ ret' = <<"open", h>>
    /\ UNCHANGED content

Close(h) ==
    /\ pos[h] # Closed
    /\ pos' = [pos EXCEPT ![h] = Closed]
    /\ ret' = <<"close", h>>
    /\ UNCHANGED content

Read(h, n) ==
    /\ pos[h] # Closed
    /\ ret' = <<"read", h, [k \in 0 .. Moved(pos[h], n) - 1 |-> content[pos[h] + k]]>>
    /\ pos' = [pos EXCEPT ![h] = @ + Moved(pos[h], n)]
    /\ UNCHANGED content

Write(h, n, v) ==
    /\ pos[h] # Closed
    /\ content' = [j \in 0 .. Size - 1 |->
                     IF pos[h] <= j /\ j < pos[h] + Moved(pos[h], n) THEN v ELSE content[j]]
    /\ ret' = <<"write", h, Moved(pos[h], n)>>
    /\ pos' = [pos EXCEPT ![h] = @ + Moved(pos[h], n)]

\* Where a seek counts from.
Origin(p) == [SEEK_SET |-> 0, SEEK_CUR |-> p, SEEK_END |-> Size]

\* A seek lands on a position of the file, its end included, or is refused.
Seek(h, offset, whence) ==
    LET p == Origin(pos[h])[whence] + offset
    IN  /\ pos[h] # Closed
        /\ UNCHANGED content
        /\ \/ /\ p \in 0 .. Size
              /\ pos' = [pos EXCEPT ![h] = p]
              /\ ret' = <<"seek", h, offset, whence, p>>
           \/ /\ p \notin 0 .. Size
              /\ ret' = <<"seek", h, offset, whence, -1>>
              /\ UNCHANGED pos

Next ==
    \E h \in Handles :
        \/ Open(h)
        \/ Close(h)
        \/ \E n \in 0 .. MaxIo : Read(h, n) \/ \E v \in Bytes : Write(h, n, v)
        \/ \E o \in Offsets, w \in DOMAIN Origin(0) : Seek(h, o, w)

Spec == Init /\ [][Next]_vars
=============================================================================
