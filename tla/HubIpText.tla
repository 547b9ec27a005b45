----------------------------- MODULE HubIpText -----------------------------
(***************************************************************************)
(* The text of s_hub_ip, written by uplink_task (main/lcc_uplink.cpp) and  *)
(* read by probe_task (SvcReachPick.h) with no lock between them.  Both    *)
(* tasks have priority 4 and no core affinity, and both go through the     *)
(* text cell by cell with strncpy, so a copy may be taken in the middle of *)
(* a write.  Clearing writes the first cell only.  A text is a sequence of *)
(* Len cells ended by NUL; a cell stands for the bytes moved at a time.    *)
(***************************************************************************)
EXTENDS Naturals, Sequences

CONSTANTS Texts,  \* the addresses of the hubs, as sequences of cells
          NUL,    \* the terminating cell
          Cells   \* cells in s_hub_ip, more than any text has

VARIABLES s_hub_ip,  \* the cells
          writing,   \* the text uplink_task is storing, <<>> if none
          wat,       \* the next cell it stores
          out,       \* what probe_task has copied so far
          reading    \* whether its copy is under way

vars == <<s_hub_ip, writing, wat, out, reading>>

\* strncpy fills the rest of the buffer with NUL.
CellOf(t, i) == IF i <= Len(t) THEN t[i] ELSE NUL

Init ==
    /\ s_hub_ip = [i \in 1 .. Cells |-> NUL]
    /\ writing = <<>> /\ wat = 1
    /\ out = <<>> /\ reading = FALSE

\* try_hub_host starts to store the address it connected to.
BeginStore ==
    /\ writing = <<>> /\ s_hub_ip[1] = NUL
    /\ writing' \in Texts /\ wat' = 1
    /\ UNCHANGED <<s_hub_ip, out, reading>>

StoreCell ==
    /\ writing # <<>>
    /\ s_hub_ip' = [s_hub_ip EXCEPT ![wat] = CellOf(writing, wat)]
    /\ IF wat = Cells THEN writing' = <<>> /\ wat' = 1
                      ELSE wat' = wat + 1 /\ UNCHANGED writing
    /\ UNCHANGED <<out, reading>>

\* uplink_task finds the port closed: s_hub_ip[0] = '\0'.
Clear ==
    /\ writing = <<>> /\ s_hub_ip[1] # NUL
    /\ s_hub_ip' = [s_hub_ip EXCEPT ![1] = NUL]
    /\ UNCHANGED <<writing, wat, out, reading>>

\* svc_reach_web_hosts finds the first cell usable and starts to copy.
BeginCopy ==
    /\ ~reading /\ s_hub_ip[1] # NUL
    /\ reading' = TRUE /\ out' = <<>>
    /\ UNCHANGED <<s_hub_ip, writing, wat>>

CopyCell ==
    /\ reading
    /\ LET c == IF Len(out) < Cells THEN s_hub_ip[Len(out) + 1] ELSE NUL
       IN  IF c = NUL THEN reading' = FALSE /\ UNCHANGED out
                      ELSE out' = Append(out, c) /\ UNCHANGED reading
    /\ UNCHANGED <<s_hub_ip, writing, wat>>

Next == BeginStore \/ StoreCell \/ Clear \/ BeginCopy \/ CopyCell
Spec == Init /\ [][Next]_vars

\* lcc_uplink.h, "Dotted IPv4 of that hub, or empty": what the probe copied is
\* the address of a hub, or nothing.
CopyIsAHub == ~reading => out \in Texts \cup {<<>>}
=============================================================================
