------------------------------ MODULE HubLink ------------------------------
(***************************************************************************)
(* What lcc_uplink.h promises the rest of the program: the node is either  *)
(* detached or attached to one hub, whose address it can read, and it goes *)
(* from one hub to another only through being detached.                    *)
(***************************************************************************)
CONSTANTS Hubs,  \* the hubs the node may be attached to
          None   \* no hub

VARIABLE hub     \* the hub lcc_uplink_hub_ip names while attached

Init == hub = None

Attach == hub = None /\ hub' \in Hubs
Detach == hub # None /\ hub' = None

Next == Attach \/ Detach
Spec == Init /\ [][Next]_hub
=============================================================================
