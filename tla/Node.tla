-------------------------------- MODULE Node --------------------------------
(***************************************************************************)
(* The running node of main/main.cpp: bring_up_wifi starts the Wi-Fi       *)
(* station (WifiSta), waits for it, and only on a CONNECTED verdict starts *)
(* the uplink task (LccUplink) and the probe task (SvcReach).  From then   *)
(* on the three run beside each other: the uplink reads the station's      *)
(* status and address, the probe reads the status, the uplink's attachment *)
(* and its hub's address.  app_main itself has returned.                   *)
(***************************************************************************)
EXTENDS WifiSta, Integers

CONSTANTS Hubs, Unusable, HOST, HOST2, MONITOR, Fds, MaxAddrs

ASSUME NodeAssumption ==
    /\ NoIp \notin Hubs \cup Unusable
    /\ Hubs \cap Unusable = {} /\ Hubs \cap Addrs = {}
    /\ {HOST, HOST2, MONITOR} \subseteq Hubs \cup Unusable \cup {NoIp}
    /\ Fds \subseteq Nat
    /\ MaxAddrs \in Nat

VARIABLES uplink_started, reach_started,
          listening, s_attached, s_fd, s_hub_ip, upc, fd, cands, peer, gone, ports, notices,
          web, ppc, hosts, up, jmri_icon, lcc_icon

Uplink == INSTANCE LccUplink WITH
              connected <- (s_state = "CONNECTED"), self <- s_ip, Selves <- Addrs, None <- NoIp

Reach == INSTANCE SvcReach WITH
              connected <- (s_state = "CONNECTED"), attached <- Uplink!Attached,
              hub_ip <- s_hub_ip, Hosts <- Hubs, None <- NoIp, lcc <- listening

uplink_vars == <<s_attached, s_fd, s_hub_ip, upc, fd, cands, peer, gone, ports, notices>>
reach_vars  == <<ppc, hosts, up, jmri_icon, lcc_icon>>
started     == <<uplink_started, reach_started>>
net         == <<listening, web>>
node_vars   == <<vars, started, net, uplink_vars, reach_vars>>

NodeInit ==
    /\ Init
    /\ uplink_started = FALSE /\ reach_started = FALSE
    /\ listening \in SUBSET Hubs /\ web \in SUBSET Hubs
    /\ s_attached = FALSE /\ s_fd = -1 /\ s_hub_ip = NoIp
    /\ upc = "notice" /\ fd = -1 /\ cands = <<>>
    /\ peer = [f \in Fds |-> NoIp] /\ gone = {} /\ ports = {} /\ notices = 0
    /\ ppc = "off_jmri" /\ hosts = <<>> /\ up = FALSE
    /\ jmri_icon = "none" /\ lcc_icon = "none"

-----------------------------------------------------------------------------
\* Mutant of lcc_uplink_start: the tasks are started whatever the wait said.
StartAlways ==
    /\ verdict \in States /\ ~uplink_started
    /\ uplink_started' = TRUE
    /\ UNCHANGED <<vars, reach_started, net, uplink_vars, reach_vars>>

\* bring_up_wifi after the wait: the uplink first, then the probe.
lcc_uplink_start ==
    /\ verdict = "CONNECTED" /\ ~uplink_started
    /\ uplink_started' = TRUE
    /\ UNCHANGED <<vars, reach_started, net, uplink_vars, reach_vars>>

svc_reach_start ==
    /\ uplink_started /\ ~reach_started
    /\ reach_started' = TRUE
    /\ UNCHANGED <<vars, uplink_started, net, uplink_vars, reach_vars>>

WifiStep   == Next /\ UNCHANGED <<started, net, uplink_vars, reach_vars>>
UplinkStep ==
    /\ uplink_started /\ UNCHANGED <<vars, started, net>> /\ Uplink!LinkStep
    /\ UNCHANGED reach_vars
ReachStep  ==
    /\ reach_started /\ UNCHANGED <<vars, started, net, uplink_vars>> /\ Reach!ProbeStep
NetworkStep ==
    /\ listening' \in SUBSET Hubs /\ web' \in SUBSET Hubs
    /\ UNCHANGED <<vars, started, uplink_vars, reach_vars>>

NodeNext == WifiStep \/ lcc_uplink_start \/ svc_reach_start \/ UplinkStep \/ ReachStep \/ NetworkStep

NodeSpec == NodeInit /\ [][NodeNext]_node_vars

Alone(A) == A /\ UNCHANGED <<started, net, uplink_vars, reach_vars>>

\* Every task of the node is scheduled, the driver ends an association attempt,
\* and the wait is over after its timeout at the latest.
NodeFairness ==
    /\ WF_node_vars(Alone(HandlerStep))
    /\ WF_node_vars(Alone(JoinEnds))
    /\ WF_node_vars(Alone(wifi_sta_wait))
    /\ WF_node_vars(lcc_uplink_start \/ svc_reach_start)
    /\ WF_node_vars(uplink_started /\ UNCHANGED <<vars, started, net, reach_vars>> /\ Uplink!UplinkStep)
    /\ WF_node_vars(uplink_started /\ UNCHANGED <<vars, started, net, reach_vars>> /\ Uplink!ExecutorStep)
    /\ WF_node_vars(ReachStep)
FairNodeSpec == NodeSpec /\ NodeFairness

-----------------------------------------------------------------------------
\* lcc_uplink.h, "Call after Wi-Fi is up": the uplink runs only on a node that
\* was given an address, even when the wait timed out into a status that was
\* being written.
StartedAfterAddress == uplink_started /\ phase = "idle" => "kGotIp" \in bits

\* Once started, the node is attached again and again as long as the link is up
\* and a configured hub accepts, whatever losses it went through before.
ComesBack ==
    <>[](uplink_started /\ radio = "up" /\ HOST2 \in listening) => []<>Uplink!Attached

\* After the station has given up, all three icons end up red and stay red,
\* although the uplink may still hold a half-open socket.
GivenUpShowsRed ==
    <>(s_state = "FAILED" /\ reach_started)
        => <>[](icon = "FAIL" /\ jmri_icon = "FAIL" /\ lcc_icon = "FAIL")

\* README.md, "OpenMRN GridConnect joins this laptop's JMRI hub": a node that
\* stays on Wi-Fi starts its uplink.
UplinkRuns == <>[](s_state = "CONNECTED") => <>uplink_started
=============================================================================
