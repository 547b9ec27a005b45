------------------------------ MODULE SvcReach ------------------------------
(***************************************************************************)
(* The reachability probe of main/svc_reach.cpp and SvcReachPick.h.        *)
(* probe_task loops: off Wi-Fi it paints both service icons as failed;     *)
(* otherwise it tries the JMRI web server at the uplink's hub and at the   *)
(* configured monitor host, paints the JMRI icon, tries the configured LCC *)
(* hosts, asks the uplink whether it is attached, and paints the LCC icon. *)
(* A round takes seconds, so what it read may be old when it paints.       *)
(***************************************************************************)
EXTENDS Naturals, Sequences

CONSTANTS Hosts,       \* addresses of machines on the network
          Unusable,    \* addresses svc_reach_host_usable rejects
          None,        \* the empty string
          MONITOR,     \* CONFIG_NODE_JMRI_MONITOR_HOST
          HOST, HOST2  \* CONFIG_NODE_LCC_HUB_HOST and _HOST2

ASSUME SvcReachAssumption ==
    /\ None \notin Hosts \cup Unusable
    /\ Hosts \cap Unusable = {}
    /\ {MONITOR, HOST, HOST2} \subseteq Hosts \cup Unusable \cup {None}

VARIABLES connected,  \* wifi_sta_state() = WIFI_STA_CONNECTED
          attached,   \* lcc_uplink_is_attached()
          hub_ip,     \* lcc_uplink_hub_ip()
          web,        \* external: hosts whose JMRI web port accepts
          lcc,        \* external: hosts whose GridConnect port accepts
          ppc,        \* where probe_task is
          hosts,      \* web hosts still to try in this round
          up,         \* the answer about to be painted
          jmri_icon, lcc_icon

inputs == <<connected, attached, hub_ip>>
net    == <<web, lcc>>
task   == <<ppc, hosts, up, jmri_icon, lcc_icon>>
vars   == <<inputs, net, task>>

Icons  == {"none", "OFF", "OK", "FAIL"}
Labels == {"off_jmri", "off_lcc", "loop", "down_jmri", "down_lcc", "pick", "web", "paint_jmri",
           "lcc_host", "lcc_host2", "ask_uplink", "paint_lcc"}

\* An attached uplink has published its hub's address (LccUplink!HubIpNamesPeer).
UplinkShows(a, ip) == a \in BOOLEAN /\ ip \in Hosts \cup {None} /\ (a => ip # None)

Init ==
    /\ connected \in BOOLEAN
    /\ \E a \in BOOLEAN, ip \in Hosts \cup {None} :
          UplinkShows(a, ip) /\ attached = a /\ hub_ip = ip
    /\ web \in SUBSET Hosts /\ lcc \in SUBSET Hosts
    /\ ppc = "off_jmri" /\ hosts = <<>> /\ up = FALSE
    /\ jmri_icon = "none" /\ lcc_icon = "none"

-----------------------------------------------------------------------------
svc_reach_host_usable(h) == h # None /\ h \notin Unusable

\* Mutant of svc_reach_web_hosts: the monitor host replaces the hub's address.
WebHostsMonitorOnly(hub, monitor) ==
    IF svc_reach_host_usable(monitor) THEN <<monitor>>
    ELSE IF svc_reach_host_usable(hub) THEN <<hub>> ELSE <<>>

\* Mutant of svc_reach_web_hosts: the hub's address is not tested.
WebHostsUntested(hub, monitor) ==
    IF svc_reach_host_usable(monitor) /\ hub # monitor THEN <<hub, monitor>> ELSE <<hub>>

\* The hub the uplink is attached to first, then the monitor host if it is
\* another one.
svc_reach_web_hosts(hub, monitor) ==
    LET first == IF svc_reach_host_usable(hub) THEN <<hub>> ELSE <<>>
    IN  IF svc_reach_host_usable(monitor) /\ first # <<monitor>>
        THEN Append(first, monitor) ELSE first

\* Mutant of svc_reach_lcc_icon_ok: only the static probe counts.
LccIconStaticOnly(is_attached, static_ok) == static_ok

svc_reach_lcc_icon_ok(is_attached, static_ok) == is_attached \/ static_ok

tcp_is_open(h, open) == h # None /\ h \in open
Paint(ok) == IF ok THEN "OK" ELSE "FAIL"
Goto(l) == ppc' = l

-----------------------------------------------------------------------------
StartOff ==
    \/ /\ ppc = "off_jmri" /\ Goto("off_lcc") /\ jmri_icon' = "OFF"
       /\ UNCHANGED <<hosts, up, lcc_icon>>
    \/ /\ ppc = "off_lcc" /\ Goto("loop") /\ lcc_icon' = "OFF"
       /\ UNCHANGED <<hosts, up, jmri_icon>>

\* Mutant of CheckWifi: the icons are left alone while off Wi-Fi.
CheckWifiIdles ==
    /\ ppc = "loop"
    /\ IF connected THEN Goto("pick") ELSE Goto("loop")
    /\ UNCHANGED <<hosts, up, jmri_icon, lcc_icon>>

CheckWifi ==
    /\ ppc = "loop"
    /\ IF connected THEN Goto("pick") ELSE Goto("down_jmri")
    /\ UNCHANGED <<hosts, up, jmri_icon, lcc_icon>>

PaintDown ==
    \/ /\ ppc = "down_jmri" /\ Goto("down_lcc") /\ jmri_icon' = "FAIL"
       /\ UNCHANGED <<hosts, up, lcc_icon>>
    \/ /\ ppc = "down_lcc" /\ Goto("loop") /\ lcc_icon' = "FAIL"
       /\ UNCHANGED <<hosts, up, jmri_icon>>

\* probe_jmri_web copies the addresses once and then tries them in turn.
PickWebHosts ==
    /\ ppc = "pick" /\ Goto("web")
    /\ hosts' = svc_reach_web_hosts(hub_ip, MONITOR)
    /\ UNCHANGED <<up, jmri_icon, lcc_icon>>

\* Mutant of ProbeWeb: a list that ran out counts as an answer.
ProbeWebOptimistic ==
    /\ ppc = "web"
    /\ IF hosts # <<>> /\ ~tcp_is_open(Head(hosts), web)
       THEN /\ hosts' = Tail(hosts) /\ UNCHANGED <<ppc, up>>
       ELSE /\ up' = TRUE /\ hosts' = <<>> /\ Goto("paint_jmri")
    /\ UNCHANGED <<jmri_icon, lcc_icon>>

ProbeWeb ==
    /\ ppc = "web"
    /\ IF hosts # <<>> /\ ~tcp_is_open(Head(hosts), web)
       THEN /\ hosts' = Tail(hosts) /\ UNCHANGED <<ppc, up>>
       ELSE /\ up' = (hosts # <<>>) /\ hosts' = <<>> /\ Goto("paint_jmri")
    /\ UNCHANGED <<jmri_icon, lcc_icon>>

PaintJmri ==
    /\ ppc = "paint_jmri" /\ Goto("lcc_host")
    /\ jmri_icon' = Paint(up)
    /\ UNCHANGED <<hosts, up, lcc_icon>>

\* The second host is tried only if the first does not answer.
ProbeLcc ==
    /\ \/ ppc = "lcc_host" /\ up' = tcp_is_open(HOST, lcc)
          /\ IF up' THEN Goto("ask_uplink") ELSE Goto("lcc_host2")
       \/ ppc = "lcc_host2" /\ up' = tcp_is_open(HOST2, lcc) /\ Goto("ask_uplink")
    /\ UNCHANGED <<hosts, jmri_icon, lcc_icon>>

AskUplink ==
    /\ ppc = "ask_uplink" /\ Goto("paint_lcc")
    /\ up' = svc_reach_lcc_icon_ok(attached, up)
    /\ UNCHANGED <<hosts, jmri_icon, lcc_icon>>

PaintLcc ==
    /\ ppc = "paint_lcc" /\ Goto("loop")
    /\ lcc_icon' = Paint(up)
    /\ UNCHANGED <<hosts, up, jmri_icon>>

ProbeStep ==
    \/ StartOff \/ CheckWifi \/ PaintDown
    \/ PickWebHosts \/ ProbeWeb \/ PaintJmri \/ ProbeLcc \/ AskUplink \/ PaintLcc

-----------------------------------------------------------------------------
\* Wi-Fi and the uplink, which run beside the probe.
InputsChange ==
    /\ connected' \in BOOLEAN
    /\ \E a \in BOOLEAN, ip \in Hosts \cup {None} :
          UplinkShows(a, ip) /\ attached' = a /\ hub_ip' = ip
    /\ UNCHANGED <<net, task>>

\* The network (external).
ServersChange ==
    /\ web' \in SUBSET Hosts /\ lcc' \in SUBSET Hosts
    /\ UNCHANGED <<inputs, task>>

Next == (ProbeStep /\ UNCHANGED <<inputs, net>>) \/ InputsChange \/ ServersChange
Spec == Init /\ [][Next]_vars

\* probe_task is scheduled and its connect calls return.
FairSpec == Spec /\ WF_vars(ProbeStep /\ UNCHANGED <<inputs, net>>)

-----------------------------------------------------------------------------
TypeOK ==
    /\ connected \in BOOLEAN /\ UplinkShows(attached, hub_ip)
    /\ web \subseteq Hosts /\ lcc \subseteq Hosts
    /\ ppc \in Labels
    /\ hosts \in Seq(Hosts) /\ Len(hosts) <= 2
    /\ up \in BOOLEAN
    /\ jmri_icon \in Icons /\ lcc_icon \in Icons

\* While Wi-Fi stays down, both icons turn red and stay red, whatever the
\* round that was under way when it went down had found.
DownShowsFail ==
    <>[](~connected) => <>[](jmri_icon = "FAIL" /\ lcc_icon = "FAIL")

\* A lasting attachment shows green whether or not a static host answers
\* (SvcReachPick.h: "real GridConnect attach wins").
AttachedShowsOk == <>[](connected /\ attached) => <>[](lcc_icon = "OK")

\* With nothing attached and nobody listening, no green is left over.
NothingShowsFail ==
    <>[](~attached /\ web = {} /\ lcc = {}) => <>[](jmri_icon # "OK" /\ lcc_icon # "OK")

\* Kconfig, "The JMRI glass icon probes the connected OpenLCB hub IPv4": if the
\* hub's own web server answers, the icon turns green although a monitor host
\* is configured and does not answer.
HubWebShowsOk ==
    \A h \in Hosts : <>[](connected /\ hub_ip = h /\ h \in web) => <>[](jmri_icon = "OK")
=============================================================================
