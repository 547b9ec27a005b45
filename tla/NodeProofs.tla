----------------------------- MODULE NodeProofs -----------------------------
(***************************************************************************)
(* Proofs about the composed node: the station in it is the station of     *)
(* WifiSta, the uplink that of LccUplink, the probe that of SvcReach, for  *)
(* any addresses and hubs, so what is proved of the parts holds of the     *)
(* node; the uplink is started only on a node that got an address; and a   *)
(* node whose tasks run comes back to its hub, or shows that it gave up.   *)
(***************************************************************************)
EXTENDS Node, WifiStaProofs

\* The handler of an address has published CONNECTED and not yet set the bit.
Announcing == phase \in {"draw", "end"} /\ todo = "gotip"

\* Whoever saw CONNECTED saw an address whose bit is set, or about to be.
GrantSeen ==
    /\ s_state = "CONNECTED" \/ verdict = "CONNECTED" => "kGotIp" \in bits \/ Announcing
    /\ uplink_started => verdict = "CONNECTED"

-----------------------------------------------------------------------------
LEMMA NodeRefinesStation == [NodeNext]_node_vars => [Next]_vars
BY DEF NodeNext, node_vars, WifiStep, lcc_uplink_start, svc_reach_start, UplinkStep, ReachStep,
       NetworkStep

\* The station moves on: a bit that is set stays set.
LEMMA StationKeepsGrant ==
    ASSUME IInv, GrantSeen, Next, UNCHANGED started PROVE GrantSeen'
<1> USE DEF started, IInv
<1>1. CASE \E c \in BOOLEAN : wifi_sta_start(c)
  <2>1. s_state = "IDLE" /\ s_state' \in {"NO_PSK", "SEARCHING"} /\ verdict' = verdict
    BY <1>1 DEF wifi_sta_start
  <2>2. verdict = "none"
    BY <2>1 DEF Quiet
  <2> QED BY <2>1, <2>2 DEF GrantSeen
<1>2. CASE wifi_sta_wait
  BY <1>2 DEF wifi_sta_wait, WaitBits, WaitStatus, published, handler, GrantSeen, Announcing
<1>3. CASE OnStart \/ OnDisconnected \/ OnGotIp
  BY <1>3 DEF OnStart, OnDisconnected, OnGotIp, Take, Begin, published, GrantSeen, Announcing
<1>4. CASE SetState
  <2>1. phase = "set" /\ phase' = "draw" /\ UNCHANGED <<bits, todo, verdict>>
    BY <1>4 DEF SetState
  <2>2. s_state' = "CONNECTED" => todo = "gotip"
    BY <1>4 DEF SetState, StateFor, TypeOK, Ends
  <2> QED BY <2>1, <2>2 DEF GrantSeen, Announcing
<1>5. CASE DrawIcon
  BY <1>5 DEF DrawIcon, GrantSeen, Announcing
<1>6. CASE Reconnect
  BY <1>6 DEF Reconnect, published, GrantSeen, Announcing
<1>7. CASE SignalBits
  BY <1>7 DEF SignalBits, GrantSeen, Announcing
<1>8. CASE Environment
  BY <1>8 DEF Environment, JoinEnds, JoinOk, JoinFails, Lease, Renew, LeaseExpires, LinkLost,
             published, handler, GrantSeen, Announcing
<1> QED BY <1>1, <1>2, <1>3, <1>4, <1>5, <1>6, <1>7, <1>8 DEF Next, HandlerStep

LEMMA GrantKept == ASSUME IInv, GrantSeen, [NodeNext]_node_vars PROVE GrantSeen'
<1>1. CASE WifiStep
  BY <1>1, StationKeepsGrant DEF WifiStep
<1>2. CASE lcc_uplink_start
  BY <1>2 DEF lcc_uplink_start, vars, published, handler, GrantSeen, Announcing
<1>3. CASE svc_reach_start \/ UplinkStep \/ ReachStep \/ NetworkStep \/ UNCHANGED node_vars
  <2>1. UNCHANGED <<s_state, verdict, bits, phase, todo, uplink_started>>
    BY <1>3 DEF svc_reach_start, UplinkStep, ReachStep, NetworkStep, node_vars, vars, published,
                handler, started
  <2> QED BY <2>1 DEF GrantSeen, Announcing
<1> QED BY <1>1, <1>2, <1>3 DEF NodeNext

\* The station in the node is the one of WifiSta: everything proved there holds.
THEOREM ImplementsStation == NodeSpec => Spec
<1>1. NodeInit => Init
  BY DEF NodeInit
<1> QED BY <1>1, NodeRefinesStation, PTL DEF NodeSpec, Spec

\* The uplink is started only on a node that was given an address, even when the
\* wait timed out into a status that was being written (bring_up_wifi).
THEOREM StartsAfterAddress == NodeSpec => []StartedAfterAddress
<1>1. NodeInit => GrantSeen
  BY DEF NodeInit, Init, GrantSeen
<1>2. NodeSpec => []IInv
  BY ImplementsStation, Invariance, PTL
<1>3. IInv /\ GrantSeen /\ [NodeNext]_node_vars => GrantSeen'
  BY GrantKept
<1>4. GrantSeen => StartedAfterAddress
  BY DEF GrantSeen, Announcing, StartedAfterAddress
<1> QED BY <1>1, <1>2, <1>3, <1>4, PTL DEF NodeSpec

-----------------------------------------------------------------------------
(* The uplink in the node.                                                 *)

\* The uplink of Node once more, with what is proved about it.
UplinkP == INSTANCE LccUplinkProofs WITH
              connected <- (s_state = "CONNECTED"), self <- s_ip, Selves <- Addrs, None <- NoIp

LEMMA UplinkFacts ==
    /\ UplinkP!IInv /\ [UplinkP!Next]_(UplinkP!vars) => UplinkP!IInv'
    /\ UplinkP!Init => UplinkP!IInv
BY UplinkP!Inductive, UplinkP!InitInv, NodeAssumption, WifiStaAssumption DEF UplinkP!Hosts

LEMMA SameSteps ==
    /\ UplinkP!UplinkStep <=> Uplink!UplinkStep
    /\ UplinkP!ExecutorStep <=> Uplink!ExecutorStep
    /\ UplinkP!LinkStep <=> Uplink!LinkStep
<1>1. UplinkP!UplinkStep <=> Uplink!UplinkStep
  BY DEF UplinkP!UplinkStep, Uplink!UplinkStep,
       Uplink!NoticeClosed, UplinkP!NoticeClosed,
       Uplink!ForgetHubIp, UplinkP!ForgetHubIp, Uplink!Gate, UplinkP!Gate,
       Uplink!QueryMdns, UplinkP!QueryMdns, Uplink!SkipHost, UplinkP!SkipHost,
       Uplink!ConnectFails, UplinkP!ConnectFails,
       Uplink!ConnectSucceeds, UplinkP!ConnectSucceeds, Uplink!NoHub, UplinkP!NoHub,
       Uplink!AttachSocket, UplinkP!AttachSocket, Uplink!Goto, UplinkP!Goto,
       Uplink!hub_host_skip, UplinkP!hub_host_skip, Uplink!Hosts, UplinkP!Hosts,
       Uplink!OpenFds, UplinkP!OpenFds, Uplink!NoFd, UplinkP!NoFd,
       Uplink!wifi, UplinkP!wifi, Uplink!shared, UplinkP!shared,
       Uplink!task, UplinkP!task, Uplink!stack, UplinkP!stack
<1>2. UplinkP!ExecutorStep <=> Uplink!ExecutorStep
  BY DEF UplinkP!ExecutorStep, Uplink!ExecutorStep,
       Uplink!ClosePort, UplinkP!ClosePort, Uplink!Notify, UplinkP!Notify,
       Uplink!NoFd, UplinkP!NoFd, Uplink!shared, UplinkP!shared,
       Uplink!task, UplinkP!task
<1>3. ASSUME NEW f PROVE UplinkP!HubCloses(f) <=> Uplink!HubCloses(f)
  BY DEF Uplink!HubCloses, UplinkP!HubCloses, Uplink!OpenFds, UplinkP!OpenFds,
       Uplink!shared, UplinkP!shared, Uplink!task, UplinkP!task
<1> QED BY <1>1, <1>2, <1>3 DEF UplinkP!LinkStep, Uplink!LinkStep

LEMMA SameSpec ==
    /\ UplinkP!Init <=> Uplink!Init
    /\ UplinkP!Next <=> Uplink!Next
    /\ UNCHANGED UplinkP!vars <=> UNCHANGED Uplink!vars
<1>1. UplinkP!Init <=> Uplink!Init
  BY DEF UplinkP!Init, Uplink!Init, UplinkP!NoFd, Uplink!NoFd
<1>2. UplinkP!Next <=> Uplink!Next
  BY SameSteps DEF UplinkP!Next, Uplink!Next,
       Uplink!HubsChange, UplinkP!HubsChange, Uplink!WifiChanges, UplinkP!WifiChanges,
       Uplink!wifi, UplinkP!wifi, Uplink!shared, UplinkP!shared,
       Uplink!task, UplinkP!task, Uplink!stack, UplinkP!stack
<1>3. UNCHANGED UplinkP!vars <=> UNCHANGED Uplink!vars
  BY DEF Uplink!vars, UplinkP!vars, Uplink!wifi, UplinkP!wifi,
       Uplink!shared, UplinkP!shared, Uplink!task, UplinkP!task,
       Uplink!stack, UplinkP!stack
<1> QED BY <1>1, <1>2, <1>3

\* What the station does is a change of Wi-Fi to the uplink; the probe and the
\* starts are nothing to it.
LEMMA NodeRefinesUplink ==
    ASSUME IInv', [NodeNext]_node_vars PROVE [Uplink!Next]_(Uplink!vars)
<1> USE DEF Uplink!vars, Uplink!wifi, Uplink!shared, Uplink!task, Uplink!stack
<1>1. CASE WifiStep
  <2>1. UNCHANGED <<listening, s_attached, s_fd, s_hub_ip, upc, fd, cands, peer, gone, ports, notices>>
    BY <1>1 DEF WifiStep, net, uplink_vars
  <2>2. s_ip' \in Addrs \cup {NoIp} /\ (s_state = "CONNECTED")' \in BOOLEAN
    BY DEF IInv, TypeOK
  <2>3. Uplink!WifiChanges
    BY <2>2 DEF Uplink!WifiChanges
  <2> QED BY <2>1, <2>3 DEF Uplink!Next
<1>2. CASE UplinkStep
  <2>1. Uplink!LinkStep /\ UNCHANGED <<s_state, s_ip, listening>>
    BY <1>2 DEF UplinkStep, vars, published, net
  <2> QED BY <2>1 DEF Uplink!Next
<1>3. CASE NetworkStep
  <2>1. /\ listening' \in SUBSET Hubs /\ UNCHANGED <<s_state, s_ip>>
        /\ UNCHANGED <<s_attached, s_fd, s_hub_ip, upc, fd, cands, peer, gone, ports, notices>>
    BY <1>3 DEF NetworkStep, vars, published, uplink_vars
  <2> QED BY <2>1 DEF Uplink!Next, Uplink!HubsChange
<1>4. CASE lcc_uplink_start \/ svc_reach_start \/ ReachStep \/ UNCHANGED node_vars
  <2>1. /\ UNCHANGED <<s_state, s_ip, listening>>
        /\ UNCHANGED <<s_attached, s_fd, s_hub_ip, upc, fd, cands, peer, gone, ports, notices>>
    BY <1>4 DEF lcc_uplink_start, svc_reach_start, ReachStep, node_vars, vars, published, net, uplink_vars
  <2> QED BY <2>1
<1> QED BY <1>1, <1>2, <1>3, <1>4 DEF NodeNext

LEMMA NodeInitUplink == NodeInit => Uplink!Init
<1> SUFFICES ASSUME NodeInit PROVE Uplink!Init
  OBVIOUS
<1>1. (s_state = "CONNECTED") \in BOOLEAN /\ s_ip \in Addrs \cup {NoIp}
  BY DEF NodeInit, Init
<1> QED BY <1>1 DEF NodeInit, Uplink!Init, Uplink!NoFd

\* The uplink in the node is the one of LccUplink, with the station as its Wi-Fi.
THEOREM ImplementsUplink == NodeSpec => Uplink!Spec
<1>1. NodeSpec => []IInv
  BY ImplementsStation, Invariance, PTL
<1>2. IInv' /\ [NodeNext]_node_vars => [Uplink!Next]_(Uplink!vars)
  BY NodeRefinesUplink
<1> QED BY <1>1, <1>2, NodeInitUplink, PTL DEF NodeSpec, Uplink!Spec

LEMMA NodeUplinkInv == NodeSpec => []UplinkP!IInv
<1>1. NodeInit => UplinkP!IInv
  BY NodeInitUplink, SameSpec, UplinkFacts
<1>2. UplinkP!IInv /\ [Uplink!Next]_(Uplink!vars) => UplinkP!IInv'
  BY SameSpec, UplinkFacts
<1> QED BY <1>1, <1>2, ImplementsUplink, PTL DEF NodeSpec, Uplink!Spec

LEMMA ImplementsUplinkP == NodeSpec => UplinkP!Spec
<1>1. UplinkP!Spec <=> UplinkP!Init /\ [][UplinkP!Next]_(UplinkP!vars)
  BY DEF UplinkP!Spec
<1>2. /\ Uplink!Init => UplinkP!Init
      /\ [Uplink!Next]_(Uplink!vars) => [UplinkP!Next]_(UplinkP!vars)
  BY SameSpec
<1> QED BY <1>1, <1>2, ImplementsUplink, PTL DEF Uplink!Spec

\* What is proved of the uplink alone holds of the uplink in the node: one socket,
\* no close goes unnoticed, the address names the peer, and an attached node
\* never changes hub without being seen detached (uplink_task).
THEOREM UplinkKeepsPromises ==
    NodeSpec => /\ [](UplinkP!OneSocket /\ UplinkP!CloseIsNoticed /\ UplinkP!HubIpNamesPeer)
                /\ UplinkP!LinkPromise
<1>1. /\ UplinkP!Spec => []UplinkP!OneSocket
      /\ UplinkP!Spec => []UplinkP!CloseIsNoticed
      /\ UplinkP!Spec => []UplinkP!HubIpNamesPeer
  BY UplinkP!OneSocketOnly, UplinkP!ClosesReachTheTask, UplinkP!AddressNamesPeer,
     NodeAssumption, WifiStaAssumption DEF UplinkP!Hosts
<1>2. UplinkP!Spec => UplinkP!LinkPromise
  BY UplinkP!ImplementsHubLink, NodeAssumption, WifiStaAssumption DEF UplinkP!Hosts
<1> QED BY <1>1, <1>2, ImplementsUplinkP, PTL

-----------------------------------------------------------------------------
(* The probe in the node.                                                  *)

\* The probe finds the address of a hub whenever it finds the uplink attached.
LEMMA ShowsHub ==
    UplinkP!IInv' => /\ s_hub_ip' \in Hubs \cup {NoIp} /\ s_attached' \in BOOLEAN
                     /\ s_fd' # -1 => s_hub_ip' # NoIp
<1> SUFFICES ASSUME UplinkP!IInv'
             PROVE  /\ s_hub_ip' \in Hubs \cup {NoIp} /\ s_attached' \in BOOLEAN
                    /\ s_fd' # -1 => s_hub_ip' # NoIp
  OBVIOUS
<1>1. s_hub_ip' \in Hubs \cup {NoIp} /\ s_attached' \in BOOLEAN
  BY DEF UplinkP!IInv, UplinkP!TypeOK
<1>2. s_fd' # -1 => s_hub_ip' \in Hubs
  BY DEF UplinkP!IInv, UplinkP!NoLink, UplinkP!InHand, UplinkP!Served, UplinkP!Closing,
         UplinkP!Socket, UplinkP!NoFd
<1>3. NoIp \notin Hubs
  BY NodeAssumption
<1> QED BY <1>1, <1>2, <1>3

LEMMA NodeRefinesReach ==
    ASSUME UplinkP!IInv', [NodeNext]_node_vars PROVE [Reach!Next]_(Reach!vars)
<1> USE DEF Reach!vars, Reach!inputs, Reach!net, Reach!task
<1>1. CASE WifiStep \/ UplinkStep
  <2>1. UNCHANGED <<web, listening, ppc, hosts, up, jmri_icon, lcc_icon>>
    BY <1>1 DEF WifiStep, UplinkStep, net, reach_vars
  <2>2. Reach!UplinkShows(Uplink!Attached', s_hub_ip') /\ (s_state = "CONNECTED")' \in BOOLEAN
    <3>1. /\ s_hub_ip' \in Hubs \cup {NoIp} /\ s_attached' \in BOOLEAN
          /\ s_fd' # -1 => s_hub_ip' # NoIp
      BY ShowsHub
    <3> QED BY <3>1 DEF Reach!UplinkShows, Uplink!Attached, Uplink!NoFd
  <2>3. Uplink!Attached' \in BOOLEAN /\ s_hub_ip' \in Hubs \cup {NoIp}
    BY <2>2 DEF Reach!UplinkShows
  <2>4. Reach!InputsChange
    BY <2>1, <2>2, <2>3 DEF Reach!InputsChange
  <2> QED BY <2>4 DEF Reach!Next
<1>2. CASE ReachStep
  <2>1. Reach!ProbeStep /\ UNCHANGED <<s_state, s_attached, s_fd, s_hub_ip, web, listening>>
    BY <1>2 DEF ReachStep, vars, published, net, uplink_vars
  <2> QED BY <2>1 DEF Reach!Next, Uplink!Attached, Uplink!NoFd
<1>3. CASE NetworkStep
  <2>1. /\ listening' \in SUBSET Hubs /\ web' \in SUBSET Hubs
        /\ UNCHANGED <<s_state, s_attached, s_fd, s_hub_ip, ppc, hosts, up, jmri_icon, lcc_icon>>
    BY <1>3 DEF NetworkStep, vars, published, uplink_vars, reach_vars
  <2> QED BY <2>1 DEF Reach!Next, Reach!ServersChange, Uplink!Attached, Uplink!NoFd
<1>4. CASE lcc_uplink_start \/ svc_reach_start \/ UNCHANGED node_vars
  <2>1. UNCHANGED <<s_state, s_attached, s_fd, s_hub_ip, web, listening, ppc, hosts, up, jmri_icon, lcc_icon>>
    BY <1>4 DEF lcc_uplink_start, svc_reach_start, node_vars, vars, published, net, uplink_vars,
                reach_vars
  <2> QED BY <2>1 DEF Uplink!Attached, Uplink!NoFd
<1> QED BY <1>1, <1>2, <1>3, <1>4 DEF NodeNext

\* The probe in the node is the one of SvcReach, with the station and the uplink
\* as its inputs: an attached uplink always shows it the address of a hub.
THEOREM ImplementsReach == NodeSpec => Reach!Spec
<1>1. NodeInit => Reach!Init
  <2> SUFFICES ASSUME NodeInit PROVE Reach!Init
    OBVIOUS
  <2>1. Uplink!Attached = FALSE /\ s_hub_ip = NoIp /\ (s_state = "CONNECTED") \in BOOLEAN
    BY DEF NodeInit, Uplink!Attached
  <2>2. Reach!UplinkShows(Uplink!Attached, s_hub_ip)
    BY <2>1 DEF Reach!UplinkShows
  <2> QED BY <2>1, <2>2 DEF NodeInit, Reach!Init
<1>2. UplinkP!IInv' /\ [NodeNext]_node_vars => [Reach!Next]_(Reach!vars)
  BY NodeRefinesReach
<1> QED BY <1>1, <1>2, NodeUplinkInv, PTL DEF NodeSpec, Reach!Spec

-----------------------------------------------------------------------------
\* The probe of Node once more, with what is proved about it.
ReachP == INSTANCE SvcReachProofs WITH
              connected <- (s_state = "CONNECTED"), attached <- Uplink!Attached,
              hub_ip <- s_hub_ip, Hosts <- Hubs, None <- NoIp, lcc <- listening

LEMMA SameProbe ==
    /\ ReachP!Init <=> Reach!Init
    /\ ReachP!ProbeStep <=> Reach!ProbeStep
    /\ [Reach!Next]_(Reach!vars) => [ReachP!Next]_(ReachP!vars)
    /\ ReachP!TypeOK <=> Reach!TypeOK
<1> USE DEF Reach!vars, ReachP!vars, Reach!inputs, ReachP!inputs, Reach!net, ReachP!net,
            Reach!task, ReachP!task, Reach!UplinkShows, ReachP!UplinkShows
<1>1. ReachP!Init <=> Reach!Init
  BY DEF ReachP!Init, Reach!Init
<1>2. \A ip : ReachP!svc_reach_web_hosts(ip, MONITOR) = Reach!svc_reach_web_hosts(ip, MONITOR)
  BY DEF ReachP!svc_reach_web_hosts, Reach!svc_reach_web_hosts, ReachP!svc_reach_host_usable,
         Reach!svc_reach_host_usable
<1>3. ReachP!ProbeStep <=> Reach!ProbeStep
  <2>1. /\ ReachP!StartOff <=> Reach!StartOff
        /\ ReachP!CheckWifi <=> Reach!CheckWifi
        /\ ReachP!PaintDown <=> Reach!PaintDown
        /\ ReachP!PickWebHosts <=> Reach!PickWebHosts
    BY <1>2 DEF ReachP!StartOff, Reach!StartOff, ReachP!CheckWifi, Reach!CheckWifi,
           ReachP!PaintDown, Reach!PaintDown, ReachP!PickWebHosts, Reach!PickWebHosts,
           ReachP!Goto, Reach!Goto
  <2>2. /\ ReachP!ProbeWeb <=> Reach!ProbeWeb
        /\ ReachP!PaintJmri <=> Reach!PaintJmri
        /\ ReachP!ProbeLcc <=> Reach!ProbeLcc
    BY DEF ReachP!ProbeWeb, Reach!ProbeWeb, ReachP!PaintJmri, Reach!PaintJmri,
           ReachP!ProbeLcc, Reach!ProbeLcc, ReachP!Goto, Reach!Goto, ReachP!Paint, Reach!Paint,
           ReachP!tcp_is_open, Reach!tcp_is_open
  <2>3. /\ ReachP!AskUplink <=> Reach!AskUplink
        /\ ReachP!PaintLcc <=> Reach!PaintLcc
    BY DEF ReachP!AskUplink, Reach!AskUplink, ReachP!PaintLcc, Reach!PaintLcc, ReachP!Goto,
           Reach!Goto, ReachP!Paint, Reach!Paint, ReachP!svc_reach_lcc_icon_ok,
           Reach!svc_reach_lcc_icon_ok
  <2> QED BY <2>1, <2>2, <2>3 DEF ReachP!ProbeStep, Reach!ProbeStep
<1>4. [Reach!Next]_(Reach!vars) => [ReachP!Next]_(ReachP!vars)
  <2>1. ReachP!InputsChange <=> Reach!InputsChange
    BY DEF ReachP!InputsChange, Reach!InputsChange
  <2>2. ReachP!ServersChange <=> Reach!ServersChange
    BY DEF ReachP!ServersChange, Reach!ServersChange
  <2> QED BY <1>3, <2>1, <2>2 DEF ReachP!Next, Reach!Next
<1>5. ReachP!TypeOK <=> Reach!TypeOK
  BY DEF ReachP!TypeOK, Reach!TypeOK, ReachP!Labels, Reach!Labels, ReachP!Icons, Reach!Icons
<1> QED BY <1>1, <1>3, <1>4, <1>5

LEMMA ImplementsReachP == NodeSpec => ReachP!Spec
<1>1. ReachP!Spec <=> ReachP!Init /\ [][ReachP!Next]_(ReachP!vars)
  BY DEF ReachP!Spec
<1>2. /\ Reach!Init => ReachP!Init
      /\ [Reach!Next]_(Reach!vars) => [ReachP!Next]_(ReachP!vars)
  BY SameProbe
<1> QED BY <1>1, <1>2, ImplementsReach, PTL DEF Reach!Spec

\* In the node too, the hosts a round asks for the JMRI web server are usable, and
\* at most two: the copied hub address and the monitor host pass the same test
\* (svc_reach_web_hosts).
THEOREM WebHostsUsableInNode == NodeSpec => []Reach!TypeOK
<1>1. ReachP!Spec => []ReachP!TypeOK
  BY ReachP!TypeCorrect, NodeAssumption DEF ReachP!Spec
<1>2. ReachP!TypeOK => Reach!TypeOK
  BY SameProbe
<1> QED BY <1>1, <1>2, ImplementsReachP, PTL

-----------------------------------------------------------------------------
(* What comes of the tasks running beside each other.  As in the parts,    *)
(* each condition of NodeFairness is stated with its guard written out:    *)
(* what is needed of a task is only that it runs while it has a step.      *)

TaskAlone == uplink_started /\ UNCHANGED <<vars, started, net, reach_vars>> /\ Uplink!UplinkStep
ExecAlone == uplink_started /\ UNCHANGED <<vars, started, net, reach_vars>> /\ Uplink!ExecutorStep

EventLoopRuns == []<>(phase = "idle" /\ queue = <<>>) \/ []<><<Alone(HandlerStep)>>_node_vars
RadioAnswers  == []<>~(radio = "joining") \/ []<><<Alone(JoinEnds)>>_node_vars
UplinkTaskRuns == []<>~uplink_started \/ []<><<TaskAlone>>_node_vars
ExecutorRuns ==
    []<>(ports \cap gone = {} /\ notices = 0) \/ []<><<ExecAlone>>_node_vars
ProbeTaskRuns == []<>~reach_started \/ []<><<ReachStep>>_node_vars

\* The station in the node comes to an answer, or waits for ever for the address
\* of a network it has joined, as it does alone.
THEOREM StationAnswers ==
    NodeSpec /\ EventLoopRuns /\ RadioAnswers /\ kMaxRetries <= 8 => SettlesAgain
<1> DEFINE Quiescent == phase = "idle" /\ queue = <<>>
           Joining == radio = "joining"
<1>1. /\ <<Alone(HandlerStep)>>_node_vars => <<HandlerStep>>_vars
      /\ <<Alone(JoinEnds)>>_node_vars => <<JoinEnds>>_vars
  BY DEF Alone, node_vars
<1>2. EventLoopRuns <=> ([]<>Quiescent \/ []<><<Alone(HandlerStep)>>_node_vars)
  BY DEF EventLoopRuns
<1>3. RadioAnswers <=> ([]<>~Joining \/ []<><<Alone(JoinEnds)>>_node_vars)
  BY DEF RadioAnswers
<1>4. /\ HandlerRuns <=> ([]<>Quiescent \/ []<><<HandlerStep>>_vars)
      /\ AttemptsEnd <=> ([]<>~Joining \/ []<><<JoinEnds>>_vars)
  BY DEF HandlerRuns, AttemptsEnd
<1> HIDE DEF Quiescent, Joining
<1>5. EventLoopRuns /\ RadioAnswers => StationRuns
  BY <1>1, <1>2, <1>3, <1>4, PTL DEF StationRuns
<1>6. NodeSpec /\ EventLoopRuns /\ RadioAnswers => Spec /\ StationRuns
  BY <1>5, ImplementsStation
<1> QED BY <1>6, ComesToAnAnswer

-----------------------------------------------------------------------------
\* Starts are for good, and a node that is not started runs nothing.
Sequenced ==
    /\ ~uplink_started => s_attached = FALSE /\ ports = {} /\ notices = 0
    /\ reach_started => uplink_started

LEMMA SequencedKept ==
    Sequenced /\ [NodeNext]_node_vars =>
        /\ Sequenced'
        /\ uplink_started => uplink_started'
        /\ reach_started => reach_started'
BY DEF Sequenced, NodeNext, WifiStep, lcc_uplink_start, svc_reach_start, UplinkStep, ReachStep,
       NetworkStep, node_vars, started, uplink_vars

LEMMA SequencedInvariance == NodeSpec => []Sequenced
<1>1. NodeInit => Sequenced
  BY DEF NodeInit, Sequenced
<1> QED BY <1>1, SequencedKept, PTL DEF NodeSpec

LEMMA AloneIsUplink ==
    /\ <<TaskAlone>>_node_vars => <<UplinkP!TaskStep>>_(UplinkP!vars)
    /\ <<ExecAlone>>_node_vars => <<UplinkP!StackStep>>_(UplinkP!vars)
<1>1. /\ UplinkP!UplinkStep <=> Uplink!UplinkStep
      /\ UplinkP!ExecutorStep <=> Uplink!ExecutorStep
  BY SameSteps
<1>2. UNCHANGED <<vars, started, net, reach_vars>> =>
          /\ UNCHANGED <<UplinkP!wifi, listening>>
          /\ node_vars' # node_vars => UplinkP!vars' # UplinkP!vars
  BY DEF vars, published, net, node_vars, uplink_vars, UplinkP!vars, UplinkP!wifi, UplinkP!shared,
         UplinkP!task, UplinkP!stack
<1> QED BY <1>1, <1>2 DEF TaskAlone, ExecAlone, UplinkP!TaskStep, UplinkP!StackStep

\* In the node too, a link whose hub hung up does not look attached for ever
\* (lcc_uplink_is_attached).
THEOREM LossIsNoticedInNode ==
    NodeSpec /\ UplinkTaskRuns /\ ExecutorRuns => UplinkP!LossNoticed
<1> DEFINE NoClose == ports \cap gone = {} /\ notices = 0
           Lost == UplinkP!Attached /\ s_fd \notin UplinkP!OpenFds \ gone
           Att == UplinkP!Attached
<1>1. Sequenced /\ ~uplink_started => ~Att
  BY DEF Sequenced, UplinkP!Attached
<1>2. ExecutorRuns <=> ([]<>NoClose \/ []<><<ExecAlone>>_node_vars)
  BY DEF ExecutorRuns
<1>3. UplinkP!StackRuns <=> ([]<>NoClose \/ []<><<UplinkP!StackStep>>_(UplinkP!vars))
  BY DEF UplinkP!StackRuns
<1>4. UplinkP!TaskRuns <=> []<><<UplinkP!TaskStep>>_(UplinkP!vars)
  BY DEF UplinkP!TaskRuns
<1>5. UplinkP!LossNoticed <=> (Lost ~> ~Att)
  BY DEF UplinkP!LossNoticed
<1>6. UplinkP!Spec /\ UplinkP!TaskRuns /\ UplinkP!StackRuns => UplinkP!LossNoticed
  BY UplinkP!LossIsNoticed, NodeAssumption, WifiStaAssumption DEF UplinkP!Hosts
<1> HIDE DEF NoClose, Lost, Att
<1> QED BY <1>1, <1>2, <1>3, <1>4, <1>5, <1>6, AloneIsUplink, ImplementsUplinkP,
           SequencedInvariance, SequencedKept, PTL DEF NodeSpec, UplinkTaskRuns

-----------------------------------------------------------------------------
\* While the link is up, what waits for the handler is an address, and once the
\* handler has published CONNECTED it stays published.
GotAddress == radio = "up" /\ phase = "set" /\ todo = "gotip"
OnAir      == radio = "up" /\ s_state = "CONNECTED" /\ todo = "gotip"
ToGet      == radio = "up" /\ phase = "idle" /\ queue # <<>> /\ Head(queue).id = "GOT_IP"

LEMMA UpPlaces == IInv /\ radio = "up" => GotAddress \/ OnAir \/ ToGet
<1> SUFFICES ASSUME IInv, radio = "up" PROVE GotAddress \/ OnAir \/ ToGet
  OBVIOUS
<1>1. CASE todo = "gotip"
  BY <1>1 DEF IInv, PublishedByPhase, StateFor, GotAddress, OnAir
<1>2. CASE todo # "gotip"
  <2>1. phase = "idle" /\ queue # <<>> /\ queue \in Seq(Events)
    BY <1>2 DEF IInv, TypeOK, AddressFollows
  <2>2. 1 \in 1 .. Len(queue) /\ Head(queue) = queue[1]
    BY <2>1, TakeFacts
  <2>3. queue[1].id = "GOT_IP"
    BY <2>2 DEF IInv, QueueShape
  <2> QED BY <2>1, <2>2, <2>3 DEF ToGet
<1> QED BY <1>1, <1>2

LEMMA UpSteps ==
    ASSUME IInv, [Next]_vars, radio' = "up"
    PROVE  /\ GotAddress => GotAddress' \/ OnAir'
           /\ OnAir => OnAir'
           /\ HandlerStep => (ToGet => GotAddress') /\ (GotAddress => OnAir')
<1>1. ASSUME HandlerStep PROVE (ToGet => GotAddress') /\ (GotAddress => OnAir') /\ (OnAir => OnAir')
  <2> USE DEF HandlerStep, OnStart, OnDisconnected, OnGotIp, Take, Begin, SetState, DrawIcon,
              Reconnect, SignalBits
  <2>1. ASSUME ToGet PROVE GotAddress'
    BY <1>1, <2>1 DEF ToGet, GotAddress
  <2>2. ASSUME GotAddress PROVE OnAir'
    BY <1>1, <2>2 DEF GotAddress, OnAir, StateFor
  <2>3. ASSUME OnAir PROVE OnAir'
    <3>1. phase = "idle" /\ queue # <<>> => Head(queue).id = "GOT_IP"
      BY <2>3, TakeFacts DEF IInv, TypeOK, QueueShape, OnAir
    <3> QED BY <1>1, <2>3, <3>1 DEF OnAir, StateFor, published
  <2> QED BY <2>1, <2>2, <2>3
<1>2. ASSUME ~HandlerStep, radio = "up" PROVE UNCHANGED <<s_state, phase, todo>>
  <2>1. s_state # "IDLE"
    BY <1>2 DEF IInv, Quiet
  <2>2. UNCHANGED published \/ wifi_sta_wait
    BY <1>2, <2>1 DEF Next, vars, wifi_sta_start, Environment, JoinEnds, JoinOk, JoinFails, Lease,
                      Renew, LeaseExpires, LinkLost
  <2> QED BY <1>2, <2>1 DEF Next, vars, wifi_sta_start, wifi_sta_wait, WaitBits, WaitStatus, Environment, JoinEnds, JoinOk,
             JoinFails, Lease, Renew, LeaseExpires, LinkLost, published, handler
<1> QED BY <1>1, <1>2 DEF GotAddress, OnAir, ToGet

\* A link that stays up is published and stays published.
LEMMA UpIsPublished ==
    NodeSpec /\ EventLoopRuns => (<>[](radio = "up") => <>[](s_state = "CONNECTED"))
<1> DEFINE Quiescent == phase = "idle" /\ queue = <<>>
           RadioUp == radio = "up"
           Linked == s_state = "CONNECTED"
<1>1. IInv /\ RadioUp => GotAddress \/ OnAir \/ ToGet
  BY UpPlaces
<1>2. IInv /\ [NodeNext]_node_vars /\ RadioUp' =>
          /\ GotAddress => GotAddress' \/ OnAir'
          /\ OnAir => OnAir'
          /\ <<Alone(HandlerStep)>>_node_vars => (ToGet => GotAddress') /\ (GotAddress => OnAir')
  BY UpSteps, NodeRefinesStation DEF Alone
<1>3. /\ ToGet \/ GotAddress => ~Quiescent
      /\ OnAir => Linked
  BY DEF ToGet, GotAddress, OnAir
<1>4. EventLoopRuns <=> ([]<>Quiescent \/ []<><<Alone(HandlerStep)>>_node_vars)
  BY DEF EventLoopRuns
<1>5. NodeSpec => []IInv
  BY ImplementsStation, Invariance, PTL
<1> HIDE DEF Quiescent, RadioUp, Linked
<1>6. NodeSpec /\ EventLoopRuns => (<>[]RadioUp => <>[]Linked)
  BY <1>1, <1>2, <1>3, <1>4, <1>5, PTL DEF NodeSpec
<1> QED BY <1>6 DEF RadioUp, Linked

\* The node is attached again and again as long as the link is up and HOST2
\* accepts, whatever the station and the uplink went through before.
THEOREM ComesBackAgain ==
    NodeSpec /\ EventLoopRuns /\ UplinkTaskRuns /\ Fds # {} /\ MaxAddrs <= UplinkP!Memory
        => ComesBack
<1> SUFFICES ASSUME Fds # {}, MaxAddrs <= UplinkP!Memory
             PROVE  NodeSpec /\ EventLoopRuns /\ UplinkTaskRuns => ComesBack
  OBVIOUS
<1> DEFINE RadioUp == radio = "up"
           Linked == s_state = "CONNECTED"
           Accepts == HOST2 \in listening
           Att == UplinkP!Attached
<1>1. UplinkP!Spec /\ UplinkP!TaskRuns => UplinkP!Reattaches
  BY UplinkP!AttachesAgain, NodeAssumption, WifiStaAssumption DEF UplinkP!Hosts
<1>2. UplinkP!Reattaches <=> (<>[](Linked /\ Accepts) => []<>Att)
  BY DEF UplinkP!Reattaches
<1>3. UplinkP!TaskRuns <=> []<><<UplinkP!TaskStep>>_(UplinkP!vars)
  BY DEF UplinkP!TaskRuns
<1>4. Uplink!Attached <=> Att
  BY DEF Uplink!Attached, UplinkP!Attached, Uplink!NoFd, UplinkP!NoFd
<1>5. ComesBack <=> (<>[](uplink_started /\ RadioUp /\ Accepts) => []<>Uplink!Attached)
  BY DEF ComesBack
<1>6. NodeSpec /\ EventLoopRuns => (<>[]RadioUp => <>[]Linked)
  BY UpIsPublished
<1> HIDE DEF RadioUp, Linked, Accepts, Att
<1> QED BY <1>1, <1>2, <1>3, <1>4, <1>5, <1>6, AloneIsUplink, ImplementsUplinkP, PTL
        DEF UplinkTaskRuns

-----------------------------------------------------------------------------
LEMMA AloneIsProbe == <<ReachStep>>_node_vars => <<ReachP!Round>>_(ReachP!vars)
<1> SUFFICES ASSUME <<ReachStep>>_node_vars PROVE <<ReachP!Round>>_(ReachP!vars)
  OBVIOUS
<1>1. ReachP!ProbeStep /\ UNCHANGED <<vars, started, net, uplink_vars>>
  BY SameProbe DEF ReachStep
<1>2. UNCHANGED <<s_state, s_attached, s_fd, s_hub_ip, web, listening>>
  BY <1>1 DEF vars, published, net, uplink_vars
<1>3. UNCHANGED <<ReachP!inputs, ReachP!net>>
  BY <1>2 DEF ReachP!inputs, ReachP!net, Uplink!Attached, Uplink!NoFd
<1>4. ReachP!vars' # ReachP!vars
  BY <1>1 DEF node_vars, reach_vars, ReachP!vars, ReachP!task
<1> QED BY <1>1, <1>3, <1>4 DEF ReachP!Round

LEMMA StartedProbeRuns ==
    NodeSpec /\ ProbeTaskRuns /\ <>reach_started => ReachP!Spec /\ ReachP!ProbeRuns
<1>1. ReachP!ProbeRuns <=> []<><<ReachP!Round>>_(ReachP!vars)
  BY DEF ReachP!ProbeRuns
<1> QED BY <1>1, AloneIsProbe, ImplementsReachP, SequencedInvariance, SequencedKept, PTL
        DEF NodeSpec, ProbeTaskRuns

\* Once started, the icons of the node come to show the truth about Wi-Fi, the
\* uplink and the servers, as those of the probe alone do (probe_task).
THEOREM ProbeKeepsPromises ==
    NodeSpec /\ ProbeTaskRuns /\ <>reach_started =>
        /\ ReachP!DownShowsFail /\ ReachP!AttachedShowsOk
        /\ ReachP!HubWebShowsOk /\ ReachP!NothingShowsFail
<1>1. /\ ReachP!Spec /\ ReachP!ProbeRuns => ReachP!DownShowsFail
      /\ ReachP!Spec /\ ReachP!ProbeRuns => ReachP!AttachedShowsOk
      /\ ReachP!Spec /\ ReachP!ProbeRuns => ReachP!HubWebShowsOk
      /\ ReachP!Spec /\ ReachP!ProbeRuns => ReachP!NothingShowsFail
  BY ReachP!DownEndsRed, ReachP!AttachedEndsGreen, ReachP!HubWebEndsGreen, ReachP!NothingEndsRed,
     NodeAssumption
<1> QED BY <1>1, StartedProbeRuns

-----------------------------------------------------------------------------
\* A station that gave up has drawn, or is about to draw, its red icon.
GivenUp == s_state = "FAILED" /\ phase = "draw"
Drawn   == s_state = "FAILED" /\ phase \in {"end", "idle"} /\ icon = "FAIL"

LEMMA GivenUpPlaces == IInv /\ s_state = "FAILED" => GivenUp \/ Drawn
<1> SUFFICES ASSUME IInv, s_state = "FAILED", phase # "draw" PROVE Drawn
  BY DEF GivenUp
<1>1. todo = "fail" /\ phase \in {"end", "idle"}
  BY DEF IInv, TypeOK, BudgetSpent
<1>2. radio # "off"
  BY DEF IInv, Quiet
<1> QED BY <1>1, <1>2 DEF IInv, PublishedByPhase, StateFor, IconOf, Drawn

LEMMA GivenUpSteps ==
    ASSUME IInv, [Next]_vars, s_state' = "FAILED"
    PROVE  /\ Drawn => Drawn'
           /\ HandlerStep => (GivenUp => Drawn')
<1>1. s_state = "FAILED" => todo = "fail" /\ queue = <<>>
  BY DEF IInv, BudgetSpent
<1>2. ASSUME Drawn PROVE phase' \in {"end", "idle"} /\ icon' = icon
  BY <1>1, <1>2 DEF Drawn, Next, HandlerStep, OnStart, OnDisconnected, OnGotIp, Take, SetState,
         DrawIcon, Reconnect, SignalBits, wifi_sta_start, wifi_sta_wait, WaitBits, WaitStatus, Environment, JoinEnds, JoinOk,
         JoinFails, Lease, Renew, LeaseExpires, LinkLost, vars, published, handler
<1>3. ASSUME GivenUp, HandlerStep PROVE phase' = "end" /\ icon' = "FAIL"
  BY <1>1, <1>3 DEF GivenUp, HandlerStep, OnStart, OnDisconnected, OnGotIp, Take, SetState,
         DrawIcon, Reconnect, SignalBits, IconOf, StateFor
<1> QED BY <1>2, <1>3 DEF Drawn

\* After the station gave up, all three icons end up red and stay red, whatever
\* round of the probe was under way and whatever the uplink still holds.
THEOREM GivenUpEndsRed ==
    NodeSpec /\ EventLoopRuns /\ ProbeTaskRuns => GivenUpShowsRed
<1> DEFINE Failed == s_state = "FAILED"
           Linked == s_state = "CONNECTED"
           Quiescent == phase = "idle" /\ queue = <<>>
           Red == icon = "FAIL"
           RedJ == jmri_icon = "FAIL"
           RedL == lcc_icon = "FAIL"
<1>1. IInv /\ Failed => GivenUp \/ Drawn
  BY GivenUpPlaces
<1>2. IInv /\ [NodeNext]_node_vars /\ Failed' =>
          /\ Drawn => Drawn'
          /\ <<Alone(HandlerStep)>>_node_vars => (GivenUp => Drawn')
  BY GivenUpSteps, NodeRefinesStation DEF Alone
<1>3. /\ GivenUp => ~Quiescent
      /\ Drawn => Red
      /\ Failed => ~Linked
  BY DEF GivenUp, Drawn
<1>4. EventLoopRuns <=> ([]<>Quiescent \/ []<><<Alone(HandlerStep)>>_node_vars)
  BY DEF EventLoopRuns
<1>5. [s_state = "FAILED" => s_state' = "FAILED" /\ radio' = radio]_vars => (Failed => Failed')
  BY DEF vars, published
<1>6. NodeSpec => [](Failed => []Failed)
  BY <1>5, ImplementsStation, GivenUpForGood, PTL DEF GiveUpIsFinal
<1>7. ReachP!DownShowsFail <=> (<>[]~Linked => <>[](RedJ /\ RedL))
  BY DEF ReachP!DownShowsFail
<1>8. GivenUpShowsRed <=> (<>(Failed /\ reach_started) => <>[](Red /\ RedJ /\ RedL))
  BY DEF GivenUpShowsRed
<1>9. NodeSpec => []IInv
  BY ImplementsStation, Invariance, PTL
<1>10. NodeSpec /\ ProbeTaskRuns /\ <>reach_started => ReachP!DownShowsFail
  BY ProbeKeepsPromises
<1> HIDE DEF Failed, Linked, Quiescent, Red, RedJ, RedL
<1> QED BY <1>1, <1>2, <1>3, <1>4, <1>6, <1>7, <1>8, <1>9, <1>10, PTL DEF NodeSpec
=============================================================================
