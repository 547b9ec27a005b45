----------------------------- MODULE LccUplink -----------------------------
(***************************************************************************)
(* The TCP uplink to the JMRI hub of main/lcc_uplink.cpp.  uplink_task     *)
(* polls: it notices a closed port, and while detached and on Wi-Fi it     *)
(* tries the hubs mDNS lists, then the two configured hosts, publishes the *)
(* socket and hands it to OpenMRN as a GridConnect port.  OpenMRN's        *)
(* executor (external) closes a port whose peer is gone and then notifies  *)
(* s_closed, which stores -1 in s_fd.  Both tasks share s_attached, s_fd   *)
(* and s_hub_ip without a lock, so every access is a step of its own.      *)
(***************************************************************************)
EXTENDS Integers, Sequences, FiniteSets

CONSTANTS Hubs,        \* addresses at which a hub may listen
          Unusable,    \* addresses hub_host_skip rejects by their prefix
          Selves,      \* addresses DHCP may give this node
          None,        \* the empty string: no address, no configured host
          HOST, HOST2, \* CONFIG_NODE_LCC_HUB_HOST and _HOST2
          Fds,         \* descriptors a socket may have
          MaxAddrs     \* bound: addresses in one mDNS answer, of all its results

Hosts == Hubs \cup Unusable \cup Selves

ASSUME LccUplinkAssumption ==
    /\ None \notin Hosts
    /\ Hubs \cap Unusable = {} /\ Hubs \cap Selves = {}
    /\ {HOST, HOST2} \subseteq Hosts \cup {None}
    /\ Fds \subseteq Nat
    /\ MaxAddrs \in Nat

VARIABLES connected,  \* wifi_sta_state() = WIFI_STA_CONNECTED
          self,       \* wifi_sta_ip()
          listening,  \* external: the hubs that accept a connection now
          s_attached, s_fd, s_hub_ip,
          upc,        \* where uplink_task is
          fd,         \* its local: the socket it just connected, or -1
          cands,      \* the hosts still to try in this round
          peer,       \* external: per open descriptor the host, else None
          gone,       \* external: open descriptors whose peer has closed
          ports,      \* external: descriptors OpenMRN runs a port on
          notices     \* external: close notifications not delivered yet

wifi   == <<connected, self>>
shared == <<s_attached, s_fd, s_hub_ip>>
task   == <<upc, fd, cands>>
stack  == <<peer, gone, ports, notices>>
vars   == <<wifi, listening, shared, task, stack>>

NoFd == -1
Attached == s_attached /\ s_fd # NoFd
OpenFds  == {f \in Fds : peer[f] # None}

Init ==
    /\ connected \in BOOLEAN /\ self \in Selves \cup {None} /\ listening \in SUBSET Hubs
    /\ s_attached = FALSE /\ s_fd = NoFd /\ s_hub_ip = None
    /\ upc = "notice" /\ fd = NoFd /\ cands = <<>>
    /\ peer = [f \in Fds |-> None] /\ gone = {} /\ ports = {} /\ notices = 0

-----------------------------------------------------------------------------
(* uplink_task.                                                            *)

Goto(l) == upc' = l

\* Mutant of NoticeClosed: the loss is logged, but s_attached stays set.
NoticeStaysAttached ==
    /\ upc = "notice"
    /\ \/ s_attached /\ s_fd = NoFd /\ Goto("clear")
       \/ ~(s_attached /\ s_fd = NoFd) /\ Goto("gate")
    /\ UNCHANGED <<shared, fd, cands, stack>>

\* Only uplink_task writes s_attached, so it tests both variables in one step.
NoticeClosed ==
    /\ upc = "notice"
    /\ \/ s_attached /\ s_fd = NoFd /\ s_attached' = FALSE /\ Goto("clear")
       \/ ~(s_attached /\ s_fd = NoFd) /\ UNCHANGED s_attached /\ Goto("gate")
    /\ UNCHANGED <<s_fd, s_hub_ip, fd, cands, stack>>

\* Mutant of ForgetHubIp: the address of the lost hub stays readable.
KeepHubIp ==
    /\ upc = "clear"
    /\ Goto("gate")
    /\ UNCHANGED <<shared, fd, cands, stack>>

ForgetHubIp ==
    /\ upc = "clear"
    /\ s_hub_ip' = None
    /\ Goto("gate")
    /\ UNCHANGED <<s_attached, s_fd, fd, cands, stack>>

\* Mutant of Gate: a round is begun although a hub is attached.
GateIgnoresAttached ==
    /\ upc = "gate"
    /\ IF connected THEN Goto("query") ELSE Goto("notice")
    /\ UNCHANGED <<shared, fd, cands, stack>>

\* The round is skipped while attached or off Wi-Fi; the task then sleeps for
\* five seconds, which is where "notice" starts again.
Gate ==
    /\ upc = "gate"
    /\ IF ~s_attached /\ connected THEN Goto("query") ELSE Goto("notice")
    /\ UNCHANGED <<shared, fd, cands, stack>>

\* The mDNS query takes up to three seconds and may find nothing.
QueryMdns ==
    /\ upc = "query"
    /\ \E found \in UNION {[1 .. n -> Hosts] : n \in 0 .. MaxAddrs} :
          cands' = found \o <<HOST, HOST2>>
    /\ Goto("try")
    /\ UNCHANGED <<shared, fd, stack>>

hub_host_skip(host) == host = None \/ host \in Unusable \/ host = self

SkipHost ==
    /\ upc = "try" /\ cands # <<>>
    /\ hub_host_skip(Head(cands))
    /\ cands' = Tail(cands)
    /\ UNCHANGED <<shared, upc, fd, stack>>

\* Mutant of ConnectFails: the address is stored before the result is known.
ConnectFailsStoresHost ==
    /\ upc = "try" /\ cands # <<>>
    /\ ~hub_host_skip(Head(cands))
    /\ Head(cands) \notin listening \/ ~connected \/ OpenFds = Fds
    /\ cands' = Tail(cands)
    /\ s_hub_ip' = Head(cands)
    /\ UNCHANGED <<s_attached, s_fd, upc, fd, stack>>

ConnectFails ==
    /\ upc = "try" /\ cands # <<>>
    /\ ~hub_host_skip(Head(cands))
    /\ Head(cands) \notin listening \/ ~connected \/ OpenFds = Fds
    /\ cands' = Tail(cands)
    /\ UNCHANGED <<shared, upc, fd, stack>>

ConnectSucceeds ==
    /\ upc = "try" /\ cands # <<>>
    /\ ~hub_host_skip(Head(cands))
    /\ Head(cands) \in listening /\ connected
    /\ \E f \in Fds \ OpenFds :
          /\ peer' = [peer EXCEPT ![f] = Head(cands)]
          /\ fd' = f
    /\ cands' = <<>>
    /\ s_hub_ip' = Head(cands)
    /\ Goto("attached")
    /\ UNCHANGED <<s_attached, s_fd, gone, ports, notices>>

NoHub ==
    /\ upc = "try" /\ cands = <<>>
    /\ Goto("notice")
    /\ UNCHANGED <<shared, fd, cands, stack>>

\* Mutant of AttachSocket: OpenMRN gets the socket before s_fd names it.
AttachSocketPortFirst ==
    /\ \/ upc = "attached" /\ Goto("publish") /\ s_attached' = TRUE
          /\ UNCHANGED <<s_fd, fd, ports>>
       \/ upc = "publish" /\ Goto("port") /\ ports' = ports \cup {fd}
          /\ UNCHANGED <<s_attached, s_fd, fd>>
       \/ upc = "port" /\ Goto("notice") /\ s_fd' = fd /\ fd' = NoFd
          /\ UNCHANGED <<s_attached, ports>>
    /\ UNCHANGED <<s_hub_ip, cands, peer, gone, notices>>

\* The three assignments of a successful round, in their order.
AttachSocket ==
    /\ \/ upc = "attached" /\ Goto("publish") /\ s_attached' = TRUE
          /\ UNCHANGED <<s_fd, fd, ports>>
       \/ upc = "publish" /\ Goto("port") /\ s_fd' = fd
          /\ UNCHANGED <<s_attached, fd, ports>>
       \/ upc = "port" /\ Goto("notice") /\ ports' = ports \cup {fd} /\ fd' = NoFd
          /\ UNCHANGED <<s_attached, s_fd>>
    /\ UNCHANGED <<s_hub_ip, cands, peer, gone, notices>>

UplinkStep ==
    \/ NoticeClosed \/ ForgetHubIp \/ Gate \/ QueryMdns
    \/ SkipHost \/ ConnectFails \/ ConnectSucceeds \/ NoHub
    \/ AttachSocket

-----------------------------------------------------------------------------
(* OpenMRN's executor (external).                                          *)

\* A port that reads the end of its stream closes the socket ...
ClosePort(f) ==
    /\ f \in ports \cap gone
    /\ ports' = ports \ {f} /\ gone' = gone \ {f}
    /\ peer' = [peer EXCEPT ![f] = None]
    /\ notices' = notices + 1
    /\ UNCHANGED <<shared, task>>

\* ... and then notifies s_closed, which forgets the descriptor.
Notify ==
    /\ notices > 0 /\ notices' = notices - 1
    /\ s_fd' = NoFd
    /\ UNCHANGED <<s_attached, s_hub_ip, task, peer, gone, ports>>

ExecutorStep == (\E f \in Fds : ClosePort(f)) \/ Notify

-----------------------------------------------------------------------------
(* The network (external).                                                 *)

HubCloses(f) ==
    /\ f \in OpenFds \ gone
    /\ gone' = gone \cup {f}
    /\ UNCHANGED <<shared, task, peer, ports, notices>>

HubsChange == listening' \in SUBSET Hubs
WifiChanges == connected' \in BOOLEAN /\ self' \in Selves \cup {None}

LinkStep == UplinkStep \/ ExecutorStep \/ \E f \in Fds : HubCloses(f)

Next ==
    \/ LinkStep /\ UNCHANGED <<wifi, listening>>
    \/ HubsChange /\ UNCHANGED <<wifi, shared, task, stack>>
    \/ WifiChanges /\ UNCHANGED <<listening, shared, task, stack>>

Spec == Init /\ [][Next]_vars

\* uplink_task is scheduled, its calls return, and the executor serves its
\* ports.  Nothing is assumed of the hubs or of Wi-Fi.
Fairness ==
    /\ WF_vars(UplinkStep /\ UNCHANGED <<wifi, listening>>)
    /\ WF_vars(ExecutorStep /\ UNCHANGED <<wifi, listening>>)
FairSpec == Spec /\ Fairness

-----------------------------------------------------------------------------
TypeOK ==
    /\ connected \in BOOLEAN /\ self \in Selves \cup {None} /\ listening \subseteq Hubs
    /\ s_attached \in BOOLEAN
    /\ s_fd \in Fds \cup {NoFd}
    /\ s_hub_ip \in Hubs \cup {None}
    /\ upc \in {"notice", "clear", "gate", "query", "try", "attached", "publish", "port"}
    /\ fd \in Fds \cup {NoFd}
    /\ cands \in Seq(Hosts \cup {None})
    /\ peer \in [Fds -> Hubs \cup {None}]
    /\ gone \subseteq Fds /\ ports \subseteq Fds
    /\ notices \in Nat

\* The node never holds two sockets, nor one while the closing of an earlier
\* one is still to be noticed, and a socket that no port serves is the one
\* uplink_task has in hand: none leaks, whenever the hub hangs up.
OneSocket ==
    /\ Cardinality(OpenFds) + notices <= 1
    /\ OpenFds \subseteq ports \cup {fd}

\* A descriptor that is published will be withdrawn when its port dies: the
\* port is still served, its close notification is on the way, or the port is
\* about to be created.  Otherwise the node would stay attached to nothing.
CloseIsNoticed ==
    s_fd # NoFd => s_fd \in ports \/ notices > 0 \/ (upc = "port" /\ s_fd = fd)

\* The address other tasks read is that of the hub the socket goes to.  From
\* the close of the socket to the next poll, up to five seconds later, the old
\* address stays readable; a task that sees s_attached still set, or reads
\* between the two assignments of the poll, sees it, but a round starts without
\* one.  s_fd is never set without s_attached, so lcc_uplink_is_attached may
\* read the two one after the other.
HubIpNamesPeer ==
    /\ s_fd # NoFd => s_attached
    /\ s_fd # NoFd /\ notices = 0 => s_hub_ip = peer[s_fd]
    /\ fd # NoFd => s_hub_ip = peer[fd]
    /\ ~s_attached => s_hub_ip = None \/ upc \in {"clear", "attached"}

\* The published link implements HubLink: an attached node never changes hub
\* without being seen detached, and is never attached to nothing.
Link == INSTANCE HubLink WITH hub <- IF Attached THEN s_hub_ip ELSE None
LinkPromise == Link!Spec

\* A link whose hub has hung up, or whose socket is already closed, does not
\* look attached for ever.
LossNoticed == (Attached /\ s_fd \notin OpenFds \ gone) ~> ~Attached

\* If Wi-Fi stays up and a configured hub keeps accepting, the node is attached
\* again and again, whatever mDNS answers and however often the hub hangs up.
Reattaches == <>[](connected /\ HOST2 \in listening) => []<>Attached
=============================================================================
