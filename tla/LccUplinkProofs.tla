-------------------------- MODULE LccUplinkProofs --------------------------
(***************************************************************************)
(* Proofs about the hub uplink: for every set of hubs, addresses and       *)
(* descriptors and every mDNS answer, its safety properties hold and it    *)
(* implements HubLink.  The inductive invariant says that a link is in one *)
(* of four phases, each of which fixes all the shared variables.  The last *)
(* two sections follow a lost link and a detached task through the phases. *)
(***************************************************************************)
EXTENDS LccUplink, FiniteSetTheorems, SequenceTheorems, TLAPS

Polling == upc \in {"notice", "gate"} /\ fd = NoFd

\* The one open socket is f, to the hub whose address is published.
Socket(f) ==
    /\ f \in Fds /\ s_hub_ip \in Hubs
    /\ peer = [g \in Fds |-> IF g = f THEN s_hub_ip ELSE None]
    /\ gone \subseteq {f}

NoSocket == peer = [g \in Fds |-> None] /\ gone = {} /\ ports = {}

\* No link: the task polls or runs a round.  s_attached may be left from a link
\* whose end is not noticed yet, but not during a round, and the address goes
\* right after it.
NoLink ==
    /\ upc \in {"notice", "clear", "gate", "query", "try"} /\ fd = NoFd
    /\ NoSocket /\ s_fd = NoFd /\ notices = 0
    /\ ~s_attached => s_hub_ip = None \/ upc = "clear"
    /\ upc \in {"clear", "query", "try"} => ~s_attached

\* The task has a socket in hand and publishes it.
InHand ==
    /\ upc \in {"attached", "publish", "port"}
    /\ Socket(fd) /\ ports = {} /\ notices = 0
    /\ s_attached <=> upc # "attached"
    /\ s_fd = IF upc = "port" THEN fd ELSE NoFd

\* OpenMRN serves the socket.
Served == Polling /\ Socket(s_fd) /\ ports = {s_fd} /\ notices = 0 /\ s_attached

\* OpenMRN has closed the socket and not yet said so.
Closing == Polling /\ s_fd \in Fds /\ NoSocket /\ notices = 1 /\ s_attached /\ s_hub_ip \in Hubs

IInv == TypeOK /\ (NoLink \/ InHand \/ Served \/ Closing)

Phases == <<upc, fd, s_attached, s_fd, s_hub_ip, peer, gone, ports, notices>>

-----------------------------------------------------------------------------
LEMMA OpenNone == NoSocket => OpenFds = {}
  BY DEF NoSocket, OpenFds

LEMMA OpenOne == \A f : Socket(f) => OpenFds = {f} /\ peer[f] = s_hub_ip /\ s_hub_ip # None
  BY LccUplinkAssumption DEF Socket, OpenFds, Hosts

LEMMA NoFdIsNoDescriptor == NoFd \notin Fds
  BY LccUplinkAssumption DEF NoFd

\* Whatever leaves the variables of the phases alone keeps the phase.
LEMMA PhaseKept ==
    NoLink \/ InHand \/ Served \/ Closing
    => (UNCHANGED Phases => (NoLink \/ InHand \/ Served \/ Closing)')
<1> SUFFICES ASSUME UNCHANGED Phases, NoLink \/ InHand \/ Served \/ Closing
             PROVE  (NoLink \/ InHand \/ Served \/ Closing)'
  OBVIOUS
<1>1. CASE NoLink
  BY <1>1 DEF Phases, NoLink, NoSocket
<1>2. CASE InHand
  BY <1>2 DEF Phases, InHand, Socket
<1>3. CASE Served
  BY <1>3 DEF Phases, Served, Polling, Socket
<1>4. CASE Closing
  BY <1>4 DEF Phases, Closing, Polling, NoSocket
<1> QED BY <1>1, <1>2, <1>3, <1>4

LEMMA InitInv == Init => IInv
<1> SUFFICES ASSUME Init PROVE IInv
  OBVIOUS
<1>1. NoLink
  BY DEF Init, NoLink, NoSocket
<1>2. TypeOK
  BY EmptySeq DEF Init, TypeOK
<1> QED BY <1>1, <1>2 DEF IInv

-----------------------------------------------------------------------------
(* uplink_task: each action belongs to one phase and leads to one.         *)

LEMMA NoticeKeeps ==
    ASSUME IInv, NoticeClosed, UNCHANGED <<wifi, listening>> PROVE IInv'
<1>1. /\ upc = "notice"
      /\ UNCHANGED <<s_fd, s_hub_ip, fd, cands, peer, gone, ports, notices, connected, self, listening>>
      /\ \/ s_attached /\ s_fd = NoFd /\ s_attached' = FALSE /\ upc' = "clear"
         \/ ~(s_attached /\ s_fd = NoFd) /\ UNCHANGED s_attached /\ upc' = "gate"
  BY DEF NoticeClosed, Goto, stack, wifi
<1>2. TypeOK'
  BY <1>1 DEF IInv, TypeOK
<1>3. CASE NoLink
  BY <1>1, <1>2, <1>3 DEF IInv, NoLink, NoSocket
<1>4. CASE Served
  <2>1. s_fd # NoFd
    BY <1>4, NoFdIsNoDescriptor DEF Served, Socket
  <2> QED BY <1>1, <1>2, <1>4, <2>1 DEF IInv, Served, Polling, Socket
<1>5. CASE Closing
  <2>1. s_fd # NoFd
    BY <1>5, NoFdIsNoDescriptor DEF Closing
  <2> QED BY <1>1, <1>2, <1>5, <2>1 DEF IInv, Closing, Polling, NoSocket
<1> QED BY <1>1, <1>3, <1>4, <1>5 DEF IInv, InHand

LEMMA ForgetKeeps ==
    ASSUME IInv, ForgetHubIp, UNCHANGED <<wifi, listening>> PROVE IInv'
<1>1. NoLink
  BY DEF ForgetHubIp, IInv, InHand, Served, Closing, Polling
<1>2. /\ upc = "clear" /\ upc' = "gate" /\ s_hub_ip' = None
      /\ UNCHANGED <<s_attached, s_fd, fd, cands, peer, gone, ports, notices>>
      /\ UNCHANGED <<connected, self, listening>>
  BY DEF ForgetHubIp, Goto, stack, wifi
<1>3. TypeOK'
  BY <1>2 DEF IInv, TypeOK
<1> QED BY <1>1, <1>2, <1>3 DEF IInv, NoLink, NoSocket

LEMMA GateKeeps ==
    ASSUME IInv, Gate, UNCHANGED <<wifi, listening>> PROVE IInv'
<1>1. /\ upc = "gate" /\ upc' \in {"query", "notice"} /\ (upc' = "query" => ~s_attached)
      /\ UNCHANGED <<s_attached, s_fd, s_hub_ip, fd, cands, peer, gone, ports, notices>>
      /\ UNCHANGED <<connected, self, listening>>
  BY DEF Gate, Goto, shared, stack, wifi
<1>2. TypeOK'
  BY <1>1 DEF IInv, TypeOK
<1>3. CASE NoLink
  BY <1>1, <1>2, <1>3 DEF IInv, NoLink, NoSocket
<1>4. CASE Served
  BY <1>1, <1>2, <1>4 DEF IInv, Served, Polling, Socket
<1>5. CASE Closing
  BY <1>1, <1>2, <1>5 DEF IInv, Closing, Polling, NoSocket
<1> QED BY <1>1, <1>3, <1>4, <1>5 DEF IInv, InHand

\* A step of the round that opens no socket.
LEMMA RoundKeeps ==
    ASSUME IInv, NoLink, upc' \in {"query", "try", "notice"}, upc \in {"query", "try"},
           cands' \in Seq(Hosts \cup {None}),
           UNCHANGED <<wifi, listening, shared, fd, stack>>
    PROVE  IInv'
<1>1. TypeOK'
  BY DEF IInv, TypeOK, wifi, shared, stack
<1>2. NoLink'
  BY DEF NoLink, NoSocket, shared, stack
<1> QED BY <1>1, <1>2 DEF IInv

LEMMA InRound == IInv /\ upc \in {"query", "try"} => NoLink
  BY DEF IInv, InHand, Served, Closing, Polling

LEMMA QueryKeeps ==
    ASSUME IInv, QueryMdns, UNCHANGED <<wifi, listening>> PROVE IInv'
<1>1. PICK n \in 0 .. MaxAddrs : \E found \in [1 .. n -> Hosts] : cands' = found \o <<HOST, HOST2>>
  BY DEF QueryMdns
<1>2. PICK found \in [1 .. n -> Hosts] : cands' = found \o <<HOST, HOST2>>
  BY <1>1
<1>3. found \in Seq(Hosts \cup {None})
  BY LccUplinkAssumption
<1>4. <<HOST, HOST2>> \in Seq(Hosts \cup {None})
  BY LccUplinkAssumption
<1>5. cands' \in Seq(Hosts \cup {None})
  BY <1>2, <1>3, <1>4, ConcatProperties
<1> QED BY <1>5, InRound, RoundKeeps DEF QueryMdns, Goto

LEMMA SkipKeeps ==
    ASSUME IInv, SkipHost \/ ConnectFails \/ NoHub, UNCHANGED <<wifi, listening>> PROVE IInv'
<1>1. upc = "try" /\ upc' \in {"try", "notice"} /\ UNCHANGED <<shared, fd, stack>>
  BY DEF SkipHost, ConnectFails, NoHub, Goto
<1>2. cands \in Seq(Hosts \cup {None}) /\ (cands' = cands \/ (cands # <<>> /\ cands' = Tail(cands)))
  BY DEF SkipHost, ConnectFails, NoHub, IInv, TypeOK
<1>3. cands' \in Seq(Hosts \cup {None})
  BY <1>2, HeadTailProperties
<1> QED BY <1>1, <1>3, InRound, RoundKeeps

LEMMA ConnectKeeps ==
    ASSUME IInv, ConnectSucceeds, UNCHANGED <<wifi, listening>> PROVE IInv'
<1>1. NoLink
  BY InRound DEF ConnectSucceeds
<1>2. /\ upc' = "attached" /\ cands' = <<>> /\ s_hub_ip' = Head(cands) /\ Head(cands) \in listening
      /\ UNCHANGED <<s_attached, s_fd, gone, ports, notices, connected, self, listening>>
      /\ upc = "try"
  BY DEF ConnectSucceeds, Goto, wifi
<1>3. PICK f \in Fds : peer' = [peer EXCEPT ![f] = Head(cands)] /\ fd' = f
  BY DEF ConnectSucceeds, OpenFds
<1>4. Head(cands) \in Hubs
  BY <1>2 DEF IInv, TypeOK
<1>5. peer' = [g \in Fds |-> IF g = f THEN s_hub_ip' ELSE None]
  BY <1>1, <1>2, <1>3 DEF NoLink, NoSocket
<1>6. TypeOK'
  <2>1. peer' \in [Fds -> Hubs \cup {None}] /\ cands' \in Seq(Hosts \cup {None})
    BY <1>2, <1>4, <1>5, EmptySeq
  <2> QED BY <1>2, <1>3, <1>4, <2>1 DEF IInv, TypeOK
<1>7. InHand'
  BY <1>1, <1>2, <1>3, <1>4, <1>5 DEF NoLink, NoSocket, InHand, Socket
<1> QED BY <1>6, <1>7 DEF IInv

LEMMA AttachKeeps ==
    ASSUME IInv, AttachSocket, UNCHANGED <<wifi, listening>> PROVE IInv'
<1>1. InHand
  BY DEF IInv, NoLink, Served, Closing, Polling, AttachSocket
<1>2. UNCHANGED <<s_hub_ip, cands, peer, gone, notices, connected, self, listening>>
  BY DEF AttachSocket, wifi
<1>3. CASE upc = "attached"
  <2>1. upc' = "publish" /\ s_attached' = TRUE /\ UNCHANGED <<s_fd, fd, ports>>
    BY <1>3 DEF AttachSocket, Goto
  <2>2. TypeOK'
    BY <1>2, <2>1 DEF IInv, TypeOK
  <2>3. InHand'
    BY <1>1, <1>2, <1>3, <2>1 DEF InHand, Socket
  <2> QED BY <2>2, <2>3 DEF IInv
<1>4. CASE upc = "publish"
  <2>1. upc' = "port" /\ s_fd' = fd /\ UNCHANGED <<s_attached, fd, ports>>
    BY <1>4 DEF AttachSocket, Goto
  <2>2. TypeOK'
    BY <1>2, <2>1 DEF IInv, TypeOK
  <2>3. InHand'
    BY <1>1, <1>2, <1>4, <2>1 DEF InHand, Socket
  <2> QED BY <2>2, <2>3 DEF IInv
<1>5. CASE upc = "port"
  <2>1. /\ upc' = "notice" /\ ports' = ports \cup {fd} /\ fd' = NoFd
        /\ UNCHANGED <<s_attached, s_fd>>
    BY <1>5 DEF AttachSocket, Goto
  <2>2. TypeOK'
    BY <1>1, <1>2, <2>1 DEF IInv, TypeOK, InHand, Socket
  <2>3. Served'
    BY <1>1, <1>2, <1>5, <2>1 DEF InHand, Served, Polling, Socket
  <2> QED BY <2>2, <2>3 DEF IInv
<1> QED BY <1>1, <1>3, <1>4, <1>5 DEF InHand

-----------------------------------------------------------------------------
(* The executor and the hub.                                               *)

LEMMA CloseKeeps ==
    ASSUME IInv, NEW f \in Fds, ClosePort(f), UNCHANGED <<wifi, listening>> PROVE IInv'
<1>1. Served
  BY DEF IInv, NoLink, NoSocket, InHand, Closing, ClosePort
<1>2. /\ f = s_fd /\ f \in gone
      /\ ports' = ports \ {f} /\ gone' = gone \ {f} /\ peer' = [peer EXCEPT ![f] = None]
      /\ notices' = notices + 1
      /\ UNCHANGED <<s_attached, s_fd, s_hub_ip, upc, fd, cands, connected, self, listening>>
  BY <1>1 DEF ClosePort, Served, shared, task, wifi
<1>3. peer' = [g \in Fds |-> None] /\ gone' = {} /\ ports' = {} /\ notices' = 1
  BY <1>1, <1>2 DEF Served, Socket
<1>4. TypeOK'
  BY <1>2, <1>3 DEF IInv, TypeOK
<1>5. Closing'
  BY <1>1, <1>2, <1>3 DEF Served, Closing, Polling, Socket, NoSocket
<1> QED BY <1>4, <1>5 DEF IInv

LEMMA NotifyKeeps ==
    ASSUME IInv, Notify, UNCHANGED <<wifi, listening>> PROVE IInv'
<1>1. Closing
  BY DEF IInv, NoLink, InHand, Served, Notify
<1>2. /\ notices' = notices - 1 /\ s_fd' = NoFd
      /\ UNCHANGED <<s_attached, s_hub_ip, upc, fd, cands, peer, gone, ports, connected, self, listening>>
  BY DEF Notify, task, wifi
<1>3. notices' = 0
  BY <1>1, <1>2 DEF Closing
<1>4. TypeOK'
  BY <1>2, <1>3 DEF IInv, TypeOK
<1>5. NoLink'
  BY <1>1, <1>2, <1>3 DEF Closing, Polling, NoLink, NoSocket
<1> QED BY <1>4, <1>5 DEF IInv

LEMMA HangUpKeeps ==
    ASSUME IInv, NEW f \in Fds, HubCloses(f), UNCHANGED <<wifi, listening>> PROVE IInv'
<1>1. /\ f \in OpenFds /\ gone' = gone \cup {f}
      /\ UNCHANGED <<s_attached, s_fd, s_hub_ip, upc, fd, cands, peer, ports, notices>>
      /\ UNCHANGED <<connected, self, listening>>
  BY DEF HubCloses, shared, task, wifi
<1>2. TypeOK'
  BY <1>1 DEF IInv, TypeOK
<1>3. CASE InHand
  <2>1. f = fd
    BY <1>1, <1>3, OpenOne DEF InHand
  <2> QED BY <1>1, <1>2, <1>3, <2>1 DEF IInv, InHand, Socket
<1>4. CASE Served
  <2>1. f = s_fd
    BY <1>1, <1>4, OpenOne DEF Served
  <2> QED BY <1>1, <1>2, <1>4, <2>1 DEF IInv, Served, Polling, Socket
<1> QED BY <1>1, <1>3, <1>4, OpenNone DEF IInv, NoLink, Closing

\* The hubs that listen and the state of Wi-Fi are free to change.
LEMMA EnvironmentKeeps ==
    ASSUME IInv,
           \/ HubsChange /\ UNCHANGED <<wifi, shared, task, stack>>
           \/ WifiChanges /\ UNCHANGED <<listening, shared, task, stack>>
           \/ UNCHANGED vars
    PROVE  IInv'
<1>1. UNCHANGED Phases
  BY DEF Phases, vars, shared, task, stack
<1>2. TypeOK'
  BY DEF IInv, TypeOK, HubsChange, WifiChanges, vars, wifi, shared, task, stack
<1> QED BY <1>1, <1>2, PhaseKept DEF IInv

LEMMA Inductive == IInv /\ [Next]_vars => IInv'
<1> SUFFICES ASSUME IInv, [Next]_vars PROVE IInv'
  OBVIOUS
<1>1. CASE LinkStep /\ UNCHANGED <<wifi, listening>>
  <2>1. CASE UplinkStep
    BY <1>1, <2>1, NoticeKeeps, ForgetKeeps, GateKeeps, QueryKeeps, SkipKeeps, ConnectKeeps,
       AttachKeeps
       DEF UplinkStep
  <2>2. CASE ExecutorStep
    BY <1>1, <2>2, CloseKeeps, NotifyKeeps DEF ExecutorStep
  <2>3. CASE \E f \in Fds : HubCloses(f)
    BY <1>1, <2>3, HangUpKeeps
  <2> QED BY <1>1, <2>1, <2>2, <2>3 DEF LinkStep
<1> QED BY <1>1, EnvironmentKeeps DEF Next

LEMMA Invariance == Spec => []IInv
<1> QED BY InitInv, Inductive, PTL DEF Spec

-----------------------------------------------------------------------------
\* Every variable keeps its type: only a hub is ever published.
THEOREM TypeCorrect == Spec => []TypeOK
<1>1. IInv => TypeOK
  BY DEF IInv
<1> QED BY <1>1, Invariance, PTL

\* The node holds one socket at a time and leaks none, whatever the hub does.
THEOREM OneSocketOnly == Spec => []OneSocket
<1>1. ASSUME IInv PROVE OneSocket
  <2>1. CASE NoLink
    BY <2>1, OpenNone, FS_EmptySet DEF NoLink, OneSocket
  <2>2. CASE InHand
    <3>1. OpenFds = {fd} /\ notices = 0
      BY <2>2, OpenOne DEF InHand
    <3>2. Cardinality(OpenFds) = 1
      BY <3>1, FS_Singleton
    <3> QED BY <3>1, <3>2 DEF OneSocket
  <2>3. CASE Served
    <3>1. OpenFds = {s_fd} /\ notices = 0 /\ ports = {s_fd}
      BY <2>3, OpenOne DEF Served
    <3>2. Cardinality(OpenFds) = 1
      BY <3>1, FS_Singleton
    <3> QED BY <3>1, <3>2 DEF OneSocket
  <2>4. CASE Closing
    BY <2>4, OpenNone, FS_EmptySet DEF Closing, OneSocket
  <2> QED BY <1>1, <2>1, <2>2, <2>3, <2>4 DEF IInv
<1> QED BY <1>1, Invariance, PTL

\* A published descriptor is always one whose end will be noticed.
THEOREM ClosesReachTheTask == Spec => []CloseIsNoticed
<1>1. ASSUME IInv PROVE CloseIsNoticed
  BY <1>1 DEF IInv, NoLink, InHand, Served, Closing, CloseIsNoticed
<1> QED BY <1>1, Invariance, PTL

\* The address other tasks read is that of the hub of the published socket; the
\* address of a lost link goes with s_attached, right after it, before a round
\* (uplink_task, try_hub_host).
THEOREM AddressNamesPeer == Spec => []HubIpNamesPeer
<1>1. ASSUME IInv PROVE HubIpNamesPeer
  <2>1. CASE NoLink
    BY <2>1 DEF NoLink, HubIpNamesPeer
  <2>2. CASE InHand
    BY <2>2, OpenOne DEF InHand, HubIpNamesPeer
  <2>3. CASE Served
    BY <2>3, OpenOne DEF Served, Polling, HubIpNamesPeer
  <2>4. CASE Closing
    BY <2>4 DEF Closing, Polling, HubIpNamesPeer
  <2> QED BY <1>1, <2>1, <2>2, <2>3, <2>4 DEF IInv
<1> QED BY <1>1, Invariance, PTL

-----------------------------------------------------------------------------
(* The refinement: the hub of HubLink is the published one.                *)

Hub == IF Attached THEN s_hub_ip ELSE None

\* Publishing the descriptor attaches, forgetting it detaches, and no other
\* step changes the hub.
LEMMA RefineNext ==
    IInv /\ IInv' /\ [Next]_vars => [Link!Next]_Hub
<1> SUFFICES ASSUME IInv, IInv', [Next]_vars
             PROVE  Link!Attach \/ Link!Detach \/ Hub' = Hub
  BY DEF Link!Next
<1>1. CASE AttachSocket
  <2>1. CASE upc = "publish"
    <3>1. InHand /\ InHand'
      BY <1>1, <2>1 DEF IInv, AttachSocket, Goto, NoLink, Served, Closing, Polling
    <3>2. ~Attached
      BY <2>1, <3>1 DEF InHand, Attached
    <3>3. s_attached' /\ s_fd' \in Fds /\ s_hub_ip' \in Hubs
      BY <1>1, <2>1, <3>1 DEF InHand, Socket, AttachSocket, Goto
    <3>4. Attached'
      BY <3>3, NoFdIsNoDescriptor DEF Attached
    <3>5. Link!Attach
      BY <3>2, <3>3, <3>4 DEF Link!Attach
    <3> QED BY <3>5
  <2>2. CASE upc = "attached"
    <3>1. s_fd = NoFd /\ s_fd' = NoFd
      BY <1>1, <2>2 DEF IInv, AttachSocket, NoLink, InHand, Served, Closing, Polling
    <3> QED BY <3>1 DEF Hub, Attached
  <2>3. CASE upc = "port"
    BY <1>1, <2>3 DEF AttachSocket, Hub, Attached
  <2> QED BY <1>1, <2>1, <2>2, <2>3 DEF AttachSocket
<1>2. CASE Notify
  <2>1. Closing
    BY <1>2 DEF IInv, NoLink, InHand, Served, Notify
  <2>2. ~Attached'
    BY <1>2 DEF Notify, Attached
  <2> QED BY <2>2 DEF Link!Detach, Hub
<1>3. CASE NoticeClosed
  BY <1>3 DEF NoticeClosed, Hub, Attached
<1>4. CASE ForgetHubIp
  <2>1. ~s_attached /\ s_attached' = s_attached
    BY <1>4 DEF ForgetHubIp, IInv, NoLink, InHand, Served, Closing, Polling
  <2> QED BY <2>1 DEF Hub, Attached
<1>5. CASE ConnectSucceeds
  <2>1. ~s_attached /\ s_attached' = s_attached
    BY <1>5, InRound DEF ConnectSucceeds, NoLink
  <2> QED BY <2>1 DEF Hub, Attached
<1>6. CASE UNCHANGED shared
  BY <1>6 DEF shared, Hub, Attached
<1> QED BY <1>1, <1>2, <1>3, <1>4, <1>5, <1>6
        DEF Next, LinkStep, UplinkStep, ExecutorStep, Gate, QueryMdns, SkipHost,
            ConnectFails, NoHub, ClosePort, HubCloses, vars

\* The uplink implements HubLink: it is attached to one hub or to none, and goes
\* from one to another only by being detached.
THEOREM ImplementsHubLink == Spec => LinkPromise
<1>1. Init => Link!Init
  BY DEF Init, Link!Init, Attached
<1>2. IInv /\ IInv' /\ [Next]_vars => [Link!Next]_Hub
  BY RefineNext
<1> QED BY <1>1, <1>2, Invariance, PTL DEF Spec, LinkPromise, Link!Spec, Hub

-----------------------------------------------------------------------------
(* What comes of a lost link, and of a hub that keeps accepting.  The      *)
(* provers know nothing of ENABLED, so the weak fairness of Fairness is    *)
(* stated with its guards written out: uplink_task always has a step, and  *)
(* the executor has one while a port is to be closed or a notification is  *)
(* to be delivered.                                                        *)

TaskStep  == UplinkStep /\ UNCHANGED <<wifi, listening>>
StackStep == ExecutorStep /\ UNCHANGED <<wifi, listening>>
TaskRuns  == []<><<TaskStep>>_vars
StackRuns == []<>(ports \cap gone = {} /\ notices = 0) \/ []<><<StackStep>>_vars

\* A published link whose hub hung up before, or after, its port was created.
LostInHand == InHand /\ upc = "port" /\ fd \in gone
LostServed == Served /\ s_fd \in gone

LEMMA LostPlaces ==
    ASSUME IInv, Attached, s_fd \notin OpenFds \ gone PROVE LostInHand \/ LostServed \/ Closing
<1>1. CASE NoLink
  BY <1>1 DEF NoLink, Attached
<1>2. CASE InHand
  BY <1>2, OpenOne, NoFdIsNoDescriptor DEF InHand, LostInHand, Attached
<1>3. CASE Served
  BY <1>3, OpenOne DEF Served, LostServed
<1> QED BY <1>1, <1>2, <1>3 DEF IInv

\* Whoever moves moves one of: the task, the executor, a hub, the outside.
LEMMA WhoMoves ==
    [Next]_vars => \/ <<TaskStep>>_vars \/ <<StackStep>>_vars
                   \/ (\E f \in Fds : HubCloses(f)) /\ UNCHANGED <<wifi, listening>>
                   \/ UNCHANGED <<shared, task, stack>>
BY DEF Next, vars, LinkStep, TaskStep, StackStep

\* The task leaves a link it has served alone: it polls.
LEMMA PollingSteps ==
    ASSUME Served \/ Closing, TaskStep
    PROVE  upc' \in {"notice", "gate"} /\ UNCHANGED <<shared, fd, stack>>
<1>1. s_fd # NoFd /\ s_attached /\ upc \in {"notice", "gate"}
  BY NoFdIsNoDescriptor DEF Served, Closing, Polling, Socket
<1> QED BY <1>1 DEF TaskStep, UplinkStep, NoticeClosed, ForgetHubIp, Gate, QueryMdns, SkipHost, ConnectFails,
                    ConnectSucceeds, NoHub, AttachSocket, Goto, shared

LEMMA LostSteps ==
    ASSUME IInv
    PROVE  /\ LostInHand /\ TaskStep => LostServed'
           /\ LostServed /\ StackStep => Closing'
           /\ Closing /\ StackStep => ~Attached'
<1>1. ASSUME LostInHand, TaskStep PROVE LostServed'
  <2>1. /\ upc' = "notice" /\ fd' = NoFd /\ ports' = ports \cup {fd}
        /\ UNCHANGED <<s_attached, s_fd, s_hub_ip, peer, gone, notices>>
    BY <1>1 DEF LostInHand, TaskStep, UplinkStep, NoticeClosed, ForgetHubIp, Gate, QueryMdns, SkipHost,
                ConnectFails, ConnectSucceeds, NoHub, AttachSocket, Goto
  <2> QED BY <1>1, <2>1 DEF LostInHand, LostServed, InHand, Served, Polling, Socket
<1>2. ASSUME LostServed, StackStep PROVE Closing'
  <2>1. PICK f \in Fds : ClosePort(f)
    BY <1>2 DEF LostServed, Served, StackStep, ExecutorStep, Notify
  <2>2. f = s_fd
    BY <1>2, <2>1 DEF LostServed, Served, ClosePort
  <2>3. /\ peer' = [g \in Fds |-> None] /\ gone' = {} /\ ports' = {} /\ notices' = 1
        /\ UNCHANGED <<s_attached, s_fd, s_hub_ip, upc, fd>>
    BY <1>2, <2>1, <2>2 DEF LostServed, Served, Socket, ClosePort, shared, task
  <2> QED BY <1>2, <2>3 DEF LostServed, Served, Closing, Polling, Socket, NoSocket
<1>3. ASSUME Closing, StackStep PROVE ~Attached'
  BY <1>3 DEF Closing, NoSocket, StackStep, ExecutorStep, ClosePort, Notify, Attached
<1> QED BY <1>1, <1>2, <1>3

LEMMA LostKept ==
    ASSUME IInv, [Next]_vars
    PROVE  /\ LostInHand => <<TaskStep>>_vars \/ LostInHand'
           /\ LostServed => <<StackStep>>_vars \/ LostServed'
           /\ Closing => <<StackStep>>_vars \/ Closing'
<1>1. ASSUME LostInHand, ~<<TaskStep>>_vars PROVE LostInHand'
  <2>1. ~StackStep
    BY <1>1 DEF LostInHand, InHand, StackStep, ExecutorStep, ClosePort, Notify
  <2>2. ~\E f \in Fds : HubCloses(f)
    BY <1>1, OpenOne DEF LostInHand, InHand, HubCloses
  <2>3. UNCHANGED <<shared, task, stack>>
    BY <1>1, <2>1, <2>2, WhoMoves
  <2> QED BY <1>1, <2>3 DEF LostInHand, InHand, Socket, shared, task, stack
<1>2. ASSUME LostServed, ~<<StackStep>>_vars PROVE LostServed'
  <2>1. ~\E f \in Fds : HubCloses(f)
    BY <1>2, OpenOne DEF LostServed, Served, HubCloses
  <2>2. CASE TaskStep
    BY <1>2, <2>2, PollingSteps DEF LostServed, Served, Polling, Socket, shared, stack
  <2>3. CASE UNCHANGED <<shared, task, stack>>
    BY <1>2, <2>3 DEF LostServed, Served, Polling, Socket, shared, task, stack
  <2> QED BY <1>2, <2>1, <2>2, <2>3, WhoMoves
<1>3. ASSUME Closing, ~<<StackStep>>_vars PROVE Closing'
  <2>1. ~\E f \in Fds : HubCloses(f)
    BY <1>3, OpenNone DEF Closing, HubCloses
  <2>2. CASE TaskStep
    BY <1>3, <2>2, PollingSteps DEF Closing, Polling, NoSocket, shared, stack
  <2>3. CASE UNCHANGED <<shared, task, stack>>
    BY <1>3, <2>3 DEF Closing, Polling, NoSocket, shared, task, stack
  <2> QED BY <1>3, <2>1, <2>2, <2>3, WhoMoves
<1> QED BY <1>1, <1>2, <1>3

\* A link whose hub hung up, at whatever point of its set-up, is given up.
THEOREM LossIsNoticed == Spec /\ TaskRuns /\ StackRuns => LossNoticed
<1> DEFINE Lost == Attached /\ s_fd \notin OpenFds \ gone
           Idle == ports \cap gone = {} /\ notices = 0
<1>1. IInv /\ Lost => LostInHand \/ LostServed \/ Closing
  BY LostPlaces
<1>2. LostServed \/ Closing => ~Idle
  BY DEF LostServed, Served, Closing
<1>3. StackRuns <=> ([]<>Idle \/ []<><<StackStep>>_vars)
  BY DEF StackRuns
<1>4. LossNoticed <=> (Lost ~> ~Attached)
  BY DEF LossNoticed
<1>5. IInv =>
          /\ <<TaskStep>>_vars => (LostInHand => LostServed')
          /\ <<StackStep>>_vars => (LostServed => Closing') /\ (Closing => ~Attached')
  BY LostSteps
<1>6. IInv /\ [Next]_vars =>
          /\ LostInHand => <<TaskStep>>_vars \/ LostInHand'
          /\ LostServed => <<StackStep>>_vars \/ LostServed'
          /\ Closing => <<StackStep>>_vars \/ Closing'
  BY LostKept
<1> HIDE DEF Lost, Idle
<1> QED BY <1>1, <1>2, <1>3, <1>4, <1>5, <1>6, Invariance, PTL DEF Spec, TaskRuns

-----------------------------------------------------------------------------
(* A hub that keeps accepting is attached to again.  The configured host   *)
(* HOST2 is the last of every round, so a round that has not attached by   *)
(* then attaches to it.                                                    *)

\* What is left of a round, which ends with HOST2.
Candidates ==
    upc = "try" => /\ Len(cands) <= MaxAddrs + 2
                   /\ cands # <<>> => cands[Len(cands)] = HOST2

LEMMA QueryGivesCandidates ==
    ASSUME QueryMdns
    PROVE  cands' # <<>> /\ cands' \in Seq(Hosts \cup {None}) /\ Len(cands') <= MaxAddrs + 2
           /\ cands'[Len(cands')] = HOST2
<1>1. PICK n \in 0 .. MaxAddrs : \E found \in [1 .. n -> Hosts] : cands' = found \o <<HOST, HOST2>>
  BY DEF QueryMdns
<1>2. PICK found \in [1 .. n -> Hosts] : cands' = found \o <<HOST, HOST2>>
  BY <1>1
<1> DEFINE hosts == Hosts \cup {None}
<1>3. found \in Seq(hosts) /\ Len(found) = n /\ n \in Nat
  BY LccUplinkAssumption
<1>4. <<HOST, HOST2>> \in Seq(hosts) /\ Len(<<HOST, HOST2>>) = 2
  BY LccUplinkAssumption
<1>5. cands' \in Seq(hosts) /\ Len(cands') = n + 2 /\ cands'[n + 2] = HOST2
  <2> HIDE DEF hosts
  <2>1. /\ cands' \in Seq(hosts) /\ Len(cands') = Len(found) + 2
        /\ \A i \in 1 .. Len(found) + 2 : cands'[i] = IF i <= Len(found) THEN found[i]
                                                      ELSE <<HOST, HOST2>>[i - Len(found)]
    BY <1>2, <1>3, <1>4, ConcatProperties
  <2>2. n + 2 \in 1 .. Len(found) + 2 /\ ~(n + 2 <= Len(found)) /\ n + 2 - Len(found) = 2
    BY <1>3
  <2> QED BY <1>3, <2>1, <2>2
<1>6. n <= MaxAddrs
  BY LccUplinkAssumption
<1> QED BY <1>3, <1>5, <1>6, LccUplinkAssumption, EmptySeq

LEMMA CandidatesKept == IInv /\ Candidates /\ [Next]_vars => Candidates'
<1> SUFFICES ASSUME IInv, Candidates, [Next]_vars, upc' = "try"
             PROVE  Len(cands') <= MaxAddrs + 2 /\ (cands' # <<>> => cands'[Len(cands')] = HOST2)
  BY DEF Candidates
<1>1. CASE QueryMdns
  BY <1>1, QueryGivesCandidates
<1>2. CASE upc = "try" /\ cands # <<>> /\ cands' = Tail(cands)
  <2>1. cands \in Seq(Hosts \cup {None})
    BY DEF IInv, TypeOK
  <2>2. /\ Len(cands') = Len(cands) - 1 /\ Len(cands) \in Nat \ {0} /\ cands' \in Seq(Hosts \cup {None})
        /\ \A i \in 1 .. Len(cands') : cands'[i] = cands[i + 1]
    BY <1>2, <2>1, HeadTailProperties, EmptySeq
  <2>3. cands' # <<>> => Len(cands') \in 1 .. Len(cands')
    BY <2>2, EmptySeq
  <2> QED BY <1>2, <2>2, <2>3, LccUplinkAssumption DEF Candidates
<1>3. CASE upc = "try" /\ cands' = cands
  BY <1>3 DEF Candidates
<1>4. QueryMdns \/ (upc = "try" /\ (cands' = cands \/ (cands # <<>> /\ cands' = Tail(cands))))
  BY DEF Next, LinkStep, UplinkStep, ExecutorStep, NoticeClosed, ForgetHubIp, Gate, QueryMdns, SkipHost,
         ConnectFails, ConnectSucceeds, NoHub, AttachSocket, ClosePort, Notify, HubCloses, Goto,
         vars, task
<1> QED BY <1>1, <1>2, <1>3, <1>4

LEMMA CandidatesInvariance == Spec => [](IInv /\ Candidates)
<1>1. Init => Candidates
  BY DEF Init, Candidates
<1> QED BY <1>1, CandidatesKept, Invariance, PTL DEF Spec

-----------------------------------------------------------------------------
Reachable == connected /\ HOST2 \in listening

\* Where the task is when the node is not attached.
Unlinked(l) == NoLink /\ upc = l
Unaware     == Unlinked("gate") /\ s_attached
Ready       == Unlinked("gate") /\ ~s_attached
Trying(n)   == Unlinked("try") /\ Len(cands) # 0 /\ Len(cands) <= n
Spent       == Unlinked("try") /\ Len(cands) = 0
Hand(l)     == InHand /\ upc = l

LEMMA DetachedPlaces ==
    IInv => \/ Unlinked("notice") \/ Unlinked("clear") \/ Unaware \/ Ready \/ Unlinked("query")
            \/ Unlinked("try")
            \/ Hand("attached") \/ Hand("publish") \/ Attached
<1>1. InHand /\ upc = "port" => Attached
  BY NoFdIsNoDescriptor DEF InHand, Socket, Attached
<1>2. Served \/ Closing => Attached
  BY NoFdIsNoDescriptor DEF Served, Closing, Socket, Attached
<1> QED BY <1>1, <1>2 DEF IInv, NoLink, InHand, Unlinked, Unaware, Ready, Hand

LEMMA UnlinkedMoves ==
    ASSUME NoLink, [Next]_vars PROVE <<TaskStep>>_vars \/ UNCHANGED <<shared, task, stack>>
<1>1. ~StackStep
  BY DEF NoLink, NoSocket, StackStep, ExecutorStep, ClosePort, Notify
<1>2. ~\E f \in Fds : HubCloses(f)
  BY OpenNone DEF NoLink, HubCloses
<1> QED BY <1>1, <1>2, WhoMoves

LEMMA HandMoves ==
    ASSUME IInv, NEW l \in {"attached", "publish"}, Hand(l), [Next]_vars
    PROVE  <<TaskStep>>_vars \/ Hand(l)'
<1>1. ~StackStep
  BY DEF Hand, InHand, StackStep, ExecutorStep, ClosePort, Notify
<1>2. ASSUME UNCHANGED upc PROVE Hand(l)'
  BY <1>2, Inductive DEF IInv, Hand, NoLink, Served, Closing, Polling
<1> QED BY <1>1, <1>2, WhoMoves DEF HubCloses, task

\* A round gives up a candidate or opens a socket, and opens one for the last.
LEMMA TryingSteps ==
    ASSUME IInv, Candidates, Fds # {}, Reachable, TaskStep, NEW n \in Nat, Trying(n + 1)
    PROVE  Trying(n)' \/ Hand("attached")'
<1>1. /\ cands \in Seq(Hosts \cup {None}) /\ Len(cands) \in 1 .. n + 1 /\ upc = "try"
      /\ cands[Len(cands)] = HOST2
  BY EmptySeq DEF IInv, TypeOK, Trying, Unlinked, Candidates
<1>2. cands # <<>> /\ Head(cands) = cands[1] /\ Len(Tail(cands)) = Len(cands) - 1
  BY <1>1, HeadTailProperties, EmptySeq
<1>3. IInv'
  BY Inductive DEF TaskStep, Next, LinkStep
<1>4. CASE ConnectSucceeds
  BY <1>3, <1>4 DEF ConnectSucceeds, Goto, IInv, NoLink, Served, Closing, Polling, Hand
<1>5. CASE SkipHost \/ ConnectFails
  <2>1. cands' = Tail(cands) /\ UNCHANGED <<shared, upc, fd, stack>>
    BY <1>5 DEF SkipHost, ConnectFails
  <2>2. Unlinked("try")' /\ Len(cands') = Len(cands) - 1
    BY <1>2, <2>1 DEF Trying, Unlinked, NoLink, NoSocket, shared, stack
  <2>3. ASSUME Len(cands) = 1 PROVE FALSE
    <3>1. Head(cands) = HOST2 /\ HOST2 \in Hubs
      BY <1>1, <1>2, <2>3 DEF Reachable, IInv, TypeOK
    <3>2. ~hub_host_skip(HOST2)
      BY <3>1, LccUplinkAssumption DEF hub_host_skip, IInv, TypeOK, Hosts
    <3>3. OpenFds # Fds
      BY OpenNone DEF Trying, Unlinked, NoLink
    <3> QED BY <1>5, <3>1, <3>2, <3>3 DEF Reachable, SkipHost, ConnectFails
  <2>4. Len(cands') # 0 /\ Len(cands') <= n
    BY <1>1, <2>2, <2>3
  <2> QED BY <2>2, <2>4 DEF Trying
<1> QED BY <1>1, <1>2, <1>4, <1>5
        DEF TaskStep, UplinkStep, NoticeClosed, ForgetHubIp, Gate, QueryMdns, NoHub, AttachSocket

\* The way of the task to the next round and through a successful one.
LEMMA RoundSteps ==
    ASSUME IInv, TaskStep
    PROVE  /\ Unaware => Unlinked("notice")'
           /\ Unlinked("notice") => Unlinked("clear")' \/ Ready'
           /\ Unlinked("clear") => Ready'
           /\ Ready /\ Reachable => Unlinked("query")'
           /\ Unlinked("query") => Len(cands') # 0 /\ Unlinked("try")'
           /\ Spent => Unlinked("notice")'
           /\ Hand("attached") => Hand("publish")'
           /\ Hand("publish") => Attached'
<1> USE DEF TaskStep, UplinkStep, NoticeClosed, ForgetHubIp, Gate, SkipHost, ConnectFails,
            ConnectSucceeds, NoHub, AttachSocket, Goto
<1>1. IInv'
  BY Inductive DEF Next, LinkStep
<1>2. ASSUME Unaware PROVE Unlinked("notice")'
  BY <1>2 DEF QueryMdns, Unaware, Unlinked, NoLink, NoSocket, shared, stack
<1>3. ASSUME Unlinked("notice") PROVE Unlinked("clear")' \/ Ready'
  BY <1>3 DEF QueryMdns, Ready, Unlinked, NoLink, NoSocket, shared, stack, IInv, TypeOK
<1>4. ASSUME Ready, Reachable PROVE Unlinked("query")'
  BY <1>4 DEF QueryMdns, Ready, Reachable, Unlinked, NoLink, NoSocket, shared, stack
<1>5. ASSUME Unlinked("query") PROVE Len(cands') # 0 /\ Unlinked("try")'
  <2>1. QueryMdns
    BY <1>5 DEF Unlinked
  <2>2. Len(cands') # 0
    BY <2>1, QueryGivesCandidates, EmptySeq
  <2>3. upc' = "try" /\ UNCHANGED <<shared, fd, stack>>
    BY <2>1 DEF QueryMdns
  <2> QED BY <1>5, <2>2, <2>3 DEF Unlinked, NoLink, NoSocket, shared, stack
<1>6. ASSUME Spent PROVE Unlinked("notice")'
  <2>1. cands = <<>>
    BY <1>6, EmptySeq DEF Spent, IInv, TypeOK
  <2> QED BY <1>6, <2>1 DEF QueryMdns, Spent, Unlinked, NoLink, NoSocket, shared, stack
<1>7. ASSUME Hand("attached") PROVE Hand("publish")'
  BY <1>1, <1>7 DEF QueryMdns, Hand, IInv, NoLink, Served, Closing, Polling
<1>8. ASSUME Hand("publish") PROVE Attached'
  BY <1>8, NoFdIsNoDescriptor DEF QueryMdns, Hand, InHand, Socket, Attached
<1>9. ASSUME Unlinked("clear") PROVE Ready'
  BY <1>9 DEF QueryMdns, Ready, Unlinked, NoLink, NoSocket, shared, stack
<1> QED BY <1>2, <1>3, <1>4, <1>5, <1>6, <1>7, <1>8, <1>9

\* While a hub keeps accepting, nobody else moves a detached task, and none of
\* its places is left but by its own step.
LEMMA DetachedKept ==
    ASSUME IInv, [Next]_vars
    PROVE  /\ Unlinked("notice") => <<TaskStep>>_vars \/ Unlinked("notice")'
           /\ Unlinked("clear") => <<TaskStep>>_vars \/ Unlinked("clear")'
           /\ Unaware => <<TaskStep>>_vars \/ Unaware'
           /\ Ready => <<TaskStep>>_vars \/ Ready'
           /\ Unlinked("query") => <<TaskStep>>_vars \/ Unlinked("query")'
           /\ Spent => <<TaskStep>>_vars \/ Spent'
           /\ \A n \in Nat : Trying(n) => <<TaskStep>>_vars \/ Trying(n)'
<1>1. ASSUME NoLink, ~<<TaskStep>>_vars PROVE NoLink' /\ UNCHANGED <<upc, s_attached, cands>>
  BY <1>1, UnlinkedMoves DEF NoLink, NoSocket, shared, task, stack
<1> QED BY <1>1 DEF Unlinked, Unaware, Ready, Spent, Trying

\* A round with at most c + d hosts to try comes to at most c, or connects, or
\* the hub stops to be reachable.
Shrinks(c, d) ==
    Spec /\ TaskRuns => (Trying(c + d) ~> Trying(c) \/ Hand("attached") \/ ~Reachable)

LEMMA OneFewer == ASSUME Fds # {}, NEW c \in Nat PROVE Shrinks(c, 1)
<1> DEFINE A == Trying(c + 1)
           B == Trying(c)
           C == Hand("attached")
           Inv == IInv /\ Candidates
<1>1. Inv /\ [Next]_vars => (A => <<TaskStep>>_vars \/ A')
  <2>1. c + 1 \in Nat
    OBVIOUS
  <2> QED BY <2>1, DetachedKept
<1>2. Inv /\ <<TaskStep>>_vars /\ Reachable => (A => B' \/ C')
  BY TryingSteps
<1>3. Spec => []Inv
  BY CandidatesInvariance
<1> HIDE DEF A, B, C, Inv
<1>4. Spec /\ TaskRuns => (A ~> B \/ C \/ ~Reachable)
  BY <1>1, <1>2, <1>3, PTL DEF Spec, TaskRuns
<1> QED BY <1>4 DEF Shrinks, A, B, C

\* Twice as many, in two goes.  (The rule of induction cannot be applied to a
\* temporal formula here; doubling reaches any bound in a few steps.)
LEMMA TwiceFewer ==
    ASSUME NEW c \in Nat, NEW d \in Nat
    PROVE  Shrinks(c + d, d) /\ Shrinks(c, d) => Shrinks(c, d + d)
<1> DEFINE A == Trying(c + (d + d))
           B == Trying((c + d) + d)
           C == Trying(c + d)
           D == Trying(c)
           E == Hand("attached")
<1>1. A => B
  <2>1. c + (d + d) = (c + d) + d
    OBVIOUS
  <2> QED BY <2>1
<1>2. /\ Shrinks(c + d, d) <=> (Spec /\ TaskRuns => (B ~> C \/ E \/ ~Reachable))
      /\ Shrinks(c, d) <=> (Spec /\ TaskRuns => (C ~> D \/ E \/ ~Reachable))
      /\ Shrinks(c, d + d) <=> (Spec /\ TaskRuns => (A ~> D \/ E \/ ~Reachable))
  BY DEF Shrinks
<1> HIDE DEF A, B, C, D, E
<1> QED BY <1>1, <1>2, PTL

\* The bytes a 32-bit machine can address: no mDNS answer lists as many hosts.
Memory == 4294967296

\* If Wi-Fi stays up and HOST2 keeps accepting, the node is attached again and
\* again, whatever mDNS answers and however often hubs hang up.  It takes a
\* free descriptor, and an answer that fits in the machine.
THEOREM AttachesAgain ==
    Spec /\ TaskRuns /\ Fds # {} /\ MaxAddrs <= Memory => Reattaches
<1> SUFFICES ASSUME Fds # {}, MaxAddrs <= Memory PROVE Spec /\ TaskRuns => Reattaches
  OBVIOUS
<1> DEFINE A0 == Unlinked("clear")
           A1 == Unlinked("notice")
           A2 == Unlinked("query")
           A3 == Hand("attached")
           A4 == Hand("publish")
           Far == Trying(0 + 8589934592)
           Near == Trying(0)
           Inv == IInv /\ Candidates
           Q(d) == \A c \in Nat : Shrinks(c, d)
<1>1. Q(1)
  BY OneFewer
<1>2. \A d, m \in Nat : m = d + d /\ Q(d) => Q(m)
  BY TwiceFewer
<1> HIDE DEF Q, Far
<1>3. Q(2) /\ Q(4) /\ Q(8) /\ Q(16) /\ Q(32) /\ Q(64)
  BY <1>1, <1>2
<1>4. Q(128) /\ Q(256) /\ Q(512) /\ Q(1024) /\ Q(2048) /\ Q(4096)
  BY <1>2, <1>3, SMT
<1>5. Q(8192) /\ Q(16384) /\ Q(32768) /\ Q(65536) /\ Q(131072) /\ Q(262144)
  BY <1>2, <1>4, SMT
<1>6. Q(524288) /\ Q(1048576) /\ Q(2097152) /\ Q(4194304) /\ Q(8388608)
  BY <1>2, <1>5, SMT
<1>7. Q(16777216) /\ Q(33554432) /\ Q(67108864) /\ Q(134217728) /\ Q(268435456)
  BY <1>2, <1>6, SMT
<1>8. Q(536870912) /\ Q(1073741824) /\ Q(2147483648) /\ Q(4294967296) /\ Q(8589934592)
  BY <1>2, <1>7, SMT
<1>9. Shrinks(0, 8589934592)
  BY <1>8, SMT DEF Q
<1>10. Shrinks(0, 8589934592) <=> (Spec /\ TaskRuns => (Far ~> Near \/ A3 \/ ~Reachable))
  BY DEF Shrinks, Far
<1>11. Inv => ~Near
  <2>1. Inv => Len(cands) \in Nat
    BY LenProperties DEF IInv, TypeOK
  <2> QED BY <2>1 DEF Trying
<1>12. ASSUME IInv, Candidates, Unlinked("try") PROVE Spent \/ Far
  <2>1. Len(cands) \in Nat /\ Len(cands) <= MaxAddrs + 2
    BY <1>12, LenProperties DEF IInv, TypeOK, Candidates, Unlinked
  <2>2. Len(cands) <= 0 + 8589934592
    BY <2>1, LccUplinkAssumption, SMT DEF Memory
  <2> QED BY <1>12, <2>2, SMT DEF Trying, Spent, Far
<1>13. Inv => A0 \/ A1 \/ Unaware \/ Ready \/ A2 \/ Spent \/ Far \/ A3 \/ A4 \/ Attached
  BY <1>12, DetachedPlaces
<1>14. Inv /\ [Next]_vars =>
          /\ A0 => <<TaskStep>>_vars \/ A0'
          /\ A1 => <<TaskStep>>_vars \/ A1'
          /\ Unaware => <<TaskStep>>_vars \/ Unaware'
          /\ Ready => <<TaskStep>>_vars \/ Ready'
          /\ A2 => <<TaskStep>>_vars \/ A2'
          /\ Spent => <<TaskStep>>_vars \/ Spent'
          /\ A3 => <<TaskStep>>_vars \/ A3'
          /\ A4 => <<TaskStep>>_vars \/ A4'
  BY DetachedKept, HandMoves
<1>15. ASSUME IInv, Candidates, TaskStep, Unlinked("query") PROVE Far'
  <2>1. Unlinked("try")' /\ Len(cands') # 0
    BY <1>15, RoundSteps
  <2>2. IInv' /\ Candidates'
    BY <1>15, Inductive, CandidatesKept DEF TaskStep, Next, LinkStep
  <2>3. Len(cands') \in Nat /\ Len(cands') <= MaxAddrs + 2
    BY <2>1, <2>2, LenProperties DEF IInv, TypeOK, Candidates, Unlinked
  <2>4. Len(cands') <= 0 + 8589934592
    BY <2>1, <2>3, LccUplinkAssumption, SMT DEF Memory
  <2> QED BY <2>1, <2>4, SMT DEF Trying, Far
<1>16. Inv /\ <<TaskStep>>_vars =>
          /\ Unaware => A1'
          /\ A1 => A0' \/ Ready'
          /\ A0 => Ready'
          /\ Ready /\ Reachable => A2'
          /\ A2 => Far'
          /\ Spent => A1'
          /\ A3 => A4'
          /\ A4 => Attached'
  BY <1>15, RoundSteps
<1>17. Reattaches <=> (<>[]Reachable => []<>Attached)
  BY DEF Reattaches, Reachable
<1> HIDE DEF A0, A1, A2, A3, A4, Near, Inv
<1>18. Spec => []Inv
  BY CandidatesInvariance DEF Inv
<1> QED BY <1>9, <1>10, <1>11, <1>13, <1>14, <1>16, <1>17, <1>18, PTL DEF Spec, TaskRuns
=============================================================================
