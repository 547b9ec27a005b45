--------------------------- MODULE SvcReachProofs ---------------------------
(***************************************************************************)
(* Proofs about the reachability probe, for any hosts and any network: the *)
(* web hosts it asks are usable, and its icons come to show the truth, the *)
(* second a liveness property.  The provers know nothing of ENABLED, so    *)
(* fairness is stated as what it comes to for a task that always has a     *)
(* next step (ProbeRuns); the round of probe_task has finitely many        *)
(* places, and the argument goes from place to place.                      *)
(***************************************************************************)
EXTENDS SvcReach, TLAPS

\* A step of probe_task, and that it never stops: what FairSpec gives, since
\* every place of the round has a step and no step leaves the task as it was.
Round == ProbeStep /\ UNCHANGED <<inputs, net>>
ProbeRuns == []<><<Round>>_vars

-----------------------------------------------------------------------------
(* Types.                                                                  *)

\* The hosts to try are machines of the network, never an address that is
\* rejected, and the hub comes first.
LEMMA WebHostsUsable ==
    ASSUME NEW ip \in Hosts \cup {None}
    PROVE  /\ svc_reach_web_hosts(ip, MONITOR) \in Seq(Hosts)
           /\ Len(svc_reach_web_hosts(ip, MONITOR)) <= 2
           /\ ip \in Hosts => /\ svc_reach_web_hosts(ip, MONITOR) # <<>>
                              /\ Head(svc_reach_web_hosts(ip, MONITOR)) = ip
<1> DEFINE first == IF svc_reach_host_usable(ip) THEN <<ip>> ELSE <<>>
<1>1. first \in Seq(Hosts) /\ Len(first) <= 1
  BY DEF svc_reach_host_usable
<1>2. svc_reach_host_usable(MONITOR) => MONITOR \in Hosts
  BY SvcReachAssumption DEF svc_reach_host_usable
<1>3. MONITOR \in Hosts => Append(first, MONITOR) \in Seq(Hosts) /\ Len(Append(first, MONITOR)) <= 2
  BY <1>1
<1>4. \/ svc_reach_web_hosts(ip, MONITOR) = first
      \/ /\ svc_reach_host_usable(MONITOR)
         /\ svc_reach_web_hosts(ip, MONITOR) = Append(first, MONITOR)
  BY DEF svc_reach_web_hosts
<1>5. ip \in Hosts => /\ first = <<ip>> /\ first # <<>> /\ Head(first) = ip
                      /\ MONITOR \in Hosts => /\ Append(first, MONITOR) # <<>>
                                              /\ Head(Append(first, MONITOR)) = ip
  <2> SUFFICES ASSUME ip \in Hosts
               PROVE  /\ first = <<ip>> /\ first # <<>> /\ Head(first) = ip
                      /\ MONITOR \in Hosts => /\ Append(first, MONITOR) # <<>>
                                              /\ Head(Append(first, MONITOR)) = ip
    OBVIOUS
  <2>1. first = <<ip>>
    BY SvcReachAssumption DEF svc_reach_host_usable
  <2>2. ASSUME NEW s \in Seq(Hosts), Len(s) > 0, s[1] = ip PROVE s # <<>> /\ Head(s) = ip
    BY <2>2
  <2>3. ASSUME MONITOR \in Hosts
        PROVE  LET s == Append(<<ip>>, MONITOR) IN s \in Seq(Hosts) /\ Len(s) > 0 /\ s[1] = ip
    BY <2>3
  <2> HIDE DEF first
  <2> QED BY <2>1, <2>2, <2>3
<1> HIDE DEF first
<1> QED BY <1>1, <1>2, <1>3, <1>4, <1>5

\* What a step of the round does to the list of hosts.
LEMMA HostsTyped == ASSUME TypeOK, ProbeStep PROVE hosts' \in Seq(Hosts) /\ Len(hosts') <= 2
<1>1. CASE PickWebHosts
  BY <1>1, WebHostsUsable DEF PickWebHosts, TypeOK, UplinkShows
<1>2. CASE ProbeWeb
  <2>1. (hosts # <<>> /\ hosts' = Tail(hosts)) \/ hosts' = <<>>
    BY <1>2 DEF ProbeWeb
  <2>2. hosts # <<>> => Tail(hosts) \in Seq(Hosts) /\ Len(Tail(hosts)) <= 2
    BY DEF TypeOK
  <2>3. <<>> \in Seq(Hosts) /\ Len(<<>>) <= 2
    OBVIOUS
  <2>4. CASE hosts # <<>> /\ hosts' = Tail(hosts)
    BY <2>2, <2>4
  <2>5. CASE hosts' = <<>>
    BY ONLY <2>3, <2>5
  <2> QED BY ONLY <2>1, <2>4, <2>5
<1>3. CASE UNCHANGED hosts
  BY <1>3 DEF TypeOK
<1> QED BY <1>1, <1>2, <1>3 DEF ProbeStep, StartOff, CheckWifi, PaintDown, PaintJmri, ProbeLcc,
            AskUplink, PaintLcc

LEMMA Typed == TypeOK /\ [Next]_vars => TypeOK'
<1> SUFFICES ASSUME TypeOK, [Next]_vars PROVE TypeOK'
  OBVIOUS
<1> USE DEF TypeOK
<1>1. CASE ProbeStep /\ UNCHANGED <<inputs, net>>
  <2>1. /\ connected' \in BOOLEAN /\ UplinkShows(attached, hub_ip)'
        /\ web' \subseteq Hosts /\ lcc' \subseteq Hosts
    BY <1>1 DEF inputs, net, UplinkShows
  <2>2. ppc' \in Labels /\ up' \in BOOLEAN /\ jmri_icon' \in Icons /\ lcc_icon' \in Icons
    BY <1>1 DEF ProbeStep, StartOff, CheckWifi, PaintDown, PickWebHosts, ProbeWeb, PaintJmri,
                ProbeLcc, AskUplink, PaintLcc, Goto, Paint, Labels, Icons, tcp_is_open,
                svc_reach_lcc_icon_ok, UplinkShows
  <2> QED BY <1>1, <2>1, <2>2, HostsTyped
<1>2. CASE InputsChange
  BY <1>2 DEF InputsChange, net, task, UplinkShows
<1>3. CASE ServersChange
  BY <1>3 DEF ServersChange, inputs, task, UplinkShows
<1>4. CASE UNCHANGED vars
  BY <1>4 DEF vars, inputs, net, task, UplinkShows
<1> QED BY <1>1, <1>2, <1>3, <1>4 DEF Next

LEMMA InitTyped == Init => TypeOK
<1> SUFFICES ASSUME Init PROVE TypeOK
  OBVIOUS
<1>1. connected \in BOOLEAN /\ UplinkShows(attached, hub_ip)
  BY DEF Init
<1>2. hosts \in Seq(Hosts) /\ Len(hosts) <= 2
  BY DEF Init
<1>3. web \subseteq Hosts /\ lcc \subseteq Hosts /\ up \in BOOLEAN
  BY DEF Init
<1>4. ppc \in Labels /\ jmri_icon \in Icons /\ lcc_icon \in Icons
  BY DEF Init, Labels, Icons
<1> QED BY <1>1, <1>2, <1>3, <1>4 DEF TypeOK

\* The hosts a round asks for the JMRI web server are usable, and at most two:
\* the copied hub address and the monitor host pass the same test
\* (svc_reach_web_hosts).  The configured GridConnect hosts pass none.
THEOREM TypeCorrect == Spec => []TypeOK
BY InitTyped, Typed, PTL DEF Spec

-----------------------------------------------------------------------------
(* The way through a round.                                                *)

\* The task at the web port, with n hosts left to try.
AtWeb(n) == ppc = "web" /\ Len(hosts) = n

\* Only the task itself moves the task.
LEMMA OnlyRoundsMove == [Next]_vars => <<Round>>_vars \/ UNCHANGED task
BY DEF Next, Round, vars, InputsChange, ServersChange

\* Where a step leads from each place.
LEMMA Places ==
    ASSUME TypeOK, <<Round>>_vars
    PROVE  /\ ppc = "off_jmri" => (ppc = "off_lcc")'
           /\ ppc = "off_lcc" => (ppc = "loop")'
           /\ ppc = "loop" => IF connected THEN (ppc = "pick")' ELSE (ppc = "down_jmri")'
           /\ ppc = "down_jmri" => (ppc = "down_lcc")'
           /\ ppc = "down_lcc" => (ppc = "loop")'
           /\ ppc = "pick" => (ppc = "web")'
           /\ ppc = "web" => (ppc = "web")' \/ (ppc = "paint_jmri")'
           /\ AtWeb(2) => AtWeb(1)' \/ (ppc = "paint_jmri")'
           /\ AtWeb(1) => AtWeb(0)' \/ (ppc = "paint_jmri")'
           /\ AtWeb(0) => (ppc = "paint_jmri")'
           /\ ppc = "paint_jmri" => (ppc = "lcc_host")'
           /\ ppc = "lcc_host" => (ppc = "lcc_host2")' \/ (ppc = "ask_uplink")'
           /\ ppc = "lcc_host2" => (ppc = "ask_uplink")'
           /\ ppc = "ask_uplink" => (ppc = "paint_lcc")'
           /\ ppc = "paint_lcc" => (ppc = "loop")'
<1> USE DEF Round, ProbeStep, StartOff, CheckWifi, PaintDown, PickWebHosts, ProbeWeb, PaintJmri,
            ProbeLcc, AskUplink, PaintLcc, Goto
<1>1. ASSUME ppc = "web"
      PROVE  /\ AtWeb(2) => AtWeb(1)' \/ (ppc = "paint_jmri")'
             /\ AtWeb(1) => AtWeb(0)' \/ (ppc = "paint_jmri")'
             /\ AtWeb(0) => (ppc = "paint_jmri")'
  <2>1. hosts \in Seq(Hosts)
    BY DEF TypeOK
  <2>2. ProbeWeb
    BY <1>1
  <2>3. CASE hosts # <<>> /\ hosts' = Tail(hosts) /\ ppc' = ppc
    <3>1. Len(hosts') = Len(hosts) - 1
      BY <2>1, <2>3
    <3>2. Len(hosts) # 0
      BY <2>1, <2>3
    <3> QED BY <1>1, <2>3, <3>1, <3>2 DEF AtWeb
  <2>4. CASE ppc' = "paint_jmri"
    BY <2>4
  <2> QED BY <2>2, <2>3, <2>4
<1>2. ppc # "web" => ~AtWeb(0) /\ ~AtWeb(1) /\ ~AtWeb(2)
  BY DEF AtWeb
<1> QED BY <1>1, <1>2

LEMMA AtWebHow == TypeOK => (ppc = "web" => AtWeb(0) \/ AtWeb(1) \/ AtWeb(2))
<1> SUFFICES ASSUME TypeOK, ppc = "web" PROVE Len(hosts) \in {0, 1, 2}
  BY DEF AtWeb
<1>1. hosts \in Seq(Hosts) /\ Len(hosts) <= 2
  BY DEF TypeOK
<1>2. Len(hosts) \in Nat
  BY <1>1
<1>3. \A n \in Nat : n <= 2 => n \in {0, 1, 2}
  OBVIOUS
<1> QED BY ONLY <1>1, <1>2, <1>3

\* probe_task comes back to the top of its loop, and gets through both probes.
LEMMA Rounds ==
    Spec /\ ProbeRuns =>
        /\ []<>(ppc = "loop")
        /\ (ppc = "pick") ~> (ppc = "paint_jmri")
        /\ (ppc = "paint_jmri") ~> (ppc = "paint_lcc")
<1>1. UNCHANGED task =>
          /\ ppc = "off_jmri" => (ppc = "off_jmri")'
          /\ ppc = "off_lcc" => (ppc = "off_lcc")'
          /\ ppc = "loop" => (ppc = "loop")'
          /\ ppc = "down_jmri" => (ppc = "down_jmri")'
          /\ ppc = "down_lcc" => (ppc = "down_lcc")'
          /\ ppc = "pick" => (ppc = "pick")'
          /\ AtWeb(2) => AtWeb(2)'
          /\ AtWeb(1) => AtWeb(1)'
          /\ AtWeb(0) => AtWeb(0)'
          /\ ppc = "paint_jmri" => (ppc = "paint_jmri")'
          /\ ppc = "lcc_host" => (ppc = "lcc_host")'
          /\ ppc = "lcc_host2" => (ppc = "lcc_host2")'
          /\ ppc = "ask_uplink" => (ppc = "ask_uplink")'
          /\ ppc = "paint_lcc" => (ppc = "paint_lcc")'
  BY DEF task, AtWeb
<1>2. TypeOK => \/ ppc = "off_jmri" \/ ppc = "off_lcc" \/ ppc = "loop" \/ ppc = "down_jmri"
                \/ ppc = "down_lcc" \/ ppc = "pick" \/ ppc = "web" \/ ppc = "paint_jmri"
                \/ ppc = "lcc_host" \/ ppc = "lcc_host2" \/ ppc = "ask_uplink" \/ ppc = "paint_lcc"
  BY DEF TypeOK, Labels
<1> QED BY <1>1, <1>2, AtWebHow, Places, OnlyRoundsMove, TypeCorrect, PTL DEF Spec, ProbeRuns

-----------------------------------------------------------------------------
(* What the icons come to show.  Each argument has the same shape: from    *)
(* the first top of the loop after the world stopped changing, the task    *)
(* knows only what is true now (Fresh...), so what it paints is true, and  *)
(* it paints both icons again.                                             *)

\* What a step of the task changes besides its place.
LEMMA Effects ==
    ASSUME <<Round>>_vars
    PROVE  /\ jmri_icon' = CASE ppc = "off_jmri" -> "OFF" [] ppc = "down_jmri" -> "FAIL"
                             [] ppc = "paint_jmri" -> Paint(up) [] OTHER -> jmri_icon
           /\ lcc_icon' = CASE ppc = "off_lcc" -> "OFF" [] ppc = "down_lcc" -> "FAIL"
                            [] ppc = "paint_lcc" -> Paint(up) [] OTHER -> lcc_icon
           /\ ppc = "pick" => hosts' = svc_reach_web_hosts(hub_ip, MONITOR)
           /\ ppc = "web" /\ ppc' = "paint_jmri" => up' = (hosts # <<>>)
           /\ ppc = "web" /\ hosts # <<>> /\ Head(hosts) \in web \ {None} => ppc' = "paint_jmri"
           /\ ppc = "web" /\ ppc' = "paint_jmri" /\ hosts # <<>> => Head(hosts) \in web
           /\ ppc = "lcc_host" => up' = tcp_is_open(HOST, lcc)
           /\ ppc = "lcc_host2" => up' = tcp_is_open(HOST2, lcc)
           /\ ppc = "ask_uplink" => up' = (attached \/ up)
           /\ UNCHANGED <<inputs, net>>
<1> USE DEF Round, ProbeStep, StartOff, CheckWifi, PaintDown, PickWebHosts, ProbeWeb, PaintJmri,
            ProbeLcc, AskUplink, PaintLcc, Goto
<1>1. /\ jmri_icon' = CASE ppc = "off_jmri" -> "OFF" [] ppc = "down_jmri" -> "FAIL"
                        [] ppc = "paint_jmri" -> Paint(up) [] OTHER -> jmri_icon
      /\ lcc_icon' = CASE ppc = "off_lcc" -> "OFF" [] ppc = "down_lcc" -> "FAIL"
                       [] ppc = "paint_lcc" -> Paint(up) [] OTHER -> lcc_icon
  OBVIOUS
<1>2. /\ ppc = "pick" => hosts' = svc_reach_web_hosts(hub_ip, MONITOR)
      /\ ppc = "lcc_host" => up' = tcp_is_open(HOST, lcc)
      /\ ppc = "lcc_host2" => up' = tcp_is_open(HOST2, lcc)
      /\ ppc = "ask_uplink" => up' = (attached \/ up)
  BY DEF svc_reach_lcc_icon_ok
<1>3. /\ ppc = "web" /\ ppc' = "paint_jmri" => up' = (hosts # <<>>)
      /\ ppc = "web" /\ hosts # <<>> /\ Head(hosts) \in web \ {None} => ppc' = "paint_jmri"
      /\ ppc = "web" /\ ppc' = "paint_jmri" /\ hosts # <<>> => Head(hosts) \in web
  BY DEF tcp_is_open
<1> QED BY <1>1, <1>2, <1>3

FreshDown == ppc \in {"loop", "down_jmri", "down_lcc"}

\* Off Wi-Fi both icons turn red and stay red, whatever round was under way
\* when the link went down (probe_task).
THEOREM DownEndsRed == Spec /\ ProbeRuns => DownShowsFail
<1> DEFINE RedJ == jmri_icon = "FAIL"
           RedL == lcc_icon = "FAIL"
<1>1. ppc = "loop" => FreshDown
  BY DEF FreshDown
<1>2. TypeOK /\ FreshDown /\ ~connected /\ [Next]_vars =>
          FreshDown' /\ (RedJ => RedJ') /\ (RedL => RedL')
  BY OnlyRoundsMove, Places, Effects DEF FreshDown, task
<1>3. TypeOK /\ <<Round>>_vars =>
          /\ ~connected /\ ppc = "loop" => (ppc = "down_jmri")'
          /\ ppc = "down_jmri" => (ppc = "down_lcc")' /\ RedJ'
          /\ ppc = "down_lcc" => RedL'
  BY Places, Effects
<1>4. UNCHANGED task => /\ ppc = "loop" => (ppc = "loop")'
                        /\ ppc = "down_jmri" => (ppc = "down_jmri")'
                        /\ ppc = "down_lcc" => (ppc = "down_lcc")'
  BY DEF task
<1>5. DownShowsFail <=> (<>[]~connected => <>[](RedJ /\ RedL))
  BY DEF DownShowsFail
<1> HIDE DEF RedJ, RedL
<1> QED BY <1>1, <1>2, <1>3, <1>4, <1>5, OnlyRoundsMove, Rounds, TypeCorrect, PTL
        DEF Spec, ProbeRuns

FreshLcc ==
    /\ ppc \notin {"off_jmri", "off_lcc", "down_jmri", "down_lcc"}
    /\ ppc = "paint_lcc" => up

\* A lasting attachment shows green, whether or not a static host answers
\* (svc_reach_lcc_icon_ok).
THEOREM AttachedEndsGreen == Spec /\ ProbeRuns => AttachedShowsOk
<1> DEFINE C == connected /\ attached
           Ok == lcc_icon = "OK"
<1>1. ppc = "loop" => FreshLcc
  BY DEF FreshLcc
<1>2. TypeOK /\ FreshLcc /\ C /\ [Next]_vars => FreshLcc' /\ (Ok => Ok')
  BY OnlyRoundsMove, Places, Effects DEF FreshLcc, task, Paint, TypeOK, Labels
<1>3. TypeOK /\ <<Round>>_vars =>
          /\ C /\ ppc = "loop" => (ppc = "pick")'
          /\ FreshLcc /\ ppc = "paint_lcc" => Ok'
  BY Places, Effects DEF FreshLcc, Paint
<1>4. UNCHANGED task => /\ ppc = "loop" => (ppc = "loop")'
                        /\ ppc = "paint_lcc" => (ppc = "paint_lcc")'
  BY DEF task
<1>5. AttachedShowsOk <=> (<>[]C => <>[]Ok)
  BY DEF AttachedShowsOk
<1> HIDE DEF C, Ok
<1> QED BY <1>1, <1>2, <1>3, <1>4, <1>5, OnlyRoundsMove, Rounds, TypeCorrect, PTL
        DEF Spec, ProbeRuns

\* h is the hub of the uplink and its web server answers.
FreshWeb(h) ==
    /\ ppc \notin {"off_jmri", "off_lcc", "down_jmri", "down_lcc"}
    /\ ppc = "web" => hosts # <<>> /\ Head(hosts) = h
    /\ ppc = "paint_jmri" => up

\* If the hub's own web server answers, the icon turns green although a monitor
\* host is configured and does not answer (probe_jmri_web).
THEOREM HubWebEndsGreen == Spec /\ ProbeRuns => HubWebShowsOk
<1> DEFINE C(h) == connected /\ hub_ip = h /\ h \in web
           Ok == jmri_icon = "OK"
<1>1. ASSUME NEW h \in Hosts
      PROVE  Spec /\ ProbeRuns => (<>[]C(h) => <>[]Ok)
  <2>1. ppc = "loop" => FreshWeb(h)
    BY DEF FreshWeb
  <2>2. TypeOK /\ FreshWeb(h) /\ C(h) /\ [Next]_vars => FreshWeb(h)' /\ (Ok => Ok')
    <3> SUFFICES ASSUME TypeOK, FreshWeb(h), C(h), <<Round>>_vars
                 PROVE  FreshWeb(h)' /\ (Ok => Ok')
      BY OnlyRoundsMove DEF FreshWeb, task
    <3>1. ppc = "pick" => hosts' # <<>> /\ Head(hosts') = h
      BY Effects, WebHostsUsable
    <3>2. ppc = "web" => ppc' = "paint_jmri" /\ up'
      BY Effects, SvcReachAssumption DEF FreshWeb
    <3> QED BY <3>1, <3>2, Places, Effects DEF FreshWeb, Paint, TypeOK, Labels
  <2>3. TypeOK /\ <<Round>>_vars =>
            /\ C(h) /\ ppc = "loop" => (ppc = "pick")'
            /\ FreshWeb(h) /\ ppc = "paint_jmri" => Ok'
    BY Places, Effects DEF FreshWeb, Paint
  <2>4. UNCHANGED task => /\ ppc = "loop" => (ppc = "loop")'
                          /\ ppc = "paint_jmri" => (ppc = "paint_jmri")'
    BY DEF task
  <2> HIDE DEF C, Ok
  <2> QED BY <2>1, <2>2, <2>3, <2>4, OnlyRoundsMove, Rounds, TypeCorrect, PTL
          DEF Spec, ProbeRuns
<1>2. HubWebShowsOk <=> \A h \in Hosts : <>[]C(h) => <>[]Ok
  BY DEF HubWebShowsOk
<1> HIDE DEF C, Ok
<1> QED BY <1>1, <1>2

FreshNothing == ppc \in {"paint_jmri", "ask_uplink", "paint_lcc"} => ~up

\* With nothing attached and nobody listening, no green is left over from what
\* an earlier round had found (probe_task).
THEOREM NothingEndsRed == Spec /\ ProbeRuns => NothingShowsFail
<1> DEFINE C == ~attached /\ web = {} /\ lcc = {}
           NotJ == jmri_icon # "OK"
           NotL == lcc_icon # "OK"
<1>1. ppc = "loop" => FreshNothing
  BY DEF FreshNothing
<1>2. TypeOK /\ FreshNothing /\ C /\ [Next]_vars =>
          FreshNothing' /\ (NotJ => NotJ') /\ (NotL => NotL')
  <2> SUFFICES ASSUME TypeOK, FreshNothing, C, <<Round>>_vars
               PROVE  FreshNothing' /\ (NotJ => NotJ') /\ (NotL => NotL')
    BY OnlyRoundsMove DEF FreshNothing, task
  <2>1. FreshNothing'
    BY Places, Effects DEF FreshNothing, tcp_is_open, TypeOK, Labels
  <2>2. (NotJ => NotJ') /\ (NotL => NotL')
    BY Effects DEF FreshNothing, Paint
  <2> QED BY <2>1, <2>2
<1>3. TypeOK /\ <<Round>>_vars =>
          /\ ppc = "loop" => (ppc = "pick")' \/ (ppc = "down_jmri")'
          /\ ppc = "down_jmri" => (ppc = "down_lcc")' /\ NotJ'
          /\ ppc = "down_lcc" => NotL'
          /\ FreshNothing /\ ppc = "paint_jmri" => NotJ'
          /\ FreshNothing /\ ppc = "paint_lcc" => NotL'
  BY Places, Effects DEF FreshNothing, Paint
<1>4. UNCHANGED task => /\ ppc = "loop" => (ppc = "loop")'
                        /\ ppc = "down_jmri" => (ppc = "down_jmri")'
                        /\ ppc = "down_lcc" => (ppc = "down_lcc")'
                        /\ ppc = "paint_jmri" => (ppc = "paint_jmri")'
                        /\ ppc = "paint_lcc" => (ppc = "paint_lcc")'
  BY DEF task
<1>5. NothingShowsFail <=> (<>[]C => <>[](NotJ /\ NotL))
  BY DEF NothingShowsFail
<1> HIDE DEF C, NotJ, NotL
<1> QED BY <1>1, <1>2, <1>3, <1>4, <1>5, OnlyRoundsMove, Rounds, TypeCorrect, PTL
        DEF Spec, ProbeRuns
=============================================================================
