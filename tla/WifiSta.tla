------------------------------ MODULE WifiSta ------------------------------
(***************************************************************************)
(* The Wi-Fi station of main/wifi_sta.cpp.  Three actors share its state:  *)
(*   - the main task calls wifi_sta_start once and then wifi_sta_wait;     *)
(*   - the event-loop task runs on_wifi and on_ip, one event at a time, in *)
(*     the order in which the events were posted;                          *)
(*   - the radio and the DHCP client (external) associate, lose the link   *)
(*     and obtain addresses, and post an event for each.  An address that  *)
(*     expires posts IP_EVENT_STA_LOST_IP, for which nobody is registered. *)
(* A handler is cut where another task can see the difference: after the   *)
(* address and the retry counter, after s_state, after the icon, and after *)
(* its last call (esp_wifi_connect or xEventGroupSetBits).                 *)
(***************************************************************************)
EXTENDS Naturals, Sequences

CONSTANTS Addrs,           \* the addresses DHCP may hand out
          NoIp,            \* the empty s_ip
          kMaxRetries,     \* 8 in the code
          ConnectMayFail,  \* whether esp_wifi_connect may return an error
          MaxEvents        \* bound: events queued when an address is renewed

ASSUME WifiStaAssumption ==
    /\ NoIp \notin Addrs
    /\ kMaxRetries \in Nat
    /\ ConnectMayFail \in BOOLEAN
    /\ MaxEvents \in Nat

VARIABLES s_state,    \* the published status
          s_ip,       \* the published address
          s_retries,  \* reconnects since the last address
          bits,       \* s_events: a subset of {"kGotIp", "kFail"}
          icon,       \* the Wi-Fi icon on the panel
          verdict,    \* what wifi_sta_wait returned; before, "none", and "timeout"
                      \* when no bit came and the status is still to be read
          queue,      \* events posted and not yet taken
          phase,      \* where the event-loop task is in a handler
          todo,       \* how the running handler ends
          radio,      \* external: the state of the radio
          lease,      \* external: the address the radio holds
          losses,     \* history: DISCONNECTED taken since the last GOT_IP
          refused     \* history: esp_wifi_connect has returned an error

published == <<s_state, s_ip, s_retries, bits, icon>>
handler   == <<queue, phase, todo, losses, refused>>
air       == <<radio, lease>>
vars      == <<published, verdict, handler, air>>

States == {"IDLE", "NO_PSK", "SEARCHING", "CONNECTED", "FAILED"}
Ends   == {"connect", "gotip", "fail"}
Started      == [id |-> "STA_START", ip |-> NoIp]
Disconnected == [id |-> "STA_DISCONNECTED", ip |-> NoIp]
GotIp(a)     == [id |-> "GOT_IP", ip |-> a]
Events == {Started, Disconnected} \cup {GotIp(a) : a \in Addrs}

Init ==
    /\ s_state = "IDLE" /\ s_ip = NoIp /\ s_retries = 0 /\ bits = {} /\ icon = "OFF"
    /\ verdict = "none"
    /\ queue = <<>> /\ phase = "idle" /\ todo = "connect" /\ losses = 0 /\ refused = FALSE
    /\ radio = "off" /\ lease = NoIp

\* The icon set_state draws for a status; IDLE and NO_PSK leave it dark.
IconOf(st) ==
    CASE st = "SEARCHING" -> "SEARCH"
      [] st = "CONNECTED" -> "OK"
      [] st = "FAILED"    -> "FAIL"
      [] OTHER            -> "OFF"

-----------------------------------------------------------------------------
(* The main task.                                                          *)

\* app_main calls it once, in the initial status.  No handler runs before
\* esp_wifi_start, so nobody sees the steps inside; esp_wifi_start is the last
\* one and its event is handled afterwards.
wifi_sta_start(has_credentials) ==
    /\ s_state = "IDLE"
    /\ \/ /\ ~has_credentials
          /\ s_state' = "NO_PSK" /\ icon' = IconOf("NO_PSK")
          /\ UNCHANGED <<s_ip, s_retries, bits, queue, radio>>
       \/ /\ has_credentials
          /\ s_state' = "SEARCHING" /\ icon' = IconOf("SEARCHING")
          /\ s_ip' = NoIp /\ s_retries' = 0 /\ bits' = {}
          /\ radio' = "idle" /\ queue' = Append(queue, Started)
    /\ UNCHANGED <<verdict, phase, todo, losses, refused, lease>>

\* xEventGroupWaitBits returns when a bit is set or after the timeout, which may
\* strike at any time.
WaitBits ==
    /\ radio # "off" /\ verdict = "none"
    /\ verdict' = IF "kGotIp" \in bits THEN "CONNECTED"
                  ELSE IF "kFail" \in bits THEN "FAILED" ELSE "timeout"
    /\ UNCHANGED <<published, handler, air>>

\* Mutant of WaitStatus: a station that still searches is reported as FAILED.
TimeoutFails ==
    /\ verdict = "timeout"
    /\ verdict' = IF s_state = "SEARCHING" THEN "FAILED" ELSE s_state
    /\ UNCHANGED <<published, handler, air>>

\* No bit came in time: the caller gets the status of now.
WaitStatus ==
    /\ verdict = "timeout"
    /\ verdict' = s_state
    /\ UNCHANGED <<published, handler, air>>

wifi_sta_wait == WaitBits \/ WaitStatus

-----------------------------------------------------------------------------
(* The event-loop task.                                                    *)

Take(id) == phase = "idle" /\ queue # <<>> /\ Head(queue).id = id
Begin(end) == queue' = Tail(queue) /\ phase' = "set" /\ todo' = end

OnStart ==
    /\ Take("STA_START")
    /\ Begin("connect")
    /\ UNCHANGED <<published, verdict, losses, refused, air>>

\* Mutant of OnDisconnected: the old address stays published.
OnDisconnectedKeepsIp ==
    /\ Take("STA_DISCONNECTED")
    /\ losses' = losses + 1
    /\ \/ s_retries < kMaxRetries /\ s_retries' = s_retries + 1 /\ Begin("connect")
       \/ s_retries >= kMaxRetries /\ s_retries' = s_retries /\ Begin("fail")
    /\ UNCHANGED <<s_state, s_ip, bits, icon, verdict, refused, air>>

OnDisconnected ==
    /\ Take("STA_DISCONNECTED")
    /\ s_ip' = NoIp
    /\ losses' = losses + 1
    /\ \/ s_retries < kMaxRetries /\ s_retries' = s_retries + 1 /\ Begin("connect")
       \/ s_retries >= kMaxRetries /\ s_retries' = s_retries /\ Begin("fail")
    /\ UNCHANGED <<s_state, bits, icon, verdict, refused, air>>

\* Mutant of OnGotIp: the retry budget is not restored.
OnGotIpKeepsRetries ==
    /\ Take("GOT_IP")
    /\ s_ip' = Head(queue).ip
    /\ losses' = 0
    /\ Begin("gotip")
    /\ UNCHANGED <<s_state, s_retries, bits, icon, verdict, refused, air>>

OnGotIp ==
    /\ Take("GOT_IP")
    /\ s_ip' = Head(queue).ip
    /\ s_retries' = 0
    /\ losses' = 0
    /\ Begin("gotip")
    /\ UNCHANGED <<s_state, bits, icon, verdict, refused, air>>

\* set_state, as each of the three ends of a handler calls it.
StateFor(end) ==
    CASE end = "connect" -> "SEARCHING" [] end = "gotip" -> "CONNECTED" [] end = "fail" -> "FAILED"

SetState ==
    /\ phase = "set" /\ phase' = "draw"
    /\ s_state' = StateFor(todo)
    /\ UNCHANGED <<s_ip, s_retries, bits, icon, verdict, queue, todo, losses, refused, air>>

DrawIcon ==
    /\ phase = "draw" /\ phase' = "end"
    /\ icon' = IconOf(StateFor(todo))
    /\ UNCHANGED <<s_state, s_ip, s_retries, bits, verdict, queue, todo, losses, refused, air>>

\* Mutant of Reconnect: esp_wifi_connect is not called again.
ReconnectForgotten ==
    /\ phase = "end" /\ todo = "connect" /\ phase' = "idle"
    /\ UNCHANGED <<published, verdict, queue, todo, losses, refused, air>>

\* Mutant of Reconnect: a station that gave up makes one more attempt.
ReconnectAfterFail ==
    /\ phase = "end" /\ todo \in {"connect", "fail"} /\ phase' = "idle"
    /\ radio = "idle" /\ radio' = "joining"
    /\ UNCHANGED <<published, verdict, queue, todo, losses, refused, lease>>

\* The result of esp_wifi_connect is discarded: if it fails, no attempt is
\* under way and no event will follow.
Reconnect ==
    /\ phase = "end" /\ todo = "connect" /\ phase' = "idle"
    /\ radio = "idle"
    /\ \/ radio' = "joining" /\ UNCHANGED refused
       \/ ConnectMayFail /\ refused' = TRUE /\ UNCHANGED radio
    /\ UNCHANGED <<published, verdict, queue, todo, losses, lease>>

\* Mutant of SignalBits: the two bits are swapped.
SignalBitsSwapped ==
    /\ phase = "end" /\ todo # "connect" /\ phase' = "idle"
    /\ bits' = bits \cup {IF todo = "gotip" THEN "kFail" ELSE "kGotIp"}
    /\ UNCHANGED <<s_state, s_ip, s_retries, icon, verdict, queue, todo, losses, refused, air>>

SignalBits ==
    /\ phase = "end" /\ todo # "connect" /\ phase' = "idle"
    /\ bits' = bits \cup {IF todo = "gotip" THEN "kGotIp" ELSE "kFail"}
    /\ UNCHANGED <<s_state, s_ip, s_retries, icon, verdict, queue, todo, losses, refused, air>>

HandlerStep ==
    OnStart \/ OnDisconnected \/ OnGotIp \/ SetState \/ DrawIcon \/ Reconnect \/ SignalBits

-----------------------------------------------------------------------------
(* The radio and DHCP (external).  An address is only announced for a link *)
(* whose loss has not been announced yet.                                  *)

Post(e) == queue' = Append(queue, e)

JoinOk ==
    /\ radio = "joining" /\ radio' = "joined"
    /\ UNCHANGED <<published, verdict, handler, lease>>

JoinFails ==
    /\ radio = "joining" /\ radio' = "idle" /\ Post(Disconnected)
    /\ UNCHANGED <<published, verdict, phase, todo, losses, refused, lease>>

Lease ==
    /\ radio = "joined" /\ radio' = "up"
    /\ \E a \in Addrs : lease' = a /\ Post(GotIp(a))
    /\ UNCHANGED <<published, verdict, phase, todo, losses, refused>>

\* The same address again, another one, or one after the last one expired.
Renew ==
    /\ radio \in {"up", "expired"} /\ radio' = "up"
    /\ Len(queue) < MaxEvents
    /\ \E a \in Addrs : lease' = a /\ Post(GotIp(a))
    /\ UNCHANGED <<published, verdict, phase, todo, losses, refused>>

\* The lease ran out and was not renewed; the station stays associated.
LeaseExpires ==
    /\ radio = "up" /\ radio' = "expired"
    /\ lease' = NoIp
    /\ UNCHANGED <<published, verdict, handler>>

LinkLost ==
    /\ radio \in {"joined", "up", "expired"} /\ radio' = "idle"
    /\ lease' = NoIp /\ Post(Disconnected)
    /\ UNCHANGED <<published, verdict, phase, todo, losses, refused>>

JoinEnds    == JoinOk \/ JoinFails
Environment == JoinEnds \/ Lease \/ Renew \/ LeaseExpires \/ LinkLost

-----------------------------------------------------------------------------
Next ==
    \/ \E has_credentials \in BOOLEAN : wifi_sta_start(has_credentials)
    \/ wifi_sta_wait
    \/ HandlerStep
    \/ Environment

Spec == Init /\ [][Next]_vars

\* The event-loop task is scheduled, and the driver ends an association attempt
\* one way or the other.  Nothing is assumed of DHCP.
Fairness ==
    /\ WF_vars(HandlerStep)
    /\ WF_vars(JoinEnds)
FairSpec == Spec /\ Fairness

-----------------------------------------------------------------------------
TypeOK ==
    /\ s_state \in States
    /\ s_ip \in Addrs \cup {NoIp}
    /\ s_retries \in 0 .. kMaxRetries
    /\ bits \subseteq {"kGotIp", "kFail"}
    /\ icon \in {"OFF", "SEARCH", "OK", "FAIL"}
    /\ verdict \in {"none", "timeout"} \cup States
    /\ queue \in Seq(Events)
    /\ phase \in {"idle", "set", "draw", "end"}
    /\ todo \in Ends
    /\ radio \in {"off", "idle", "joining", "joined", "up", "expired"}
    /\ lease \in Addrs \cup {NoIp}
    /\ losses \in 0 .. kMaxRetries + 1
    /\ refused \in BOOLEAN

Settled == phase = "idle" /\ queue = <<>> /\ radio # "off"

\* Once every event is handled, what the other tasks and the panel are shown
\* is what the radio is: CONNECTED with the leased address exactly while the
\* link is up, however the losses, leases and renewals interleaved.  The one
\* untruth is an address that expired: it stays published, as CONNECTED, until
\* the next lease or the loss of the link.
StatusTruthful ==
    Settled =>
        /\ s_state = "CONNECTED" <=> radio \in {"up", "expired"}
        /\ IF radio = "expired" THEN s_ip \in Addrs ELSE s_ip = lease
        /\ icon = IconOf(s_state)

\* A station that shows SEARCHING has something under way that can end it: an
\* attempt, an association waiting for its address, an event to handle or a
\* handler that is running.  The one exception is an esp_wifi_connect that was
\* refused: nothing follows it.
NeverStranded ==
    s_state = "SEARCHING" => ~Settled \/ radio \in {"joining", "joined"} \/ refused

\* FAILED is reported after kMaxRetries + 1 losses in a row without an address
\* between them, never sooner; one loss less never gives up.
RetryBudget == s_state = "FAILED" <=> losses > kMaxRetries /\ phase # "set"

\* Whoever wakes on an event bit finds the status it stands for published,
\* with its icon and address: kFail at once and for good, kGotIp until the
\* next loss is taken.
BitsFollowStatus ==
    /\ "kFail" \in bits => s_state = "FAILED" /\ icon = "FAIL" /\ s_ip = NoIp
    /\ "kGotIp" \in bits /\ losses = 0 /\ phase = "idle" =>
          s_state = "CONNECTED" /\ icon = "OK" /\ s_ip # NoIp

\* The main task is told FAILED only about a station that has given up: whenever
\* the wait ends and however long the status is read behind it, no link, no
\* address and no event is left that could overtake the verdict.
FailedVerdictIsFinal ==
    verdict = "FAILED" =>
        s_state = "FAILED" /\ s_ip = NoIp /\ radio = "idle" /\ queue = <<>>

\* Giving up is final: nothing leaves FAILED, no attempt is made after it.
GiveUpIsFinal ==
    [][s_state = "FAILED" => s_state' = "FAILED" /\ radio' = radio]_vars

\* A started station keeps coming back to a definite answer, CONNECTED or
\* FAILED.  There are two ways to search for ever: esp_wifi_connect was refused,
\* or the station stays associated with a network that gives it no address,
\* for which wifi_sta.cpp has no timeout and counts no retry.
SettlesAgain ==
    \/ radio # "off" ~> s_state \in {"CONNECTED", "FAILED"} \/ refused
    \/ <>[](radio = "joined")
=============================================================================
