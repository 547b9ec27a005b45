--------------------------- MODULE WifiStaProofs ---------------------------
(***************************************************************************)
(* Proofs about the Wi-Fi station: for every retry budget, every set of    *)
(* addresses and every number of renewals, the safety properties of        *)
(* WifiSta follow from one inductive invariant.  It says how far the       *)
(* radio, the queue of events and the running handler can be apart.  The   *)
(* last section proves that a started station comes to an answer.          *)
(***************************************************************************)
EXTENDS WifiSta, SequenceTheorems, TLAPS

\* Before wifi_sta_start nothing has been posted or signalled, and only then
\* is the status IDLE or NO_PSK.
Quiet ==
    /\ radio = "off" =>
          /\ s_state \in {"IDLE", "NO_PSK"} /\ queue = <<>> /\ phase = "idle"
          /\ todo = "connect" /\ bits = {} /\ verdict = "none" /\ losses = 0
    /\ radio # "off" => s_state \notin {"IDLE", "NO_PSK"}

\* A loss (or the start) is the last event of the queue, and the radio then
\* waits for it to be handled; every other event is an address.
QueueShape ==
    /\ \A i \in 1 .. Len(queue) :
          /\ queue[i].id # "GOT_IP" => i = Len(queue) /\ radio = "idle"
          /\ queue[i].id = "STA_START" => i = 1 /\ phase = "idle" /\ todo = "connect"
    /\ radio \in {"joining", "joined"} => queue = <<>> /\ phase = "idle" /\ todo = "connect"
    /\ radio = "idle" /\ queue # <<>> =>
          queue[Len(queue)].id # "GOT_IP" /\ (phase # "idle" => todo = "gotip")
    /\ radio = "idle" /\ queue = <<>> =>
          todo # "gotip" /\ (phase = "idle" => refused \/ todo = "fail")

\* The address on its way to s_ip, or in it, is the one the radio holds.
AddressFollows ==
    /\ radio # "up" => lease = NoIp
    /\ radio \in {"up", "expired"} => (phase # "idle" \/ queue = <<>> => todo = "gotip")
    /\ radio = "up" => lease # NoIp
    /\ radio = "up" /\ queue # <<>> => queue[Len(queue)].ip = lease
    /\ radio = "up" /\ queue = <<>> => s_ip = lease
    /\ s_ip = NoIp <=> todo # "gotip"
    /\ \A i \in 1 .. Len(queue) : queue[i].id = "GOT_IP" => queue[i].ip # NoIp

\* The status and the icon are those of the last handler, as far as it got.
PublishedByPhase ==
    radio # "off" =>
        /\ phase # "set" => s_state = StateFor(todo)
        /\ phase \in {"end", "idle"} => icon = IconOf(StateFor(todo))

\* The losses counted and the budget spent differ only once the station gave
\* up, and then nothing is left that could undo it.
BudgetSpent ==
    /\ todo = "fail" <=> losses > kMaxRetries
    /\ todo # "fail" => losses = s_retries
    /\ todo = "fail" => radio = "idle" /\ queue = <<>>
    /\ todo = "gotip" => losses = 0
    /\ s_state = "FAILED" => todo = "fail" /\ phase # "set"

\* A bit is set by the handler that ended with it.
BitsByHandler ==
    /\ "kFail" \in bits => todo = "fail" /\ phase = "idle"
    /\ todo = "connect" /\ losses = 0 => bits = {}
    /\ verdict = "FAILED" => s_state = "FAILED"

IInv ==
    /\ TypeOK
    /\ Quiet
    /\ QueueShape
    /\ AddressFollows
    /\ PublishedByPhase
    /\ BudgetSpent
    /\ BitsByHandler

-----------------------------------------------------------------------------
(* What taking and posting an event do to the queue.                       *)

LEMMA TakeFacts ==
    ASSUME queue \in Seq(Events), queue # <<>>
    PROVE  /\ Len(queue) \in Nat \ {0}
           /\ Head(queue) = queue[1] /\ queue[1] \in Events
           /\ Tail(queue) \in Seq(Events)
           /\ Len(Tail(queue)) = Len(queue) - 1
           /\ Tail(queue) = <<>> <=> Len(queue) = 1
           /\ \A i \in 1 .. Len(queue) - 1 : Tail(queue)[i] = queue[i + 1]
<1>1. /\ Len(queue) \in Nat \ {0}
      /\ Tail(queue) \in Seq(Events)
      /\ Len(Tail(queue)) = Len(queue) - 1
      /\ \A i \in 1 .. Len(Tail(queue)) : Tail(queue)[i] = queue[i + 1]
  BY EmptySeq, HeadTailProperties
<1>2. Head(queue) = queue[1] /\ queue[1] \in Events
  BY <1>1, LenProperties
<1>3. Tail(queue) = <<>> <=> Len(Tail(queue)) = 0
  BY <1>1, EmptySeq
<1> QED BY <1>1, <1>2, <1>3

LEMMA PostFacts ==
    ASSUME queue \in Seq(Events), NEW e \in Events
    PROVE  /\ Len(queue) \in Nat
           /\ Append(queue, e) \in Seq(Events)
           /\ Append(queue, e) # <<>>
           /\ Len(Append(queue, e)) = Len(queue) + 1
           /\ Append(queue, e)[Len(queue) + 1] = e
           /\ \A i \in 1 .. Len(queue) : Append(queue, e)[i] = queue[i]
  BY AppendProperties, LenProperties

LEMMA EventFacts ==
    /\ Started \in Events /\ Started.id = "STA_START"
    /\ Disconnected \in Events /\ Disconnected.id = "STA_DISCONNECTED"
    /\ \A a \in Addrs : GotIp(a) \in Events /\ GotIp(a).id = "GOT_IP" /\ GotIp(a).ip = a
    /\ \A e \in Events : e.id = "GOT_IP" => e.ip \in Addrs
<1>1. Started.id = "STA_START" /\ Disconnected.id = "STA_DISCONNECTED"
  BY DEF Started, Disconnected
<1>2. \A a \in Addrs : GotIp(a).id = "GOT_IP" /\ GotIp(a).ip = a
  BY DEF GotIp
<1> QED BY <1>1, <1>2 DEF Events

-----------------------------------------------------------------------------
(* The invariant holds at first, and every action keeps it.                *)

LEMMA InitInv == Init => IInv
<1> SUFFICES ASSUME Init PROVE IInv
  OBVIOUS
<1> USE WifiStaAssumption
<1>1. queue \in Seq(Events) /\ Len(queue) = 0
  BY EmptySeq DEF Init
<1>2. TypeOK
  <2>1. s_retries \in 0 .. kMaxRetries /\ losses \in 0 .. kMaxRetries + 1
    BY DEF Init
  <2>2. refused \in BOOLEAN
    BY DEF Init
  <2>3. s_ip \in Addrs \cup {NoIp} /\ lease \in Addrs \cup {NoIp} /\ bits \subseteq {"kGotIp", "kFail"}
    BY DEF Init
  <2>4. /\ s_state \in States /\ verdict \in {"none", "timeout"} \cup States /\ todo \in Ends
        /\ icon \in {"OFF", "SEARCH", "OK", "FAIL"}
        /\ phase \in {"idle", "set", "draw", "end"}
        /\ radio \in {"off", "idle", "joining", "joined", "up", "expired"}
    BY DEF Init, States, Ends
  <2> QED BY <1>1, <2>1, <2>2, <2>3, <2>4 DEF TypeOK
<1>3. Quiet /\ PublishedByPhase /\ BudgetSpent /\ BitsByHandler
  BY DEF Init, Quiet, PublishedByPhase, BudgetSpent, BitsByHandler
<1>4. QueueShape /\ AddressFollows
  BY <1>1 DEF Init, QueueShape, AddressFollows
<1> QED BY <1>2, <1>3, <1>4 DEF IInv

LEMMA StartKeeps ==
    ASSUME IInv, NEW c \in BOOLEAN, wifi_sta_start(c) PROVE IInv'
<1> USE WifiStaAssumption
<1>1. radio = "off" /\ queue = <<>> /\ queue \in Seq(Events) /\ Len(queue) = 0
  BY EmptySeq DEF IInv, Quiet, TypeOK, wifi_sta_start
<1>2. CASE ~c
  <2>1. /\ s_state' = "NO_PSK" /\ icon' = "OFF"
        /\ UNCHANGED <<s_ip, s_retries, bits, queue, radio>>
        /\ UNCHANGED <<verdict, phase, todo, losses, refused, lease>>
    BY <1>2 DEF wifi_sta_start, IconOf
  <2>2. TypeOK' /\ Quiet'
    BY <1>1, <2>1 DEF IInv, TypeOK, Quiet, States
  <2>3. QueueShape' /\ AddressFollows'
    BY <1>1, <2>1 DEF IInv, QueueShape, AddressFollows
  <2>4. PublishedByPhase' /\ BudgetSpent' /\ BitsByHandler'
    BY <1>1, <2>1 DEF IInv, Quiet, PublishedByPhase, BudgetSpent, BitsByHandler
  <2> QED BY <2>2, <2>3, <2>4 DEF IInv
<1>3. CASE c
  <2>1. queue' \in Seq(Events) /\ queue' # <<>> /\ Len(queue') = 1 /\ queue'[1] = Started
    <3>1. queue' = Append(queue, Started) /\ Started \in Events
      BY <1>3, EventFacts DEF wifi_sta_start
    <3> QED BY <1>1, <3>1, PostFacts
  <2>2. QueueShape' /\ AddressFollows'
    BY <1>1, <1>3, <2>1, EventFacts
       DEF wifi_sta_start, IInv, Quiet, QueueShape, AddressFollows
  <2>3. TypeOK' /\ Quiet' /\ PublishedByPhase' /\ BudgetSpent' /\ BitsByHandler'
    BY <1>1, <1>3, <2>1
       DEF wifi_sta_start, IInv, TypeOK, Quiet, PublishedByPhase, BudgetSpent,
           BitsByHandler, IconOf, StateFor, States
  <2> QED BY <2>2, <2>3 DEF IInv
<1> QED BY <1>2, <1>3

LEMMA WaitKeeps ==
    ASSUME IInv, wifi_sta_wait PROVE IInv'
<1>1. TypeOK'
  <2>1. verdict' \in {"none", "timeout"} \cup States
    BY DEF IInv, TypeOK, wifi_sta_wait, WaitBits, WaitStatus, States
  <2>2. UNCHANGED <<published, handler, air>>
    BY DEF wifi_sta_wait, WaitBits, WaitStatus
  <2> QED BY <2>1, <2>2 DEF IInv, TypeOK, published, handler, air
<1>2. Quiet' /\ QueueShape' /\ AddressFollows' /\ PublishedByPhase' /\ BudgetSpent'
  BY DEF IInv, Quiet, QueueShape, AddressFollows, PublishedByPhase, BudgetSpent,
         wifi_sta_wait, WaitBits, WaitStatus, published, handler, air
<1>3. BitsByHandler'
  BY DEF IInv, Quiet, PublishedByPhase, BudgetSpent, BitsByHandler, StateFor,
         wifi_sta_wait, WaitBits, WaitStatus, published, handler, air
<1> QED BY <1>1, <1>2, <1>3 DEF IInv

\* The event taken is the only one the radio waits for, if it is a loss.
LEMMA TakeKeeps ==
    ASSUME IInv, OnStart \/ OnDisconnected \/ OnGotIp PROVE IInv'
<1> USE WifiStaAssumption
<1>1. /\ queue \in Seq(Events) /\ queue # <<>> /\ phase = "idle" /\ radio # "off"
      /\ queue' = Tail(queue) /\ phase' = "set"
      /\ UNCHANGED <<s_state, bits, icon, verdict, radio, lease, refused>>
  BY DEF IInv, TypeOK, Quiet, OnStart, OnDisconnected, OnGotIp, Take, Begin,
         air, published
<1>2. /\ queue' \in Seq(Events) /\ Len(queue) \in Nat \ {0} /\ Len(queue') = Len(queue) - 1
      /\ queue' = <<>> <=> Len(queue) = 1
      /\ \A i \in 1 .. Len(queue') : queue'[i] = queue[i + 1]
      /\ Head(queue) = queue[1] /\ queue[1] \in Events
  BY <1>1, TakeFacts
<1>3. CASE OnGotIp
  <2>1. queue[1].id = "GOT_IP" /\ todo' = "gotip" /\ s_ip' = queue[1].ip
        /\ s_retries' = 0 /\ losses' = 0
    BY <1>2, <1>3 DEF OnGotIp, Take, Begin
  <2>2. TypeOK' /\ Quiet' /\ PublishedByPhase' /\ BitsByHandler'
    BY <1>1, <1>2, <2>1, EventFacts
       DEF IInv, TypeOK, Quiet, PublishedByPhase, BitsByHandler, BudgetSpent, Ends
  <2>3. QueueShape'
    <3>1. \A i \in 1 .. Len(queue') : i + 1 \in 1 .. Len(queue) /\ queue'[i] = queue[i + 1]
      BY <1>2
    <3>2. \A i \in 1 .. Len(queue') :
              /\ queue'[i].id # "GOT_IP" => i = Len(queue') /\ radio' = "idle"
              /\ queue'[i].id # "STA_START"
      <4> TAKE i \in 1 .. Len(queue')
      <4>1. queue[i + 1].id # "GOT_IP" => i + 1 = Len(queue) /\ radio = "idle"
        BY <3>1 DEF IInv, QueueShape
      <4>2. queue[i + 1].id # "STA_START"
        BY <1>2, <3>1 DEF IInv, QueueShape
      <4>3. i + 1 = Len(queue) => i = Len(queue')
        BY <1>2
      <4> QED BY <1>1, <3>1, <4>1, <4>2, <4>3
    <3>3. radio' \notin {"joining", "joined"}
      BY <1>1 DEF IInv, QueueShape
    <3>4. radio = "idle" => queue[Len(queue)].id # "GOT_IP"
      BY <1>1 DEF IInv, QueueShape
    <3>5. queue' # <<>> => Len(queue') \in 1 .. Len(queue') /\ queue'[Len(queue')] = queue[Len(queue)]
      BY <1>2
    <3>6. queue' = <<>> => radio # "idle"
      BY <1>2, <2>1, <3>4
    <3> QED BY <1>1, <2>1, <3>2, <3>3, <3>4, <3>5, <3>6 DEF QueueShape
  <2>4. AddressFollows'
    <3>1. queue[1].ip \in Addrs
      BY <1>2, <2>1, EventFacts
    <3>2. radio = "up" => queue[Len(queue)].ip = lease
      BY <1>1 DEF IInv, AddressFollows
    <3>3. queue' # <<>> => queue'[Len(queue')] = queue[Len(queue)]
      BY <1>2
    <3>4. \A i \in 1 .. Len(queue') : queue'[i].id = "GOT_IP" => queue'[i].ip # NoIp
      BY <1>2 DEF IInv, AddressFollows
    <3>5. radio = "up" /\ queue' = <<>> => s_ip' = lease
      BY <1>2, <2>1, <3>2
    <3> QED BY <1>1, <2>1, <3>1, <3>2, <3>3, <3>4, <3>5 DEF IInv, AddressFollows
  <2>5. BudgetSpent'
    BY <1>1, <1>2, <2>1 DEF IInv, BudgetSpent, PublishedByPhase, StateFor
  <2> QED BY <2>2, <2>3, <2>4, <2>5 DEF IInv
<1>4. CASE OnStart \/ OnDisconnected
  <2>1. queue[1].id # "GOT_IP"
    BY <1>2, <1>4 DEF OnStart, OnDisconnected, Take
  <2>2. Len(queue) = 1 /\ radio = "idle" /\ queue' = <<>> /\ Len(queue') = 0
    BY <1>2, <2>1 DEF IInv, QueueShape
  <2>3. s_retries \in 0 .. kMaxRetries /\ todo # "fail" /\ losses = s_retries
    BY <1>1 DEF IInv, TypeOK, BudgetSpent
  <2>4. /\ s_ip' = NoIp /\ s_retries' \in 0 .. kMaxRetries
        /\ \/ todo' = "connect" /\ losses' = s_retries' /\ (losses' = 0 => bits = {})
           \/ todo' = "fail" /\ losses' = kMaxRetries + 1
    <3>1. CASE OnStart
      <4>1. todo = "connect"
        BY <1>2, <3>1 DEF IInv, QueueShape, OnStart, Take
      <4>2. todo' = "connect" /\ UNCHANGED <<s_ip, s_retries, losses>>
        BY <3>1 DEF OnStart, Begin, published
      <4> QED BY <2>3, <4>1, <4>2 DEF IInv, AddressFollows, BitsByHandler
    <3>2. CASE OnDisconnected
      <4>1. s_ip' = NoIp /\ losses' = losses + 1
        BY <3>2 DEF OnDisconnected
      <4>2. \/ s_retries < kMaxRetries /\ s_retries' = s_retries + 1 /\ todo' = "connect"
            \/ s_retries >= kMaxRetries /\ s_retries' = s_retries /\ todo' = "fail"
        BY <3>2 DEF OnDisconnected, Begin
      <4> QED BY <2>3, <4>1, <4>2
    <3> QED BY <1>4, <3>1, <3>2
  <2>5. TypeOK'
    BY <1>1, <1>2, <2>3, <2>4 DEF IInv, TypeOK, Ends
  <2>6. Quiet' /\ QueueShape' /\ AddressFollows' /\ PublishedByPhase'
    <3>1. Quiet' /\ PublishedByPhase'
      BY <1>1, <2>2 DEF IInv, Quiet, PublishedByPhase
    <3>2. todo' # "gotip"
      BY <2>4
    <3>3. \A i \in 1 .. Len(queue') : FALSE
      BY <2>2
    <3>4. QueueShape'
      BY <1>1, <2>2, <3>2, <3>3 DEF QueueShape
    <3>5. AddressFollows'
      <4>1. lease' = NoIp /\ radio' = "idle" /\ s_ip' = NoIp
        BY <1>1, <2>2, <2>4 DEF IInv, AddressFollows
      <4> QED BY <3>2, <3>3, <4>1 DEF AddressFollows
    <3> QED BY <3>1, <3>4, <3>5
  <2>7. s_state # "FAILED" /\ "kFail" \notin bits /\ verdict # "FAILED"
    BY <2>3 DEF IInv, BudgetSpent, BitsByHandler
  <2>8. BudgetSpent' /\ BitsByHandler'
    BY <1>1, <2>2, <2>4, <2>7 DEF BudgetSpent, BitsByHandler
  <2> QED BY <2>5, <2>6, <2>8 DEF IInv
<1> QED BY <1>3, <1>4

-----------------------------------------------------------------------------
LEMMA SetStateKeeps ==
    ASSUME IInv, SetState PROVE IInv'
<1>1. /\ phase = "set" /\ phase' = "draw" /\ s_state' = StateFor(todo)
      /\ UNCHANGED <<s_ip, s_retries, bits, icon, verdict, queue, todo, losses, refused, radio, lease>>
  BY DEF SetState, air
<1>2. todo \in Ends /\ radio \notin {"off", "joining", "joined"}
  BY <1>1 DEF IInv, TypeOK, Quiet, QueueShape
<1>3. TypeOK'
  BY <1>1, <1>2 DEF IInv, TypeOK, StateFor, Ends, States
<1>4. Quiet' /\ QueueShape' /\ AddressFollows'
  BY <1>1, <1>2 DEF IInv, Quiet, QueueShape, AddressFollows, StateFor, Ends
<1>5. PublishedByPhase' /\ BudgetSpent' /\ BitsByHandler'
  BY <1>1, <1>2 DEF IInv, PublishedByPhase, BudgetSpent, BitsByHandler, StateFor, Ends
<1> QED BY <1>3, <1>4, <1>5 DEF IInv

LEMMA DrawIconKeeps ==
    ASSUME IInv, DrawIcon PROVE IInv'
<1>1. /\ phase = "draw" /\ phase' = "end" /\ icon' = IconOf(StateFor(todo))
      /\ UNCHANGED <<s_state, s_ip, s_retries, bits, verdict, queue, todo, losses, refused, radio, lease>>
  BY DEF DrawIcon, air
<1>2. TypeOK'
  BY <1>1 DEF IInv, TypeOK, IconOf
<1>3. Quiet' /\ QueueShape' /\ AddressFollows'
  BY <1>1 DEF IInv, Quiet, QueueShape, AddressFollows
<1>4. PublishedByPhase' /\ BudgetSpent' /\ BitsByHandler'
  BY <1>1 DEF IInv, PublishedByPhase, BudgetSpent, BitsByHandler
<1> QED BY <1>2, <1>3, <1>4 DEF IInv

LEMMA ReconnectKeeps ==
    ASSUME IInv, Reconnect PROVE IInv'
<1>1. /\ phase = "end" /\ todo = "connect" /\ phase' = "idle" /\ radio = "idle"
      /\ UNCHANGED <<s_state, s_ip, s_retries, bits, icon, verdict, queue, todo, losses, lease>>
  BY DEF Reconnect, published
<1>2. \/ radio' = "joining" /\ refused' = refused
      \/ radio' = "idle" /\ refused' = TRUE
  BY <1>1 DEF Reconnect
<1>3. queue = <<>>
  BY <1>1 DEF IInv, QueueShape
<1>4. TypeOK'
  BY <1>1, <1>2 DEF IInv, TypeOK
<1>5. Quiet' /\ QueueShape' /\ AddressFollows'
  BY <1>1, <1>2, <1>3 DEF IInv, Quiet, QueueShape, AddressFollows
<1>6. PublishedByPhase' /\ BudgetSpent' /\ BitsByHandler'
  BY <1>1, <1>2 DEF IInv, PublishedByPhase, BudgetSpent, BitsByHandler
<1> QED BY <1>4, <1>5, <1>6 DEF IInv

LEMMA SignalKeeps ==
    ASSUME IInv, SignalBits PROVE IInv'
<1>1. /\ phase = "end" /\ todo # "connect" /\ phase' = "idle"
      /\ bits' = bits \cup {IF todo = "gotip" THEN "kGotIp" ELSE "kFail"}
      /\ UNCHANGED <<s_state, s_ip, s_retries, icon, verdict, queue, todo, losses, refused, radio, lease>>
  BY DEF SignalBits, air
<1>2. TypeOK'
  BY <1>1 DEF IInv, TypeOK
<1>3. Quiet' /\ QueueShape' /\ AddressFollows' /\ PublishedByPhase' /\ BudgetSpent'
  BY <1>1 DEF IInv, TypeOK, Ends, Quiet, QueueShape, AddressFollows, PublishedByPhase, BudgetSpent
<1>4. BitsByHandler'
  BY <1>1 DEF IInv, TypeOK, Ends, BudgetSpent, BitsByHandler
<1> QED BY <1>2, <1>3, <1>4 DEF IInv

-----------------------------------------------------------------------------
LEMMA JoinOkKeeps ==
    ASSUME IInv, JoinOk PROVE IInv'
<1>1. /\ radio = "joining" /\ radio' = "joined"
      /\ UNCHANGED <<s_state, s_ip, s_retries, bits, icon, verdict, queue, phase, todo, losses, refused, lease>>
  BY DEF JoinOk, published, handler
<1>2. TypeOK' /\ Quiet'
  BY <1>1 DEF IInv, TypeOK, Quiet
<1>3. QueueShape' /\ AddressFollows' /\ PublishedByPhase' /\ BudgetSpent' /\ BitsByHandler'
  BY <1>1 DEF IInv, QueueShape, AddressFollows, PublishedByPhase, BudgetSpent, BitsByHandler
<1> QED BY <1>2, <1>3 DEF IInv

\* A link is lost while the handler may still be busy with its address.
LEMMA LossKeeps ==
    ASSUME IInv, JoinFails \/ LinkLost PROVE IInv'
<1> USE WifiStaAssumption
<1>1. /\ radio \in {"joining", "joined", "up", "expired"} /\ radio' = "idle"
      /\ queue' = Append(queue, Disconnected) /\ lease' = NoIp
      /\ UNCHANGED <<s_state, s_ip, s_retries, bits, icon, verdict, phase, todo, losses, refused>>
  BY DEF JoinFails, LinkLost, Post, published, IInv, AddressFollows
<1>2. queue \in Seq(Events) /\ Disconnected \in Events /\ Disconnected.id = "STA_DISCONNECTED"
  BY EventFacts DEF IInv, TypeOK
<1>3. /\ queue' \in Seq(Events) /\ queue' # <<>> /\ Len(queue) \in Nat /\ Len(queue') = Len(queue) + 1
      /\ queue'[Len(queue')] = Disconnected
      /\ \A i \in 1 .. Len(queue) : queue'[i] = queue[i]
  BY <1>1, <1>2, PostFacts
<1>4. TypeOK' /\ Quiet'
  BY <1>1, <1>3 DEF IInv, TypeOK, Quiet
<1>5. \A i \in 1 .. Len(queue') : i = Len(queue') \/ i \in 1 .. Len(queue)
  BY <1>3
<1>6. \A i \in 1 .. Len(queue) : queue'[i].id = "GOT_IP"
  BY <1>1, <1>3 DEF IInv, QueueShape
<1>7. QueueShape'
  BY <1>1, <1>2, <1>3, <1>5, <1>6 DEF IInv, QueueShape, AddressFollows
<1>8. AddressFollows'
  BY <1>1, <1>2, <1>3, <1>5, <1>6 DEF IInv, AddressFollows
<1>9. PublishedByPhase' /\ BudgetSpent' /\ BitsByHandler'
  BY <1>1 DEF IInv, PublishedByPhase, BudgetSpent, BitsByHandler
<1> QED BY <1>4, <1>7, <1>8, <1>9 DEF IInv

LEMMA LeaseKeeps ==
    ASSUME IInv, Lease \/ Renew PROVE IInv'
<1> USE WifiStaAssumption
<1>1. PICK a \in Addrs : lease' = a /\ queue' = Append(queue, GotIp(a))
  BY DEF Lease, Renew, Post
<1>2. /\ radio \in {"joined", "up", "expired"} /\ radio' = "up"
      /\ UNCHANGED <<s_state, s_ip, s_retries, bits, icon, verdict, phase, todo, losses, refused>>
  BY DEF Lease, Renew, published
<1>3. /\ queue \in Seq(Events)
      /\ GotIp(a) \in Events /\ GotIp(a).id = "GOT_IP" /\ GotIp(a).ip = a /\ a # NoIp
  BY EventFacts DEF IInv, TypeOK
<1>4. /\ queue' \in Seq(Events) /\ queue' # <<>> /\ Len(queue) \in Nat /\ Len(queue') = Len(queue) + 1
      /\ queue'[Len(queue')] = GotIp(a)
      /\ \A i \in 1 .. Len(queue) : queue'[i] = queue[i]
  BY <1>1, <1>3, PostFacts
<1>5. TypeOK' /\ Quiet'
  BY <1>1, <1>2, <1>4 DEF IInv, TypeOK, Quiet
<1>6. \A i \in 1 .. Len(queue') : i = Len(queue') \/ i \in 1 .. Len(queue)
  BY <1>4
<1>7. \A i \in 1 .. Len(queue) : queue'[i].id = "GOT_IP"
  BY <1>2, <1>4 DEF IInv, QueueShape
<1>8. QueueShape'
  BY <1>2, <1>3, <1>4, <1>6, <1>7 DEF QueueShape
<1>9. AddressFollows'
  BY <1>1, <1>2, <1>3, <1>4, <1>6, <1>7 DEF IInv, QueueShape, AddressFollows
<1>10. PublishedByPhase' /\ BudgetSpent' /\ BitsByHandler'
  BY <1>2 DEF IInv, PublishedByPhase, BudgetSpent, BitsByHandler
<1> QED BY <1>5, <1>8, <1>9, <1>10 DEF IInv

\* Nothing is posted when a lease expires: whatever is queued was an address.
LEMMA ExpiryKeeps ==
    ASSUME IInv, LeaseExpires PROVE IInv'
<1>1. /\ radio = "up" /\ radio' = "expired" /\ lease' = NoIp
      /\ UNCHANGED <<s_state, s_ip, s_retries, bits, icon, verdict, queue, phase, todo, losses, refused>>
  BY DEF LeaseExpires, published, handler
<1>2. TypeOK' /\ Quiet'
  BY <1>1 DEF IInv, TypeOK, Quiet
<1>3. QueueShape' /\ AddressFollows'
  BY <1>1 DEF IInv, QueueShape, AddressFollows
<1>4. PublishedByPhase' /\ BudgetSpent' /\ BitsByHandler'
  BY <1>1 DEF IInv, PublishedByPhase, BudgetSpent, BitsByHandler
<1> QED BY <1>2, <1>3, <1>4 DEF IInv

-----------------------------------------------------------------------------
LEMMA Inductive == IInv /\ [Next]_vars => IInv'
<1> SUFFICES ASSUME IInv, [Next]_vars PROVE IInv'
  OBVIOUS
<1>1. CASE \E c \in BOOLEAN : wifi_sta_start(c)
  BY <1>1, StartKeeps
<1>2. CASE wifi_sta_wait
  BY <1>2, WaitKeeps
<1>3. CASE HandlerStep
  BY <1>3, TakeKeeps, SetStateKeeps, DrawIconKeeps, ReconnectKeeps, SignalKeeps DEF HandlerStep
<1>4. CASE Environment
  BY <1>4, JoinOkKeeps, LossKeeps, LeaseKeeps, ExpiryKeeps DEF Environment, JoinEnds
<1>5. CASE UNCHANGED vars
  <2>1. TypeOK' /\ Quiet' /\ QueueShape' /\ AddressFollows'
    BY <1>5 DEF IInv, TypeOK, Quiet, QueueShape, AddressFollows, vars, published, handler, air
  <2>2. PublishedByPhase' /\ BudgetSpent' /\ BitsByHandler'
    BY <1>5 DEF IInv, PublishedByPhase, BudgetSpent, BitsByHandler, vars, published, handler, air
  <2> QED BY <2>1, <2>2 DEF IInv
<1> QED BY <1>1, <1>2, <1>3, <1>4, <1>5 DEF Next

LEMMA Invariance == Spec => []IInv
<1> QED BY InitInv, Inductive, PTL DEF Spec

-----------------------------------------------------------------------------
\* Every variable keeps its type: the retry counter never passes kMaxRetries.
THEOREM TypeCorrect == Spec => []TypeOK
<1>1. IInv => TypeOK
  BY DEF IInv
<1> QED BY <1>1, Invariance, PTL

\* For every retry budget: when all events are handled, status, address and
\* icon are those of the radio, an expired address excepted.
THEOREM TruthfulWhenSettled == Spec => []StatusTruthful
<1>1. ASSUME IInv, Settled
      PROVE  /\ s_state = "CONNECTED" <=> radio \in {"up", "expired"}
             /\ IF radio = "expired" THEN s_ip \in Addrs ELSE s_ip = lease
             /\ icon = IconOf(s_state)
  <2>1. /\ s_state \notin {"IDLE", "NO_PSK"} \/ radio = "off"
        /\ s_state = StateFor(todo) /\ icon = IconOf(s_state)
    BY <1>1 DEF IInv, Settled, Quiet, PublishedByPhase
  <2>2. radio \in {"up", "expired"} <=> todo = "gotip"
    BY <1>1 DEF IInv, TypeOK, Settled, QueueShape, AddressFollows
  <2>3. s_state = "CONNECTED" <=> todo = "gotip"
    BY <1>1, <2>1 DEF IInv, TypeOK, Ends, StateFor
  <2>4. IF radio = "expired" THEN s_ip \in Addrs ELSE s_ip = lease
    BY <1>1, <2>2 DEF IInv, TypeOK, Settled, AddressFollows
  <2> QED BY <2>1, <2>2, <2>3, <2>4
<1>2. IInv => StatusTruthful
  BY <1>1 DEF StatusTruthful
<1> QED BY <1>2, Invariance, PTL

\* A station that shows SEARCHING has something under way that ends it, unless
\* esp_wifi_connect was refused.
THEOREM SearchingIsNotStranded == Spec => []NeverStranded
<1>1. ASSUME IInv, s_state = "SEARCHING", Settled PROVE radio \in {"joining", "joined"} \/ refused
  <2>1. todo = "connect"
    BY <1>1 DEF IInv, TypeOK, Ends, Settled, PublishedByPhase, StateFor
  <2> QED BY <1>1, <2>1 DEF IInv, TypeOK, Settled, QueueShape, AddressFollows
<1>2. IInv => NeverStranded
  BY <1>1 DEF NeverStranded
<1> QED BY <1>2, Invariance, PTL

\* FAILED is shown exactly after kMaxRetries + 1 losses without an address.
THEOREM RetriesCounted == Spec => []RetryBudget
<1>1. ASSUME IInv PROVE s_state = "FAILED" <=> losses > kMaxRetries /\ phase # "set"
  <2>1. todo = "fail" /\ phase # "set" => s_state = "FAILED"
    BY <1>1 DEF IInv, Quiet, PublishedByPhase, StateFor
  <2> QED BY <1>1, <2>1 DEF IInv, BudgetSpent
<1>2. IInv => RetryBudget
  BY <1>1 DEF RetryBudget
<1> QED BY <1>2, Invariance, PTL

\* Whoever wakes on an event bit finds published what the bit stands for.
THEOREM BitsTruthful == Spec => []BitsFollowStatus
<1>1. ASSUME IInv PROVE BitsFollowStatus
  <2>1. ASSUME "kFail" \in bits PROVE s_state = "FAILED" /\ icon = "FAIL" /\ s_ip = NoIp
    BY <1>1, <2>1 DEF IInv, Quiet, BitsByHandler, PublishedByPhase, AddressFollows, StateFor, IconOf
  <2>2. ASSUME "kGotIp" \in bits, losses = 0, phase = "idle"
        PROVE  s_state = "CONNECTED" /\ icon = "OK" /\ s_ip # NoIp
    <3>1. todo = "gotip" /\ radio # "off"
      BY <1>1, <2>2, WifiStaAssumption DEF IInv, TypeOK, Ends, Quiet, BitsByHandler, BudgetSpent
    <3> QED BY <1>1, <2>2, <3>1 DEF IInv, PublishedByPhase, AddressFollows, StateFor, IconOf
  <2> QED BY <2>1, <2>2 DEF BitsFollowStatus
<1>2. IInv => BitsFollowStatus
  BY <1>1
<1> QED BY <1>2, Invariance, PTL

\* The main task is told FAILED only about a station that stays FAILED.
THEOREM VerdictFinal == Spec => []FailedVerdictIsFinal
<1>1. IInv => FailedVerdictIsFinal
  BY DEF IInv, BitsByHandler, BudgetSpent, PublishedByPhase, AddressFollows, FailedVerdictIsFinal
<1> QED BY <1>1, Invariance, PTL

\* Nothing leaves FAILED, and no attempt follows it.
THEOREM GivenUpForGood == Spec => GiveUpIsFinal
<1>1. ASSUME IInv, [Next]_vars, s_state = "FAILED"
      PROVE  s_state' = "FAILED" /\ radio' = radio
  <2>1. todo = "fail" /\ phase # "set" /\ radio = "idle" /\ queue = <<>>
    BY <1>1 DEF IInv, BudgetSpent
  <2>2. CASE \E c \in BOOLEAN : wifi_sta_start(c)
    BY <1>1, <2>2 DEF wifi_sta_start
  <2>3. CASE wifi_sta_wait
    BY <1>1, <2>3 DEF wifi_sta_wait, WaitBits, WaitStatus, published, air
  <2>4. CASE HandlerStep
    BY <1>1, <2>1, <2>4
       DEF HandlerStep, OnStart, OnDisconnected, OnGotIp, Take, SetState, DrawIcon,
           Reconnect, SignalBits, air
  <2>5. CASE Environment
    BY <2>1, <2>5 DEF Environment, JoinEnds, JoinOk, JoinFails, Lease, Renew, LeaseExpires, LinkLost
  <2>6. CASE UNCHANGED vars
    BY <1>1, <2>6 DEF vars, published, air
  <2> QED BY <1>1, <2>2, <2>3, <2>4, <2>5, <2>6 DEF Next
<1>2. IInv /\ [Next]_vars => [s_state = "FAILED" => s_state' = "FAILED" /\ radio' = radio]_vars
  BY <1>1
<1> QED BY <1>2, Invariance, PTL DEF Spec, GiveUpIsFinal

-----------------------------------------------------------------------------
(* The station comes to an answer.  The provers know nothing of ENABLED,   *)
(* so each weak fairness condition of Fairness is stated with the guard it *)
(* stands for written out: in every reachable state a handler step is      *)
(* enabled exactly when an event or the rest of a handler waits, JoinEnds  *)
(* while the radio is joining.                                             *)

\* The event loop runs whenever an event or the rest of a handler is waiting,
\* and an association attempt ends.
HandlerRuns == []<>(phase = "idle" /\ queue = <<>>) \/ []<><<HandlerStep>>_vars
AttemptsEnd == []<>~(radio = "joining") \/ []<><<JoinEnds>>_vars
StationRuns == HandlerRuns /\ AttemptsEnd

\* What ends the wait of an associated station for its address.  No assumption
\* says that it happens.
LeaseEnds == radio = "joined" /\ (Lease \/ LinkLost)

Answered == s_state \in {"CONNECTED", "FAILED"} \/ refused
Seeking  == s_state = "SEARCHING" /\ ~refused /\ radio # "off"

\* The places of one attempt, after n losses in a row.
ToStart(n)    == Seeking /\ losses = n /\ phase = "idle" /\ queue # <<>> /\ Head(queue).id = "STA_START"
Working(n, p) == Seeking /\ losses = n /\ phase = p /\ todo = "connect"
Waiting(n, r) == Seeking /\ losses = n /\ phase = "idle" /\ queue = <<>> /\ radio = r
Told(n)       == Seeking /\ losses = n /\ phase = "idle" /\ queue # <<>> /\ Head(queue).id # "STA_START"
Ending        == Seeking /\ phase = "set" /\ todo # "connect"

LEMMA SeekingOrAnswered == IInv /\ radio # "off" => Seeking \/ Answered
BY DEF IInv, TypeOK, States, Quiet, Seeking, Answered

LEMMA AttemptPlaces ==
    ASSUME IInv, Seeking, NEW n, losses = n
    PROVE  \/ ToStart(n) \/ Working(n, "set") \/ Working(n, "draw") \/ Working(n, "end")
           \/ Waiting(n, "joining") \/ Waiting(n, "joined") \/ Told(n) \/ Ending
<1>1. CASE phase = "idle" /\ queue # <<>>
  BY <1>1 DEF ToStart, Told
<1>2. CASE phase = "idle" /\ queue = <<>>
  <2>1. todo = "connect"
    BY <1>2 DEF IInv, TypeOK, Ends, PublishedByPhase, StateFor, Seeking
  <2>2. radio \in {"joining", "joined"}
    BY <1>2, <2>1 DEF IInv, TypeOK, QueueShape, AddressFollows, Seeking
  <2> QED BY <1>2, <2>2 DEF Waiting
<1>3. CASE phase = "set"
  BY <1>3 DEF Working, Ending
<1>4. CASE phase \in {"draw", "end"}
  <2>1. todo = "connect"
    BY <1>4 DEF IInv, TypeOK, Ends, PublishedByPhase, StateFor, Seeking
  <2> QED BY <1>4, <2>1 DEF Working
<1> QED BY <1>1, <1>2, <1>3, <1>4 DEF IInv, TypeOK

\* Who moves a station that is searching.
LEMMA Movers ==
    s_state = "SEARCHING" /\ [Next]_vars =>
        \/ <<HandlerStep>>_vars \/ <<JoinEnds>>_vars \/ <<LeaseEnds>>_vars
        \/ Renew \/ LeaseExpires \/ LinkLost
        \/ UNCHANGED <<published, handler, air>>
BY DEF Next, vars, wifi_sta_start, wifi_sta_wait, WaitBits, WaitStatus, Environment, LeaseEnds, Lease

\* While a handler ends an attempt, nothing but the handler moves.
LEMMA AtWork ==
    ASSUME IInv, NEW n, NEW p \in {"set", "draw", "end"}, Working(n, p)
    PROVE  radio = "idle" /\ queue = <<>>
BY DEF IInv, TypeOK, QueueShape, AddressFollows, Quiet, Working

LEMMA WorkSteps ==
    ASSUME IInv, NEW n, HandlerStep
    PROVE  /\ Working(n, "set") => Working(n, "draw")'
           /\ Working(n, "draw") => Working(n, "end")'
           /\ Working(n, "end") => Waiting(n, "joining")' \/ Answered'
<1> USE DEF HandlerStep, OnStart, OnDisconnected, OnGotIp, Take, SetState, DrawIcon, Reconnect,
            SignalBits
<1>1. ASSUME Working(n, "set") PROVE Working(n, "draw")'
  BY <1>1, AtWork DEF Working, Seeking, StateFor, air
<1>2. ASSUME Working(n, "draw") PROVE Working(n, "end")'
  BY <1>2, AtWork DEF Working, Seeking, air
<1>3. ASSUME Working(n, "end") PROVE Waiting(n, "joining")' \/ Answered'
  BY <1>3, AtWork DEF Working, Seeking, Waiting, Answered, published
<1> QED BY <1>1, <1>2, <1>3

LEMMA WorkKept ==
    ASSUME IInv, NEW n, NEW p \in {"set", "draw", "end"}, Working(n, p), [Next]_vars
    PROVE  <<HandlerStep>>_vars \/ Working(n, p)'
<1>1. radio = "idle" /\ s_state = "SEARCHING"
  BY AtWork DEF Working, Seeking
<1>2. <<HandlerStep>>_vars \/ UNCHANGED <<published, handler, air>>
  BY <1>1, Movers DEF JoinEnds, JoinOk, JoinFails, LeaseEnds, Renew, LeaseExpires, LinkLost
<1> QED BY <1>2 DEF Working, Seeking, published, handler, air

\* What a post does to the event the handler will take next.
LEMMA HeadAfterPost ==
    ASSUME queue \in Seq(Events), NEW e \in Events
    PROVE  /\ Append(queue, e) # <<>>
           /\ Head(Append(queue, e)) = IF queue = <<>> THEN e ELSE Head(queue)
<1> DEFINE q == Append(queue, e)
<1>1. q # <<>> /\ q[Len(queue) + 1] = e /\ \A i \in 1 .. Len(queue) : q[i] = queue[i]
  BY PostFacts
<1>2. Head(q) = q[1]
  BY <1>1, PostFacts, HeadTailProperties
<1>3. CASE queue = <<>>
  <2>1. Len(queue) = 0
    BY <1>3, EmptySeq
  <2> QED BY <1>1, <1>2, <1>3, <2>1
<1>4. CASE queue # <<>>
  <2>1. 1 \in 1 .. Len(queue) /\ Head(queue) = queue[1]
    BY <1>4, TakeFacts
  <2> QED BY <1>1, <1>2, <1>4, <2>1
<1> QED BY <1>1, <1>3, <1>4

\* The attempt and the lease that follow it end, with an event.
LEMMA AirSteps ==
    ASSUME IInv, NEW n
    PROVE  /\ Waiting(n, "joining") /\ JoinEnds => Waiting(n, "joined")' \/ Told(n)'
           /\ Waiting(n, "joined") /\ LeaseEnds => Told(n)'
<1>1. queue \in Seq(Events)
  BY DEF IInv, TypeOK
<1>2. ASSUME NEW e \in Events, e.id # "STA_START", Post(e), Seeking, losses = n, queue = <<>>,
             phase = "idle", phase' = "idle", UNCHANGED <<s_state, refused, losses>>, radio' # "off"
      PROVE  Told(n)'
  BY <1>1, <1>2, HeadAfterPost DEF Told, Seeking, Post
<1>3. ASSUME Waiting(n, "joining"), JoinOk PROVE Waiting(n, "joined")'
  BY <1>3 DEF Waiting, Seeking, JoinOk, published, handler
<1>4. ASSUME Waiting(n, "joining"), JoinFails PROVE Told(n)'
  BY <1>2, <1>4, EventFacts DEF Waiting, Seeking, JoinFails, published
<1>5. ASSUME Waiting(n, "joined"), Lease PROVE Told(n)'
  <2>1. PICK a \in Addrs : Post(GotIp(a))
    BY <1>5 DEF Lease
  <2> QED BY <1>2, <1>5, <2>1, EventFacts DEF Waiting, Seeking, Lease, published
<1>6. ASSUME Waiting(n, "joined"), LinkLost PROVE Told(n)'
  BY <1>2, <1>6, EventFacts DEF Waiting, Seeking, LinkLost, published
<1> QED BY <1>3, <1>4, <1>5, <1>6 DEF JoinEnds, LeaseEnds

LEMMA AirKept ==
    ASSUME IInv, NEW n, [Next]_vars
    PROVE  /\ Waiting(n, "joining") => <<JoinEnds>>_vars \/ Waiting(n, "joining")'
           /\ Waiting(n, "joined") => <<LeaseEnds>>_vars \/ Waiting(n, "joined")'
<1>1. ASSUME NEW r \in {"joining", "joined"}, Waiting(n, r), ~<<JoinEnds>>_vars \/ r = "joined",
             ~<<LeaseEnds>>_vars \/ r = "joining"
      PROVE  UNCHANGED <<published, handler, air>>
  <2>1. s_state = "SEARCHING" /\ queue = <<>> /\ phase = "idle" /\ radio = r
    BY <1>1 DEF Waiting, Seeking
  <2>2. ~<<HandlerStep>>_vars
    BY <2>1 DEF HandlerStep, OnStart, OnDisconnected, OnGotIp, Take, SetState, DrawIcon, Reconnect,
                SignalBits
  <2>3. ~<<JoinEnds>>_vars /\ ~<<LeaseEnds>>_vars
    BY <1>1, <2>1 DEF JoinEnds, JoinOk, JoinFails, LeaseEnds
  <2>4. ~Renew /\ ~LeaseExpires
    BY <2>1 DEF Renew, LeaseExpires
  <2>5. ASSUME LinkLost PROVE FALSE
    <3>1. radio = "joined" /\ LeaseEnds
      BY <2>1, <2>5 DEF LinkLost, LeaseEnds
    <3>2. vars' # vars
      BY <2>1, <2>5 DEF LinkLost, vars, air
    <3> QED BY <2>3, <3>1, <3>2
  <2> QED BY <2>1, <2>2, <2>3, <2>4, <2>5, Movers
<1> QED BY <1>1 DEF Waiting, Seeking, published, handler, air

\* The handler that is told of the end of the attempt counts a loss and tries
\* again, or comes to an answer.
LEMMA ToldSteps ==
    ASSUME IInv, NEW n \in Nat, HandlerStep
    PROVE  /\ ToStart(n) => Working(n, "set")'
           /\ Told(n) => Working(n + 1, "set")' \/ Ending'
           /\ Ending => Answered'
<1> USE DEF HandlerStep, OnStart, OnDisconnected, OnGotIp, Take, Begin, SetState, DrawIcon, Reconnect,
            SignalBits, published, air
<1>1. ASSUME ToStart(n) PROVE Working(n, "set")'
  BY <1>1 DEF ToStart, Working, Seeking
<1>2. ASSUME Told(n) PROVE Working(n + 1, "set")' \/ Ending'
  BY <1>2 DEF Told, Working, Ending, Seeking
<1>3. ASSUME Ending PROVE Answered'
  BY <1>3 DEF Ending, Answered, StateFor, IInv, TypeOK, Ends
<1> QED BY <1>1, <1>2, <1>3

LEMMA ToldKept ==
    ASSUME IInv, NEW n, [Next]_vars
    PROVE  /\ ToStart(n) => <<HandlerStep>>_vars \/ ToStart(n)'
           /\ Told(n) => <<HandlerStep>>_vars \/ Told(n)'
           /\ Ending => <<HandlerStep>>_vars \/ Ending'
<1>1. queue \in Seq(Events)
  BY DEF IInv, TypeOK
<1>2. ASSUME Seeking, queue # <<>> \/ phase = "set", ~<<HandlerStep>>_vars
      PROVE  /\ UNCHANGED <<s_state, refused, losses, phase, todo>> /\ radio' # "off"
             /\ queue' = queue \/ \E e \in Events : queue' = Append(queue, e)
  <2>1. radio \notin {"joining", "joined"}
    BY <1>2 DEF IInv, QueueShape
  <2>2. \/ Renew \/ LeaseExpires \/ LinkLost \/ UNCHANGED <<published, handler, air>>
    BY <1>2, <2>1, Movers DEF Seeking, JoinEnds, JoinOk, JoinFails, LeaseEnds
  <2> QED BY <1>2, <2>2, EventFacts
          DEF Renew, LeaseExpires, LinkLost, Post, Seeking, published, handler, air
<1>3. ASSUME Seeking, queue # <<>>, ~<<HandlerStep>>_vars
      PROVE  queue' # <<>> /\ Head(queue') = Head(queue)
  BY <1>1, <1>2, <1>3, HeadAfterPost
<1> QED BY <1>2, <1>3 DEF ToStart, Told, Ending, Seeking

\* From the state of n losses in a row the station comes to m, or to an answer,
\* or it waits for an address for ever.
Attempt(n, m) ==
    Spec /\ StationRuns =>
        \/ (Seeking /\ losses = n) ~> ((Seeking /\ losses = m) \/ Answered)
        \/ <>[](radio = "joined")

LEMMA OneAttempt ==
    ASSUME NEW n \in Nat, NEW m \in Nat, m = n + 1
    PROVE  Attempt(n, m)
<1> DEFINE S1 == ToStart(n)
           S2 == Working(n, "set")
           S3 == Working(n, "draw")
           S4 == Working(n, "end")
           S5 == Waiting(n, "joining")
           S6 == Waiting(n, "joined")
           S7 == Told(n)
           From == Seeking /\ losses = n
           To == Seeking /\ losses = m
           NoEvent == phase = "idle" /\ queue = <<>>
           Joining == radio = "joining"
           Joined == radio = "joined"
<1>1. IInv /\ From => S1 \/ S2 \/ S3 \/ S4 \/ S5 \/ S6 \/ S7 \/ Ending
  BY AttemptPlaces
<1>2. /\ S1 \/ S2 \/ S3 \/ S4 \/ S7 \/ Ending => ~NoEvent
      /\ S5 => Joining
      /\ S6 => Joined
  BY DEF ToStart, Working, Waiting, Told, Ending
<1>3. IInv /\ [Next]_vars =>
          /\ S1 => <<HandlerStep>>_vars \/ S1'
          /\ S2 => <<HandlerStep>>_vars \/ S2'
          /\ S3 => <<HandlerStep>>_vars \/ S3'
          /\ S4 => <<HandlerStep>>_vars \/ S4'
          /\ S5 => <<JoinEnds>>_vars \/ S5'
          /\ S6 => <<LeaseEnds>>_vars \/ S6'
          /\ S7 => <<HandlerStep>>_vars \/ S7'
          /\ Ending => <<HandlerStep>>_vars \/ Ending'
  BY WorkKept, AirKept, ToldKept
<1>4. IInv =>
          /\ <<HandlerStep>>_vars =>
                /\ S1 => S2'
                /\ S2 => S3'
                /\ S3 => S4'
                /\ S4 => S5' \/ Answered'
                /\ S7 => To' \/ Ending'
                /\ Ending => Answered'
          /\ <<JoinEnds>>_vars => (S5 => S6' \/ S7')
          /\ <<LeaseEnds>>_vars => (S6 => S7')
  <2>1. Working(n + 1, "set")' => To'
    BY DEF Working
  <2> HIDE DEF To
  <2> QED BY <2>1, WorkSteps, AirSteps, ToldSteps
<1>5. HandlerRuns <=> ([]<>NoEvent \/ []<><<HandlerStep>>_vars)
  BY DEF HandlerRuns
<1>6. AttemptsEnd <=> ([]<>~Joining \/ []<><<JoinEnds>>_vars)
  BY DEF AttemptsEnd
<1> HIDE DEF S1, S2, S3, S4, S5, S6, S7, From, To, NoEvent, Joining, Joined
<1>7. Spec /\ StationRuns => (From ~> To \/ Answered) \/ <>[]Joined
  BY <1>1, <1>2, <1>3, <1>4, <1>5, <1>6, Invariance, PTL DEF Spec, StationRuns
<1> QED BY <1>7 DEF From, To, Joined, Attempt

\* The code's budget of 8, or a smaller one, is spent after finitely many
\* losses, and the station has then answered, unless it waits for ever for the
\* address of a network it has joined (on_wifi, on_ip).  (An argument by
\* induction over every budget would need a rule over temporal formulas.)
THEOREM ComesToAnAnswer == Spec /\ StationRuns /\ kMaxRetries <= 8 => SettlesAgain
<1> SUFFICES ASSUME kMaxRetries <= 8 PROVE Spec /\ StationRuns => SettlesAgain
  OBVIOUS
<1> DEFINE L(n) == Seeking /\ losses = n
<1>1. IInv /\ radio # "off" =>
          \/ L(0) \/ L(1) \/ L(2) \/ L(3) \/ L(4) \/ L(5) \/ L(6) \/ L(7) \/ L(8) \/ L(9) \/ Answered
  <2>1. IInv => losses \in Nat /\ losses <= 9
    BY WifiStaAssumption DEF IInv, TypeOK
  <2> QED BY <2>1, SeekingOrAnswered
<1>2. IInv => ~L(10)
  BY WifiStaAssumption DEF IInv, TypeOK
<1> DEFINE OneMore(n, m) == Spec /\ StationRuns => (L(n) ~> L(m) \/ Answered) \/ <>[](radio = "joined")
<1>3. \A n, m \in Nat : m = n + 1 => OneMore(n, m)
  BY OneAttempt DEF Attempt
<1> HIDE DEF OneMore, L
<1>4. /\ OneMore(0, 1) /\ OneMore(1, 2) /\ OneMore(2, 3) /\ OneMore(3, 4) /\ OneMore(4, 5)
      /\ OneMore(5, 6) /\ OneMore(6, 7) /\ OneMore(7, 8) /\ OneMore(8, 9) /\ OneMore(9, 10)
  BY <1>3
<1>6. Answered <=> s_state \in {"CONNECTED", "FAILED"} \/ refused
  BY DEF Answered
<1> QED BY <1>1, <1>2, <1>4, <1>6, Invariance, PTL DEF OneMore, Spec, SettlesAgain
=============================================================================
