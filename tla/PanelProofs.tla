---------------------------- MODULE PanelProofs -----------------------------
(***************************************************************************)
(* Proofs about the panel: for any number of painting tasks, areas and     *)
(* pixels, an icon that was painted stays intact and no pixel lands in     *)
(* somebody else's area.  The invariant says that the task which holds the *)
(* mutex finds the controller where its own frame left it.  The last       *)
(* section proves that every call which paints an icon returns.            *)
(***************************************************************************)
EXTENDS Panel, TLAPS

Mutex == \A p \in Painters : pc[p] = "send" <=> s_lock = p

\* A call under way paints an area of its own task, with the icon asked for.
Call(p) ==
    /\ area[p] \in Areas /\ Owner[area[p]] = p
    /\ icon[p] = asked[area[p]] /\ icon[p] # Black
    /\ color[p] \in {Black, icon[p]}
Calls == \A p \in Painters : pc[p] # "idle" => Call(p)

\* The controller after the first at[p] - 1 items of p's frame.
Controller(p) ==
    /\ at[p] \in {2, 3, 6, 7, 10, 11} => dc = "low"
    /\ at[p] \in {4, 5, 8, 9} \/ at[p] >= 12 => dc = "high"
    /\ at[p] \in {3, 4} => command = "CASET"
    /\ at[p] \in {7, 8} => command = "PASET"
    /\ at[p] >= 11 => command = "RAMWR"
    /\ at[p] >= 5 => cols = area[p]
    /\ at[p] >= 9 => rows = area[p]
    /\ at[p] = 11 => cursor = 1
    /\ at[p] >= 12 => cursor = IF at[p] <= 11 + NPixels THEN at[p] - 11 ELSE 1
    /\ at[p] >= 12 => \A i \in 1 .. at[p] - 12 : screen[area[p]][i] = color[p]
InFrame == \A p \in Painters : s_spi /\ pc[p] = "send" => Controller(p)

Blank == ~s_spi => \A a \in Areas : \A i \in Pixels : screen[a][i] = Black

IInv == TypeOK /\ Mutex /\ Calls /\ InFrame /\ Blank /\ IconsIntact

LEMMA FrameFacts ==
    /\ Len(Frame) = 11 /\ FrameEnd = 11 + NPixels
    /\ Frame[1] = "dc_low" /\ Frame[2] = "CASET" /\ Frame[3] = "dc_high" /\ Frame[4] = "columns"
    /\ Frame[5] = "dc_low" /\ Frame[6] = "PASET" /\ Frame[7] = "dc_high" /\ Frame[8] = "rows"
    /\ Frame[9] = "dc_low" /\ Frame[10] = "RAMWR" /\ Frame[11] = "dc_high"
  BY DEF Frame, FrameEnd

-----------------------------------------------------------------------------
LEMMA InitInv == Init => IInv
<1> SUFFICES ASSUME Init PROVE IInv
  OBVIOUS
<1> USE PanelAssumption
<1>1. TypeOK
  BY FrameFacts DEF Init, TypeOK, Colors, Pixels
<1>2. Mutex /\ Calls /\ InFrame
  BY DEF Init, Mutex, Calls, InFrame
<1>3. Blank /\ IconsIntact
  BY DEF Init, Blank, IconsIntact
<1> QED BY <1>1, <1>2, <1>3 DEF IInv

\* The area asked for was intact, and is now being painted.
LEMMA DrawKeeps ==
    ASSUME IInv, NEW p \in Painters, NEW a \in Areas, NEW i \in Icons, DrawIcon(p, a, i)
    PROVE  IInv'
<1> USE PanelAssumption
<1>1. /\ pc[p] = "idle" /\ Owner[a] = p
      /\ pc' = [pc EXCEPT ![p] = "wait"]
      /\ area' = [area EXCEPT ![p] = a] /\ icon' = [icon EXCEPT ![p] = i]
      /\ color' = [color EXCEPT ![p] = Black]
      /\ asked' = [asked EXCEPT ![a] = i]
      /\ UNCHANGED <<s_spi, s_lock, at, dc, command, cols, rows, cursor, screen>>
  BY DEF DrawIcon, panel
<1>2. TypeOK'
  BY <1>1 DEF IInv, TypeOK, Colors
<1>3. Mutex'
  BY <1>1 DEF IInv, TypeOK, Mutex
<1>4. Calls'
  <2> SUFFICES ASSUME NEW q \in Painters, pc'[q] # "idle" PROVE Call(q)'
    BY DEF Calls
  <2>1. CASE q = p
    BY <1>1, <2>1 DEF IInv, TypeOK, Call
  <2>2. CASE q # p
    <3>1. Call(q) /\ area'[q] = area[q] /\ icon'[q] = icon[q] /\ color'[q] = color[q]
      BY <1>1, <2>2 DEF IInv, TypeOK, Calls
    <3>2. asked'[area[q]] = asked[area[q]]
      BY <1>1, <2>2, <3>1 DEF IInv, TypeOK, Call
    <3> QED BY <3>1, <3>2 DEF Call
  <2> QED BY <2>1, <2>2
<1>5. InFrame'
  <2> SUFFICES ASSUME NEW q \in Painters, s_spi, pc'[q] = "send" PROVE Controller(q)'
    BY <1>1 DEF InFrame
  <2>1. Controller(q) /\ area'[q] = area[q] /\ color'[q] = color[q] /\ at'[q] = at[q]
    BY <1>1 DEF IInv, TypeOK, InFrame
  <2> QED BY <1>1, <2>1 DEF Controller
<1>6. Blank'
  BY <1>1 DEF IInv, Blank
<1>7. IconsIntact'
  <2> SUFFICES ASSUME NEW b \in Areas, ~(pc'[Owner[b]] # "idle" /\ area'[Owner[b]] = b),
                      NEW k \in Pixels
               PROVE  screen'[b][k] = IF s_spi' THEN asked'[b] ELSE Black
    BY DEF IconsIntact
  <2>1. b # a /\ asked'[b] = asked[b]
    BY <1>1 DEF IInv, TypeOK
  <2>2. ~(pc[Owner[b]] # "idle" /\ area[Owner[b]] = b)
    BY <1>1 DEF IInv, TypeOK
  <2> QED BY <1>1, <2>1, <2>2 DEF IInv, IconsIntact
<1> QED BY <1>2, <1>3, <1>4, <1>5, <1>6, <1>7 DEF IInv

\* What a primitive that ends does to the task's own variables; a call that
\* returns has painted its area, if there is a panel to paint on.
LEMMA NextKeeps ==
    ASSUME IInv, NEW p \in Painters, pc[p] # "idle", NextPrimitive(p),
           UNCHANGED <<s_spi, at, area, icon, dc, command, cols, rows, cursor, screen, asked>>,
           \/ pc[p] = "wait" /\ s_lock' = s_lock /\ ~s_spi
           \/ pc[p] = "send" /\ s_lock' = None /\ at[p] = FrameEnd + 1
    PROVE  IInv'
<1> USE PanelAssumption
<1>1. /\ pc' = [pc EXCEPT ![p] = pc'[p]] /\ pc'[p] \in {"idle", "wait"}
      /\ color' = [color EXCEPT ![p] = color'[p]] /\ color'[p] \in {Black, icon[p]}
      /\ color'[p] \in Colors
      /\ pc'[p] = "idle" => color[p] = icon[p]
  BY DEF NextPrimitive, IInv, TypeOK, Calls, Call
<1>2. TypeOK'
  BY <1>1 DEF IInv, TypeOK
<1>3. Mutex'
  BY <1>1 DEF IInv, TypeOK, Mutex
<1>4. Calls'
  BY <1>1 DEF IInv, TypeOK, Calls, Call
<1>5. InFrame'
  <2> SUFFICES ASSUME NEW q \in Painters, s_spi, pc'[q] = "send" PROVE Controller(q)'
    BY DEF InFrame
  <2>1. Controller(q) /\ color'[q] = color[q]
    BY <1>1 DEF IInv, TypeOK, InFrame
  <2> QED BY <2>1 DEF Controller
<1>6. Blank'
  BY DEF IInv, Blank
<1>7. IconsIntact'
  <2> SUFFICES ASSUME NEW b \in Areas, ~(pc'[Owner[b]] # "idle" /\ area'[Owner[b]] = b),
                      NEW k \in Pixels
               PROVE  screen'[b][k] = IF s_spi' THEN asked'[b] ELSE Black
    BY DEF IconsIntact
  <2>1. CASE ~s_spi
    BY <2>1 DEF IInv, Blank
  <2>2. CASE s_spi /\ (Owner[b] # p \/ area[p] # b)
    <3>1. ~(pc[Owner[b]] # "idle" /\ area[Owner[b]] = b)
      BY <1>1, <2>2 DEF IInv, TypeOK
    <3> QED BY <2>2, <3>1 DEF IInv, IconsIntact
  <2>3. CASE s_spi /\ Owner[b] = p /\ area[p] = b
    <3>1. pc'[p] = "idle" /\ pc[p] = "send"
      BY <1>1, <2>3
    <3>2. at[p] - 12 = NPixels /\ at[p] >= 12
      BY <3>1, FrameFacts
    <3>3. \A j \in 1 .. NPixels : screen[b][j] = color[p]
      BY <2>3, <3>1, <3>2 DEF IInv, InFrame, Controller
    <3>4. color[p] = asked[b]
      BY <1>1, <2>3, <3>1 DEF IInv, Calls, Call
    <3> QED BY <2>3, <3>3, <3>4 DEF Pixels
  <2> QED BY <2>1, <2>2, <2>3
<1> QED BY <1>2, <1>3, <1>4, <1>5, <1>6, <1>7 DEF IInv

\* A frame starts anywhere, since its first item sets the DC line.
LEMMA LockKeeps ==
    ASSUME IInv, NEW p \in Painters, lock_bus(p) PROVE IInv'
<1> USE PanelAssumption
<1>1. /\ pc[p] = "wait" /\ pc' = [pc EXCEPT ![p] = "send"] /\ at' = [at EXCEPT ![p] = 1]
      /\ s_lock = None /\ s_lock' = p
      /\ UNCHANGED <<s_spi, area, icon, color, dc, command, cols, rows, cursor, screen, asked>>
  BY DEF lock_bus, panel
<1>2. TypeOK'
  BY <1>1, FrameFacts DEF IInv, TypeOK
<1>3. Mutex'
  BY <1>1 DEF IInv, TypeOK, Mutex
<1>4. Calls'
  BY <1>1 DEF IInv, TypeOK, Calls, Call
<1>5. InFrame'
  <2> SUFFICES ASSUME NEW q \in Painters, pc'[q] = "send" PROVE Controller(q)'
    BY DEF InFrame
  <2>1. q = p
    BY <1>1 DEF IInv, TypeOK, Mutex
  <2>2. at'[q] = 1
    BY <1>1, <2>1 DEF IInv, TypeOK
  <2> QED BY <2>2 DEF Controller
<1>6. Blank' /\ IconsIntact'
  BY <1>1 DEF IInv, TypeOK, Blank, IconsIntact
<1> QED BY <1>2, <1>3, <1>4, <1>5, <1>6 DEF IInv

\* Every item leaves the controller where the next one expects it, and only the
\* pixels of the area that is being painted change.
LEMMA SendKeeps ==
    ASSUME IInv, NEW p \in Painters, SendItem(p)
    PROVE  IInv' /\ \A a \in Areas : screen'[a] # screen[a] => area[p] = a
<1> USE PanelAssumption, FrameFacts
<1> DEFINE item == IF at[p] <= Len(Frame) THEN Frame[at[p]] ELSE "pixel"
<1>1. /\ pc[p] = "send" /\ at[p] \in 1 .. 11 + NPixels
      /\ at' = [at EXCEPT ![p] = at[p] + 1]
      /\ UNCHANGED <<s_spi, s_lock, pc, area, icon, color, asked>>
  BY DEF SendItem, IInv, TypeOK
<1>2. CASE item \in {"dc_low", "dc_high"} \/ ~s_spi
  <2>1. /\ UNCHANGED <<command, cols, rows, cursor, screen>>
        /\ dc' = IF item = "dc_low" THEN "low" ELSE IF item = "dc_high" THEN "high" ELSE dc
    <3> HIDE DEF item
    <3>1. CASE item = "dc_low"
      BY <3>1 DEF SendItem, item
    <3>2. CASE item = "dc_high"
      BY <3>2 DEF SendItem, item
    <3>3. CASE item \notin {"dc_low", "dc_high"} /\ ~s_spi
      BY <3>3 DEF SendItem, item
    <3> QED BY <1>2, <3>1, <3>2, <3>3
  <2>2. s_spi => at[p] \in {1, 3, 5, 7, 9, 11}
    BY <1>1, <1>2
  <2>3. s_spi => dc' = IF at[p] \in {1, 5, 9} THEN "low" ELSE "high"
    BY <1>1, <2>1, <2>2
  <2>4. TypeOK'
    BY <1>1, <2>1 DEF IInv, TypeOK
  <2>5. Mutex' /\ Calls' /\ Blank' /\ IconsIntact'
    BY <1>1, <2>1 DEF IInv, TypeOK, Mutex, Calls, Call, Blank, IconsIntact
  <2>6. InFrame'
    <3> SUFFICES ASSUME NEW q \in Painters, s_spi, pc[q] = "send" PROVE Controller(q)'
      BY <1>1 DEF InFrame
    <3>1. q = p
      BY <1>1 DEF IInv, TypeOK, Mutex
    <3>2. Controller(p) /\ at'[p] = at[p] + 1
      BY <1>1, <3>1 DEF IInv, TypeOK, InFrame
    <3>3. \/ at[p] = 1 \/ at[p] = 3 \/ at[p] = 5 \/ at[p] = 7 \/ at[p] = 9 \/ at[p] = 11
      BY <2>2
    <3>4. ASSUME at[p] \in {1, 5, 9} PROVE Controller(p)'
      BY <1>1, <2>1, <2>3, <3>2, <3>4 DEF Controller
    <3>5. ASSUME at[p] \in {3, 7} PROVE Controller(p)'
      BY <1>1, <2>1, <2>3, <3>2, <3>5 DEF Controller
    <3>6. ASSUME at[p] = 11 PROVE Controller(p)'
      <4>1. dc' = "high" /\ command' = "RAMWR" /\ cols' = area'[p] /\ rows' = area'[p]
            /\ cursor' = 1 /\ at'[p] = 12
        BY <1>1, <2>1, <2>3, <3>2, <3>6 DEF Controller
      <4> QED BY <4>1 DEF Controller
    <3> QED BY <3>1, <3>3, <3>4, <3>5, <3>6
  <2> QED BY <2>1, <2>4, <2>5, <2>6 DEF IInv
<1>3. CASE item \notin {"dc_low", "dc_high"} /\ s_spi
  <2>1. UNCHANGED dc /\ Byte(item, area[p], color[p])
    <3> HIDE DEF item
    <3> QED BY <1>3 DEF SendItem, item
  <2>2. at[p] \in {2, 4, 6, 8, 10} \/ at[p] \in 12 .. 11 + NPixels
    BY <1>1, <1>3
  <2>3. Controller(p) /\ at'[p] = at[p] + 1 /\ Call(p)
    BY <1>1, <1>3 DEF IInv, TypeOK, InFrame, Calls
  <2>4. CASE at[p] \in {2, 6, 10}
    <3>1. dc = "low" /\ item \in {"CASET", "PASET", "RAMWR"} /\ command' = item /\ cursor' = 1
          /\ UNCHANGED <<cols, rows, screen>>
      BY <2>1, <2>3, <2>4 DEF Byte, Controller
    <3>2. TypeOK'
      BY <1>1, <2>1, <3>1 DEF IInv, TypeOK, Pixels
    <3>3. Mutex' /\ Calls' /\ Blank' /\ IconsIntact'
      BY <1>1, <3>1 DEF IInv, TypeOK, Mutex, Calls, Call, Blank, IconsIntact
    <3>4. Controller(p)'
      BY <1>1, <2>1, <2>3, <2>4, <3>1 DEF Controller
    <3>5. InFrame'
      BY <1>1, <3>4 DEF IInv, TypeOK, Mutex, InFrame
    <3> QED BY <3>1, <3>2, <3>3, <3>5 DEF IInv
  <2>5. CASE at[p] \in {4, 8}
    <3>1. /\ dc = "high"
          /\ at[p] = 4 => cols' = area[p] /\ UNCHANGED rows
          /\ at[p] = 8 => rows' = area[p] /\ UNCHANGED cols
          /\ UNCHANGED <<command, cursor, screen>>
      BY <2>1, <2>3, <2>5 DEF Byte, Controller
    <3>2. TypeOK'
      BY <1>1, <2>1, <2>5, <3>1 DEF IInv, TypeOK
    <3>3. Mutex' /\ Calls' /\ Blank' /\ IconsIntact'
      BY <1>1, <3>1 DEF IInv, TypeOK, Mutex, Calls, Call, Blank, IconsIntact
    <3>4. Controller(p)'
      BY <1>1, <2>1, <2>3, <2>5, <3>1 DEF Controller
    <3>5. InFrame'
      BY <1>1, <3>4 DEF IInv, TypeOK, Mutex, InFrame
    <3> QED BY <3>1, <3>2, <3>3, <3>5 DEF IInv
  <2>6. CASE at[p] \in 12 .. 11 + NPixels
    <3> DEFINE a == area[p]  k == at[p] - 11
    <3>1. /\ dc = "high" /\ command = "RAMWR" /\ cols = a /\ rows = a /\ a \in Areas
          /\ cursor = k /\ k \in 1 .. NPixels
          /\ \A i \in 1 .. k - 1 : screen[a][i] = color[p]
      <4>1. dc = "high" /\ command = "RAMWR" /\ cols = a /\ rows = a /\ cursor = k
        BY <2>3, <2>6 DEF Controller
      <4>2. at[p] - 12 = k - 1 /\ k \in 1 .. NPixels
        BY <2>6
      <4>3. \A i \in 1 .. at[p] - 12 : screen[a][i] = color[p]
        BY <2>3, <2>6 DEF Controller
      <4> QED BY <2>3, <4>1, <4>2, <4>3 DEF Call
    <3>2. /\ UNCHANGED <<command, cols, rows>>
          /\ cursor' = IF k < NPixels THEN k + 1 ELSE 1
          /\ screen' = [screen EXCEPT ![a][k] = color[p]]
      BY <2>1, <3>1 DEF Byte
    <3> HIDE DEF a, k
    <3>3. /\ \A b \in Areas : b # a => screen'[b] = screen[b]
          /\ screen'[a][k] = color[p]
          /\ \A i \in 1 .. k - 1 : screen'[a][i] = color[p]
      BY <3>1, <3>2 DEF IInv, TypeOK, Pixels
    <3>4. TypeOK'
      <4>1. screen' \in [Areas -> [Pixels -> Colors]]
        BY <3>1, <3>2 DEF IInv, TypeOK, Pixels
      <4>2. cursor' \in Pixels
        BY <3>1, <3>2 DEF Pixels
      <4> QED BY <1>1, <2>1, <3>1, <3>2, <4>1, <4>2 DEF IInv, TypeOK
    <3>5. Mutex' /\ Calls' /\ Blank'
      BY <1>1, <1>3 DEF IInv, TypeOK, Mutex, Calls, Call, Blank
    <3>6. IconsIntact'
      <4>1. Owner[a] = p /\ area[p] = a
        BY <2>3 DEF Call, a
      <4> QED BY <1>1, <3>3, <4>1 DEF IInv, IconsIntact
    <3>7. Controller(p)'
      <4>1. at'[p] = k + 12 /\ k \in Nat /\ area'[p] = a /\ color'[p] = color[p] /\ k >= 1
        BY <1>1, <2>3, <2>6, <3>1 DEF k, a
      <4>2. cursor' = IF at'[p] <= 11 + NPixels THEN at'[p] - 11 ELSE 1
        BY <3>2, <4>1
      <4>3. \A i \in 1 .. at'[p] - 12 : screen'[a][i] = color[p]
        BY <3>3, <4>1
      <4> QED BY <2>1, <3>1, <3>2, <4>1, <4>2, <4>3 DEF Controller
    <3>8. InFrame'
      BY <1>1, <3>7 DEF IInv, TypeOK, Mutex, InFrame
    <3> QED BY <3>3, <3>4, <3>5, <3>6, <3>8 DEF IInv, a
  <2> QED BY <2>2, <2>4, <2>5, <2>6
<1> QED BY <1>2, <1>3

-----------------------------------------------------------------------------
LEMMA PaintKeeps ==
    ASSUME IInv, NEW p \in Painters, Paint(p) PROVE IInv'
<1>1. CASE fill_nothing(p)
  BY <1>1, NextKeeps DEF fill_nothing, panel
<1>2. CASE unlock_bus(p)
  <2>1. at[p] = FrameEnd + 1
    BY <1>2, FrameFacts, PanelAssumption DEF unlock_bus, IInv, TypeOK
  <2> QED BY <1>2, <2>1, NextKeeps DEF unlock_bus, panel
<1>3. CASE SendItem(p)
  BY <1>3, SendKeeps
<1> QED BY <1>1, <1>2, <1>3, LockKeeps DEF Paint

LEMMA Inductive == IInv /\ [Next]_vars => IInv'
<1> SUFFICES ASSUME IInv, [Next]_vars PROVE IInv'
  OBVIOUS
<1>1. CASE Next
  BY <1>1, DrawKeeps, PaintKeeps DEF Next
<1>2. CASE UNCHANGED vars
  <2>1. TypeOK' /\ Mutex' /\ Blank' /\ IconsIntact'
    BY <1>2 DEF vars, tasks, panel, IInv, TypeOK, Mutex, Blank, IconsIntact
  <2>2. Calls' /\ InFrame'
    BY <1>2 DEF vars, tasks, panel, IInv, Calls, Call, InFrame, Controller
  <2> QED BY <2>1, <2>2 DEF IInv
<1> QED BY <1>1, <1>2

LEMMA Invariance == Spec => []IInv
BY InitInv, Inductive, PTL DEF Spec

\* The driver and the controller stay in their ranges (the mutex, the frame and
\* the window of ili9486_min.cpp).
THEOREM TypeCorrect == Spec => []TypeOK
<1>1. IInv => TypeOK
  BY DEF IInv
<1> QED BY <1>1, Invariance, PTL

\* An icon that was painted shows whole, whatever other tasks paint.
THEOREM IconsStayIntact == Spec => []IconsIntact
<1>1. IInv => IconsIntact
  BY DEF IInv
<1> QED BY <1>1, Invariance, PTL

\* The pixels of a primitive land in the area its task is painting.
THEOREM OwnAreaOnlyHolds == Spec => OwnAreaOnly
<1> DEFINE Own == \A p \in Painters, a \in Areas :
                     at'[p] # at[p] /\ screen'[a] # screen[a] => area[p] = a
<1>1. IInv /\ [Next]_vars => [Own]_vars
  <2> SUFFICES ASSUME IInv, Next, NEW q \in Painters, NEW b \in Areas,
                      at'[q] # at[q], screen'[b] # screen[b]
               PROVE  area[q] = b
    OBVIOUS
  <2>1. PICK p \in Painters : SendItem(p)
    BY DEF Next, DrawIcon, Paint, fill_nothing, lock_bus, unlock_bus, panel
  <2>2. p = q
    BY <2>1 DEF SendItem, IInv, TypeOK
  <2> QED BY <2>1, <2>2, SendKeeps
<1> QED BY <1>1, Invariance, PTL DEF Spec, OwnAreaOnly

-----------------------------------------------------------------------------
(***************************************************************************)
(* Every call returns.  The fairness is FairSpec's, with the conditions    *)
(* under which the actions are enabled written out.                        *)
(***************************************************************************)
Skips(p) == pc[p] = "wait" /\ ~s_spi /\ Fills(p)
Locks(p) == pc[p] = "wait" /\ (s_spi \/ ~Fills(p)) /\ s_lock = None
Moves(p) == fill_nothing(p) \/ SendItem(p) \/ unlock_bus(p)

\* A task that has something to do goes on, and one that waits for the mutex is
\* not passed over for ever while the mutex is free again and again.
TaskRuns(p) == []<>~(Skips(p) \/ pc[p] = "send") \/ []<><<Moves(p)>>_vars
MutexComes(p) == <>[]~Locks(p) \/ []<><<lock_bus(p)>>_vars
TasksRun == \A p \in Painters : TaskRuns(p) /\ MutexComes(p)

\* What the holder of the mutex has still to send.
Left(p) == FrameEnd + 1 - at[p]

\* The holder keeps the mutex until it gives it back, and each of its own steps
\* takes it nearer to that.
LEMMA HolderStep ==
    ASSUME IInv, [Next]_vars, NEW p \in Painters, s_lock = p, s_lock' # None
    PROVE  s_lock' = p /\ Left(p)' <= Left(p) /\ (Moves(p) => Left(p) > 0 /\ Left(p)' < Left(p))
<1> USE PanelAssumption, FrameFacts
<1>1. \A q \in Painters : pc[q] = "send" => q = p
  BY DEF IInv, Mutex
<1>2. pc[p] = "send" /\ p # None /\ at[p] \in 1 .. FrameEnd + 1
  BY DEF IInv, TypeOK, Mutex
<1>3. CASE SendItem(p)
  <2>1. s_lock' = s_lock /\ at'[p] = at[p] + 1 /\ at[p] <= FrameEnd
    BY <1>3 DEF SendItem, IInv, TypeOK
  <2> QED BY <1>2, <2>1 DEF Left
<1>4. CASE ~SendItem(p)
  <2>1. ~Moves(p)
    BY <1>2, <1>4 DEF Moves, fill_nothing, unlock_bus
  <2>2. s_lock' = s_lock /\ at'[p] = at[p]
    <3>1. CASE UNCHANGED vars
      BY <3>1 DEF vars, tasks
    <3>2. ASSUME NEW q \in Painters, NEW a \in Areas, NEW i \in Icons, DrawIcon(q, a, i)
          PROVE  s_lock' = s_lock /\ at'[p] = at[p]
      BY <3>2 DEF DrawIcon
    <3>3. ASSUME NEW q \in Painters, Paint(q) PROVE s_lock' = s_lock /\ at'[p] = at[p]
      <4>1. ~lock_bus(q)
        BY <1>2 DEF lock_bus
      <4>2. ~SendItem(q) /\ ~unlock_bus(q)
        BY <1>1, <1>4 DEF SendItem, unlock_bus
      <4> QED BY <3>3, <4>1, <4>2 DEF Paint, fill_nothing
    <3> QED BY <3>1, <3>2, <3>3 DEF Next
  <2> QED BY <1>2, <2>1, <2>2 DEF Left
<1> QED BY <1>3, <1>4

\* With at most d items more than c to send, the holder comes to where at most c
\* are left, or has given the mutex back.
Shrinks(p, c, d) ==
    Spec /\ TaskRuns(p) =>
        ((s_lock = p /\ Left(p) <= c + d) ~> ((s_lock = p /\ Left(p) <= c) \/ s_lock = None))

LEMMA OneCloser == ASSUME NEW p \in Painters, NEW c \in Nat PROVE Shrinks(p, c, 1)
<1> DEFINE A == s_lock = p /\ Left(p) <= c + 1
           B == s_lock = p /\ Left(p) <= c
           Free == s_lock = None
           Sends == pc[p] = "send"
           Idle == ~(Skips(p) \/ Sends)
           T == Moves(p)
<1>1. IInv /\ [Next]_vars => (A => A' \/ Free')
  <2> SUFFICES ASSUME IInv, [Next]_vars, A, s_lock' # None PROVE A'
    OBVIOUS
  <2>1. s_lock' = p /\ Left(p)' <= Left(p)
    BY HolderStep
  <2>2. Left(p) \in Nat /\ Left(p)' \in Nat
    BY PanelAssumption, FrameFacts, Inductive DEF IInv, TypeOK, Left
  <2> QED BY <2>1, <2>2
<1>2. IInv /\ [Next]_vars => (A /\ <<T>>_vars => B' \/ Free')
  <2> SUFFICES ASSUME IInv, [Next]_vars, A, Moves(p), s_lock' # None PROVE B'
    OBVIOUS
  <2>1. s_lock' = p /\ Left(p)' < Left(p)
    BY HolderStep
  <2>2. Left(p) \in Nat /\ Left(p)' \in Nat
    BY PanelAssumption, FrameFacts, Inductive DEF IInv, TypeOK, Left
  <2> QED BY <2>1, <2>2
<1>3. IInv => (A => ~Idle)
  BY DEF IInv, Mutex
<1>4. TaskRuns(p) <=> ([]<>Idle \/ []<><<T>>_vars)
  BY DEF TaskRuns
<1>5. Shrinks(p, c, 1) <=> (Spec /\ TaskRuns(p) => (A ~> B \/ Free))
  BY DEF Shrinks
<1> HIDE DEF A, B, Free, Sends, Idle, T
<1> QED BY <1>1, <1>2, <1>3, <1>4, <1>5, Invariance, PTL DEF Spec

\* Twice as far, in two goes.  (The rule of induction cannot be applied to a
\* temporal formula here; doubling reaches any bound in a few steps.)
LEMMA TwiceCloser ==
    ASSUME NEW p \in Painters, NEW c \in Nat, NEW d \in Nat
    PROVE  Shrinks(p, c + d, d) /\ Shrinks(p, c, d) => Shrinks(p, c, d + d)
<1> DEFINE A == s_lock = p /\ Left(p) <= c + (d + d)
           B == s_lock = p /\ Left(p) <= (c + d) + d
           C == s_lock = p /\ Left(p) <= c + d
           D == s_lock = p /\ Left(p) <= c
           Free == s_lock = None
<1>1. IInv => (A => B)
  BY PanelAssumption, FrameFacts DEF IInv, TypeOK, Left
<1>2. /\ Shrinks(p, c + d, d) <=> (Spec /\ TaskRuns(p) => (B ~> C \/ Free))
      /\ Shrinks(p, c, d) <=> (Spec /\ TaskRuns(p) => (C ~> D \/ Free))
      /\ Shrinks(p, c, d + d) <=> (Spec /\ TaskRuns(p) => (A ~> D \/ Free))
  BY DEF Shrinks
<1> HIDE DEF A, B, C, D, Free
<1> QED BY <1>1, <1>2, Invariance, PTL

\* Whoever holds the mutex gives it back: a primitive sends at most the pixels
\* of the panel.
LEMMA HolderLeaves ==
    ASSUME NPixels <= 480 * 320, NEW p \in Painters
    PROVE  Spec /\ TaskRuns(p) => (s_lock = p ~> s_lock = None)
<1> DEFINE Q(d) == \A c \in Nat : Shrinks(p, c, d)
           Holds == s_lock = p
           Far == s_lock = p /\ Left(p) <= 0 + 262144
           Near == s_lock = p /\ Left(p) <= 0
           Free == s_lock = None
           Idle == ~(Skips(p) \/ pc[p] = "send")
           T == Moves(p)
<1>1. Q(1)
  BY OneCloser
<1>2. \A d, m \in Nat : m = d + d /\ Q(d) => Q(m)
  BY TwiceCloser
<1> HIDE DEF Q
<1>3. Q(2) /\ Q(4) /\ Q(8) /\ Q(16) /\ Q(32) /\ Q(64)
  BY <1>1, <1>2
<1>4. Q(128) /\ Q(256) /\ Q(512) /\ Q(1024) /\ Q(2048) /\ Q(4096)
  BY <1>2, <1>3
<1>5. Q(8192) /\ Q(16384) /\ Q(32768) /\ Q(65536) /\ Q(131072) /\ Q(262144)
  BY <1>2, <1>4
<1>6. Shrinks(p, 0, 262144)
  BY <1>5 DEF Q
<1>7. Shrinks(p, 0, 262144) <=> (Spec /\ TaskRuns(p) => (Far ~> Near \/ Free))
  BY DEF Shrinks
<1>8. IInv => (Holds => Far)
  BY PanelAssumption, FrameFacts DEF IInv, TypeOK, Left
<1>9. IInv /\ [Next]_vars => (Near => Near' \/ Free')
  <2> SUFFICES ASSUME IInv, [Next]_vars, Near, s_lock' # None PROVE Near'
    OBVIOUS
  <2>1. s_lock' = p /\ Left(p)' <= Left(p)
    BY HolderStep
  <2>2. Left(p) \in Nat /\ Left(p)' \in Nat
    BY PanelAssumption, FrameFacts, Inductive DEF IInv, TypeOK, Left
  <2> QED BY <2>1, <2>2
<1>10. IInv /\ [Next]_vars => (Near /\ <<T>>_vars => Free')
  <2> SUFFICES ASSUME IInv, [Next]_vars, Near, Moves(p), s_lock' # None PROVE FALSE
    OBVIOUS
  <2>1. Left(p) > 0
    BY HolderStep
  <2>2. Left(p) \in Nat
    BY PanelAssumption, FrameFacts DEF IInv, TypeOK, Left
  <2> QED BY <2>1, <2>2
<1>11. IInv => (Near => ~Idle)
  BY DEF IInv, Mutex
<1>12. TaskRuns(p) <=> ([]<>Idle \/ []<><<T>>_vars)
  BY DEF TaskRuns
<1> HIDE DEF Holds, Far, Near, Free, Idle, T
<1>13. Spec /\ TaskRuns(p) => (Holds ~> Free)
  BY <1>6, <1>7, <1>8, <1>9, <1>10, <1>11, <1>12, Invariance, PTL DEF Spec
<1> QED BY <1>13 DEF Holds, Free

\* The mutex is free again and again, whoever takes it in between.
LEMMA FreeAgain ==
    ASSUME NPixels <= 480 * 320
    PROVE  Spec /\ TasksRun => []<>(s_lock = None)
<1> DEFINE Returned == \A p \in Painters : s_lock = p => <>(s_lock = None)
           Returns == \A p \in Painters : [](s_lock = p => <>(s_lock = None))
           Free == s_lock = None
<1>1. Spec /\ TasksRun => Returns
  <2>1. TasksRun => \A p \in Painters : TaskRuns(p)
    BY DEF TasksRun
  <2>2. \A p \in Painters : Spec /\ TaskRuns(p) => (s_lock = p ~> s_lock = None)
    BY HolderLeaves
  <2>3. \A p \in Painters : (s_lock = p ~> s_lock = None) => [](s_lock = p => <>(s_lock = None))
    <3> SUFFICES ASSUME NEW p \in Painters
                 PROVE  (s_lock = p ~> s_lock = None) => [](s_lock = p => <>(s_lock = None))
      OBVIOUS
    <3> QED BY PTL
  <2> QED BY <2>1, <2>2, <2>3
<1>2. Returns => []Returned
  OBVIOUS
<1>3. Returned /\ TypeOK => <>Free
  <2>1. Free => <>Free
    BY PTL
  <2>2. Returned /\ TypeOK => Free \/ <>Free
    BY DEF TypeOK
  <2> QED BY <2>1, <2>2
<1> HIDE DEF Returned, Returns, Free
<1>4. Spec /\ TasksRun => []<>Free
  BY <1>1, <1>2, <1>3, TypeCorrect, PTL
<1> QED BY <1>4 DEF Free

\* What a task that paints goes through, primitive by primitive.
LEMMA CallSteps ==
    ASSUME IInv, [Next]_vars, NEW p \in Painters
    PROVE  /\ pc[p] = "wait" =>
                \/ pc'[p] = "wait" /\ ~Moves(p) /\ ~lock_bus(p)
                   /\ UNCHANGED <<s_spi, color[p], area[p]>>
                \/ pc'[p] = "send" /\ color'[p] = color[p]
                \/ color[p] = Black /\ pc'[p] = "wait" /\ color'[p] # Black
                \/ color[p] # Black /\ pc'[p] = "idle"
           /\ pc[p] = "send" =>
                \/ pc'[p] = "send" /\ color'[p] = color[p]
                \/ color[p] = Black /\ pc'[p] = "wait" /\ color'[p] # Black
                \/ color[p] # Black /\ pc'[p] = "idle"
           /\ lock_bus(p) => pc'[p] = "send"
<1> USE PanelAssumption
<1>1. /\ pc \in [Painters -> {"idle", "wait", "send"}] /\ color \in [Painters -> Colors]
      /\ area \in [Painters -> Areas \cup {None}]
      /\ pc[p] # "idle" => icon[p] # Black
  BY DEF IInv, TypeOK, Calls, Call
<1>2. CASE UNCHANGED vars
  <2>1. UNCHANGED <<s_spi, pc, color, area>>
    BY <1>2 DEF vars, tasks
  <2>2. pc[p] = "wait" => ~Moves(p) /\ ~lock_bus(p)
    BY <1>1, <1>2 DEF vars, tasks, Moves, fill_nothing, NextPrimitive, SendItem, unlock_bus, lock_bus
  <2> QED BY <1>1, <2>1, <2>2 DEF lock_bus
<1>3. CASE lock_bus(p)
  BY <1>1, <1>3 DEF lock_bus
<1>4. CASE SendItem(p)
  BY <1>1, <1>4 DEF SendItem, lock_bus
<1>5. CASE fill_nothing(p) \/ unlock_bus(p)
  <2>1. pc[p] # "idle" /\ NextPrimitive(p) /\ ~lock_bus(p)
    BY <1>5 DEF fill_nothing, unlock_bus, NextPrimitive, lock_bus
  <2> QED BY <1>1, <2>1 DEF NextPrimitive
<1>6. ASSUME NEW a \in Areas, NEW i \in Icons, DrawIcon(p, a, i) PROVE pc[p] = "idle" /\ ~lock_bus(p)
  BY <1>6 DEF DrawIcon, lock_bus
<1>7. ASSUME NEW q \in Painters, q # p,
             Paint(q) \/ \E a \in Areas, i \in Icons : DrawIcon(q, a, i)
      PROVE  /\ UNCHANGED <<s_spi, pc[p], color[p], area[p]>>
             /\ pc[p] = "wait" => ~Moves(p) /\ ~lock_bus(p)
  <2>1. UNCHANGED <<s_spi, pc[p], color[p], area[p]>>
    BY <1>1, <1>7 DEF Paint, fill_nothing, NextPrimitive, lock_bus, SendItem, unlock_bus, DrawIcon
  <2> QED BY <1>1, <2>1 DEF Moves, fill_nothing, NextPrimitive, SendItem, unlock_bus, lock_bus
<1>8. CASE \E q \in Painters \ {p} : Paint(q) \/ \E a \in Areas, i \in Icons : DrawIcon(q, a, i)
  <2>1. /\ UNCHANGED <<s_spi, pc[p], color[p], area[p]>>
        /\ pc[p] = "wait" => ~Moves(p) /\ ~lock_bus(p)
    BY <1>7, <1>8
  <2> QED BY <1>1, <2>1 DEF lock_bus
<1> QED BY <1>2, <1>3, <1>4, <1>5, <1>6, <1>8 DEF Next, Paint

\* Nobody waits for the lock for ever, and every call that paints an icon returns.
\* A primitive sends at most the pixels of the panel (ili9486_min.cpp:22-23).
THEOREM EveryCallReturns == Spec /\ TasksRun /\ NPixels <= 480 * 320 => PaintEnds
<1> SUFFICES ASSUME NPixels <= 480 * 320 PROVE Spec /\ TasksRun => PaintEnds
  OBVIOUS
<1>1. ASSUME NEW p \in Painters
      PROVE  Spec /\ TaskRuns(p) /\ MutexComes(p) /\ []<>(s_lock = None)
                => (pc[p] # "idle" ~> pc[p] = "idle")
  <2> DEFINE I == pc[p] = "idle"
             Busy == pc[p] # "idle"
             W == pc[p] = "wait"
             S == pc[p] = "send"
             K == color[p] = Black
             X == Skips(p)
             Can == Locks(p)
             Free == s_lock = None
             T == Moves(p)
             L == lock_bus(p)
  <2>1. IInv => (I \/ W \/ S) /\ ~(W /\ I) /\ ~(W /\ S) /\ ~(S /\ I)
    BY DEF IInv, TypeOK
  <2>2. IInv /\ [Next]_vars =>
          /\ W => \/ W' /\ (K <=> K') /\ (X <=> X')
                  \/ S' /\ (K <=> K')
                  \/ K /\ W' /\ ~K'
                  \/ ~K /\ I'
          /\ S => \/ S' /\ (K <=> K')
                  \/ K /\ W' /\ ~K'
                  \/ ~K /\ I'
    BY CallSteps DEF Skips, Fills
  <2>3. IInv /\ [Next]_vars /\ W /\ (T \/ L) =>
             \/ S' /\ (K <=> K')
             \/ K /\ W' /\ ~K'
             \/ ~K /\ I'
    <3> SUFFICES ASSUME IInv, [Next]_vars, pc[p] = "wait", Moves(p) \/ lock_bus(p)
                 PROVE  \/ pc'[p] = "send" /\ color'[p] = color[p]
                        \/ color[p] = Black /\ pc'[p] = "wait" /\ color'[p] # Black
                        \/ color[p] # Black /\ pc'[p] = "idle"
      OBVIOUS
    <3> QED BY CallSteps
  <2>4. IInv => (S => ~Free)
    BY PanelAssumption DEF IInv, Mutex
  <2>5. W /\ Free => X \/ Can
    BY DEF Skips, Locks
  <2>6. /\ TaskRuns(p) <=> ([]<>~(X \/ S) \/ []<><<T>>_vars)
        /\ MutexComes(p) <=> (<>[]~Can \/ []<><<L>>_vars)
    BY DEF TaskRuns, MutexComes
  <2>7. Busy <=> ~I
    OBVIOUS
  <2> HIDE DEF I, Busy, W, S, K, X, Can, Free, T, L
  <2>8. Spec /\ TaskRuns(p) /\ MutexComes(p) /\ []<>Free => (Busy ~> I)
    BY <2>1, <2>2, <2>3, <2>4, <2>5, <2>6, <2>7, Invariance, PTL DEF Spec
  <2> QED BY <2>8 DEF I, Busy, Free
<1>2. Spec /\ TasksRun => []<>(s_lock = None)
  BY FreeAgain
<1>3. TasksRun => \A p \in Painters : TaskRuns(p) /\ MutexComes(p)
  BY DEF TasksRun
<1> QED BY <1>1, <1>2, <1>3 DEF PaintEnds
=============================================================================
