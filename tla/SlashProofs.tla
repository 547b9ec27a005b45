---------------------------- MODULE SlashProofs -----------------------------
(***************************************************************************)
(* Proofs about draw_slash, for every line and every icon.  Along the line *)
(* the walk has taken a steps in x and b steps in y.  The error term is a  *)
(* function of a and b, their distance from the line is at most half a     *)
(* pixel, and from that neither count passes its end, and the loop ends.   *)
(***************************************************************************)
EXTENDS Slash, TLAPS

\* How far the walk is from the line after a of D and b of E steps, and how
\* far it may be.
Off(D, E, a, b) == b * D - a * E
Near(D, E, f) == IF D >= E THEN -D <= 2 * f /\ 2 * f <= D ELSE -E <= 2 * f /\ 2 * f <= E

\* One step against the opposite product.
LEMMA Products ==
    ASSUME NEW m \in Nat, NEW n \in Nat
    PROVE  /\ m * n \in Nat /\ m * n = n * m
           /\ (m + 1) * n = m * n + n
           /\ n * (m + 1) = n * m + n
           /\ \A k \in Nat : k <= n => m * k <= m * n /\ k * m <= n * m
  OBVIOUS

LEMMA OneStep ==
    ASSUME NEW D \in Nat, NEW E \in Nat, NEW a \in 0 .. D, NEW b \in 0 .. E,
           ~(a = D /\ b = E), Near(D, E, Off(D, E, a, b)),
           NEW a2, a2 = IF 2 * (Off(D, E, a, b) + D - E) >= -E THEN a + 1 ELSE a,
           NEW b2, b2 = IF 2 * (Off(D, E, a, b) + D - E) <= D THEN b + 1 ELSE b
    PROVE  /\ a2 \in 0 .. D /\ b2 \in 0 .. E
           /\ Near(D, E, Off(D, E, a2, b2))
           /\ a + b < a2 + b2
<1> DEFINE f == Off(D, E, a, b)
<1>1. /\ b * D \in Nat /\ a * E \in Nat /\ f = b * D - a * E /\ f \in Int
      /\ (b + 1) * D = b * D + D /\ (a + 1) * E = a * E + E
  BY Products DEF Off
<1>2. Off(D, E, a2, b2) = f + (IF b2 = b THEN 0 ELSE D) - (IF a2 = a THEN 0 ELSE E)
  BY <1>1 DEF Off
<1> HIDE DEF f
<1>3. /\ a < D => (D - a) * E >= E
      /\ b < E => (E - b) * D >= D
      /\ (D - a) * E = D * E - a * E /\ (E - b) * D = D * E - b * D
  OBVIOUS
<1>4. CASE D >= E
  <2>1. a < D
    BY <1>1, <1>3, <1>4 DEF Near, f
  <2>2. b = E => ~(2 * (f + D - E) <= D)
    BY <1>1, <1>3, <1>4, <2>1 DEF Near, f
  <2>3. a2 = a + 1 /\ b2 \in 0 .. E
    BY <1>1, <1>4, <2>2 DEF Near, f
  <2> QED BY <1>1, <1>2, <1>4, <2>1, <2>3 DEF Near, f
<1>5. CASE D < E
  <2>1. b < E
    BY <1>1, <1>3, <1>5 DEF Near, f
  <2>2. a = D => ~(2 * (f + D - E) >= -E)
    BY <1>1, <1>3, <1>5, <2>1 DEF Near, f
  <2>3. b2 = b + 1 /\ a2 \in 0 .. D
    BY <1>1, <1>5, <2>2 DEF Near, f
  <2> QED BY <1>1, <1>2, <1>5, <2>1, <2>3 DEF Near, f
<1> QED BY <1>4, <1>5

-----------------------------------------------------------------------------
\* The steps taken so far, in each direction.
a == Abs(x - slash.x0)
b == Abs(y - slash.y0)
E == -dy

Walk ==
    /\ slash \in Slashes /\ done \in BOOLEAN
    /\ x \in Int /\ y \in Int
    /\ a \in 0 .. dx /\ b \in 0 .. E
    /\ x = slash.x0 + sx * a /\ y = slash.y0 + sy * b
    /\ err = Off(dx, E, a, b) + dx - E
    /\ Near(dx, E, Off(dx, E, a, b))

\* The steps left to take.
Left == (dx - a) + (E - b)

LEMMA Ends ==
    ASSUME slash \in Slashes
    PROVE  /\ slash.x0 \in Nat /\ slash.x1 \in Nat /\ slash.y0 \in Nat /\ slash.y1 \in Nat
           /\ slash.t \in Nat /\ slash.w \in Nat /\ slash.h \in Nat
           /\ dx \in Nat /\ E \in Nat /\ dy = -E
           /\ (sx = 1 /\ slash.x1 = slash.x0 + dx) \/ (sx = -1 /\ slash.x1 = slash.x0 - dx)
           /\ (sy = 1 /\ slash.y1 = slash.y0 + E) \/ (sy = -1 /\ slash.y1 = slash.y0 - E)
<1>1. /\ slash.x0 \in Nat /\ slash.x1 \in Nat /\ slash.y0 \in Nat /\ slash.y1 \in Nat
      /\ slash.t \in Nat /\ slash.w \in Nat /\ slash.h \in Nat
  BY SlashAssumption
<1>2. /\ dx \in Nat
      /\ (sx = 1 /\ slash.x1 = slash.x0 + dx) \/ (sx = -1 /\ slash.x1 = slash.x0 - dx)
  BY <1>1 DEF dx, sx, Abs
<1>3. /\ E \in Nat /\ dy = -E
      /\ (sy = 1 /\ slash.y1 = slash.y0 + E) \/ (sy = -1 /\ slash.y1 = slash.y0 - E)
  BY <1>1 DEF dy, E, sy, Abs
<1> QED BY <1>1, <1>2, <1>3

LEMMA InitWalk == Init => Walk
<1> SUFFICES ASSUME Init PROVE Walk
  OBVIOUS
<1>1. a = 0 /\ b = 0
  BY Ends DEF Init, a, b, Abs
<1>2. Off(dx, E, 0, 0) = 0 /\ dx \in Nat /\ E \in Nat
  BY Ends DEF Init, Off
<1>3. x = slash.x0 + sx * 0 /\ y = slash.y0 + sy * 0 /\ x \in Int /\ y \in Int
  BY Ends DEF Init
<1>4. err = dx - E
  BY <1>2, Ends DEF Init
<1>5. Near(dx, E, 0)
  BY <1>2 DEF Near
<1>6. slash \in Slashes /\ done \in BOOLEAN
  BY DEF Init
<1> QED BY <1>1, <1>2, <1>3, <1>4, <1>5, <1>6 DEF Walk

\* A step keeps to the line and gets on.
LEMMA StepWalks == ASSUME Walk, Step PROVE Walk' /\ Left \in Nat /\ Left' \in Nat /\ Left' < Left
<1> USE Ends
<1>1. /\ ~(a = dx /\ b = E)
      /\ UNCHANGED <<slash, done>>
      /\ slash \in Slashes
  BY DEF Walk, Step, AtEnd
<1> DEFINE a2 == IF 2 * err >= dy THEN a + 1 ELSE a
           b2 == IF 2 * err <= dx THEN b + 1 ELSE b
<1>2. /\ a2 \in 0 .. dx /\ b2 \in 0 .. E
      /\ Near(dx, E, Off(dx, E, a2, b2))
      /\ a + b < a2 + b2
  <2>1. 2 * err = 2 * (Off(dx, E, a, b) + dx - E) /\ dy = -E
    BY <1>1 DEF Walk
  <2>2. /\ a2 = IF 2 * (Off(dx, E, a, b) + dx - E) >= -E THEN a + 1 ELSE a
        /\ b2 = IF 2 * (Off(dx, E, a, b) + dx - E) <= dx THEN b + 1 ELSE b
    BY <2>1
  <2>3. /\ dx \in Nat /\ E \in Nat /\ a \in 0 .. dx /\ b \in 0 .. E
        /\ Near(dx, E, Off(dx, E, a, b))
    BY <1>1 DEF Walk
  <2> HIDE DEF a2, b2
  <2> QED BY <1>1, <2>2, <2>3, OneStep
<1>3. x' = slash.x0 + sx * a2 /\ y' = slash.y0 + sy * b2
  BY <1>1 DEF Walk, Step
<1>4. dx' = dx /\ E' = E /\ sx' = sx /\ sy' = sy
  BY <1>1 DEF dx, dy, E, sx, sy
<1>5. a' = a2 /\ b' = b2
  <2>1. a' = Abs(x' - slash.x0) /\ b' = Abs(y' - slash.y0)
    BY <1>1 DEF a, b, Abs
  <2> HIDE DEF a2, b2
  <2>2. x' - slash.x0 = a2 \/ x' - slash.x0 = -a2
    BY <1>1, <1>2, <1>3
  <2>3. y' - slash.y0 = b2 \/ y' - slash.y0 = -b2
    BY <1>1, <1>2, <1>3
  <2> QED BY <1>1, <1>2, <2>1, <2>2, <2>3 DEF Abs
<1>6. err' = Off(dx, E, a2, b2) + dx - E
  BY <1>1, Products DEF Walk, Step, Off
<1> HIDE DEF a2, b2
<1>7. x' \in Int /\ y' \in Int
  BY <1>1, <1>2, <1>3
<1>8. Walk'
  BY <1>1, <1>2, <1>3, <1>4, <1>5, <1>6, <1>7 DEF Walk
<1>9. Left \in Nat /\ Left' \in Nat /\ Left' < Left
  BY <1>1, <1>2, <1>4, <1>5 DEF Walk, Left
<1> QED BY <1>8, <1>9

LEMMA WalkInductive == Walk /\ [Next]_vars => Walk'
<1> SUFFICES ASSUME Walk, [Next]_vars PROVE Walk'
  OBVIOUS
<1>1. CASE Break \/ UNCHANGED vars
  <2>1. UNCHANGED <<slash, x, y, err>> /\ done' \in BOOLEAN
    BY <1>1 DEF Break, vars, Walk
  <2> QED BY <2>1 DEF Walk, a, b, dx, dy, E, sx, sy
<1> QED BY <1>1, StepWalks DEF Next

LEMMA WalkInvariance == Spec => []Walk
BY InitWalk, WalkInductive, PTL DEF Spec

-----------------------------------------------------------------------------
\* Every square of every slash lies in its icon (draw_slash as
\* ili9486_draw_wifi_icon and ili9486_draw_svc_icon call it).
THEOREM NeverLeavesIcon == Spec => []StaysInIcon
<1>1. Walk => StaysInIcon
  <2> SUFFICES ASSUME Walk PROVE StaysInIcon
    OBVIOUS
  <2> USE Ends
  <2>1. /\ (slash.x0 <= x /\ x <= slash.x1) \/ (slash.x1 <= x /\ x <= slash.x0)
        /\ (slash.y0 <= y /\ y <= slash.y1) \/ (slash.y1 <= y /\ y <= slash.y0)
    BY DEF Walk
  <2>2. /\ Fits(slash.x0, slash.t, slash.w) /\ Fits(slash.x1, slash.t, slash.w)
        /\ Fits(slash.y0, slash.t, slash.h) /\ Fits(slash.y1, slash.t, slash.h)
    BY SlashAssumption DEF Walk
  <2>3. slash.t \div 2 \in Int
    BY DEF Walk
  <2> QED BY <2>1, <2>2, <2>3 DEF Walk, Fits, StaysInIcon
<1> QED BY <1>1, WalkInvariance, PTL

\* The squares are within half a pixel of the line (the error term of draw_slash).
THEOREM FollowsLine == Spec => []OnTheLine
<1>1. Walk => OnTheLine
  <2> SUFFICES ASSUME Walk PROVE OnTheLine
    OBVIOUS
  <2> DEFINE f == Off(dx, E, a, b)
             g == (x - slash.x0) * (slash.y1 - slash.y0) - (y - slash.y0) * (slash.x1 - slash.x0)
  <2>1. dx \in Nat /\ E \in Nat /\ a \in Nat /\ b \in Nat
    BY Ends DEF Walk
  <2>2. b * dx \in Nat /\ a * E \in Nat /\ f = b * dx - a * E
    BY <2>1 DEF Off
  <2>3. g = f \/ g = -f
    <3>1. /\ \/ x - slash.x0 = a /\ slash.x1 - slash.x0 = dx
             \/ x - slash.x0 = -a /\ slash.x1 - slash.x0 = -dx
          /\ \/ y - slash.y0 = b /\ slash.y1 - slash.y0 = E
             \/ y - slash.y0 = -b /\ slash.y1 - slash.y0 = -E
      BY <2>1, Ends DEF Walk
    <3>2. \A u, v \in Int : (-u) * v = -(u * v) /\ u * (-v) = -(u * v) /\ (-u) * (-v) = u * v
      OBVIOUS
    <3>3. g \in {a * E - b * dx, b * dx - a * E}
      BY <2>1, <2>2, <3>1, <3>2
    <3> QED BY <2>2, <3>3
  <2> HIDE DEF f, g
  <2>4. 2 * Abs(g) <= IF dx >= E THEN dx ELSE E
    BY <2>1, <2>2, <2>3 DEF Walk, Near, Abs, f
  <2> QED BY <2>1, <2>4, Ends DEF OnTheLine, g, Walk
<1> QED BY <1>1, WalkInvariance, PTL

-----------------------------------------------------------------------------
(* The loop ends.  The provers know nothing of ENABLED, so the fairness of *)
(* FairSpec is stated with the guard written out: Step or Break can be     *)
(* taken while the loop is not left, and each changes something.           *)
LoopRuns == []<>done \/ []<><<Next>>_vars

\* With at most d steps more than c to take, the loop comes to where at most c
\* are left, or it is left.
Shrinks(c, d) == Spec /\ LoopRuns => ((Left <= c + d) ~> (Left <= c \/ done))

LEMMA OneCloser == ASSUME NEW c \in Nat PROVE Shrinks(c, 1)
<1> DEFINE A == Left <= c + 1
           B == Left <= c
<1>1. Walk /\ [Next]_vars => (A => <<Next>>_vars \/ A')
  BY DEF vars, Left, a, b, dx, dy, E
<1>2. Walk /\ <<Next>>_vars => (A => B' \/ done')
  <2>1. Step /\ Walk => (A => B')
    BY StepWalks
  <2> QED BY <2>1 DEF Next, Break
<1> HIDE DEF A, B
<1>3. Spec /\ LoopRuns => (A ~> B \/ done)
  BY <1>1, <1>2, WalkInvariance, PTL DEF Spec, LoopRuns
<1> QED BY <1>3 DEF Shrinks, A, B

\* Twice as far, in two goes.  (The rule of induction cannot be applied to a
\* temporal formula here; doubling reaches any bound in a few steps.)
LEMMA TwiceCloser ==
    ASSUME NEW c \in Nat, NEW d \in Nat
    PROVE  Shrinks(c + d, d) /\ Shrinks(c, d) => Shrinks(c, d + d)
<1> DEFINE A == Left <= c + (d + d)
           B == Left <= (c + d) + d
           C == Left <= c + d
           D == Left <= c
<1>1. Walk => (A => B)
  BY Ends DEF Walk, Left
<1>2. /\ Shrinks(c + d, d) <=> (Spec /\ LoopRuns => (B ~> C \/ done))
      /\ Shrinks(c, d) <=> (Spec /\ LoopRuns => (C ~> D \/ done))
      /\ Shrinks(c, d + d) <=> (Spec /\ LoopRuns => (A ~> D \/ done))
  BY DEF Shrinks
<1> HIDE DEF A, B, C, D
<1> QED BY <1>1, <1>2, WalkInvariance, PTL

\* The loop of draw_slash ends, for every line of the panel of 480 by 320 pixels:
\* the end point, its only exit, is not stepped over.
THEOREM LoopLeaves ==
    Spec /\ LoopRuns /\ (\A s \in Slashes : s.w <= 480 /\ s.h <= 320) => LoopEnds
<1> SUFFICES ASSUME \A s \in Slashes : s.w <= 480 /\ s.h <= 320
             PROVE  Spec /\ LoopRuns => LoopEnds
  OBVIOUS
<1> DEFINE Q(d) == \A c \in Nat : Shrinks(c, d)
           Far == Left <= 0 + 1024
           Near0 == Left <= 0
<1>1. Q(1)
  BY OneCloser
<1>2. \A d, m \in Nat : m = d + d /\ Q(d) => Q(m)
  BY TwiceCloser
<1> HIDE DEF Q
<1>3. Q(2) /\ Q(4) /\ Q(8) /\ Q(16) /\ Q(32)
  BY <1>1, <1>2
<1>4. Q(64) /\ Q(128) /\ Q(256) /\ Q(512) /\ Q(1024)
  BY <1>2, <1>3
<1>5. Shrinks(0, 1024)
  BY <1>4 DEF Q
<1>6. Walk => Far
  <2> SUFFICES ASSUME Walk PROVE Left <= 1024
    OBVIOUS
  <2>1. slash.w <= 480 /\ slash.h <= 320
    BY DEF Walk
  <2>2. /\ Fits(slash.x0, slash.t, slash.w) /\ Fits(slash.x1, slash.t, slash.w)
        /\ Fits(slash.y0, slash.t, slash.h) /\ Fits(slash.y1, slash.t, slash.h)
    BY SlashAssumption DEF Walk
  <2>3. dx <= slash.w /\ E <= slash.h
    BY <2>2, Ends DEF Walk, Fits, dx, dy, E, Abs
  <2> QED BY <2>1, <2>3, Ends DEF Walk, Left
<1>7. Walk /\ [Next]_vars => (Near0 => <<Next>>_vars \/ Near0')
  BY DEF vars, Left, a, b, dx, dy, E
<1>8. Walk /\ <<Next>>_vars => (Near0 => done')
  <2>1. Step /\ Walk => ~Near0
    BY StepWalks
  <2> QED BY <2>1 DEF Next, Break
<1>9. Shrinks(0, 1024) <=> (Spec /\ LoopRuns => (Far ~> Near0 \/ done))
  BY DEF Shrinks
<1> HIDE DEF Far, Near0
<1> QED BY <1>5, <1>6, <1>7, <1>8, <1>9, WalkInvariance, PTL DEF Spec, LoopRuns, LoopEnds
=============================================================================
