------------------------------- MODULE Slash -------------------------------
(***************************************************************************)
(* draw_slash of main/ili9486_min.cpp: the diagonal of the FAIL icons, as  *)
(* squares of side t stepped from one end to the other with the integer    *)
(* error term of Bresenham.  The loop has no other exit than reaching the  *)
(* end point exactly, and whatever leaves the icon's rectangle would paint *)
(* over a neighbour.  All numbers are far below 2^31.                      *)
(***************************************************************************)
EXTENDS Integers

CONSTANT Slashes  \* the calls: ends, side, and the rectangle they belong to

\* The square of side n about c lies within 0 .. size.
Fits(c, n, size) == 0 <= c - n \div 2 /\ c - n \div 2 + n <= size

\* The callers leave room for the square at both ends of the line.
ASSUME SlashAssumption ==
    \A s \in Slashes :
        /\ DOMAIN s = {"x0", "y0", "x1", "y1", "t", "w", "h"}
        /\ \A f \in DOMAIN s : s[f] \in Nat
        /\ Fits(s.x0, s.t, s.w) /\ Fits(s.x1, s.t, s.w)
        /\ Fits(s.y0, s.t, s.h) /\ Fits(s.y1, s.t, s.h)

VARIABLES slash,  \* the call under way
          x, y,   \* the centre of the next square
          err,    \* the error term
          done    \* the loop was left

vars == <<slash, x, y, err, done>>

Abs(n) == IF n >= 0 THEN n ELSE -n

dx == Abs(slash.x1 - slash.x0)
dy == -Abs(slash.y1 - slash.y0)
sx == IF slash.x0 < slash.x1 THEN 1 ELSE -1
sy == IF slash.y0 < slash.y1 THEN 1 ELSE -1

Init ==
    /\ slash \in Slashes
    /\ x = slash.x0 /\ y = slash.y0
    /\ err = dx + dy
    /\ done = FALSE

AtEnd == x = slash.x1 /\ y = slash.y1

\* Mutant of Break: the end is tested after the step, not before it.
BreakLate == ~done /\ AtEnd /\ done' = TRUE /\ x' = x + sx /\ y' = y + sy /\ UNCHANGED <<slash, err>>

Break == ~done /\ AtEnd /\ done' = TRUE /\ UNCHANGED <<slash, x, y, err>>

\* Mutant of Step: the second test sees the error term the first one changed.
StepRereadsErr ==
    LET xmoves == 2 * err >= dy
        e      == IF xmoves THEN err + dy ELSE err
        ymoves == 2 * e <= dx
    IN  /\ ~done /\ ~AtEnd
        /\ x' = IF xmoves THEN x + sx ELSE x
        /\ y' = IF ymoves THEN y + sy ELSE y
        /\ err' = e + IF ymoves THEN dx ELSE 0
        /\ UNCHANGED <<slash, done>>

\* Mutant of Step: the second test is nested in the first.
StepNested ==
    LET xmoves == 2 * err >= dy
        ymoves == xmoves /\ 2 * err <= dx
    IN  /\ ~done /\ ~AtEnd
        /\ x' = IF xmoves THEN x + sx ELSE x
        /\ y' = IF ymoves THEN y + sy ELSE y
        /\ err' = err + (IF xmoves THEN dy ELSE 0) + (IF ymoves THEN dx ELSE 0)
        /\ UNCHANGED <<slash, done>>

\* Both tests use the error term of before the step.
Step ==
    LET xmoves == 2 * err >= dy
        ymoves == 2 * err <= dx
    IN  /\ ~done /\ ~AtEnd
        /\ x' = IF xmoves THEN x + sx ELSE x
        /\ y' = IF ymoves THEN y + sy ELSE y
        /\ err' = err + (IF xmoves THEN dy ELSE 0) + (IF ymoves THEN dx ELSE 0)
        /\ UNCHANGED <<slash, done>>

Next == Step \/ Break
Spec == Init /\ [][Next]_vars
FairSpec == Spec /\ WF_vars(Next)

-----------------------------------------------------------------------------
\* The square of side t about (x, y), as fill_rect is given it, lies in the
\* rectangle of the icon: a slash never paints over the icon beside its own.
StaysInIcon == Fits(x, slash.t, slash.w) /\ Fits(y, slash.t, slash.h)

\* The squares follow the line: no centre is further than half a pixel from it,
\* measured along the shorter axis.
OnTheLine ==
    2 * Abs((x - slash.x0) * (slash.y1 - slash.y0) - (y - slash.y0) * (slash.x1 - slash.x0))
        <= IF dx >= -dy THEN dx ELSE -dy

\* The only exit of the loop is taken: the end point is never stepped over.
LoopEnds == <>done
=============================================================================
