------------------------------ MODULE MCSlash ------------------------------
(***************************************************************************)
(* The two slashes the code draws (36 by 28 service icons, 32 by 28 Wi-Fi  *)
(* icon), and every line between two points of a 7 by 7 square.            *)
(***************************************************************************)
EXTENDS Slash

Icons == {[x0 |-> 2, y0 |-> 2, x1 |-> 33, y1 |-> 25, t |-> 3, w |-> 36, h |-> 28],
          [x0 |-> 2, y0 |-> 2, x1 |-> 29, y1 |-> 25, t |-> 3, w |-> 32, h |-> 28]}
Lines == {[x0 |-> a, y0 |-> b, x1 |-> c, y1 |-> d, t |-> 1, w |-> 7, h |-> 7] :
             a \in 0 .. 6, b \in 0 .. 6, c \in 0 .. 6, d \in 0 .. 6}
MCSlashes == Icons \cup Lines
=============================================================================
