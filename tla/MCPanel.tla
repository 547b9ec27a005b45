------------------------------ MODULE MCPanel ------------------------------
(***************************************************************************)
(* The two tasks that paint at run time and the areas of their icons.      *)
(***************************************************************************)
EXTENDS Panel

CONSTANTS event_loop, svc_reach, WIFI, JMRI, LCC

MCOwner == [a \in {WIFI, JMRI, LCC} |-> IF a = WIFI THEN event_loop ELSE svc_reach]
=============================================================================
