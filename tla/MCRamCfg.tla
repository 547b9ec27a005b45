------------------------------ MODULE MCRamCfg ------------------------------
(***************************************************************************)
(* Constant values for checking RamCfg: the offsets reach below the start, *)
(* inside, onto and past the end of a three-byte file, so every branch of  *)
(* ram_lseek and both ends of the clipping are reached.                    *)
(***************************************************************************)
EXTENDS RamCfg

MCOffsets == -1 .. 1
MCBytes == {0, 2}

=============================================================================
