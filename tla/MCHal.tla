-------------------------------- MODULE MCHal --------------------------------
(* The idle task, one with and one without an exit function.  All 32       *)
(* registers are there.                                                    *)
EXTENDS Hal
=============================================================================
