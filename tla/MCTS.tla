-------------------------------- MODULE MCTS --------------------------------
(* Two clients, so that two timers can expire in one tick; a day of 16     *)
(* ticks, so that every carry happens; an int of three bits, so that a     *)
(* negative delay wraps.                                                   *)
EXTENDS TS

MCDelayChoice == {0, 1, 3, -3}
MCTimeChoice == {[sec |-> 1, min |-> 1, hour |-> 1]}
=============================================================================
