-------------------------------- MODULE MCTty --------------------------------
(* One user, two characters to write and two typed, each a letter or one   *)
(* with a meaning, and a line buffer for two: a line is edited, held for a *)
(* reader or flushed to one, and is too long when a character is taken     *)
(* twice.  The driver's own newlines wait for the transmitter together     *)
(* with the user's characters.                                             *)
EXTENDS Tty
==============================================================================
