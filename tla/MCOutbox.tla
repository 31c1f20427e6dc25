------------------------------- MODULE MCOutbox -------------------------------
(* Passes of two rows: a row that keeps failing stands before another one.   *)
(* With two slots for loops, a second READY overlaps the first; with one     *)
(* slot and three rows, a pass leaves a due row behind.                      *)
EXTENDS Outbox
=============================================================================
