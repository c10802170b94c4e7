------------------------------ MODULE MCWatchdog ------------------------------
(* Constants for model-checking Watchdog. *)
EXTENDS Watchdog

CONSTANTS c1, c2
MCChildren == {c1, c2}
=============================================================================
