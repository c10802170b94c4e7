---------------------------- MODULE MCFunctionHost ----------------------------
(* Model-checking FunctionHost: its values are in the configurations.  Graphs are numbered,
   the lowest free number first, so that no symmetry is left. *)
EXTENDS FunctionHost
=============================================================================
