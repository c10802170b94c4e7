------------------------------ MODULE MCGateway ------------------------------
(***************************************************************************)
(* Constants for model-checking Gateway: tokens that expire after one tick.*)
(***************************************************************************)
EXTENDS Gateway

MCExpiresAt == [t \in Tokens |-> 1]
=============================================================================
