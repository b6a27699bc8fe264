-------------------------- MODULE MCSerialExchange --------------------------
(***************************************************************************)
(* Instance of SerialExchange with short messages and bursts: one command  *)
(* with data and an answer, and one with neither.                          *)
(***************************************************************************)
EXTENDS SerialExchange

AllCids == {"gets", "stop"}
OnlyGets == {"gets"}
=============================================================================
