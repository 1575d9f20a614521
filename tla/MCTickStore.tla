---------------------------- MODULE MCTickStore ----------------------------
(* Constants of TickStore for TLC. *)
EXTENDS TickStore

MCKindOrder == <<"trades", "quotes">>
=============================================================================
