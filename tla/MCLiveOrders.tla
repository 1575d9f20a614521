---------------------------- MODULE MCLiveOrders ----------------------------
(* Constants of LiveOrders for TLC. *)
EXTENDS LiveOrders, TLC

CONSTANTS a, b
MCTicker == {a, b}
TickerSymmetry == Permutations(MCTicker)
=============================================================================
