---------------------------- MODULE MCSettlement ----------------------------
(* A small instance of Settlement for TLC: a fee of one unit on every        *)
(* amount, one enabled and one disabled payment method.                      *)
EXTENDS Settlement

CONSTANTS stripe, wire

MCMethods == {stripe, wire}
MCEnabled == {stripe}
=============================================================================
