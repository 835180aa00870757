------------------------------- MODULE MCNode -------------------------------
(* A small instance of Node for TLC: two certificates and two tokens per   *)
(* MWh.  With Half = 4 the counters are three bits wide, so minting one    *)
(* certificate of 2 MWh already wraps them.                                *)
EXTENDS Node, TLC

CONSTANTS c1, c2

MCCerts == {c1, c2}
CertSymmetry == Permutations(MCCerts)
MCAmounts == {-1, 1}    \* no handler looks at the sign
=============================================================================
