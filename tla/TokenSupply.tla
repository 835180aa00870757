------------------------------ MODULE TokenSupply ------------------------------
(***************************************************************************)
(* What both implementations of the token promise: the SDK keepers         *)
(* (Tokens) and the node's own ledger (ChainState and Node).  Tokens come  *)
(* into being for a certificate, once per certificate, and go out of       *)
(* being by a burn of at most what there is; nothing else moves the        *)
(* supply.  Counters of a fixed width agree modulo that width.  Whether a  *)
(* burn can be of a negative amount, and so add to the supply, is for the  *)
(* implementation to say.                                                  *)
(***************************************************************************)
EXTENDS Integers

CONSTANTS
    Width,      \* number of values of a counter; 0 when it has no width
    Burnable    \* the amounts a burn may ask for

VARIABLES
    backed,     \* certificates that tokens were minted for
    minted,     \* tokens minted so far
    burned,     \* tokens burned so far
    supply      \* tokens in circulation

supplyVars == <<backed, minted, burned, supply>>

Agree(x, y) == IF Width = 0 THEN x = y ELSE (x - y) % Width = 0

Mint ==
    /\ \E c \in backed' : c \notin backed /\ backed' = backed \cup {c}
    /\ Agree(supply' - supply, minted' - minted)
    /\ burned' = burned

Burn ==
    /\ \E amount \in Burnable :
          /\ amount <= supply
          /\ Agree(supply', supply - amount)
          /\ Agree(burned', burned + amount)
    /\ UNCHANGED <<backed, minted>>

\* The ledger's file was torn and everything starts again.
Lose == backed' = {} /\ minted' = 0 /\ burned' = 0 /\ supply' = 0

Init == backed = {} /\ minted = 0 /\ burned = 0 /\ supply = 0

Next == Mint \/ Burn \/ Lose

Spec == Init /\ [][Next]_supplyVars

=============================================================================
