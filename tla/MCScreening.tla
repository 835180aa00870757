----------------------------- MODULE MCScreening -----------------------------
(* A small instance of Screening for TLC: a country on no list, one on     *)
(* both lists, and one that only the compliance keeper blocks.             *)
EXTENDS Screening, TLC

CONSTANTS u1, u2, us, ir, cu

MCNoAmounts    == [d \in Denoms |-> {}]
MCCheapOffer   == {<<1, 1>>}   \* worth less than one unit: it locks nothing
MCTierLimit    == [t \in Tiers |-> CASE t = Basic -> 6 [] t = Full -> 12 [] OTHER -> 0]
MCUsers        == {u1, u2}
UserSymmetry   == Permutations(MCUsers)
MCCountries    == {us, ir, cu}
MCHighRisk     == {ir}
MCBlocked      == {ir, cu}

=============================================================================
