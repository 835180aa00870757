----------------------------- MODULE MCExchange -----------------------------
(* Small instances of Exchange for TLC.                                    *)
EXTENDS Exchange, TLC

CONSTANTS u1, u2

MCDeposits     == [d \in Denoms |-> {2}]
MCNoAmounts    == [d \in Denoms |-> {}]
MCOffers       == {<<1, 2>>, <<2, 1>>}
MCMarketOffers == {<<0, 1>>, <<1, 2>>}
MCSignedBase   == [d \in Denoms |-> IF d = Base THEN {2, -2} ELSE {}]
MCSignedOffers == {<<-2, 2>>, <<1, 1>>}
MCTierLimit    == [t \in Tiers |-> CASE t = Basic -> 6 [] t = Full -> 12 [] OTHER -> 0]
MCLowLimit     == [t \in Tiers |-> IF t = Basic THEN 1 ELSE 0]
MCUsers        == {u1, u2}
UserSymmetry   == Permutations(MCUsers)
=============================================================================
