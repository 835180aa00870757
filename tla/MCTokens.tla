------------------------------ MODULE MCTokens ------------------------------
(* A small chain: two certificates, two commitments, two burns.            *)
EXTENDS Tokens

CONSTANTS certificate, meme, owner, minting, committed, liquidity, c1, c2

MCAddrs == {owner, minting, committed, liquidity}
MCCandidates == {liquidity}
MCCerts == {c1, c2}
MCHolders == {owner}
MCDocuments == {certificate, meme}
MCAccepted == {certificate}
MCAmounts == {-1, 1, 2}
MCBurnAmounts == {-1, 0, 1, 2}
MCRevenues == {-1, 1}

\* The records of provenance depend on nothing else and nothing on them: they
\* need not be combined with long histories of burns and commitments.
ShortHistory == records = <<>> \/ (burnEvents = <<>> /\ commitments = <<>>)

=============================================================================
