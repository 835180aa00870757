------------------------------- MODULE Tokens -------------------------------
(***************************************************************************)
(* The life of a token on the chain: minted from a certificate             *)
(* (EnergyMint), moved through the treasury's wallets (Treasury) and       *)
(* burned (Burn), all over the bank's balances, with the record of where   *)
(* the energy came from (Provenance).  Messages are executed one at a      *)
(* time, each to its end or not at all.                                    *)
(***************************************************************************)
EXTENDS EnergyMint, Burn, Treasury, Provenance

vars == <<balance, mintVars, burnVars, commitments, provenanceVars>>

Init ==
    /\ balance = [a \in Addrs |-> 0]
    /\ MintInit
    /\ BurnInit
    /\ TreasuryInit
    /\ ProvenanceInit

MintStep ==
    /\ \/ \E sender \in Addrs, ext \in Certs, mwh \in Quantities,
             documented \in BOOLEAN, dest \in Addrs :
             MintFromCertificate(sender, ext, mwh, documented, dest)
       \/ \E sender \in Addrs, addr \in Candidates : AddMinter(sender, addr)
       \/ \E sender \in Addrs, addr \in Candidates : RemoveMinter(sender, addr)
    /\ UNCHANGED <<burnVars, commitments, provenanceVars>>

BurnStep ==
    /\ \/ \E sender \in Addrs, amount \in BurnAmounts, source \in Sources :
             MsgBurnTokens(sender, amount, source)
       \/ \E sender \in Addrs, amount \in BurnAmounts, revenue \in Revenues :
             MsgMerchantBurn(sender, amount, revenue)
       \/ \E sender \in Addrs, addr \in Candidates : AddMerchant(sender, addr)
    /\ UNCHANGED <<mintVars, commitments, provenanceVars>>

TreasuryStep ==
    /\ \/ \E sender \in Addrs, amount \in TransferAmounts :
             \/ TransferMintingToCommitted(sender, amount)
             \/ TransferMintingToLiquidity(sender, amount)
       \/ \E sender \in Addrs, c \in DOMAIN commitments :
             \/ \E dest \in Addrs : DeliverCommitment(sender, c, dest)
             \/ CancelCommitment(sender, c)
    /\ UNCHANGED <<mintVars, burnVars, provenanceVars>>

\* A holder signs an ordinary bank transfer, on which no keeper has a say.
\* The treasury's own wallets send none.
Send ==
    /\ \E from \in Addrs \ {Minting, Committed, Liquidity}, to \in Addrs,
          amount \in TransferAmounts :
          HasFunds(from, amount) /\ balance' = Sent(from, to, amount)
    /\ UNCHANGED <<mintVars, burnVars, commitments, provenanceVars>>

RecordStep ==
    /\ ProvenanceStep
    /\ UNCHANGED <<balance, mintVars, burnVars, commitments>>

Next == MintStep \/ BurnStep \/ TreasuryStep \/ Send \/ RecordStep

Spec == Init /\ [][Next]_vars

-----------------------------------------------------------------------------
(* Properties.                                                             *)

\* Every variable has its type; no account is overdrawn, and no counter but the
\* revenue that merchants report goes below zero.
TypeOK ==
    /\ balance \in [Addrs -> Nat]
    /\ minters \subseteq Addrs
    /\ DOMAIN certificates \subseteq Certs
    /\ \A ext \in DOMAIN certificates :
          certificates[ext] \in [mwh : Nat, tokens : Nat, owner : Addrs]
    /\ totalMinted \in Nat /\ totalBackedMwh \in Nat
    /\ merchants \subseteq Addrs
    /\ burnEvents \in Seq(BurnEvent) /\ burnStats \in BurnStats
    /\ commitments \in Seq(Commitment)
    /\ recordCount \in Nat
    /\ DOMAIN records \subseteq 1 .. recordCount
    /\ \A id \in DOMAIN records : records[id] \in Record
    /\ recordOf \in [DOMAIN recordOf -> DOMAIN records]
    /\ DOMAIN recordOf \subseteq Certs

\* No token exists without energy behind it: the tokens in all accounts are
\* those minted and not burned, and the totals are what the stored certificates
\* add up to (the counters of x/energymint and x/burn against each other and
\* the bank).
SupplyIsBacked ==
    /\ Supply = totalMinted - burnStats.total
    /\ totalMinted = SumFunction([e \in DOMAIN certificates |-> certificates[e].tokens])
    /\ totalBackedMwh = SumFunction([e \in DOMAIN certificates |-> certificates[e].mwh])

\* However the quantities of the certificates truncate, one by one, the tokens
\* minted in all never exceed what the energy in all backs (TruncateInt in
\* MintFromCertificate against the untruncated IncrementTotalBackedMwh).
MintWithinBacking == totalMinted * DecScale <= totalBackedMwh * TokensPerMwh

Burned == [i \in DOMAIN burnEvents |-> burnEvents[i].amount]

BurnsFrom(source) == { i \in DOMAIN burnEvents : burnEvents[i].source = source }

\* The burn statistics are what the stored events add up to, in total and for
\* each source (UpdateBurnStats against SetBurnEvent, over any mixture of the
\* two burn messages).
BurnStatsReconcile ==
    /\ burnStats.events = Len(burnEvents)
    /\ burnStats.total = SumFunction(Burned)
    /\ burnStats.revenue = SumFunction([i \in DOMAIN burnEvents |-> burnEvents[i].revenue])
    /\ \A s \in Sources : burnStats.bySource[s] = SumFunctionOnSet(Burned, BurnsFrom(s))

Funded == { c \in DOMAIN commitments : commitments[c].status = "funded" }

Promised == [c \in DOMAIN commitments |-> commitments[c].amount]

BurnsBy(addr) == { i \in DOMAIN burnEvents : burnEvents[i].sender = addr }

\* Every commitment that is neither delivered nor cancelled is still covered by
\* the committed wallet, but for what that wallet burned itself: no sequence of
\* deliveries and cancellations pays one commitment with another's tokens.
CommittedCovers ==
    balance[Committed] + SumFunctionOnSet(Burned, BurnsBy(Committed))
        >= SumFunctionOnSet(Promised, Funded)

\* A commitment is paid out once: it leaves "funded" in a step that moves its
\* amount out of the committed wallet (or delivers it to that wallet), and
\* afterwards never changes.
CommitmentPaidOnce ==
    [][\A c \in DOMAIN commitments :
          IF commitments[c].status = "funded"
          THEN \/ commitments'[c] = commitments[c]
               \/ balance'[Committed] = balance[Committed] - commitments[c].amount
               \/ commitments'[c].status = "delivered" /\ balance' = balance
          ELSE commitments'[c] = commitments[c]]_vars

-----------------------------------------------------------------------------
(* Refinement.                                                             *)

Token == INSTANCE TokenSupply WITH
    Width <- 0, Burnable <- {amount \in BurnAmounts : amount >= 0},
    backed <- DOMAIN certificates, minted <- totalMinted,
    burned <- burnStats.total, supply <- Supply

\* Over the bank's balances, the three keepers are a token supply: whatever is
\* sent, committed, delivered or cancelled, all accounts together change only
\* by the mint of a new certificate and by burns of what there is, of amounts
\* that are not negative (the minimum of BurnTokens, and sdk.NewCoin).
ImplementsSupply == Token!Spec

=============================================================================
