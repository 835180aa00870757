------------------------------ MODULE Treasury ------------------------------
(***************************************************************************)
(* The treasury keeper (x/treasury/keeper.go): the owner moves tokens from *)
(* the minting wallet to the committed wallet, with a commitment per       *)
(* buyer, or to the liquidity wallet, and later delivers or cancels each   *)
(* commitment.  The wallets are ordinary accounts: their balances are the  *)
(* bank's, the commitments the keeper's.                                   *)
(***************************************************************************)
EXTENDS Bank, Sequences

CONSTANTS
    Owner, Minting, Committed, Liquidity,   \* TreasuryConfig
    TransferAmounts,    \* amounts requested
    MaxCommitments      \* bound

ASSUME TreasuryAssumption ==
    /\ {Owner, Minting, Committed, Liquidity} \subseteq Addrs
    /\ Committed # Minting /\ Committed # Liquidity
    /\ TransferAmounts \subseteq Int /\ MaxCommitments \in Nat

VARIABLE commitments    \* stored commitments, by number

Commitment == [amount : Nat, status : {"funded", "delivered", "cancelled"}]

TreasuryInit == commitments = <<>>

TransferMintingToCommitted(sender, amount) ==
    /\ Len(commitments) < MaxCommitments
    /\ sender = Owner
    /\ HasFunds(Minting, amount)
    /\ balance' = Sent(Minting, Committed, amount)
    /\ commitments' = Append(commitments, [amount |-> amount, status |-> "funded"])

TransferMintingToLiquidity(sender, amount) ==
    /\ sender = Owner
    /\ HasFunds(Minting, amount)
    /\ balance' = Sent(Minting, Liquidity, amount)
    /\ UNCHANGED commitments

DeliverCommitment(sender, c, dest) ==
    LET amount == commitments[c].amount IN
    /\ sender = Owner
    /\ commitments[c].status = "funded"
    /\ HasFunds(Committed, amount)
    /\ balance' = Sent(Committed, dest, amount)
    /\ commitments' = [commitments EXCEPT ![c].status = "delivered"]

\* Mutated form of Cancellable: a delivered commitment can be cancelled.
NotCancelled(c) == commitments[c].status # "cancelled"

\* The code also lets a "pending" commitment be cancelled; none is created.
Cancellable(c) == commitments[c].status = "funded"

CancelCommitment(sender, c) ==
    LET amount == commitments[c].amount IN
    /\ sender = Owner
    /\ Cancellable(c)
    /\ HasFunds(Committed, amount)
    /\ balance' = Sent(Committed, Minting, amount)
    /\ commitments' = [commitments EXCEPT ![c].status = "cancelled"]

=============================================================================
