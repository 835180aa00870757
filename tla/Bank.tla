-------------------------------- MODULE Bank --------------------------------
(***************************************************************************)
(* The part of the Cosmos SDK bank module the keepers of x/energymint,     *)
(* x/burn and x/treasury call through their BankKeeper interfaces: one     *)
(* balance of uftg per account.  A message whose handler returns an error  *)
(* leaves no trace, since the SDK discards what it wrote: an error is an   *)
(* action that is disabled.  Coins pass through the module accounts within *)
(* one message, from MintCoins to the recipient and from the sender to     *)
(* BurnCoins, and never rest there.                                        *)
(***************************************************************************)
EXTENDS Integers, FiniteSets, Functions

CONSTANTS
    Addrs,      \* accounts of users and of the treasury
    Authority,  \* the governance account the keepers were built with
    Candidates  \* addresses governance is asked to authorise or to remove

ASSUME BankAssumption ==
    IsFiniteSet(Addrs) /\ Authority \in Addrs /\ Candidates \subseteq Addrs

VARIABLE balance    \* uftg per account

\* Mutated form of HasFunds: any balance will do that is not empty.
HasSome(addr, amount) == balance[addr] > 0

\* The caller compares with the balance; sdk.NewCoin refuses a negative amount.
HasFunds(addr, amount) == 0 <= amount /\ amount <= balance[addr]

Sent(from, to, amount) ==
    IF from = to THEN balance
    ELSE [balance EXCEPT ![from] = @ - amount, ![to] = @ + amount]

Supply == SumFunctionOnSet(balance, Addrs)

=============================================================================
