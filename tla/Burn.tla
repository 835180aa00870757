-------------------------------- MODULE Burn --------------------------------
(***************************************************************************)
(* The burn keeper (x/burn/keeper): holders destroy their own tokens, and  *)
(* authorised merchants those they bought with energy revenue.             *)
(***************************************************************************)
EXTENDS Bank, Sequences

CONSTANTS
    BurnAmounts,     \* amounts requested
    Revenues,        \* energy revenues reported by merchants
    MinBurnAmount,   \* params.MinBurnAmount
    MerchantProtocolEnabled,   \* TRUE in DefaultParams
    MaxBurns         \* bound

ASSUME BurnAssumption ==
    /\ BurnAmounts \subseteq Int /\ Revenues \subseteq Int
    /\ MinBurnAmount \in Nat /\ MerchantProtocolEnabled \in BOOLEAN
    /\ MaxBurns \in Nat

Sources == {"merchant_protocol", "manual", "redemption"}

VARIABLES
    merchants,    \* addresses stored under AuthorizedMerchantKey
    burnEvents,   \* stored burn events, in order
    burnStats     \* cumulative statistics

burnVars == <<merchants, burnEvents, burnStats>>

BurnEvent == [amount : Nat, source : Sources, sender : Addrs, revenue : Int]
BurnStats == [total : Nat, events : Nat, bySource : [Sources -> Nat],
              revenue : Int]

BurnInit ==
    /\ merchants = {} /\ burnEvents = <<>>
    /\ burnStats = [total |-> 0, events |-> 0,
                    bySource |-> [s \in Sources |-> 0], revenue |-> 0]

\* Mutated form of UpdatedStats: burns without merchant data are counted as
\* manual whatever their source.
StatsByData(amount, source, revenue) ==
    [total |-> burnStats.total + amount, events |-> burnStats.events + 1,
     bySource |-> [burnStats.bySource EXCEPT
         ![IF revenue = 0 THEN "manual" ELSE source] = @ + amount],
     revenue |-> burnStats.revenue + revenue]

\* UpdateBurnStats; the revenue is zero when there is no merchant data.  It is
\* what the merchant says it is, of either sign.
UpdatedStats(amount, source, revenue) ==
    [total |-> burnStats.total + amount, events |-> burnStats.events + 1,
     bySource |-> [burnStats.bySource EXCEPT ![source] = @ + amount],
     revenue |-> burnStats.revenue + revenue]

\* The keeper's BurnTokens: the coins go to the module account and are burned.
BurnTokens(sender, amount, source, revenue) ==
    /\ Len(burnEvents) < MaxBurns
    /\ source = "merchant_protocol" =>
          sender \in merchants /\ MerchantProtocolEnabled
    /\ amount >= MinBurnAmount
    /\ HasFunds(sender, amount)
    /\ balance' = [balance EXCEPT ![sender] = @ - amount]
    /\ burnEvents' = Append(burnEvents,
          [amount |-> amount, source |-> source, sender |-> sender,
           revenue |-> revenue])
    /\ burnStats' = UpdatedStats(amount, source, revenue)
    /\ UNCHANGED merchants

\* ValidateBasic lets MsgBurnTokens name the two other sources alone.
MsgBurnTokens(sender, amount, source) ==
    /\ source \in {"manual", "redemption"}
    /\ BurnTokens(sender, amount, source, 0)

MsgMerchantBurn(sender, amount, revenue) ==
    BurnTokens(sender, amount, "merchant_protocol", revenue)

AddMerchant(sender, addr) ==
    /\ sender = Authority
    /\ merchants' = merchants \cup {addr}
    /\ UNCHANGED <<balance, burnEvents, burnStats>>

=============================================================================
