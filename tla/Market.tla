-------------------------------- MODULE Market --------------------------------
(***************************************************************************)
(* What the exchange promises, without books, a loop or a lock: wallets    *)
(* hold and lock two denominations, and an order is placed in one step, in *)
(* which it trades with the resting orders it crosses, the best prices     *)
(* first and as far as it goes.  Which of several makers of equal price    *)
(* trades is left open.  Exchange is shown to implement this module over   *)
(* the contents of its file: whatever a match does in between, a restart   *)
(* finds all of it or nothing.                                             *)
(***************************************************************************)
EXTENDS Integers, Sequences, FiniteSets, Functions

CONSTANTS Base, Quote, PriceScale, FeeScale, MakerFee, TakerFee,
    Deposits        \* amounts deposited, per denomination, of either sign

VARIABLES
    bal, locked,    \* per wallet and denomination
    orders          \* every order ever placed

marketVars == <<bal, locked, orders>>

\* A whole number of units: fractions are dropped, on either side of zero.
Whole(a, b) == IF a >= 0 THEN a \div b ELSE -((-a) \div b)

Value(price, qty) == Whole(price * qty, PriceScale)

FeeOn(bps, price, qty) == Whole(qty * price * bps, PriceScale * FeeScale)

Resting(o) == o.status \in {"open", "partial"}

\* What the rest of an order locks, of the given denomination.
LockOf(o, d) ==
    CASE o.side = "buy"  /\ d = Quote -> Value(o.price, o.remaining)
      [] o.side = "sell" /\ d = Base  -> o.remaining
      [] OTHER -> 0

Better(side, p, q) == IF side = "buy" THEN p > q ELSE p < q

\* Does order t trade with order o at the price of o?
Crosses(t, o) ==
    /\ Resting(o)
    /\ o.side # t.side
    /\ o.wallet # t.wallet
    /\ ~Better(o.side, t.price, o.price)

Makers(t) == { m \in DOMAIN orders : Crosses(t, orders[m]) }

\* How much of order t each maker may fill: no more than it has, in all no
\* more than t asks for and no less than there is, and nothing at a price
\* while a better one has anything left.
Allocations(t) ==
    { fill \in [Makers(t) -> 0 .. t.qty] :
        LET left == { m \in Makers(t) : fill[m] < orders[m].remaining }
        IN  /\ \A m \in Makers(t) : fill[m] <= orders[m].remaining
            /\ SumFunction(fill) <= t.qty
            /\ SumFunction(fill) < t.qty => left = {}
            /\ \A m \in Makers(t), n \in left :
                  Better(orders[n].side, orders[n].price, orders[m].price)
                     => fill[m] = 0 }

\* What trading `qty' with maker o brings wallet w, as the taker or the maker.
Gain(t, o, qty, w, d) ==
    LET role   == IF w = t.wallet THEN t.side ELSE o.side
        fee    == FeeOn(IF w = t.wallet THEN TakerFee ELSE MakerFee, o.price, qty)
        bought == IF d = Base THEN qty ELSE -Value(o.price, qty)
    IN  IF w \notin {t.wallet, o.wallet} THEN 0
        ELSE (IF role = "buy" THEN bought ELSE -bought)
             - (IF d = Quote THEN fee ELSE 0)

\* What the same trade releases of the lock of wallet w.
Release(t, o, qty, w, d) ==
    LET role == IF w = t.wallet THEN t.side ELSE o.side IN
    IF w \notin {t.wallet, o.wallet} THEN 0
    ELSE LockOf([side |-> role, price |-> o.price, remaining |-> qty], d)

-----------------------------------------------------------------------------

Status(o, qty) ==
    IF o.remaining = qty THEN "filled" ELSE IF qty > 0 THEN "partial" ELSE o.status

Filled(o, qty) ==
    [o EXCEPT !.filled = @ + qty, !.remaining = @ - qty, !.status = Status(o, qty)]

\* The order t, as it is placed, trades according to `fill' at once.
Place(t, fill) ==
    /\ \A d \in {Base, Quote} : LockOf(t, d) > 0 =>
          LockOf(t, d) <= bal[t.wallet][d] - locked[t.wallet][d]
    /\ orders' = Append([m \in DOMAIN orders |->
                            IF m \in Makers(t) THEN Filled(orders[m], fill[m])
                            ELSE orders[m]],
                        Filled(t, SumFunction(fill)))
    /\ bal' = [w \in DOMAIN bal |-> [d \in {Base, Quote} |->
          bal[w][d] + SumFunction([m \in Makers(t) |->
                                      Gain(t, orders[m], fill[m], w, d)])]]
    /\ locked' = [w \in DOMAIN locked |-> [d \in {Base, Quote} |->
          locked[w][d] + (IF w = t.wallet THEN LockOf(t, d) ELSE 0)
             - SumFunction([m \in Makers(t) |->
                               Release(t, orders[m], fill[m], w, d)])]]

\* Any new order: the one the step appends, taken back to where it started.
PlaceOne ==
    /\ Len(orders') = Len(orders) + 1
    /\ LET o == orders'[Len(orders')]
           t == [o EXCEPT !.filled = 0, !.remaining = o.qty, !.status = "open"]
       IN  \E fill \in Allocations(t) : Place(t, fill)

Cancel(o) ==
    LET t == orders[o] IN
    /\ Resting(t)
    /\ orders' = [orders EXCEPT ![o].status = "cancelled"]
    /\ locked' = [locked EXCEPT ![t.wallet] =
                     [d \in {Base, Quote} |-> @[d] - LockOf(t, d)]]
    /\ UNCHANGED bal

OpenWallet ==
    /\ bal' = Append(bal, [d \in {Base, Quote} |-> 0])
    /\ locked' = Append(locked, [d \in {Base, Quote} |-> 0])
    /\ UNCHANGED orders

Deposit(w, d) ==
    /\ \E amount \in Deposits[d] : bal' = [bal EXCEPT ![w][d] = @ + amount]
    /\ UNCHANGED <<locked, orders>>

\* A withdrawal leaves what is locked.
Withdraw(w, d) ==
    /\ bal' = [bal EXCEPT ![w][d] = bal'[w][d]]
    /\ locked[w][d] <= bal'[w][d]
    /\ UNCHANGED <<locked, orders>>

\* The file was torn: the market starts again from nothing.
Lose == bal' = <<>> /\ locked' = <<>> /\ orders' = <<>>

Init == bal = <<>> /\ locked = <<>> /\ orders = <<>>

Next ==
    \/ PlaceOne
    \/ \E o \in DOMAIN orders : Cancel(o)
    \/ OpenWallet
    \/ \E w \in DOMAIN bal, d \in {Base, Quote} : Deposit(w, d) \/ Withdraw(w, d)
    \/ Lose

Spec == Init /\ [][Next]_marketVars

=============================================================================
