------------------------------ MODULE Exchange ------------------------------
(***************************************************************************)
(* The exchange keeper (x/exchange/keeper/keeper.go): custodial wallets,   *)
(* KYC tiers, one price-sorted order book and the JSON file the keeper     *)
(* writes after every operation.                                           *)
(*                                                                         *)
(* Every mutator runs under the write lock k.mu, so operations do not      *)
(* interleave with each other.  PlaceOrder is nevertheless split at the    *)
(* iterations of its matching loop: the process can die between any two    *)
(* of them, and the readers that hold *Wallet and *Order pointers after    *)
(* RUnlock see the intermediate states.  `taker' is the order whose        *)
(* PlaceOrder holds the lock (0: the lock is free) and `idx' the loop's    *)
(* index i, counted from 1.                                                *)
(* While an order is matched, the opposite book in `book' stands for the   *)
(* local slice of matchOrder, which it stores back as it returns, still    *)
(* under the lock.                                                         *)
(***************************************************************************)
EXTENDS Integers, Sequences, FiniteSets, Functions

CONSTANTS
    Users,          \* user ids
    Deposits, Withdrawals, \* amounts deposited and withdrawn, per denom; the
                    \* code takes any int64, so they may be negative
    Offers,         \* <<price, quantity>> requested; a price is in quote units
                    \* per PriceScale base units
    OrderTypes,     \* the order types requested, out of AllTypes
    Requests,       \* KYC tiers requested: any integer, the code checks no range
    Sanctions,      \* is the applicant's country high-risk? values requested
    PriceScale,     \* 1_000_000 in the code: base units per whole token
    FeeScale,       \* 10_000 in the code: basis points in one
    MakerFee, TakerFee,    \* the pair's fees, in basis points
    MinOrderSize,   \* the pair's minimum quantity
    TierLimit,      \* config.TierLimits: daily volume per KYC tier
    StableSortLen,  \* sort.Slice keeps ties in order up to this length (12)
    TornWrites,     \* may the process die inside os.WriteFile?
    MaxWallets, MaxOrders, MaxApps, MaxDays,    \* bounds
    MaxBalance      \* bound: deposits and withdrawals leave a balance within
                    \* -MaxBalance .. MaxBalance

Base   == "uftg"
Quote  == "uusdc"
Denoms == {Base, Quote}
Sides  == {"buy", "sell"}
AllTypes == {"limit", "market"}

None == 0   Basic == 1   Full == 2   Inst == 3
Tiers == None .. Inst
Days  == 1 .. MaxDays

ASSUME ExchangeAssumption ==
    /\ Deposits \in [Denoms -> SUBSET Int]
    /\ Withdrawals \in [Denoms -> SUBSET Int]
    /\ Offers \subseteq Int \X Int
    /\ OrderTypes \subseteq AllTypes
    /\ Requests \subseteq Int /\ Sanctions \subseteq BOOLEAN
    /\ PriceScale \in Nat \ {0} /\ FeeScale \in Nat \ {0}
    /\ MakerFee \in Nat /\ TakerFee \in Nat
    /\ MinOrderSize \in Nat \ {0}
    /\ TierLimit \in [Tiers -> Nat]
    /\ StableSortLen \in Nat /\ TornWrites \in BOOLEAN
    /\ MaxWallets \in Nat /\ MaxOrders \in Nat /\ MaxApps \in Nat
    /\ MaxBalance \in Nat /\ MaxDays \in Nat \ {0}

VARIABLES
    wallets,  \* k.Wallets in order of creation: user, KYC tier, active flag
    bal,      \* wallet.Balances
    locked,   \* wallet.Locked
    orders,   \* k.Orders in order of creation
    trades,   \* k.Trades
    apps,     \* k.KYCApps in order of creation
    volume,   \* k.DailyLimits: TotalVolume per user and day
    book,     \* k.BuyBook and k.SellBook: ids of resting orders, best first
    today,    \* the UTC date
    taker,    \* the order whose PlaceOrder holds k.mu, 0 when k.mu is free
    idx,      \* the matching loop's position in the opposite book
    disk      \* the contents of exchange_state.json

persistent == <<wallets, bal, locked, orders, trades, apps, volume>>
vars == <<persistent, book, today, taker, idx, disk>>

-----------------------------------------------------------------------------
(* Types.                                                                  *)

Wallet == [user : Users, tier : Nat, active : BOOLEAN]

\* Only a limit order's price is checked.
Order == { o \in [wallet : Nat, side : Sides, type : AllTypes, price : Int,
                  qty : Nat, filled : Nat, remaining : Nat,
                  status : {"open", "partial", "filled", "cancelled"}] :
             o.type = "limit" => o.price > 0 }

Trade == [maker : Nat, taker : Nat, price : Int, qty : Nat,
          makerFee : Int, takerFee : Int, day : Days]

\* `approvedAt' is ApprovedAt: 0 for nil, else the rank of the approval.
App == [user : Users, wallet : Nat, tier : Nat,
        status : {"pending", "approved", "rejected"}, sanctioned : BOOLEAN,
        approvedAt : Nat]

Zero == [d \in Denoms |-> 0]

\* What json.MarshalIndent(k) writes; the books are not in it.
Persisted == [wallets |-> wallets, bal |-> bal, locked |-> locked,
              orders |-> orders, trades |-> trades, apps |-> apps,
              volume |-> volume]

\* What NewKeeper starts from when there is no file, or one it cannot parse.
Blank == [wallets |-> <<>>, bal |-> <<>>, locked |-> <<>>, orders |-> <<>>,
          trades |-> <<>>, apps |-> <<>>,
          volume |-> [ud \in Users \X Days |-> 0]]

-----------------------------------------------------------------------------
(* Helpers.                                                                *)

Idle == taker = 0

\* Mutated form of Available: locked funds count as available.
WholeBalance(w, d) == bal[w][d]

Available(w, d) == bal[w][d] - locked[w][d]

\* Go's integer division: truncated towards zero.
Quotient(a, b) == IF a >= 0 THEN a \div b ELSE -((-a) \div b)

QuoteAmount(price, qty) == Quotient(price * qty, PriceScale)

Fee(bps, price, qty) == Quotient(qty * price * bps, PriceScale * FeeScale)

Opposite(side) == IF side = "buy" THEN "sell" ELSE "buy"

Live(o) == o.status \in {"open", "partial"}

\* The comparison the books are sorted with: p strictly before q.
Before(side, p, q) == IF side = "buy" THEN p > q ELSE p < q

\* Mutated form of Sorted: the order is appended and the book not sorted.
SortForgotten(os, side, s) == {s}

\* The orders of `ids' as sort.Slice may leave them, given in sequence s: by
\* price, and with ties in the order of s when s is short enough.
Sorted(os, side, s) ==
    { t \in [1 .. Len(s) -> {s[i] : i \in 1 .. Len(s)}] :
        /\ \A i \in 1 .. Len(s) : \E j \in 1 .. Len(s) : t[j] = s[i]
        /\ \A i, j \in 1 .. Len(s) :
              i < j => ~Before(side, os[t[j]].price, os[t[i]].price)
        /\ Len(s) <= StableSortLen =>
              \A i, j, m, n \in 1 .. Len(s) :
                 (/\ i < j /\ t[m] = s[i] /\ t[n] = s[j]
                  /\ os[s[i]].price = os[s[j]].price) => m < n }

\* Mutated form of Rebuilt: partially filled orders are not put back.
RebuiltFromOpen(os, side) ==
    LET ids == { o \in 1 .. Len(os) : os[o].status = "open" /\ os[o].side = side }
    IN  { t \in [1 .. Cardinality(ids) -> ids] :
            \A o \in ids : \E j \in 1 .. Cardinality(ids) : t[j] = o }

\* rebuildOrderBooks: all live orders of a side, ties in map iteration order.
Rebuilt(os, side) ==
    LET ids == { o \in 1 .. Len(os) : Live(os[o]) /\ os[o].side = side }
    IN  { t \in [1 .. Cardinality(ids) -> ids] :
            /\ \A o \in ids : \E j \in 1 .. Cardinality(ids) : t[j] = o
            /\ \A i, j \in 1 .. Cardinality(ids) :
                  i < j => ~Before(side, os[t[j]].price, os[t[i]].price) }

\* append(book[:i], book[i+1:]...)
RemoveAt(s, i) == [j \in 1 .. Len(s) - 1 |-> s[IF j < i THEN j ELSE j + 1]]

\* Mutated form of Without: the order is left in its book.
NotRemoved(s, o) == s

\* removeFromBook: the first entry for order o, if there is one.
Without(s, o) ==
    IF \A i \in DOMAIN s : s[i] # o THEN s
    ELSE RemoveAt(s, CHOOSE i \in DOMAIN s :
                        s[i] = o /\ \A j \in 1 .. i - 1 : s[j] # o)

Save == disk' = Persisted'

Bounded(x) == -MaxBalance <= x /\ x <= MaxBalance

-----------------------------------------------------------------------------
(* Wallets.                                                                *)

\* Mutated form of HasActiveWallet: only the newest wallet is looked at.
NewestIsActive(u) ==
    wallets # <<>> /\ wallets[Len(wallets)].user = u /\ wallets[Len(wallets)].active

HasActiveWallet(u) ==
    \E w \in DOMAIN wallets : wallets[w].user = u /\ wallets[w].active

CreateWallet(u) ==
    /\ Idle
    /\ Len(wallets) < MaxWallets
    /\ ~HasActiveWallet(u)
    /\ wallets' = Append(wallets, [user |-> u, tier |-> None, active |-> TRUE])
    /\ bal' = Append(bal, Zero)
    /\ locked' = Append(locked, Zero)
    /\ UNCHANGED <<orders, trades, apps, volume, book, today, taker, idx>>
    /\ Save

\* Neither the handler nor the keeper looks at the sign of the amount.
DepositToWallet(w, d, amount) ==
    /\ Idle
    /\ wallets[w].active
    /\ Bounded(bal[w][d] + amount)
    /\ bal' = [bal EXCEPT ![w][d] = @ + amount]
    /\ UNCHANGED <<wallets, locked, orders, trades, apps, volume, book, today,
                   taker, idx>>
    /\ Save

WithdrawFromWallet(w, d, amount) ==
    /\ Idle
    /\ wallets[w].active
    /\ amount <= Available(w, d)
    /\ Bounded(bal[w][d] - amount)
    /\ bal' = [bal EXCEPT ![w][d] = @ - amount]
    /\ UNCHANGED <<wallets, locked, orders, trades, apps, volume, book, today,
                   taker, idx>>
    /\ Save

-----------------------------------------------------------------------------
(* KYC.                                                                    *)

\* How many applications were approved so far.
Approvals == Cardinality({a \in DOMAIN apps : apps[a].approvedAt # 0})

\* `sanctioned' is the outcome of runAMLChecks: the risk score is 80 and
\* SanctionsCheck is set for a high-risk country, and both are clear otherwise.
SubmitKYC(u, w, tier, sanctioned) ==
    LET auto == tier = Basic /\ ~sanctioned
    IN  /\ Idle
        /\ Len(apps) < MaxApps
        /\ \A a \in DOMAIN apps : apps[a].user = u => apps[a].status # "pending"
        /\ wallets[w].tier < tier
        /\ apps' = Append(apps,
              [user |-> u, wallet |-> w, tier |-> tier,
               status |-> IF sanctioned THEN "rejected"
                          ELSE IF auto THEN "approved" ELSE "pending",
               sanctioned |-> sanctioned,
               approvedAt |-> IF auto THEN Approvals + 1 ELSE 0])
        /\ wallets' = [wallets EXCEPT
              ![w].tier = IF auto THEN Basic ELSE @,
              ![w].active = @ /\ ~sanctioned]
        /\ UNCHANGED <<bal, locked, orders, trades, volume, book, today, taker,
                       idx>>
        /\ Save

\* Mutated form of Approvable: a rejected application can be approved.
NotYetApproved(a) == apps[a].status # "approved"

Approvable(a) == apps[a].status = "pending"

\* Mutated form of ApproveKYC: the tier goes to the applicant's wallets, not
\* to the one the application names.
ApproveKYCOfUser(a) ==
    /\ Idle
    /\ Approvable(a)
    /\ apps' = [apps EXCEPT ![a].status = "approved",
                            ![a].approvedAt = Approvals + 1]
    /\ wallets' = [w \in DOMAIN wallets |->
          IF wallets[w].user = apps[a].user
          THEN [wallets[w] EXCEPT !.tier = apps[a].tier] ELSE wallets[w]]
    /\ UNCHANGED <<bal, locked, orders, trades, volume, book, today, taker, idx>>
    /\ Save

ApproveKYC(a) ==
    /\ Idle
    /\ Approvable(a)
    /\ apps' = [apps EXCEPT ![a].status = "approved",
                            ![a].approvedAt = Approvals + 1]
    /\ wallets' = [wallets EXCEPT ![apps[a].wallet].tier = apps[a].tier]
    /\ UNCHANGED <<bal, locked, orders, trades, volume, book, today, taker, idx>>
    /\ Save

\* The code rejects an application in any status; a rejected one keeps the
\* ApprovedAt it may have, and its wallet the tier.
RejectKYC(a) ==
    /\ Idle
    /\ apps' = [apps EXCEPT ![a].status = "rejected"]
    /\ UNCHANGED <<wallets, bal, locked, orders, trades, volume, book, today,
                   taker, idx>>
    /\ Save

-----------------------------------------------------------------------------
(* Placing an order.                                                       *)

MayTrade(w) == wallets[w].active /\ wallets[w].tier >= Basic

\* A tier that the map of limits does not have reads as zero.
LimitOf(tier) == IF tier \in Tiers THEN TierLimit[tier] ELSE 0

WithinDailyLimit(w, price, qty) ==
    \/ wallets[w].tier = Inst
    \/ /\ LimitOf(wallets[w].tier) # 0
       /\ volume[wallets[w].user, today] + QuoteAmount(price, qty)
             <= LimitOf(wallets[w].tier)

LockDenom(side) == IF side = "buy" THEN Quote ELSE Base
LockAmount(side, price, qty) ==
    IF side = "buy" THEN QuoteAmount(price, qty) ELSE qty

\* PlaceOrder up to the call of matchOrder.
PlaceOrder(w, side, type, price, qty) ==
    LET d == LockDenom(side)
        amount == LockAmount(side, price, qty)
    IN  /\ Idle
        /\ Len(orders) < MaxOrders
        /\ MayTrade(w)
        /\ qty >= MinOrderSize
        /\ type = "limit" => price > 0
        /\ WithinDailyLimit(w, price, qty)
        /\ amount <= Available(w, d)
        /\ locked' = [locked EXCEPT ![w][d] = @ + amount]
        /\ orders' = Append(orders,
              [wallet |-> w, side |-> side, type |-> type, price |-> price,
               qty |-> qty, filled |-> 0, remaining |-> qty,
               status |-> "open"])
        /\ taker' = Len(orders) + 1
        /\ idx' = 1
        /\ UNCHANGED <<wallets, bal, trades, apps, volume, book, today, disk>>

OppositeBook == book[Opposite(orders[taker].side)]

\* The condition of the matching loop and its two breaks.
Matching ==
    /\ ~Idle
    /\ idx <= Len(OppositeBook)
    /\ orders[taker].remaining > 0
    /\ orders[taker].type = "limit" =>
          ~Before(Opposite(orders[taker].side),
                  orders[taker].price, orders[OppositeBook[idx]].price)

\* Mutated form of SkipOwn: `continue' without i++.
SkipOwnForever ==
    /\ Matching
    /\ orders[OppositeBook[idx]].wallet = orders[taker].wallet
    /\ UNCHANGED vars

\* Mutated form of SkipOwn: `break' instead of `continue'.
SkipOwnStops ==
    /\ Matching
    /\ orders[OppositeBook[idx]].wallet = orders[taker].wallet
    /\ idx' = Len(OppositeBook) + 1
    /\ UNCHANGED <<persistent, book, today, taker, disk>>

SkipOwn ==
    /\ Matching
    /\ orders[OppositeBook[idx]].wallet = orders[taker].wallet
    /\ idx' = idx + 1
    /\ UNCHANGED <<persistent, book, today, taker, disk>>

\* Mutated form of FillOrder: the whole quantity leaves what remains.
FillOrderWhole(o, fill) == [o EXCEPT !.filled = @ + fill, !.remaining = @ - o.qty]

FillOrder(o, fill) == [o EXCEPT !.filled = @ + fill, !.remaining = @ - fill]

\* Mutated form of FillMaker: a maker that trades is filled.
FillMakerAlways(o, fill) == [FillOrder(o, fill) EXCEPT !.status = "filled"]

FillMaker(o, fill) ==
    [FillOrder(o, fill) EXCEPT
        !.status = IF o.remaining = fill THEN "filled" ELSE "partial"]

\* Mutated form of SettleBalances: the seller's lock is taken for its debit.
SettleUndebited(buyer, seller, qty, amount, buyerFee, sellerFee) ==
    [bal EXCEPT ![buyer][Base]   = @ + qty,
                ![buyer][Quote]  = @ - amount - buyerFee,
                ![seller][Quote] = @ + amount - sellerFee]

\* settleTrade: the base quantity and the quote amount change hands, both
\* leave the locks that covered them, and each side's fee is debited from its
\* quote balance and credited to nobody.
SettleBalances(buyer, seller, qty, amount, buyerFee, sellerFee) ==
    [bal EXCEPT ![buyer][Base]   = @ + qty,
                ![buyer][Quote]  = @ - amount - buyerFee,
                ![seller][Base]  = @ - qty,
                ![seller][Quote] = @ + amount - sellerFee]

\* Mutated form of SettleLocks: the quantity is released on both sides.
SettleLocksByQuantity(buyer, seller, qty, amount) ==
    [locked EXCEPT ![buyer][Quote] = @ - qty, ![seller][Base] = @ - qty]

SettleLocks(buyer, seller, qty, amount) ==
    [locked EXCEPT ![buyer][Quote] = @ - amount, ![seller][Base] = @ - qty]

\* Mutated form of AddVolume: only one of the two users is charged.
AddVolumeOnce(u, v, amount, made, taken) ==
    [volume EXCEPT ![<<u, made>>] = @ + amount]

\* updateDailyLimit for the maker's user u on day `made', then for the
\* taker's user v on day `taken': each call reads the clock for itself.
AddVolume(u, v, amount, made, taken) ==
    [ud \in DOMAIN volume |->
        volume[ud] + (IF ud = <<u, made>> THEN amount ELSE 0)
                   + (IF ud = <<v, taken>> THEN amount ELSE 0)]

\* Mutated form of TradeOf: what the taker wanted is recorded, not the fill.
TradeOfWanted(m, fill) ==
    [maker |-> m, taker |-> taker, price |-> orders[m].price,
     qty |-> orders[taker].remaining, makerFee |-> Fee(MakerFee, orders[m].price, fill),
     takerFee |-> Fee(TakerFee, orders[m].price, fill), day |-> today]

\* The trade that fills `fill' of the taker's order from maker m, at m's price.
TradeOf(m, fill) ==
    [maker |-> m, taker |-> taker, price |-> orders[m].price, qty |-> fill,
     makerFee |-> Fee(MakerFee, orders[m].price, fill),
     takerFee |-> Fee(TakerFee, orders[m].price, fill), day |-> today]

\* One iteration of the matching loop that trades with the maker at idx.  The
\* clock is read three times, for the trade and for each user's volume, and
\* midnight may fall in between.
Fill ==
    LET t      == orders[taker]
        m      == OppositeBook[idx]
        mk     == orders[m]
        buying == t.side = "buy"
        fill   == IF mk.remaining < t.remaining THEN mk.remaining
                  ELSE t.remaining
        tr     == TradeOf(m, fill)
        amount == QuoteAmount(mk.price, fill)
    IN  /\ Matching
        /\ mk.wallet # t.wallet
        /\ trades' = Append(trades, tr)
        /\ bal' = IF buying
                  THEN SettleBalances(t.wallet, mk.wallet, fill, amount,
                                      tr.takerFee, tr.makerFee)
                  ELSE SettleBalances(mk.wallet, t.wallet, fill, amount,
                                      tr.makerFee, tr.takerFee)
        /\ locked' = IF buying
                     THEN SettleLocks(t.wallet, mk.wallet, fill, amount)
                     ELSE SettleLocks(mk.wallet, t.wallet, fill, amount)
        /\ \E made \in today .. MaxDays : \E taken \in made .. MaxDays :
              /\ volume' = AddVolume(wallets[mk.wallet].user,
                                     wallets[t.wallet].user, amount, made, taken)
              /\ today' = taken
        /\ orders' = [orders EXCEPT ![taker] = FillOrder(@, fill),
                                    ![m] = FillMaker(@, fill)]
        /\ IF mk.remaining = fill
           THEN /\ book' = [book EXCEPT ![Opposite(t.side)] = RemoveAt(@, idx)]
                /\ idx' = idx
           ELSE /\ book' = book
                /\ idx' = idx + 1
        /\ UNCHANGED <<wallets, apps, taker, disk>>

\* The loop has ended: the taker's status, its remainder into the book when
\* it is a limit order, the save and the unlock.
FinishOrder ==
    LET t == orders[taker]
        status == IF t.remaining = 0 THEN "filled"
                  ELSE IF t.filled > 0 THEN "partial" ELSE t.status
    IN  /\ ~Idle
        /\ ~Matching
        /\ orders' = [orders EXCEPT ![taker].status = status]
        /\ IF t.remaining > 0 /\ t.type = "limit"
           THEN \E s \in Sorted(orders, t.side, Append(book[t.side], taker)) :
                   book' = [book EXCEPT ![t.side] = s]
           ELSE book' = book
        /\ taker' = 0
        /\ idx' = 1
        /\ UNCHANGED <<wallets, bal, locked, trades, apps, volume, today>>
        /\ Save

\* Mutated form of ReleaseAmount: the lock of the whole order is released.
ReleaseWhole(o) == LockAmount(o.side, o.price, o.qty)

ReleaseAmount(o) == LockAmount(o.side, o.price, o.remaining)

\* The caller names its wallet; the order must belong to it.
CancelOrder(o, w) ==
    LET t == orders[o] IN
    /\ Idle
    /\ t.wallet = w
    /\ t.status # "filled"
    /\ t.status # "cancelled"
    /\ locked' = [locked EXCEPT ![w][LockDenom(t.side)] = @ - ReleaseAmount(t)]
    /\ orders' = [orders EXCEPT ![o].status = "cancelled"]
    /\ book' = [book EXCEPT ![t.side] = Without(@, o)]
    /\ UNCHANGED <<wallets, bal, trades, apps, volume, today, taker, idx>>
    /\ Save

-----------------------------------------------------------------------------
(* The environment: midnight, and a crash followed by systemd's restart.   *)

NewDay ==
    /\ today < MaxDays
    /\ today' = today + 1
    /\ UNCHANGED <<persistent, book, taker, idx, disk>>

\* The process dies and NewKeeper loads the file again.  A process that dies
\* inside os.WriteFile, after the truncation, leaves a file json.Unmarshal
\* refuses; the error is dropped and the keeper starts empty.
Restart ==
    \E file \in {disk} \cup (IF TornWrites THEN {Blank} ELSE {}) :
        /\ wallets' = file.wallets /\ bal' = file.bal
        /\ locked' = file.locked /\ orders' = file.orders
        /\ trades' = file.trades /\ apps' = file.apps
        /\ volume' = file.volume
        /\ \E b \in Rebuilt(file.orders, "buy"),
              s \in Rebuilt(file.orders, "sell") :
                 book' = [side \in Sides |-> IF side = "buy" THEN b ELSE s]
        /\ taker' = 0 /\ idx' = 1
        /\ disk' = file
        /\ today' = today

-----------------------------------------------------------------------------

Init ==
    /\ wallets = <<>> /\ bal = <<>> /\ locked = <<>>
    /\ orders = <<>> /\ trades = <<>> /\ apps = <<>>
    /\ volume = [ud \in Users \X Days |-> 0]
    /\ book = [side \in Sides |-> <<>>]
    /\ today = 1 /\ taker = 0 /\ idx = 1
    /\ disk = Blank

\* Every operation but SubmitKYC, which a handler of module Screening calls too.
Operate ==
    \/ \E u \in Users : CreateWallet(u)
    \/ \E w \in DOMAIN wallets, d \in Denoms : \E amount \in Deposits[d] :
          DepositToWallet(w, d, amount)
    \/ \E w \in DOMAIN wallets, d \in Denoms : \E amount \in Withdrawals[d] :
          WithdrawFromWallet(w, d, amount)
    \/ \E a \in DOMAIN apps : ApproveKYC(a) \/ RejectKYC(a)
    \/ \E w \in DOMAIN wallets, side \in Sides, type \in OrderTypes,
          offer \in Offers : PlaceOrder(w, side, type, offer[1], offer[2])
    \/ SkipOwn
    \/ Fill
    \/ FinishOrder
    \/ \E o \in DOMAIN orders, w \in DOMAIN wallets : CancelOrder(o, w)
    \/ NewDay

Next ==
    \/ Operate
    \/ \E u \in Users, w \in DOMAIN wallets, tier \in Requests,
          sanctioned \in Sanctions : SubmitKYC(u, w, tier, sanctioned)
    \/ Restart

Spec == Init /\ [][Next]_vars

-----------------------------------------------------------------------------
(* Invariants.                                                             *)

\* Every variable has its type, in memory and in the file.
FileOK(f) ==
    /\ f.wallets \in Seq(Wallet) /\ f.orders \in Seq(Order)
    /\ f.trades \in Seq(Trade) /\ f.apps \in Seq(App)
    /\ f.bal \in Seq([Denoms -> Int]) /\ f.locked \in Seq([Denoms -> Int])
    /\ f.volume \in [Users \X Days -> Int]
    /\ Len(f.bal) = Len(f.wallets) /\ Len(f.locked) = Len(f.wallets)
    /\ \A o \in 1 .. Len(f.orders) : f.orders[o].wallet \in 1 .. Len(f.wallets)
    /\ \A a \in 1 .. Len(f.apps) : f.apps[a].wallet \in 1 .. Len(f.wallets)

TypeOK ==
    /\ FileOK(Persisted)
    /\ FileOK(disk)
    /\ book \in [Sides -> Seq(1 .. Len(orders))]
    /\ today \in Days
    /\ taker \in 0 .. Len(orders)
    /\ idx \in Nat \ {0}

\* An order's filled and remaining quantities always add up to what was
\* ordered, and its status says which of the two are zero; only the order
\* being matched is behind, until PlaceOrder sets its status at the end
\* (matchOrder updates both orders of every trade, over any number of calls).
Accounted(o) ==
    /\ o.filled + o.remaining = o.qty
    /\ o.status = "open" => o.filled = 0 /\ o.remaining > 0
    /\ o.status = "partial" => o.filled > 0 /\ o.remaining > 0
    /\ o.status = "filled" => o.remaining = 0
    /\ o.status = "cancelled" => o.remaining > 0

BeingMatched(o) ==
    /\ o.filled + o.remaining = o.qty
    /\ o.qty > 0
    /\ o.status = "open"

OrderAccounting ==
    /\ \A o \in 1 .. Len(orders) :
          IF o = taker THEN BeingMatched(orders[o]) ELSE Accounted(orders[o])
    /\ \A o \in 1 .. Len(disk.orders) : Accounted(disk.orders[o])

\* A book holds each order once, and only orders that can still trade: live,
\* of the book's side, and not the one being matched (the slices the keeper
\* cuts and appends to in matchOrder, PlaceOrder and removeFromBook).
BookIsLive ==
    \A side \in Sides :
        /\ \A i \in 1 .. Len(book[side]) :
              /\ Live(orders[book[side][i]])
              /\ orders[book[side][i]].side = side
              /\ book[side][i] # taker
        /\ \A i, j \in 1 .. Len(book[side]) :
              book[side][i] = book[side][j] => i = j

\* Every live limit order rests in the book of its side, so none is stranded
\* where no taker finds it (PlaceOrder appends the remainder after matching,
\* rebuildOrderBooks after a restart).
LiveIsInBook ==
    \A o \in DOMAIN orders :
        (Live(orders[o]) /\ orders[o].type = "limit" /\ o # taker) =>
            \E i \in DOMAIN book[orders[o].side] : book[orders[o].side][i] = o

\* Two resting limit orders of different wallets never cross: whatever could
\* trade has traded by the time PlaceOrder returns (the price break and the
\* own-order skip of matchOrder, which rely on the books being sorted).
NoCrossing ==
    \A i \in DOMAIN book["buy"], j \in DOMAIN book["sell"] :
        LET b == orders[book["buy"][i]]
            s == orders[book["sell"][j]]
        IN  b.wallet # s.wallet /\ b.type = "limit" /\ s.type = "limit"
               => b.price < s.price

LiveOrders(w, side) ==
    { o \in DOMAIN orders :
        orders[o].wallet = w /\ orders[o].side = side /\ Live(orders[o]) }

\* What each order has left to trade, in base and in quote units.
Remaining == [o \in DOMAIN orders |-> orders[o].remaining]
RemainingQuote ==
    [o \in DOMAIN orders |-> QuoteAmount(orders[o].price, orders[o].remaining)]

\* The base tokens a wallet has locked are exactly what remains of its live
\* sell orders, at every point of a match and across cancels and restarts.
BaseLockExact ==
    \A w \in DOMAIN wallets :
        locked[w][Base] = SumFunctionOnSet(Remaining, LiveOrders(w, "sell"))

\* The quote a wallet has locked always covers what cancelling its live buy
\* orders would release, so no lock goes negative (with limit orders; the
\* floors of the lock, of each fill and of the release are taken separately).
QuoteLockCovers ==
    \A w \in DOMAIN wallets :
        locked[w][Quote] >= SumFunctionOnSet(RemainingQuote, LiveOrders(w, "buy"))

TradesOf(o) ==
    { i \in DOMAIN trades : trades[i].maker = o \/ trades[i].taker = o }

\* What each trade exchanges, in base and in quote units.
Traded == [i \in DOMAIN trades |-> trades[i].qty]
TradedQuote == [i \in DOMAIN trades |-> QuoteAmount(trades[i].price, trades[i].qty)]

\* What an order says is filled is the sum of the trades recorded for it, also
\* after a restart in the middle of a match (k.Trades against FilledQty).
FillsAreTraded ==
    \A o \in DOMAIN orders : orders[o].filled = SumFunctionOnSet(Traded, TradesOf(o))

UserOf(o) == wallets[orders[o].wallet].user

\* The trades whose maker, and whose taker, was user u and whose volume was
\* counted on day d, when trade i was counted on booked[i].
MadeBy(u, d, booked) ==
    { i \in DOMAIN trades : booked[i] = d /\ UserOf(trades[i].maker) = u }
TakenBy(u, d, booked) ==
    { i \in DOMAIN trades : booked[i] = d /\ UserOf(trades[i].taker) = u }

\* The volume held against the users' limits is that of the recorded trades:
\* each counts in full, once for its maker and then for its taker, on a day
\* from the trade's own up to the day of the next trade, so that midnight puts
\* off a count but drops or repeats none (updateDailyLimit against k.Trades;
\* settleTrade's clock is read again on each side).
VolumeIsTraded ==
    \E made, taken \in [DOMAIN trades -> Days] :
        /\ \A i \in DOMAIN trades :
              /\ trades[i].day <= made[i] /\ made[i] <= taken[i]
              /\ taken[i] <= IF i < Len(trades) THEN trades[i + 1].day ELSE today
        /\ \A u \in Users, d \in Days :
              volume[u, d] = SumFunctionOnSet(TradedQuote, MadeBy(u, d, made))
                             + SumFunctionOnSet(TradedQuote, TakenBy(u, d, taken))

\* A user has one active wallet and one pending application, whatever was
\* frozen, rejected or restarted in between (the scans at the head of
\* CreateWallet and SubmitKYC).
OnePerUser ==
    /\ \A v, w \in DOMAIN wallets :
          wallets[v].active /\ wallets[w].active
             /\ wallets[v].user = wallets[w].user => v = w
    /\ \A a, b \in DOMAIN apps :
          apps[a].status = "pending" /\ apps[b].status = "pending"
             /\ apps[a].user = apps[b].user => a = b

\* A wallet that ever drew a sanctions match is frozen and stays so, although
\* other users may file applications for it and later ones be approved.
SanctionedIsFrozen ==
    \A a \in DOMAIN apps :
        apps[a].sanctioned =>
            ~wallets[apps[a].wallet].active /\ apps[a].status = "rejected"

\* Nobody trades without a decision: each wallet that owns an order has an
\* application without a sanctions match that was approved, and its tier is
\* the one of the last approval, whoever applied for the wallet and in whatever
\* order applications were decided (SubmitKYC and ApproveKYC; RejectKYC of an
\* approved application leaves the tier).
TradersAreVerified ==
    \A o \in DOMAIN orders :
        LET w == orders[o].wallet IN
        /\ wallets[w].tier >= Basic
        /\ \E a \in DOMAIN apps :
              /\ apps[a].wallet = w /\ apps[a].approvedAt # 0
              /\ ~apps[a].sanctioned /\ apps[a].tier = wallets[w].tier
              /\ \A b \in DOMAIN apps :
                    apps[b].wallet = w => apps[b].approvedAt <= apps[a].approvedAt

-----------------------------------------------------------------------------
(* Action properties.                                                      *)

LastTrade == trades[Len(trades)]

\* A trade takes the best price there is: no live limit order of a third
\* wallet on the maker's side is better, and the price is within the taker's
\* limit (the loop walks a sorted book and skips only the taker's own orders).
BestExecution ==
    [][Len(trades') > Len(trades) =>
        LET tr   == LastTrade'
            t    == orders[tr.taker]
            side == Opposite(t.side)
        IN  /\ t.type = "limit" => ~Before(side, t.price, tr.price)
            /\ \A i \in DOMAIN book[side] :
                  LET o == orders[book[side][i]] IN
                  o.wallet # t.wallet => ~Before(side, o.price, tr.price)]_vars

Total(d) == SumFunction([w \in DOMAIN bal |-> bal[w][d]])

\* A trade neither makes nor destroys base tokens, and touches no balance and
\* no lock of a third wallet, however the debits and credits of settleTrade
\* fall on maker and taker.
TradesConserve ==
    [][Len(trades') > Len(trades) =>
        /\ Total(Base)' = Total(Base)
        /\ \A w \in DOMAIN bal :
              w \notin {orders[LastTrade'.maker].wallet, orders[LastTrade'.taker].wallet}
                 => bal'[w] = bal[w] /\ locked'[w] = locked[w]]_vars

\* Orders and withdrawals are paid from what is available: a wallet whose base
\* tokens do not cover its sell orders, or cover them less than before, has
\* just had a negative amount deposited, or is as the file has it after a
\* restart (the test of PlaceOrder and WithdrawFromWallet, and the debits of
\* balance and lock together in settleTrade; DepositToWallet tests nothing).
OnlyDepositsOverdraw ==
    [][\A w \in DOMAIN bal' :
        \/ Available(w, Base)' >= 0
        \/ w \in DOMAIN bal /\ Available(w, Base)' >= Available(w, Base)
        \/ \E amount \in Deposits[Base] : amount < 0 /\ DepositToWallet(w, Base, amount)
        \/ bal' = disk.bal /\ locked' = disk.locked]_vars

-----------------------------------------------------------------------------
(* Refinement.                                                             *)

AtomicMarket == INSTANCE Market WITH
    bal <- disk.bal, locked <- disk.locked, orders <- disk.orders

\* Seen through its file, a limit-order exchange is a market in which every
\* order trades in one step, at the best prices and as far as it goes: the loop
\* of matchOrder, its skips, removals and rounding, and every crash inside it
\* show only as such a step or not at all.
ImplementsMarket == AtomicMarket!Spec

-----------------------------------------------------------------------------
(* Liveness.                                                               *)

\* The goroutine that runs PlaceOrder is scheduled until it unlocks.
FairSpec == Spec /\ WF_vars(SkipOwn) /\ WF_vars(Fill) /\ WF_vars(FinishOrder)

\* Every PlaceOrder returns: its loop moves forward or shortens the book in
\* each iteration (matchOrder has no other bound on its loop).
PlaceOrderReturns == ~Idle ~> Idle

-----------------------------------------------------------------------------
(* Claims of the source that the code does not keep; each is refuted by a  *)
(* run of its own.                                                         *)

\* types.go:95 gives a price to limit orders alone, so no trade executes at
\* the price of a market order.  After a restart rebuildOrderBooks puts the
\* unfilled rest of a market order into the book, where it makes trades.
TradesAtLimitPrices ==
    \A i \in DOMAIN trades : orders[trades[i].maker].type = "limit"

\* types.go:83 calls Locked what is locked in open orders.  settleTrade
\* releases only what a fill cost, so a buyer that paid less than its limit
\* keeps the difference locked with no order behind it.
QuoteLockExact ==
    \A w \in DOMAIN wallets :
        locked[w][Quote] = SumFunctionOnSet(RemainingQuote, LiveOrders(w, "buy"))

\* types.go:183 names a "Fee collection address", so a trade leaves the sum of
\* the quote balances as it was.  settleTrade debits both fees and credits
\* nobody: FeeCollector is set in NewKeeper and never read.
FeesAreCollected ==
    [][Len(trades') > Len(trades) => Total(Quote)' = Total(Quote)]_vars

\* types.go:191 calls TierLimits the maximum daily volume per tier.  The limit
\* is looked at when an order is placed and volume counted when it trades, so
\* orders that rest together exceed it.
DailyVolumeWithinTier ==
    \A w \in DOMAIN wallets :
        (wallets[w].active /\ wallets[w].tier \in {Basic, Full}) =>
            volume[wallets[w].user, today] <= TierLimit[wallets[w].tier]

=============================================================================
