-------------------------- MODULE ExchangeSumProofs --------------------------
(***************************************************************************)
(* Proofs about the totals of Exchange: what orders say is filled and what *)
(* counts against a user's daily limit are sums over the recorded trades,  *)
(* what a wallet has locked is the sum of what its live orders need, and a *)
(* trade moves tokens between the wallets of its two orders alone.  The    *)
(* last section puts them together: the exchange implements Market.        *)
(***************************************************************************)
EXTENDS ExchangeBookProofs, Sums

-----------------------------------------------------------------------------
(* Fills and trades, of the memory or of the file: every trade is between  *)
(* orders that exist, and an order's trades add up to what it has filled.  *)

Qty(ts) == [i \in 1 .. Len(ts) |-> ts[i].qty]

Of(ts, o) == { i \in 1 .. Len(ts) : ts[i].maker = o \/ ts[i].taker = o }

Parties(os, ts) ==
    \A i \in 1 .. Len(ts) : ts[i].maker \in 1 .. Len(os) /\ ts[i].taker \in 1 .. Len(os)

FillsMatch(os, ts) ==
    \A o \in 1 .. Len(os) : os[o].filled = SumFunctionOnSet(Qty(ts), Of(ts, o))

TradesMatch(os, ts) == Parties(os, ts) /\ FillsMatch(os, ts)

FillsRecorded == TradesMatch(orders, trades) /\ TradesMatch(disk.orders, disk.trades)

\* The list of trades after a fill.
TradesView(m) ==
    /\ Len(trades) \in Nat /\ Len(trades') = Len(trades) + 1
    /\ \A i \in 1 .. Len(trades) : trades'[i] = trades[i]
    /\ LET tr == trades'[Len(trades) + 1] IN
       tr.maker = m /\ tr.taker = taker /\ tr.qty = FillQty
          /\ tr.price = orders[m].price /\ tr.day = today

LEMMA TradesViews ==
  ASSUME TypeOK, Fill
  PROVE  TradesView(OppositeBook[idx])
  <1>1. PICK x, m : x = TradeOf(m, FillQty) /\ m = OppositeBook[idx]
    OBVIOUS
  <1>2. trades' = Append(trades, x) /\ trades \in Seq(Trade)
    BY <1>1, FillTrades, TypeParts DEF MemoryOK
  <1>3. /\ Len(trades) \in Nat /\ Len(trades') = Len(trades) + 1
        /\ \A i \in 1 .. Len(trades) : trades'[i] = trades[i]
        /\ trades'[Len(trades) + 1] = x
    BY <1>2
  <1>4. /\ x.maker = m /\ x.taker = taker /\ x.qty = FillQty
        /\ x.price = orders[m].price /\ x.day = today
    BY <1>1 DEF TradeOf
  <1> QED BY <1>1, <1>3, <1>4 DEF TradesView

\* The quantities of recorded trades, and the indices of an order's trades.
LEMMA TradeTypes ==
  ASSUME TypeOK
  PROVE  /\ trades \in Seq(Trade) /\ Len(trades) \in Nat
         /\ \A i \in 1 .. Len(trades) : trades[i] \in Trade
         /\ \A i \in 1 .. Len(trades) : trades[i].qty \in Nat /\ trades[i].price \in Int
         /\ \A S \in SUBSET (1 .. Len(trades)) : IsFiniteSet(S)
  <1>1. trades \in Seq(Trade) /\ Len(trades) \in Nat
    BY TypeParts DEF MemoryOK
  <1>2. \A i \in 1 .. Len(trades) : trades[i] \in Trade
    BY <1>1
  <1>3. IsFiniteSet(1 .. Len(trades))
    BY <1>1, Indices
  <1> QED BY <1>1, <1>2, <1>3, FS_Subset DEF Trade

\* Orders that keep what they have filled.
LEMMA SameFills ==
  ASSUME NEW os, NEW ps, NEW ts, TradesMatch(os, ts), Len(ps) = Len(os),
         \A o \in 1 .. Len(os) : ps[o].filled = os[o].filled
  PROVE  TradesMatch(ps, ts)
  BY DEF TradesMatch, Parties, FillsMatch

LEMMA PlaceFills ==
  ASSUME TypeOK, TradesMatch(orders, trades), NEW w, NEW side, NEW type, NEW price, NEW qty,
         PlaceOrder(w, side, type, price, qty)
  PROVE  TradesMatch(orders', trades')
  <1>1. PlaceView(w, side, type, price, qty) /\ trades' = trades
    BY PlaceViews DEF PlaceOrder
  <1>2. PICK n \in Nat : n = Len(orders) /\ Len(orders') = n + 1
    BY <1>1 DEF PlaceView
  <1>3. orders'[n + 1].filled = 0 /\ \A o \in 1 .. n : orders'[o] = orders[o]
    BY <1>1, <1>2 DEF PlaceView
  <1>4. Parties(orders', trades')
    BY <1>1, <1>2, Indices DEF TradesMatch, Parties
  <1>5. Of(trades, n + 1) = {}
    BY <1>2, Indices DEF TradesMatch, Parties, Of
  <1>6. SumFunctionOnSet(Qty(trades), Of(trades, n + 1)) = 0
    BY <1>5, SumEmpty
  <1>7. ASSUME NEW o \in 1 .. n + 1
        PROVE  orders'[o].filled = SumFunctionOnSet(Qty(trades), Of(trades, o))
    <2>1. o \in 1 .. n \/ o = n + 1
      BY <1>7
    <2> QED BY <1>2, <1>3, <1>6, <2>1 DEF TradesMatch, FillsMatch
  <1>8. FillsMatch(orders', trades')
    BY <1>1, <1>2, <1>7 DEF FillsMatch
  <1> QED BY <1>4, <1>8 DEF TradesMatch

LEMMA FillFills ==
  ASSUME TypeOK, TradesMatch(orders, trades), Fill
  PROVE  TradesMatch(orders', trades')
  <1>1. PICK m : m = OppositeBook[idx]
    OBVIOUS
  <1>2. FillView(m) /\ TradesView(m)
    BY <1>1, FillViews, TradesViews
  <1>3. taker \in 1 .. Len(orders) /\ m \in 1 .. Len(orders)
    BY <1>1, FillFacts DEF Fill
  <1>4. FillQty \in Int /\ m # taker
    BY <1>1, FillOrders
  <1>5. PICK n \in Nat, new \in Nat : n = Len(trades) /\ Len(trades') = n + 1 /\ new = n + 1
    BY <1>2 DEF TradesView
  <1>6. 1 .. Len(trades') = (1 .. n) \cup {new} /\ new \notin 1 .. n
    BY <1>5, Indices
  <1>7. /\ \A i \in 1 .. n : trades'[i] = trades[i]
        /\ trades'[new].maker = m /\ trades'[new].taker = taker /\ trades'[new].qty = FillQty
    BY <1>2, <1>5 DEF TradesView
  <1>8. Len(orders') = Len(orders)
    BY <1>2 DEF FillView, TermsKept
  <1>9. Parties(orders', trades')
    BY <1>3, <1>5, <1>6, <1>7, <1>8 DEF TradesMatch, Parties
  <1>10. PICK f, g : f = Qty(trades) /\ g = Qty(trades')
    OBVIOUS
  <1>11. /\ \A i \in 1 .. n : f[i] \in Int /\ g[i] = f[i]
         /\ g[new] = FillQty
    <2>1. \A i \in 1 .. n : f[i] \in Int
      BY <1>5, <1>10, TradeTypes DEF Qty
    <2>2. \A i \in 1 .. n : g[i] = f[i]
      BY <1>5, <1>6, <1>7, <1>10 DEF Qty
    <2>3. g[new] = FillQty
      BY <1>6, <1>7, <1>10 DEF Qty
    <2> QED BY <2>1, <2>2, <2>3
  <1>12. ASSUME NEW o \in 1 .. Len(orders)
         PROVE  orders'[o].filled = SumFunctionOnSet(g, Of(trades', o))
    <2>1. PICK S : S = Of(trades, o) /\ S \subseteq 1 .. n
      BY <1>5 DEF Of
    <2>2. IsFiniteSet(S)
      BY <1>5, <2>1, TradeTypes
    <2>7. new \notin S
      BY <1>6, <2>1
    <2>3. orders[o].filled = SumFunctionOnSet(f, S)
      BY <1>10, <2>1 DEF TradesMatch, FillsMatch
    <2>4. \A i \in S : f[i] \in Int /\ g[i] = f[i]
      BY <1>11, <2>1
    <2>5. CASE o = taker \/ o = m
      <3>1. Of(trades', o) = S \cup {new}
        BY <1>5, <1>6, <1>7, <2>1, <2>5 DEF Of
      <3>2. g[new] \in Int
        BY <1>4, <1>11
      <3>3. SumFunctionOnSet(g, S \cup {new}) = SumFunctionOnSet(f, S) + g[new]
        BY <2>2, <2>4, <2>7, <3>2, SumGrow
      <3>4. orders'[o].filled = orders[o].filled + FillQty
        BY <1>2, <2>5 DEF FillView
      <3> QED BY <1>11, <2>3, <3>1, <3>3, <3>4
    <2>6. CASE ~(o = taker \/ o = m)
      <3>1. Of(trades', o) = S
        BY <1>5, <1>6, <1>7, <2>1, <2>6 DEF Of
      <3>2. SumFunctionOnSet(f, S) = SumFunctionOnSet(g, S)
        BY <2>2, <2>4, SumSame
      <3>3. orders'[o] = orders[o]
        BY <1>2, <2>6 DEF FillView
      <3> QED BY <2>3, <3>1, <3>2, <3>3
    <2> QED BY <2>5, <2>6
  <1>13. FillsMatch(orders', trades')
    BY <1>8, <1>10, <1>12 DEF FillsMatch
  <1> QED BY <1>9, <1>13 DEF TradesMatch

\* Any step leaves the trades of the memory matched, or is a restart.
LEMMA MemoryFills ==
  ASSUME TypeOK, OrderAccounting, TradesMatch(orders, trades), [Next]_vars
  PROVE  (TradesMatch(orders', trades') /\ (Save \/ disk' = disk)) \/ Restart
  <1> DEFINE Goal == TradesMatch(orders', trades') /\ (Save \/ disk' = disk)
  <1>1. ASSUME orders' = orders, trades' = trades PROVE TradesMatch(orders', trades')
    BY <1>1
  <1>2. ASSUME NEW u, CreateWallet(u) PROVE Goal
    BY <1>1, <1>2 DEF CreateWallet
  <1>3. ASSUME NEW w, NEW d, NEW amount,
               DepositToWallet(w, d, amount) \/ WithdrawFromWallet(w, d, amount)
        PROVE  Goal
    BY <1>1, <1>3 DEF DepositToWallet, WithdrawFromWallet
  <1>4. ASSUME NEW u, NEW w, NEW tier, NEW sanctioned, SubmitKYC(u, w, tier, sanctioned)
        PROVE  Goal
    BY <1>1, <1>4 DEF SubmitKYC
  <1>5. ASSUME NEW a, ApproveKYC(a) \/ RejectKYC(a) PROVE Goal
    BY <1>1, <1>5 DEF ApproveKYC, RejectKYC
  <1>6. ASSUME NEW w, NEW side, NEW type, NEW offer,
               PlaceOrder(w, side, type, offer[1], offer[2])
        PROVE  Goal
    BY <1>6, PlaceFills DEF PlaceOrder
  <1>7. CASE SkipOwn \/ NewDay \/ UNCHANGED vars
    BY <1>1, <1>7 DEF SkipOwn, NewDay, vars, persistent
  <1>8. CASE Fill
    BY <1>8, FillFills DEF Fill
  <1>9. ASSUME TermsKept, \A o \in 1 .. Len(orders) : orders'[o].filled = orders[o].filled,
               trades' = trades
        PROVE  TradesMatch(orders', trades')
    BY <1>9, SameFills DEF TermsKept
  <1>10. ASSUME NEW o, NEW st, StatusView(o, st)
         PROVE  TermsKept /\ \A p \in 1 .. Len(orders) : orders'[p].filled = orders[p].filled
    BY <1>10 DEF StatusView
  <1>11. CASE FinishOrder
    BY <1>9, <1>10, <1>11, FinishViews DEF FinishOrder
  <1>12. ASSUME NEW o \in DOMAIN orders, NEW w, CancelOrder(o, w) PROVE Goal
    BY <1>9, <1>10, <1>12, CancelViews DEF CancelOrder
  <1> QED BY <1>2, <1>3, <1>4, <1>5, <1>6, <1>7, <1>8, <1>11, <1>12 DEF Next, Operate

LEMMA FillsStep ==
  TypeOK /\ OrderAccounting /\ FillsRecorded /\ [Next]_vars => FillsRecorded'
  <1> SUFFICES ASSUME TypeOK, OrderAccounting, FillsRecorded, [Next]_vars
               PROVE  FillsRecorded'
    OBVIOUS
  <1>1. CASE TradesMatch(orders', trades') /\ (Save \/ disk' = disk)
    BY <1>1 DEF FillsRecorded, Save, Persisted
  <1>2. CASE Restart
    <2>1. PICK file \in {disk} \cup (IF TornWrites THEN {Blank} ELSE {}) :
             orders' = file.orders /\ trades' = file.trades /\ disk' = file
      BY <1>2 DEF Restart
    <2>2. TradesMatch(file.orders, file.trades)
      BY <2>1 DEF FillsRecorded, Blank, TradesMatch, Parties, FillsMatch
    <2> QED BY <2>1, <2>2 DEF FillsRecorded
  <1> QED BY <1>1, <1>2, MemoryFills DEF FillsRecorded

LEMMA FillsInvariant == Spec => []FillsRecorded
  <1>1. Init => FillsRecorded
    BY DEF Init, Blank, FillsRecorded, TradesMatch, Parties, FillsMatch
  <1> QED BY <1>1, FillsStep, TypeCorrect, OrdersAccounted, PTL DEF Spec

\* What an order has filled is the sum of its recorded trades, over any number
\* of matches as maker and taker, and after a restart in the middle of one.
THEOREM FilledIsTraded == Spec => []FillsAreTraded
  <1>1. TypeOK /\ FillsRecorded => FillsAreTraded
    <2> SUFFICES ASSUME TypeOK, FillsRecorded PROVE FillsAreTraded
      OBVIOUS
    <2>1. DOMAIN orders = 1 .. Len(orders) /\ DOMAIN trades = 1 .. Len(trades)
      BY TypeParts DEF MemoryOK
    <2>2. Traded = Qty(trades) /\ \A o : TradesOf(o) = Of(trades, o)
      BY <2>1 DEF Traded, Qty, TradesOf, Of
    <2> QED BY <2>1, <2>2 DEF FillsAreTraded, FillsRecorded, TradesMatch, FillsMatch
  <1> QED BY <1>1, FillsInvariant, TypeCorrect, PTL

-----------------------------------------------------------------------------
(* Volumes.  Wallets keep their users and orders their wallets, so a trade *)
(* stays with the two users it was counted for when it was made.           *)

QuoteValue(ts) == [i \in 1 .. Len(ts) |-> QuoteAmount(ts[i].price, ts[i].qty)]

\* The trades whose maker, and whose taker, was user u and whose volume was
\* counted on day d, when trade i was counted on booked[i].
Made(ws, os, ts, booked, u, d) ==
    { i \in 1 .. Len(ts) : booked[i] = d /\ ws[os[ts[i].maker].wallet].user = u }

Taken(ws, os, ts, booked, u, d) ==
    { i \in 1 .. Len(ts) : booked[i] = d /\ ws[os[ts[i].taker].wallet].user = u }

VolumeMatch(ws, os, ts, vol, made, taken) ==
    \A u \in Users, d \in Days :
        vol[<<u, d>>] = SumFunctionOnSet(QuoteValue(ts), Made(ws, os, ts, made, u, d))
                        + SumFunctionOnSet(QuoteValue(ts), Taken(ws, os, ts, taken, u, d))

\* The days on which trades `ts' were counted, for their makers and takers,
\* follow each other and lead up to `now'.
Timely(ts, made, taken, now) ==
    \A i \in 1 .. Len(ts) :
        /\ ts[i].day <= made[i] /\ made[i] <= taken[i]
        /\ taken[i] <= IF i < Len(ts) THEN ts[i + 1].day ELSE now

Counted(ws, os, ts, vol, now) ==
    \E made, taken \in [1 .. Len(ts) -> Days] :
        Timely(ts, made, taken, now) /\ VolumeMatch(ws, os, ts, vol, made, taken)

VolumeRecorded ==
    /\ Counted(wallets, orders, trades, volume, today)
    /\ Counted(disk.wallets, disk.orders, disk.trades, disk.volume, today)

\* The user of every order that is there stays the same.
UsersKept == \A o \in 1 .. Len(orders) : UserOf(o)' = UserOf(o)

LEMMA UsersStay ==
  ASSUME TypeOK,
         \A w \in DOMAIN wallets : wallets'[w].user = wallets[w].user,
         \A o \in 1 .. Len(orders) : orders'[o].wallet = orders[o].wallet
  PROVE  UsersKept
  <1>1. \A o \in 1 .. Len(orders) : orders[o].wallet \in DOMAIN wallets
    BY RegistryTypes
  <1> QED BY <1>1 DEF UsersKept, UserOf

\* Orders keep their terms, and a new one has a type that can be placed.
LEMMA TermsStep ==
  ASSUME TypeOK, OrderAccounting, [Next]_vars
  PROVE  \/ Restart
         \/ /\ Save \/ disk' = disk
            /\ \/ TermsKept
               \/ \E w, side, price, qty : \E type \in OrderTypes :
                     PlaceView(w, side, type, price, qty)
  <1> DEFINE Goal == /\ Save \/ disk' = disk
                     /\ \/ TermsKept
                        \/ \E w, side, price, qty : \E type \in OrderTypes :
                              PlaceView(w, side, type, price, qty)
  <1>1. ASSUME orders' = orders PROVE TermsKept
    BY <1>1 DEF TermsKept, SameTerms
  <1>2. ASSUME NEW u, CreateWallet(u) PROVE Goal
    BY <1>1, <1>2 DEF CreateWallet
  <1>3. ASSUME NEW w, NEW d, NEW amount,
               DepositToWallet(w, d, amount) \/ WithdrawFromWallet(w, d, amount)
        PROVE  Goal
    BY <1>1, <1>3 DEF DepositToWallet, WithdrawFromWallet
  <1>4. ASSUME NEW u, NEW w, NEW tier, NEW sanctioned, SubmitKYC(u, w, tier, sanctioned)
        PROVE  Goal
    BY <1>1, <1>4 DEF SubmitKYC
  <1>5. ASSUME NEW a, ApproveKYC(a) \/ RejectKYC(a) PROVE Goal
    BY <1>1, <1>5 DEF ApproveKYC, RejectKYC
  <1>6. ASSUME NEW w, NEW side, NEW type \in OrderTypes, NEW offer,
               PlaceOrder(w, side, type, offer[1], offer[2])
        PROVE  Goal
    <2>1. PlaceView(w, side, type, offer[1], offer[2])
      BY <1>6, PlaceViews
    <2>2. disk' = disk
      BY <1>6 DEF PlaceOrder
    <2> QED BY <2>1, <2>2
  <1>7. CASE SkipOwn \/ NewDay \/ UNCHANGED vars
    BY <1>1, <1>7 DEF SkipOwn, NewDay, vars, persistent
  <1>8. CASE Fill
    BY <1>8, FillViews DEF FillView, Fill
  <1>9. CASE FinishOrder
    BY <1>9, FinishViews DEF StatusView, FinishOrder
  <1>10. ASSUME NEW o \in DOMAIN orders, NEW w, CancelOrder(o, w) PROVE Goal
    BY <1>10, CancelViews DEF StatusView, CancelOrder
  <1> QED BY <1>2, <1>3, <1>4, <1>5, <1>6, <1>7, <1>8, <1>9, <1>10 DEF Next, Operate

LEMMA UsersStep ==
  ASSUME TypeOK, OrderAccounting, RegistrySaved, [Next]_vars
  PROVE  UsersKept \/ Restart
  <1>1. Restart \/ \A w \in DOMAIN wallets : wallets'[w].user = wallets[w].user
    <2>1. CASE Operate
      <3>1. (WalletsKept /\ AppsKept) \/ \E u \in Users : Opened(u)
        BY <2>1, OperateRegistry
      <3>2. ASSUME NEW u, Opened(u)
            PROVE  \A w \in DOMAIN wallets : wallets'[w].user = wallets[w].user
        <4>1. PICK x : wallets' = Append(wallets, x) /\ wallets \in Seq(Wallet)
          BY <3>2, RegistryTypes DEF Opened
        <4> QED BY <4>1
      <3> QED BY <3>1, <3>2 DEF WalletsKept
    <2>2. ASSUME NEW u, NEW w \in DOMAIN wallets, NEW tier, NEW sanctioned \in Sanctions,
                 SubmitKYC(u, w, tier, sanctioned)
          PROVE  WalletsKept
      BY <2>2, SubmitRegistry, ExchangeAssumption DEF Filed
    <2>3. CASE UNCHANGED vars
      BY <2>3 DEF vars, persistent
    <2> QED BY <2>1, <2>2, <2>3 DEF Next, WalletsKept
  <1>2. Restart \/ \A o \in 1 .. Len(orders) : orders'[o].wallet = orders[o].wallet
    BY TermsStep DEF TermsKept, SameTerms, PlaceView
  <1> QED BY <1>1, <1>2, UsersStay

\* Which steps touch trades and volumes.
LEMMA TradesStep ==
  ASSUME TypeOK, [Next]_vars
  PROVE  Fill \/ Restart \/ (UNCHANGED <<trades, volume>> /\ (Save \/ disk' = disk))
  <1> DEFINE Goal == UNCHANGED <<trades, volume>> /\ (Save \/ disk' = disk)
  <1>1. ASSUME NEW u, CreateWallet(u) PROVE Goal
    BY <1>1 DEF CreateWallet
  <1>2. ASSUME NEW w, NEW d, NEW amount,
               DepositToWallet(w, d, amount) \/ WithdrawFromWallet(w, d, amount)
        PROVE  Goal
    BY <1>2 DEF DepositToWallet, WithdrawFromWallet
  <1>3. ASSUME NEW u, NEW w, NEW tier, NEW sanctioned, SubmitKYC(u, w, tier, sanctioned)
        PROVE  Goal
    BY <1>3 DEF SubmitKYC
  <1>4. ASSUME NEW a, ApproveKYC(a) \/ RejectKYC(a) PROVE Goal
    BY <1>4 DEF ApproveKYC, RejectKYC
  <1>5. ASSUME NEW w, NEW side, NEW type, NEW offer,
               PlaceOrder(w, side, type, offer[1], offer[2])
        PROVE  Goal
    BY <1>5 DEF PlaceOrder
  <1>6. CASE SkipOwn \/ NewDay \/ UNCHANGED vars
    BY <1>6 DEF SkipOwn, NewDay, vars, persistent
  <1>7. CASE FinishOrder
    BY <1>7 DEF FinishOrder
  <1>8. ASSUME NEW o, NEW w, CancelOrder(o, w) PROVE Goal
    BY <1>8 DEF CancelOrder
  <1> QED BY <1>1, <1>2, <1>3, <1>4, <1>5, <1>6, <1>7, <1>8 DEF Next, Operate

\* The days go on.
LEMMA TodayStep ==
  ASSUME TypeOK, [Next]_vars
  PROVE  today \in Int /\ today' \in Int /\ today <= today'
  <1>1. today \in Int /\ today \in Days
    BY TypeParts DEF LoopOK, Days
  <1> DEFINE Goal == today' \in Int /\ today <= today'
  <1>2. ASSUME today' = today PROVE Goal
    BY <1>1, <1>2
  <1>3. ASSUME NEW u, CreateWallet(u) PROVE Goal
    BY <1>2, <1>3 DEF CreateWallet
  <1>4. ASSUME NEW w, NEW d, NEW amount,
               DepositToWallet(w, d, amount) \/ WithdrawFromWallet(w, d, amount)
        PROVE  Goal
    BY <1>2, <1>4 DEF DepositToWallet, WithdrawFromWallet
  <1>5. ASSUME NEW u, NEW w, NEW tier, NEW sanctioned, SubmitKYC(u, w, tier, sanctioned)
        PROVE  Goal
    BY <1>2, <1>5 DEF SubmitKYC
  <1>6. ASSUME NEW a, ApproveKYC(a) \/ RejectKYC(a) PROVE Goal
    BY <1>2, <1>6 DEF ApproveKYC, RejectKYC
  <1>7. ASSUME NEW w, NEW side, NEW type, NEW offer,
               PlaceOrder(w, side, type, offer[1], offer[2])
        PROVE  Goal
    BY <1>2, <1>7 DEF PlaceOrder
  <1>8. ASSUME SkipOwn \/ FinishOrder \/ Restart \/ UNCHANGED vars PROVE Goal
    BY <1>2, <1>8 DEF SkipOwn, FinishOrder, Restart, vars
  <1>9. ASSUME NEW o, NEW w, CancelOrder(o, w) PROVE Goal
    BY <1>2, <1>9 DEF CancelOrder
  <1>10. ASSUME NewDay PROVE Goal
    BY <1>1, <1>10 DEF NewDay
  <1>11. ASSUME Fill PROVE Goal
    <2>1. PICK made \in today .. MaxDays : \E taken \in made .. MaxDays : today' = taken
      BY <1>11 DEF Fill
    <2>2. PICK taken \in made .. MaxDays : today' = taken
      BY <2>1
    <2> QED BY <1>1, <2>1, <2>2, ExchangeAssumption
  <1> HIDE DEF Goal
  <1>12. Goal
    BY <1>3, <1>4, <1>5, <1>6, <1>7, <1>8, <1>9, <1>10, <1>11 DEF Next, Operate
  <1> QED BY <1>1, <1>12 DEF Goal

\* Trades counted in time stay so as the days go on.
LEMMA TimelyLater ==
  ASSUME NEW ts, Len(ts) \in Nat, NEW made, NEW taken \in [1 .. Len(ts) -> Days],
         NEW now \in Int, NEW later \in Int, now <= later, Timely(ts, made, taken, now)
  PROVE  Timely(ts, made, taken, later)
  <1>1. ASSUME NEW i \in 1 .. Len(ts), ~(i < Len(ts))
        PROVE  taken[i] <= later
    <2>1. taken[i] \in Int /\ taken[i] <= now
      BY <1>1 DEF Timely, Days
    <2> QED BY <2>1
  <1> QED BY <1>1 DEF Timely

LEMMA LaterCounted ==
  ASSUME NEW ws, NEW os, NEW ts, NEW vol, Len(ts) \in Nat,
         NEW now \in Int, NEW later \in Int, now <= later, Counted(ws, os, ts, vol, now)
  PROVE  Counted(ws, os, ts, vol, later)
  <1>1. PICK made \in [1 .. Len(ts) -> Days], taken \in [1 .. Len(ts) -> Days] :
           Timely(ts, made, taken, now) /\ VolumeMatch(ws, os, ts, vol, made, taken)
    BY DEF Counted
  <1>2. Timely(ts, made, taken, later)
    BY <1>1, TimelyLater
  <1> QED BY <1>1, <1>2 DEF Counted

LEMMA SameVolume ==
  ASSUME TypeOK, Counted(wallets, orders, trades, volume, today), Parties(orders, trades),
         UNCHANGED <<trades, volume>>, UsersKept,
         today \in Int, today' \in Int, today <= today'
  PROVE  Counted(wallets', orders', trades', volume', today')
  <1>1. PICK made \in [1 .. Len(trades) -> Days], taken \in [1 .. Len(trades) -> Days] :
           /\ Timely(trades, made, taken, today)
           /\ VolumeMatch(wallets, orders, trades, volume, made, taken)
    BY DEF Counted
  <1>2. \A u, d : /\ Made(wallets', orders', trades, made, u, d)
                       = Made(wallets, orders, trades, made, u, d)
                  /\ Taken(wallets', orders', trades, taken, u, d)
                       = Taken(wallets, orders, trades, taken, u, d)
    BY DEF UsersKept, UserOf, Parties, Made, Taken
  <1>3. VolumeMatch(wallets', orders', trades, volume, made, taken)
    BY <1>1, <1>2 DEF VolumeMatch
  <1>4. Timely(trades, made, taken, today')
    BY <1>1, TimelyLater, TradeTypes
  <1>5. Counted(wallets', orders', trades, volume, today')
    BY <1>3, <1>4 DEF Counted
  <1> QED BY <1>5

\* The days of the trades so far, and the day d of one more.
Extended(days, d) == [i \in 1 .. Len(trades') |-> IF i = Len(trades') THEN d ELSE days[i]]

LEMMA TimelyMore ==
  ASSUME TypeOK, NEW m, TradesView(m),
         NEW made \in [1 .. Len(trades) -> Days], NEW taken \in [1 .. Len(trades) -> Days],
         Timely(trades, made, taken, today),
         NEW md \in Days, NEW tk \in Days, today <= md, md <= tk,
         NEW made2, NEW taken2,
         made2 = Extended(made, md), taken2 = Extended(taken, tk)
  PROVE  /\ made2 \in [1 .. Len(trades') -> Days] /\ taken2 \in [1 .. Len(trades') -> Days]
         /\ Timely(trades', made2, taken2, tk)
  <1> USE DEF Extended
  <1>1. PICK n \in Nat : n = Len(trades) /\ Len(trades') = n + 1
    BY DEF TradesView
  <1>2. /\ \A i \in 1 .. n : trades'[i] = trades[i]
        /\ trades'[n + 1].day = today
    BY <1>1 DEF TradesView
  <1>3. \A i \in 1 .. n + 1 : i \in 1 .. n \/ i = n + 1
    BY <1>1
  <1>4. made2 \in [1 .. n + 1 -> Days] /\ taken2 \in [1 .. n + 1 -> Days]
    BY <1>1, <1>3
  <1>5. ASSUME NEW i \in 1 .. n + 1
        PROVE  /\ trades'[i].day <= made2[i] /\ made2[i] <= taken2[i]
               /\ taken2[i] <= IF i < n + 1 THEN trades'[i + 1].day ELSE tk
    <2>1. CASE i = n + 1
      <3>1. made2[i] = md /\ taken2[i] = tk /\ trades'[i].day = today
        BY <1>1, <1>2, <2>1
      <3>2. tk <= tk /\ ~(i < n + 1)
        BY <1>1, <2>1 DEF Days
      <3> QED BY <3>1, <3>2
    <2>2. CASE i \in 1 .. n
      <3>1. made2[i] = made[i] /\ taken2[i] = taken[i] /\ trades'[i] = trades[i]
        BY <1>1, <1>2, <2>2
      <3>2. /\ trades[i].day <= made[i] /\ made[i] <= taken[i]
            /\ taken[i] <= IF i < n THEN trades[i + 1].day ELSE today
        BY <1>1, <2>2 DEF Timely
      <3>3. i < n + 1
        BY <1>1, <2>2
      <3>4. CASE i < n
        <4>1. i + 1 \in 1 .. n
          BY <1>1, <2>2, <3>4
        <4> QED BY <1>2, <3>1, <3>2, <3>3, <3>4, <4>1
      <3>5. CASE ~(i < n)
        <4>1. i + 1 = n + 1
          BY <1>1, <2>2, <3>5
        <4> QED BY <1>2, <3>1, <3>2, <3>3, <3>5, <4>1
      <3> QED BY <3>4, <3>5
    <2> QED BY <1>3, <2>1, <2>2
  <1> QED BY <1>1, <1>4, <1>5 DEF Timely

\* A fill counts its amount for the user of each of its two orders, on the day
\* its clock shows by then.
LEMMA FillVolume ==
  ASSUME TypeOK, Parties(orders, trades), UsersKept, Fill,
         NEW made \in [1 .. Len(trades) -> Days], NEW taken \in [1 .. Len(trades) -> Days],
         VolumeMatch(wallets, orders, trades, volume, made, taken),
         NEW md \in Days, NEW tk \in Days, NEW mu, NEW tu,
         mu = UserOf(OppositeBook[idx]), tu = UserOf(taker),
         volume' = AddVolume(mu, tu, FillAmount, md, tk),
         NEW made2, NEW taken2,
         made2 = Extended(made, md), taken2 = Extended(taken, tk)
  PROVE  VolumeMatch(wallets', orders', trades', volume', made2, taken2)
  <1>1. PICK m : m = OppositeBook[idx]
    OBVIOUS
  <1>2. TradesView(m)
    BY <1>1, TradesViews
  <1>3. taker \in 1 .. Len(orders) /\ m \in 1 .. Len(orders)
    BY <1>1, FillFacts DEF Fill
  <1>4. PICK amount \in Int : amount = FillAmount
    BY FillSettles
  <1>5. PICK n \in Nat, new \in Nat : n = Len(trades) /\ Len(trades') = n + 1 /\ new = n + 1
    BY <1>2 DEF TradesView
  <1>6. 1 .. Len(trades') = (1 .. n) \cup {new} /\ new \notin 1 .. n
    BY <1>5, Indices
  <1>7. /\ \A i \in 1 .. n : trades'[i] = trades[i]
        /\ trades'[new].maker = m /\ trades'[new].taker = taker
        /\ trades'[new].qty = FillQty /\ trades'[new].price = orders[m].price
    BY <1>2, <1>5 DEF TradesView
  <1>8. mu = UserOf(m) /\ tu = UserOf(taker)
    BY <1>1
  <1>9. volume' = AddVolume(mu, tu, amount, md, tk)
    BY <1>4
  <1>22. /\ \A i \in 1 .. n : made2[i] = made[i] /\ taken2[i] = taken[i]
         /\ made2[new] = md /\ taken2[new] = tk
    BY <1>5, <1>6 DEF Extended
  <1>10. PICK f, g : f = QuoteValue(trades) /\ g = QuoteValue(trades')
    OBVIOUS
  <1>11. /\ \A i \in 1 .. n : f[i] \in Int
         /\ \A i \in 1 .. n : g[i] = f[i]
         /\ g[new] = amount
    <2>1. \A i \in 1 .. n : f[i] \in Int
      <3>1. \A i \in 1 .. n : f[i] = QuoteAmount(trades[i].price, trades[i].qty)
        BY <1>5, <1>10 DEF QuoteValue
      <3>2. \A i \in 1 .. n : trades[i].price \in Int /\ trades[i].qty \in Nat
        BY <1>5, TradeTypes
      <3>3. \A i \in 1 .. n : QuoteAmount(trades[i].price, trades[i].qty) \in Int
        BY <3>2, QuoteAmountType
      <3> QED BY <3>1, <3>3
    <2>2. \A i \in 1 .. n : g[i] = f[i]
      BY <1>5, <1>6, <1>7, <1>10 DEF QuoteValue
    <2>3. g[new] = amount
      BY <1>1, <1>4, <1>6, <1>7, <1>10 DEF QuoteValue, FillAmount
    <2> QED BY <2>1, <2>2, <2>3
  <1>12. \A o \in 1 .. Len(orders) : wallets'[orders'[o].wallet].user = UserOf(o)
    BY DEF UsersKept, UserOf
  <1> SUFFICES ASSUME NEW u \in Users, NEW d \in Days
               PROVE  volume'[<<u, d>>] =
                         SumFunctionOnSet(g, Made(wallets', orders', trades', made2, u, d))
                         + SumFunctionOnSet(g, Taken(wallets', orders', trades', taken2, u, d))
    BY <1>10 DEF VolumeMatch
  <1>13. \A S : S \subseteq 1 .. n => IsFiniteSet(S)
    BY <1>5, TradeTypes
  <1>14. ASSUME NEW S, S \subseteq 1 .. n
         PROVE  /\ SumFunctionOnSet(g, S) = SumFunctionOnSet(f, S)
                /\ SumFunctionOnSet(g, S \cup {new}) = SumFunctionOnSet(f, S) + amount
                /\ SumFunctionOnSet(f, S) \in Int
    <2>1. IsFiniteSet(S)
      BY <1>13, <1>14
    <2>2. new \notin S
      BY <1>6, <1>14
    <2>3. \A i \in S : f[i] \in Int /\ g[i] = f[i]
      BY <1>11, <1>14
    <2>4. g[new] \in Int
      BY <1>11
    <2>5. SumFunctionOnSet(g, S \cup {new}) = SumFunctionOnSet(f, S) + g[new]
      BY <2>1, <2>2, <2>3, <2>4, SumGrow
    <2>6. SumFunctionOnSet(f, S) = SumFunctionOnSet(g, S)
      BY <2>1, <2>3, SumSame
    <2>7. SumFunctionOnSet(f, S) \in Int
      BY <2>1, <2>3, SumInt
    <2> QED BY <1>11, <2>5, <2>6, <2>7
  <1>23. PICK M, T : /\ M = Made(wallets, orders, trades, made, u, d)
                     /\ T = Taken(wallets, orders, trades, taken, u, d)
    OBVIOUS
  <1>15. /\ M = Made(wallets, orders, trades, made, u, d) /\ M \subseteq 1 .. n
         /\ T = Taken(wallets, orders, trades, taken, u, d) /\ T \subseteq 1 .. n
    BY <1>5, <1>23 DEF Made, Taken
  <1>16. Made(wallets', orders', trades', made2, u, d) =
            IF u = mu /\ d = md THEN M \cup {new} ELSE M
    <2>1. PICK X : X = Made(wallets', orders', trades', made2, u, d)
      OBVIOUS
    <2>2. X \subseteq (1 .. n) \cup {new}
      BY <1>6, <2>1 DEF Made
    <2>3. \A i \in 1 .. n : trades[i].maker \in 1 .. Len(orders)
      BY <1>5 DEF Parties
    <2>4. \A i \in 1 .. n : i \in X <=> i \in M
      <3>1. \A i \in 1 .. n : /\ trades'[i] = trades[i]
                              /\ i \in 1 .. Len(trades') /\ i \in 1 .. Len(trades)
        BY <1>5, <1>6, <1>7
      <3>2. \A i \in 1 .. n : wallets'[orders'[trades[i].maker].wallet].user
                                = wallets[orders[trades[i].maker].wallet].user
        BY <1>12, <2>3 DEF UserOf
      <3> QED BY <1>15, <1>22, <2>1, <3>1, <3>2 DEF Made
    <2>5. new \in X <=> u = mu /\ d = md
      BY <1>3, <1>6, <1>7, <1>8, <1>12, <1>22, <2>1 DEF Made
    <2>6. CASE u = mu /\ d = md
      <3>1. X = M \cup {new}
        BY <1>15, <2>2, <2>4, <2>5, <2>6
      <3> QED BY <2>1, <2>6, <3>1
    <2>7. CASE ~(u = mu /\ d = md)
      <3>1. X = M
        BY <1>15, <2>2, <2>4, <2>5, <2>7
      <3> QED BY <2>1, <2>7, <3>1
    <2> QED BY <2>6, <2>7
  <1>17. Taken(wallets', orders', trades', taken2, u, d) =
            IF u = tu /\ d = tk THEN T \cup {new} ELSE T
    <2>1. PICK X : X = Taken(wallets', orders', trades', taken2, u, d)
      OBVIOUS
    <2>2. X \subseteq (1 .. n) \cup {new}
      BY <1>6, <2>1 DEF Taken
    <2>3. \A i \in 1 .. n : trades[i].taker \in 1 .. Len(orders)
      BY <1>5 DEF Parties
    <2>4. \A i \in 1 .. n : i \in X <=> i \in T
      <3>1. \A i \in 1 .. n : /\ trades'[i] = trades[i]
                              /\ i \in 1 .. Len(trades') /\ i \in 1 .. Len(trades)
        BY <1>5, <1>6, <1>7
      <3>2. \A i \in 1 .. n : wallets'[orders'[trades[i].taker].wallet].user
                                = wallets[orders[trades[i].taker].wallet].user
        BY <1>12, <2>3 DEF UserOf
      <3> QED BY <1>15, <1>22, <2>1, <3>1, <3>2 DEF Taken
    <2>5. new \in X <=> u = tu /\ d = tk
      BY <1>3, <1>6, <1>7, <1>8, <1>12, <1>22, <2>1 DEF Taken
    <2>6. CASE u = tu /\ d = tk
      <3>1. X = T \cup {new}
        BY <1>15, <2>2, <2>4, <2>5, <2>6
      <3> QED BY <2>1, <2>6, <3>1
    <2>7. CASE ~(u = tu /\ d = tk)
      <3>1. X = T
        BY <1>15, <2>2, <2>4, <2>5, <2>7
      <3> QED BY <2>1, <2>7, <3>1
    <2> QED BY <2>6, <2>7
  <1>18. volume[<<u, d>>] = SumFunctionOnSet(f, M) + SumFunctionOnSet(f, T)
    BY <1>10, <1>15 DEF VolumeMatch
  <1>19. volume'[<<u, d>>] = volume[<<u, d>>]
            + (IF u = mu /\ d = md THEN amount ELSE 0)
            + (IF u = tu /\ d = tk THEN amount ELSE 0)
    <2>1. volume \in [Users \X Days -> Int]
      BY TypeParts DEF MemoryOK
    <2> QED BY <1>9, <2>1 DEF AddVolume
  <1>20. /\ SumFunctionOnSet(g, Made(wallets', orders', trades', made2, u, d)) =
              SumFunctionOnSet(f, M) + (IF u = mu /\ d = md THEN amount ELSE 0)
         /\ SumFunctionOnSet(f, M) \in Int
    <2>1. /\ SumFunctionOnSet(g, M) = SumFunctionOnSet(f, M)
          /\ SumFunctionOnSet(g, M \cup {new}) = SumFunctionOnSet(f, M) + amount
          /\ SumFunctionOnSet(f, M) \in Int
      BY <1>14, <1>15
    <2> QED BY <1>16, <2>1
  <1>21. /\ SumFunctionOnSet(g, Taken(wallets', orders', trades', taken2, u, d)) =
              SumFunctionOnSet(f, T) + (IF u = tu /\ d = tk THEN amount ELSE 0)
         /\ SumFunctionOnSet(f, T) \in Int
    <2>1. /\ SumFunctionOnSet(g, T) = SumFunctionOnSet(f, T)
          /\ SumFunctionOnSet(g, T \cup {new}) = SumFunctionOnSet(f, T) + amount
          /\ SumFunctionOnSet(f, T) \in Int
      BY <1>14, <1>15
    <2> QED BY <1>17, <2>1
  <1> QED BY <1>18, <1>19, <1>20, <1>21

\* A fill leaves the volumes counted, whenever its clock was read.
LEMMA FillCounted ==
  ASSUME TypeOK, Parties(orders, trades), Counted(wallets, orders, trades, volume, today),
         UsersKept, Fill
  PROVE  Counted(wallets', orders', trades', volume', today')
  <1>1. PICK made \in [1 .. Len(trades) -> Days], taken \in [1 .. Len(trades) -> Days] :
           /\ Timely(trades, made, taken, today)
           /\ VolumeMatch(wallets, orders, trades, volume, made, taken)
    BY DEF Counted
  <1>2. PICK mu, tu : mu = UserOf(OppositeBook[idx]) /\ tu = UserOf(taker)
    OBVIOUS
  <1>3. \E md \in today .. MaxDays : \E tk \in md .. MaxDays :
           volume' = AddVolume(mu, tu, FillAmount, md, tk) /\ today' = tk
    BY <1>2 DEF Fill, FillQty, FillAmount, UserOf
  <1>11. PICK md \in today .. MaxDays : \E tk \in md .. MaxDays :
            volume' = AddVolume(mu, tu, FillAmount, md, tk) /\ today' = tk
    BY <1>3
  <1>4. PICK tk \in md .. MaxDays :
           volume' = AddVolume(mu, tu, FillAmount, md, tk) /\ today' = tk
    BY <1>11
  <1>5. today \in Days
    BY TypeParts DEF LoopOK
  <1>6. md \in Days /\ tk \in Days /\ today <= md /\ md <= tk
    BY <1>5, ExchangeAssumption DEF Days
  <1>7. PICK made2, taken2 :
           made2 = Extended(made, md) /\ taken2 = Extended(taken, tk)
    OBVIOUS
  <1>8. VolumeMatch(wallets', orders', trades', volume', made2, taken2)
    BY <1>1, <1>2, <1>4, <1>6, <1>7, FillVolume
  <1>9. PICK m : TradesView(m)
    BY TradesViews
  <1>10. /\ made2 \in [1 .. Len(trades') -> Days] /\ taken2 \in [1 .. Len(trades') -> Days]
         /\ Timely(trades', made2, taken2, tk)
    <2>1. /\ made \in [1 .. Len(trades) -> Days] /\ taken \in [1 .. Len(trades) -> Days]
          /\ Timely(trades, made, taken, today)
      BY <1>1
    <2> QED BY <1>6, <1>7, <1>9, <2>1, TimelyMore
  <1> QED BY <1>4, <1>8, <1>10 DEF Counted

\* A keeper that starts from no file has nothing to count.
LEMMA BlankVolume ==
  ASSUME NEW now
  PROVE  Counted(Blank.wallets, Blank.orders, Blank.trades, Blank.volume, now)
  <1>1. PICK ws, os, ts, vol : /\ ws = Blank.wallets /\ os = Blank.orders
                               /\ ts = Blank.trades /\ vol = Blank.volume
    OBVIOUS
  <1>2. ts = <<>> /\ Len(ts) = 0 /\ vol = [ud \in Users \X Days |-> 0]
    BY <1>1 DEF Blank
  <1>3. \A made, u, d : /\ Made(ws, os, ts, made, u, d) = {}
                        /\ Taken(ws, os, ts, made, u, d) = {}
    BY <1>2 DEF Made, Taken
  <1>4. PICK made \in [1 .. Len(ts) -> Days] : TRUE
    <2>1. [i \in 1 .. Len(ts) |-> 1] \in [1 .. Len(ts) -> Days]
      BY <1>2
    <2> QED BY <2>1
  <1>5. VolumeMatch(ws, os, ts, vol, made, made)
    <2>1. SumFunctionOnSet(QuoteValue(ts), {}) = 0
      BY SumEmpty
    <2>2. \A u \in Users, d \in Days : vol[<<u, d>>] = 0
      BY <1>2
    <2>3. ASSUME NEW u, NEW d
          PROVE  /\ SumFunctionOnSet(QuoteValue(ts), Made(ws, os, ts, made, u, d)) = 0
                 /\ SumFunctionOnSet(QuoteValue(ts), Taken(ws, os, ts, made, u, d)) = 0
      BY <1>3, <2>1
    <2>4. 0 = 0 + 0
      OBVIOUS
    <2> QED BY <2>2, <2>3, <2>4 DEF VolumeMatch
  <1>6. Timely(ts, made, made, now)
    BY <1>2 DEF Timely
  <1>7. Counted(ws, os, ts, vol, now)
    BY <1>4, <1>5, <1>6 DEF Counted
  <1> QED BY <1>1, <1>7

LEMMA VolumeStep ==
  TypeOK /\ OrderAccounting /\ RegistrySaved /\ FillsRecorded /\ VolumeRecorded /\ [Next]_vars
    => VolumeRecorded'
  <1> SUFFICES ASSUME TypeOK, OrderAccounting, RegistrySaved, FillsRecorded, VolumeRecorded,
                      [Next]_vars
               PROVE  VolumeRecorded'
    OBVIOUS
  <1>1. Parties(orders, trades)
    BY DEF FillsRecorded, TradesMatch
  <1>2. today \in Int /\ today' \in Int /\ today <= today'
    BY TodayStep
  <1>3. Counted(disk.wallets, disk.orders, disk.trades, disk.volume, today')
    <2>1. Len(disk.trades) \in Nat
      BY TypeParts DEF FileOK
    <2> QED BY <1>2, <2>1, LaterCounted DEF VolumeRecorded
  <1>4. CASE Restart
    <2>1. PICK file \in {disk} \cup (IF TornWrites THEN {Blank} ELSE {}) :
             /\ wallets' = file.wallets /\ orders' = file.orders
             /\ trades' = file.trades /\ volume' = file.volume /\ disk' = file
      BY <1>4 DEF Restart
    <2>2. Counted(Blank.wallets, Blank.orders, Blank.trades, Blank.volume, today')
      BY BlankVolume
    <2>3. Counted(file.wallets, file.orders, file.trades, file.volume, today')
      BY <1>3, <2>1, <2>2
    <2> QED BY <2>1, <2>3 DEF VolumeRecorded
  <1>5. CASE UsersKept /\ Fill
    <2>1. Counted(wallets', orders', trades', volume', today')
      BY <1>1, <1>5, FillCounted DEF VolumeRecorded
    <2>2. disk' = disk
      BY <1>5 DEF Fill
    <2> QED BY <1>3, <2>1, <2>2 DEF VolumeRecorded
  <1>6. CASE UsersKept /\ UNCHANGED <<trades, volume>> /\ (Save \/ disk' = disk)
    <2>1. Counted(wallets', orders', trades', volume', today')
      BY <1>1, <1>2, <1>6, SameVolume DEF VolumeRecorded
    <2> QED BY <1>3, <1>6, <2>1 DEF VolumeRecorded, Save, Persisted
  <1> QED BY <1>4, <1>5, <1>6, UsersStep, TradesStep

\* VolumeIsTraded: the volume counted for users and days is that of the recorded
\* trades, each once for its maker and once for its taker, on days that follow
\* the trade's own and precede the next trade, over any number of trades,
\* midnights within them and restarts.
THEOREM VolumeCounted == Spec => []VolumeIsTraded
  <1>1. Init => VolumeRecorded
    <2> SUFFICES ASSUME Init PROVE VolumeRecorded
      OBVIOUS
    <2>1. Counted(Blank.wallets, Blank.orders, Blank.trades, Blank.volume, today)
      BY BlankVolume
    <2>2. /\ wallets = Blank.wallets /\ orders = Blank.orders /\ trades = Blank.trades
          /\ volume = Blank.volume /\ disk = Blank
      BY DEF Init, Blank
    <2> QED BY <2>1, <2>2 DEF VolumeRecorded
  <1>2. Registry => RegistrySaved
    BY DEF Registry
  <1>3. Spec => []VolumeRecorded
    BY <1>1, <1>2, VolumeStep, RegistryInvariant, FillsInvariant, TypeCorrect,
       OrdersAccounted, PTL DEF Spec
  <1>4. TypeOK /\ VolumeRecorded => VolumeIsTraded
    <2> SUFFICES ASSUME TypeOK, VolumeRecorded PROVE VolumeIsTraded
      OBVIOUS
    <2>1. DOMAIN trades = 1 .. Len(trades)
      BY TradeTypes
    <2>2. TradedQuote = QuoteValue(trades)
      BY <2>1 DEF TradedQuote, QuoteValue
    <2>3. \A booked, u, d :
             /\ MadeBy(u, d, booked) = Made(wallets, orders, trades, booked, u, d)
             /\ TakenBy(u, d, booked) = Taken(wallets, orders, trades, booked, u, d)
      BY <2>1 DEF MadeBy, TakenBy, Made, Taken, UserOf
    <2>4. PICK made \in [DOMAIN trades -> Days], taken \in [DOMAIN trades -> Days] :
             /\ Timely(trades, made, taken, today)
             /\ VolumeMatch(wallets, orders, trades, volume, made, taken)
      BY <2>1 DEF VolumeRecorded, Counted
    <2>5. ASSUME NEW u \in Users, NEW d \in Days
          PROVE  volume[<<u, d>>] = SumFunctionOnSet(TradedQuote, MadeBy(u, d, made))
                                    + SumFunctionOnSet(TradedQuote, TakenBy(u, d, taken))
      <3>1. volume[<<u, d>>]
              = SumFunctionOnSet(QuoteValue(trades), Made(wallets, orders, trades, made, u, d))
                + SumFunctionOnSet(QuoteValue(trades), Taken(wallets, orders, trades, taken, u, d))
        BY <2>4 DEF VolumeMatch
      <3> QED BY <2>2, <2>3, <3>1
    <2>6. \A i \in DOMAIN trades :
             /\ trades[i].day <= made[i] /\ made[i] <= taken[i]
             /\ taken[i] <= IF i < Len(trades) THEN trades[i + 1].day ELSE today
      BY <2>1, <2>4 DEF Timely
    <2> QED BY <2>5, <2>6, Zenon DEF VolumeIsTraded
  <1> QED BY <1>3, <1>4, TypeCorrect, PTL

-----------------------------------------------------------------------------
(* Conservation.  A fill changes the balances of two wallets.              *)

\* The total of one denomination in a table of balances.
Column(F, d) == [w \in 1 .. Len(F) |-> F[w][d]]

LEMMA TotalColumn ==
  ASSUME NEW d, bal \in Seq(Row), bal' \in Seq(Row)
  PROVE  /\ Total(d) = SumFunctionOnSet(Column(bal, d), 1 .. Len(bal))
         /\ Total(d)' = SumFunctionOnSet(Column(bal', d), 1 .. Len(bal'))
  <1>1. DOMAIN bal = 1 .. Len(bal) /\ DOMAIN bal' = 1 .. Len(bal')
    OBVIOUS
  <1>2. /\ [w \in DOMAIN bal |-> bal[w][d]] = Column(bal, d)
        /\ [w \in DOMAIN bal' |-> bal'[w][d]] = Column(bal', d)
    BY <1>1 DEF Column
  <1>3. DOMAIN Column(bal, d) = 1 .. Len(bal) /\ DOMAIN Column(bal', d) = 1 .. Len(bal')
    BY DEF Column
  <1>4. Total(d) = SumFunction(Column(bal, d)) /\ Total(d)' = SumFunction(Column(bal', d))
    BY <1>2 DEF Total
  <1> QED BY <1>3, <1>4 DEF SumFunction

LEMMA FillConserves ==
  ASSUME TypeOK, Fill
  PROVE  /\ Total(Base)' = Total(Base)
         /\ \A w \in DOMAIN bal :
               w \notin {orders[LastTrade'.maker].wallet, orders[LastTrade'.taker].wallet}
                  => bal'[w] = bal[w] /\ locked'[w] = locked[w]
  <1>1. PICK b \in 1 .. Len(wallets), s \in 1 .. Len(wallets), bFee \in Int, sFee \in Int :
           FillSettled(b, s, bFee, sFee)
    BY FillSettles
  <1>2. PICK q \in Nat : q = FillQty
    BY FillSettles
  <1>5. /\ bal \in Seq(Row) /\ Len(bal) = Len(wallets)
        /\ locked \in Seq(Row) /\ Len(locked) = Len(wallets)
    BY TypeParts DEF MemoryOK, Row
  <1>6. PICK n \in Nat : n = Len(bal) /\ n = Len(bal') /\ b \in 1 .. n /\ s \in 1 .. n /\ b # s
    BY <1>1, <1>5 DEF FillSettled, BalancesSettled
  <1>7. bal' \in Seq(Row) /\ locked' \in Seq(Row) /\ Len(locked') = n
    BY <1>1, <1>5, <1>6 DEF FillSettled, BalancesSettled, LocksSettled
  <1>8. \A w \in 1 .. n :
           bal'[w][Base] = IF w = b THEN bal[w][Base] + q
                           ELSE IF w = s THEN bal[w][Base] - q ELSE bal[w][Base]
    BY <1>1, <1>2, <1>6 DEF FillSettled, BalancesSettled
  <1>3. ASSUME NEW w \in 1 .. n, w # b, w # s
        PROVE  bal'[w] = bal[w] /\ locked'[w] = locked[w]
    <2>1. bal'[w][Base] = bal[w][Base] /\ bal'[w][Quote] = bal[w][Quote]
      BY <1>1, <1>3, <1>6 DEF FillSettled, BalancesSettled
    <2>2. locked'[w][Base] = locked[w][Base] /\ locked'[w][Quote] = locked[w][Quote]
      BY <1>1, <1>3, <1>5, <1>6 DEF FillSettled, LocksSettled
    <2>3. bal[w] \in Row /\ bal'[w] \in Row /\ locked[w] \in Row /\ locked'[w] \in Row
      BY <1>5, <1>6, <1>7
    <2>4. ASSUME NEW p \in Row, NEW r \in Row, p[Base] = r[Base], p[Quote] = r[Quote]
          PROVE  p = r
      BY <2>4 DEF Row, Denoms
    <2> QED BY <2>1, <2>2, <2>3, <2>4
  <1>4. {b, s} = {orders[LastTrade'.maker].wallet, orders[LastTrade'.taker].wallet}
    <2>1. LastTrade'.maker = OppositeBook[idx] /\ LastTrade'.taker = taker
      BY FillTrades DEF TradeOf
    <2>2. /\ b = orders[IF Buying THEN taker ELSE OppositeBook[idx]].wallet
          /\ s = orders[IF Buying THEN OppositeBook[idx] ELSE taker].wallet
      BY <1>1 DEF FillSettled, BuyOrder, SellOrder
    <2>3. CASE Buying
      BY <2>1, <2>2, <2>3
    <2>4. CASE ~Buying
      BY <2>1, <2>2, <2>4
    <2> QED BY <2>3, <2>4
  <1>9. IsFiniteSet(1 .. n)
    BY Indices
  <1>10. ASSUME NEW d \in Denoms
         PROVE  /\ \A w \in 1 .. n : Column(bal, d)[w] = bal[w][d]
                /\ \A w \in 1 .. n : Column(bal', d)[w] = bal'[w][d]
                /\ \A w \in 1 .. n : Column(bal, d)[w] \in Int
                /\ \A w \in 1 .. n : Column(bal', d)[w] \in Int
    <2>1. /\ \A w \in 1 .. n : Column(bal, d)[w] = bal[w][d]
          /\ \A w \in 1 .. n : Column(bal', d)[w] = bal'[w][d]
      BY <1>6 DEF Column
    <2>2. \A w \in 1 .. n : bal[w] \in Row /\ bal'[w] \in Row
      BY <1>5, <1>6, <1>7
    <2> QED BY <2>1, <2>2 DEF Row
  <1>11. ASSUME NEW d \in Denoms,
                \A w \in 1 .. n : w # b /\ w # s => bal'[w][d] = bal[w][d]
         PROVE  /\ Total(d)' = Total(d) - bal[b][d] + bal'[b][d] - bal[s][d] + bal'[s][d]
                /\ Total(d) \in Int
                /\ bal[b][d] \in Int /\ bal[s][d] \in Int
    <2>1. PICK f, g : f = Column(bal, d) /\ g = Column(bal', d)
      OBVIOUS
    <2>2. /\ \A w \in 1 .. n : f[w] = bal[w][d] /\ f[w] \in Int
          /\ \A w \in 1 .. n : g[w] = bal'[w][d] /\ g[w] \in Int
      BY <1>10, <2>1
    <2>3. \A w \in 1 .. n : w # b /\ w # s => g[w] = f[w]
      BY <1>11, <2>2
    <2>4. \A w \in 1 .. n : f[w] \in Int /\ g[w] \in Int
      BY <2>2
    <2>5. PICK S : S = 1 .. n
      OBVIOUS
    <2>6. /\ \A w \in S : f[w] \in Int /\ g[w] \in Int
          /\ \A w \in S : w # b /\ w # s => g[w] = f[w]
      BY <2>3, <2>4, <2>5
    <2>7. SumFunctionOnSet(g, S) = SumFunctionOnSet(f, S) - f[b] + g[b] - f[s] + g[s]
      <3>1. PICK x, y : x = b /\ y = s
        OBVIOUS
      <3>2. IsFiniteSet(S)
        BY <1>9, <2>5
      <3>3. x \in S /\ y \in S /\ x # y
        BY <1>6, <2>5, <3>1
      <3>4. \A w \in S : f[w] \in Int /\ g[w] \in Int
        BY <2>6
      <3>5. \A w \in S : w # x /\ w # y => g[w] = f[w]
        BY <2>6, <3>1
      <3>6. SumFunctionOnSet(g, S) = SumFunctionOnSet(f, S) - f[x] + g[x] - f[y] + g[y]
        BY <3>2, <3>3, <3>4, <3>5, SumChangeTwo
      <3> QED BY <3>1, <3>6
    <2>8. SumFunctionOnSet(f, S) \in Int
      BY <1>9, <2>4, <2>5, SumInt
    <2>9. Total(d) = SumFunctionOnSet(f, S) /\ Total(d)' = SumFunctionOnSet(g, S)
      BY <1>5, <1>6, <1>7, <2>1, <2>5, TotalColumn
    <2>10. f[b] = bal[b][d] /\ f[s] = bal[s][d] /\ g[b] = bal'[b][d] /\ g[s] = bal'[s][d]
      BY <1>6, <2>2
    <2> QED BY <1>6, <2>2, <2>7, <2>8, <2>9, <2>10
  <1>12. PICK B \in Denoms, Q \in Denoms : B = Base /\ Q = Quote
    BY DEF Denoms
  <1>13. Total(Base)' = Total(Base)
    <2>1. /\ Total(B)' = Total(B) - bal[b][B] + bal'[b][B] - bal[s][B] + bal'[s][B]
          /\ Total(B) \in Int
          /\ bal[b][B] \in Int /\ bal[s][B] \in Int
      BY <1>8, <1>11, <1>12
    <2>2. bal'[b][B] = bal[b][B] + q /\ bal'[s][B] = bal[s][B] - q
      BY <1>6, <1>8, <1>12
    <2>3. PICK T \in Int, m \in Int, n2 \in Int :
             T = Total(B) /\ m = bal[b][B] /\ n2 = bal[s][B]
      BY <2>1
    <2>4. Total(B)' = T
      <3>1. Total(B)' = T - m + bal'[b][B] - n2 + bal'[s][B]
        BY <2>1, <2>3
      <3>2. bal'[b][B] = m + q /\ bal'[s][B] = n2 - q
        BY <2>2, <2>3
      <3> QED BY <3>1, <3>2
    <2>5. Total(B) = Total(Base) /\ Total(B)' = Total(Base)'
      BY <1>12 DEF Total
    <2> QED BY <2>3, <2>4, <2>5
  <1>14. DOMAIN bal = 1 .. n
    BY <1>5, <1>6
  <1> QED BY <1>3, <1>4, <1>13, <1>14

\* TradesConserve: a trade moves base tokens between the two wallets of its
\* orders, and no token of another wallet.
THEOREM TradesConserved == Spec => TradesConserve
  <1> DEFINE Conserved ==
        /\ Total(Base)' = Total(Base)
        /\ \A w \in DOMAIN bal :
              w \notin {orders[LastTrade'.maker].wallet, orders[LastTrade'.taker].wallet}
                 => bal'[w] = bal[w] /\ locked'[w] = locked[w]
  <1>1. TypeOK /\ TradesSaved /\ [Next]_vars => (Len(trades') > Len(trades) => Conserved)
    BY TradesSavedStep, FillConserves
  <1>2. TypeOK /\ TradesSaved /\ [Next]_vars
           => [Len(trades') > Len(trades) => Conserved]_vars
    BY <1>1
  <1> HIDE DEF Conserved
  <1>3. Spec => [][Len(trades') > Len(trades) => Conserved]_vars
    BY <1>2, TypeCorrect, TradesSavedInvariant, PTL DEF Spec
  <1> QED BY <1>3 DEF TradesConserve, Conserved

-----------------------------------------------------------------------------
(* Locks.  What an order needs locked is what cancelling it would release. *)
(* A wallet's slack in a denomination is what it has locked beyond the sum *)
(* of what its live orders need: always zero for base tokens, and for      *)
(* quote tokens never negative when every order is a limit order.          *)

ShareOf(d, o, w) ==
    IF Live(o) /\ o.wallet = w /\ LockDenom(o.side) = d THEN ReleaseAmount(o) ELSE 0

Shares(d, os, w) == [o \in 1 .. Len(os) |-> ShareOf(d, os[o], w)]

Held(d, os, w) == SumFunctionOnSet(Shares(d, os, w), 1 .. Len(os))

Slack(d, lk, os, w) == lk[w][d] - Held(d, os, w)

LEMMA ShareType ==
  ASSUME NEW d, NEW w, NEW o \in Order
  PROVE  ShareOf(d, o, w) \in Int /\ ReleaseAmount(o) \in Int /\ LockDenom(o.side) \in Denoms
  <1>1. o.side \in Sides /\ o.price \in Int /\ o.remaining \in Nat
    BY DEF Order
  <1>2. QuoteAmount(o.price, o.remaining) \in Int
    BY <1>1, QuoteAmountType
  <1>3. ReleaseAmount(o) \in Int
    BY <1>1, <1>2 DEF ReleaseAmount, LockAmount
  <1>4. LockDenom(o.side) \in Denoms
    BY DEF LockDenom, Denoms
  <1> QED BY <1>3, <1>4 DEF ShareOf

LEMMA ShareTypes ==
  ASSUME NEW d, NEW w, NEW os \in Seq(Order)
  PROVE  /\ Len(os) \in Nat /\ IsFiniteSet(1 .. Len(os))
         /\ \A o \in 1 .. Len(os) : /\ Shares(d, os, w)[o] = ShareOf(d, os[o], w)
                                    /\ Shares(d, os, w)[o] \in Int
         /\ Held(d, os, w) \in Int
  <1>1. Len(os) \in Nat /\ IsFiniteSet(1 .. Len(os))
    BY Indices
  <1>2. \A o \in 1 .. Len(os) : Shares(d, os, w)[o] = ShareOf(d, os[o], w)
    BY DEF Shares
  <1>3. \A o \in 1 .. Len(os) : os[o] \in Order
    OBVIOUS
  <1>4. \A o \in 1 .. Len(os) : Shares(d, os, w)[o] \in Int
    BY <1>2, <1>3, ShareType
  <1>5. Held(d, os, w) \in Int
    BY <1>1, <1>4, SumInt DEF Held
  <1> QED BY <1>1, <1>2, <1>4, <1>5

\* A new order adds its share.
LEMMA HeldPlaced ==
  ASSUME NEW d, NEW w, NEW os \in Seq(Order), NEW ps \in Seq(Order),
         Len(ps) = Len(os) + 1, \A o \in 1 .. Len(os) : ps[o] = os[o]
  PROVE  Held(d, ps, w) = Held(d, os, w) + ShareOf(d, ps[Len(os) + 1], w)
  <1>1. PICK f, g, new, S : /\ f = Shares(d, os, w) /\ g = Shares(d, ps, w)
                            /\ new = Len(os) + 1 /\ S = 1 .. Len(os)
    OBVIOUS
  <1>2. Len(os) \in Nat
    BY ShareTypes
  <1>3. 1 .. Len(ps) = S \cup {new} /\ new \notin S /\ IsFiniteSet(S)
    BY <1>1, <1>2, Indices
  <1>4. IsFiniteSet(S) /\ new \notin S
    BY <1>3
  <1>5. \A o \in S : f[o] \in Int
    BY <1>1, ShareTypes
  <1>6. \A o \in S : g[o] = f[o]
    BY <1>1, <1>3 DEF Shares
  <1>7. \A o \in S : f[o] \in Int /\ g[o] = f[o]
    BY <1>5, <1>6
  <1>8. g[new] \in Int /\ g[new] = ShareOf(d, ps[Len(os) + 1], w)
    BY <1>1, <1>3, ShareTypes
  <1>9. SumFunctionOnSet(g, S \cup {new}) = SumFunctionOnSet(f, S) + g[new]
    BY <1>4, <1>7, <1>8, SumGrow
  <1> QED BY <1>1, <1>3, <1>8, <1>9 DEF Held

\* When one order changes, the sum moves by the change of its share.
LEMMA HeldChanged ==
  ASSUME NEW d, NEW w, NEW os \in Seq(Order), NEW ps \in Seq(Order), Len(ps) = Len(os),
         NEW i, i \in 1 .. Len(os),
         \A o \in 1 .. Len(os) : o # i => ShareOf(d, ps[o], w) = ShareOf(d, os[o], w)
  PROVE  Held(d, ps, w) = Held(d, os, w) - ShareOf(d, os[i], w) + ShareOf(d, ps[i], w)
  <1>1. PICK f, g, S, x : /\ f = Shares(d, os, w) /\ g = Shares(d, ps, w)
                          /\ S = 1 .. Len(os) /\ x = i
    OBVIOUS
  <1>2. IsFiniteSet(S) /\ x \in S
    BY <1>1, ShareTypes
  <1>3. \A o \in S : f[o] \in Int /\ g[o] \in Int
    BY <1>1, ShareTypes
  <1>4. \A o \in S : o # x => g[o] = f[o]
    BY <1>1, ShareTypes
  <1>5. SumFunctionOnSet(g, S) = SumFunctionOnSet(f, S) - f[x] + g[x]
    BY <1>2, <1>3, <1>4, SumChange
  <1>6. f[x] = ShareOf(d, os[i], w) /\ g[x] = ShareOf(d, ps[i], w)
    BY <1>1, <1>2, ShareTypes
  <1> QED BY <1>1, <1>5, <1>6 DEF Held

LEMMA HeldSame ==
  ASSUME NEW d, NEW w, NEW os \in Seq(Order), NEW ps \in Seq(Order), Len(ps) = Len(os),
         \A o \in 1 .. Len(os) : ShareOf(d, ps[o], w) = ShareOf(d, os[o], w)
  PROVE  Held(d, ps, w) = Held(d, os, w)
  <1>1. Shares(d, ps, w) = Shares(d, os, w)
    BY DEF Shares
  <1> QED BY <1>1 DEF Held

\* A wallet without orders needs nothing.
LEMMA HeldNone ==
  ASSUME NEW d, NEW w, NEW os \in Seq(Order), \A o \in 1 .. Len(os) : os[o].wallet # w
  PROVE  Held(d, os, w) = 0
  <1>1. \A o \in 1 .. Len(os) : Shares(d, os, w)[o] = 0
    BY DEF Shares, ShareOf
  <1> QED BY <1>1, ShareTypes, SumZero DEF Held

\* No wallet's slack moves.
SlackKept ==
    /\ Len(wallets') = Len(wallets)
    /\ \A w \in 1 .. Len(wallets), d \in Denoms :
          Slack(d, locked', orders', w) = Slack(d, locked, orders, w)

LEMMA LockTypes ==
  ASSUME TypeOK
  PROVE  /\ locked \in Seq(Row) /\ Len(locked) = Len(wallets) /\ Len(wallets) \in Nat
         /\ orders \in Seq(Order)
         /\ \A w \in 1 .. Len(wallets), d \in Denoms :
               locked[w][d] \in Int /\ Held(d, orders, w) \in Int
  <1>1. /\ locked \in Seq(Row) /\ Len(locked) = Len(wallets) /\ Len(wallets) \in Nat
        /\ orders \in Seq(Order)
    BY TypeParts DEF MemoryOK, Row
  <1>2. \A w \in 1 .. Len(wallets) : locked[w] \in Row
    BY <1>1
  <1>3. \A w \in 1 .. Len(wallets), d \in Denoms : locked[w][d] \in Int
    BY <1>2 DEF Row
  <1>4. \A w \in 1 .. Len(wallets), d \in Denoms : Held(d, orders, w) \in Int
    BY <1>1, ShareTypes
  <1> QED BY <1>1, <1>3, <1>4

\* One lock moves by as much as the shares of its wallet and denomination.
LEMMA SlackMoved ==
  ASSUME TypeOK, NEW w \in 1 .. Len(wallets), NEW e \in Denoms, NEW x \in Int,
         locked' = [locked EXCEPT ![w][e] = locked[w][e] + x], wallets' = wallets,
         \A v \in 1 .. Len(wallets), d \in Denoms :
            Held(d, orders', v) = Held(d, orders, v) + (IF v = w /\ d = e THEN x ELSE 0)
  PROVE  SlackKept
  <1>1. w \in 1 .. Len(locked) /\ locked[w][e] \in Int
    BY LockTypes
  <1>2. PICK y \in Int : y = locked[w][e] + x
    BY <1>1
  <1>3. \A v \in 1 .. Len(locked), d \in Denoms :
           locked'[v][d] = IF v = w /\ d = e THEN y ELSE locked[v][d]
    <2>1. locked \in Seq(Row)
      BY LockTypes
    <2>2. locked' = [locked EXCEPT ![w][e] = y]
      BY <1>2
    <2> QED BY <1>1, <2>1, <2>2, EntryAt
  <1>4. ASSUME NEW v \in 1 .. Len(wallets), NEW d \in Denoms
        PROVE  Slack(d, locked', orders', v) = Slack(d, locked, orders, v)
    <2>1. locked'[v][d] = IF v = w /\ d = e THEN y ELSE locked[v][d]
      BY <1>3, LockTypes
    <2>2. Held(d, orders', v) = Held(d, orders, v) + (IF v = w /\ d = e THEN x ELSE 0)
      OBVIOUS
    <2>3. locked[v][d] \in Int /\ Held(d, orders, v) \in Int
      BY LockTypes
    <2>4. CASE v = w /\ d = e
      BY <1>2, <2>1, <2>2, <2>3, <2>4 DEF Slack
    <2>5. CASE ~(v = w /\ d = e)
      BY <2>1, <2>2, <2>3, <2>5 DEF Slack
    <2> QED BY <2>4, <2>5
  <1> QED BY <1>4 DEF SlackKept

LEMMA PlaceLocks ==
  ASSUME TypeOK, TypeOK', NEW w \in DOMAIN wallets, NEW side \in Sides, NEW type,
         NEW price \in Int, NEW qty \in Nat, PlaceOrder(w, side, type, price, qty)
  PROVE  SlackKept
  <1>1. /\ w \in 1 .. Len(wallets) /\ Len(orders) \in Nat
        /\ orders \in Seq(Order) /\ orders' \in Seq(Order)
    BY TypeParts DEF MemoryOK
  <1>2. PICK x : x = orders'[Len(orders) + 1]
    OBVIOUS
  <1>3. /\ Len(orders') = Len(orders) + 1
        /\ \A o \in 1 .. Len(orders) : orders'[o] = orders[o]
        /\ x = [wallet |-> w, side |-> side, type |-> type, price |-> price, qty |-> qty,
                filled |-> 0, remaining |-> qty, status |-> "open"]
    BY <1>2, PlaceViews DEF PlaceView
  <1>4. x \in Order
    <2>1. Len(orders) + 1 \in 1 .. Len(orders')
      BY <1>1, PlaceViews DEF PlaceView
    <2> QED BY <1>1, <1>2, <2>1
  <1>5. /\ Live(x) /\ x.wallet = w /\ x.side = side
        /\ ReleaseAmount(x) = LockAmount(side, price, qty)
    BY <1>3 DEF Live, ReleaseAmount
  <1>6. PICK e \in Denoms, a \in Int : e = LockDenom(side) /\ a = LockAmount(side, price, qty)
    BY <1>4, <1>5, ShareType
  <1>7. locked' = [locked EXCEPT ![w][e] = locked[w][e] + a] /\ wallets' = wallets
    BY <1>1, <1>6, LockTypes DEF PlaceOrder
  <1>8. ASSUME NEW v \in 1 .. Len(wallets), NEW d \in Denoms
        PROVE  Held(d, orders', v) = Held(d, orders, v) + (IF v = w /\ d = e THEN a ELSE 0)
    <2>1. Held(d, orders', v) = Held(d, orders, v) + ShareOf(d, x, v)
      <3>1. Held(d, orders', v) = Held(d, orders, v) + ShareOf(d, orders'[Len(orders) + 1], v)
        BY <1>1, PlaceViews, HeldPlaced DEF PlaceView
      <3> QED BY <1>2, <3>1
    <2>2. ShareOf(d, x, v) = IF v = w /\ d = e THEN a ELSE 0
      BY <1>5, <1>6 DEF ShareOf
    <2> QED BY <2>1, <2>2
  <1> QED BY <1>1, <1>6, <1>7, <1>8, SlackMoved

\* A cancelled order gives back its share.
LEMMA CancelLocks ==
  ASSUME TypeOK, TypeOK', NEW o \in DOMAIN orders, NEW w \in DOMAIN wallets,
         CancelOrder(o, w)
  PROVE  SlackKept
  <1>1. /\ w \in 1 .. Len(wallets) /\ o \in 1 .. Len(orders)
        /\ orders \in Seq(Order) /\ orders' \in Seq(Order)
    BY TypeParts DEF MemoryOK
  <1>2. PICK t \in Order : t = orders[o]
    BY <1>1
  <1>3. StatusView(o, "cancelled")
    BY CancelViews
  <1>4. /\ Len(orders') = Len(orders) /\ ~Live(orders'[o])
        /\ \A p \in 1 .. Len(orders) : p # o => orders'[p] = orders[p]
    BY <1>3 DEF StatusView, TermsKept, Live
  <1>5. t.wallet = w /\ Live(t)
    <2>1. t.status \in {"open", "partial", "filled", "cancelled"}
      BY DEF Order
    <2> QED BY <1>2, <2>1 DEF CancelOrder, Live
  <1>6. PICK e \in Denoms, a \in Int : e = LockDenom(t.side) /\ a = - ReleaseAmount(t)
    BY ShareType
  <1>7. locked' = [locked EXCEPT ![w][e] = locked[w][e] + a] /\ wallets' = wallets
    <2>1. locked[w][e] - ReleaseAmount(t) = locked[w][e] + a
      BY <1>1, <1>6, LockTypes, ShareType
    <2> QED BY <1>1, <1>2, <1>6, <2>1, LockTypes DEF CancelOrder
  <1>8. ASSUME NEW v \in 1 .. Len(wallets), NEW d \in Denoms
        PROVE  Held(d, orders', v) = Held(d, orders, v) + (IF v = w /\ d = e THEN a ELSE 0)
    <2>1. Held(d, orders', v)
             = Held(d, orders, v) - ShareOf(d, orders[o], v) + ShareOf(d, orders'[o], v)
      BY <1>1, <1>4, HeldChanged
    <2>2. ShareOf(d, orders'[o], v) = 0
      BY <1>4 DEF ShareOf
    <2>3. ShareOf(d, t, v) = (IF v = w /\ d = e THEN -a ELSE 0) /\ ShareOf(d, t, v) \in Int
      <3>1. ShareOf(d, t, v) = IF v = w /\ d = e THEN ReleaseAmount(t) ELSE 0
        BY <1>5, <1>6 DEF ShareOf
      <3>2. ReleaseAmount(t) \in Int
        BY ShareType
      <3>3. ReleaseAmount(t) = -a
        <4>1. PICK r \in Int : r = ReleaseAmount(t)
          BY <3>2
        <4>2. a = -r
          BY <1>6, <4>1
        <4> QED BY <4>1, <4>2
      <3> QED BY <3>1, <3>2, <3>3
    <2>4. Held(d, orders, v) \in Int
      BY LockTypes
    <2> QED BY <1>2, <2>1, <2>2, <2>3, <2>4
  <1> QED BY <1>1, <1>6, <1>7, <1>8, SlackMoved

LEMMA QuoteOfNone == ASSUME NEW price \in Int PROVE QuoteAmount(price, 0) = 0
  <1>1. price * 0 = 0 /\ PriceScale \in Nat \ {0}
    BY ExchangeAssumption
  <1>2. 0 \div PriceScale = 0
    BY <1>1
  <1>3. Quotient(0, PriceScale) = 0
    BY <1>1, <1>2, QuotientType
  <1> QED BY <1>1, <1>3 DEF QuoteAmount

LEMMA NoneLeft == ASSUME NEW o \in Order, o.remaining = 0 PROVE ReleaseAmount(o) = 0
  <1>1. o.price \in Int
    BY DEF Order
  <1>2. QuoteAmount(o.price, 0) = 0
    BY <1>1, QuoteOfNone
  <1> QED BY <1>2 DEF ReleaseAmount, LockAmount

\* An order that is filled needs nothing, so the status PlaceOrder sets at its
\* end moves no share.
LEMMA FinishLocks ==
  ASSUME TypeOK, TypeOK', OrderAccounting, FinishOrder
  PROVE  SlackKept
  <1>1. /\ orders \in Seq(Order) /\ orders' \in Seq(Order)
        /\ locked' = locked /\ wallets' = wallets
    BY TypeParts DEF MemoryOK, FinishOrder
  <1>2. taker \in 1 .. Len(orders) /\ StatusView(taker, FinishedStatus)
    BY FinishViews
  <1>3. PICK t \in Order, x \in Order : t = orders[taker] /\ x = orders'[taker]
    BY <1>1, <1>2 DEF StatusView, TermsKept
  <1>4. /\ x.wallet = t.wallet /\ x.side = t.side /\ x.price = t.price
        /\ x.remaining = t.remaining /\ x.status = FinishedStatus
    BY <1>2, <1>3 DEF StatusView, TermsKept, SameTerms
  <1>5. ReleaseAmount(x) = ReleaseAmount(t)
    BY <1>4 DEF ReleaseAmount
  <1>6. Live(t)
    BY <1>2, <1>3, AccountingParts DEF MemoryAccounted, BeingMatched, Live
  <1>7. ASSUME NEW d, NEW w PROVE ShareOf(d, x, w) = ShareOf(d, t, w)
    <2>1. CASE t.remaining = 0
      <3>1. ReleaseAmount(t) = 0 /\ ReleaseAmount(x) = 0
        BY <1>4, <2>1, NoneLeft
      <3> QED BY <3>1 DEF ShareOf
    <2>2. CASE t.remaining # 0
      <3>1. Live(x)
        BY <1>3, <1>4, <2>2 DEF FinishedStatus, Live
      <3> QED BY <1>4, <1>5, <1>6, <3>1 DEF ShareOf
    <2> QED BY <2>1, <2>2
  <1>8. ASSUME NEW d, NEW w PROVE Held(d, orders', w) = Held(d, orders, w)
    <2>1. \A o \in 1 .. Len(orders) : ShareOf(d, orders'[o], w) = ShareOf(d, orders[o], w)
      BY <1>2, <1>3, <1>7 DEF StatusView
    <2> QED BY <1>1, <1>2, <2>1, HeldSame DEF StatusView, TermsKept
  <1> QED BY <1>1, <1>8 DEF SlackKept, Slack

\* What a fill does to the buyer's order b and the seller's order s.
PairView(b, s) ==
    /\ b = BuyOrder /\ s = SellOrder /\ b # s
    /\ b \in 1 .. Len(orders) /\ s \in 1 .. Len(orders)
    /\ orders[b].side = "buy" /\ orders[s].side = "sell"
    /\ \A o \in 1 .. Len(orders) : o # b /\ o # s => orders'[o] = orders[o]
    /\ \A o \in {b, s} :
          /\ Live(orders[o])
          /\ orders'[o].remaining = orders[o].remaining - FillQty
          /\ Live(orders'[o]) \/ orders'[o].remaining = 0

LEMMA FillPair ==
  ASSUME TypeOK, OrderAccounting, Books, Fill
  PROVE  \E b, s : PairView(b, s)
  <1>1. PICK m : m = OppositeBook[idx]
    OBVIOUS
  <1>2. Matching
    BY DEF Fill
  <1>3. /\ taker \in 1 .. Len(orders) /\ m \in 1 .. Len(orders)
        /\ orders[taker] \in Order /\ orders[m] \in Order
        /\ orders[taker].side \in Sides
    BY <1>1, <1>2, FillFacts
  <1>4. FillView(m)
    BY <1>1, FillViews
  <1>5. /\ m # taker /\ Live(orders[m]) /\ orders[m].side = Opposite(orders[taker].side)
    BY <1>1, <1>2, MakerInBook DEF LiveOf
  <1>6. orders[taker].status = "open"
    BY <1>3, AccountingParts DEF MemoryAccounted, BeingMatched
  <1>7. \A o \in {taker, m} :
          /\ Live(orders[o])
          /\ orders'[o].remaining = orders[o].remaining - FillQty
    BY <1>4, <1>5, <1>6 DEF FillView, Live
  <1>8. Live(orders'[taker])
    BY <1>4, <1>6 DEF FillView, Live
  <1>9. Live(orders'[m]) \/ orders'[m].remaining = 0
    <2>1. orders[m].remaining \in Nat
      BY <1>3 DEF Order
    <2> QED BY <1>4, <2>1 DEF FillView, Live
  <1>10. \A o \in 1 .. Len(orders) : o # taker /\ o # m => orders'[o] = orders[o]
    BY <1>4 DEF FillView
  <1>11. CASE orders[taker].side = "buy"
    <2>1. orders[m].side = "sell"
      BY <1>5, <1>11 DEF Opposite
    <2>2. taker = BuyOrder /\ m = SellOrder
      BY <1>1, <1>11 DEF BuyOrder, SellOrder, Buying
    <2>3. PairView(taker, m)
      BY <1>3, <1>5, <1>7, <1>8, <1>9, <1>10, <1>11, <2>1, <2>2 DEF PairView
    <2> QED BY <2>3
  <1>12. CASE orders[taker].side # "buy"
    <2>1. orders[m].side = "buy" /\ orders[taker].side = "sell"
      BY <1>3, <1>5, <1>12 DEF Opposite, Sides
    <2>2. m = BuyOrder /\ taker = SellOrder
      BY <1>1, <1>12 DEF BuyOrder, SellOrder, Buying
    <2>3. PairView(m, taker)
      BY <1>3, <1>5, <1>7, <1>8, <1>9, <1>10, <2>1, <2>2 DEF PairView
    <2> QED BY <2>3
  <1> QED BY <1>11, <1>12

\* Rounding down once takes no more than rounding down two parts.
LEMMA ProductGrows ==
  ASSUME NEW m \in Nat, NEW n \in Nat, NEW k \in Nat, m <= n
  PROVE  m * k <= n * k
  <1>1. PICK d \in Nat : n = m + d
    BY n - m \in Nat
  <1>2. n * k = m * k + d * k
    BY <1>1
  <1>3. d * k \in Nat /\ m * k \in Nat
    OBVIOUS
  <1> QED BY <1>2, <1>3

LEMMA FloorAtMost ==
  ASSUME NEW c \in Nat, NEW k \in Nat \ {0}
  PROVE  c \div k \in Nat /\ (c \div k) * k <= c /\ c < (c \div k) * k + k
  OBVIOUS

LEMMA FloorAtLeast ==
  ASSUME NEW c \in Nat, NEW k \in Nat \ {0}, NEW n \in Nat, n * k <= c
  PROVE  n <= c \div k
  <1>1. PICK q \in Nat : q = c \div k /\ c < q * k + k
    BY FloorAtMost
  <1>2. SUFFICES ASSUME q + 1 <= n PROVE FALSE
    BY <1>1
  <1>3. (q + 1) * k <= n * k
    BY <1>2, ProductGrows
  <1>4. (q + 1) * k = q * k + k /\ q * k \in Nat /\ n * k \in Nat
    OBVIOUS
  <1> QED BY <1>1, <1>3, <1>4

LEMMA FloorsAdd ==
  ASSUME NEW a \in Nat, NEW b \in Nat, NEW c \in Nat, NEW k \in Nat \ {0}, a + b <= c
  PROVE  (a \div k) + (b \div k) <= c \div k
  <1>1. PICK x \in Nat, y \in Nat : x = a \div k /\ y = b \div k /\ x * k <= a /\ y * k <= b
    BY FloorAtMost
  <1>2. (x + y) * k = x * k + y * k /\ x * k \in Nat /\ y * k \in Nat
    OBVIOUS
  <1>3. (x + y) * k <= c
    BY <1>1, <1>2
  <1> QED BY <1>1, <1>3, FloorAtLeast

LEMMA QuoteWhole ==
  ASSUME NEW price \in Nat, NEW qty \in Nat
  PROVE  QuoteAmount(price, qty) = (price * qty) \div PriceScale
  <1>1. PICK a \in Nat : a = price * qty
    OBVIOUS
  <1>2. PriceScale \in Nat \ {0}
    BY ExchangeAssumption
  <1>3. Quotient(a, PriceScale) = a \div PriceScale
    <2>1. a \in Int /\ a >= 0
      BY <1>1
    <2> QED BY <1>2, <2>1, QuotientType, Zenon
  <1> QED BY <1>1, <1>3 DEF QuoteAmount

\* What an order has locked covers a fill at its price or a better one and
\* what it then still needs.
LEMMA LockCovers ==
  ASSUME NEW P \in Nat, NEW p \in Nat, NEW r \in Nat, NEW f \in Nat, p <= P, f <= r
  PROVE  QuoteAmount(p, f) + QuoteAmount(P, r - f) <= QuoteAmount(P, r)
  <1>1. PICK g \in Nat : g = r - f
    OBVIOUS
  <1>2. P * r = P * f + P * g
    BY <1>1
  <1>3. p * f <= P * f
    BY ProductGrows
  <1>4. p * f \in Nat /\ P * g \in Nat /\ P * r \in Nat /\ P * f \in Nat
    OBVIOUS
  <1>5. p * f + P * g <= P * r
    BY <1>2, <1>3, <1>4
  <1>6. PriceScale \in Nat \ {0}
    BY ExchangeAssumption
  <1>7. /\ QuoteAmount(p, f) = (p * f) \div PriceScale
        /\ QuoteAmount(P, g) = (P * g) \div PriceScale
        /\ QuoteAmount(P, r) = (P * r) \div PriceScale
    BY <1>1, QuoteWhole
  <1>8. ((p * f) \div PriceScale) + ((P * g) \div PriceScale) <= (P * r) \div PriceScale
    BY <1>4, <1>5, <1>6, FloorsAdd
  <1> QED BY <1>1, <1>7, <1>8
LEMMA FillBaseLocks ==
  ASSUME TypeOK, TypeOK', OrderAccounting, Books, Fill, NEW w \in 1 .. Len(wallets)
  PROVE  Slack(Base, locked', orders', w) = Slack(Base, locked, orders, w)
  <1>1. PICK b, s : PairView(b, s)
    BY FillPair
  <1>2. PICK bw \in 1 .. Len(wallets), sw \in 1 .. Len(wallets), bFee \in Int, sFee \in Int :
           FillSettled(bw, sw, bFee, sFee)
    BY FillSettles
  <1>3. orders \in Seq(Order) /\ orders' \in Seq(Order) /\ FillView(OppositeBook[idx])
    BY FillViews, TypeParts DEF MemoryOK
  <1>4. PICK d \in Denoms, q \in Nat : d = Base /\ q = FillQty
    BY FillSettles DEF Denoms
  <1>5. locked'[w][d] = IF w = sw THEN locked[w][d] - q ELSE locked[w][d]
    BY <1>2, <1>4, LockTypes DEF FillSettled, LocksSettled
  <1>6. /\ \A o \in 1 .. Len(orders) : SameTerms(orders'[o], orders[o])
        /\ Len(orders') = Len(orders)
    BY <1>3 DEF FillView, TermsKept
  <1>7. Held(d, orders', w)
           = Held(d, orders, w) - ShareOf(d, orders[s], w) + ShareOf(d, orders'[s], w)
    <2>1. \A o \in 1 .. Len(orders) :
             o # s => ShareOf(d, orders'[o], w) = ShareOf(d, orders[o], w)
      <3>1. ShareOf(d, orders'[b], w) = 0 /\ ShareOf(d, orders[b], w) = 0
        BY <1>1, <1>4, <1>6 DEF PairView, SameTerms, ShareOf, LockDenom, Base, Quote
      <3> QED BY <1>1, <3>1 DEF PairView
    <2>2. s \in 1 .. Len(orders)
      BY <1>1 DEF PairView
    <2>3. orders \in Seq(Order) /\ orders' \in Seq(Order) /\ Len(orders') = Len(orders)
      BY <1>3, <1>6
    <2> QED BY <2>1, <2>2, <2>3, HeldChanged
  <1>8. PICK x \in Order, y \in Order : x = orders[s] /\ y = orders'[s]
    BY <1>1, <1>3, <1>6 DEF PairView
  <1>9. /\ x.wallet = sw /\ y.wallet = sw /\ x.side = "sell" /\ y.side = "sell"
        /\ Live(x) /\ y.remaining = x.remaining - q /\ (Live(y) \/ y.remaining = 0)
    BY <1>1, <1>2, <1>4, <1>6, <1>8 DEF PairView, FillSettled, SameTerms
  <1>10. x.remaining \in Nat /\ y.remaining \in Nat
    BY DEF Order
  <1>11. ShareOf(d, x, w) = IF w = sw THEN x.remaining ELSE 0
    BY <1>4, <1>9 DEF ShareOf, ReleaseAmount, LockAmount, LockDenom
  <1>12. ShareOf(d, y, w) = IF w = sw THEN y.remaining ELSE 0
    BY <1>4, <1>9 DEF ShareOf, ReleaseAmount, LockAmount, LockDenom
  <1>13. locked[w][d] \in Int /\ Held(d, orders, w) \in Int
    BY LockTypes
  <1>14. Slack(d, locked', orders', w) = Slack(d, locked, orders, w)
    <2>1. CASE w = sw
      <3>1. Held(d, orders', w) = Held(d, orders, w) - x.remaining + y.remaining
        BY <1>7, <1>8, <1>11, <1>12, <2>1
      <3> QED BY <1>5, <1>9, <1>10, <1>13, <2>1, <3>1 DEF Slack
    <2>2. CASE w # sw
      <3>1. Held(d, orders', w) = Held(d, orders, w)
        BY <1>7, <1>8, <1>11, <1>12, <1>13, <2>2
      <3> QED BY <1>5, <1>13, <2>2, <3>1 DEF Slack
    <2> QED BY <2>1, <2>2
  <1> QED BY <1>4, <1>14

\* With limit orders a buyer pays no more than its limit, whichever of the two it came as, so
\* what a fill takes out of its lock and what the order still needs were both
\* locked for it.
LEMMA FillQuoteLocks ==
  ASSUME TypeOK, TypeOK', OrderAccounting, Books, Fill, NEW w \in 1 .. Len(wallets),
         \A o \in 1 .. Len(orders) : orders[o].type = "limit"
  PROVE  Slack(Quote, locked', orders', w) >= Slack(Quote, locked, orders, w)
  <1>1. PICK b, s : PairView(b, s)
    BY FillPair
  <1>2. PICK bw \in 1 .. Len(wallets), sw \in 1 .. Len(wallets), bFee \in Int, sFee \in Int :
           FillSettled(bw, sw, bFee, sFee)
    BY FillSettles
  <1>3. orders \in Seq(Order) /\ orders' \in Seq(Order) /\ FillView(OppositeBook[idx])
    BY FillViews, TypeParts DEF MemoryOK
  <1>4. PICK d \in Denoms, q \in Nat, a \in Int : d = Quote /\ q = FillQty /\ a = FillAmount
    BY FillSettles DEF Denoms
  <1>5. locked'[w][d] = IF w = bw THEN locked[w][d] - a ELSE locked[w][d]
    BY <1>2, <1>4, LockTypes DEF FillSettled, LocksSettled
  <1>6. /\ \A o \in 1 .. Len(orders) : SameTerms(orders'[o], orders[o])
        /\ Len(orders') = Len(orders)
    BY <1>3 DEF FillView, TermsKept
  <1>7. Held(d, orders', w)
           = Held(d, orders, w) - ShareOf(d, orders[b], w) + ShareOf(d, orders'[b], w)
    <2>1. \A o \in 1 .. Len(orders) :
             o # b => ShareOf(d, orders'[o], w) = ShareOf(d, orders[o], w)
      <3>1. ShareOf(d, orders'[s], w) = 0 /\ ShareOf(d, orders[s], w) = 0
        BY <1>1, <1>4, <1>6 DEF PairView, SameTerms, ShareOf, LockDenom, Base, Quote
      <3> QED BY <1>1, <3>1 DEF PairView
    <2>2. b \in 1 .. Len(orders)
      BY <1>1 DEF PairView
    <2>3. orders \in Seq(Order) /\ orders' \in Seq(Order) /\ Len(orders') = Len(orders)
      BY <1>3, <1>6
    <2> QED BY <2>1, <2>2, <2>3, HeldChanged
  <1>8. PICK x \in Order, y \in Order : x = orders[b] /\ y = orders'[b]
    BY <1>1, <1>3, <1>6 DEF PairView
  <1>9. /\ x.wallet = bw /\ y.wallet = bw /\ x.side = "buy" /\ y.side = "buy"
        /\ y.price = x.price
        /\ Live(x) /\ y.remaining = x.remaining - q /\ (Live(y) \/ y.remaining = 0)
    BY <1>1, <1>2, <1>4, <1>6, <1>8 DEF PairView, FillSettled, SameTerms
  <1>10. /\ x.remaining \in Nat /\ y.remaining \in Nat /\ x.price \in Nat
         /\ q <= x.remaining
    <2>1. x.remaining \in Nat /\ y.remaining \in Nat
      BY DEF Order
    <2>2. x.type = "limit"
      BY <1>1, <1>8 DEF PairView
    <2>3. x.price \in Nat
      BY <2>2 DEF Order
    <2> QED BY <1>9, <2>1, <2>3
  <1>11. PICK p \in Nat : p = orders[OppositeBook[idx]].price /\ p <= x.price
    <2>1. Matching
      BY DEF Fill
    <2>2. orders[OppositeBook[idx]].price \in Nat /\ orders[taker].price \in Nat
          /\ orders[taker].type = "limit"
      <3>1. /\ orders[taker] \in Order /\ orders[OppositeBook[idx]] \in Order
            /\ orders[taker].type = "limit" /\ orders[OppositeBook[idx]].type = "limit"
        BY <2>1, FillFacts
      <3>2. \A z \in Order : z.type = "limit" => z.price \in Nat
        BY DEF Order
      <3> QED BY <3>1, <3>2
    <2>3. CASE Buying
      <3>1. b = taker /\ orders[taker].side = "buy"
        BY <1>1, <2>3 DEF PairView, BuyOrder, Buying
      <3>2. ~(orders[taker].price < orders[OppositeBook[idx]].price)
        BY <2>1, <2>2, <3>1 DEF Matching, Before, Opposite
      <3> QED BY <1>8, <2>2, <3>1, <3>2
    <2>4. CASE ~Buying
      BY <1>1, <1>8, <2>2, <2>4 DEF PairView, BuyOrder
    <2> QED BY <2>3, <2>4
  <1>12. PICK u \in Int, v \in Int : /\ u = QuoteAmount(x.price, x.remaining)
                                     /\ v = QuoteAmount(y.price, y.remaining)
    <2>1. x.price \in Int /\ y.price \in Int
      BY <1>9, <1>10
    <2> QED BY <1>10, <2>1, QuoteAmountType
  <1>13. a + v <= u
    <2>1. a = QuoteAmount(p, q)
      BY <1>4, <1>11 DEF FillAmount
    <2>2. v = QuoteAmount(x.price, x.remaining - q)
      BY <1>9, <1>12
    <2> QED BY <1>10, <1>11, <1>12, <2>1, <2>2, LockCovers
  <1>14. ShareOf(d, x, w) = IF w = bw THEN u ELSE 0
    BY <1>4, <1>9, <1>12 DEF ShareOf, ReleaseAmount, LockAmount, LockDenom
  <1>15. ShareOf(d, y, w) = IF w = bw THEN v ELSE 0
    <2>1. CASE Live(y)
      BY <1>4, <1>9, <1>12, <2>1 DEF ShareOf, ReleaseAmount, LockAmount, LockDenom
    <2>2. CASE ~Live(y)
      <3>1. ReleaseAmount(y) = 0
        BY <1>9, <2>2, NoneLeft
      <3>2. v = 0
        BY <1>9, <1>12, <3>1 DEF ReleaseAmount, LockAmount
      <3> QED BY <2>2, <3>2 DEF ShareOf
    <2> QED BY <2>1, <2>2
  <1>16. locked[w][d] \in Int /\ Held(d, orders, w) \in Int
    BY LockTypes
  <1>17. Slack(d, locked', orders', w) >= Slack(d, locked, orders, w)
    <2>1. CASE w = bw
      <3>1. Held(d, orders', w) = Held(d, orders, w) - u + v
        BY <1>7, <1>8, <1>14, <1>15, <2>1
      <3> QED BY <1>5, <1>13, <1>16, <2>1, <3>1 DEF Slack
    <2>2. CASE w # bw
      <3>1. Held(d, orders', w) = Held(d, orders, w)
        BY <1>7, <1>8, <1>14, <1>15, <1>16, <2>2
      <3> QED BY <1>5, <1>16, <2>2, <3>1 DEF Slack
    <2> QED BY <2>1, <2>2
  <1> QED BY <1>4, <1>17

\* A new wallet has nothing locked and no orders.
WalletAdded ==
    /\ Len(wallets) \in Nat /\ Len(wallets') = Len(wallets) + 1
    /\ \A w \in 1 .. Len(wallets), d \in Denoms :
          Slack(d, locked', orders', w) = Slack(d, locked, orders, w)
    /\ \A d \in Denoms : Slack(d, locked', orders', Len(wallets) + 1) = 0

LEMMA CreateLocks ==
  ASSUME TypeOK, NEW u, CreateWallet(u)
  PROVE  WalletAdded
  <1>1. /\ locked \in Seq(Row) /\ Len(locked) = Len(wallets) /\ Len(wallets) \in Nat
        /\ orders \in Seq(Order) /\ wallets \in Seq(Wallet)
        /\ \A o \in 1 .. Len(orders) : orders[o].wallet \in 1 .. Len(wallets)
    BY TypeParts DEF MemoryOK, Row
  <1>2. PICK x : wallets' = Append(wallets, x) /\ locked' = Append(locked, Zero)
    BY DEF CreateWallet
  <1>3. /\ Len(wallets') = Len(wallets) + 1
        /\ \A w \in 1 .. Len(wallets) : locked'[w] = locked[w]
        /\ locked'[Len(wallets) + 1] = Zero
    BY <1>1, <1>2
  <1>4. orders' = orders
    BY DEF CreateWallet
  <1>5. ASSUME NEW d \in Denoms PROVE Slack(d, locked', orders', Len(wallets) + 1) = 0
    <2>1. PICK n : n = Len(wallets) + 1 /\ n \notin 1 .. Len(wallets)
      BY <1>1
    <2>2. Held(d, orders, n) = 0
      BY <1>1, <2>1, HeldNone
    <2>3. locked'[n][d] = 0
      BY <1>3, <2>1 DEF Zero
    <2> QED BY <1>4, <2>1, <2>2, <2>3 DEF Slack
  <1> QED BY <1>1, <1>3, <1>4, <1>5 DEF WalletAdded, Slack

LEMMA LocksStep ==
  ASSUME TypeOK, TypeOK', OrderAccounting, [Next]_vars
  PROVE  Restart \/ ((SlackKept \/ WalletAdded \/ Fill) /\ (Save \/ disk' = disk))
  <1> DEFINE Goal == (SlackKept \/ WalletAdded \/ Fill) /\ (Save \/ disk' = disk)
  <1>1. ASSUME locked' = locked, orders' = orders, Len(wallets') = Len(wallets)
        PROVE  SlackKept
    BY <1>1 DEF SlackKept
  <1>2. ASSUME NEW u, CreateWallet(u) PROVE Goal
    BY <1>2, CreateLocks DEF CreateWallet
  <1>3. ASSUME NEW w, NEW d, NEW amount,
               DepositToWallet(w, d, amount) \/ WithdrawFromWallet(w, d, amount)
        PROVE  Goal
    BY <1>1, <1>3 DEF DepositToWallet, WithdrawFromWallet
  <1>4. ASSUME NEW u, NEW w, NEW tier, NEW sanctioned, SubmitKYC(u, w, tier, sanctioned)
        PROVE  Goal
    <2>1. wallets \in Seq(Wallet)
      BY TypeParts DEF MemoryOK
    <2>2. Len(wallets') = Len(wallets) /\ UNCHANGED <<locked, orders>> /\ Save
      BY <1>4, <2>1 DEF SubmitKYC
    <2> QED BY <1>1, <2>2
  <1>5. ASSUME NEW a, ApproveKYC(a) \/ RejectKYC(a) PROVE Goal
    <2>1. wallets \in Seq(Wallet)
      BY TypeParts DEF MemoryOK
    <2>2. Len(wallets') = Len(wallets) /\ UNCHANGED <<locked, orders>> /\ Save
      BY <1>5, <2>1 DEF ApproveKYC, RejectKYC
    <2> QED BY <1>1, <2>2
  <1>6. ASSUME NEW w \in DOMAIN wallets, NEW side \in Sides, NEW type \in OrderTypes,
               NEW offer \in Offers, PlaceOrder(w, side, type, offer[1], offer[2])
        PROVE  Goal
    <2>1. offer[1] \in Int /\ offer[2] \in Nat
      BY <1>6, OfferType
    <2>2. SlackKept
      BY <1>6, <2>1, PlaceLocks, Zenon
    <2> QED BY <1>6, <2>2 DEF PlaceOrder
  <1>7. CASE SkipOwn \/ NewDay \/ UNCHANGED vars
    BY <1>1, <1>7 DEF SkipOwn, NewDay, vars, persistent
  <1>8. CASE Fill
    BY <1>8 DEF Fill
  <1>9. CASE FinishOrder
    BY <1>9, FinishLocks DEF FinishOrder
  <1>10. ASSUME NEW o \in DOMAIN orders, NEW w \in DOMAIN wallets, CancelOrder(o, w)
         PROVE  Goal
    BY <1>10, CancelLocks DEF CancelOrder
  <1> QED BY <1>2, <1>3, <1>4, <1>5, <1>6, <1>7, <1>8, <1>9, <1>10 DEF Next, Operate

-----------------------------------------------------------------------------
(* Base locks, of the memory and of the file.                              *)

BaseMatched(ws, lk, os) == \A w \in 1 .. Len(ws) : Slack(Base, lk, os, w) = 0

BaseLocks ==
    BaseMatched(wallets, locked, orders) /\ BaseMatched(disk.wallets, disk.locked, disk.orders)

LEMMA BaseLocksStep ==
  TypeOK /\ TypeOK' /\ OrderAccounting /\ Books /\ BaseLocks /\ [Next]_vars => BaseLocks'
  <1> SUFFICES ASSUME TypeOK, TypeOK', OrderAccounting, Books, BaseLocks, [Next]_vars
               PROVE  BaseLocks'
    OBVIOUS
  <1>1. Base \in Denoms
    BY DEF Denoms
  <1>2. ASSUME SlackKept \/ WalletAdded \/ Fill
        PROVE  BaseMatched(wallets', locked', orders')
    <2>1. CASE SlackKept
      BY <1>1, <2>1 DEF SlackKept, BaseLocks, BaseMatched
    <2>2. CASE WalletAdded
      <3>1. 1 .. Len(wallets') = (1 .. Len(wallets)) \cup {Len(wallets) + 1}
        BY <2>2, Indices DEF WalletAdded
      <3> QED BY <1>1, <2>2, <3>1 DEF WalletAdded, BaseLocks, BaseMatched
    <2>3. CASE Fill
      <3>1. wallets' = wallets
        BY <2>3 DEF Fill
      <3> QED BY <2>3, <3>1, FillBaseLocks DEF BaseLocks, BaseMatched
    <2> QED BY <1>2, <2>1, <2>2, <2>3
  <1>3. CASE (SlackKept \/ WalletAdded \/ Fill) /\ (Save \/ disk' = disk)
    BY <1>2, <1>3 DEF BaseLocks, Save, Persisted
  <1>4. CASE Restart
    <2>1. PICK file \in {disk} \cup (IF TornWrites THEN {Blank} ELSE {}) :
             /\ wallets' = file.wallets /\ locked' = file.locked /\ orders' = file.orders
             /\ disk' = file
      BY <1>4 DEF Restart
    <2>2. BaseMatched(file.wallets, file.locked, file.orders)
      BY <2>1 DEF BaseLocks, Blank, BaseMatched
    <2> QED BY <2>1, <2>2 DEF BaseLocks
  <1> QED BY <1>3, <1>4, LocksStep

\* What a wallet has locked of a denomination is, but for its slack, what is
\* needed by its live orders of the side that locks this denomination.
LEMMA HeldByLive ==
  ASSUME TypeOK, NEW w, NEW d, NEW side \in Sides, d = LockDenom(side)
  PROVE  SumFunctionOnSet(IF side = "sell" THEN Remaining ELSE RemainingQuote,
                          LiveOrders(w, side)) = Held(d, orders, w)
  <1>1. orders \in Seq(Order) /\ DOMAIN orders = 1 .. Len(orders)
    BY TypeParts DEF MemoryOK
  <1>2. PICK f, g, S, T : /\ f = IF side = "sell" THEN Remaining ELSE RemainingQuote
                          /\ g = Shares(d, orders, w)
                          /\ S = LiveOrders(w, side) /\ T = 1 .. Len(orders)
    OBVIOUS
  <1>3. \A o \in T : orders[o] \in Order /\ orders[o].side \in Sides
    <2>1. \A o \in T : orders[o] \in Order
      BY <1>1, <1>2
    <2> QED BY <2>1 DEF Order
  <1>4. \A o \in T : o \in S <=>
           Live(orders[o]) /\ orders[o].wallet = w /\ LockDenom(orders[o].side) = d
    BY <1>1, <1>2, <1>3 DEF LiveOrders, LockDenom, Sides, Base, Quote
  <1>5. \A o \in S : f[o] = ReleaseAmount(orders[o])
    BY <1>1, <1>2 DEF LiveOrders, Remaining, RemainingQuote, ReleaseAmount, LockAmount, Sides
  <1>6. \A o \in T : g[o] = IF o \in S THEN f[o] ELSE 0
    BY <1>1, <1>2, <1>4, <1>5, ShareTypes DEF ShareOf
  <1>7. S \in SUBSET T /\ IsFiniteSet(T)
    BY <1>1, <1>2, ShareTypes DEF LiveOrders
  <1>8. \A o \in S : f[o] \in Int
    <2>1. \A o \in S : ReleaseAmount(orders[o]) \in Int
      BY <1>3, <1>7, ShareType
    <2> QED BY <1>5, <2>1
  <1>9. SumFunctionOnSet(f, S) = SumFunctionOnSet(g, T)
    BY <1>6, <1>7, <1>8, SumWhere
  <1> QED BY <1>2, <1>9 DEF Held

\* The base tokens a wallet has locked are what its live sell orders still
\* offer, in the middle of a match as well, after cancels and after restarts.
THEOREM BaseLocksExact == Spec => []BaseLockExact
  <1>1. Init => BaseLocks
    BY DEF Init, Blank, BaseLocks, BaseMatched
  <1>2. Spec => []BaseLocks
    BY <1>1, BaseLocksStep, TypeCorrect, OrdersAccounted, BooksInvariant, PTL DEF Spec
  <1>3. TypeOK /\ BaseLocks => BaseLockExact
    <2> SUFFICES ASSUME TypeOK, BaseLocks, NEW w \in DOMAIN wallets
                 PROVE  locked[w][Base] = SumFunctionOnSet(Remaining, LiveOrders(w, "sell"))
      BY DEF BaseLockExact
    <2>1. w \in 1 .. Len(wallets) /\ Slack(Base, locked, orders, w) = 0
      BY TypeParts DEF MemoryOK, BaseLocks, BaseMatched
    <2>2. locked[w][Base] \in Int /\ Held(Base, orders, w) \in Int
      BY <2>1, LockTypes DEF Denoms
    <2>3. locked[w][Base] = Held(Base, orders, w)
      BY <2>1, <2>2 DEF Slack
    <2>4. Base = LockDenom("sell") /\ "sell" \in Sides
      BY DEF LockDenom, Sides
    <2>5. SumFunctionOnSet(IF "sell" = "sell" THEN Remaining ELSE RemainingQuote,
                           LiveOrders(w, "sell")) = Held(Base, orders, w)
      BY <2>4, HeldByLive
    <2> QED BY <2>3, <2>5
  <1> QED BY <1>2, <1>3, TypeCorrect, PTL

-----------------------------------------------------------------------------
(* Quote locks.  A market order that buys pays more than the price it was  *)
(* locked at, so the invariant says of every order that it has one of the  *)
(* types that can be placed.                                               *)

QuoteCovered(ws, lk, os) == \A w \in 1 .. Len(ws) : Slack(Quote, lk, os, w) >= 0

Placeable(os) == \A o \in 1 .. Len(os) : os[o].type \in OrderTypes

QuoteLocks ==
    /\ Placeable(orders) /\ Placeable(disk.orders)
    /\ QuoteCovered(wallets, locked, orders)
    /\ QuoteCovered(disk.wallets, disk.locked, disk.orders)

LEMMA PlaceableStep ==
  ASSUME TypeOK, OrderAccounting, Placeable(orders), [Next]_vars
  PROVE  Restart \/ (Placeable(orders') /\ (Save \/ disk' = disk))
  <1>1. ASSUME TermsKept PROVE Placeable(orders')
    BY <1>1 DEF TermsKept, SameTerms, Placeable
  <1>2. ASSUME NEW w, NEW side, NEW price, NEW qty, NEW type \in OrderTypes,
               PlaceView(w, side, type, price, qty)
        PROVE  Placeable(orders')
    <2>1. orders'[Len(orders) + 1].type = type
      BY <1>2 DEF PlaceView
    <2> QED BY <1>2, <2>1 DEF PlaceView, Placeable
  <1> QED BY <1>1, <1>2, TermsStep

LEMMA QuoteLocksStep ==
  OrderTypes \subseteq {"limit"}
    => (TypeOK /\ TypeOK' /\ OrderAccounting /\ Books /\ QuoteLocks /\ [Next]_vars
          => QuoteLocks')
  <1> SUFFICES ASSUME OrderTypes \subseteq {"limit"}, TypeOK, TypeOK', OrderAccounting, Books,
                      QuoteLocks, [Next]_vars
               PROVE  QuoteLocks'
    OBVIOUS
  <1>1. Quote \in Denoms
    BY DEF Denoms
  <1>2. ASSUME SlackKept \/ WalletAdded \/ Fill
        PROVE  QuoteCovered(wallets', locked', orders')
    <2>1. CASE SlackKept
      BY <1>1, <2>1 DEF SlackKept, QuoteLocks, QuoteCovered
    <2>2. CASE WalletAdded
      <3>1. 1 .. Len(wallets') = (1 .. Len(wallets)) \cup {Len(wallets) + 1}
        BY <2>2, Indices DEF WalletAdded
      <3> QED BY <1>1, <2>2, <3>1 DEF WalletAdded, QuoteLocks, QuoteCovered
    <2>3. CASE Fill
      <3>1. wallets' = wallets
        BY <2>3 DEF Fill
      <3>2. \A o \in 1 .. Len(orders) : orders[o].type = "limit"
        BY DEF QuoteLocks, Placeable
      <3>3. ASSUME NEW w \in 1 .. Len(wallets)
            PROVE  Slack(Quote, locked', orders', w) >= 0
        <4>1. Slack(Quote, locked', orders', w) >= Slack(Quote, locked, orders, w)
          BY <2>3, <3>2, FillQuoteLocks
        <4>2. Slack(Quote, locked, orders, w) >= 0
          BY DEF QuoteLocks, QuoteCovered
        <4>3. Slack(Quote, locked, orders, w) \in Int
          BY <1>1, LockTypes DEF Slack
        <4>4. Slack(Quote, locked', orders', w) \in Int
          <5>1. /\ locked' \in Seq(Row) /\ orders' \in Seq(Order)
                /\ w \in 1 .. Len(locked')
            BY <3>1, TypeParts DEF MemoryOK, Row
          <5>2. locked'[w] \in Row
            BY <5>1
          <5>3. locked'[w][Quote] \in Int /\ Held(Quote, orders', w) \in Int
            BY <1>1, <5>1, <5>2, ShareTypes DEF Row
          <5> QED BY <5>3 DEF Slack
        <4> QED BY <4>1, <4>2, <4>3, <4>4
      <3> QED BY <3>1, <3>3 DEF QuoteCovered
    <2> QED BY <1>2, <2>1, <2>2, <2>3
  <1>3. Restart \/ Placeable(orders')
    BY PlaceableStep DEF QuoteLocks
  <1>4. CASE Restart
    <2>1. PICK file \in {disk} \cup (IF TornWrites THEN {Blank} ELSE {}) :
             /\ wallets' = file.wallets /\ locked' = file.locked /\ orders' = file.orders
             /\ disk' = file
      BY <1>4 DEF Restart
    <2>2. Placeable(file.orders) /\ QuoteCovered(file.wallets, file.locked, file.orders)
      BY <2>1 DEF QuoteLocks, Blank, QuoteCovered, Placeable
    <2> QED BY <2>1, <2>2 DEF QuoteLocks
  <1>5. CASE /\ Placeable(orders') /\ QuoteCovered(wallets', locked', orders')
             /\ Save \/ disk' = disk
    BY <1>5 DEF QuoteLocks, Save, Persisted
  <1> QED BY <1>2, <1>3, <1>4, <1>5, LocksStep

\* With limit orders, the quote tokens a wallet has locked always suffice for
\* what cancelling its live buy orders would release, although the lock, the
\* fills and the release are each rounded down by themselves.
THEOREM QuoteLocksCover ==
  ASSUME OrderTypes \subseteq {"limit"}
  PROVE  Spec => []QuoteLockCovers
  <1>1. Init => QuoteLocks
    BY DEF Init, Blank, QuoteLocks, QuoteCovered, Placeable
  <1>2. TypeOK /\ TypeOK' /\ OrderAccounting /\ Books /\ QuoteLocks /\ [Next]_vars
           => QuoteLocks'
    BY QuoteLocksStep
  <1>3. Spec => []QuoteLocks
    BY <1>1, <1>2, TypeCorrect, OrdersAccounted, BooksInvariant, PTL DEF Spec
  <1>4. TypeOK /\ QuoteLocks => QuoteLockCovers
    <2> SUFFICES ASSUME TypeOK, QuoteLocks, NEW w \in DOMAIN wallets
                 PROVE  locked[w][Quote]
                           >= SumFunctionOnSet(RemainingQuote, LiveOrders(w, "buy"))
      BY DEF QuoteLockCovers
    <2>1. w \in 1 .. Len(wallets) /\ Slack(Quote, locked, orders, w) >= 0
      BY TypeParts DEF MemoryOK, QuoteLocks, QuoteCovered
    <2>2. locked[w][Quote] \in Int /\ Held(Quote, orders, w) \in Int
      BY <2>1, LockTypes DEF Denoms
    <2>3. locked[w][Quote] >= Held(Quote, orders, w)
      BY <2>1, <2>2 DEF Slack
    <2>4. Quote = LockDenom("buy") /\ "buy" \in Sides
      BY DEF LockDenom, Sides
    <2>5. SumFunctionOnSet(IF "buy" = "sell" THEN Remaining ELSE RemainingQuote,
                           LiveOrders(w, "buy")) = Held(Quote, orders, w)
      BY <2>4, HeldByLive
    <2> QED BY <2>3, <2>5
  <1> QED BY <1>3, <1>4, TypeCorrect, PTL

-----------------------------------------------------------------------------
(* The market.  While an order is matched, memory and file differ by what  *)
(* the match has done so far: the order t as it was placed, and the        *)
(* quantities f that it has taken from each order of the file it may trade *)
(* with.  Nothing else has moved, and f is what a market would have        *)
(* allocated if t had asked for that much.                                 *)

MakersIn(os, t) == { m \in 1 .. Len(os) : AtomicMarket!Crosses(t, os[m]) }

Gains(os, t, f, w, d) ==
    [m \in MakersIn(os, t) |-> AtomicMarket!Gain(t, os[m], f[m], w, d)]

Releases(os, t, f, w, d) ==
    [m \in MakersIn(os, t) |-> AtomicMarket!Release(t, os[m], f[m], w, d)]

\* The order as it was placed, and what has become of it.
TakerPartway(t, f) ==
    /\ t \in Order /\ t.filled = 0 /\ t.remaining = t.qty /\ t.status = "open"
    /\ taker = Len(disk.orders) + 1 /\ Len(orders) = taker
    /\ SumFunction(f) <= t.qty
    /\ orders[taker] = [t EXCEPT !.filled = SumFunction(f),
                                 !.remaining = t.qty - SumFunction(f)]

\* Orders it may not trade with are untouched, and it leaves something of a
\* maker only when it has all it asked for.
MakersPartway(os, t, f) ==
    /\ f \in [MakersIn(os, t) -> Nat]
    /\ \A m \in 1 .. Len(os) :
          orders[m] = IF m \in MakersIn(os, t) THEN AtomicMarket!Filled(os[m], f[m])
                      ELSE os[m]
    /\ \A m \in MakersIn(os, t) :
          /\ f[m] <= os[m].remaining
          /\ f[m] # 0 /\ f[m] # os[m].remaining => SumFunction(f) = t.qty

\* It has traded at no price while a better one had something left.
BestFirst(os, t, f) ==
    \A m, n \in MakersIn(os, t) :
        f[m] # 0 /\ f[n] # os[n].remaining
           => ~Before(os[n].side, os[n].price, os[m].price)

\* The wallets have what the trades brought, and locked what t locks and the
\* trades did not release; t could lock it.
WalletsPartway(os, t, f) ==
    /\ Len(disk.bal) = Len(bal) /\ Len(disk.locked) = Len(locked)
    /\ \A w \in 1 .. Len(bal), d \in Denoms :
          bal[w][d] = disk.bal[w][d] + SumFunction(Gains(os, t, f, w, d))
    /\ \A w \in 1 .. Len(locked), d \in Denoms :
          locked[w][d] = disk.locked[w][d]
             + (IF w = t.wallet THEN AtomicMarket!LockOf(t, d) ELSE 0)
             - SumFunction(Releases(os, t, f, w, d))
    /\ \A d \in Denoms : AtomicMarket!LockOf(t, d) > 0 =>
          AtomicMarket!LockOf(t, d) <= disk.bal[t.wallet][d] - disk.locked[t.wallet][d]

Partway(t, f) ==
    /\ TakerPartway(t, f)
    /\ MakersPartway(disk.orders, t, f)
    /\ BestFirst(disk.orders, t, f)
    /\ WalletsPartway(disk.orders, t, f)

Saved == disk.bal = bal /\ disk.locked = locked /\ disk.orders = orders

MarketInv == IF Idle THEN Saved ELSE \E t, f : Partway(t, f)

\* What the market computes is what the keeper computes.
LEMMA MarketAmounts ==
  /\ \A price, qty : AtomicMarket!Value(price, qty) = QuoteAmount(price, qty)
  /\ \A bps, price, qty : AtomicMarket!FeeOn(bps, price, qty) = Fee(bps, price, qty)
  /\ \A o : AtomicMarket!Resting(o) <=> Live(o)
  /\ \A side, p, q : AtomicMarket!Better(side, p, q) = Before(side, p, q)
  BY DEF AtomicMarket!Value, AtomicMarket!FeeOn, AtomicMarket!Whole, AtomicMarket!Resting,
         AtomicMarket!Better, Quotient, QuoteAmount, Fee, Live, Before

LEMMA MarketLock ==
  ASSUME NEW o, o.side \in Sides, NEW d \in Denoms
  PROVE  AtomicMarket!LockOf(o, d) = IF d = LockDenom(o.side) THEN ReleaseAmount(o) ELSE 0
  <1>1. Base # Quote /\ (d = Base \/ d = Quote) /\ (o.side = "buy" \/ o.side = "sell")
    BY DEF Base, Quote, Denoms, Sides
  <1>2. AtomicMarket!Value(o.price, o.remaining) = QuoteAmount(o.price, o.remaining)
    BY MarketAmounts
  <1> QED BY <1>1, <1>2 DEF AtomicMarket!LockOf, LockDenom, ReleaseAmount, LockAmount

LEMMA PartLock ==
  ASSUME NEW s \in Sides, NEW price, NEW qty, NEW d \in Denoms
  PROVE  AtomicMarket!LockOf([side |-> s, price |-> price, remaining |-> qty], d)
            = IF d = LockDenom(s) THEN LockAmount(s, price, qty) ELSE 0
  <1>1. PICK r : r = [side |-> s, price |-> price, remaining |-> qty]
    OBVIOUS
  <1>2. r.side = s /\ r.price = price /\ r.remaining = qty
    BY <1>1
  <1>3. AtomicMarket!LockOf(r, d) = IF d = LockDenom(s) THEN ReleaseAmount(r) ELSE 0
    BY <1>2, MarketLock
  <1> QED BY <1>1, <1>2, <1>3 DEF ReleaseAmount

LEMMA FilledNone ==
  ASSUME NEW o \in Order, o.remaining # 0
  PROVE  AtomicMarket!Filled(o, 0) = o
  <1>1. AtomicMarket!Status(o, 0) = o.status
    BY DEF AtomicMarket!Status
  <1>2. o.filled \in Nat /\ o.remaining \in Nat
    BY DEF Order
  <1>3. o.filled + 0 = o.filled /\ o.remaining - 0 = o.remaining
    BY <1>2
  <1>4. AtomicMarket!Filled(o, 0)
           = [o EXCEPT !.filled = o.filled, !.remaining = o.remaining, !.status = o.status]
    BY <1>1, <1>3 DEF AtomicMarket!Filled
  <1> QED BY <1>4 DEF Order

\* The fields that a fill changes, and that it keeps the others.
LEMMA FilledFields ==
  ASSUME NEW o \in Order, NEW q \in Nat
  PROVE  LET p == AtomicMarket!Filled(o, q) IN
         /\ SameTerms(p, o) /\ p.qty = o.qty
         /\ p.filled = o.filled + q /\ p.remaining = o.remaining - q
         /\ p.status = AtomicMarket!Status(o, q)
  BY DEF AtomicMarket!Filled, Order, SameTerms

\* A fill of nothing brings and releases nothing, and any other whole amounts.
LEMMA NothingGained ==
  ASSUME NEW t, NEW o \in Order, t.side \in Sides, NEW w, NEW d \in Denoms
  PROVE  /\ AtomicMarket!Gain(t, o, 0, w, d) = 0
         /\ AtomicMarket!Release(t, o, 0, w, d) = 0
  <1>1. o.price \in Int /\ PriceScale \in Nat \ {0} /\ FeeScale \in Nat \ {0}
        /\ MakerFee \in Nat /\ TakerFee \in Nat
    BY ExchangeAssumption DEF Order
  <1>2. QuoteAmount(o.price, 0) = 0
    BY <1>1, QuoteOfNone
  <1>3. Fee(MakerFee, o.price, 0) = 0 /\ Fee(TakerFee, o.price, 0) = 0
    <2>1. 0 * o.price = 0 /\ 0 * MakerFee = 0 /\ 0 * TakerFee = 0
      BY <1>1
    <2>2. PriceScale * FeeScale \in Nat \ {0}
      BY <1>1
    <2>3. 0 \div (PriceScale * FeeScale) = 0
      BY <2>2
    <2>4. Quotient(0, PriceScale * FeeScale) = 0
      BY <2>2, <2>3, QuotientType
    <2> QED BY <2>1, <2>4 DEF Fee
  <1>4. AtomicMarket!Gain(t, o, 0, w, d) = 0
    BY <1>2, <1>3, MarketAmounts DEF AtomicMarket!Gain
  <1>5. PICK s \in Sides : s = IF w = t.wallet THEN t.side ELSE o.side
    BY DEF Order
  <1>6. AtomicMarket!LockOf([side |-> s, price |-> o.price, remaining |-> 0], d) = 0
    BY <1>2, PartLock DEF LockAmount
  <1> QED BY <1>4, <1>5, <1>6 DEF AtomicMarket!Release

LEMMA WholeAmounts ==
  ASSUME NEW t, NEW o \in Order, NEW q \in Nat, t.side \in Sides, NEW w, NEW d \in Denoms
  PROVE  /\ AtomicMarket!Gain(t, o, q, w, d) \in Int
         /\ AtomicMarket!Release(t, o, q, w, d) \in Int
  <1>1. o.price \in Int /\ MakerFee \in Nat /\ TakerFee \in Nat
    BY ExchangeAssumption DEF Order
  <1>2. PICK a \in Int, mf \in Int, tf \in Int :
           /\ a = AtomicMarket!Value(o.price, q)
           /\ mf = AtomicMarket!FeeOn(MakerFee, o.price, q)
           /\ tf = AtomicMarket!FeeOn(TakerFee, o.price, q)
    BY <1>1, QuoteAmountType, FeeType, MarketAmounts
  <1>3. AtomicMarket!Gain(t, o, q, w, d) \in Int
    BY <1>2 DEF AtomicMarket!Gain
  <1>4. PICK s \in Sides : s = IF w = t.wallet THEN t.side ELSE o.side
    BY DEF Order
  <1>5. AtomicMarket!LockOf([side |-> s, price |-> o.price, remaining |-> q], d) \in Int
    <2>1. QuoteAmount(o.price, q) \in Int
      BY <1>1, QuoteAmountType
    <2> QED BY <2>1, PartLock DEF LockAmount
  <1> QED BY <1>3, <1>4, <1>5 DEF AtomicMarket!Release

\* The makers of an order, and the sums over them, in terms of what the match
\* has taken before and after it takes q from maker m.
LEMMA MakersFinite ==
  ASSUME NEW os \in Seq(Order), NEW t
  PROVE  /\ IsFiniteSet(MakersIn(os, t))
         /\ \A m \in MakersIn(os, t) : m \in 1 .. Len(os) /\ os[m] \in Order
                                       /\ os[m].remaining \in Nat
  <1>1. Len(os) \in Nat /\ MakersIn(os, t) \subseteq 1 .. Len(os)
    BY DEF MakersIn
  <1>2. IsFiniteSet(MakersIn(os, t))
    BY <1>1, Indices, FS_Subset
  <1>3. \A m \in 1 .. Len(os) : os[m] \in Order
    OBVIOUS
  <1> QED BY <1>1, <1>2, <1>3 DEF Order

LEMMA PartwayTypes ==
  ASSUME TypeOK, NEW t, NEW f, Partway(t, f), NEW os, os = disk.orders
  PROVE  /\ os \in Seq(Order) /\ Len(os) \in Nat /\ taker \notin 1 .. Len(os) /\ ~Idle
         /\ 1 .. Len(orders) = (1 .. Len(os)) \cup {taker}
         /\ IsFiniteSet(MakersIn(os, t)) /\ t.side \in Sides
         /\ \A m \in MakersIn(os, t) : f[m] \in Nat
         /\ SumFunction(f) = SumFunctionOnSet(f, MakersIn(os, t))
         /\ SumFunction(f) \in Nat /\ t.qty \in Nat
         /\ SameTerms(orders[taker], t)
         /\ orders[taker].remaining = t.qty - SumFunction(f)
         /\ orders[taker].filled = SumFunction(f)
  <1>1. os \in Seq(Order) /\ Len(os) \in Nat /\ IsFiniteSet(MakersIn(os, t))
    BY TypeParts, MakersFinite DEF FileOK
  <1>2. taker = Len(os) + 1 /\ Len(orders) = Len(os) + 1 /\ t \in Order
    BY DEF Partway, TakerPartway
  <1>3. taker \notin 1 .. Len(os) /\ ~Idle
        /\ 1 .. Len(orders) = (1 .. Len(os)) \cup {taker}
    BY <1>1, <1>2, Indices DEF Idle
  <1>4. /\ \A m \in MakersIn(os, t) : f[m] \in Nat
        /\ SumFunction(f) = SumFunctionOnSet(f, MakersIn(os, t))
    <2>1. f \in [MakersIn(os, t) -> Nat]
      BY DEF Partway, MakersPartway
    <2> QED BY <2>1 DEF SumFunction
  <1>5. SumFunction(f) \in Nat
    BY <1>1, <1>4, SumNat
  <1>6. orders[taker] = [t EXCEPT !.filled = SumFunction(f),
                                  !.remaining = t.qty - SumFunction(f)]
    BY DEF Partway, TakerPartway
  <1>7. PICK s : s = SumFunction(f)
    OBVIOUS
  <1>8. /\ SameTerms(orders[taker], t) /\ orders[taker].remaining = t.qty - s
        /\ orders[taker].filled = s
    BY <1>2, <1>6, <1>7 DEF Order, SameTerms
  <1>9. t.side \in Sides /\ t.qty \in Nat
    BY <1>2 DEF Order
  <1> QED BY <1>1, <1>3, <1>4, <1>5, <1>7, <1>8, <1>9

\* A maker of the market is as live in memory as what it has left, and on the
\* terms it has in the file.
LEMMA MakersLeft ==
  ASSUME TypeOK, NEW t, NEW f, Partway(t, f), NEW m \in MakersIn(disk.orders, t)
  PROVE  LET o == disk.orders[m] IN
         /\ o \in Order /\ m \in 1 .. Len(disk.orders) /\ f[m] \in Nat
         /\ Live(o) /\ o.side = Opposite(t.side) /\ o.wallet # t.wallet
         /\ ~Before(o.side, t.price, o.price)
         /\ SameTerms(orders[m], o) /\ orders[m].remaining = o.remaining - f[m]
         /\ f[m] <= o.remaining
         /\ f[m] # o.remaining => Live(orders[m])
  <1>1. PICK o : o = disk.orders[m]
    OBVIOUS
  <1>2. o \in Order /\ m \in 1 .. Len(disk.orders) /\ f[m] \in Nat /\ t.side \in Sides
    BY <1>1, PartwayTypes, MakersFinite
  <1>3. AtomicMarket!Crosses(t, o)
    BY <1>1 DEF MakersIn
  <1>4. /\ Live(o) /\ o.side = Opposite(t.side) /\ o.wallet # t.wallet
        /\ ~Before(o.side, t.price, o.price)
    BY <1>2, <1>3, MarketAmounts DEF AtomicMarket!Crosses, Opposite, Sides, Order
  <1>5. orders[m] = AtomicMarket!Filled(o, f[m]) /\ f[m] <= o.remaining
    BY <1>1, <1>2 DEF Partway, MakersPartway
  <1>6. /\ SameTerms(orders[m], o) /\ orders[m].remaining = o.remaining - f[m]
        /\ orders[m].status = AtomicMarket!Status(o, f[m])
    BY <1>2, <1>5, FilledFields
  <1>7. f[m] # o.remaining => Live(orders[m])
    BY <1>4, <1>6 DEF AtomicMarket!Status, Live
  <1> QED BY <1>1, <1>2, <1>4, <1>5, <1>6, <1>7

\* The maker of a fill: the market allows it, and it has not traded yet.
LEMMA FillMakerFree ==
  ASSUME TypeOK, OrderAccounting, Books, Fill, orders[taker].type = "limit",
         NEW t, NEW f, Partway(t, f), NEW m, m = OppositeBook[idx]
  PROVE  /\ m \in MakersIn(disk.orders, t) /\ f[m] = 0 /\ orders[m] = disk.orders[m]
         /\ orders[m].remaining \in Nat \ {0} /\ SumFunction(f) # t.qty
  <1>1. PICK os : os = disk.orders
    OBVIOUS
  <1>2. PICK opp : opp = Opposite(orders[taker].side)
    OBVIOUS
  <1>3. /\ opp # orders[taker].side /\ m \in LiveOf(orders, opp) /\ m # taker
        /\ m \in 1 .. Len(orders)
    BY <1>2, MakerInBook, FillFacts DEF Fill
  <1>4. /\ m \in 1 .. Len(os) /\ SameTerms(orders[taker], t)
        /\ orders[taker].remaining = t.qty - SumFunction(f) /\ t.qty \in Nat
        /\ os \in Seq(Order)
    BY <1>1, <1>3, PartwayTypes
  <1>5. SumFunction(f) # t.qty
    BY <1>4, TakerWants DEF Fill
  <1>6. orders[m].remaining \in Nat \ {0}
    <2>1. Accounted(orders[m]) /\ orders[m] \in Order
      BY <1>3, AccountingParts, TypeParts DEF MemoryAccounted, MemoryOK
    <2>2. orders[m].status = "open" \/ orders[m].status = "partial"
      BY <1>3 DEF LiveOf, Live
    <2> QED BY <2>1, <2>2 DEF Accounted, Order
  <1>7. /\ orders[m].wallet # orders[taker].wallet /\ orders[m].side = opp /\ Live(orders[m])
        /\ ~Before(opp, orders[taker].price, orders[m].price)
    BY <1>2, <1>3 DEF Fill, Matching, LiveOf
  <1>8. m \in MakersIn(os, t)
    <2>1. SUFFICES ASSUME m \notin MakersIn(os, t) PROVE FALSE
      OBVIOUS
    <2>2. orders[m] = os[m]
      BY <1>1, <1>4, <2>1 DEF Partway, MakersPartway
    <2>3. AtomicMarket!Crosses(t, os[m])
      BY <1>3, <1>4, <1>7, <2>2, MarketAmounts DEF AtomicMarket!Crosses, SameTerms
    <2> QED BY <1>4, <2>1, <2>3 DEF MakersIn
  <1>9. f[m] = 0
    <2>1. f[m] \in Nat /\ orders[m].remaining = os[m].remaining - f[m]
      BY <1>1, <1>8, MakersLeft
    <2>2. os[m].remaining \in Nat
      BY <1>4, <1>8, MakersFinite
    <2>3. f[m] # os[m].remaining
      BY <1>6, <2>1, <2>2
    <2> QED BY <1>1, <1>5, <1>8, <2>3 DEF Partway, MakersPartway
  <1>10. orders[m] = os[m]
    <2>1. os[m] \in Order /\ orders[m] = AtomicMarket!Filled(os[m], 0)
      BY <1>1, <1>4, <1>8, <1>9 DEF Partway, MakersPartway
    <2>2. orders[m].remaining = os[m].remaining - 0 /\ os[m].remaining \in Nat
      BY <1>1, <1>8, <1>9, MakersLeft, <2>1 DEF Order
    <2> QED BY <1>6, <2>1, <2>2, FilledNone
  <1> QED BY <1>1, <1>5, <1>6, <1>8, <1>9, <1>10

LEMMA TakenMore ==
  ASSUME NEW M, IsFiniteSet(M), NEW f, NEW g, NEW m \in M, f[m] = 0,
         DOMAIN f = M, DOMAIN g = M, \A n \in M : f[n] \in Int /\ g[n] \in Int,
         \A n \in M : n # m => g[n] = f[n]
  PROVE  SumFunction(g) = SumFunction(f) + g[m]
  <1>1. SumFunctionOnSet(g, M) = SumFunctionOnSet(f, M) - f[m] + g[m]
    BY SumChange
  <1>2. SumFunctionOnSet(f, M) \in Int /\ g[m] \in Int
    BY SumInt
  <1>3. SumFunctionOnSet(g, M) = SumFunctionOnSet(f, M) + g[m]
    BY <1>1, <1>2
  <1> QED BY <1>3 DEF SumFunction

\* What the fill of m takes: q, and all that t or m had left.
FillTakes(t, f, m, q, g) ==
    /\ q = FillQty /\ q \in Nat \ {0} /\ g = [f EXCEPT ![m] = q]
    /\ m \in MakersIn(disk.orders, t) /\ f[m] = 0 /\ g[m] = q
    /\ g \in [MakersIn(disk.orders, t) -> Nat]
    /\ \A n \in MakersIn(disk.orders, t) : n # m => g[n] = f[n]
    /\ SumFunction(g) = SumFunction(f) + q /\ SumFunction(g) <= t.qty
    /\ q <= disk.orders[m].remaining
    /\ q # disk.orders[m].remaining => SumFunction(g) = t.qty
    /\ SumFunction(f) # t.qty
    /\ orders[m] = disk.orders[m]

LEMMA FillTaken ==
  ASSUME TypeOK, OrderAccounting, Books, Fill, orders[taker].type = "limit",
         NEW t, NEW f, Partway(t, f), NEW m, m = OppositeBook[idx]
  PROVE  \E q, g : FillTakes(t, f, m, q, g)
  <1>1. PICK M, os : os = disk.orders /\ M = MakersIn(os, t)
    OBVIOUS
  <1>2. /\ m \in M /\ f[m] = 0 /\ orders[m] = os[m] /\ orders[m].remaining \in Nat \ {0}
        /\ SumFunction(f) # t.qty
    BY <1>1, FillMakerFree
  <1>3. /\ IsFiniteSet(M) /\ f \in [M -> Nat] /\ SumFunction(f) \in Nat /\ t.qty \in Nat
        /\ orders[taker].remaining = t.qty - SumFunction(f)
    BY <1>1, PartwayTypes DEF Partway, MakersPartway
  <1>4. PICK s \in Nat, x \in Nat \ {0}, y \in Nat \ {0} :
           s = SumFunction(f) /\ x = orders[m].remaining /\ y = orders[taker].remaining
    BY <1>2, <1>3, TakerWants DEF Fill
  <1>5. PICK q \in Nat \ {0} : q = FillQty /\ q = IF x < y THEN x ELSE y
    <2>1. FillQty = IF x < y THEN x ELSE y
      BY <1>4 DEF FillQty
    <2>2. (IF x < y THEN x ELSE y) \in Nat \ {0}
      OBVIOUS
    <2> QED BY <2>1, <2>2
  <1>6. PICK g : g = [f EXCEPT ![m] = q]
    OBVIOUS
  <1>7. /\ g \in [M -> Nat] /\ g[m] = q /\ \A n \in M : n # m => g[n] = f[n]
        /\ SumFunction(g) = s + q
    <2>1. m \in M /\ f[m] = 0 /\ DOMAIN f = M /\ \A n \in M : f[n] \in Int
      BY <1>2, <1>3
    <2>2. /\ g \in [M -> Nat] /\ DOMAIN g = M /\ g[m] = q
          /\ \A n \in M : n # m => g[n] = f[n]
      BY <1>3, <1>5, <1>6, <2>1
    <2>3. \A n \in M : f[n] \in Int /\ g[n] \in Int
      BY <2>1, <2>2
    <2>4. SumFunction(g) = SumFunction(f) + g[m]
      BY <1>3, <2>1, <2>2, <2>3, TakenMore
    <2> QED BY <1>4, <2>2, <2>4
  <1>8. q <= x /\ s + q <= t.qty /\ (q # x => s + q = t.qty)
    BY <1>3, <1>4, <1>5
  <1>9. FillTakes(t, f, m, q, g)
    BY <1>1, <1>2, <1>4, <1>5, <1>6, <1>7, <1>8 DEF FillTakes
  <1> QED BY <1>9

LEMMA FillTaker ==
  ASSUME TypeOK, Fill, NEW t, NEW f, Partway(t, f), NEW m, NEW q, NEW g,
         FillTakes(t, f, m, q, g)
  PROVE  TakerPartway(t, g)'
  <1>1. /\ taker' = taker /\ disk' = disk /\ Len(orders') = Len(orders)
        /\ orders'[taker] = FillOrder(orders[taker], q) /\ taker \in 1 .. Len(orders)
    BY FillOrders, FillFacts DEF Fill, FillTakes
  <1>2. PICK s \in Nat, n \in Nat : s = SumFunction(f) /\ n = t.qty
    BY PartwayTypes
  <1>3. t \in Order /\ orders[taker] = [t EXCEPT !.filled = s, !.remaining = n - s]
    BY <1>2 DEF Partway, TakerPartway
  <1>4. q \in Nat /\ SumFunction(g) = s + q /\ SumFunction(g) <= t.qty
    BY <1>2 DEF FillTakes
  <1>5. (n - s) - q = n - (s + q)
    BY <1>2, <1>4
  <1>6. orders'[taker] = [t EXCEPT !.filled = s + q, !.remaining = n - (s + q)]
    BY <1>1, <1>3, <1>5 DEF FillOrder, Order
  <1> QED BY <1>1, <1>2, <1>4, <1>6 DEF Partway, TakerPartway

LEMMA FillMakers ==
  ASSUME TypeOK, Fill, NEW t, NEW f, Partway(t, f), NEW m, m = OppositeBook[idx], NEW q, NEW g,
         FillTakes(t, f, m, q, g)
  PROVE  MakersPartway(disk.orders, t, g)'
  <1>1. PICK M, os : os = disk.orders /\ M = MakersIn(os, t)
    OBVIOUS
  <1>2. disk' = disk /\ \A o \in 1 .. Len(orders) :
           orders'[o] = IF o = taker THEN FillOrder(orders[o], q)
                        ELSE IF o = m THEN FillMaker(orders[o], q) ELSE orders[o]
    <2>1. disk' = disk /\ q = FillQty
      BY DEF Fill, FillTakes
    <2> QED BY <2>1, FillOrders
  <1>3. /\ os \in Seq(Order) /\ taker \notin 1 .. Len(os)
        /\ 1 .. Len(orders) = (1 .. Len(os)) \cup {taker}
    BY <1>1, PartwayTypes
  <1>4. \A o \in 1 .. Len(os) : orders'[o] = IF o = m THEN FillMaker(orders[o], q) ELSE orders[o]
    BY <1>2, <1>3
  <1>5. m \in M /\ m \in 1 .. Len(os) /\ os[m] \in Order /\ orders[m] = os[m]
        /\ q \in Nat \ {0}
    BY <1>1, <1>3, MakersFinite DEF FillTakes
  <1>6. FillMaker(os[m], q) = AtomicMarket!Filled(os[m], q)
    <2>1. AtomicMarket!Status(os[m], q) = IF os[m].remaining = q THEN "filled" ELSE "partial"
      BY <1>5 DEF AtomicMarket!Status
    <2> QED BY <1>5, <2>1 DEF FillMaker, FillOrder, AtomicMarket!Filled, Order
  <1>7. \A o \in 1 .. Len(os) :
           orders'[o] = IF o \in M THEN AtomicMarket!Filled(os[o], g[o]) ELSE os[o]
    <2> SUFFICES ASSUME NEW o \in 1 .. Len(os)
                 PROVE  orders'[o] = IF o \in M THEN AtomicMarket!Filled(os[o], g[o]) ELSE os[o]
      OBVIOUS
    <2>1. CASE o = m
      BY <1>1, <1>4, <1>5, <1>6, <2>1 DEF FillTakes
    <2>2. CASE o # m
      <3>1. orders[o] = IF o \in M THEN AtomicMarket!Filled(os[o], f[o]) ELSE os[o]
        BY <1>1 DEF Partway, MakersPartway
      <3>2. o \in M => g[o] = f[o]
        BY <1>1, <2>2 DEF FillTakes
      <3> QED BY <1>4, <2>2, <3>1, <3>2
    <2> QED BY <2>1, <2>2
  <1>8. \A o \in M : /\ g[o] <= os[o].remaining
                     /\ g[o] # 0 /\ g[o] # os[o].remaining => SumFunction(g) = t.qty
    BY <1>1 DEF Partway, MakersPartway, FillTakes
  <1>9. g \in [M -> Nat]
    BY <1>1 DEF FillTakes
  <1> QED BY <1>1, <1>2, <1>7, <1>8, <1>9 DEF MakersPartway

\* The book is sorted and lists every maker with something left, so the one
\* the loop has come to has the best price of them.
LEMMA FillBestFirst ==
  ASSUME TypeOK, OrderAccounting, Books, Prices, Placeable(orders), OrderTypes \subseteq {"limit"},
         Fill, NEW t, NEW f, Partway(t, f), NEW m, m = OppositeBook[idx], NEW q, NEW g,
         FillTakes(t, f, m, q, g)
  PROVE  BestFirst(disk.orders, t, g)'
  <1>1. PICK M, os : os = disk.orders /\ M = MakersIn(os, t)
    OBVIOUS
  <1>2. PICK opp : opp = Opposite(t.side)
    OBVIOUS
  <1>3. /\ SameTerms(orders[taker], t) /\ t.side \in Sides /\ opp \in Sides
        /\ taker \notin 1 .. Len(os) /\ 1 .. Len(orders) = (1 .. Len(os)) \cup {taker}
    BY <1>1, <1>2, PartwayTypes DEF Opposite, Sides
  <1>4. m \in M /\ orders[m] = os[m] /\ disk' = disk
    BY <1>1 DEF FillTakes, Fill
  <1>5. ASSUME NEW n \in M, f[n] # os[n].remaining
        PROVE  os[n].side = opp /\ ~Before(opp, os[n].price, os[m].price)
    <2>1. /\ n \in 1 .. Len(os) /\ os[n].side = opp /\ os[n].wallet # t.wallet
          /\ SameTerms(orders[n], os[n]) /\ Live(orders[n])
      BY <1>1, <1>2, <1>5, MakersLeft
    <2>2. n \in LiveOf(orders, opp) \ {taker}
      BY <1>3, <2>1 DEF LiveOf, SameTerms
    <2>3. orders[n].type = "limit"
      BY <1>3, <2>1 DEF Placeable
    <2>4. n \in Listed(book[opp])
      BY <1>3, <2>2, <2>3 DEF Books, BookOK
    <2>5. PICK i \in 1 .. Len(book[opp]) : book[opp][i] = n
      BY <2>4 DEF Listed
    <2>6. i \in DOMAIN book[opp]
      BY <1>3, BookTypes
    <2>7. LastTrade'.taker = taker /\ LastTrade'.price = orders[m].price
      BY FillTrades DEF TradeOf
    <2>8. orders[n].wallet # orders[taker].wallet
      BY <1>3, <2>1 DEF SameTerms
    <2>9. opp = Opposite(orders[taker].side)
      BY <1>2, <1>3 DEF SameTerms
    <2>10. ~Before(opp, orders[n].price, orders[m].price)
      BY FillBest, <2>5, <2>6, <2>7, <2>8, <2>9 DEF BestPrice
    <2> QED BY <1>4, <2>1, <2>10 DEF SameTerms
  <1>6. ASSUME NEW a \in M, NEW n \in M, g[a] # 0, g[n] # os[n].remaining
        PROVE  ~Before(os[n].side, os[n].price, os[a].price)
    <2>1. f[n] # os[n].remaining
      <3>1. CASE n = m
        <4>1. f[m] = 0 /\ q \in Nat \ {0} /\ q <= os[m].remaining
          BY <1>1 DEF FillTakes
        <4>2. os[m].remaining \in Nat
          BY <1>1, <1>4, PartwayTypes, MakersFinite
        <4> QED BY <3>1, <4>1, <4>2
      <3>2. CASE n # m
        BY <1>1, <1>6, <3>2 DEF FillTakes
      <3> QED BY <3>1, <3>2
    <2>2. CASE a = m
      BY <1>5, <2>1, <2>2
    <2>3. CASE a # m
      <3>1. f[a] # 0
        BY <1>1, <1>6, <2>3 DEF FillTakes
      <3> QED BY <1>1, <2>1, <3>1 DEF Partway, BestFirst
    <2> QED BY <2>2, <2>3
  <1> QED BY <1>1, <1>4, <1>6 DEF BestFirst

\* The buyer and the seller when t trades q with maker o, what they pay, and
\* what that does to wallet w as the market sees it.
TradeBetween(t, o, q, b, s, a, bFee, sFee) ==
    /\ t.side \in Sides /\ o.side = Opposite(t.side) /\ o.wallet # t.wallet
    /\ o.price \in Int /\ q \in Nat /\ a \in Int /\ a = QuoteAmount(o.price, q)
    /\ b = IF t.side = "buy" THEN t.wallet ELSE o.wallet
    /\ s = IF t.side = "buy" THEN o.wallet ELSE t.wallet
    /\ bFee = Fee(IF t.side = "buy" THEN TakerFee ELSE MakerFee, o.price, q)
    /\ sFee = Fee(IF t.side = "buy" THEN MakerFee ELSE TakerFee, o.price, q)

TradeMoved(t, o, q, b, s, a, bFee, sFee, w) ==
    /\ AtomicMarket!Gain(t, o, q, w, Base) = IF w = b THEN q ELSE IF w = s THEN -q ELSE 0
    /\ AtomicMarket!Gain(t, o, q, w, Quote)
          = IF w = b THEN -a - bFee ELSE IF w = s THEN a - sFee ELSE 0
    /\ AtomicMarket!Release(t, o, q, w, Base) = IF w = s THEN q ELSE 0
    /\ AtomicMarket!Release(t, o, q, w, Quote) = IF w = b THEN a ELSE 0

LEMMA TradeMoves ==
  ASSUME NEW t, NEW o, NEW q, NEW b, NEW s, NEW a, NEW bFee, NEW sFee, NEW w,
         TradeBetween(t, o, q, b, s, a, bFee, sFee)
  PROVE  TradeMoved(t, o, q, b, s, a, bFee, sFee, w)
  <1>0. /\ t.side \in Sides /\ o.side = Opposite(t.side) /\ o.wallet # t.wallet
        /\ o.price \in Int /\ q \in Nat /\ a \in Int /\ a = QuoteAmount(o.price, q)
        /\ b = IF t.side = "buy" THEN t.wallet ELSE o.wallet
        /\ s = IF t.side = "buy" THEN o.wallet ELSE t.wallet
        /\ bFee = Fee(IF t.side = "buy" THEN TakerFee ELSE MakerFee, o.price, q)
        /\ sFee = Fee(IF t.side = "buy" THEN MakerFee ELSE TakerFee, o.price, q)
    BY DEF TradeBetween
  <1> USE <1>0
  <1>1. Base # Quote /\ Base \in Denoms /\ Quote \in Denoms
    BY DEF Base, Quote, Denoms
  <1>2. /\ o.side \in Sides /\ (t.side = "buy" \/ t.side = "sell")
        /\ t.side = "buy" => o.side = "sell"
        /\ t.side = "sell" => o.side = "buy"
    BY DEF Opposite, Sides
  <1>3. PICK mf, tf : /\ mf = Fee(MakerFee, o.price, q) /\ tf = Fee(TakerFee, o.price, q)
                      /\ mf \in Int /\ tf \in Int
    BY FeeType, ExchangeAssumption
  <1>4. PICK v : v = AtomicMarket!Value(o.price, q) /\ v = a
    BY MarketAmounts
  <1>5. /\ AtomicMarket!FeeOn(MakerFee, o.price, q) = mf
        /\ AtomicMarket!FeeOn(TakerFee, o.price, q) = tf
    BY <1>3, MarketAmounts
  <1>6. PICK u, x : u = t.wallet /\ x = o.wallet /\ u # x
    OBVIOUS
  <1>7. AtomicMarket!Gain(t, o, q, w, Base) = IF w = b THEN q ELSE IF w = s THEN -q ELSE 0
    <2>1. PICK side : side = IF w = u THEN t.side ELSE o.side
      OBVIOUS
    <2>2. AtomicMarket!Gain(t, o, q, w, Base)
             = IF w # u /\ w # x THEN 0 ELSE (IF side = "buy" THEN q ELSE -q) - 0
      BY <1>1, <1>6, <2>1 DEF AtomicMarket!Gain
    <2>3. AtomicMarket!Gain(t, o, q, w, Base)
             = IF w # u /\ w # x THEN 0 ELSE IF side = "buy" THEN q ELSE -q
      BY <2>2
    <2>4. CASE t.side = "buy"
      BY <1>2, <1>6, <2>1, <2>3, <2>4
    <2>5. CASE t.side = "sell"
      BY <1>2, <1>6, <2>1, <2>3, <2>5
    <2> QED BY <1>2, <2>4, <2>5
  <1>8. AtomicMarket!Gain(t, o, q, w, Quote)
           = IF w = b THEN -a - bFee ELSE IF w = s THEN a - sFee ELSE 0
    <2>1. PICK side, fee : /\ side = IF w = u THEN t.side ELSE o.side
                           /\ fee = IF w = u THEN tf ELSE mf
      OBVIOUS
    <2>2. AtomicMarket!Gain(t, o, q, w, Quote)
             = IF w # u /\ w # x THEN 0
               ELSE (IF side = "buy" THEN -a ELSE -(-a)) - fee
      BY <1>1, <1>4, <1>5, <1>6, <2>1 DEF AtomicMarket!Gain
    <2>3. AtomicMarket!Gain(t, o, q, w, Quote)
             = IF w # u /\ w # x THEN 0 ELSE IF side = "buy" THEN -a - fee ELSE a - fee
      <3>1. -(-a) = a
        OBVIOUS
      <3> QED BY <2>2, <3>1
    <2>4. CASE t.side = "buy"
      BY <1>2, <1>3, <1>6, <2>1, <2>3, <2>4
    <2>5. CASE t.side = "sell"
      BY <1>2, <1>3, <1>6, <2>1, <2>3, <2>5
    <2> QED BY <1>2, <2>4, <2>5
  <1>9. LockDenom("buy") = Quote /\ LockDenom("sell") = Base
        /\ LockAmount("buy", o.price, q) = a /\ LockAmount("sell", o.price, q) = q
    BY DEF LockDenom, LockAmount
  <1>10. PICK r \in Sides : r = IF w = t.wallet THEN t.side ELSE o.side
    BY <1>2
  <1>11. ASSUME NEW d \in Denoms
         PROVE  AtomicMarket!Release(t, o, q, w, d)
                  = IF w \notin {t.wallet, o.wallet} THEN 0
                    ELSE IF d = LockDenom(r) THEN LockAmount(r, o.price, q) ELSE 0
    <2>1. AtomicMarket!LockOf([side |-> r, price |-> o.price, remaining |-> q], d)
            = IF d = LockDenom(r) THEN LockAmount(r, o.price, q) ELSE 0
      BY PartLock
    <2> QED BY <1>10, <2>1 DEF AtomicMarket!Release
  <1>12. AtomicMarket!Release(t, o, q, w, Base) = IF w = s THEN q ELSE 0
    <2>1. AtomicMarket!Release(t, o, q, w, Base)
             = IF w # u /\ w # x THEN 0
               ELSE IF Base = LockDenom(r) THEN LockAmount(r, o.price, q) ELSE 0
      BY <1>1, <1>6, <1>11
    <2>2. CASE t.side = "buy"
      BY <1>1, <1>2, <1>6, <1>9, <1>10, <2>1, <2>2
    <2>3. CASE t.side = "sell"
      BY <1>1, <1>2, <1>6, <1>9, <1>10, <2>1, <2>3
    <2> QED BY <1>2, <2>2, <2>3
  <1>13. AtomicMarket!Release(t, o, q, w, Quote) = IF w = b THEN a ELSE 0
    <2>1. AtomicMarket!Release(t, o, q, w, Quote)
             = IF w # u /\ w # x THEN 0
               ELSE IF Quote = LockDenom(r) THEN LockAmount(r, o.price, q) ELSE 0
      BY <1>1, <1>6, <1>11
    <2>2. CASE t.side = "buy"
      BY <1>1, <1>2, <1>6, <1>9, <1>10, <2>1, <2>2
    <2>3. CASE t.side = "sell"
      BY <1>1, <1>2, <1>6, <1>9, <1>10, <2>1, <2>3
    <2> QED BY <1>2, <2>2, <2>3
  <1> QED BY <1>7, <1>8, <1>12, <1>13 DEF TradeMoved

\* Wallets and their amounts, in memory and in the file.
LEMMA RowTypes ==
  ASSUME TypeOK
  PROVE  /\ bal \in Seq(Row) /\ locked \in Seq(Row)
         /\ disk.bal \in Seq(Row) /\ disk.locked \in Seq(Row)
         /\ Len(locked) = Len(bal) /\ Len(bal) = Len(wallets) /\ Len(bal) \in Nat
         /\ \A w \in 1 .. Len(bal), d \in Denoms : bal[w][d] \in Int /\ locked[w][d] \in Int
         /\ \A w \in 1 .. Len(disk.bal), d \in Denoms : disk.bal[w][d] \in Int
         /\ \A w \in 1 .. Len(disk.locked), d \in Denoms : disk.locked[w][d] \in Int
  <1>1. /\ bal \in Seq(Row) /\ locked \in Seq(Row)
        /\ disk.bal \in Seq(Row) /\ disk.locked \in Seq(Row)
        /\ Len(locked) = Len(bal) /\ Len(bal) = Len(wallets) /\ Len(bal) \in Nat
    BY TypeParts DEF MemoryOK, FileOK, Row
  <1>2. ASSUME NEW F \in Seq(Row) PROVE \A w \in 1 .. Len(F), d \in Denoms : F[w][d] \in Int
    <2>1. \A w \in 1 .. Len(F) : F[w] \in Row
      OBVIOUS
    <2> QED BY <2>1 DEF Row
  <1>3. \A w \in 1 .. Len(bal), d \in Denoms : bal[w][d] \in Int
    BY <1>1, <1>2
  <1>4. \A w \in 1 .. Len(bal), d \in Denoms : locked[w][d] \in Int
    BY <1>1, <1>2
  <1>5. \A w \in 1 .. Len(disk.bal), d \in Denoms : disk.bal[w][d] \in Int
    BY <1>1, <1>2
  <1>6. \A w \in 1 .. Len(disk.locked), d \in Denoms : disk.locked[w][d] \in Int
    BY <1>1, <1>2
  <1> QED BY <1>1, <1>3, <1>4, <1>5, <1>6

\* What the keeper's settlement does is what the market says the trade does.
LEMMA FillMoves ==
  ASSUME TypeOK, Fill, NEW t, NEW f, Partway(t, f), NEW m, m = OppositeBook[idx], NEW q, NEW g,
         FillTakes(t, f, m, q, g)
  PROVE  /\ Len(bal') = Len(bal) /\ Len(locked') = Len(locked)
         /\ \A w \in 1 .. Len(bal), d \in Denoms :
               /\ bal'[w][d] = bal[w][d] + AtomicMarket!Gain(t, disk.orders[m], q, w, d)
               /\ locked'[w][d] = locked[w][d] - AtomicMarket!Release(t, disk.orders[m], q, w, d)
  <1>0. PICK o : o = disk.orders[m]
    OBVIOUS
  <1>1. PICK b, s, bFee, sFee : FillSettled(b, s, bFee, sFee) /\ bFee \in Int /\ sFee \in Int
    BY FillSettles
  <1>2. /\ o.side = Opposite(t.side) /\ o.wallet # t.wallet /\ o \in Order /\ o = orders[m]
        /\ q = FillQty /\ q \in Nat /\ SameTerms(orders[taker], t) /\ t.side \in Sides
    BY <1>0, MakersLeft, PartwayTypes DEF FillTakes
  <1>3. o.price \in Int
    BY <1>2 DEF Order
  <1>4. PICK a \in Int : a = QuoteAmount(o.price, q) /\ a = FillAmount
    BY <1>2, <1>3, QuoteAmountType DEF FillAmount
  <1>5. Buying <=> t.side = "buy"
    BY <1>2 DEF Buying, SameTerms
  <1>6. /\ b = IF t.side = "buy" THEN t.wallet ELSE o.wallet
        /\ s = IF t.side = "buy" THEN o.wallet ELSE t.wallet
    BY <1>1, <1>2, <1>5 DEF FillSettled, BuyOrder, SellOrder, SameTerms
  <1>7. /\ bFee = Fee(IF t.side = "buy" THEN TakerFee ELSE MakerFee, o.price, q)
        /\ sFee = Fee(IF t.side = "buy" THEN MakerFee ELSE TakerFee, o.price, q)
    <2>1. PICK tr : tr = TradeOf(m, q)
      OBVIOUS
    <2>2. tr.makerFee = Fee(MakerFee, o.price, q) /\ tr.takerFee = Fee(TakerFee, o.price, q)
      BY <1>2, <2>1 DEF TradeOf
    <2>3. /\ bFee = IF Buying THEN tr.takerFee ELSE tr.makerFee
          /\ sFee = IF Buying THEN tr.makerFee ELSE tr.takerFee
      BY <1>1, <1>2, <2>1 DEF FillSettled
    <2> QED BY <1>5, <2>2, <2>3
  <1>8. /\ BalancesSettled(bal', b, s, q, a, bFee, sFee) /\ LocksSettled(locked', b, s, q, a)
        /\ b # s
    BY <1>1, <1>2, <1>4 DEF FillSettled
  <1>9. Len(bal') = Len(bal) /\ Len(locked') = Len(locked) /\ Len(locked) = Len(bal)
    BY <1>8, RowTypes DEF BalancesSettled, LocksSettled
  <1>11. TradeBetween(t, o, q, b, s, a, bFee, sFee)
    BY <1>2, <1>3, <1>4, <1>6, <1>7 DEF TradeBetween
  <1>10. ASSUME NEW w, w \in 1 .. Len(bal), NEW d \in Denoms
         PROVE  /\ bal'[w][d] = bal[w][d] + AtomicMarket!Gain(t, o, q, w, d)
                /\ locked'[w][d] = locked[w][d] - AtomicMarket!Release(t, o, q, w, d)
    <2>1. TradeMoved(t, o, q, b, s, a, bFee, sFee, w)
      BY <1>11, TradeMoves
    <2>2. PICK x \in Int, y \in Int : x = bal[w][d] /\ y = locked[w][d]
      BY <1>10, RowTypes
    <2>3. CASE d = Base
      <3>1. bal'[w][d] = IF w = b THEN x + q ELSE IF w = s THEN x - q ELSE x
        BY <1>8, <1>10, <2>2, <2>3 DEF BalancesSettled
      <3>2. locked'[w][d] = IF w = s THEN y - q ELSE y
        BY <1>8, <1>9, <1>10, <2>2, <2>3 DEF LocksSettled
      <3>3. bal'[w][d] = x + AtomicMarket!Gain(t, o, q, w, Base)
        BY <1>2, <2>1, <3>1 DEF TradeMoved
      <3>4. locked'[w][d] = y - AtomicMarket!Release(t, o, q, w, Base)
        BY <1>2, <2>1, <3>2 DEF TradeMoved
      <3> QED BY <2>2, <2>3, <3>3, <3>4
    <2>4. CASE d = Quote
      <3>1. bal'[w][d] = IF w = b THEN x - a - bFee ELSE IF w = s THEN x + a - sFee ELSE x
        BY <1>8, <1>10, <2>2, <2>4 DEF BalancesSettled
      <3>2. locked'[w][d] = IF w = b THEN y - a ELSE y
        BY <1>8, <1>9, <1>10, <2>2, <2>4 DEF LocksSettled
      <3>3. bal'[w][d] = x + AtomicMarket!Gain(t, o, q, w, Quote)
        BY <1>1, <2>1, <3>1 DEF TradeMoved
      <3>4. locked'[w][d] = y - AtomicMarket!Release(t, o, q, w, Quote)
        BY <2>1, <3>2 DEF TradeMoved
      <3> QED BY <2>2, <2>4, <3>3, <3>4
    <2> QED BY <2>3, <2>4 DEF Denoms
  <1> QED BY <1>0, <1>9, <1>10

\* The sums over the makers, as one more of them trades.
LEMMA GainedMore ==
  ASSUME TypeOK, NEW t, NEW f, Partway(t, f), NEW m, NEW q, NEW g, FillTakes(t, f, m, q, g),
         NEW os, os = disk.orders, NEW w, NEW d \in Denoms
  PROVE  /\ SumFunction(Gains(os, t, f, w, d)) \in Int
         /\ SumFunction(Gains(os, t, g, w, d))
               = SumFunction(Gains(os, t, f, w, d)) + AtomicMarket!Gain(t, os[m], q, w, d)
         /\ SumFunction(Releases(os, t, f, w, d)) \in Int
         /\ SumFunction(Releases(os, t, g, w, d))
               = SumFunction(Releases(os, t, f, w, d)) + AtomicMarket!Release(t, os[m], q, w, d)
  <1>1. PICK M : M = MakersIn(os, t)
    OBVIOUS
  <1>2. /\ IsFiniteSet(M) /\ t.side \in Sides
        /\ \A n \in M : os[n] \in Order
    BY <1>1, PartwayTypes, MakersFinite
  <1>3. /\ m \in M /\ f[m] = 0 /\ g[m] = q /\ \A n \in M : f[n] \in Nat /\ g[n] \in Nat
        /\ \A n \in M : n # m => g[n] = f[n]
    <2>1. f \in [M -> Nat] /\ g \in [M -> Nat]
      BY <1>1 DEF Partway, MakersPartway, FillTakes
    <2>2. m \in M /\ f[m] = 0 /\ g[m] = q /\ \A n \in M : n # m => g[n] = f[n]
      BY <1>1 DEF FillTakes
    <2> QED BY <2>1, <2>2
  <1>4. \A n \in M : /\ AtomicMarket!Gain(t, os[n], f[n], w, d) \in Int
                     /\ AtomicMarket!Gain(t, os[n], g[n], w, d) \in Int
                     /\ AtomicMarket!Release(t, os[n], f[n], w, d) \in Int
                     /\ AtomicMarket!Release(t, os[n], g[n], w, d) \in Int
    BY <1>2, <1>3, WholeAmounts
  <1>5. /\ AtomicMarket!Gain(t, os[m], f[m], w, d) = 0
        /\ AtomicMarket!Release(t, os[m], f[m], w, d) = 0
    BY <1>2, <1>3, NothingGained
  <1>6. ASSUME NEW F, NEW G, DOMAIN F = M, DOMAIN G = M, F[m] = 0,
               \A n \in M : F[n] \in Int /\ G[n] \in Int,
               \A n \in M : n # m => G[n] = F[n]
        PROVE  SumFunction(F) \in Int /\ SumFunction(G) = SumFunction(F) + G[m]
    <2>1. SumFunction(F) \in Int
      BY <1>2, <1>6, SumInt DEF SumFunction
    <2> QED BY <1>2, <1>3, <1>6, <2>1, TakenMore
  <1>7. PICK F, G : F = Gains(os, t, f, w, d) /\ G = Gains(os, t, g, w, d)
    OBVIOUS
  <1>8. /\ DOMAIN F = M /\ DOMAIN G = M
        /\ \A n \in M : F[n] = AtomicMarket!Gain(t, os[n], f[n], w, d)
        /\ \A n \in M : G[n] = AtomicMarket!Gain(t, os[n], g[n], w, d)
    BY <1>1, <1>7 DEF Gains
  <1>9. SumFunction(F) \in Int /\ SumFunction(G) = SumFunction(F) + G[m]
    <2>1. F[m] = 0 /\ \A n \in M : F[n] \in Int /\ G[n] \in Int
      BY <1>3, <1>4, <1>5, <1>8
    <2>2. \A n \in M : n # m => G[n] = F[n]
      BY <1>3, <1>8
    <2> QED BY <1>6, <1>8, <2>1, <2>2
  <1>10. PICK H, K : H = Releases(os, t, f, w, d) /\ K = Releases(os, t, g, w, d)
    OBVIOUS
  <1>11. /\ DOMAIN H = M /\ DOMAIN K = M
         /\ \A n \in M : H[n] = AtomicMarket!Release(t, os[n], f[n], w, d)
         /\ \A n \in M : K[n] = AtomicMarket!Release(t, os[n], g[n], w, d)
    BY <1>1, <1>10 DEF Releases
  <1>12. SumFunction(H) \in Int /\ SumFunction(K) = SumFunction(H) + K[m]
    <2>1. H[m] = 0 /\ \A n \in M : H[n] \in Int /\ K[n] \in Int
      BY <1>3, <1>4, <1>5, <1>11
    <2>2. \A n \in M : n # m => K[n] = H[n]
      BY <1>3, <1>11
    <2> QED BY <1>6, <1>11, <2>1, <2>2
  <1> QED BY <1>3, <1>7, <1>8, <1>9, <1>10, <1>11, <1>12

LEMMA FillWallets ==
  ASSUME TypeOK, Fill, NEW t, NEW f, Partway(t, f), NEW m, m = OppositeBook[idx], NEW q, NEW g,
         FillTakes(t, f, m, q, g)
  PROVE  WalletsPartway(disk.orders, t, g)'
  <1>1. PICK os, o : os = disk.orders /\ o = os[m]
    OBVIOUS
  <1>2. WalletsPartway(os, t, f) /\ disk' = disk
    BY <1>1 DEF Partway, Fill
  <1>3. /\ Len(bal') = Len(bal) /\ Len(locked') = Len(locked)
        /\ \A w \in 1 .. Len(bal), d \in Denoms :
               /\ bal'[w][d] = bal[w][d] + AtomicMarket!Gain(t, o, q, w, d)
               /\ locked'[w][d] = locked[w][d] - AtomicMarket!Release(t, o, q, w, d)
    BY <1>1, FillMoves
  <1>4. ASSUME NEW w \in 1 .. Len(bal), NEW d \in Denoms
        PROVE  bal'[w][d] = disk.bal[w][d] + SumFunction(Gains(os, t, g, w, d))
    <2>1. bal[w][d] = disk.bal[w][d] + SumFunction(Gains(os, t, f, w, d))
      BY <1>2 DEF WalletsPartway
    <2>2. disk.bal[w][d] \in Int
      BY <1>2, RowTypes DEF WalletsPartway
    <2>3. /\ SumFunction(Gains(os, t, f, w, d)) \in Int
          /\ SumFunction(Gains(os, t, g, w, d))
               = SumFunction(Gains(os, t, f, w, d)) + AtomicMarket!Gain(t, o, q, w, d)
      BY <1>1, GainedMore
    <2>4. AtomicMarket!Gain(t, o, q, w, d) \in Int
      BY <1>1, MakersLeft, PartwayTypes, WholeAmounts DEF FillTakes
    <2>5. bal'[w][d] = bal[w][d] + AtomicMarket!Gain(t, o, q, w, d)
      BY <1>3
    <2> QED BY <2>1, <2>2, <2>3, <2>4, <2>5
  <1>5. ASSUME NEW w \in 1 .. Len(locked), NEW d \in Denoms
        PROVE  locked'[w][d] = disk.locked[w][d]
                  + (IF w = t.wallet THEN AtomicMarket!LockOf(t, d) ELSE 0)
                  - SumFunction(Releases(os, t, g, w, d))
    <2>1. PICK l : l = IF w = t.wallet THEN AtomicMarket!LockOf(t, d) ELSE 0
      OBVIOUS
    <2>2. locked[w][d] = disk.locked[w][d] + l - SumFunction(Releases(os, t, f, w, d))
      BY <1>2, <2>1 DEF WalletsPartway
    <2>3. disk.locked[w][d] \in Int /\ w \in 1 .. Len(bal)
      BY <1>2, RowTypes DEF WalletsPartway
    <2>4. l \in Int
      <3>1. t \in Order /\ t.side \in Sides
        BY PartwayTypes DEF Partway, TakerPartway
      <3>2. AtomicMarket!LockOf(t, d) \in Int
        <4>1. ReleaseAmount(t) \in Int
          BY <3>1, ShareType
        <4> QED BY <3>1, <4>1, MarketLock
      <3> QED BY <2>1, <3>2
    <2>5. /\ SumFunction(Releases(os, t, f, w, d)) \in Int
          /\ SumFunction(Releases(os, t, g, w, d))
               = SumFunction(Releases(os, t, f, w, d)) + AtomicMarket!Release(t, o, q, w, d)
      BY <1>1, GainedMore
    <2>6. AtomicMarket!Release(t, o, q, w, d) \in Int
      BY <1>1, MakersLeft, PartwayTypes, WholeAmounts DEF FillTakes
    <2>7. locked'[w][d] = locked[w][d] - AtomicMarket!Release(t, o, q, w, d)
      BY <1>3, <2>3
    <2> QED BY <2>1, <2>2, <2>3, <2>4, <2>5, <2>6, <2>7
  <1> QED BY <1>1, <1>2, <1>3, <1>4, <1>5 DEF WalletsPartway

LEMMA FillPartway ==
  ASSUME TypeOK, OrderAccounting, Books, Prices, Placeable(orders), OrderTypes \subseteq {"limit"},
         Fill, NEW t, NEW f, Partway(t, f)
  PROVE  \E g : Partway(t, g)'
  <1>1. orders[taker].type = "limit"
    BY FillFacts DEF Placeable, Fill
  <1>2. PICK m : m = OppositeBook[idx]
    OBVIOUS
  <1>3. PICK q, g : FillTakes(t, f, m, q, g)
    BY <1>1, <1>2, FillTaken
  <1>4. TakerPartway(t, g)'
    BY <1>3, FillTaker
  <1>5. MakersPartway(disk.orders, t, g)'
    BY <1>2, <1>3, FillMakers
  <1>6. BestFirst(disk.orders, t, g)'
    BY <1>2, <1>3, FillBestFirst
  <1>7. WalletsPartway(disk.orders, t, g)'
    BY <1>2, <1>3, FillWallets
  <1>8. Partway(t, g)'
    BY <1>4, <1>5, <1>6, <1>7 DEF Partway
  <1> QED BY <1>8

\* An order that has just been placed has taken nothing yet.
LEMMA NothingTaken ==
  ASSUME NEW os \in Seq(Order), \A o \in 1 .. Len(os) : Accounted(os[o]), NEW t,
         t.side \in Sides, NEW f, f = [m \in MakersIn(os, t) |-> 0]
  PROVE  /\ f \in [MakersIn(os, t) -> Nat] /\ SumFunction(f) = 0
         /\ \A m \in MakersIn(os, t) :
               f[m] = 0 /\ 0 <= os[m].remaining /\ AtomicMarket!Filled(os[m], 0) = os[m]
         /\ \A w : \A d \in Denoms : /\ SumFunction(Gains(os, t, f, w, d)) = 0
                                 /\ SumFunction(Releases(os, t, f, w, d)) = 0
  <1>1. PICK M : M = MakersIn(os, t)
    OBVIOUS
  <1>2. IsFiniteSet(M) /\ \A m \in M : m \in 1 .. Len(os) /\ os[m] \in Order /\ Live(os[m])
    <2>1. \A m \in M : Live(os[m])
      BY <1>1, MarketAmounts DEF MakersIn, AtomicMarket!Crosses
    <2> QED BY <1>1, <2>1, MakersFinite
  <1>3. f \in [M -> Nat] /\ DOMAIN f = M /\ \A m \in M : f[m] = 0
    BY <1>1
  <1>4. SumFunction(f) = 0
    BY <1>2, <1>3, SumZero DEF SumFunction
  <1>5. ASSUME NEW m \in M
        PROVE  0 <= os[m].remaining /\ AtomicMarket!Filled(os[m], 0) = os[m]
    <2>1. os[m] \in Order /\ Accounted(os[m]) /\ Live(os[m])
      BY <1>2
    <2>2. os[m].remaining \in Nat \ {0}
      BY <2>1 DEF Accounted, Live, Order
    <2> QED BY <2>1, <2>2, FilledNone
  <1>6. ASSUME NEW w, NEW d \in Denoms
        PROVE  /\ SumFunction(Gains(os, t, f, w, d)) = 0
               /\ SumFunction(Releases(os, t, f, w, d)) = 0
    <2>1. PICK F, G : F = Gains(os, t, f, w, d) /\ G = Releases(os, t, f, w, d)
      OBVIOUS
    <2>2. /\ DOMAIN F = M /\ DOMAIN G = M
          /\ \A m \in M : F[m] = AtomicMarket!Gain(t, os[m], f[m], w, d)
          /\ \A m \in M : G[m] = AtomicMarket!Release(t, os[m], f[m], w, d)
      BY <1>1, <2>1 DEF Gains, Releases
    <2>3. \A m \in M : F[m] = 0 /\ G[m] = 0
      BY <1>2, <1>3, <2>2, NothingGained
    <2>4. SumFunction(F) = 0 /\ SumFunction(G) = 0
      BY <1>2, <2>2, <2>3, SumZero DEF SumFunction
    <2> QED BY <2>1, <2>4
  <1> QED BY <1>1, <1>3, <1>4, <1>5, <1>6

\* The order of a PlaceOrder that is to be matched.
Placed(t, w) ==
    /\ t \in Order /\ t.filled = 0 /\ t.remaining = t.qty /\ t.status = "open"
    /\ t.wallet = w /\ w \in 1 .. Len(wallets)
    /\ taker = 0 /\ taker' = Len(orders) + 1 /\ Len(orders') = taker'
    /\ \A o \in 1 .. Len(orders) : orders'[o] = orders[o]
    /\ orders'[taker'] = t
    /\ bal' = bal /\ disk' = disk
    /\ locked' = [locked EXCEPT ![w][LockDenom(t.side)] = @ + ReleaseAmount(t)]
    /\ ReleaseAmount(t) <= bal[w][LockDenom(t.side)] - locked[w][LockDenom(t.side)]

LEMMA PlacedOrder ==
  ASSUME TypeOK, TypeOK', NEW w \in DOMAIN wallets, NEW side \in Sides, NEW type,
         NEW price \in Int, NEW qty \in Nat, PlaceOrder(w, side, type, price, qty)
  PROVE  \E t : Placed(t, w)
  <1>1. /\ w \in 1 .. Len(wallets) /\ Len(orders) \in Nat
        /\ orders \in Seq(Order) /\ orders' \in Seq(Order)
    BY TypeParts DEF MemoryOK
  <1>2. PICK t : t = orders'[Len(orders) + 1]
    OBVIOUS
  <1>3. /\ Len(orders') = Len(orders) + 1 /\ taker = 0 /\ taker' = Len(orders) + 1
        /\ \A o \in 1 .. Len(orders) : orders'[o] = orders[o]
        /\ t = [wallet |-> w, side |-> side, type |-> type, price |-> price, qty |-> qty,
                filled |-> 0, remaining |-> qty, status |-> "open"]
    BY <1>2, PlaceViews DEF PlaceView
  <1>4. t \in Order
    <2>1. Len(orders) + 1 \in 1 .. Len(orders')
      BY <1>1, PlaceViews DEF PlaceView
    <2> QED BY <1>1, <1>2, <2>1
  <1>5. /\ t.filled = 0 /\ t.remaining = t.qty /\ t.status = "open" /\ t.wallet = w
        /\ t.side = side /\ ReleaseAmount(t) = LockAmount(side, price, qty)
    BY <1>3 DEF ReleaseAmount
  <1>6. /\ bal' = bal /\ disk' = disk
        /\ locked' = [locked EXCEPT ![w][LockDenom(t.side)] = @ + ReleaseAmount(t)]
        /\ ReleaseAmount(t) <= bal[w][LockDenom(t.side)] - locked[w][LockDenom(t.side)]
    BY <1>5 DEF PlaceOrder, Available
  <1>7. Placed(t, w)
    BY <1>1, <1>2, <1>3, <1>4, <1>5, <1>6 DEF Placed
  <1> QED BY <1>7

LEMMA PlacePartway ==
  ASSUME TypeOK, OrderAccounting, Saved, NEW w, NEW t, Placed(t, w)
  PROVE  \E f : Partway(t, f)'
  <1>1. PICK os : os = orders
    OBVIOUS
  <1>2. PICK M, f : M = MakersIn(os, t) /\ f = [m \in MakersIn(os, t) |-> 0]
    OBVIOUS
  <1>3. os \in Seq(Order) /\ Len(os) \in Nat /\ \A o \in 1 .. Len(os) : Accounted(os[o])
    <2>1. os \in Seq(Order) /\ taker = 0
      BY <1>1, TypeParts DEF MemoryOK, Placed
    <2>2. \A o \in 1 .. Len(os) : o # 0
      BY <2>1
    <2> QED BY <1>1, <2>1, <2>2, AccountingParts DEF MemoryAccounted
  <1>4. t \in Order /\ t.side \in Sides /\ t.qty \in Nat /\ w = t.wallet
    BY DEF Placed, Order
  <1>5. /\ f \in [M -> Nat] /\ SumFunction(f) = 0
        /\ \A m \in M : f[m] = 0 /\ 0 <= os[m].remaining /\ AtomicMarket!Filled(os[m], 0) = os[m]
        /\ \A v : \A d \in Denoms : /\ SumFunction(Gains(os, t, f, v, d)) = 0
                                /\ SumFunction(Releases(os, t, f, v, d)) = 0
    BY <1>2, <1>3, <1>4, NothingTaken
  <1>6. disk'.orders = os /\ disk'.bal = disk.bal /\ disk'.locked = disk.locked
    BY <1>1 DEF Placed, Saved
  <1>7. TakerPartway(t, f)'
    <2>1. /\ taker' = Len(os) + 1 /\ Len(orders') = taker' /\ orders'[taker'] = t
      BY <1>1 DEF Placed
    <2>2. t.filled = 0 /\ t.remaining = t.qty /\ t.status = "open"
      BY DEF Placed
    <2>3. [t EXCEPT !.filled = 0, !.remaining = t.qty - 0] = t
      <3>1. t.qty - 0 = t.qty
        BY <1>4
      <3> QED BY <1>4, <2>2, <3>1 DEF Order
    <2>4. 0 <= t.qty
      BY <1>4
    <2> QED BY <1>4, <1>5, <1>6, <2>1, <2>2, <2>3, <2>4 DEF TakerPartway
  <1>8. MakersPartway(disk.orders, t, f)'
    <2>1. \A o \in 1 .. Len(os) : orders'[o] = os[o]
      BY <1>1 DEF Placed
    <2> QED BY <1>2, <1>5, <1>6, <2>1 DEF MakersPartway
  <1>9. BestFirst(disk.orders, t, f)'
    BY <1>2, <1>5, <1>6 DEF BestFirst
  <1>10. WalletsPartway(disk.orders, t, f)'
    <2>1. /\ bal' = bal /\ disk.bal = bal /\ disk.locked = locked
          /\ locked' = [locked EXCEPT ![w][LockDenom(t.side)] = @ + ReleaseAmount(t)]
          /\ ReleaseAmount(t) <= bal[w][LockDenom(t.side)] - locked[w][LockDenom(t.side)]
          /\ w \in 1 .. Len(wallets)
      BY DEF Placed, Saved
    <2>2. PICK e \in Denoms, a \in Int : e = LockDenom(t.side) /\ a = ReleaseAmount(t)
      BY <1>4, ShareType
    <2>3. PICK y \in Int : y = locked[w][e] + a
      BY <2>1, <2>2, LockTypes
    <2>4. /\ Len(locked') = Len(locked)
          /\ \A v \in 1 .. Len(locked), d \in Denoms :
                locked'[v][d] = IF v = w /\ d = e THEN y ELSE locked[v][d]
      <3>1. locked' = [locked EXCEPT ![w][e] = y]
        BY <2>1, <2>2, <2>3
      <3>2. locked \in Seq(Row) /\ w \in 1 .. Len(locked)
        BY <2>1, LockTypes
      <3> QED BY <3>1, <3>2, EntryAt
    <2>5. ASSUME NEW d \in Denoms
          PROVE  AtomicMarket!LockOf(t, d) = IF d = e THEN a ELSE 0
      BY <1>4, <2>2, MarketLock
    <2>6. ASSUME NEW v, v \in 1 .. Len(locked), NEW d \in Denoms
          PROVE  locked'[v][d] = locked[v][d]
                    + (IF v = t.wallet THEN AtomicMarket!LockOf(t, d) ELSE 0) - 0
      <3>1. PICK z \in Int : z = locked[v][d]
        BY <2>6, LockTypes
      <3>2. locked'[v][d] = IF v = w /\ d = e THEN y ELSE z
        BY <2>4, <2>6, <3>1
      <3>3. CASE v = w /\ d = e
        <4>1. y = z + a
          BY <2>3, <3>1, <3>3
        <4>2. AtomicMarket!LockOf(t, d) = a
          BY <2>5, <3>3
        <4>3. z + a = z + a - 0
          OBVIOUS
        <4> QED BY <1>4, <3>1, <3>2, <3>3, <4>1, <4>2, <4>3
      <3>4. CASE ~(v = w /\ d = e)
        <4>1. (IF v = t.wallet THEN AtomicMarket!LockOf(t, d) ELSE 0) = 0
          BY <1>4, <2>5, <3>4
        <4>2. z = z + 0 - 0
          OBVIOUS
        <4> QED BY <3>1, <3>2, <3>4, <4>1, <4>2
      <3> QED BY <3>3, <3>4
    <2>7. ASSUME NEW v, v \in 1 .. Len(bal), NEW d \in Denoms
          PROVE  bal'[v][d] = bal[v][d] + 0
      <3>1. bal[v][d] \in Int
        BY <2>7, RowTypes
      <3> QED BY <2>1, <3>1
    <2>8. ASSUME NEW d \in Denoms, AtomicMarket!LockOf(t, d) > 0
          PROVE  AtomicMarket!LockOf(t, d) <= bal[t.wallet][d] - locked[t.wallet][d]
      <3>1. d = e /\ AtomicMarket!LockOf(t, d) = a
        <4>1. ~(0 > 0)
          OBVIOUS
        <4> QED BY <2>5, <2>8, <4>1
      <3> QED BY <1>4, <2>1, <2>2, <3>1
    <2>9. Len(disk'.bal) = Len(bal') /\ Len(disk'.locked) = Len(locked')
      BY <1>6, <2>1, <2>4
    <2>10. ASSUME NEW v, v \in 1 .. Len(bal'), NEW d \in Denoms
           PROVE  bal'[v][d] = disk'.bal[v][d] + SumFunction(Gains(disk'.orders, t, f, v, d))
      <3>1. SumFunction(Gains(disk'.orders, t, f, v, d)) = 0
        BY <1>5, <1>6
      <3>2. v \in 1 .. Len(bal) /\ disk'.bal[v][d] = bal[v][d]
        BY <1>6, <2>1, <2>10
      <3>3. bal'[v][d] = bal[v][d] + 0
        BY <2>7, <3>2
      <3> QED BY <3>1, <3>2, <3>3
    <2>11. ASSUME NEW v, v \in 1 .. Len(locked'), NEW d \in Denoms
           PROVE  locked'[v][d] = disk'.locked[v][d]
                     + (IF v = t.wallet THEN AtomicMarket!LockOf(t, d) ELSE 0)
                     - SumFunction(Releases(disk'.orders, t, f, v, d))
      <3>1. SumFunction(Releases(disk'.orders, t, f, v, d)) = 0
        BY <1>5, <1>6
      <3>2. v \in 1 .. Len(locked) /\ disk'.locked[v][d] = locked[v][d]
        BY <1>6, <2>1, <2>4, <2>11
      <3>3. locked'[v][d] = locked[v][d]
                + (IF v = t.wallet THEN AtomicMarket!LockOf(t, d) ELSE 0) - 0
        BY <2>6, <3>2
      <3> QED BY <3>1, <3>2, <3>3
    <2>12. \A d \in Denoms : AtomicMarket!LockOf(t, d) > 0 =>
              AtomicMarket!LockOf(t, d)
                 <= disk'.bal[t.wallet][d] - disk'.locked[t.wallet][d]
      BY <1>6, <2>1, <2>8
    <2> QED BY <2>9, <2>10, <2>11, <2>12 DEF WalletsPartway
  <1>11. Partway(t, f)'
    BY <1>7, <1>8, <1>9, <1>10 DEF Partway
  <1> QED BY <1>11

\* The file's orders that the market lets t trade with.
LEMMA MarketMakers ==
  ASSUME TypeOK, NEW t
  PROVE  /\ AtomicMarket!Makers(t) = MakersIn(disk.orders, t)
         /\ DOMAIN disk.orders = 1 .. Len(disk.orders)
  <1>1. DOMAIN disk.orders = 1 .. Len(disk.orders)
    BY TypeParts DEF FileOK
  <1> QED BY <1>1 DEF AtomicMarket!Makers, MakersIn

\* The market sums as the keeper's invariants do.
LEMMA MarketSum == \A f : AtomicMarket!SumFunction(f) = SumFunction(f)
  <1> SUFFICES ASSUME NEW f PROVE AtomicMarket!SumFunction(f) = SumFunction(f)
    OBVIOUS
  <1>1. AtomicMarket!SumFunctionOnSet(f, DOMAIN f)
          = (CHOOSE g : FoldedOn(g, f, SUBSET DOMAIN f))[DOMAIN f]
    BY DEF AtomicMarket!SumFunctionOnSet, AtomicMarket!FoldFunctionOnSet,
           AtomicMarket!MapThenFoldSet, FoldedOn, Pick
  <1> QED BY <1>1, SumIsFold DEF AtomicMarket!SumFunction, SumFunction

\* When the loop stops, what the order has taken is all the market gives it.
LEMMA FinishAllocates ==
  ASSUME TypeOK, Books, Prices, Placeable(orders), OrderTypes \subseteq {"limit"},
         FinishOrder, NEW t, NEW f, Partway(t, f)
  PROVE  f \in AtomicMarket!Allocations(t)
  <1>1. PICK M, os : os = disk.orders /\ M = MakersIn(os, t)
    OBVIOUS
  <1>2. PICK opp : opp = Opposite(t.side)
    OBVIOUS
  <1>3. /\ SameTerms(orders[taker], t) /\ t.side \in Sides /\ opp \in Sides
        /\ taker \notin 1 .. Len(os) /\ 1 .. Len(orders) = (1 .. Len(os)) \cup {taker}
        /\ os \in Seq(Order) /\ IsFiniteSet(M) /\ t.qty \in Nat
        /\ SumFunction(f) = SumFunctionOnSet(f, M) /\ SumFunction(f) \in Nat
        /\ orders[taker].remaining = t.qty - SumFunction(f)
    BY <1>1, <1>2, PartwayTypes DEF Opposite, Sides
  <1>4. /\ f \in [M -> Nat] /\ SumFunction(f) <= t.qty
        /\ \A m \in M : f[m] <= os[m].remaining
    BY <1>1 DEF Partway, MakersPartway, TakerPartway
  <1>5. ASSUME NEW m \in M PROVE f[m] \in 0 .. t.qty
    <2>1. \A x \in M : f[x] \in Int
      BY <1>4
    <2>2. SumFunctionOnSet(f, M) = f[m] + SumFunctionOnSet(f, M \ {m})
      BY <1>3, <2>1, SumRemove
    <2>3. IsFiniteSet(M \ {m}) /\ \A x \in M \ {m} : f[x] \in Nat
      BY <1>3, <1>4, FS_Subset
    <2>4. SumFunctionOnSet(f, M \ {m}) \in Nat
      BY <2>3, SumNat
    <2> QED BY <1>3, <1>4, <2>2, <2>4
  <1>6. f \in [M -> 0 .. t.qty]
    BY <1>4, <1>5
  <1>7. ASSUME SumFunction(f) < t.qty, NEW m \in M, f[m] < os[m].remaining
        PROVE  FALSE
    <2>1. /\ m \in 1 .. Len(os) /\ os[m].side = opp /\ os[m].wallet # t.wallet
          /\ ~Before(opp, t.price, os[m].price)
          /\ SameTerms(orders[m], os[m])
          /\ f[m] # os[m].remaining => Live(orders[m])
      BY <1>1, <1>2, MakersLeft
    <2>2. Live(orders[m])
      BY <1>1, <1>3, <1>7, <2>1, MakersFinite
    <2>3. m \in 1 .. Len(orders) /\ m # taker
      BY <1>3, <2>1
    <2>4. Rests(orders, taker, m, opp)
      BY <2>1, <2>2, <2>3 DEF Rests, LiveOf, SameTerms, Placeable
    <2>5. orders[taker].remaining # 0
      BY <1>3, <1>7
    <2>6. ~Idle /\ ~Matching
      BY DEF FinishOrder
    <2>7. orders[taker].type = "limit"
      BY <1>3 DEF Placeable
    <2>8. /\ orders[m].wallet # orders[taker].wallet /\ orders[m].price = os[m].price
          /\ orders[taker].price = t.price /\ opp = Opposite(orders[taker].side)
      BY <1>2, <1>3, <2>1 DEF SameTerms
    <2>9. Before(opp, orders[taker].price, orders[m].price)
      BY <1>3, <2>4, <2>5, <2>6, <2>7, <2>8, NothingLeft
    <2> QED BY <2>1, <2>8, <2>9
  <1>8. ASSUME NEW m \in M, NEW n \in M, f[n] < os[n].remaining,
               AtomicMarket!Better(os[n].side, os[n].price, os[m].price)
        PROVE  f[m] = 0
    <2>1. f[n] # os[n].remaining
      BY <1>1, <1>3, <1>4, <1>8, MakersFinite
    <2>2. Before(os[n].side, os[n].price, os[m].price)
      BY <1>8, MarketAmounts
    <2> QED BY <1>1, <2>1, <2>2 DEF Partway, BestFirst
  <1>9. AtomicMarket!Makers(t) = M
    BY <1>1, MarketMakers
  <1>10. f \in [AtomicMarket!Makers(t) -> 0 .. t.qty]
    BY <1>6, <1>9
  <1> DEFINE left == { m \in AtomicMarket!Makers(t) : f[m] < disk.orders[m].remaining }
  <1>12. \A m \in left : m \in M /\ f[m] < os[m].remaining
    BY <1>1, <1>9
  <1>13. SumFunction(f) < t.qty => left = {}
    BY <1>7, <1>12
  <1>14. \A m \in AtomicMarket!Makers(t) : f[m] <= disk.orders[m].remaining
    BY <1>1, <1>4, <1>9
  <1>15. \A m \in AtomicMarket!Makers(t), n \in left :
            AtomicMarket!Better(disk.orders[n].side, disk.orders[n].price, disk.orders[m].price)
               => f[m] = 0
    BY <1>1, <1>8, <1>9, <1>12
  <1> QED BY <1>4, <1>10, <1>13, <1>14, <1>15, MarketSum DEF AtomicMarket!Allocations

\* A table of n wallets and their amounts in each denomination.
Table(G, n) ==
    G = [w \in 1 .. n |-> G[w]] /\ \A w \in 1 .. n : G[w] = [d \in Denoms |-> G[w][d]]

\* Tables of wallets that agree everywhere are equal.
LEMMA SameRows ==
  ASSUME NEW F \in Seq(Row), NEW G, Table(G, Len(F)),
         \A w \in 1 .. Len(F), d \in Denoms : F[w][d] = G[w][d]
  PROVE  F = G
  <1>1. ASSUME NEW w \in 1 .. Len(F) PROVE F[w] = G[w]
    <2>1. F[w] \in Row
      OBVIOUS
    <2>2. F[w] = [d \in Denoms |-> F[w][d]]
      BY <2>1 DEF Row
    <2>3. \A d \in Denoms : F[w][d] = G[w][d]
      OBVIOUS
    <2>4. G[w] = [d \in Denoms |-> G[w][d]]
      BY DEF Table
    <2> QED BY <2>2, <2>3, <2>4
  <1>2. F = [w \in 1 .. Len(F) |-> F[w]]
    OBVIOUS
  <1>3. G = [w \in 1 .. Len(F) |-> G[w]]
    BY DEF Table
  <1> QED BY <1>1, <1>2, <1>3

\* The order as the match leaves it, and the orders it leaves in the file.
LEMMA FinishedOrders ==
  ASSUME TypeOK, TypeOK', OrderAccounting, FinishOrder, NEW t, NEW f, Partway(t, f),
         NEW os, os = disk.orders
  PROVE  /\ orders' \in Seq(Order) /\ Len(orders') = Len(os) + 1 /\ Len(os) \in Nat
         /\ \A m \in 1 .. Len(os) :
               orders'[m] = IF m \in MakersIn(os, t) THEN AtomicMarket!Filled(os[m], f[m])
                            ELSE os[m]
         /\ orders'[Len(os) + 1] = AtomicMarket!Filled(t, SumFunction(f))
  <1>1. /\ os \in Seq(Order) /\ Len(os) \in Nat /\ taker \notin 1 .. Len(os)
        /\ 1 .. Len(orders) = (1 .. Len(os)) \cup {taker}
        /\ SumFunction(f) \in Nat /\ t.qty \in Nat
    BY PartwayTypes
  <1>2. PICK s \in Nat, n \in Nat : s = SumFunction(f) /\ n = t.qty
    BY <1>1
  <1>3. /\ t \in Order /\ t.filled = 0 /\ t.remaining = t.qty /\ t.status = "open"
        /\ taker = Len(os) + 1 /\ Len(orders) = taker
        /\ orders[taker] = [t EXCEPT !.filled = s, !.remaining = n - s]
    BY <1>2 DEF Partway, TakerPartway
  <1>4. /\ orders' \in Seq(Order) /\ taker \in 1 .. Len(orders) /\ orders \in Seq(Order)
    BY TypeParts, FinishViews DEF MemoryOK
  <1>5. /\ orders' = [orders EXCEPT ![taker].status = FinishedStatus]
    BY <1>3, <1>4, AccountingParts
       DEF FinishOrder, FinishedStatus, MemoryAccounted, BeingMatched
  <1>6. /\ Len(orders') = Len(orders)
        /\ \A m \in 1 .. Len(orders) : m # taker => orders'[m] = orders[m]
        /\ orders'[taker] = [orders[taker] EXCEPT !.status = FinishedStatus]
    BY <1>4, <1>5
  <1>7. FinishedStatus = AtomicMarket!Status(t, s)
    <2>1. orders[taker].filled = s /\ orders[taker].remaining = n - s
      BY <1>3 DEF Order
    <2>2. n - s = 0 <=> n = s
      BY <1>2
    <2> QED BY <1>2, <1>3, <2>1, <2>2 DEF FinishedStatus, AtomicMarket!Status
  <1>8. orders'[taker] = AtomicMarket!Filled(t, s)
    <2>1. 0 + s = s
      BY <1>2
    <2> QED BY <1>2, <1>3, <1>6, <1>7, <2>1 DEF AtomicMarket!Filled, Order
  <1>9. \A m \in 1 .. Len(os) : orders'[m] = orders[m]
    BY <1>1, <1>6
  <1>10. \A m \in 1 .. Len(os) :
            orders[m] = IF m \in MakersIn(os, t) THEN AtomicMarket!Filled(os[m], f[m]) ELSE os[m]
    BY DEF Partway, MakersPartway
  <1> QED BY <1>1, <1>2, <1>3, <1>4, <1>6, <1>8, <1>9, <1>10

\* Seen through the file, the save at the end is the step that places t.
LEMMA FinishPlaces ==
  ASSUME TypeOK, TypeOK', OrderAccounting, FinishOrder, NEW t, NEW f, Partway(t, f)
  PROVE  AtomicMarket!Place(t, f) /\ Saved'
  <1>1. /\ Saved' /\ disk'.orders = orders' /\ disk'.bal = bal /\ disk'.locked = locked
        /\ bal' = bal /\ locked' = locked
    BY DEF FinishOrder, Save, Persisted, Saved
  <1>2. PICK os : os = disk.orders
    OBVIOUS
  <1>3. PICK M : M = AtomicMarket!Makers(t) /\ M = MakersIn(os, t)
    BY <1>2, MarketMakers
  <1>4. DOMAIN os = 1 .. Len(os) /\ Len(os) \in Nat
    BY <1>2, MarketMakers, FinishedOrders
  <1>5. disk'.orders = Append([m \in DOMAIN disk.orders |->
                                 IF m \in AtomicMarket!Makers(t)
                                 THEN AtomicMarket!Filled(disk.orders[m], f[m])
                                 ELSE disk.orders[m]],
                              AtomicMarket!Filled(t, AtomicMarket!SumFunction(f)))
    <2>1. PICK g, x : /\ g = [m \in DOMAIN disk.orders |->
                                IF m \in AtomicMarket!Makers(t)
                                THEN AtomicMarket!Filled(disk.orders[m], f[m])
                                ELSE disk.orders[m]]
                      /\ x = AtomicMarket!Filled(t, AtomicMarket!SumFunction(f))
      OBVIOUS
    <2>2. /\ orders' \in Seq(Order) /\ Len(orders') = Len(os) + 1
          /\ \A m \in 1 .. Len(os) :
                orders'[m] = IF m \in M THEN AtomicMarket!Filled(os[m], f[m]) ELSE os[m]
          /\ orders'[Len(os) + 1] = x
      BY <1>2, <1>3, <2>1, FinishedOrders, MarketSum
    <2>3. \A m \in 1 .. Len(os) : g[m] = orders'[m] /\ orders'[m] \in Order
      <3> SUFFICES ASSUME NEW m, m \in 1 .. Len(os)
                   PROVE  g[m] = orders'[m] /\ orders'[m] \in Order
        OBVIOUS
      <3>1. m \in DOMAIN disk.orders /\ m \in 1 .. Len(orders')
        BY <1>2, <1>4, <2>2, Indices
      <3>2. g[m] = IF m \in AtomicMarket!Makers(t) THEN AtomicMarket!Filled(disk.orders[m], f[m])
                   ELSE disk.orders[m]
        BY <2>1, <3>1
      <3>3. orders'[m] \in Order
        BY <2>2, <3>1
      <3> QED BY <1>2, <1>3, <2>2, <3>2, <3>3
    <2>4. g = [m \in 1 .. Len(os) |-> g[m]]
      BY <1>2, <1>4, <2>1
    <2>5. g \in Seq(Order) /\ Len(g) = Len(os)
      BY <1>4, <2>3, <2>4
    <2>6. x \in Order
      BY <1>4, <2>2
    <2>7. /\ Append(g, x) \in Seq(Order) /\ Len(Append(g, x)) = Len(os) + 1
          /\ \A m \in 1 .. Len(os) : Append(g, x)[m] = g[m]
          /\ Append(g, x)[Len(os) + 1] = x
      BY <2>5, <2>6, AppendAt
    <2>8. \A m \in 1 .. Len(orders') : orders'[m] = Append(g, x)[m]
      BY <1>4, <2>2, <2>3, <2>7, Indices
    <2>9. orders' = Append(g, x)
      BY <2>2, <2>7, <2>8
    <2> QED BY <1>1, <2>1, <2>9
  <1>6. WalletsPartway(os, t, f)
    BY <1>2 DEF Partway
  <1>7. /\ bal \in Seq(Row) /\ locked \in Seq(Row)
        /\ DOMAIN disk.bal = 1 .. Len(bal) /\ DOMAIN disk.locked = 1 .. Len(locked)
    BY <1>6, RowTypes DEF WalletsPartway
  <1>8. ASSUME NEW w, NEW d
        PROVE  /\ AtomicMarket!SumFunction([m \in AtomicMarket!Makers(t) |->
                        AtomicMarket!Gain(t, disk.orders[m], f[m], w, d)])
                     = SumFunction(Gains(os, t, f, w, d))
               /\ AtomicMarket!SumFunction([m \in AtomicMarket!Makers(t) |->
                        AtomicMarket!Release(t, disk.orders[m], f[m], w, d)])
                     = SumFunction(Releases(os, t, f, w, d))
    BY <1>2, <1>3, MarketSum DEF Gains, Releases
  <1>9. bal = [w \in DOMAIN disk.bal |-> [d \in {Base, Quote} |->
                  disk.bal[w][d] + AtomicMarket!SumFunction([m \in AtomicMarket!Makers(t) |->
                        AtomicMarket!Gain(t, disk.orders[m], f[m], w, d)])]]
    <2>1. PICK G : G = [w \in DOMAIN disk.bal |-> [d \in {Base, Quote} |->
                  disk.bal[w][d] + AtomicMarket!SumFunction([m \in AtomicMarket!Makers(t) |->
                        AtomicMarket!Gain(t, disk.orders[m], f[m], w, d)])]]
      OBVIOUS
    <2>2. G = [w \in 1 .. Len(bal) |-> G[w]]
      BY <1>7, <2>1
    <2>3. ASSUME NEW w, w \in 1 .. Len(bal)
          PROVE  /\ G[w] = [d \in Denoms |-> G[w][d]]
                 /\ \A d \in Denoms : bal[w][d] = G[w][d]
      <3>1. G[w] = [d \in Denoms |->
                  disk.bal[w][d] + AtomicMarket!SumFunction([m \in AtomicMarket!Makers(t) |->
                        AtomicMarket!Gain(t, disk.orders[m], f[m], w, d)])]
        BY <1>7, <2>1, <2>3 DEF Denoms
      <3>2. G[w] = [d \in Denoms |-> G[w][d]]
        BY <3>1
      <3>3. ASSUME NEW d \in Denoms PROVE bal[w][d] = G[w][d]
        <4>1. G[w][d] = disk.bal[w][d] + SumFunction(Gains(os, t, f, w, d))
          BY <1>8, <3>1
        <4> QED BY <1>6, <2>3, <4>1 DEF WalletsPartway
      <3> QED BY <3>2, <3>3
    <2>4. \A w \in 1 .. Len(bal) : G[w] = [d \in Denoms |-> G[w][d]]
      BY <2>3
    <2>5. \A w \in 1 .. Len(bal), d \in Denoms : bal[w][d] = G[w][d]
      BY <2>3
    <2>6. Table(G, Len(bal))
      BY <2>2, <2>4 DEF Table
    <2>7. bal = G
      BY <1>7, <2>5, <2>6, SameRows
    <2> QED BY <2>1, <2>7
  <1>10. locked = [w \in DOMAIN disk.locked |-> [d \in {Base, Quote} |->
                     disk.locked[w][d] + (IF w = t.wallet THEN AtomicMarket!LockOf(t, d) ELSE 0)
                        - AtomicMarket!SumFunction([m \in AtomicMarket!Makers(t) |->
                              AtomicMarket!Release(t, disk.orders[m], f[m], w, d)])]]
    <2>1. PICK G : G = [w \in DOMAIN disk.locked |-> [d \in {Base, Quote} |->
                     disk.locked[w][d] + (IF w = t.wallet THEN AtomicMarket!LockOf(t, d) ELSE 0)
                        - AtomicMarket!SumFunction([m \in AtomicMarket!Makers(t) |->
                              AtomicMarket!Release(t, disk.orders[m], f[m], w, d)])]]
      OBVIOUS
    <2>2. G = [w \in 1 .. Len(locked) |-> G[w]]
      BY <1>7, <2>1
    <2>3. ASSUME NEW w, w \in 1 .. Len(locked)
          PROVE  /\ G[w] = [d \in Denoms |-> G[w][d]]
                 /\ \A d \in Denoms : locked[w][d] = G[w][d]
      <3>1. G[w] = [d \in Denoms |->
                     disk.locked[w][d] + (IF w = t.wallet THEN AtomicMarket!LockOf(t, d) ELSE 0)
                        - AtomicMarket!SumFunction([m \in AtomicMarket!Makers(t) |->
                              AtomicMarket!Release(t, disk.orders[m], f[m], w, d)])]
        BY <1>7, <2>1, <2>3 DEF Denoms
      <3>2. G[w] = [d \in Denoms |-> G[w][d]]
        BY <3>1
      <3>3. ASSUME NEW d \in Denoms PROVE locked[w][d] = G[w][d]
        <4>1. G[w][d] = disk.locked[w][d]
                 + (IF w = t.wallet THEN AtomicMarket!LockOf(t, d) ELSE 0)
                 - SumFunction(Releases(os, t, f, w, d))
          BY <1>8, <3>1
        <4> QED BY <1>6, <2>3, <4>1 DEF WalletsPartway
      <3> QED BY <3>2, <3>3
    <2>4. \A w \in 1 .. Len(locked) : G[w] = [d \in Denoms |-> G[w][d]]
      BY <2>3
    <2>5. \A w \in 1 .. Len(locked), d \in Denoms : locked[w][d] = G[w][d]
      BY <2>3
    <2>6. Table(G, Len(locked))
      BY <2>2, <2>4 DEF Table
    <2>7. locked = G
      BY <1>7, <2>5, <2>6, SameRows
    <2> QED BY <2>1, <2>7
  <1>11. \A d \in {Base, Quote} : AtomicMarket!LockOf(t, d) > 0 =>
            AtomicMarket!LockOf(t, d) <= disk.bal[t.wallet][d] - disk.locked[t.wallet][d]
    BY <1>6 DEF WalletsPartway, Denoms
  <1>12. AtomicMarket!Place(t, f)
    BY <1>1, <1>5, <1>9, <1>10, <1>11 DEF AtomicMarket!Place
  <1> QED BY <1>1, <1>12

LEMMA FinishMarket ==
  ASSUME TypeOK, TypeOK', OrderAccounting, Books, Prices, Placeable(orders),
         OrderTypes \subseteq {"limit"}, FinishOrder, NEW t, NEW f, Partway(t, f)
  PROVE  AtomicMarket!PlaceOne /\ Saved'
  <1>1. f \in AtomicMarket!Allocations(t)
    BY FinishAllocates
  <1>2. AtomicMarket!Place(t, f) /\ Saved'
    BY FinishPlaces
  <1>3. PICK os, o : os = disk.orders /\ o = orders'[Len(os) + 1]
    OBVIOUS
  <1>4. PICK s \in Nat : s = SumFunction(f) /\ t \in Order
    BY PartwayTypes DEF Partway, TakerPartway
  <1>5. t.filled = 0 /\ t.remaining = t.qty /\ t.status = "open"
    BY DEF Partway, TakerPartway
  <1>6. /\ Len(orders') = Len(os) + 1 /\ o = AtomicMarket!Filled(t, s)
    BY <1>3, <1>4, FinishedOrders
  <1>7. o = [t EXCEPT !.filled = t.filled + s, !.remaining = t.remaining - s,
                      !.status = AtomicMarket!Status(t, s)]
    BY <1>6 DEF AtomicMarket!Filled
  <1>8. t = [o EXCEPT !.filled = 0, !.remaining = o.qty, !.status = "open"]
    BY <1>4, <1>5, <1>7 DEF Order
  <1>9. disk'.orders = orders'
    BY <1>2 DEF Saved
  <1>10. t = [disk'.orders[Len(disk'.orders)] EXCEPT
                 !.filled = 0, !.remaining = disk'.orders[Len(disk'.orders)].qty, !.status = "open"]
    BY <1>3, <1>6, <1>8, <1>9
  <1>11. Len(disk'.orders) = Len(disk.orders) + 1
    BY <1>3, <1>6, <1>9
  <1> QED BY <1>1, <1>2, <1>10, <1>11 DEF AtomicMarket!PlaceOne

LEMMA CreateMarket ==
  ASSUME Saved, NEW u, CreateWallet(u)
  PROVE  AtomicMarket!OpenWallet /\ Saved'
  <1>1. Saved' /\ disk'.bal = bal' /\ disk'.locked = locked' /\ disk'.orders = orders'
    BY DEF CreateWallet, Save, Persisted, Saved
  <1>2. bal' = Append(disk.bal, Zero) /\ locked' = Append(disk.locked, Zero)
        /\ orders' = disk.orders
    BY DEF CreateWallet, Saved
  <1> QED BY <1>1, <1>2 DEF AtomicMarket!OpenWallet, Zero, Denoms

\* A deposit moves one balance by an amount of either sign.
LEMMA DepositMarket ==
  ASSUME TypeOK, Saved, NEW w \in DOMAIN wallets, NEW d \in Denoms,
         NEW amount \in Deposits[d], DepositToWallet(w, d, amount)
  PROVE  AtomicMarket!Deposit(w, d) /\ w \in DOMAIN disk.bal /\ Saved'
  <1>1. /\ Saved' /\ disk'.bal = bal' /\ disk'.locked = locked' /\ disk'.orders = orders'
        /\ locked' = disk.locked /\ orders' = disk.orders
    BY DEF DepositToWallet, Save, Persisted, Saved
  <1>2. w \in 1 .. Len(bal) /\ bal \in Seq(Row) /\ DOMAIN bal = 1 .. Len(bal)
    BY RowTypes, TypeParts DEF MemoryOK
  <1>3. bal' = [bal EXCEPT ![w][d] = @ + amount]
    BY DEF DepositToWallet
  <1>4. disk'.bal = [disk.bal EXCEPT ![w][d] = @ + amount]
    BY <1>1, <1>3 DEF Saved
  <1>5. w \in DOMAIN disk.bal
    BY <1>2 DEF Saved
  <1> QED BY <1>1, <1>4, <1>5 DEF AtomicMarket!Deposit

\* A withdrawal moves one balance, not below what is locked.
LEMMA WithdrawMarket ==
  ASSUME TypeOK, Saved, NEW w \in DOMAIN wallets, NEW d \in Denoms, NEW amount \in Int,
         WithdrawFromWallet(w, d, amount)
  PROVE  AtomicMarket!Withdraw(w, d) /\ w \in DOMAIN disk.bal /\ Saved'
  <1>1. /\ Saved' /\ disk'.bal = bal' /\ disk'.locked = locked' /\ disk'.orders = orders'
        /\ locked' = disk.locked /\ orders' = disk.orders
    BY DEF WithdrawFromWallet, Save, Persisted, Saved
  <1>2. w \in 1 .. Len(bal) /\ bal \in Seq(Row) /\ DOMAIN bal = 1 .. Len(bal)
        /\ bal[w][d] \in Int /\ locked[w][d] \in Int
    <2>1. w \in 1 .. Len(bal) /\ bal \in Seq(Row)
      BY RowTypes, TypeParts DEF MemoryOK
    <2> QED BY <2>1, RowTypes
  <1>3. PICK x \in Int, l \in Int :
           /\ l = locked[w][d] /\ bal' = [bal EXCEPT ![w][d] = x] /\ l <= x
    <2>1. bal' = [bal EXCEPT ![w][d] = bal[w][d] - amount] /\ amount <= Available(w, d)
      BY DEF WithdrawFromWallet
    <2>2. bal[w][d] - amount \in Int /\ locked[w][d] <= bal[w][d] - amount
      BY <1>2, <2>1 DEF Available
    <2> QED BY <1>2, <2>1, <2>2
  <1>4. bal'[w][d] = x
    BY <1>2, <1>3, EntryAt
  <1>5. disk'.bal = [disk.bal EXCEPT ![w][d] = disk'.bal[w][d]]
    BY <1>1, <1>3, <1>4 DEF Saved
  <1>6. disk.locked[w][d] <= disk'.bal[w][d]
    BY <1>1, <1>3, <1>4 DEF Saved
  <1>7. w \in DOMAIN disk.bal
    BY <1>2 DEF Saved
  <1> QED BY <1>1, <1>5, <1>6, <1>7 DEF AtomicMarket!Withdraw

LEMMA CancelMarket ==
  ASSUME TypeOK, TypeOK', Saved, NEW o \in DOMAIN orders, NEW w, CancelOrder(o, w)
  PROVE  AtomicMarket!Cancel(o) /\ o \in DOMAIN disk.orders /\ Saved'
  <1>1. /\ Saved' /\ disk'.bal = bal' /\ disk'.locked = locked' /\ disk'.orders = orders'
        /\ disk.orders = orders /\ disk.locked = locked /\ disk.bal = bal /\ bal' = bal
    BY DEF CancelOrder, Save, Persisted, Saved
  <1>2. PICK t : t = orders[o]
    OBVIOUS
  <1>3. /\ o \in 1 .. Len(orders) /\ t \in Order /\ t.side \in Sides /\ t.wallet = w
        /\ t.wallet \in 1 .. Len(locked) /\ locked \in Seq(Row) /\ locked' \in Seq(Row)
    <2>1. o \in 1 .. Len(orders) /\ t \in Order
      BY <1>2, CancelViews
    <2>2. t.wallet \in 1 .. Len(locked)
      BY <1>2, <2>1, TypeParts DEF MemoryOK
    <2>3. locked \in Seq(Row) /\ locked' \in Seq(Row)
      BY TypeParts DEF MemoryOK, Row
    <2> QED BY <1>2, <2>1, <2>2, <2>3 DEF CancelOrder, Order
  <1>4. AtomicMarket!Resting(t)
    <2>1. t.status \in {"open", "partial", "filled", "cancelled"}
      BY <1>3 DEF Order
    <2> QED BY <1>2, <2>1 DEF CancelOrder, AtomicMarket!Resting
  <1>5. PICK e \in Denoms, a \in Int : e = LockDenom(t.side) /\ a = ReleaseAmount(t)
    BY <1>3, ShareType
  <1>6. PICK v : v = t.wallet
    OBVIOUS
  <1>7. locked[v] \in Row /\ locked[v][e] - a \in Int
    <2>1. locked[v] \in Row
      BY <1>3, <1>6
    <2> QED BY <1>5, <2>1 DEF Row
  <1>8. [locked[v] EXCEPT ![e] = locked[v][e] - a]
           = [d \in {Base, Quote} |-> locked[v][d] - AtomicMarket!LockOf(t, d)]
    <2>1. locked[v] = [d \in Denoms |-> locked[v][d]] /\ \A d \in Denoms : locked[v][d] \in Int
      BY <1>7 DEF Row
    <2>2. ASSUME NEW d \in Denoms
          PROVE  AtomicMarket!LockOf(t, d) = IF d = e THEN a ELSE 0
      BY <1>3, <1>5, MarketLock
    <2>3. ASSUME NEW d \in Denoms
          PROVE  locked[v][d] - AtomicMarket!LockOf(t, d)
                    = [locked[v] EXCEPT ![e] = locked[v][e] - a][d]
      BY <1>5, <1>7, <2>1, <2>2
    <2>4. [locked[v] EXCEPT ![e] = locked[v][e] - a]
             = [d \in Denoms |-> [locked[v] EXCEPT ![e] = locked[v][e] - a][d]]
      BY <2>1
    <2>5. [d \in Denoms |-> [locked[v] EXCEPT ![e] = locked[v][e] - a][d]]
             = [d \in Denoms |-> locked[v][d] - AtomicMarket!LockOf(t, d)]
      BY <2>3
    <2> QED BY <2>4, <2>5 DEF Denoms
  <1>9. locked' = [locked EXCEPT ![v][e] = locked[v][e] - a]
    BY <1>2, <1>3, <1>5, <1>6 DEF CancelOrder
  <1>10. locked' = [locked EXCEPT ![v] = [d \in {Base, Quote} |->
                                             locked[v][d] - AtomicMarket!LockOf(t, d)]]
    BY <1>8, <1>9
  <1>11. orders' = [orders EXCEPT ![o].status = "cancelled"]
    BY DEF CancelOrder
  <1>12. o \in DOMAIN disk.orders
    BY <1>1
  <1> QED BY <1>1, <1>2, <1>4, <1>6, <1>10, <1>11, <1>12 DEF AtomicMarket!Cancel

\* What the loop and the calendar leave alone.
LEMMA MarketKept ==
  ASSUME MarketInv, UNCHANGED <<bal, locked, orders, taker, disk>>
  PROVE  MarketInv' /\ UNCHANGED AtomicMarket!marketVars
  <1>1. UNCHANGED AtomicMarket!marketVars
    BY DEF AtomicMarket!marketVars
  <1>2. CASE Idle
    BY <1>1, <1>2 DEF MarketInv, Idle, Saved
  <1>3. CASE ~Idle
    <2>1. PICK t, f : Partway(t, f)
      BY <1>3 DEF MarketInv
    <2>2. TakerPartway(t, f)'
      BY <2>1 DEF Partway, TakerPartway
    <2>3. MakersPartway(disk.orders, t, f)'
      BY <2>1 DEF Partway, MakersPartway
    <2>4. BestFirst(disk.orders, t, f)'
      BY <2>1 DEF Partway, BestFirst
    <2>5. WalletsPartway(disk.orders, t, f)'
      BY <2>1 DEF Partway, WalletsPartway
    <2>6. Partway(t, f)'
      BY <2>2, <2>3, <2>4, <2>5 DEF Partway
    <2> QED BY <1>1, <1>3, <2>6 DEF MarketInv, Idle
  <1> QED BY <1>1, <1>2, <1>3

\* An operation on applications saves the wallets and the orders as they are.
LEMMA DecideMarket ==
  ASSUME Saved, Save, UNCHANGED <<bal, locked, orders>>
  PROVE  Saved' /\ UNCHANGED AtomicMarket!marketVars
  <1>1. disk'.bal = bal /\ disk'.locked = locked /\ disk'.orders = orders
    BY DEF Save, Persisted
  <1> QED BY <1>1 DEF Saved, AtomicMarket!marketVars

LEMMA RestartMarket ==
  ASSUME Restart
  PROVE  /\ Saved' /\ Idle'
         /\ AtomicMarket!Lose \/ UNCHANGED AtomicMarket!marketVars
  <1>1. PICK file \in {disk} \cup (IF TornWrites THEN {Blank} ELSE {}) :
           /\ bal' = file.bal /\ locked' = file.locked /\ orders' = file.orders
           /\ disk' = file /\ taker' = 0
    BY DEF Restart
  <1>2. Saved' /\ Idle'
    BY <1>1 DEF Saved, Idle
  <1>3. CASE file = disk
    BY <1>1, <1>2, <1>3 DEF AtomicMarket!marketVars
  <1>4. CASE file = Blank
    <2>1. AtomicMarket!Lose
      BY <1>1, <1>4 DEF AtomicMarket!Lose, Blank
    <2> QED BY <1>2, <2>1
  <1> QED BY <1>1, <1>3, <1>4

MarketStepped == AtomicMarket!Next \/ UNCHANGED AtomicMarket!marketVars

LEMMA MarketStep ==
  ASSUME TypeOK, TypeOK', OrderAccounting, Books, Prices, Placeable(orders),
         OrderTypes \subseteq {"limit"}, MarketInv, [Next]_vars
  PROVE  MarketInv' /\ MarketStepped
  <1>0. /\ Idle /\ taker' = taker /\ Saved' => Saved /\ MarketInv'
        /\ Idle => Saved
    BY DEF MarketInv, Idle
  <1>1. ASSUME NEW u \in Users, CreateWallet(u)
        PROVE  MarketInv' /\ MarketStepped
    <2>1. Idle /\ taker' = taker
      BY <1>1 DEF CreateWallet
    <2>2. AtomicMarket!OpenWallet /\ Saved'
      BY <1>0, <1>1, <2>1, CreateMarket
    <2> QED BY <1>0, <2>1, <2>2 DEF MarketStepped, AtomicMarket!Next
  <1>3. ASSUME NEW w \in DOMAIN wallets, NEW d \in Denoms, NEW amount \in Deposits[d],
               DepositToWallet(w, d, amount)
        PROVE  MarketInv' /\ MarketStepped
    <2>1. Idle /\ taker' = taker
      BY <1>3 DEF DepositToWallet
    <2>2. AtomicMarket!Deposit(w, d) /\ w \in DOMAIN disk.bal /\ Saved'
      BY <1>0, <1>3, <2>1, DepositMarket
    <2>3. AtomicMarket!Next
      BY <2>2 DEF AtomicMarket!Next, Denoms
    <2> QED BY <1>0, <2>1, <2>2, <2>3 DEF MarketStepped
  <1>4. ASSUME NEW w \in DOMAIN wallets, NEW d \in Denoms, NEW amount \in Withdrawals[d],
               WithdrawFromWallet(w, d, amount)
        PROVE  MarketInv' /\ MarketStepped
    <2>0. amount \in Int
      BY ExchangeAssumption
    <2>1. Idle /\ taker' = taker
      BY <1>4 DEF WithdrawFromWallet
    <2>2. AtomicMarket!Withdraw(w, d) /\ w \in DOMAIN disk.bal /\ Saved'
      BY <1>0, <1>4, <2>0, <2>1, WithdrawMarket
    <2>3. AtomicMarket!Next
      BY <2>2 DEF AtomicMarket!Next, Denoms
    <2> QED BY <1>0, <2>1, <2>2, <2>3 DEF MarketStepped
  <1>5. ASSUME NEW u, NEW w, NEW tier, NEW sanctioned, SubmitKYC(u, w, tier, sanctioned)
        PROVE  MarketInv' /\ MarketStepped
    <2>1. Idle /\ taker' = taker /\ Save /\ UNCHANGED <<bal, locked, orders>>
      BY <1>5 DEF SubmitKYC
    <2> QED BY <1>0, <2>1, DecideMarket DEF MarketStepped
  <1>6. ASSUME NEW a, ApproveKYC(a) \/ RejectKYC(a)
        PROVE  MarketInv' /\ MarketStepped
    <2>1. Idle /\ taker' = taker /\ Save /\ UNCHANGED <<bal, locked, orders>>
      BY <1>6 DEF ApproveKYC, RejectKYC
    <2> QED BY <1>0, <2>1, DecideMarket DEF MarketStepped
  <1>7. ASSUME NEW w \in DOMAIN wallets, NEW side \in Sides, NEW type \in OrderTypes,
               NEW offer \in Offers, PlaceOrder(w, side, type, offer[1], offer[2])
        PROVE  MarketInv' /\ MarketStepped
    <2>1. offer[1] \in Int /\ offer[2] \in Nat
      BY <1>7, OfferType
    <2>2. PICK t : Placed(t, w)
      BY <1>7, <2>1, PlacedOrder, Zenon
    <2>3. Idle /\ ~Idle' /\ disk' = disk
      <3>1. taker = 0 /\ taker' = Len(orders) + 1 /\ Len(orders) \in Nat
        BY <2>2, TypeParts DEF Placed, MemoryOK
      <3> QED BY <2>2, <3>1 DEF Placed, Idle
    <2>4. PICK f : Partway(t, f)'
      BY <1>0, <2>2, <2>3, PlacePartway
    <2>5. MarketInv'
      BY <2>3, <2>4 DEF MarketInv
    <2>6. UNCHANGED AtomicMarket!marketVars
      BY <2>3 DEF AtomicMarket!marketVars
    <2> QED BY <2>5, <2>6 DEF MarketStepped
  <1>8. CASE SkipOwn \/ NewDay \/ UNCHANGED vars
    <2>1. UNCHANGED <<bal, locked, orders, taker, disk>>
      BY <1>8 DEF SkipOwn, NewDay, vars, persistent
    <2> QED BY <2>1, MarketKept DEF MarketStepped
  <1>9. CASE Fill
    <2>1. ~Idle /\ taker' = taker /\ disk' = disk
      BY <1>9, TakerWants DEF Fill
    <2>2. PICK t, f : Partway(t, f)
      BY <2>1 DEF MarketInv
    <2>3. PICK g : Partway(t, g)'
      BY <1>9, <2>2, FillPartway
    <2>4. MarketInv'
      BY <2>1, <2>3 DEF MarketInv, Idle
    <2>5. UNCHANGED AtomicMarket!marketVars
      BY <2>1 DEF AtomicMarket!marketVars
    <2> QED BY <2>4, <2>5 DEF MarketStepped
  <1>10. CASE FinishOrder
    <2>1. ~Idle /\ taker' = 0
      BY <1>10 DEF FinishOrder
    <2>2. PICK t, f : Partway(t, f)
      BY <2>1 DEF MarketInv
    <2>3. AtomicMarket!PlaceOne /\ Saved'
      BY <1>10, <2>2, FinishMarket
    <2>4. MarketInv'
      BY <2>1, <2>3 DEF MarketInv, Idle
    <2> QED BY <2>3, <2>4 DEF MarketStepped, AtomicMarket!Next
  <1>11. ASSUME NEW o \in DOMAIN orders, NEW w \in DOMAIN wallets, CancelOrder(o, w)
         PROVE  MarketInv' /\ MarketStepped
    <2>1. Idle /\ taker' = taker
      BY <1>11 DEF CancelOrder
    <2>2. AtomicMarket!Cancel(o) /\ o \in DOMAIN disk.orders /\ Saved'
      BY <1>0, <1>11, <2>1, CancelMarket
    <2>3. AtomicMarket!Next
      BY <2>2 DEF AtomicMarket!Next
    <2> QED BY <1>0, <2>1, <2>2, <2>3 DEF MarketStepped
  <1>12. CASE Restart
    <2>1. MarketInv'
      BY <1>12, RestartMarket DEF MarketInv
    <2> QED BY <1>12, <2>1, RestartMarket DEF MarketStepped, AtomicMarket!Next
  <1> QED BY <1>1, <1>3, <1>4, <1>5, <1>6, <1>7, <1>8, <1>9, <1>10, <1>11, <1>12
          DEF Next, Operate

\* Seen through its file, an exchange of limit orders is a market in which
\* every order trades in one step, at the best prices and as far as it goes,
\* for any number of wallets, orders, fills and crashes in between.
THEOREM ExchangeIsMarket ==
  ASSUME OrderTypes \subseteq {"limit"}
  PROVE  Spec => ImplementsMarket
  <1> DEFINE AllPlaceable == Placeable(orders) /\ Placeable(disk.orders)
  <1>1. Init => AllPlaceable /\ MarketInv /\ AtomicMarket!Init
    BY DEF Init, Blank, Placeable, MarketInv, Idle, Saved, AtomicMarket!Init
  <1>2. TypeOK /\ OrderAccounting /\ AllPlaceable /\ [Next]_vars => AllPlaceable'
    <2> SUFFICES ASSUME TypeOK, OrderAccounting, AllPlaceable, [Next]_vars
                 PROVE  AllPlaceable'
      OBVIOUS
    <2>1. CASE Restart
      <3>1. PICK file \in {disk} \cup (IF TornWrites THEN {Blank} ELSE {}) :
               orders' = file.orders /\ disk' = file
        BY <2>1 DEF Restart
      <3>2. Placeable(file.orders)
        BY <3>1 DEF Blank, Placeable
      <3> QED BY <3>1, <3>2
    <2>2. CASE Placeable(orders') /\ (Save \/ disk' = disk)
      BY <2>2 DEF Save, Persisted
    <2> QED BY <2>1, <2>2, PlaceableStep
  <1>3. TypeOK /\ TypeOK' /\ OrderAccounting /\ Books /\ Prices /\ AllPlaceable /\ MarketInv
          /\ [Next]_vars
           => MarketInv' /\ [AtomicMarket!Next]_(AtomicMarket!marketVars)
    BY MarketStep DEF MarketStepped
  <1> HIDE DEF AllPlaceable
  <1> QED BY <1>1, <1>2, <1>3, TypeCorrect, OrdersAccounted, BooksInvariant, PricesInvariant, PTL
          DEF Spec, ImplementsMarket, AtomicMarket!Spec

=============================================================================
