--------------------------- MODULE ExchangeProofs ---------------------------
(***************************************************************************)
(* Proofs about Exchange: the types of its state, in memory and on disk,   *)
(* the accounting of orders over every trade, cancel and restart, and what *)
(* can overdraw a wallet in base tokens.                                   *)
(***************************************************************************)
EXTENDS Exchange, FiniteSetTheorems, TLAPS

-----------------------------------------------------------------------------
(* Lemmas.                                                                 *)

\* The elements of a sequence after Append: the old ones and the new one.
LEMMA AppendAt ==
  ASSUME NEW S, NEW s \in Seq(S), NEW x \in S
  PROVE  /\ Append(s, x) \in Seq(S)
         /\ Len(Append(s, x)) = Len(s) + 1
         /\ \A i \in 1 .. Len(s) : Append(s, x)[i] = s[i]
         /\ Append(s, x)[Len(s) + 1] = x
  OBVIOUS

\* Replacing one element of a sequence keeps the others and the length.
LEMMA ExceptAt ==
  ASSUME NEW S, NEW s \in Seq(S), NEW i \in 1 .. Len(s), NEW x \in S
  PROVE  /\ [s EXCEPT ![i] = x] \in Seq(S)
         /\ Len([s EXCEPT ![i] = x]) = Len(s)
         /\ \A j \in 1 .. Len(s) : [s EXCEPT ![i] = x][j] = IF j = i THEN x ELSE s[j]
  OBVIOUS

LEMMA SeqMonotone ==
  ASSUME NEW S, NEW T, S \subseteq T, NEW s \in Seq(S)
  PROVE  s \in Seq(T)
  OBVIOUS

\* Cutting one element out of a book leaves a book.
LEMMA RemoveAtType ==
  ASSUME NEW S, NEW s \in Seq(S), NEW i
  PROVE  RemoveAt(s, i) \in Seq(S)
  <1>1. \A j \in 1 .. Len(s) - 1 : s[IF j < i THEN j ELSE j + 1] \in S
    <2> SUFFICES ASSUME NEW j \in 1 .. Len(s) - 1
                 PROVE  s[IF j < i THEN j ELSE j + 1] \in S
      OBVIOUS
    <2>1. s[j] \in S /\ s[j + 1] \in S
      OBVIOUS
    <2> QED BY <2>1
  <1>2. PICK n \in Nat : 1 .. n = 1 .. Len(s) - 1
    <2>1. CASE Len(s) = 0
      <3>1. 1 .. 0 = 1 .. Len(s) - 1
        BY <2>1
      <3> QED BY <3>1
    <2>2. CASE Len(s) # 0
      <3>1. Len(s) - 1 \in Nat
        BY <2>2
      <3> QED BY <3>1
    <2> QED BY <2>1, <2>2
  <1>3. RemoveAt(s, i) \in [1 .. n -> S]
    BY <1>1, <1>2 DEF RemoveAt
  <1> QED BY <1>3

\* Quotients are integers, and the whole part where nothing is negative.
LEMMA QuotientType ==
  ASSUME NEW a \in Int, NEW b \in Nat \ {0}
  PROVE  /\ Quotient(a, b) \in Int
         /\ a >= 0 => Quotient(a, b) \in Nat /\ Quotient(a, b) = a \div b
  <1>1. CASE a >= 0
    <2>1. a \div b \in Nat
      BY <1>1
    <2> QED BY <1>1, <2>1 DEF Quotient
  <1>2. CASE ~(a >= 0)
    <2>1. -a \in Nat
      BY <1>2
    <2>2. (-a) \div b \in Nat
      BY <2>1
    <2>3. -((-a) \div b) \in Int
      BY <2>2
    <2> QED BY <1>2, <2>3 DEF Quotient
  <1> QED BY <1>1, <1>2

\* Amounts in quote units, and fees, are integers.
LEMMA QuoteAmountType ==
  ASSUME NEW price \in Int, NEW qty \in Nat
  PROVE  QuoteAmount(price, qty) \in Int
  <1>1. price * qty \in Int /\ PriceScale \in Nat \ {0}
    BY ExchangeAssumption
  <1> QED BY <1>1, QuotientType DEF QuoteAmount

LEMMA FeeType ==
  ASSUME NEW bps \in Nat, NEW price \in Int, NEW qty \in Nat
  PROVE  Fee(bps, price, qty) \in Int
  <1>1. qty * price * bps \in Int
    <2>1. qty * price \in Int
      OBVIOUS
    <2> QED BY <2>1
  <1>2. PriceScale * FeeScale \in Nat \ {0}
    BY ExchangeAssumption
  <1> QED BY <1>1, <1>2, QuotientType DEF Fee

\* How many applications were approved is a number.
LEMMA ApprovalsType ==
  ASSUME apps \in Seq(App)
  PROVE  Approvals \in Nat
  <1>1. IsFiniteSet(1 .. Len(apps)) /\ DOMAIN apps = 1 .. Len(apps)
    BY FS_Interval
  <1>2. IsFiniteSet({a \in DOMAIN apps : apps[a].approvedAt # 0})
    BY <1>1, FS_Subset
  <1> QED BY <1>2, FS_CardinalityType DEF Approvals

-----------------------------------------------------------------------------
(* Types.                                                                  *)

\* FileOK, said of the variables.
MemoryOK ==
    /\ wallets \in Seq(Wallet) /\ orders \in Seq(Order)
    /\ trades \in Seq(Trade) /\ apps \in Seq(App)
    /\ bal \in Seq([Denoms -> Int]) /\ locked \in Seq([Denoms -> Int])
    /\ volume \in [Users \X Days -> Int]
    /\ Len(bal) = Len(wallets) /\ Len(locked) = Len(wallets)
    /\ \A o \in 1 .. Len(orders) : orders[o].wallet \in 1 .. Len(wallets)
    /\ \A a \in 1 .. Len(apps) : apps[a].wallet \in 1 .. Len(wallets)

LoopOK ==
    /\ book \in [Sides -> Seq(1 .. Len(orders))]
    /\ today \in Days
    /\ taker \in 0 .. Len(orders)
    /\ idx \in Nat \ {0}

LEMMA TypeParts ==
  /\ TypeOK <=> MemoryOK /\ FileOK(disk) /\ LoopOK
  /\ TypeOK' <=> MemoryOK' /\ FileOK(disk)' /\ LoopOK'
  BY DEF TypeOK, MemoryOK, LoopOK, FileOK, Persisted

\* What is saved has the type of what is in memory.
LEMMA SaveType == MemoryOK' /\ Save => FileOK(disk)'
  BY DEF MemoryOK, FileOK, Save, Persisted

LEMMA BlankType == FileOK(Blank)
  BY DEF FileOK, Blank

LEMMA CreateWalletType ==
  ASSUME TypeOK, NEW u \in Users, CreateWallet(u)
  PROVE  TypeOK'
  <1> USE TypeParts DEF CreateWallet
  <1>1. MemoryOK /\ LoopOK
    OBVIOUS
  <1>2. [user |-> u, tier |-> None, active |-> TRUE] \in Wallet
    BY DEF Wallet, None
  <1>3. Zero \in [Denoms -> Int]
    BY DEF Zero
  <1>4. /\ wallets' \in Seq(Wallet) /\ Len(wallets') = Len(wallets) + 1
        /\ bal' \in Seq([Denoms -> Int]) /\ Len(bal') = Len(bal) + 1
        /\ locked' \in Seq([Denoms -> Int]) /\ Len(locked') = Len(locked) + 1
    BY <1>1, <1>2, <1>3, AppendAt DEF MemoryOK
  <1>5. MemoryOK'
    BY <1>1, <1>4 DEF MemoryOK
  <1>6. LoopOK'
    BY <1>1 DEF LoopOK
  <1> QED BY <1>5, <1>6, SaveType

\* Moving one balance, for a deposit and for a withdrawal.
LEMMA BalanceType ==
  ASSUME MemoryOK, LoopOK, Save, NEW w \in 1 .. Len(wallets), NEW d \in Denoms,
         NEW x \in Int, bal' = [bal EXCEPT ![w][d] = x],
         UNCHANGED <<wallets, locked, orders, trades, apps, volume, book, today,
                     taker, idx>>
  PROVE  TypeOK'
  <1>1. bal[w] \in [Denoms -> Int] /\ [bal[w] EXCEPT ![d] = x] \in [Denoms -> Int]
    BY DEF MemoryOK
  <1>2. bal' = [bal EXCEPT ![w] = [bal[w] EXCEPT ![d] = x]]
    BY DEF MemoryOK
  <1>3. bal' \in Seq([Denoms -> Int]) /\ Len(bal') = Len(bal)
    BY <1>1, <1>2, ExceptAt DEF MemoryOK
  <1>4. MemoryOK'
    BY <1>3 DEF MemoryOK
  <1>5. LoopOK'
    BY DEF LoopOK
  <1> QED BY <1>4, <1>5, SaveType, TypeParts

LEMMA DepositType ==
  ASSUME TypeOK, NEW w \in DOMAIN wallets, NEW d \in Denoms, NEW amount \in Deposits[d],
         DepositToWallet(w, d, amount)
  PROVE  TypeOK'
  <1>1. MemoryOK /\ LoopOK /\ w \in 1 .. Len(wallets)
    BY TypeParts DEF MemoryOK
  <1>2. bal[w][d] + amount \in Int
    <2>1. bal[w] \in [Denoms -> Int]
      BY <1>1, SMTT(30) DEF MemoryOK
    <2>2. amount \in Int
      BY ExchangeAssumption
    <2> QED BY <2>1, <2>2
  <1>3. bal' = [bal EXCEPT ![w][d] = bal[w][d] + amount]
    BY <1>1 DEF DepositToWallet, MemoryOK
  <1> QED BY <1>1, <1>2, <1>3, BalanceType DEF DepositToWallet

LEMMA WithdrawType ==
  ASSUME TypeOK, NEW w \in DOMAIN wallets, NEW d \in Denoms,
         NEW amount \in Withdrawals[d], WithdrawFromWallet(w, d, amount)
  PROVE  TypeOK'
  <1>1. MemoryOK /\ LoopOK /\ w \in 1 .. Len(wallets)
    BY TypeParts DEF MemoryOK
  <1>2. bal[w][d] - amount \in Int
    <2>1. bal[w] \in [Denoms -> Int]
      BY <1>1, SMTT(30) DEF MemoryOK
    <2>2. amount \in Int
      BY ExchangeAssumption
    <2> QED BY <2>1, <2>2
  <1>3. bal' = [bal EXCEPT ![w][d] = bal[w][d] - amount]
    BY <1>1 DEF WithdrawFromWallet, MemoryOK
  <1> QED BY <1>1, <1>2, <1>3, BalanceType DEF WithdrawFromWallet

\* A wallet keeps its type when its tier and active flag are set, and an
\* application when its status is.
LEMMA WalletType ==
  ASSUME MemoryOK, NEW w \in 1 .. Len(wallets), NEW tier \in Nat, NEW active \in BOOLEAN,
         wallets' = [wallets EXCEPT ![w].tier = tier, ![w].active = active]
  PROVE  wallets' \in Seq(Wallet) /\ Len(wallets') = Len(wallets)
  <1>1. wallets[w] \in Wallet
    BY DEF MemoryOK
  <1>2. [wallets[w] EXCEPT !.tier = tier, !.active = active] \in Wallet
    BY <1>1 DEF Wallet
  <1>3. wallets' = [wallets EXCEPT ![w] = [wallets[w] EXCEPT !.tier = tier, !.active = active]]
    BY <1>1 DEF MemoryOK, Wallet
  <1>4. PICK x \in Wallet : wallets' = [wallets EXCEPT ![w] = x]
    BY <1>2, <1>3
  <1>5. wallets \in Seq(Wallet)
    BY DEF MemoryOK
  <1>6. /\ [wallets EXCEPT ![w] = x] \in Seq(Wallet)
        /\ Len([wallets EXCEPT ![w] = x]) = Len(wallets)
    BY <1>5, ExceptAt
  <1> QED BY <1>4, <1>6

LEMMA StatusType ==
  ASSUME MemoryOK, NEW a \in 1 .. Len(apps), NEW at \in Nat,
         NEW st \in {"pending", "approved", "rejected"},
         apps' = [apps EXCEPT ![a].status = st, ![a].approvedAt = at]
  PROVE  /\ apps' \in Seq(App) /\ Len(apps') = Len(apps)
         /\ \A b \in 1 .. Len(apps) : apps'[b].wallet = apps[b].wallet
  <1>0. apps[a] \in App
    BY DEF MemoryOK
  <1> DEFINE x == [apps[a] EXCEPT !.status = st, !.approvedAt = at]
  <1>1. apps[a] \in App /\ x \in App
    BY <1>0 DEF App
  <1>2. apps' = [apps EXCEPT ![a] = x]
    BY <1>1 DEF MemoryOK
  <1>4. x.wallet = apps[a].wallet
    BY <1>1 DEF App
  <1>5. PICK y \in App : apps' = [apps EXCEPT ![a] = y] /\ y.wallet = apps[a].wallet
    BY <1>1, <1>2, <1>4
  <1>6. apps \in Seq(App)
    BY DEF MemoryOK
  <1>3. /\ apps' \in Seq(App) /\ Len(apps') = Len(apps)
        /\ \A b \in 1 .. Len(apps) : apps'[b] = IF b = a THEN y ELSE apps[b]
    <2>1. /\ [apps EXCEPT ![a] = y] \in Seq(App)
          /\ Len([apps EXCEPT ![a] = y]) = Len(apps)
      BY <1>5, <1>6, ExceptAt
    <2>2. \A b \in 1 .. Len(apps) : apps'[b] = IF b = a THEN y ELSE apps[b]
      BY <1>5, <1>6
    <2> QED BY <1>5, <2>1, <2>2
  <1> QED BY <1>3, <1>5

LEMMA SubmitType ==
  ASSUME TypeOK, NEW u \in Users, NEW w \in DOMAIN wallets, NEW tier \in Requests,
         NEW sanctioned \in Sanctions, SubmitKYC(u, w, tier, sanctioned)
  PROVE  TypeOK'
  <1> USE TypeParts
  <1>1. MemoryOK /\ LoopOK /\ w \in 1 .. Len(wallets)
    BY DEF MemoryOK
  <1>3. wallets[w] \in Wallet
    BY <1>1 DEF MemoryOK
  <1>2. tier \in Nat /\ sanctioned \in BOOLEAN /\ Basic \in Nat /\ Approvals \in Nat
    <2>1. wallets[w].tier < tier /\ wallets[w].tier \in Nat
      BY <1>3 DEF SubmitKYC, Wallet
    <2>2. tier \in Int /\ sanctioned \in BOOLEAN
      BY ExchangeAssumption
    <2>3. Approvals \in Nat
      BY <1>1, ApprovalsType DEF MemoryOK
    <2> QED BY <2>1, <2>2, <2>3 DEF Basic
  <1> DEFINE auto == tier = Basic /\ ~sanctioned
             st == IF sanctioned THEN "rejected" ELSE IF auto THEN "approved" ELSE "pending"
             app == [user |-> u, wallet |-> w, tier |-> tier, status |-> st,
                     sanctioned |-> sanctioned,
                     approvedAt |-> IF auto THEN Approvals + 1 ELSE 0]
             tier2 == IF auto THEN Basic ELSE wallets[w].tier
             active2 == wallets[w].active /\ ~sanctioned
  <1>4. wallets' = [wallets EXCEPT ![w].tier = tier2, ![w].active = active2]
    BY <1>1, <1>3 DEF SubmitKYC, MemoryOK, Wallet
  <1>5. apps' = Append(apps, app)
    BY DEF SubmitKYC
  <1>6. tier2 \in Nat /\ active2 \in BOOLEAN
    BY <1>2, <1>3 DEF Wallet
  <1>7. app \in App
    BY <1>1, <1>2 DEF App
  <1> HIDE DEF app, tier2, active2
  <1>8. wallets' \in Seq(Wallet) /\ Len(wallets') = Len(wallets)
    BY <1>1, <1>4, <1>6, WalletType
  <1>9. /\ apps' \in Seq(App) /\ Len(apps') = Len(apps) + 1
        /\ \A a \in 1 .. Len(apps) : apps'[a] = apps[a]
        /\ apps'[Len(apps) + 1] = app
    BY <1>1, <1>5, <1>7, AppendAt DEF MemoryOK
  <1>10. \A a \in 1 .. Len(apps') : apps'[a].wallet \in 1 .. Len(wallets')
    <2>1. app.wallet = w
      BY DEF app
    <2>2. \A a \in 1 .. Len(apps') : a \in 1 .. Len(apps) \/ a = Len(apps) + 1
      BY <1>1, <1>9 DEF MemoryOK
    <2> QED BY <1>1, <1>8, <1>9, <2>1, <2>2 DEF MemoryOK
  <1>11. MemoryOK'
    BY <1>1, <1>8, <1>9, <1>10 DEF MemoryOK, SubmitKYC
  <1>12. LoopOK'
    BY <1>1 DEF LoopOK, SubmitKYC
  <1> QED BY <1>11, <1>12, SaveType DEF SubmitKYC

LEMMA ApproveType ==
  ASSUME TypeOK, NEW a \in DOMAIN apps, ApproveKYC(a)
  PROVE  TypeOK'
  <1> USE TypeParts
  <1>1. MemoryOK /\ LoopOK /\ a \in 1 .. Len(apps)
    BY DEF MemoryOK
  <1> DEFINE w == apps[a].wallet
  <1>2. apps[a] \in App /\ w \in 1 .. Len(wallets)
    BY <1>1 DEF MemoryOK
  <1>3. wallets[w] \in Wallet
    BY <1>1, <1>2 DEF MemoryOK
  <1>4. apps[a].tier \in Nat /\ wallets[w].active \in BOOLEAN
    BY <1>2, <1>3 DEF App, Wallet
  <1>5. wallets' = [wallets EXCEPT ![w].tier = apps[a].tier, ![w].active = wallets[w].active]
    BY <1>1, <1>2, <1>3 DEF ApproveKYC, MemoryOK, Wallet
  <1>6. wallets' \in Seq(Wallet) /\ Len(wallets') = Len(wallets)
    BY <1>1, <1>2, <1>4, <1>5, WalletType
  <1>7. /\ apps' \in Seq(App) /\ Len(apps') = Len(apps)
        /\ \A b \in 1 .. Len(apps) : apps'[b].wallet = apps[b].wallet
    <2>1. Approvals + 1 \in Nat
      BY <1>1, ApprovalsType DEF MemoryOK
    <2> QED BY <1>1, <2>1, StatusType DEF ApproveKYC
  <1>8. MemoryOK'
    BY <1>1, <1>6, <1>7 DEF MemoryOK, ApproveKYC
  <1>9. LoopOK'
    BY <1>1 DEF LoopOK, ApproveKYC
  <1> QED BY <1>8, <1>9, SaveType DEF ApproveKYC

LEMMA RejectType ==
  ASSUME TypeOK, NEW a \in DOMAIN apps, RejectKYC(a)
  PROVE  TypeOK'
  <1> USE TypeParts
  <1>1. MemoryOK /\ LoopOK /\ a \in 1 .. Len(apps)
    BY DEF MemoryOK
  <1>2. /\ apps' \in Seq(App) /\ Len(apps') = Len(apps)
        /\ \A b \in 1 .. Len(apps) : apps'[b].wallet = apps[b].wallet
    <2>1. apps[a] \in App /\ apps \in Seq(App)
      BY <1>1 DEF MemoryOK
    <2>2. apps' = [apps EXCEPT ![a].status = "rejected",
                               ![a].approvedAt = apps[a].approvedAt]
      BY <1>1, <2>1 DEF RejectKYC, App
    <2>3. apps[a].approvedAt \in Nat
      BY <2>1 DEF App
    <2> QED BY <1>1, <2>2, <2>3, StatusType
  <1>3. MemoryOK'
    BY <1>1, <1>2 DEF MemoryOK, RejectKYC
  <1>4. LoopOK'
    BY <1>1 DEF LoopOK, RejectKYC
  <1> QED BY <1>3, <1>4, SaveType DEF RejectKYC

-----------------------------------------------------------------------------
(* Types, of the order book.                                               *)

\* Setting one lock keeps the type of the locks.
LEMMA LockType ==
  ASSUME MemoryOK, NEW w \in 1 .. Len(wallets), NEW d \in Denoms, NEW x \in Int,
         locked' = [locked EXCEPT ![w][d] = x]
  PROVE  locked' \in Seq([Denoms -> Int]) /\ Len(locked') = Len(locked)
  <1>1. locked[w] \in [Denoms -> Int] /\ [locked[w] EXCEPT ![d] = x] \in [Denoms -> Int]
    BY DEF MemoryOK
  <1>2. locked' = [locked EXCEPT ![w] = [locked[w] EXCEPT ![d] = x]]
    BY DEF MemoryOK
  <1> QED BY <1>1, <1>2, ExceptAt DEF MemoryOK

\* What sort.Slice may make of a sequence is a sequence of the same elements.
LEMMA SortedType ==
  ASSUME NEW S, NEW s \in Seq(S), NEW os, NEW side, NEW t \in Sorted(os, side, s)
  PROVE  t \in Seq(S)
  <1>1. t \in [1 .. Len(s) -> {s[i] : i \in 1 .. Len(s)}]
    BY DEF Sorted
  <1>2. {s[i] : i \in 1 .. Len(s)} \subseteq S
    OBVIOUS
  <1>3. t \in [1 .. Len(s) -> S] /\ Len(s) \in Nat
    BY <1>1, <1>2
  <1> QED BY <1>3

LEMMA RebuiltType ==
  ASSUME NEW os \in Seq(Order), NEW side, NEW t \in Rebuilt(os, side)
  PROVE  t \in Seq(1 .. Len(os))
  <1> DEFINE ids == { o \in 1 .. Len(os) : Live(os[o]) /\ os[o].side = side }
  <1>1. t \in [1 .. Cardinality(ids) -> ids]
    BY DEF Rebuilt
  <1>2. IsFiniteSet(ids) /\ Cardinality(ids) \in Nat
    <2>1. IsFiniteSet(1 .. Len(os))
      BY FS_Interval
    <2> QED BY <2>1, FS_Subset, FS_CardinalityType
  <1>3. ids \subseteq 1 .. Len(os)
    OBVIOUS
  <1> HIDE DEF ids
  <1>4. t \in [1 .. Cardinality(ids) -> 1 .. Len(os)]
    BY <1>1, <1>3
  <1> QED BY <1>2, <1>4

\* What is offered is an integer price, and a quantity that the guard on the
\* size of the order makes positive.
LEMMA OfferType ==
  ASSUME NEW w, NEW side, NEW type \in OrderTypes, NEW offer \in Offers,
         PlaceOrder(w, side, type, offer[1], offer[2])
  PROVE  offer[1] \in Int /\ offer[2] \in Nat /\ type \in AllTypes
  <1>1. offer[1] \in Int /\ offer[2] \in Int /\ MinOrderSize \in Nat /\ type \in AllTypes
    BY ExchangeAssumption
  <1>2. offer[2] >= MinOrderSize
    BY DEF PlaceOrder
  <1> QED BY <1>1, <1>2

LEMMA PlaceType ==
  ASSUME TypeOK, NEW w \in DOMAIN wallets, NEW side \in Sides, NEW type \in OrderTypes,
         NEW offer \in Offers, PlaceOrder(w, side, type, offer[1], offer[2])
  PROVE  TypeOK'
  <1> USE TypeParts
  <1>1. MemoryOK /\ LoopOK /\ w \in 1 .. Len(wallets)
    BY DEF MemoryOK
  <1>2. offer[1] \in Int /\ offer[2] \in Nat /\ type \in AllTypes
    BY OfferType
  <1> DEFINE d == LockDenom(side)
             amount == LockAmount(side, offer[1], offer[2])
             ord == [wallet |-> w, side |-> side, type |-> type, price |-> offer[1],
                     qty |-> offer[2], filled |-> 0, remaining |-> offer[2],
                     status |-> "open"]
  <1>3. d \in Denoms /\ amount \in Int
    <2>1. QuoteAmount(offer[1], offer[2]) \in Int
      BY <1>2, QuoteAmountType, Zenon
    <2> QED BY <1>2, <2>1 DEF LockDenom, LockAmount, Denoms
  <1>4. locked[w] \in [Denoms -> Int]
    BY <1>1 DEF MemoryOK
  <1>5. locked' = [locked EXCEPT ![w][d] = locked[w][d] + amount]
        /\ locked[w][d] + amount \in Int
    BY <1>1, <1>3, <1>4 DEF PlaceOrder, MemoryOK
  <1>6. orders' = Append(orders, ord) /\ taker' = Len(orders) + 1 /\ idx' = 1
    BY DEF PlaceOrder
  <1>7. ord \in Order
    BY <1>1, <1>2 DEF Order, PlaceOrder
  <1>8. ord.wallet = w
    OBVIOUS
  <1> HIDE DEF d, amount, ord
  <1>9. locked' \in Seq([Denoms -> Int]) /\ Len(locked') = Len(locked)
    BY <1>1, <1>3, <1>5, LockType
  <1>10. /\ orders' \in Seq(Order) /\ Len(orders') = Len(orders) + 1
         /\ \A o \in 1 .. Len(orders) : orders'[o] = orders[o]
         /\ orders'[Len(orders) + 1] = ord
    BY <1>1, <1>6, <1>7, AppendAt DEF MemoryOK
  <1>11. \A o \in 1 .. Len(orders') : orders'[o].wallet \in 1 .. Len(wallets)
    <2>1. \A o \in 1 .. Len(orders') : o \in 1 .. Len(orders) \/ o = Len(orders) + 1
      BY <1>1, <1>10 DEF MemoryOK
    <2> QED BY <1>1, <1>8, <1>10, <2>1 DEF MemoryOK
  <1>12. MemoryOK'
    BY <1>1, <1>9, <1>10, <1>11 DEF MemoryOK, PlaceOrder
  <1>13. LoopOK'
    <2>1. Len(orders) \in Nat /\ 1 .. Len(orders) \subseteq 1 .. Len(orders')
      BY <1>1, <1>10 DEF MemoryOK
    <2>2. ASSUME NEW s \in Sides
          PROVE  book[s] \in Seq(1 .. Len(orders'))
      <3>1. book[s] \in Seq(1 .. Len(orders))
        BY <1>1 DEF LoopOK
      <3> QED BY <2>1, <3>1, SeqMonotone
    <2> QED BY <1>1, <1>6, <1>10, <2>1, <2>2 DEF LoopOK, PlaceOrder
  <1>14. FileOK(disk)'
    BY DEF PlaceOrder
  <1> QED BY <1>12, <1>13, <1>14

\* The facts about the taker and the maker that a fill starts from.
LEMMA FillFacts ==
  ASSUME TypeOK, Matching
  PROVE  /\ taker \in 1 .. Len(orders)
         /\ orders[taker] \in Order
         /\ orders[taker].side \in Sides
         /\ OppositeBook \in Seq(1 .. Len(orders))
         /\ idx \in 1 .. Len(OppositeBook)
         /\ OppositeBook[idx] \in 1 .. Len(orders)
         /\ orders[OppositeBook[idx]] \in Order
         /\ orders[taker].wallet \in 1 .. Len(wallets)
         /\ orders[OppositeBook[idx]].wallet \in 1 .. Len(wallets)
  <1>1. MemoryOK /\ LoopOK
    BY TypeParts
  <1>2. taker \in 1 .. Len(orders)
    BY <1>1 DEF LoopOK, MemoryOK, Matching, Idle
  <1>3. orders[taker] \in Order
    BY <1>1, <1>2 DEF MemoryOK
  <1>4. orders[taker].side \in Sides /\ Opposite(orders[taker].side) \in Sides
    BY <1>3 DEF Order, Opposite, Sides
  <1>5. OppositeBook \in Seq(1 .. Len(orders))
    BY <1>1, <1>4 DEF LoopOK, OppositeBook
  <1>6. idx \in 1 .. Len(OppositeBook)
    BY <1>1, <1>5 DEF LoopOK, Matching
  <1>7. OppositeBook[idx] \in 1 .. Len(orders)
    BY <1>5, <1>6
  <1>8. orders[OppositeBook[idx]] \in Order
    BY <1>1, <1>7 DEF MemoryOK
  <1> QED BY <1>1, <1>2, <1>3, <1>4, <1>5, <1>6, <1>7, <1>8 DEF MemoryOK

\* The quantity one iteration trades.
FillQty == IF orders[OppositeBook[idx]].remaining < orders[taker].remaining
           THEN orders[OppositeBook[idx]].remaining ELSE orders[taker].remaining

\* The two orders of a fill keep their types, and nobody else's order moves.
LEMMA FillOrders ==
  ASSUME TypeOK, Fill
  PROVE  LET m == OppositeBook[idx] IN
         /\ m # taker /\ FillQty \in Nat
         /\ FillQty <= orders[m].remaining /\ FillQty <= orders[taker].remaining
         /\ orders' \in Seq(Order) /\ Len(orders') = Len(orders)
         /\ \A o \in 1 .. Len(orders) :
               orders'[o] = IF o = taker THEN FillOrder(orders[o], FillQty)
                            ELSE IF o = m THEN FillMaker(orders[o], FillQty)
                            ELSE orders[o]
         /\ FillOrder(orders[taker], FillQty) \in Order
         /\ FillMaker(orders[m], FillQty) \in Order
  <1> DEFINE m == OppositeBook[idx]
             f == FillQty
  <1>1. Matching /\ orders[m].wallet # orders[taker].wallet
    BY DEF Fill
  <1>2. /\ taker \in 1 .. Len(orders) /\ m \in 1 .. Len(orders)
        /\ orders[taker] \in Order /\ orders[m] \in Order
    BY <1>1, FillFacts
  <1>3. orders \in Seq(Order)
    BY TypeParts DEF MemoryOK
  <1>4. m # taker
    BY <1>1
  <1>5. orders' = [orders EXCEPT ![taker] = FillOrder(@, f), ![m] = FillMaker(@, f)]
    BY DEF Fill, FillQty
  <1>6. f \in Nat /\ f <= orders[m].remaining /\ f <= orders[taker].remaining
    <2>1. PICK x \in Nat, y \in Nat :
             x = orders[m].remaining /\ y = orders[taker].remaining
      BY <1>2 DEF Order
    <2>2. f = IF x < y THEN x ELSE y
      BY <2>1 DEF FillQty
    <2> HIDE DEF m, f
    <2>3. f \in Nat /\ f <= x /\ f <= y
      BY <2>2
    <2> QED BY <2>1, <2>3
  <1> HIDE DEF m, f
  <1>7. FillOrder(orders[taker], f) \in Order /\ FillOrder(orders[m], f) \in Order
    <2>1. /\ orders[taker].filled + f \in Nat /\ orders[taker].remaining - f \in Nat
          /\ orders[m].filled + f \in Nat /\ orders[m].remaining - f \in Nat
      <3>1. /\ orders[taker].filled \in Nat /\ orders[taker].remaining \in Nat
            /\ orders[m].filled \in Nat /\ orders[m].remaining \in Nat
        BY <1>2 DEF Order
      <3> QED BY <1>6, <3>1
    <2>2. FillOrder(orders[taker], f) \in Order
      BY <1>2, <2>1 DEF FillOrder, Order
    <2>3. FillOrder(orders[m], f) \in Order
      BY <1>2, <2>1 DEF FillOrder, Order
    <2> QED BY <2>2, <2>3
  <1>8. FillMaker(orders[m], f) \in Order
    BY <1>7 DEF FillMaker, Order
  <1>9. PICK x \in Order, y \in Order :
           x = FillOrder(orders[taker], f) /\ y = FillMaker(orders[m], f)
    BY <1>7, <1>8
  <1>10. orders' = [[orders EXCEPT ![taker] = x] EXCEPT ![m] = y]
    BY <1>2, <1>3, <1>4, <1>5, <1>9
  <1>11. /\ [orders EXCEPT ![taker] = x] \in Seq(Order)
         /\ Len([orders EXCEPT ![taker] = x]) = Len(orders)
         /\ \A o \in 1 .. Len(orders) :
               [orders EXCEPT ![taker] = x][o] = IF o = taker THEN x ELSE orders[o]
    BY <1>2, <1>3, ExceptAt
  <1>12. /\ orders' \in Seq(Order) /\ Len(orders') = Len(orders)
         /\ \A o \in 1 .. Len(orders) : orders'[o] =
               IF o = m THEN y ELSE [orders EXCEPT ![taker] = x][o]
    BY <1>2, <1>10, <1>11, ExceptAt
  <1>13. \A o \in 1 .. Len(orders) :
            orders'[o] = IF o = taker THEN FillOrder(orders[o], f)
                         ELSE IF o = m THEN FillMaker(orders[o], f) ELSE orders[o]
    BY <1>4, <1>9, <1>11, <1>12
  <1> QED BY <1>4, <1>6, <1>7, <1>8, <1>12, <1>13 DEF m, f

\* A wallet's amounts.
Row == [Denoms -> Int]

\* Replacing one amount in a table of wallets and denoms.
LEMMA EntryAt ==
  ASSUME NEW F \in Seq(Row), NEW w \in 1 .. Len(F), NEW d \in Denoms,
         NEW x \in Int
  PROVE  /\ [F EXCEPT ![w][d] = x] \in Seq(Row)
         /\ Len([F EXCEPT ![w][d] = x]) = Len(F)
         /\ \A v \in 1 .. Len(F), e \in Denoms :
               [F EXCEPT ![w][d] = x][v][e] = IF v = w /\ e = d THEN x ELSE F[v][e]
  <1>1. F[w] \in Row
    OBVIOUS
  <1>2. PICK r \in Row : r = [F[w] EXCEPT ![d] = x]
    BY <1>1 DEF Row
  <1>3. [F EXCEPT ![w][d] = x] = [F EXCEPT ![w] = r]
    BY <1>1, <1>2
  <1>4. /\ [F EXCEPT ![w] = r] \in Seq(Row)
        /\ Len([F EXCEPT ![w] = r]) = Len(F)
        /\ \A v \in 1 .. Len(F) : [F EXCEPT ![w] = r][v] = IF v = w THEN r ELSE F[v]
    BY ExceptAt
  <1>5. \A e \in Denoms : r[e] = IF e = d THEN x ELSE F[w][e]
    BY <1>1, <1>2 DEF Row
  <1>6. \A v \in 1 .. Len(F), e \in Denoms :
           [F EXCEPT ![w] = r][v][e] = IF v = w /\ e = d THEN x ELSE F[v][e]
    BY <1>4, <1>5
  <1> QED BY <1>3, <1>4, <1>6

\* What a settlement of qty base tokens from seller s to buyer b, for amount,
\* makes of the balances and of the locks.
BalancesSettled(F, b, s, qty, amount, bFee, sFee) ==
    /\ F \in Seq(Row) /\ Len(F) = Len(bal)
    /\ \A w \in 1 .. Len(bal) :
          /\ F[w][Base] = IF w = b THEN bal[w][Base] + qty
                          ELSE IF w = s THEN bal[w][Base] - qty ELSE bal[w][Base]
          /\ F[w][Quote] = IF w = b THEN bal[w][Quote] - amount - bFee
                           ELSE IF w = s THEN bal[w][Quote] + amount - sFee
                           ELSE bal[w][Quote]

LocksSettled(G, b, s, qty, amount) ==
    /\ G \in Seq(Row) /\ Len(G) = Len(locked)
    /\ \A w \in 1 .. Len(locked) :
          /\ G[w][Base] = IF w = s THEN locked[w][Base] - qty ELSE locked[w][Base]
          /\ G[w][Quote] = IF w = b THEN locked[w][Quote] - amount ELSE locked[w][Quote]

LEMMA SettleType ==
  ASSUME MemoryOK, NEW b \in 1 .. Len(wallets), NEW s \in 1 .. Len(wallets), b # s,
         NEW qty \in Int, NEW amount \in Int, NEW bFee \in Int, NEW sFee \in Int
  PROVE  /\ BalancesSettled(SettleBalances(b, s, qty, amount, bFee, sFee), b, s, qty,
                            amount, bFee, sFee)
         /\ LocksSettled(SettleLocks(b, s, qty, amount), b, s, qty, amount)
  <1>1. /\ bal \in Seq(Row) /\ locked \in Seq(Row)
        /\ b \in 1 .. Len(bal) /\ s \in 1 .. Len(bal)
        /\ b \in 1 .. Len(locked) /\ s \in 1 .. Len(locked)
    BY DEF MemoryOK, Row
  <1>0. PICK B \in Denoms, Q \in Denoms : B = Base /\ Q = Quote /\ B # Q
    BY DEF Denoms, Base, Quote
  <1>2. /\ bal[b][B] + qty \in Int /\ bal[b][Q] - amount - bFee \in Int
        /\ bal[s][B] - qty \in Int /\ bal[s][Q] + amount - sFee \in Int
    <2>1. bal[b] \in Row /\ bal[s] \in Row
      BY <1>1
    <2>2. PICK x1 \in Int, x2 \in Int, x3 \in Int, x4 \in Int :
             x1 = bal[b][B] /\ x2 = bal[b][Q] /\ x3 = bal[s][B] /\ x4 = bal[s][Q]
      <3>1. /\ bal[b][B] \in Int /\ bal[b][Q] \in Int
            /\ bal[s][B] \in Int /\ bal[s][Q] \in Int
        BY <2>1 DEF Row
      <3> QED BY <3>1
    <2>3. /\ x1 + qty \in Int /\ x2 - amount - bFee \in Int
          /\ x3 - qty \in Int /\ x4 + amount - sFee \in Int
      OBVIOUS
    <2> QED BY <2>2, <2>3
  <1>3. PICK y1 \in Int, y2 \in Int :
           y1 = locked[b][Q] - amount /\ y2 = locked[s][B] - qty
    <2>1. locked[b] \in Row /\ locked[s] \in Row
      BY <1>1
    <2>2. locked[b][Q] \in Int /\ locked[s][B] \in Int
      BY <2>1 DEF Row
    <2> QED BY <2>2
  <1>20. PICK x1 \in Int, x2 \in Int, x3 \in Int, x4 \in Int :
           /\ x1 = bal[b][B] + qty /\ x2 = bal[b][Q] - amount - bFee
           /\ x3 = bal[s][B] - qty /\ x4 = bal[s][Q] + amount - sFee
    BY <1>2, Zenon
  <1>4. PICK F1 : F1 = [bal EXCEPT ![b][B] = x1]
    OBVIOUS
  <1>5. PICK F2 : F2 = [F1 EXCEPT ![b][Q] = x2]
    OBVIOUS
  <1>6. PICK F3 : F3 = [F2 EXCEPT ![s][B] = x3]
    OBVIOUS
  <1>7. PICK F4 : F4 = [F3 EXCEPT ![s][Q] = x4]
    OBVIOUS
  <1>8. SettleBalances(b, s, qty, amount, bFee, sFee) = F4
    BY <1>0, <1>1, <1>20, <1>4, <1>5, <1>6, <1>7 DEF SettleBalances, Denoms, Base, Quote
  <1>9. /\ F1 \in Seq(Row) /\ Len(F1) = Len(bal)
        /\ \A v \in 1 .. Len(bal), e \in Denoms :
              F1[v][e] = IF v = b /\ e = B THEN x1 ELSE bal[v][e]
    BY <1>1, <1>4, EntryAt, SMTT(30)
  <1>10. /\ F2 \in Seq(Row) /\ Len(F2) = Len(bal)
         /\ \A v \in 1 .. Len(bal), e \in Denoms :
               F2[v][e] = IF v = b /\ e = Q THEN x2 ELSE F1[v][e]
    BY <1>1, <1>5, <1>9, EntryAt, SMTT(30)
  <1>11. /\ F3 \in Seq(Row) /\ Len(F3) = Len(bal)
         /\ \A v \in 1 .. Len(bal), e \in Denoms :
               F3[v][e] = IF v = s /\ e = B THEN x3 ELSE F2[v][e]
    BY <1>1, <1>6, <1>10, EntryAt, SMTT(30)
  <1>12. /\ F4 \in Seq(Row) /\ Len(F4) = Len(bal)
         /\ \A v \in 1 .. Len(bal), e \in Denoms :
               F4[v][e] = IF v = s /\ e = Q THEN x4 ELSE F3[v][e]
    BY <1>1, <1>7, <1>11, EntryAt, SMTT(30)
  <1>13. \A v \in 1 .. Len(bal) :
            F4[v][B] = IF v = b THEN bal[v][B] + qty
                          ELSE IF v = s THEN bal[v][B] - qty ELSE bal[v][B]
    BY <1>0, <1>1, <1>20, <1>9, <1>10, <1>11, <1>12, SMTT(30)
  <1>21. \A v \in 1 .. Len(bal) :
            F4[v][Q] = IF v = b THEN bal[v][Q] - amount - bFee
                          ELSE IF v = s THEN bal[v][Q] + amount - sFee ELSE bal[v][Q]
    BY <1>0, <1>1, <1>20, <1>9, <1>10, <1>11, <1>12, SMTT(30)
  <1>14. PICK G1 : G1 = [locked EXCEPT ![b][Q] = y1]
    OBVIOUS
  <1>15. PICK G2 : G2 = [G1 EXCEPT ![s][B] = y2]
    OBVIOUS
  <1>16. SettleLocks(b, s, qty, amount) = G2
    BY <1>0, <1>1, <1>3, <1>14, <1>15 DEF SettleLocks, Denoms, Base, Quote
  <1>17. /\ G1 \in Seq(Row) /\ Len(G1) = Len(locked)
         /\ \A v \in 1 .. Len(locked), e \in Denoms :
               G1[v][e] = IF v = b /\ e = Q THEN y1 ELSE locked[v][e]
    BY <1>1, <1>14, EntryAt, SMTT(30)
  <1>18. /\ G2 \in Seq(Row) /\ Len(G2) = Len(locked)
         /\ \A v \in 1 .. Len(locked), e \in Denoms :
               G2[v][e] = IF v = s /\ e = B THEN y2 ELSE G1[v][e]
    BY <1>1, <1>15, <1>17, EntryAt, SMTT(30)
  <1>19. \A v \in 1 .. Len(locked) :
            G2[v][B] = IF v = s THEN locked[v][B] - qty ELSE locked[v][B]
    BY <1>0, <1>1, <1>3, <1>17, <1>18
  <1>22. \A v \in 1 .. Len(locked) :
            G2[v][Q] = IF v = b THEN locked[v][Q] - amount ELSE locked[v][Q]
    BY <1>0, <1>1, <1>3, <1>17, <1>18
  <1>23. BalancesSettled(F4, b, s, qty, amount, bFee, sFee)
    BY <1>0, <1>12, <1>13, <1>21 DEF BalancesSettled
  <1>24. LocksSettled(G2, b, s, qty, amount)
    BY <1>0, <1>18, <1>19, <1>22 DEF LocksSettled
  <1> QED BY <1>8, <1>16, <1>23, <1>24

\* The two orders of a fill by their sides, and what the buyer pays.
Buying == orders[taker].side = "buy"
BuyOrder == IF Buying THEN taker ELSE OppositeBook[idx]
SellOrder == IF Buying THEN OppositeBook[idx] ELSE taker
FillAmount == QuoteAmount(orders[OppositeBook[idx]].price, FillQty)

\* The two wallets of a fill, and what it does to balances and locks.
FillSettled(b, s, bFee, sFee) ==
    /\ b # s /\ b = orders[BuyOrder].wallet /\ s = orders[SellOrder].wallet
    /\ BalancesSettled(bal', b, s, FillQty, FillAmount, bFee, sFee)
    /\ LocksSettled(locked', b, s, FillQty, FillAmount)
    /\ LET tr == TradeOf(OppositeBook[idx], FillQty)
       IN  /\ bFee + sFee = tr.makerFee + tr.takerFee
           /\ bFee = IF Buying THEN tr.takerFee ELSE tr.makerFee
           /\ sFee = IF Buying THEN tr.makerFee ELSE tr.takerFee

LEMMA FillSettles ==
  ASSUME TypeOK, Fill
  PROVE  /\ TradeOf(OppositeBook[idx], FillQty) \in Trade
         /\ FillQty \in Nat /\ FillAmount \in Int
         /\ \E b, s \in 1 .. Len(wallets), bFee, sFee \in Int :
               FillSettled(b, s, bFee, sFee)
  <1> DEFINE t == orders[taker]
             m == OppositeBook[idx]
             mk == orders[m]
             f == FillQty
             tr == TradeOf(m, f)
             amount == QuoteAmount(mk.price, f)
  <1>1. MemoryOK /\ LoopOK /\ FileOK(disk)
    BY TypeParts
  <1>2. Matching /\ mk.wallet # t.wallet
    BY DEF Fill
  <1>3. /\ taker \in 1 .. Len(orders) /\ m \in 1 .. Len(orders)
        /\ t \in Order /\ mk \in Order /\ t.side \in Sides
        /\ OppositeBook \in Seq(1 .. Len(orders)) /\ idx \in 1 .. Len(OppositeBook)
        /\ t.wallet \in 1 .. Len(wallets) /\ mk.wallet \in 1 .. Len(wallets)
    BY <1>2, FillFacts
  <1>4. f \in Nat /\ orders' \in Seq(Order) /\ Len(orders') = Len(orders)
    BY FillOrders
  <1>5. mk.price \in Int /\ mk.side \in Sides /\ MakerFee \in Nat /\ TakerFee \in Nat
    BY <1>3, ExchangeAssumption DEF Order
  <1>6. amount \in Int
    BY <1>4, <1>5, QuoteAmountType
  <1>7. tr \in Trade /\ tr.makerFee \in Int /\ tr.takerFee \in Int
    <2>1. Fee(MakerFee, mk.price, f) \in Int /\ Fee(TakerFee, mk.price, f) \in Int
      BY <1>4, <1>5, FeeType
    <2>2. m \in Nat /\ taker \in Nat /\ today \in Days
      BY <1>1, <1>3 DEF LoopOK
    <2> QED BY <1>4, <1>5, <2>1, <2>2 DEF Trade, TradeOf
  <1>8. /\ bal' = IF t.side = "buy"
                  THEN SettleBalances(t.wallet, mk.wallet, f, amount, tr.takerFee, tr.makerFee)
                  ELSE SettleBalances(mk.wallet, t.wallet, f, amount, tr.makerFee, tr.takerFee)
        /\ locked' = IF t.side = "buy"
                     THEN SettleLocks(t.wallet, mk.wallet, f, amount)
                     ELSE SettleLocks(mk.wallet, t.wallet, f, amount)
    BY DEF Fill, FillQty
  <1> HIDE DEF t, m, mk, f, tr, amount
  <1>9. PICK b \in 1 .. Len(wallets), s \in 1 .. Len(wallets) :
           b = t.wallet /\ s = mk.wallet /\ b # s
    BY <1>2, <1>3
  <1>10. PICK tf \in Int, mf \in Int, q \in Nat, a \in Int :
            tf = tr.takerFee /\ mf = tr.makerFee /\ q = f /\ a = amount
    BY <1>4, <1>6, <1>7
  <1>11. MemoryOK /\ b # s /\ tf \in Int /\ mf \in Int /\ q \in Int /\ a \in Int
    BY <1>1, <1>9
  <1>14. f \in Nat /\ amount \in Int /\ amount = FillAmount /\ f = FillQty
         /\ tr = TradeOf(OppositeBook[idx], FillQty)
    BY <1>4, <1>6 DEF FillAmount, f, amount, mk, m, tr
  <1>12. CASE t.side = "buy"
    <2>1. bal' = SettleBalances(b, s, q, a, tf, mf) /\ locked' = SettleLocks(b, s, q, a)
      BY <1>8, <1>9, <1>10, <1>12
    <2>2. BalancesSettled(bal', b, s, q, a, tf, mf) /\ LocksSettled(locked', b, s, q, a)
      BY <1>11, <2>1, SettleType
    <2>3. b = orders[BuyOrder].wallet /\ s = orders[SellOrder].wallet
      BY <1>9, <1>12 DEF BuyOrder, SellOrder, Buying, t, mk, m
    <2>5. Buying
      BY <1>12 DEF Buying, t
    <2>4. FillSettled(b, s, tf, mf)
      BY <1>9, <1>10, <1>14, <2>2, <2>3, <2>5 DEF FillSettled
    <2> QED BY <1>7, <1>14, <2>4
  <1>13. CASE t.side # "buy"
    <2>1. bal' = SettleBalances(s, b, q, a, mf, tf) /\ locked' = SettleLocks(s, b, q, a)
      BY <1>8, <1>9, <1>10, <1>13
    <2>2. BalancesSettled(bal', s, b, q, a, mf, tf) /\ LocksSettled(locked', s, b, q, a)
      BY <1>11, <2>1, SettleType
    <2>3. s = orders[BuyOrder].wallet /\ b = orders[SellOrder].wallet
      BY <1>9, <1>13 DEF BuyOrder, SellOrder, Buying, t, mk, m
    <2>5. ~Buying
      BY <1>13 DEF Buying, t
    <2>4. FillSettled(s, b, mf, tf)
      BY <1>9, <1>10, <1>14, <2>2, <2>3, <2>5 DEF FillSettled
    <2> QED BY <1>7, <1>14, <2>4
  <1> QED BY <1>12, <1>13

LEMMA FillType ==
  ASSUME TypeOK, Fill
  PROVE  TypeOK'
  <1> DEFINE t == orders[taker]
             m == OppositeBook[idx]
             mk == orders[m]
             f == FillQty
             tr == TradeOf(m, f)
             amount == QuoteAmount(mk.price, f)
  <1>1. MemoryOK /\ LoopOK /\ FileOK(disk)
    BY TypeParts
  <1>2. Matching /\ mk.wallet # t.wallet
    BY DEF Fill
  <1>3. /\ mk \in Order /\ t.side \in Sides
        /\ OppositeBook \in Seq(1 .. Len(orders)) /\ idx \in 1 .. Len(OppositeBook)
    BY <1>2, FillFacts
  <1>4. f \in Nat /\ orders' \in Seq(Order) /\ Len(orders') = Len(orders)
    BY FillOrders
  <1>5. mk.price \in Int
    BY <1>3 DEF Order
  <1>6. amount \in Int
    BY <1>4, <1>5, QuoteAmountType
  <1>7. tr \in Trade
    BY FillSettles
  <1>8. trades' \in Seq(Trade)
    <2>1. trades' = Append(trades, tr)
      BY DEF Fill, FillQty
    <2> HIDE DEF tr
    <2> QED BY <1>1, <1>7, <2>1, AppendAt DEF MemoryOK
  <1>9. /\ bal' \in Seq([Denoms -> Int]) /\ Len(bal') = Len(bal)
        /\ locked' \in Seq([Denoms -> Int]) /\ Len(locked') = Len(locked)
    <2>1. PICK b, sel, bFee, sFee : FillSettled(b, sel, bFee, sFee)
      BY FillSettles
    <2> QED BY <2>1 DEF FillSettled, BalancesSettled, LocksSettled, Row
  <1>10. volume' \in [Users \X Days -> Int]
    <2>1. PICK u, v, made, taken : volume' = AddVolume(u, v, amount, made, taken)
      BY DEF Fill, FillQty
    <2> HIDE DEF amount
    <2> QED BY <1>1, <1>6, <2>1 DEF AddVolume, MemoryOK
  <1>11. \A o \in 1 .. Len(orders) : orders'[o].wallet = orders[o].wallet
    <2>1. ASSUME NEW o \in Order, NEW g
          PROVE  FillOrder(o, g).wallet = o.wallet /\ FillMaker(o, g).wallet = o.wallet
      BY DEF FillOrder, FillMaker, Order
    <2>2. \A o \in 1 .. Len(orders) : orders[o] \in Order
      BY <1>1 DEF MemoryOK
    <2>3. \A o \in 1 .. Len(orders) :
             orders'[o] = IF o = taker THEN FillOrder(orders[o], f)
                          ELSE IF o = m THEN FillMaker(orders[o], f) ELSE orders[o]
      BY FillOrders
    <2> QED BY <2>1, <2>2, <2>3
  <1>12. MemoryOK'
    BY <1>1, <1>4, <1>8, <1>9, <1>10, <1>11 DEF MemoryOK, Fill
  <1>13. book' \in [Sides -> Seq(1 .. Len(orders'))] /\ idx' \in Nat \ {0}
    <2>1. \/ book' = [book EXCEPT ![Opposite(t.side)] = RemoveAt(@, idx)] /\ idx' = idx
          \/ book' = book /\ idx' = idx + 1
      BY DEF Fill
    <2>2. CASE book' = book /\ idx' = idx + 1
      BY <1>1, <1>4, <2>2 DEF LoopOK
    <2>3. CASE book' = [book EXCEPT ![Opposite(t.side)] = RemoveAt(@, idx)] /\ idx' = idx
      <3>1. RemoveAt(OppositeBook, idx) \in Seq(1 .. Len(orders))
        BY <1>3, RemoveAtType
      <3>2. book' = [book EXCEPT ![Opposite(t.side)] = RemoveAt(OppositeBook, idx)]
        BY <1>1, <1>3, <2>3 DEF LoopOK, OppositeBook, Opposite, Sides
      <3> QED BY <1>1, <1>4, <2>3, <3>1, <3>2 DEF LoopOK
    <2> QED BY <2>1, <2>2, <2>3
  <1>14. LoopOK'
    <2>1. PICK made \in today .. MaxDays : \E taken \in made .. MaxDays : today' = taken
      BY DEF Fill
    <2>2. today' \in Days
      BY <1>1, <2>1, ExchangeAssumption DEF LoopOK, Days
    <2> QED BY <1>1, <1>4, <1>13, <2>2 DEF LoopOK, Fill
  <1>15. FileOK(disk)'
    BY <1>1 DEF Fill
  <1> QED BY <1>12, <1>14, <1>15, TypeParts

\* An order keeps its type when its status is set.
LEMMA OrderStatusType ==
  ASSUME MemoryOK, NEW o \in 1 .. Len(orders),
         NEW st \in {"open", "partial", "filled", "cancelled"},
         orders' = [orders EXCEPT ![o].status = st]
  PROVE  /\ orders' \in Seq(Order) /\ Len(orders') = Len(orders)
         /\ \A p \in 1 .. Len(orders) : orders'[p].wallet = orders[p].wallet
         /\ \A p \in 1 .. Len(orders) : p # o => orders'[p] = orders[p]
         /\ orders'[o] = [orders[o] EXCEPT !.status = st]
  <1>1. orders[o] \in Order /\ orders \in Seq(Order)
    BY DEF MemoryOK
  <1>2. [orders[o] EXCEPT !.status = st] \in Order
    BY <1>1 DEF Order
  <1>3. PICK x \in Order : x = [orders[o] EXCEPT !.status = st]
    BY <1>2
  <1>4. orders' = [orders EXCEPT ![o] = x]
    BY <1>1, <1>3
  <1>5. /\ orders' \in Seq(Order) /\ Len(orders') = Len(orders)
        /\ \A p \in 1 .. Len(orders) : orders'[p] = IF p = o THEN x ELSE orders[p]
    BY <1>1, <1>4, ExceptAt
  <1>6. x.wallet = orders[o].wallet
    BY <1>1, <1>3 DEF Order
  <1> QED BY <1>3, <1>5, <1>6

\* Removing an order from a book leaves a book.
LEMMA WithoutType ==
  ASSUME NEW S, NEW s \in Seq(S), NEW o
  PROVE  Without(s, o) \in Seq(S)
  <1>1. CASE \A i \in DOMAIN s : s[i] # o
    BY <1>1 DEF Without
  <1>2. CASE ~(\A i \in DOMAIN s : s[i] # o)
    <2> DEFINE i == CHOOSE i \in DOMAIN s :
                       s[i] = o /\ \A j \in 1 .. i - 1 : s[j] # o
    <2>1. Without(s, o) = RemoveAt(s, i)
      BY <1>2 DEF Without
    <2>2. RemoveAt(s, i) \in Seq(S)
      BY RemoveAtType
    <2> QED BY <2>1, <2>2
  <1> QED BY <1>1, <1>2

LEMMA FinishType ==
  ASSUME TypeOK, FinishOrder
  PROVE  TypeOK'
  <1> DEFINE t == orders[taker]
             st == IF t.remaining = 0 THEN "filled"
                   ELSE IF t.filled > 0 THEN "partial" ELSE t.status
  <1>1. MemoryOK /\ LoopOK
    BY TypeParts
  <1>2. taker \in 1 .. Len(orders)
    BY <1>1 DEF LoopOK, MemoryOK, FinishOrder, Idle
  <1>3. t \in Order
    BY <1>1, <1>2 DEF MemoryOK
  <1>4. orders' = [orders EXCEPT ![taker].status = st]
    BY DEF FinishOrder
  <1>5. st \in {"open", "partial", "filled", "cancelled"} /\ t.side \in Sides
    BY <1>3 DEF Order
  <1> HIDE DEF st
  <1>6. /\ orders' \in Seq(Order) /\ Len(orders') = Len(orders)
        /\ \A o \in 1 .. Len(orders) : orders'[o].wallet = orders[o].wallet
    BY <1>1, <1>2, <1>4, <1>5, OrderStatusType
  <1>7. MemoryOK'
    BY <1>1, <1>6 DEF MemoryOK, FinishOrder
  <1>8. book' \in [Sides -> Seq(1 .. Len(orders'))]
    <2>1. \/ book' = book
          \/ \E s \in Sorted(orders, t.side, Append(book[t.side], taker)) :
                book' = [book EXCEPT ![t.side] = s]
      BY DEF FinishOrder
    <2>2. book[t.side] \in Seq(1 .. Len(orders))
      BY <1>1, <1>5 DEF LoopOK
    <2>3. Append(book[t.side], taker) \in Seq(1 .. Len(orders))
      BY <1>2, <2>2
    <2>4. \A s \in Sorted(orders, t.side, Append(book[t.side], taker)) :
             s \in Seq(1 .. Len(orders))
      BY <2>3, SortedType
    <2> QED BY <1>1, <1>5, <1>6, <2>1, <2>4 DEF LoopOK
  <1>9. LoopOK'
    BY <1>1, <1>6, <1>8 DEF LoopOK, FinishOrder, MemoryOK
  <1> QED BY <1>7, <1>9, SaveType, TypeParts DEF FinishOrder

LEMMA CancelType ==
  ASSUME TypeOK, NEW o \in DOMAIN orders, NEW w \in DOMAIN wallets, CancelOrder(o, w)
  PROVE  TypeOK'
  <1> DEFINE t == orders[o]
             d == LockDenom(t.side)
             amount == ReleaseAmount(t)
  <1>1. MemoryOK /\ LoopOK /\ o \in 1 .. Len(orders) /\ w \in 1 .. Len(wallets)
    BY TypeParts DEF MemoryOK
  <1>2. t \in Order
    BY <1>1 DEF MemoryOK
  <1>3. t.side \in Sides /\ t.price \in Int /\ t.remaining \in Nat
    BY <1>2 DEF Order
  <1>4. d \in Denoms /\ amount \in Int
    BY <1>3, QuoteAmountType DEF LockDenom, LockAmount, ReleaseAmount, Denoms
  <1>5. locked[w] \in [Denoms -> Int]
    BY <1>1 DEF MemoryOK
  <1>6. locked' = [locked EXCEPT ![w][d] = locked[w][d] - amount]
        /\ locked[w][d] - amount \in Int
    BY <1>1, <1>4, <1>5 DEF CancelOrder, MemoryOK
  <1>7. orders' = [orders EXCEPT ![o].status = "cancelled"]
    BY DEF CancelOrder
  <1>8. /\ orders' \in Seq(Order) /\ Len(orders') = Len(orders)
        /\ \A p \in 1 .. Len(orders) : orders'[p].wallet = orders[p].wallet
    BY <1>1, <1>7, OrderStatusType
  <1> HIDE DEF d, amount
  <1>9. locked' \in Seq([Denoms -> Int]) /\ Len(locked') = Len(locked)
    BY <1>1, <1>4, <1>6, LockType
  <1>10. MemoryOK'
    BY <1>1, <1>8, <1>9 DEF MemoryOK, CancelOrder
  <1>11. book' \in [Sides -> Seq(1 .. Len(orders'))]
    <2>1. book[t.side] \in Seq(1 .. Len(orders))
      BY <1>1, <1>3 DEF LoopOK
    <2>2. Without(book[t.side], o) \in Seq(1 .. Len(orders))
      BY <2>1, WithoutType
    <2>3. book' = [book EXCEPT ![t.side] = Without(book[t.side], o)]
      BY DEF CancelOrder
    <2> QED BY <1>1, <1>3, <1>8, <2>2, <2>3 DEF LoopOK
  <1>12. LoopOK'
    BY <1>1, <1>8, <1>11 DEF LoopOK, CancelOrder
  <1> QED BY <1>10, <1>12, SaveType, TypeParts DEF CancelOrder

LEMMA RestartType ==
  ASSUME TypeOK, Restart
  PROVE  TypeOK'
  <1>1. PICK file \in {disk} \cup (IF TornWrites THEN {Blank} ELSE {}) :
           /\ wallets' = file.wallets /\ bal' = file.bal
           /\ locked' = file.locked /\ orders' = file.orders
           /\ trades' = file.trades /\ apps' = file.apps
           /\ volume' = file.volume
           /\ \E b \in Rebuilt(file.orders, "buy"), s \in Rebuilt(file.orders, "sell") :
                 book' = [side \in Sides |-> IF side = "buy" THEN b ELSE s]
           /\ taker' = 0 /\ idx' = 1
           /\ disk' = file
           /\ today' = today
    BY DEF Restart
  <1>2. FileOK(file)
    BY <1>1, TypeParts, BlankType
  <1>3. MemoryOK'
    BY <1>1, <1>2 DEF MemoryOK, FileOK
  <1>4. FileOK(disk)'
    BY <1>1, <1>2 DEF FileOK
  <1>5. book' \in [Sides -> Seq(1 .. Len(orders'))]
    <2>1. file.orders \in Seq(Order)
      BY <1>2 DEF FileOK
    <2>2. PICK b, s : /\ b \in Rebuilt(file.orders, "buy")
                      /\ s \in Rebuilt(file.orders, "sell")
                      /\ book' = [side \in Sides |-> IF side = "buy" THEN b ELSE s]
      BY <1>1
    <2>3. b \in Seq(1 .. Len(file.orders)) /\ s \in Seq(1 .. Len(file.orders))
      BY <2>1, <2>2, RebuiltType
    <2> QED BY <1>1, <2>2, <2>3
  <1>6. LoopOK'
    BY <1>1, <1>3, <1>5, TypeParts DEF LoopOK, MemoryOK
  <1> QED BY <1>3, <1>4, <1>6, TypeParts

LEMMA TypeStep == TypeOK /\ [Next]_vars => TypeOK'
  <1> SUFFICES ASSUME TypeOK, [Next]_vars
               PROVE  TypeOK'
    OBVIOUS
  <1>1. ASSUME NEW u \in Users, CreateWallet(u)
        PROVE  TypeOK'
    BY <1>1, CreateWalletType
  <1>2. ASSUME NEW w \in DOMAIN wallets, NEW d \in Denoms, NEW amount \in Deposits[d],
               DepositToWallet(w, d, amount)
        PROVE  TypeOK'
    BY <1>2, DepositType
  <1>3. ASSUME NEW w \in DOMAIN wallets, NEW d \in Denoms, NEW amount \in Withdrawals[d],
               WithdrawFromWallet(w, d, amount)
        PROVE  TypeOK'
    BY <1>3, WithdrawType
  <1>4. ASSUME NEW u \in Users, NEW w \in DOMAIN wallets, NEW tier \in Requests,
               NEW sanctioned \in Sanctions, SubmitKYC(u, w, tier, sanctioned)
        PROVE  TypeOK'
    BY <1>4, SubmitType
  <1>5. ASSUME NEW a \in DOMAIN apps, ApproveKYC(a) \/ RejectKYC(a)
        PROVE  TypeOK'
    BY <1>5, ApproveType, RejectType
  <1>6. ASSUME NEW w \in DOMAIN wallets, NEW side \in Sides, NEW type \in OrderTypes,
               NEW offer \in Offers, PlaceOrder(w, side, type, offer[1], offer[2])
        PROVE  TypeOK'
    BY <1>6, PlaceType
  <1>7. CASE SkipOwn
    <2>1. MemoryOK' /\ FileOK(disk)'
      BY <1>7, TypeParts DEF SkipOwn, persistent, MemoryOK
    <2>2. LoopOK'
      BY <1>7, TypeParts DEF SkipOwn, persistent, LoopOK
    <2> QED BY <2>1, <2>2, TypeParts
  <1>8. CASE Fill
    BY <1>8, FillType
  <1>9. CASE FinishOrder
    BY <1>9, FinishType
  <1>10. ASSUME NEW o \in DOMAIN orders, NEW w \in DOMAIN wallets, CancelOrder(o, w)
         PROVE  TypeOK'
    BY <1>10, CancelType
  <1>11. CASE NewDay
    <2>1. MemoryOK' /\ FileOK(disk)'
      BY <1>11, TypeParts DEF NewDay, persistent, MemoryOK
    <2>2. LoopOK'
      BY <1>11, TypeParts, ExchangeAssumption DEF NewDay, persistent, LoopOK, Days
    <2> QED BY <2>1, <2>2, TypeParts
  <1>12. CASE Restart
    BY <1>12, RestartType
  <1>13. CASE UNCHANGED vars
    <2>1. MemoryOK' /\ FileOK(disk)' /\ LoopOK'
      BY <1>13, TypeParts DEF vars, persistent, MemoryOK, LoopOK
    <2> QED BY <2>1, TypeParts
  <1> QED
    BY <1>1, <1>2, <1>3, <1>4, <1>5, <1>6, <1>7, <1>8, <1>9, <1>10, <1>11, <1>12, <1>13
    DEF Next, Operate

LEMMA TypeInit == Init => TypeOK
  <1> SUFFICES ASSUME Init
               PROVE  TypeOK
    OBVIOUS
  <1>1. MemoryOK
    BY DEF Init, MemoryOK
  <1>2. FileOK(disk)
    BY BlankType DEF Init
  <1>3. LoopOK
    BY ExchangeAssumption DEF Init, LoopOK, Days
  <1> QED BY <1>1, <1>2, <1>3, TypeParts

\* TypeOK: every variable keeps its type, in memory and in the state file, over
\* every operation, match, crash and torn write; orders and applications always
\* belong to a wallet that exists.
THEOREM TypeCorrect == Spec => []TypeOK
  <1> QED BY TypeInit, TypeStep, PTL DEF Spec

-----------------------------------------------------------------------------
(* The accounting of orders.  OrderAccounting is inductive with TypeOK: it  *)
(* speaks of the file too, which is what a restart brings back.             *)

MemoryAccounted ==
    \A o \in 1 .. Len(orders) :
        IF o = taker THEN BeingMatched(orders[o]) ELSE Accounted(orders[o])

DiskAccounted == \A o \in 1 .. Len(disk.orders) : Accounted(disk.orders[o])

LEMMA AccountingParts ==
  /\ OrderAccounting <=> MemoryAccounted /\ DiskAccounted
  /\ OrderAccounting' <=> MemoryAccounted' /\ DiskAccounted'
  BY DEF OrderAccounting, MemoryAccounted, DiskAccounted

\* What is saved while no order is being matched is accounted for.
LEMMA SaveAccounting ==
  ASSUME MemoryAccounted', Save, taker' = 0
  PROVE  OrderAccounting'
  <1>1. disk'.orders = orders'
    BY DEF Save, Persisted
  <1>2. \A o \in 1 .. Len(orders') : o # taker'
    OBVIOUS
  <1>3. DiskAccounted'
    BY <1>1, <1>2 DEF DiskAccounted, MemoryAccounted
  <1> QED BY <1>3, AccountingParts

\* An operation that saves and leaves the orders alone.
LEMMA SameOrdersAccounting ==
  ASSUME OrderAccounting, orders' = orders, taker' = taker,
         disk' = disk \/ (Save /\ taker = 0)
  PROVE  OrderAccounting'
  <1>1. MemoryAccounted'
    BY AccountingParts DEF MemoryAccounted
  <1>2. CASE disk' = disk
    BY <1>1, <1>2, AccountingParts DEF DiskAccounted
  <1>3. CASE Save /\ taker = 0
    BY <1>1, <1>3, SaveAccounting
  <1> QED BY <1>2, <1>3

LEMMA PlaceAccounting ==
  ASSUME TypeOK, OrderAccounting, NEW w \in DOMAIN wallets, NEW side \in Sides,
         NEW type \in OrderTypes, NEW offer \in Offers,
         PlaceOrder(w, side, type, offer[1], offer[2])
  PROVE  OrderAccounting'
  <1> DEFINE ord == [wallet |-> w, side |-> side, type |-> type, price |-> offer[1],
                     qty |-> offer[2], filled |-> 0, remaining |-> offer[2],
                     status |-> "open"]
  <1>1. MemoryOK /\ w \in 1 .. Len(wallets)
    BY TypeParts DEF MemoryOK
  <1>2. offer[1] \in Int /\ offer[2] \in Nat /\ type \in AllTypes
    BY OfferType
  <1>3. ord \in Order
    BY <1>1, <1>2 DEF Order, PlaceOrder
  <1>4. BeingMatched(ord)
    <2>1. offer[2] >= MinOrderSize /\ MinOrderSize \in Nat \ {0}
      BY ExchangeAssumption DEF PlaceOrder
    <2> QED BY <1>2, <2>1 DEF BeingMatched
  <1>5. /\ orders' = Append(orders, ord) /\ taker' = Len(orders) + 1
        /\ taker = 0 /\ disk' = disk
    BY DEF PlaceOrder, Idle
  <1> HIDE DEF ord
  <1>6. /\ Len(orders') = Len(orders) + 1 /\ Len(orders) \in Nat
        /\ \A o \in 1 .. Len(orders) : orders'[o] = orders[o]
        /\ orders'[Len(orders) + 1] = ord
    BY <1>1, <1>3, <1>5, AppendAt DEF MemoryOK
  <1>7. \A o \in 1 .. Len(orders) : o # taker /\ o # taker'
    BY <1>5, <1>6
  <1>8. \A o \in 1 .. Len(orders') : o \in 1 .. Len(orders) \/ o = Len(orders) + 1
    BY <1>6
  <1>9. MemoryAccounted'
    BY <1>4, <1>5, <1>6, <1>7, <1>8, AccountingParts DEF MemoryAccounted
  <1> QED BY <1>5, <1>9, AccountingParts DEF DiskAccounted

\* The fields of a maker after a fill.
LEMMA MakerFields ==
  ASSUME NEW o \in Order, NEW f
  PROVE  /\ FillMaker(o, f).filled = o.filled + f
         /\ FillMaker(o, f).remaining = o.remaining - f
         /\ FillMaker(o, f).qty = o.qty
         /\ FillMaker(o, f).status = IF o.remaining = f THEN "filled" ELSE "partial"
  <1>1. PICK x, y : x = o.filled + f /\ y = o.remaining - f
    OBVIOUS
  <1>2. FillOrder(o, f) = [o EXCEPT !.filled = x, !.remaining = y]
    BY <1>1 DEF FillOrder, Order
  <1>3. FillMaker(o, f) = [o EXCEPT !.filled = x, !.remaining = y,
              !.status = IF o.remaining = f THEN "filled" ELSE "partial"]
    BY <1>2 DEF FillMaker
  <1> QED BY <1>1, <1>3 DEF Order

\* A fill leaves the taker to PlaceOrder and sets the maker's status itself.
LEMMA FillAccounting ==
  ASSUME TypeOK, OrderAccounting, Fill
  PROVE  OrderAccounting'
  <1> DEFINE m == OppositeBook[idx]
             t == orders[taker]
             mk == orders[m]
             f == FillQty
  <1>1. MemoryOK /\ Matching
    BY TypeParts DEF Fill
  <1>2. /\ taker \in 1 .. Len(orders) /\ m \in 1 .. Len(orders)
        /\ t \in Order /\ mk \in Order
    BY <1>1, FillFacts
  <1>3. /\ m # taker /\ f \in Nat /\ f <= mk.remaining /\ f <= t.remaining
        /\ Len(orders') = Len(orders)
        /\ \A o \in 1 .. Len(orders) :
              orders'[o] = IF o = taker THEN FillOrder(orders[o], f)
                           ELSE IF o = m THEN FillMaker(orders[o], f) ELSE orders[o]
    BY FillOrders
  <1>4. f = mk.remaining \/ f = t.remaining
    BY DEF FillQty
  <1>5. t.remaining > 0
    BY <1>1 DEF Matching
  <1>6. BeingMatched(t) /\ Accounted(mk)
    BY <1>2, <1>3, AccountingParts DEF MemoryAccounted
  <1> HIDE DEF m, t, mk, f
  <1>7. BeingMatched(FillOrder(t, f))
    <2>1. t.filled \in Nat /\ t.remaining \in Nat /\ t.qty \in Nat
      BY <1>2 DEF Order
    <2>2. /\ FillOrder(t, f).filled = t.filled + f
          /\ FillOrder(t, f).remaining = t.remaining - f
          /\ FillOrder(t, f).qty = t.qty /\ FillOrder(t, f).status = t.status
      BY <1>2 DEF FillOrder, Order
    <2> QED BY <1>3, <1>6, <2>1, <2>2 DEF BeingMatched
  <1>8. Accounted(FillMaker(mk, f))
    <2>1. mk.filled \in Nat /\ mk.remaining \in Nat /\ mk.qty \in Nat
          /\ t.remaining \in Nat
      BY <1>2 DEF Order
    <2>2. PICK x : x = FillMaker(mk, f)
      OBVIOUS
    <2>3. /\ x.filled = mk.filled + f /\ x.remaining = mk.remaining - f
          /\ x.qty = mk.qty
          /\ x.status = IF mk.remaining = f THEN "filled" ELSE "partial"
      BY <1>2, <2>2, MakerFields
    <2>4. mk.filled + mk.remaining = mk.qty
      BY <1>6 DEF Accounted
    <2>5. x.filled + x.remaining = x.qty
      BY <1>3, <2>1, <2>3, <2>4
    <2>6. CASE mk.remaining = f
      <3>1. x.remaining = 0
        BY <2>1, <2>3, <2>6
      <3> QED BY <2>2, <2>3, <2>5, <2>6, <3>1 DEF Accounted
    <2>7. CASE mk.remaining # f
      <3>1. f > 0 /\ x.remaining > 0 /\ x.filled > 0
        BY <1>3, <1>4, <1>5, <2>1, <2>3, <2>7
      <3> QED BY <2>2, <2>3, <2>5, <2>7, <3>1 DEF Accounted
    <2> QED BY <2>6, <2>7
  <1>9. taker' = taker /\ disk' = disk
    BY DEF Fill
  <1>10. MemoryAccounted'
    <2> SUFFICES ASSUME NEW o \in 1 .. Len(orders)
                 PROVE  IF o = taker THEN BeingMatched(orders'[o])
                                     ELSE Accounted(orders'[o])
      BY <1>3, <1>9 DEF MemoryAccounted
    <2>1. CASE o = taker
      BY <1>3, <1>7, <2>1 DEF t
    <2>2. CASE o = m
      BY <1>3, <1>8, <2>2 DEF mk
    <2>3. CASE o # taker /\ o # m
      BY <1>3, <2>3, AccountingParts DEF MemoryAccounted
    <2> QED BY <2>1, <2>2, <2>3
  <1> QED BY <1>9, <1>10, AccountingParts DEF DiskAccounted

LEMMA FinishAccounting ==
  ASSUME TypeOK, OrderAccounting, FinishOrder
  PROVE  OrderAccounting'
  <1> DEFINE t == orders[taker]
             st == IF t.remaining = 0 THEN "filled"
                   ELSE IF t.filled > 0 THEN "partial" ELSE t.status
  <1>1. MemoryOK /\ taker \in 1 .. Len(orders)
    BY TypeParts DEF LoopOK, MemoryOK, FinishOrder, Idle
  <1>2. t \in Order /\ t.filled \in Nat /\ t.remaining \in Nat
    <2>1. t \in Order
      BY <1>1 DEF MemoryOK
    <2> QED BY <2>1 DEF Order
  <1>3. orders' = [orders EXCEPT ![taker].status = st] /\ taker' = 0 /\ Save
    BY DEF FinishOrder
  <1>4. st \in {"open", "partial", "filled", "cancelled"}
    BY <1>2 DEF Order
  <1>5. BeingMatched(t)
    BY <1>1, AccountingParts DEF MemoryAccounted
  <1>6. Accounted([t EXCEPT !.status = st])
    <2>1. PICK x : x = [t EXCEPT !.status = st]
      OBVIOUS
    <2>2. x.filled = t.filled /\ x.remaining = t.remaining /\ x.qty = t.qty
          /\ x.status = st
      BY <1>2, <2>1 DEF Order
    <2>3. t.filled + t.remaining = t.qty /\ t.qty > 0 /\ t.status = "open"
      BY <1>5 DEF BeingMatched
    <2>4. CASE t.remaining = 0
      BY <2>1, <2>2, <2>3, <2>4 DEF Accounted
    <2>5. CASE t.remaining # 0 /\ t.filled > 0
      BY <1>2, <2>1, <2>2, <2>3, <2>5 DEF Accounted
    <2>6. CASE t.remaining # 0 /\ ~(t.filled > 0)
      BY <1>2, <2>1, <2>2, <2>3, <2>6 DEF Accounted
    <2> QED BY <2>4, <2>5, <2>6
  <1> HIDE DEF st
  <1>7. /\ Len(orders') = Len(orders)
        /\ \A p \in 1 .. Len(orders) : p # taker => orders'[p] = orders[p]
        /\ orders'[taker] = [t EXCEPT !.status = st]
    BY <1>1, <1>3, <1>4, OrderStatusType
  <1>8. MemoryAccounted'
    <2> SUFFICES ASSUME NEW o \in 1 .. Len(orders)
                 PROVE  o # taker' /\ Accounted(orders'[o])
      BY <1>7 DEF MemoryAccounted
    <2>1. o # taker'
      BY <1>3
    <2>2. CASE o = taker
      BY <1>6, <1>7, <2>1, <2>2
    <2>3. CASE o # taker
      BY <1>7, <2>1, <2>3, AccountingParts DEF MemoryAccounted
    <2> QED BY <2>2, <2>3
  <1> QED BY <1>3, <1>8, SaveAccounting

\* A live order has something left to trade, so a cancelled one has too.
LEMMA CancelAccounting ==
  ASSUME TypeOK, OrderAccounting, NEW o \in DOMAIN orders, NEW w \in DOMAIN wallets,
         CancelOrder(o, w)
  PROVE  OrderAccounting'
  <1> DEFINE t == orders[o]
  <1>1. MemoryOK /\ o \in 1 .. Len(orders)
    BY TypeParts DEF MemoryOK
  <1>2. /\ orders' = [orders EXCEPT ![o].status = "cancelled"] /\ Save
        /\ taker = 0 /\ taker' = 0 /\ t.status # "filled" /\ t.status # "cancelled"
    BY DEF CancelOrder, Idle
  <1>3. t \in Order
    BY <1>1 DEF MemoryOK
  <1>4. \A p \in 1 .. Len(orders) : p # 0 /\ Accounted(orders[p])
    BY <1>2, AccountingParts DEF MemoryAccounted
  <1>5. Accounted([t EXCEPT !.status = "cancelled"])
    <2>1. PICK x : x = [t EXCEPT !.status = "cancelled"]
      OBVIOUS
    <2>2. x.filled = t.filled /\ x.remaining = t.remaining /\ x.qty = t.qty
          /\ x.status = "cancelled"
      BY <1>3, <2>1 DEF Order
    <2>3. t.status \in {"open", "partial"}
      BY <1>2, <1>3 DEF Order
    <2>4. t.filled + t.remaining = t.qty /\ t.remaining > 0
      BY <1>1, <1>4, <2>3 DEF Accounted
    <2> QED BY <2>1, <2>2, <2>4 DEF Accounted
  <1>6. /\ Len(orders') = Len(orders)
        /\ \A p \in 1 .. Len(orders) : p # o => orders'[p] = orders[p]
        /\ orders'[o] = [t EXCEPT !.status = "cancelled"]
    BY <1>1, <1>2, OrderStatusType
  <1>7. MemoryAccounted'
    BY <1>2, <1>4, <1>5, <1>6 DEF MemoryAccounted
  <1> QED BY <1>2, <1>7, SaveAccounting

LEMMA RestartAccounting ==
  ASSUME OrderAccounting, Restart
  PROVE  OrderAccounting'
  <1>1. PICK file \in {disk} \cup (IF TornWrites THEN {Blank} ELSE {}) :
           orders' = file.orders /\ taker' = 0 /\ disk' = file
    BY DEF Restart
  <1>2. \A o \in 1 .. Len(file.orders) : o # 0 /\ Accounted(file.orders[o])
    <2>1. CASE file = disk
      BY <2>1, AccountingParts DEF DiskAccounted
    <2>2. CASE file = Blank
      BY <2>2 DEF Blank
    <2> QED BY <1>1, <2>1, <2>2
  <1>3. MemoryAccounted' /\ DiskAccounted'
    BY <1>1, <1>2 DEF MemoryAccounted, DiskAccounted
  <1> QED BY <1>3, AccountingParts

LEMMA AccountingStep == TypeOK /\ OrderAccounting /\ [Next]_vars => OrderAccounting'
  <1> SUFFICES ASSUME TypeOK, OrderAccounting, [Next]_vars
               PROVE  OrderAccounting'
    OBVIOUS
  <1>1. ASSUME \/ \E u \in Users : CreateWallet(u)
               \/ \E w \in DOMAIN wallets, d \in Denoms : \E amount \in Deposits[d] :
                     DepositToWallet(w, d, amount)
               \/ \E w \in DOMAIN wallets, d \in Denoms : \E amount \in Withdrawals[d] :
                     WithdrawFromWallet(w, d, amount)
               \/ \E u \in Users, w \in DOMAIN wallets, tier \in Requests,
                     sanctioned \in Sanctions : SubmitKYC(u, w, tier, sanctioned)
               \/ \E a \in DOMAIN apps : ApproveKYC(a) \/ RejectKYC(a)
        PROVE  OrderAccounting'
    <2> DEFINE Kept == orders' = orders /\ taker' = taker /\ Save /\ taker = 0
    <2>1. ASSUME NEW u, CreateWallet(u) PROVE Kept
      BY <2>1 DEF CreateWallet, Idle
    <2>2. ASSUME NEW w, NEW d, NEW amount,
                 DepositToWallet(w, d, amount) \/ WithdrawFromWallet(w, d, amount)
          PROVE  Kept
      BY <2>2 DEF DepositToWallet, WithdrawFromWallet, Idle
    <2>3. ASSUME NEW u, NEW w, NEW tier, NEW sanctioned, SubmitKYC(u, w, tier, sanctioned)
          PROVE  Kept
      BY <2>3 DEF SubmitKYC, Idle
    <2>4. ASSUME NEW a, ApproveKYC(a) \/ RejectKYC(a) PROVE Kept
      BY <2>4 DEF ApproveKYC, RejectKYC, Idle
    <2> HIDE DEF Kept
    <2>5. Kept
      BY <1>1, <2>1, <2>2, <2>3, <2>4
    <2> QED BY <2>5, SameOrdersAccounting DEF Kept
  <1>2. ASSUME NEW w \in DOMAIN wallets, NEW side \in Sides, NEW type \in OrderTypes,
               NEW offer \in Offers, PlaceOrder(w, side, type, offer[1], offer[2])
        PROVE  OrderAccounting'
    BY <1>2, PlaceAccounting
  <1>3. CASE SkipOwn \/ NewDay \/ UNCHANGED vars
    <2>1. orders' = orders /\ taker' = taker /\ disk' = disk
      BY <1>3 DEF SkipOwn, NewDay, vars, persistent
    <2> QED BY <2>1, SameOrdersAccounting
  <1>4. CASE Fill
    BY <1>4, FillAccounting
  <1>5. CASE FinishOrder
    BY <1>5, FinishAccounting
  <1>6. ASSUME NEW o \in DOMAIN orders, NEW w \in DOMAIN wallets, CancelOrder(o, w)
        PROVE  OrderAccounting'
    BY <1>6, CancelAccounting
  <1>7. CASE Restart
    BY <1>7, RestartAccounting
  <1> QED BY <1>1, <1>2, <1>3, <1>4, <1>5, <1>6, <1>7 DEF Next, Operate

\* OrderAccounting: for any number of trades, filled and remaining add up to
\* what was ordered, and an order's status agrees with them, in memory and in
\* the file a restart reads.
THEOREM OrdersAccounted == Spec => []OrderAccounting
  <1>1. Init => OrderAccounting
    BY DEF Init, OrderAccounting, Blank
  <1> QED BY <1>1, AccountingStep, TypeCorrect, PTL DEF Spec

-----------------------------------------------------------------------------
(* What can overdraw a wallet.  Each operation is followed on the base     *)
(* tokens a wallet has available; only types are needed of the state.      *)

Free(v) == bal[v][Base] - locked[v][Base]

\* No operation but a deposit takes more than there is.
Paid(v) ==
    \/ Free(v)' >= 0
    \/ v \in DOMAIN bal /\ Free(v)' >= Free(v)

Covered == \A v \in DOMAIN bal' : Paid(v)

\* Base amounts are integers, so they can be compared and moved.
LEMMA BaseAmounts ==
  ASSUME TypeOK, NEW w \in 1 .. Len(wallets)
  PROVE  /\ bal[w][Base] \in Int /\ locked[w][Base] \in Int
         /\ bal \in Seq(Row) /\ locked \in Seq(Row)
         /\ w \in 1 .. Len(bal) /\ w \in 1 .. Len(locked)
         /\ Len(bal) = Len(wallets) /\ Len(locked) = Len(wallets)
  <1>1. /\ bal \in Seq(Row) /\ locked \in Seq(Row)
        /\ Len(bal) = Len(wallets) /\ Len(locked) = Len(wallets)
    BY TypeParts DEF MemoryOK, Row
  <1>2. bal[w] \in Row /\ locked[w] \in Row
    BY <1>1
  <1>3. bal[w][Base] \in Int /\ locked[w][Base] \in Int
    BY <1>2 DEF Row, Denoms
  <1> QED BY <1>1, <1>3

LEMMA SameCovered ==
  ASSUME TypeOK, UNCHANGED <<bal, locked>>
  PROVE  Covered
  <1> SUFFICES ASSUME NEW v \in DOMAIN bal PROVE Free(v) \in Int
    BY DEF Covered, Paid, Free
  <1>1. v \in 1 .. Len(wallets)
    BY TypeParts DEF MemoryOK
  <1> QED BY <1>1, BaseAmounts DEF Free

\* Wallet w has y base tokens available after a step if d is the base
\* denomination, and every other wallet what it had.
Moved(w, d, y) ==
    /\ DOMAIN bal' = 1 .. Len(wallets) /\ DOMAIN bal = 1 .. Len(wallets)
    /\ \A v \in 1 .. Len(wallets) :
          /\ Free(v) \in Int
          /\ Free(v)' = IF v = w /\ d = Base THEN y ELSE Free(v)

LEMMA BalanceMoved ==
  ASSUME TypeOK, NEW w \in 1 .. Len(wallets), NEW d \in Denoms, NEW x \in Int,
         bal' = [bal EXCEPT ![w][d] = x], locked' = locked
  PROVE  Moved(w, d, x - locked[w][d])
  <1>1. /\ bal \in Seq(Row) /\ locked \in Seq(Row)
        /\ w \in 1 .. Len(bal) /\ Len(bal) = Len(wallets)
    BY BaseAmounts
  <1>2. PICK B \in Denoms : B = Base
    BY DEF Denoms
  <1>3. \A v \in 1 .. Len(wallets) : Free(v) \in Int
    BY BaseAmounts DEF Free
  <1>4. /\ \A v \in 1 .. Len(bal), e \in Denoms :
              bal'[v][e] = IF v = w /\ e = d THEN x ELSE bal[v][e]
        /\ bal' \in Seq(Row) /\ Len(bal') = Len(bal)
    BY <1>1, EntryAt
  <1>5. \A v \in 1 .. Len(wallets) :
           Free(v)' = IF v = w /\ d = Base THEN x - locked[w][d] ELSE Free(v)
    BY <1>1, <1>2, <1>4 DEF Free
  <1> QED BY <1>1, <1>3, <1>4, <1>5 DEF Moved

LEMMA LockMoved ==
  ASSUME TypeOK, NEW w \in 1 .. Len(wallets), NEW d \in Denoms, NEW x \in Int,
         locked' = [locked EXCEPT ![w][d] = x], bal' = bal
  PROVE  Moved(w, d, bal[w][d] - x)
  <1>1. /\ bal \in Seq(Row) /\ locked \in Seq(Row)
        /\ w \in 1 .. Len(locked) /\ Len(bal) = Len(wallets)
        /\ Len(locked) = Len(wallets)
    BY BaseAmounts
  <1>2. PICK B \in Denoms : B = Base
    BY DEF Denoms
  <1>3. \A v \in 1 .. Len(wallets) : Free(v) \in Int
    BY BaseAmounts DEF Free
  <1>4. \A v \in 1 .. Len(locked), e \in Denoms :
           locked'[v][e] = IF v = w /\ e = d THEN x ELSE locked[v][e]
    BY <1>1, EntryAt
  <1>5. \A v \in 1 .. Len(wallets) :
           Free(v)' = IF v = w /\ d = Base THEN bal[w][d] - x ELSE Free(v)
    BY <1>1, <1>2, <1>4 DEF Free
  <1> QED BY <1>1, <1>3, <1>5 DEF Moved

LEMMA CreateCovered ==
  ASSUME TypeOK, NEW u \in Users, CreateWallet(u)
  PROVE  Covered
  <1>1. /\ bal \in Seq(Row) /\ locked \in Seq(Row)
        /\ Len(bal) = Len(wallets) /\ Len(locked) = Len(wallets)
    BY TypeParts DEF MemoryOK, Row
  <1>2. PICK z \in Row : z = Zero /\ z[Base] = 0
    <2>1. Zero \in Row /\ Zero[Base] = 0
      BY DEF Zero, Row, Denoms
    <2> QED BY <2>1
  <1>3. bal' = Append(bal, z) /\ locked' = Append(locked, z)
    BY <1>2 DEF CreateWallet
  <1>4. /\ DOMAIN bal' = (1 .. Len(wallets)) \cup {Len(wallets) + 1}
        /\ \A v \in 1 .. Len(wallets) : bal'[v] = bal[v] /\ locked'[v] = locked[v]
        /\ bal'[Len(wallets) + 1] = z /\ locked'[Len(wallets) + 1] = z
    BY <1>1, <1>3, AppendAt
  <1> SUFFICES ASSUME NEW v \in DOMAIN bal' PROVE Paid(v)
    BY DEF Covered
  <1>5. CASE v \in 1 .. Len(wallets)
    <2>1. Free(v)' = Free(v) /\ v \in DOMAIN bal
      BY <1>1, <1>4, <1>5 DEF Free
    <2>2. Free(v) \in Int
      BY <1>5, BaseAmounts DEF Free
    <2> QED BY <2>1, <2>2 DEF Paid
  <1>6. CASE v = Len(wallets) + 1
    <2>1. bal'[v][Base] = 0 /\ locked'[v][Base] = 0
      BY <1>2, <1>4, <1>6
    <2> QED BY <2>1 DEF Paid, Free
  <1> QED BY <1>4, <1>5, <1>6

\* A deposit lowers what its wallet has available by a negative amount only.
LEMMA DepositCovered ==
  ASSUME TypeOK, NEW w \in DOMAIN wallets, NEW d \in Denoms,
         NEW amount \in Deposits[d], DepositToWallet(w, d, amount), NEW v \in DOMAIN bal'
  PROVE  Paid(v) \/ (v = w /\ d = Base /\ amount < 0)
  <1>1. w \in 1 .. Len(wallets) /\ bal \in Seq(Row) /\ locked \in Seq(Row)
        /\ Len(bal) = Len(wallets) /\ Len(locked) = Len(wallets)
    BY TypeParts DEF MemoryOK, Row
  <1>2. amount \in Int /\ bal[w][d] \in Int /\ locked[w][d] \in Int
    <2>1. bal[w] \in Row /\ locked[w] \in Row
      BY <1>1
    <2> QED BY <2>1, ExchangeAssumption DEF Row
  <1>3. PICK x \in Int, y \in Int : x = bal[w][d] + amount /\ y = locked[w][d]
    BY <1>2
  <1>4. bal' = [bal EXCEPT ![w][d] = x] /\ locked' = locked
    BY <1>1, <1>3 DEF DepositToWallet
  <1>8. Moved(w, d, x - locked[w][d])
    BY <1>1, <1>4, BalanceMoved
  <1>5. /\ v \in 1 .. Len(wallets) /\ v \in DOMAIN bal /\ Free(v) \in Int
        /\ Free(v)' = IF v = w /\ d = Base THEN x - y ELSE Free(v)
    BY <1>3, <1>8 DEF Moved
  <1>6. CASE v = w /\ d = Base
    <2>1. Free(v) = bal[w][d] - locked[w][d]
      BY <1>6 DEF Free
    <2>2. Free(v)' = Free(v) + amount
      BY <1>2, <1>3, <1>5, <1>6, <2>1
    <2> QED BY <1>2, <1>5, <1>6, <2>2 DEF Paid
  <1>7. CASE ~(v = w /\ d = Base)
    BY <1>5, <1>7 DEF Paid
  <1> QED BY <1>6, <1>7

LEMMA WithdrawCovered ==
  ASSUME TypeOK, NEW w \in DOMAIN wallets, NEW d \in Denoms,
         NEW amount \in Withdrawals[d], WithdrawFromWallet(w, d, amount)
  PROVE  Covered
  <1>1. w \in 1 .. Len(wallets) /\ bal \in Seq(Row) /\ locked \in Seq(Row)
        /\ Len(bal) = Len(wallets) /\ Len(locked) = Len(wallets)
    BY TypeParts DEF MemoryOK, Row
  <1>2. amount \in Int /\ bal[w][d] \in Int /\ locked[w][d] \in Int
    <2>1. bal[w] \in Row /\ locked[w] \in Row
      BY <1>1
    <2> QED BY <2>1, ExchangeAssumption DEF Row
  <1>3. PICK x \in Int, y \in Int : x = bal[w][d] - amount /\ y = locked[w][d]
    BY <1>2
  <1>4. bal' = [bal EXCEPT ![w][d] = x] /\ locked' = locked
    BY <1>1, <1>3 DEF WithdrawFromWallet
  <1>5. y <= x
    BY <1>2, <1>3 DEF WithdrawFromWallet, Available
  <1>6. Moved(w, d, x - y)
    BY <1>1, <1>3, <1>4, BalanceMoved
  <1> QED BY <1>3, <1>5, <1>6 DEF Covered, Paid, Moved

LEMMA PlaceCovered ==
  ASSUME TypeOK, NEW w \in DOMAIN wallets, NEW side \in Sides,
         NEW type \in OrderTypes, NEW offer \in Offers,
         PlaceOrder(w, side, type, offer[1], offer[2])
  PROVE  Covered
  <1> DEFINE d == LockDenom(side)
             amount == LockAmount(side, offer[1], offer[2])
  <1>1. w \in 1 .. Len(wallets) /\ bal \in Seq(Row) /\ locked \in Seq(Row)
        /\ Len(bal) = Len(wallets) /\ Len(locked) = Len(wallets)
    BY TypeParts DEF MemoryOK, Row
  <1>2. offer[1] \in Int /\ offer[2] \in Nat
    BY OfferType
  <1>3. d \in Denoms /\ amount \in Int
    <2>1. QuoteAmount(offer[1], offer[2]) \in Int
      BY <1>2, QuoteAmountType, Zenon
    <2> QED BY <1>2, <2>1 DEF LockDenom, LockAmount, Denoms
  <1>4. /\ amount <= Available(w, d) /\ bal' = bal
        /\ locked' = [locked EXCEPT ![w][d] = @ + amount]
    BY DEF PlaceOrder
  <1> HIDE DEF d, amount
  <1>5. bal[w][d] \in Int /\ locked[w][d] \in Int
    <2>1. bal[w] \in Row /\ locked[w] \in Row
      BY <1>1
    <2> QED BY <1>3, <2>1 DEF Row
  <1>6. PICK x \in Int, y \in Int : x = bal[w][d] /\ y = locked[w][d] + amount
    BY <1>3, <1>5
  <1>7. locked' = [locked EXCEPT ![w][d] = y]
    BY <1>1, <1>4, <1>6
  <1>8. y <= x
    BY <1>3, <1>4, <1>5, <1>6 DEF Available
  <1>9. Moved(w, d, x - y)
    BY <1>1, <1>3, <1>4, <1>6, <1>7, LockMoved
  <1> QED BY <1>6, <1>8, <1>9 DEF Covered, Paid, Moved

\* A fill takes the same quantity from the seller's balance and from its lock.
LEMMA FillCovered ==
  ASSUME TypeOK, Fill
  PROVE  Covered
  <1>1. PICK b \in 1 .. Len(wallets), s \in 1 .. Len(wallets), bFee \in Int, sFee \in Int :
           FillSettled(b, s, bFee, sFee)
    BY FillSettles
  <1>2. FillQty \in Nat
    BY FillOrders
  <1>3. /\ bal \in Seq(Row) /\ bal' \in Seq(Row) /\ Len(bal') = Len(bal)
        /\ Len(bal) = Len(wallets)
    BY <1>1, TypeParts DEF FillSettled, BalancesSettled, MemoryOK, Row
  <1> SUFFICES ASSUME NEW w \in 1 .. Len(wallets)
               PROVE  w \in DOMAIN bal /\ Free(w)' >= Free(w)
    BY <1>3 DEF Covered, Paid
  <1>4. /\ bal[w][Base] \in Int /\ locked[w][Base] \in Int
        /\ w \in 1 .. Len(bal) /\ w \in 1 .. Len(locked)
    BY BaseAmounts
  <1>5. bal'[w][Base] = IF w = b THEN bal[w][Base] + FillQty
                        ELSE IF w = s THEN bal[w][Base] - FillQty ELSE bal[w][Base]
    BY <1>1, <1>4 DEF FillSettled, BalancesSettled
  <1>6. locked'[w][Base] = IF w = s THEN locked[w][Base] - FillQty ELSE locked[w][Base]
    BY <1>1, <1>4 DEF FillSettled, LocksSettled
  <1>7. b # s
    BY <1>1 DEF FillSettled
  <1>8. Free(w)' >= Free(w)
    BY <1>2, <1>4, <1>5, <1>6, <1>7 DEF Free
  <1> QED BY <1>3, <1>4, <1>8

LEMMA CancelCovered ==
  ASSUME TypeOK, NEW o \in DOMAIN orders, NEW w \in DOMAIN wallets, CancelOrder(o, w)
  PROVE  Covered
  <1> DEFINE d == LockDenom(orders[o].side)
             amount == ReleaseAmount(orders[o])
  <1>1. /\ w \in 1 .. Len(wallets) /\ bal \in Seq(Row) /\ locked \in Seq(Row)
        /\ Len(bal) = Len(wallets) /\ Len(locked) = Len(wallets)
        /\ orders \in Seq(Order) /\ o \in 1 .. Len(orders)
    BY TypeParts DEF MemoryOK, Row
  <1>2. orders[o].side \in Sides /\ orders[o].price \in Int /\ orders[o].remaining \in Nat
    <2>1. orders[o] \in Order
      BY <1>1
    <2> QED BY <2>1 DEF Order
  <1>3. d \in Denoms /\ amount \in Int /\ (d = Base => amount \in Nat)
    <2>1. QuoteAmount(orders[o].price, orders[o].remaining) \in Int
      BY <1>2, QuoteAmountType
    <2> QED BY <1>2, <2>1 DEF LockDenom, LockAmount, ReleaseAmount, Denoms, Base, Quote
  <1>4. /\ bal' = bal
        /\ locked' = [locked EXCEPT ![w][d] = @ - amount]
    BY DEF CancelOrder
  <1> HIDE DEF d, amount
  <1>5. bal[w][d] \in Int /\ locked[w][d] \in Int
    <2>1. bal[w] \in Row /\ locked[w] \in Row
      BY <1>1
    <2> QED BY <1>3, <2>1 DEF Row
  <1>6. PICK x \in Int, y \in Int : x = bal[w][d] /\ y = locked[w][d] - amount
    BY <1>3, <1>5
  <1>7. locked' = [locked EXCEPT ![w][d] = y]
    BY <1>1, <1>4, <1>6
  <1>8. Moved(w, d, x - y)
    BY <1>1, <1>3, <1>4, <1>6, <1>7, LockMoved
  <1>9. d = Base => x - y >= Free(w)
    BY <1>3, <1>5, <1>6 DEF Free
  <1> QED BY <1>1, <1>6, <1>8, <1>9 DEF Covered, Paid, Moved

\* A restart takes both tables from the file, or finds none.
LEMMA RestartCovered ==
  ASSUME Restart
  PROVE  \/ bal' = disk.bal /\ locked' = disk.locked
         \/ Covered
  <1>1. PICK file \in {disk} \cup (IF TornWrites THEN {Blank} ELSE {}) :
           bal' = file.bal /\ locked' = file.locked
    BY DEF Restart
  <1>2. CASE file = disk
    BY <1>1, <1>2
  <1>3. CASE file = Blank
    <2>1. DOMAIN bal' = {}
      BY <1>1, <1>3 DEF Blank
    <2> QED BY <2>1 DEF Covered
  <1> QED BY <1>1, <1>2, <1>3

NegativeDeposit(v) ==
    \E amount \in Deposits[Base] : amount < 0 /\ DepositToWallet(v, Base, amount)

LEMMA OverdraftStep ==
  ASSUME TypeOK, [Next]_vars
  PROVE  \A v \in DOMAIN bal' :
            \/ Paid(v) \/ NegativeDeposit(v)
            \/ bal' = disk.bal /\ locked' = disk.locked
  <1> DEFINE Goal == \A v \in DOMAIN bal' :
                        \/ Paid(v) \/ NegativeDeposit(v)
                        \/ bal' = disk.bal /\ locked' = disk.locked
  <1>0. Covered => Goal
    BY DEF Covered
  <1>1. ASSUME NEW u \in Users, CreateWallet(u) PROVE Goal
    BY <1>0, <1>1, CreateCovered
  <1>2. ASSUME NEW w \in DOMAIN wallets, NEW d \in Denoms, NEW amount \in Deposits[d],
               DepositToWallet(w, d, amount)
        PROVE  Goal
    <2> SUFFICES ASSUME NEW v \in DOMAIN bal' PROVE Paid(v) \/ NegativeDeposit(v)
      OBVIOUS
    <2>1. CASE Paid(v)
      BY <2>1
    <2>2. CASE v = w /\ d = Base /\ amount < 0
      BY <1>2, <2>2 DEF NegativeDeposit
    <2> QED BY <1>2, <2>1, <2>2, DepositCovered
  <1>3. ASSUME NEW w \in DOMAIN wallets, NEW d \in Denoms, NEW amount \in Withdrawals[d],
               WithdrawFromWallet(w, d, amount)
        PROVE  Goal
    BY <1>0, <1>3, WithdrawCovered
  <1>4. ASSUME NEW w \in DOMAIN wallets, NEW side \in Sides, NEW type \in OrderTypes,
               NEW offer \in Offers, PlaceOrder(w, side, type, offer[1], offer[2])
        PROVE  Goal
    BY <1>0, <1>4, PlaceCovered
  <1>5. ASSUME Fill PROVE Goal
    BY <1>0, <1>5, FillCovered
  <1>6. ASSUME NEW o \in DOMAIN orders, NEW w \in DOMAIN wallets, CancelOrder(o, w)
        PROVE  Goal
    BY <1>0, <1>6, CancelCovered
  <1>7. ASSUME Restart PROVE Goal
    BY <1>0, <1>7, RestartCovered
  <1>8. ASSUME UNCHANGED <<bal, locked>> PROVE Goal
    BY <1>0, <1>8, SameCovered
  <1> HIDE DEF Goal
  <1>9. ASSUME NEW u \in Users, NEW w \in DOMAIN wallets, NEW tier \in Requests,
               NEW sanctioned \in Sanctions, SubmitKYC(u, w, tier, sanctioned)
        PROVE  Goal
    BY <1>8, <1>9 DEF SubmitKYC
  <1>10. ASSUME NEW a \in DOMAIN apps, ApproveKYC(a) \/ RejectKYC(a) PROVE Goal
    BY <1>8, <1>10 DEF ApproveKYC, RejectKYC
  <1>11. ASSUME SkipOwn PROVE Goal
    BY <1>8, <1>11 DEF SkipOwn, persistent
  <1>12. ASSUME FinishOrder PROVE Goal
    BY <1>8, <1>12 DEF FinishOrder
  <1>13. ASSUME NewDay PROVE Goal
    BY <1>8, <1>13 DEF NewDay, persistent
  <1>14. ASSUME UNCHANGED vars PROVE Goal
    BY <1>8, <1>14 DEF vars, persistent
  <1>15. Goal
    BY <1>1, <1>2, <1>3, <1>4, <1>5, <1>6, <1>7, <1>9, <1>10, <1>11, <1>12, <1>13, <1>14
    DEF Next, Operate
  <1> QED BY <1>15 DEF Goal

\* OnlyDepositsOverdraw: no order, trade, cancel or withdrawal, of any amount
\* and sign, takes base tokens that are not available; a wallet that locks more
\* than it has got there by a negative deposit, also over restarts.
THEOREM DepositsOverdraw == Spec => OnlyDepositsOverdraw
  <1> DEFINE Step == \A v \in DOMAIN bal' :
                        \/ Paid(v) \/ NegativeDeposit(v)
                        \/ bal' = disk.bal /\ locked' = disk.locked
  <1>1. TypeOK /\ [Next]_vars => Step
    BY OverdraftStep
  <1>2. Step => \A w \in DOMAIN bal' :
           \/ Available(w, Base)' >= 0
           \/ w \in DOMAIN bal /\ Available(w, Base)' >= Available(w, Base)
           \/ \E amount \in Deposits[Base] : amount < 0 /\ DepositToWallet(w, Base, amount)
           \/ bal' = disk.bal /\ locked' = disk.locked
    BY DEF Paid, Free, Available, NegativeDeposit
  <1> QED BY <1>1, <1>2, TypeCorrect, PTL DEF Spec, OnlyDepositsOverdraw

-----------------------------------------------------------------------------
(* Verification.  Wallets and applications change in operations that save, *)
(* so that the file a restart reads holds those of the memory, even while  *)
(* an order is matched.                                                    *)

RegistrySaved == disk.wallets = wallets /\ disk.apps = apps

\* What most operations do at most: wallets freeze, applications leave
\* "pending", and none leaves "rejected".
WalletsKept ==
    /\ DOMAIN wallets' = DOMAIN wallets
    /\ \A w \in DOMAIN wallets :
          /\ wallets'[w].user = wallets[w].user
          /\ wallets'[w].active => wallets[w].active

AppsKept ==
    /\ DOMAIN apps' = DOMAIN apps
    /\ \A a \in DOMAIN apps :
          /\ apps'[a].user = apps[a].user /\ apps'[a].wallet = apps[a].wallet
          /\ apps'[a].sanctioned <=> apps[a].sanctioned
          /\ apps'[a].status = "pending" => apps[a].status = "pending"
          /\ apps[a].status = "rejected" => apps'[a].status = "rejected"

Opened(u) ==
    /\ ~HasActiveWallet(u)
    /\ wallets' = Append(wallets, [user |-> u, tier |-> None, active |-> TRUE])
    /\ apps' = apps

LEMMA SavedRegistry == Save => RegistrySaved'
  BY DEF Save, Persisted, RegistrySaved

LEMMA SameRegistry == UNCHANGED <<wallets, apps>> => WalletsKept /\ AppsKept
  BY DEF WalletsKept, AppsKept

\* Deciding an application.
LEMMA DecidedKept ==
  ASSUME apps \in Seq(App), NEW a \in DOMAIN apps, NEW st,
         NEW at, apps' = [apps EXCEPT ![a].status = st, ![a].approvedAt = at],
         \/ st = "rejected"
         \/ st = "approved" /\ apps[a].status = "pending"
  PROVE  AppsKept
  <1>1. DOMAIN apps' = DOMAIN apps
    OBVIOUS
  <1>2. apps'[a] = [apps[a] EXCEPT !.status = st, !.approvedAt = at] /\ apps[a] \in App
    OBVIOUS
  <1>3. /\ apps'[a].user = apps[a].user /\ apps'[a].wallet = apps[a].wallet
        /\ apps'[a].status = st
    BY <1>2 DEF App
  <1>4. apps'[a].sanctioned = apps[a].sanctioned
    BY <1>2 DEF App
  <1>5. \A b \in DOMAIN apps \ {a} : apps'[b] = apps[b]
    OBVIOUS
  <1> QED BY <1>1, <1>3, <1>4, <1>5 DEF AppsKept

\* Raising the tier of a wallet neither thaws it nor changes its owner.
LEMMA TierKept ==
  ASSUME wallets \in Seq(Wallet), NEW w, NEW tier,
         wallets' = [wallets EXCEPT ![w].tier = tier]
  PROVE  WalletsKept
  <1>1. DOMAIN wallets' = DOMAIN wallets
    OBVIOUS
  <1>2. ASSUME NEW v \in DOMAIN wallets
        PROVE  wallets'[v].user = wallets[v].user /\ wallets'[v].active = wallets[v].active
    <2>1. CASE v # w
      BY <2>1
    <2>2. CASE v = w
      <3>1. wallets'[v] = [wallets[v] EXCEPT !.tier = tier] /\ wallets[v] \in Wallet
        BY <2>2
      <3> QED BY <3>1 DEF Wallet
    <2> QED BY <2>1, <2>2
  <1> QED BY <1>1, <1>2 DEF WalletsKept

LEMMA OperateRegistry ==
  ASSUME TypeOK, RegistrySaved, Operate
  PROVE  RegistrySaved' /\ ((WalletsKept /\ AppsKept) \/ \E u \in Users : Opened(u))
  <1> DEFINE Goal == RegistrySaved' /\ ((WalletsKept /\ AppsKept) \/ \E u \in Users : Opened(u))
  <1>0. wallets \in Seq(Wallet) /\ apps \in Seq(App)
    BY TypeParts DEF MemoryOK
  <1>1. ASSUME UNCHANGED <<wallets, apps>>, Save \/ UNCHANGED disk
        PROVE  Goal
    BY <1>1, SavedRegistry, SameRegistry DEF RegistrySaved
  <1> HIDE DEF Goal
  <1>2. ASSUME NEW u \in Users, CreateWallet(u) PROVE Goal
    BY <1>2, SavedRegistry DEF CreateWallet, Opened, Goal
  <1>3. ASSUME NEW w \in DOMAIN wallets, NEW d \in Denoms, NEW amount,
               DepositToWallet(w, d, amount) \/ WithdrawFromWallet(w, d, amount)
        PROVE  Goal
    BY <1>1, <1>3 DEF DepositToWallet, WithdrawFromWallet
  <1>4. ASSUME NEW a \in DOMAIN apps, ApproveKYC(a) PROVE Goal
    <2>1. /\ apps' = [apps EXCEPT ![a].status = "approved",
                                  ![a].approvedAt = Approvals + 1]
          /\ apps[a].status = "pending"
          /\ wallets' = [wallets EXCEPT ![apps[a].wallet].tier = apps[a].tier]
          /\ Save
      BY <1>4 DEF ApproveKYC, Approvable
    <2>2. AppsKept
      BY <1>0, <2>1, DecidedKept
    <2>3. WalletsKept
      BY <1>0, <2>1, TierKept
    <2> QED BY <2>1, <2>2, <2>3, SavedRegistry DEF Goal
  <1>5. ASSUME NEW a \in DOMAIN apps, RejectKYC(a) PROVE Goal
    <2>1. /\ apps' = [apps EXCEPT ![a].status = "rejected"]
          /\ wallets' = wallets
          /\ Save
      BY <1>5 DEF RejectKYC
    <2>2. AppsKept
      <3>1. apps[a] \in App
        BY <1>0
      <3>2. apps' = [apps EXCEPT ![a].status = "rejected",
                                 ![a].approvedAt = apps[a].approvedAt]
        BY <1>0, <2>1, <3>1 DEF App
      <3> QED BY <1>0, <3>2, DecidedKept
    <2>3. WalletsKept
      BY <2>1 DEF WalletsKept
    <2> QED BY <2>1, <2>2, <2>3, SavedRegistry DEF Goal
  <1>6. ASSUME NEW w \in DOMAIN wallets, NEW side \in Sides, NEW type \in OrderTypes,
               NEW offer \in Offers, PlaceOrder(w, side, type, offer[1], offer[2])
        PROVE  Goal
    BY <1>1, <1>6 DEF PlaceOrder
  <1>7. ASSUME SkipOwn PROVE Goal
    BY <1>1, <1>7 DEF SkipOwn, persistent
  <1>8. ASSUME Fill PROVE Goal
    BY <1>1, <1>8 DEF Fill
  <1>9. ASSUME FinishOrder PROVE Goal
    BY <1>1, <1>9 DEF FinishOrder
  <1>10. ASSUME NEW o \in DOMAIN orders, NEW w \in DOMAIN wallets, CancelOrder(o, w)
         PROVE  Goal
    BY <1>1, <1>10 DEF CancelOrder
  <1>11. ASSUME NewDay PROVE Goal
    BY <1>1, <1>11 DEF NewDay, persistent
  <1>12. Goal
    BY <1>2, <1>3, <1>4, <1>5, <1>6, <1>7, <1>8, <1>9, <1>10, <1>11 DEF Operate
  <1> QED BY <1>12 DEF Goal

\* What SubmitKYC does to wallet w and the list of applications, which gets
\* application `new' of user u.
Filed(u, w, new) ==
    /\ WalletsKept
    /\ \A a \in DOMAIN apps : apps[a].user = u => apps[a].status # "pending"
    /\ DOMAIN apps' = DOMAIN apps \cup {new}
    /\ new \notin DOMAIN apps
    /\ \A a \in DOMAIN apps : apps'[a] = apps[a]
    /\ apps'[new].user = u
    /\ apps'[new].wallet = w
    /\ apps'[new].sanctioned =>
          apps'[new].status = "rejected" /\ ~wallets'[w].active

LEMMA SubmitRegistry ==
  ASSUME TypeOK, NEW u, NEW w \in DOMAIN wallets, NEW tier, NEW sanctioned \in BOOLEAN,
         SubmitKYC(u, w, tier, sanctioned)
  PROVE  RegistrySaved' /\ Filed(u, w, Len(apps) + 1)
  <1>0. wallets \in Seq(Wallet) /\ apps \in Seq(App)
    BY TypeParts DEF MemoryOK
  <1>1. /\ Save
        /\ \A a \in DOMAIN apps : apps[a].user = u => apps[a].status # "pending"
    BY DEF SubmitKYC
  <1>2. PICK st, t, at :
           /\ sanctioned => st = "rejected"
           /\ apps' = Append(apps, [user |-> u, wallet |-> w, tier |-> tier,
                                    status |-> st, sanctioned |-> sanctioned,
                                    approvedAt |-> at])
           /\ wallets' = [wallets EXCEPT ![w].tier = t, ![w].active = @ /\ ~sanctioned]
    BY DEF SubmitKYC
  <1>3. wallets'[w] = [wallets[w] EXCEPT !.tier = t, !.active = @ /\ ~sanctioned]
    BY <1>0, <1>2
  <1>4. /\ wallets'[w].user = wallets[w].user
        /\ wallets'[w].active = (wallets[w].active /\ ~sanctioned)
    <2>1. wallets[w] \in Wallet
      BY <1>0
    <2> QED BY <1>3, <2>1 DEF Wallet
  <1>5. WalletsKept
    <2>1. DOMAIN wallets' = DOMAIN wallets
      BY <1>0, <1>2
    <2>2. \A v \in DOMAIN wallets \ {w} : wallets'[v] = wallets[v]
      BY <1>0, <1>2
    <2> QED BY <1>4, <2>1, <2>2 DEF WalletsKept
  <1> DEFINE app == [user |-> u, wallet |-> w, tier |-> tier,
                     status |-> st, sanctioned |-> sanctioned, approvedAt |-> at]
  <1>6. app.user = u /\ app.wallet = w /\ app.status = st
    OBVIOUS
  <1>7. app.sanctioned = sanctioned
    OBVIOUS
  <1>8. apps' = Append(apps, app)
    BY <1>2
  <1> HIDE DEF app
  <1>9. /\ DOMAIN apps' = DOMAIN apps \cup {Len(apps) + 1}
        /\ Len(apps) + 1 \notin DOMAIN apps
        /\ \A a \in DOMAIN apps : apps'[a] = apps[a]
        /\ apps'[Len(apps) + 1] = app
    BY <1>0, <1>8
  <1>10. app.sanctioned => app.status = "rejected" /\ ~wallets'[w].active
    BY <1>2, <1>4, <1>6, <1>7
  <1>11. Filed(u, w, Len(apps) + 1)
    BY <1>1, <1>5, <1>6, <1>9, <1>10 DEF Filed
  <1> QED BY <1>1, <1>11, SavedRegistry

\* What Restart finds in the file.
LEMMA RestartRegistry ==
  ASSUME RegistrySaved, Restart
  PROVE  /\ RegistrySaved'
         /\ UNCHANGED <<wallets, apps>> \/ (wallets' = <<>> /\ apps' = <<>>)
  <1>1. PICK file \in {disk} \cup (IF TornWrites THEN {Blank} ELSE {}) :
           wallets' = file.wallets /\ apps' = file.apps /\ disk' = file
    BY DEF Restart
  <1>2. RegistrySaved'
    BY <1>1 DEF RegistrySaved
  <1>3. CASE file = disk
    <2>1. wallets' = wallets
      BY <1>1, <1>3 DEF RegistrySaved
    <2>2. apps' = apps
      BY <1>1, <1>3 DEF RegistrySaved
    <2> QED BY <1>2, <2>1, <2>2
  <1>4. CASE file = Blank
    BY <1>1, <1>2, <1>4 DEF Blank
  <1> QED BY <1>1, <1>3, <1>4

Registry == RegistrySaved /\ OnePerUser /\ SanctionedIsFrozen

\* Keeping wallets and applications keeps both properties.
LEMMA KeptRegistry ==
  ASSUME TypeOK, WalletsKept, AppsKept
  PROVE  /\ OnePerUser => OnePerUser'
         /\ SanctionedIsFrozen => SanctionedIsFrozen'
  <1>1. \A a \in DOMAIN apps : apps[a].wallet \in DOMAIN wallets
    BY TypeParts DEF MemoryOK
  <1>2. OnePerUser => OnePerUser'
    BY DEF OnePerUser, WalletsKept, AppsKept
  <1>3. SanctionedIsFrozen => SanctionedIsFrozen'
    BY <1>1 DEF SanctionedIsFrozen, WalletsKept, AppsKept
  <1> QED BY <1>2, <1>3

LEMMA RegistryStep == TypeOK /\ Registry /\ [Next]_vars => Registry'
  <1> SUFFICES ASSUME TypeOK, Registry, [Next]_vars PROVE Registry'
    OBVIOUS
  <1>0. /\ RegistrySaved /\ OnePerUser /\ SanctionedIsFrozen
        /\ wallets \in Seq(Wallet)
        /\ \A a \in DOMAIN apps : apps[a].wallet \in DOMAIN wallets
    BY TypeParts DEF Registry, MemoryOK
  <1>1. ASSUME RegistrySaved', WalletsKept, AppsKept PROVE Registry'
    BY <1>0, <1>1, KeptRegistry DEF Registry
  <1>2. ASSUME NEW u \in Users, RegistrySaved', Opened(u) PROVE Registry'
    <2> DEFINE new == Len(wallets) + 1
    <2>1. /\ DOMAIN wallets' = DOMAIN wallets \cup {new}
          /\ \A w \in DOMAIN wallets : wallets'[w] = wallets[w]
          /\ wallets'[new].user = u
          /\ apps' = apps
      BY <1>0, <1>2 DEF Opened
    <2>2. ASSUME NEW w \in DOMAIN wallets, wallets[w].user = u PROVE ~wallets[w].active
      BY <1>2, <2>2 DEF Opened, HasActiveWallet
    <2> HIDE DEF new
    <2>3. OnePerUser'
      BY <1>0, <2>1, <2>2 DEF OnePerUser
    <2>4. SanctionedIsFrozen'
      BY <1>0, <2>1 DEF SanctionedIsFrozen
    <2> QED BY <1>2, <2>3, <2>4 DEF Registry
  <1>3. CASE Operate
    BY <1>0, <1>1, <1>2, <1>3, OperateRegistry
  <1>4. ASSUME NEW u \in Users, NEW w \in DOMAIN wallets, NEW tier \in Requests,
               NEW sanctioned \in Sanctions, SubmitKYC(u, w, tier, sanctioned)
        PROVE  Registry'
    <2>1. sanctioned \in BOOLEAN
      BY ExchangeAssumption
    <2>2. PICK new : RegistrySaved' /\ Filed(u, w, new)
      BY <1>4, <2>1, SubmitRegistry
    <2>3. OnePerUser'
      <3>1. ASSUME NEW v \in DOMAIN wallets', NEW x \in DOMAIN wallets',
                   wallets'[v].active, wallets'[x].active, wallets'[v].user = wallets'[x].user
            PROVE  v = x
        BY <1>0, <2>2, <3>1 DEF OnePerUser, WalletsKept, Filed
      <3>2. ASSUME NEW a \in DOMAIN apps', NEW b \in DOMAIN apps',
                   apps'[a].status = "pending", apps'[b].status = "pending",
                   apps'[a].user = apps'[b].user
            PROVE  a = b
        <4>1. \A c, d \in DOMAIN apps :
                 apps[c].status = "pending" /\ apps[d].status = "pending"
                    /\ apps[c].user = apps[d].user => c = d
          BY <1>0 DEF OnePerUser
        <4> QED BY <2>2, <3>2, <4>1 DEF Filed
      <3> QED BY <3>1, <3>2 DEF OnePerUser
    <2>4. SanctionedIsFrozen'
      BY <1>0, <2>2 DEF SanctionedIsFrozen, WalletsKept, Filed
    <2> QED BY <2>2, <2>3, <2>4 DEF Registry
  <1>5. CASE Restart
    <2>1. CASE RegistrySaved' /\ UNCHANGED <<wallets, apps>>
      BY <1>1, <2>1, SameRegistry
    <2>2. CASE RegistrySaved' /\ wallets' = <<>> /\ apps' = <<>>
      BY <2>2 DEF Registry, OnePerUser, SanctionedIsFrozen
    <2> QED BY <1>0, <1>5, <2>1, <2>2, RestartRegistry
  <1>6. CASE UNCHANGED vars
    BY <1>0, <1>1, <1>6, SameRegistry DEF vars, persistent, RegistrySaved
  <1> QED BY <1>3, <1>4, <1>5, <1>6 DEF Next

LEMMA RegistryInvariant == Spec => []Registry
  <1>1. Init => Registry
    BY DEF Init, Blank, Registry, RegistrySaved, OnePerUser, SanctionedIsFrozen
  <1> QED BY <1>1, RegistryStep, TypeCorrect, PTL DEF Spec

\* One active wallet and one pending application per user, for any number of
\* users, wallets, applications and restarts.
THEOREM OneWalletPerUser == Spec => []OnePerUser
  <1>1. Registry => OnePerUser
    BY DEF Registry
  <1> QED BY <1>1, RegistryInvariant, PTL

\* No sequence of applications, approvals and restarts thaws a wallet that
\* drew a sanctions match.
THEOREM SanctionsLast == Spec => []SanctionedIsFrozen
  <1>1. Registry => SanctionedIsFrozen
    BY DEF Registry
  <1> QED BY <1>1, RegistryInvariant, PTL

=============================================================================
