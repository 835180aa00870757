------------------------- MODULE ExchangeBookProofs -------------------------
(***************************************************************************)
(* Proofs about the order books of Exchange: a book holds each live limit  *)
(* order once and stays sorted over matches, cancels and rebuilds, so that *)
(* resting orders never cross and a taker trades at the best price there   *)
(* is.                                                                     *)
(***************************************************************************)
EXTENDS ExchangeProofs

-----------------------------------------------------------------------------
(* Books as sequences.                                                     *)

Distinct(s) == \A i, j \in 1 .. Len(s) : s[i] = s[j] => i = j

Listed(s) == { s[i] : i \in 1 .. Len(s) }

\* No entry comes after one it is strictly before.
InOrder(os, side, s) ==
    \A i, j \in 1 .. Len(s) :
        i < j => ~Before(side, os[s[j]].price, os[s[i]].price)

\* The entries left when one is cut out.
LEMMA RemoveAtEntries ==
  ASSUME NEW S, NEW s \in Seq(S), NEW i \in 1 .. Len(s)
  PROVE  /\ Len(RemoveAt(s, i)) = Len(s) - 1
         /\ \A j \in 1 .. Len(s) - 1 :
               RemoveAt(s, i)[j] = s[IF j < i THEN j ELSE j + 1]
  <1>1. Len(s) - 1 \in Nat
    OBVIOUS
  <1>2. PICK n \in Nat : n = Len(s) - 1
    BY <1>1
  <1>3. RemoveAt(s, i) = [j \in 1 .. n |-> s[IF j < i THEN j ELSE j + 1]]
    BY <1>2 DEF RemoveAt
  <1>4. Len(RemoveAt(s, i)) = n
    BY <1>3
  <1> QED BY <1>2, <1>3, <1>4

\* They are the others, each once and in the same order.
LEMMA RemoveAtBook ==
  ASSUME NEW S, NEW s \in Seq(S), NEW i \in 1 .. Len(s), Distinct(s)
  PROVE  /\ Distinct(RemoveAt(s, i))
         /\ Listed(RemoveAt(s, i)) = Listed(s) \ {s[i]}
  <1>1. PICK r : r = RemoveAt(s, i)
    OBVIOUS
  <1>2. PICK n \in Nat : n = Len(s) /\ i \in 1 .. n
    OBVIOUS
  <1>3. PICK at : at = [j \in 1 .. n - 1 |-> IF j < i THEN j ELSE j + 1]
    OBVIOUS
  <1>4. /\ \A j \in 1 .. n - 1 : at[j] \in 1 .. n /\ at[j] # i
        /\ \A j, k \in 1 .. n - 1 : at[j] = at[k] => j = k
    BY <1>2, <1>3
  <1>5. \A k \in 1 .. n : k # i => \E j \in 1 .. n - 1 : at[j] = k
    <2> SUFFICES ASSUME NEW k \in 1 .. n, k # i
                 PROVE  \E j \in 1 .. n - 1 : at[j] = k
      OBVIOUS
    <2>1. CASE k < i
      BY <1>2, <1>3, <2>1
    <2>2. CASE ~(k < i)
      <3>1. k - 1 \in 1 .. n - 1 /\ ~(k - 1 < i) /\ (k - 1) + 1 = k
        BY <1>2, <2>2
      <3> QED BY <1>3, <3>1
    <2> QED BY <2>1, <2>2
  <1>6. Len(r) = n - 1 /\ \A j \in 1 .. n - 1 : r[j] = s[at[j]]
    BY <1>1, <1>2, <1>3, RemoveAtEntries
  <1>7. Distinct(r)
    <2> SUFFICES ASSUME NEW j \in 1 .. n - 1, NEW k \in 1 .. n - 1, r[j] = r[k]
                 PROVE  j = k
      BY <1>6 DEF Distinct
    <2>1. s[at[j]] = s[at[k]] /\ at[j] \in 1 .. n /\ at[k] \in 1 .. n
      BY <1>4, <1>6
    <2>2. at[j] = at[k]
      BY <1>2, <2>1 DEF Distinct
    <2> QED BY <1>4, <2>2
  <1>8. \A k \in 1 .. n : s[k] = s[i] => k = i
    BY <1>2 DEF Distinct
  <1>9. Listed(r) = Listed(s) \ {s[i]}
    <2>1. ASSUME NEW x \in Listed(r) PROVE x \in Listed(s) \ {s[i]}
      <3>1. PICK j \in 1 .. n - 1 : x = s[at[j]]
        BY <1>6 DEF Listed
      <3>2. at[j] \in 1 .. n /\ at[j] # i
        BY <1>4
      <3> QED BY <1>2, <1>8, <3>1, <3>2 DEF Listed
    <2>2. ASSUME NEW x \in Listed(s) \ {s[i]} PROVE x \in Listed(r)
      <3>1. PICK k \in 1 .. n : x = s[k] /\ k # i
        BY <1>2, <2>2 DEF Listed
      <3>2. PICK j \in 1 .. n - 1 : at[j] = k
        BY <1>5, <3>1
      <3> QED BY <1>6, <3>1, <3>2 DEF Listed
    <2> QED BY <2>1, <2>2
  <1> QED BY <1>1, <1>7, <1>9

LEMMA RemoveAtInOrder ==
  ASSUME NEW S, NEW s \in Seq(S), NEW i \in 1 .. Len(s), NEW os, NEW side,
         InOrder(os, side, s)
  PROVE  InOrder(os, side, RemoveAt(s, i))
  <1>1. PICK r : r = RemoveAt(s, i)
    OBVIOUS
  <1>2. PICK n \in Nat : n = Len(s) /\ i \in 1 .. n
    OBVIOUS
  <1>3. Len(r) = n - 1 /\ \A j \in 1 .. n - 1 : r[j] = s[IF j < i THEN j ELSE j + 1]
    BY <1>1, <1>2, RemoveAtEntries
  <1>4. ASSUME NEW j \in 1 .. n - 1, NEW k \in 1 .. n - 1, j < k
        PROVE  ~Before(side, os[r[k]].price, os[r[j]].price)
    <2>1. PICK a \in 1 .. n, b \in 1 .. n : a < b /\ r[j] = s[a] /\ r[k] = s[b]
      <3>1. /\ (IF j < i THEN j ELSE j + 1) \in 1 .. n
            /\ (IF k < i THEN k ELSE k + 1) \in 1 .. n
            /\ (IF j < i THEN j ELSE j + 1) < (IF k < i THEN k ELSE k + 1)
        BY <1>2, <1>4
      <3> QED BY <1>3, <3>1
    <2> QED BY <1>2, <2>1 DEF InOrder
  <1> QED BY <1>1, <1>3, <1>4 DEF InOrder

\* removeFromBook leaves the other orders, each once and in the same order.
LEMMA WithoutBook ==
  ASSUME NEW S, NEW s \in Seq(S), NEW o, Distinct(s)
  PROVE  /\ Distinct(Without(s, o))
         /\ Listed(Without(s, o)) = Listed(s) \ {o}
         /\ \A os, side : InOrder(os, side, s) => InOrder(os, side, Without(s, o))
  <1>1. CASE \A i \in DOMAIN s : s[i] # o
    <2>1. Without(s, o) = s
      BY <1>1 DEF Without
    <2>2. o \notin Listed(s)
      BY <1>1 DEF Listed
    <2> QED BY <2>1, <2>2
  <1>2. CASE ~(\A i \in DOMAIN s : s[i] # o)
    <2> DEFINE First(i) == s[i] = o /\ \A j \in 1 .. i - 1 : s[j] # o
               i == CHOOSE k \in DOMAIN s : First(k)
    <2>1. Without(s, o) = RemoveAt(s, i)
      BY <1>2 DEF Without
    <2>2. \E k \in DOMAIN s : First(k)
      <3>1. PICK k \in 1 .. Len(s) : s[k] = o
        BY <1>2
      <3>2. ASSUME NEW j \in 1 .. k - 1 PROVE s[j] # o
        <4>1. j \in 1 .. Len(s) /\ j # k
          OBVIOUS
        <4> QED BY <3>1, <4>1 DEF Distinct
      <3> QED BY <3>1, <3>2
    <2> HIDE DEF First
    <2>3. i \in DOMAIN s /\ First(i)
      BY <2>2
    <2>4. i \in 1 .. Len(s) /\ s[i] = o
      BY <2>3 DEF First
    <2> HIDE DEF i
    <2>5. /\ Distinct(RemoveAt(s, i)) /\ Listed(RemoveAt(s, i)) = Listed(s) \ {o}
      BY <2>4, RemoveAtBook
    <2>6. \A os, side : InOrder(os, side, s) => InOrder(os, side, RemoveAt(s, i))
      BY <2>4, RemoveAtInOrder
    <2> QED BY <2>1, <2>5, <2>6
  <1> QED BY <1>1, <1>2

\* An enumeration of a finite set by as many numbers lists each element once.
LEMMA EnumerationDistinct ==
  ASSUME NEW T, IsFiniteSet(T), NEW n \in Nat, n = Cardinality(T),
         NEW t \in [1 .. n -> T], \A x \in T : \E j \in 1 .. n : t[j] = x
  PROVE  Len(t) = n /\ Distinct(t) /\ Listed(t) = T
  <1>1. Len(t) = n
    OBVIOUS
  <1>2. IsFiniteSet(1 .. n) /\ Cardinality(1 .. n) = Cardinality(T)
    <2>1. Cardinality(1 .. n) = n
      BY FS_Interval
    <2>2. IsFiniteSet(1 .. n)
      BY FS_Interval
    <2> QED BY <2>1, <2>2
  <1>3. t \in Surjection(1 .. n, T)
    BY DEF Surjection
  <1>4. t \in Injection(1 .. n, T)
    BY <1>2, <1>3, FS_SurjSameCardinalityImpliesInj
  <1>5. Distinct(t)
    BY <1>1, <1>4 DEF Distinct, Injection, IsInjective
  <1>6. Listed(t) = T
    BY <1>1 DEF Listed
  <1> QED BY <1>1, <1>5, <1>6

\* The entries of a sequence that lists each once are as many as it is long.
LEMMA DistinctCardinality ==
  ASSUME NEW S, NEW s \in Seq(S), Distinct(s)
  PROVE  IsFiniteSet(Listed(s)) /\ Cardinality(Listed(s)) = Len(s)
  <1>1. PICK n \in Nat : n = Len(s)
    OBVIOUS
  <1>2. s \in Bijection(1 .. n, Listed(s))
    <2>1. s \in [1 .. n -> Listed(s)]
      BY <1>1 DEF Listed
    <2> QED BY <1>1, <2>1 DEF Bijection, Injection, IsInjective, Surjection,
                            Distinct, Listed
  <1>3. IsFiniteSet(1 .. n) /\ Cardinality(1 .. n) = n
    <2>1. Cardinality(1 .. n) = n
      BY FS_Interval
    <2>2. IsFiniteSet(1 .. n)
      BY FS_Interval
    <2> QED BY <2>1, <2>2
  <1>4. ExistsBijection(1 .. n, Listed(s))
    BY <1>2 DEF ExistsBijection
  <1> QED BY <1>1, <1>3, <1>4, FS_Bijection

\* sort.Slice permutes the book it is given and leaves it in order.
LEMMA SortedBook ==
  ASSUME NEW S, NEW s \in Seq(S), Distinct(s), NEW os, NEW side,
         NEW t \in Sorted(os, side, s)
  PROVE  /\ Distinct(t) /\ Listed(t) = Listed(s)
         /\ InOrder(os, side, t)
  <1>1. PICK n \in Nat : n = Len(s)
    OBVIOUS
  <1>2. /\ t \in [1 .. n -> Listed(s)]
        /\ \A i \in 1 .. n : \E j \in 1 .. n : t[j] = s[i]
        /\ \A i, j \in 1 .. n : i < j => ~Before(side, os[t[j]].price, os[t[i]].price)
    BY <1>1 DEF Sorted, Listed
  <1>3. \A x \in Listed(s) : \E j \in 1 .. n : t[j] = x
    BY <1>1, <1>2 DEF Listed
  <1>4. IsFiniteSet(Listed(s)) /\ n = Cardinality(Listed(s))
    BY <1>1, DistinctCardinality
  <1>5. Len(t) = n /\ Distinct(t) /\ Listed(t) = Listed(s)
    BY <1>2, <1>3, <1>4, EnumerationDistinct
  <1> QED BY <1>2, <1>5 DEF InOrder

LiveOf(os, side) == { o \in 1 .. Len(os) : Live(os[o]) /\ os[o].side = side }

\* A rebuilt book holds each live order of its side once, in order.
LEMMA RebuiltBook ==
  ASSUME NEW os \in Seq(Order), NEW side, NEW t \in Rebuilt(os, side)
  PROVE  /\ Distinct(t) /\ Listed(t) = LiveOf(os, side)
         /\ InOrder(os, side, t)
  <1> DEFINE T == LiveOf(os, side)
  <1>1. IsFiniteSet(T) /\ Cardinality(T) \in Nat
    <2>1. IsFiniteSet(1 .. Len(os))
      BY FS_Interval
    <2>2. T \subseteq 1 .. Len(os)
      BY DEF LiveOf
    <2>3. IsFiniteSet(T)
      BY <2>1, <2>2, FS_Subset
    <2> QED BY <2>3, FS_CardinalityType
  <1>2. PICK n \in Nat : n = Cardinality(T)
    BY <1>1
  <1>3. /\ t \in [1 .. n -> T]
        /\ \A o \in T : \E j \in 1 .. n : t[j] = o
        /\ \A i, j \in 1 .. n : i < j => ~Before(side, os[t[j]].price, os[t[i]].price)
    BY <1>2 DEF Rebuilt, LiveOf
  <1> HIDE DEF T
  <1>4. Len(t) = n /\ Distinct(t) /\ Listed(t) = T
    BY <1>1, <1>2, <1>3, EnumerationDistinct
  <1> QED BY <1>3, <1>4 DEF InOrder, T

-----------------------------------------------------------------------------
(* What the operations do to the orders.                                   *)

SameTerms(p, q) ==
    p.wallet = q.wallet /\ p.side = q.side /\ p.type = q.type /\ p.price = q.price

\* No order is added and none changes hands, side, type or price.
TermsKept ==
    /\ Len(orders') = Len(orders)
    /\ \A o \in 1 .. Len(orders) : SameTerms(orders'[o], orders[o])

\* What a fill makes of each order.
FillView(m) ==
    /\ TermsKept
    /\ \A o \in 1 .. Len(orders) : o # taker /\ o # m => orders'[o] = orders[o]
    /\ orders'[taker].status = orders[taker].status
    /\ orders'[taker].remaining = orders[taker].remaining - FillQty
    /\ orders'[m].remaining = orders[m].remaining - FillQty
    /\ orders'[taker].filled = orders[taker].filled + FillQty
    /\ orders'[m].filled = orders[m].filled + FillQty
    /\ orders'[m].status = IF orders[m].remaining = FillQty THEN "filled" ELSE "partial"

LEMMA FillViews ==
  ASSUME TypeOK, Fill
  PROVE  FillView(OppositeBook[idx])
  <1>1. Matching
    BY DEF Fill
  <1>2. PICK m : m = OppositeBook[idx]
    OBVIOUS
  <1>3. PICK f : f = FillQty
    OBVIOUS
  <1>4. /\ taker \in 1 .. Len(orders) /\ m \in 1 .. Len(orders)
        /\ orders[taker] \in Order /\ orders[m] \in Order
    BY <1>1, <1>2, FillFacts
  <1>5. /\ m # taker /\ Len(orders') = Len(orders)
        /\ \A o \in 1 .. Len(orders) :
              orders'[o] = IF o = taker THEN FillOrder(orders[o], f)
                           ELSE IF o = m THEN FillMaker(orders[o], f) ELSE orders[o]
    BY <1>2, <1>3, FillOrders
  <1>6. /\ orders'[taker] = FillOrder(orders[taker], f)
        /\ orders'[m] = FillMaker(orders[m], f)
    BY <1>4, <1>5
  <1>7. /\ SameTerms(orders'[taker], orders[taker])
        /\ orders'[taker].status = orders[taker].status
        /\ orders'[taker].remaining = orders[taker].remaining - f
        /\ orders'[taker].filled = orders[taker].filled + f
    BY <1>4, <1>6 DEF FillOrder, Order, SameTerms
  <1>8. SameTerms(orders'[m], orders[m])
    BY <1>4, <1>6 DEF FillMaker, FillOrder, Order, SameTerms
  <1>9. /\ orders'[m].remaining = orders[m].remaining - f
        /\ orders'[m].filled = orders[m].filled + f
        /\ orders'[m].status = IF orders[m].remaining = f THEN "filled" ELSE "partial"
    BY <1>4, <1>6, MakerFields
  <1>10. \A o \in 1 .. Len(orders) : SameTerms(orders'[o], orders[o])
    BY <1>5, <1>7, <1>8 DEF SameTerms
  <1>11. \A o \in 1 .. Len(orders) : o # taker /\ o # m => orders'[o] = orders[o]
    BY <1>5
  <1> QED BY <1>2, <1>3, <1>5, <1>7, <1>9, <1>10, <1>11 DEF FillView, TermsKept

\* What setting the status of order o makes of each order.
StatusView(o, st) ==
    /\ TermsKept
    /\ \A p \in 1 .. Len(orders) : p # o => orders'[p] = orders[p]
    /\ orders'[o].status = st
    /\ orders'[o].remaining = orders[o].remaining
    /\ orders'[o].filled = orders[o].filled

LEMMA StatusViews ==
  ASSUME MemoryOK, NEW o \in 1 .. Len(orders),
         NEW st \in {"open", "partial", "filled", "cancelled"},
         orders' = [orders EXCEPT ![o].status = st]
  PROVE  StatusView(o, st)
  <1>1. /\ Len(orders') = Len(orders)
        /\ \A p \in 1 .. Len(orders) : p # o => orders'[p] = orders[p]
        /\ orders'[o] = [orders[o] EXCEPT !.status = st]
    BY OrderStatusType
  <1>2. orders[o] \in Order
    BY DEF MemoryOK
  <1>3. /\ SameTerms(orders'[o], orders[o]) /\ orders'[o].status = st
        /\ orders'[o].remaining = orders[o].remaining /\ orders'[o].filled = orders[o].filled
    BY <1>1, <1>2 DEF Order, SameTerms
  <1>4. \A p \in 1 .. Len(orders) : SameTerms(orders'[p], orders[p])
    BY <1>1, <1>3 DEF SameTerms
  <1> QED BY <1>1, <1>3, <1>4 DEF StatusView, TermsKept

\* The status PlaceOrder leaves the order it matched with.
FinishedStatus ==
    IF orders[taker].remaining = 0 THEN "filled"
    ELSE IF orders[taker].filled > 0 THEN "partial" ELSE "open"

LEMMA FinishViews ==
  ASSUME TypeOK, OrderAccounting, FinishOrder
  PROVE  /\ taker \in 1 .. Len(orders) /\ orders[taker] \in Order
         /\ StatusView(taker, FinishedStatus)
  <1>1. MemoryOK /\ taker \in 1 .. Len(orders)
    BY TypeParts DEF LoopOK, MemoryOK, FinishOrder, Idle
  <1>2. orders[taker].status = "open"
    BY <1>1, AccountingParts DEF MemoryAccounted, BeingMatched
  <1>3. orders' = [orders EXCEPT ![taker].status = FinishedStatus]
    BY <1>2 DEF FinishOrder, FinishedStatus
  <1>4. FinishedStatus \in {"open", "partial", "filled", "cancelled"}
    BY DEF FinishedStatus
  <1>5. StatusView(taker, FinishedStatus)
    BY <1>1, <1>3, <1>4, StatusViews
  <1> QED BY <1>1, <1>5 DEF MemoryOK

LEMMA CancelViews ==
  ASSUME TypeOK, NEW o \in DOMAIN orders, NEW w, CancelOrder(o, w)
  PROVE  o \in 1 .. Len(orders) /\ orders[o] \in Order /\ StatusView(o, "cancelled")
  <1>0. MemoryOK
    BY TypeParts
  <1>1. MemoryOK /\ o \in 1 .. Len(orders)
    BY <1>0 DEF MemoryOK
  <1>2. orders' = [orders EXCEPT ![o].status = "cancelled"]
    BY DEF CancelOrder
  <1>3. StatusView(o, "cancelled")
    BY <1>1, <1>2, StatusViews
  <1> QED BY <1>1, <1>3 DEF MemoryOK

\* A new order follows the others, which stay as they are.
PlaceView(w, side, type, price, qty) ==
    /\ Len(orders) \in Nat /\ Len(orders') = Len(orders) + 1
    /\ \A o \in 1 .. Len(orders) : orders'[o] = orders[o]
    /\ 1 .. Len(orders') = (1 .. Len(orders)) \cup {Len(orders) + 1}
    /\ orders'[Len(orders) + 1] =
          [wallet |-> w, side |-> side, type |-> type, price |-> price, qty |-> qty,
           filled |-> 0, remaining |-> qty, status |-> "open"]
    /\ taker = 0 /\ taker' = Len(orders) + 1

LEMMA PlaceViews ==
  ASSUME TypeOK, NEW w, NEW side, NEW type, NEW price, NEW qty,
         PlaceOrder(w, side, type, price, qty)
  PROVE  PlaceView(w, side, type, price, qty)
  <1>1. PICK x : x = [wallet |-> w, side |-> side, type |-> type, price |-> price,
                      qty |-> qty, filled |-> 0, remaining |-> qty, status |-> "open"]
    OBVIOUS
  <1>2. /\ orders \in Seq(Order) /\ orders' = Append(orders, x)
        /\ taker = 0 /\ taker' = Len(orders) + 1
    BY <1>1, TypeParts DEF PlaceOrder, Idle, MemoryOK
  <1>3. /\ Len(orders) \in Nat /\ Len(orders') = Len(orders) + 1
        /\ \A o \in 1 .. Len(orders) : orders'[o] = orders[o]
        /\ orders'[Len(orders) + 1] = x
    BY <1>2
  <1>4. 1 .. Len(orders') = (1 .. Len(orders)) \cup {Len(orders) + 1}
    BY <1>3
  <1> QED BY <1>1, <1>2, <1>3, <1>4 DEF PlaceView

-----------------------------------------------------------------------------
(* The books.  The invariant says of a book as a set of orders, and of its *)
(* order, what BookIsLive, LiveIsInBook and the match rely on: a book that *)
(* is not sorted may strand a price, one that lists an order twice may     *)
(* trade it twice.                                                         *)

BookOK(side) ==
    /\ Distinct(book[side])
    /\ Listed(book[side]) \subseteq LiveOf(orders, side) \ {taker}
    /\ \A o \in LiveOf(orders, side) \ {taker} :
          orders[o].type = "limit" => o \in Listed(book[side])
    /\ InOrder(orders, side, book[side])

Books == \A side \in Sides : BookOK(side)

\* Prices do not change, so neither does the order of a book.
LEMMA InOrderKept ==
  ASSUME NEW n \in Nat, NEW s \in Seq(1 .. n), NEW os, NEW ps, NEW side,
         \A o \in 1 .. n : ps[o].price = os[o].price, InOrder(os, side, s)
  PROVE  InOrder(ps, side, s)
  <1>1. \A i \in 1 .. Len(s) : s[i] \in 1 .. n
    OBVIOUS
  <1>2. \A i \in 1 .. Len(s) : ps[s[i]].price = os[s[i]].price
    BY <1>1
  <1> QED BY <1>2 DEF InOrder

LEMMA BookTypes ==
  ASSUME TypeOK, NEW side \in Sides
  PROVE  /\ book[side] \in Seq(1 .. Len(orders)) /\ Len(orders) \in Nat
         /\ orders \in Seq(Order) /\ book \in [Sides -> Seq(1 .. Len(orders))]
  BY TypeParts DEF LoopOK, MemoryOK

\* A step that leaves a book as it is and its orders as live as they were.
LEMMA SameBook ==
  ASSUME TypeOK, NEW side \in Sides, BookOK(side), book'[side] = book[side],
         LiveOf(orders', side) \ {taker'} = LiveOf(orders, side) \ {taker},
         \A o \in 1 .. Len(orders) : /\ orders'[o].price = orders[o].price
                                     /\ orders'[o].type = orders[o].type
  PROVE  BookOK(side)'
  <1>1. InOrder(orders', side, book[side])
    BY BookTypes, InOrderKept DEF BookOK
  <1>2. \A o \in LiveOf(orders, side) : orders'[o].type = orders[o].type
    BY DEF LiveOf
  <1> QED BY <1>1, <1>2 DEF BookOK

\* A step in which order o leaves the live ones and its book.
LEMMA OneLessBook ==
  ASSUME TypeOK, NEW side \in Sides, BookOK(side), NEW o,
         Distinct(book'[side]), Listed(book'[side]) = Listed(book[side]) \ {o},
         InOrder(orders, side, book'[side]), book'[side] \in Seq(1 .. Len(orders)),
         LiveOf(orders', side) \ {taker'} = (LiveOf(orders, side) \ {taker}) \ {o},
         \A p \in 1 .. Len(orders) : /\ orders'[p].price = orders[p].price
                                     /\ orders'[p].type = orders[p].type
  PROVE  BookOK(side)'
  <1>1. InOrder(orders', side, book'[side])
    BY BookTypes, InOrderKept
  <1>2. \A p \in LiveOf(orders, side) : orders'[p].type = orders[p].type
    BY DEF LiveOf
  <1> QED BY <1>1, <1>2 DEF BookOK

LEMMA PlaceBooks ==
  ASSUME TypeOK, Books, NEW w, NEW s, NEW type, NEW price, NEW qty,
         PlaceOrder(w, s, type, price, qty)
  PROVE  Books'
  <1>1. PlaceView(w, s, type, price, qty) /\ book' = book
    BY PlaceViews DEF PlaceOrder
  <1> SUFFICES ASSUME NEW side \in Sides PROVE BookOK(side)'
    BY DEF Books
  <1>2. LiveOf(orders', side) \ {taker'} = LiveOf(orders, side) \ {taker}
    BY <1>1 DEF PlaceView, LiveOf
  <1> QED BY <1>1, <1>2, SameBook DEF PlaceView, Books

\* The maker of a fill and its book.
LEMMA MakerInBook ==
  ASSUME TypeOK, Books, Matching
  PROVE  LET opp == Opposite(orders[taker].side)
             m   == book[opp][idx]
         IN  /\ opp \in Sides /\ opp # orders[taker].side /\ m = OppositeBook[idx]
             /\ idx \in 1 .. Len(book[opp])
             /\ m \in LiveOf(orders, opp) /\ m # taker /\ m \in Listed(book[opp])
  <1>1. /\ orders[taker].side \in Sides
        /\ idx \in 1 .. Len(OppositeBook)
    BY FillFacts
  <1>2. /\ Opposite(orders[taker].side) \in Sides
        /\ Opposite(orders[taker].side) # orders[taker].side
    BY <1>1 DEF Opposite, Sides
  <1>3. OppositeBook[idx] \in Listed(OppositeBook)
    BY <1>1 DEF Listed
  <1> QED BY <1>1, <1>2, <1>3 DEF OppositeBook, Books, BookOK

LEMMA FillBooks ==
  ASSUME TypeOK, Books, Fill
  PROVE  Books'
  <1>1. PICK opp, m : /\ opp = Opposite(orders[taker].side) /\ opp \in Sides
                      /\ m = OppositeBook[idx] /\ m = book[opp][idx]
                      /\ idx \in 1 .. Len(book[opp])
                      /\ m \in LiveOf(orders, opp) /\ m # taker
    BY MakerInBook DEF Fill
  <1>2. /\ FillView(m) /\ taker \in 1 .. Len(orders) /\ taker' = taker
    BY <1>1, FillViews, FillFacts DEF Fill
  <1>3. IF orders[m].remaining = FillQty
        THEN book' = [book EXCEPT ![opp] = RemoveAt(@, idx)]
        ELSE book' = book
    BY <1>1 DEF Fill, FillQty
  <1>4. m \in 1 .. Len(orders) /\ Live(orders[m]) /\ orders[m].side = opp
    BY <1>1 DEF LiveOf
  <1>5. /\ \A p \in 1 .. Len(orders) : /\ orders'[p].price = orders[p].price
                                       /\ orders'[p].type = orders[p].type
                                       /\ orders'[p].side = orders[p].side
        /\ Len(orders') = Len(orders)
    BY <1>2 DEF FillView, TermsKept, SameTerms
  <1>6. \A p \in 1 .. Len(orders) : p # m => (Live(orders'[p]) <=> Live(orders[p]))
    BY <1>2 DEF FillView, Live
  <1>7. Live(orders'[m]) <=> orders[m].remaining # FillQty
    BY <1>2, <1>4 DEF FillView, Live
  <1> SUFFICES ASSUME NEW side \in Sides PROVE BookOK(side)'
    BY DEF Books
  <1>8. BookOK(side)
    BY DEF Books
  <1>9. CASE orders[m].remaining # FillQty \/ side # opp
    <2>1. book'[side] = book[side]
      BY <1>1, <1>3, <1>9, BookTypes
    <2>2. LiveOf(orders', side) \ {taker'} = LiveOf(orders, side) \ {taker}
      BY <1>2, <1>4, <1>5, <1>6, <1>7, <1>9 DEF LiveOf
    <2> QED BY <1>5, <1>8, <2>1, <2>2, SameBook
  <1>10. CASE orders[m].remaining = FillQty /\ side = opp
    <2>1. book'[side] = RemoveAt(book[side], idx)
      BY <1>3, <1>8, <1>10, BookTypes
    <2>2. LiveOf(orders', side) \ {taker'} = (LiveOf(orders, side) \ {taker}) \ {m}
      BY <1>2, <1>4, <1>5, <1>6, <1>7, <1>10 DEF LiveOf
    <2>3. book[side] \in Seq(1 .. Len(orders)) /\ idx \in 1 .. Len(book[side])
      BY <1>1, <1>10, BookTypes
    <2>4. Distinct(book'[side]) /\ Listed(book'[side]) = Listed(book[side]) \ {m}
      BY <1>1, <1>8, <1>10, <2>1, <2>3, RemoveAtBook DEF BookOK
    <2>5. InOrder(orders, side, book'[side])
      BY <1>8, <2>1, <2>3, RemoveAtInOrder DEF BookOK
    <2>6. book'[side] \in Seq(1 .. Len(orders))
      BY <2>1, <2>3, RemoveAtType
    <2> QED BY <1>5, <1>8, <2>2, <2>4, <2>5, <2>6, OneLessBook
  <1> QED BY <1>9, <1>10

LEMMA FinishBooks ==
  ASSUME TypeOK, OrderAccounting, Books, FinishOrder
  PROVE  Books'
  <1>1. /\ taker \in 1 .. Len(orders) /\ orders[taker] \in Order
        /\ StatusView(taker, FinishedStatus) /\ taker' = 0
    BY FinishViews DEF FinishOrder
  <1>2. /\ \A p \in 1 .. Len(orders) : /\ orders'[p].price = orders[p].price
                                       /\ orders'[p].type = orders[p].type
                                       /\ orders'[p].side = orders[p].side
        /\ Len(orders') = Len(orders)
    BY <1>1 DEF StatusView, TermsKept, SameTerms
  <1>3. \A p \in 1 .. Len(orders) : p # taker => (Live(orders'[p]) <=> Live(orders[p]))
    BY <1>1 DEF StatusView, Live
  <1>4. orders[taker].remaining \in Nat
    BY <1>1 DEF Order
  <1>5. Live(orders'[taker]) <=> orders[taker].remaining > 0
    BY <1>1, <1>4 DEF StatusView, FinishedStatus, Live
  <1> SUFFICES ASSUME NEW side \in Sides PROVE BookOK(side)'
    BY DEF Books
  <1>6. BookOK(side) /\ book[side] \in Seq(1 .. Len(orders)) /\ 0 \notin 1 .. Len(orders)
    BY BookTypes DEF Books
  <1> DEFINE Joins == orders[taker].remaining > 0 /\ side = orders[taker].side
  <1>7. LiveOf(orders', side) \ {taker'} =
           (LiveOf(orders, side) \ {taker}) \cup (IF Joins THEN {taker} ELSE {})
    BY <1>1, <1>2, <1>3, <1>5, <1>6 DEF LiveOf
  <1>8. CASE Joins /\ orders[taker].type = "limit"
    <2>1. PICK s \in Sorted(orders, side, Append(book[side], taker)) : book'[side] = s
      BY <1>8, BookTypes DEF FinishOrder
    <2>2. PICK b : b = Append(book[side], taker)
      OBVIOUS
    <2>3. /\ b \in Seq(1 .. Len(orders)) /\ Len(b) = Len(book[side]) + 1
          /\ \A i \in 1 .. Len(book[side]) : b[i] = book[side][i]
          /\ b[Len(book[side]) + 1] = taker
      BY <1>1, <1>6, <2>2, AppendAt
    <2>4. \A i \in 1 .. Len(b) : i \in 1 .. Len(book[side]) \/ i = Len(book[side]) + 1
      BY <1>6, <2>3
    <2>5. taker \notin Listed(book[side])
      BY <1>6 DEF BookOK
    <2>6. Distinct(b)
      <3> SUFFICES ASSUME NEW i \in 1 .. Len(b), NEW j \in 1 .. Len(b), b[i] = b[j]
                   PROVE  i = j
        BY DEF Distinct
      <3>1. \A k \in 1 .. Len(book[side]) : b[k] # taker
        BY <2>3, <2>5 DEF Listed
      <3>2. CASE i \in 1 .. Len(book[side]) /\ j \in 1 .. Len(book[side])
        BY <1>6, <2>3, <3>2 DEF Distinct, BookOK
      <3>3. CASE i \notin 1 .. Len(book[side]) \/ j \notin 1 .. Len(book[side])
        BY <2>3, <2>4, <3>1, <3>3
      <3> QED BY <3>2, <3>3
    <2>7. Listed(b) = Listed(book[side]) \cup {taker}
      <3>1. PICK n \in Nat : n = Len(book[side]) /\ Len(b) = n + 1
        BY <1>6, <2>3
      <3>2. \A i \in 1 .. n + 1 : i \in 1 .. n \/ i = n + 1
        BY <3>1
      <3>3. 1 .. n \subseteq 1 .. n + 1 /\ n + 1 \in 1 .. n + 1
        BY <3>1
      <3> QED BY <2>3, <3>1, <3>2, <3>3 DEF Listed
    <2>8. /\ Distinct(s) /\ Listed(s) = Listed(book[side]) \cup {taker}
          /\ InOrder(orders, side, s) /\ s \in Seq(1 .. Len(orders))
      <3>1. s \in Sorted(orders, side, b)
        BY <2>1, <2>2
      <3>2. Distinct(s) /\ Listed(s) = Listed(b) /\ InOrder(orders, side, s)
        BY <2>3, <2>6, <3>1, SortedBook
      <3>3. s \in Seq(1 .. Len(orders))
        BY <2>3, <3>1, SortedType
      <3> QED BY <2>7, <3>2, <3>3
    <2>9. InOrder(orders', side, s)
      BY <1>2, <2>8, BookTypes, InOrderKept
    <2>10. \A p \in LiveOf(orders, side) : orders'[p].type = orders[p].type
      BY <1>2 DEF LiveOf
    <2> QED BY <1>6, <1>7, <1>8, <2>1, <2>8, <2>9, <2>10 DEF BookOK
  <1>9. CASE ~(Joins /\ orders[taker].type = "limit")
    <2>1. book'[side] = book[side]
      BY <1>1, <1>9, BookTypes DEF FinishOrder, Order
    <2>2. InOrder(orders', side, book[side])
      BY <1>2, <1>6, BookTypes, InOrderKept DEF BookOK
    <2>3. \A p \in LiveOf(orders, side) \cup {taker} : orders'[p].type = orders[p].type
      BY <1>1, <1>2 DEF LiveOf
    <2> QED BY <1>6, <1>7, <1>9, <2>1, <2>2, <2>3 DEF BookOK
  <1> QED BY <1>8, <1>9

LEMMA CancelBooks ==
  ASSUME TypeOK, Books, NEW o \in DOMAIN orders, NEW w, CancelOrder(o, w)
  PROVE  Books'
  <1>1. /\ o \in 1 .. Len(orders) /\ orders[o] \in Order /\ StatusView(o, "cancelled")
        /\ taker' = taker
        /\ book' = [book EXCEPT ![orders[o].side] = Without(@, o)]
    BY CancelViews DEF CancelOrder
  <1>2. /\ \A p \in 1 .. Len(orders) : /\ orders'[p].price = orders[p].price
                                       /\ orders'[p].type = orders[p].type
                                       /\ orders'[p].side = orders[p].side
        /\ Len(orders') = Len(orders)
    BY <1>1 DEF StatusView, TermsKept, SameTerms
  <1>3. \A p \in 1 .. Len(orders) : p # o => (Live(orders'[p]) <=> Live(orders[p]))
    BY <1>1 DEF StatusView, Live
  <1>4. ~Live(orders'[o])
    BY <1>1 DEF StatusView, Live
  <1> SUFFICES ASSUME NEW side \in Sides PROVE BookOK(side)'
    BY DEF Books
  <1>5. BookOK(side) /\ book[side] \in Seq(1 .. Len(orders))
    BY BookTypes DEF Books
  <1>6. CASE side = orders[o].side
    <2>1. book'[side] = Without(book[side], o)
      BY <1>1, <1>6, BookTypes
    <2>2. /\ Distinct(book'[side]) /\ Listed(book'[side]) = Listed(book[side]) \ {o}
          /\ InOrder(orders, side, book'[side])
      BY <1>5, <2>1, WithoutBook DEF BookOK
    <2>3. book'[side] \in Seq(1 .. Len(orders))
      BY <1>5, <2>1, WithoutType
    <2>4. LiveOf(orders', side) \ {taker'} = (LiveOf(orders, side) \ {taker}) \ {o}
      BY <1>1, <1>2, <1>3, <1>4 DEF LiveOf
    <2> QED BY <1>2, <1>5, <2>2, <2>3, <2>4, OneLessBook
  <1>7. CASE side # orders[o].side
    <2>1. book'[side] = book[side]
      BY <1>1, <1>7, BookTypes
    <2>2. LiveOf(orders', side) \ {taker'} = LiveOf(orders, side) \ {taker}
      BY <1>1, <1>2, <1>3, <1>7 DEF LiveOf
    <2> QED BY <1>2, <1>5, <2>1, <2>2, SameBook
  <1> QED BY <1>6, <1>7

LEMMA RestartBooks ==
  ASSUME TypeOK, Restart
  PROVE  Books'
  <1>1. PICK file \in {disk} \cup (IF TornWrites THEN {Blank} ELSE {}) :
           /\ orders' = file.orders /\ taker' = 0
           /\ \E b \in Rebuilt(file.orders, "buy"), s \in Rebuilt(file.orders, "sell") :
                 book' = [side \in Sides |-> IF side = "buy" THEN b ELSE s]
    BY DEF Restart
  <1>2. orders' \in Seq(Order)
    BY <1>1, TypeParts, BlankType DEF FileOK
  <1> SUFFICES ASSUME NEW side \in Sides PROVE BookOK(side)'
    BY DEF Books
  <1>3. book'[side] \in Rebuilt(orders', side)
    BY <1>1 DEF Sides
  <1>4. /\ Distinct(book'[side]) /\ Listed(book'[side]) = LiveOf(orders', side)
        /\ InOrder(orders', side, book'[side])
    BY <1>2, <1>3, RebuiltBook
  <1>5. LiveOf(orders', side) = LiveOf(orders', side) \ {taker'}
    BY <1>1 DEF LiveOf
  <1> QED BY <1>4, <1>5 DEF BookOK

LEMMA BooksStep == TypeOK /\ OrderAccounting /\ Books /\ [Next]_vars => Books'
  <1> SUFFICES ASSUME TypeOK, OrderAccounting, Books, [Next]_vars PROVE Books'
    OBVIOUS
  <1>1. ASSUME UNCHANGED <<orders, taker, book>> PROVE Books'
    BY <1>1 DEF Books, BookOK
  <1>2. ASSUME NEW u, CreateWallet(u) PROVE Books'
    BY <1>1, <1>2 DEF CreateWallet
  <1>3. ASSUME NEW w, NEW d, NEW amount,
               DepositToWallet(w, d, amount) \/ WithdrawFromWallet(w, d, amount)
        PROVE  Books'
    BY <1>1, <1>3 DEF DepositToWallet, WithdrawFromWallet
  <1>4. ASSUME NEW u, NEW w, NEW tier, NEW sanctioned, SubmitKYC(u, w, tier, sanctioned)
        PROVE  Books'
    BY <1>1, <1>4 DEF SubmitKYC
  <1>5. ASSUME NEW a, ApproveKYC(a) \/ RejectKYC(a) PROVE Books'
    BY <1>1, <1>5 DEF ApproveKYC, RejectKYC
  <1>6. ASSUME NEW w, NEW side, NEW type, NEW offer,
               PlaceOrder(w, side, type, offer[1], offer[2])
        PROVE  Books'
    BY <1>6, PlaceBooks
  <1>7. CASE SkipOwn \/ NewDay \/ UNCHANGED vars
    BY <1>1, <1>7 DEF SkipOwn, NewDay, vars, persistent
  <1>8. CASE Fill
    BY <1>8, FillBooks
  <1>9. CASE FinishOrder
    BY <1>9, FinishBooks
  <1>10. ASSUME NEW o \in DOMAIN orders, NEW w, CancelOrder(o, w) PROVE Books'
    BY <1>10, CancelBooks
  <1>11. CASE Restart
    BY <1>11, RestartBooks
  <1> QED BY <1>2, <1>3, <1>4, <1>5, <1>6, <1>7, <1>8, <1>9, <1>10, <1>11
          DEF Next, Operate

LEMMA BooksInit == Init => Books
  BY DEF Init, Books, BookOK, Distinct, Listed, LiveOf, InOrder

LEMMA BooksInvariant == Spec => []Books
  BY BooksInit, BooksStep, TypeCorrect, OrdersAccounted, PTL DEF Spec

\* A book holds each order once, and only live orders of its side other than
\* the one being matched, for any number of orders, matches, cancels and
\* restarts: no match can trade an order that is gone, or the same one twice.
THEOREM BooksHoldLiveOrders == Spec => []BookIsLive
  <1>1. Books => BookIsLive
    <2> SUFFICES ASSUME Books, NEW side \in Sides
                 PROVE  /\ \A i \in 1 .. Len(book[side]) :
                              /\ Live(orders[book[side][i]])
                              /\ orders[book[side][i]].side = side
                              /\ book[side][i] # taker
                        /\ \A i, j \in 1 .. Len(book[side]) :
                              book[side][i] = book[side][j] => i = j
      BY DEF BookIsLive
    <2>1. BookOK(side)
      BY DEF Books
    <2>2. \A i \in 1 .. Len(book[side]) : book[side][i] \in LiveOf(orders, side) \ {taker}
      BY <2>1 DEF BookOK, Listed
    <2> QED BY <2>1, <2>2 DEF BookOK, Distinct, LiveOf
  <1> QED BY <1>1, BooksInvariant, PTL

\* No live limit order is stranded outside the book of its side.
THEOREM LiveOrdersRest == Spec => []LiveIsInBook
  <1>1. TypeOK /\ Books => LiveIsInBook
    <2> SUFFICES ASSUME TypeOK, Books, NEW o \in DOMAIN orders,
                        Live(orders[o]), orders[o].type = "limit", o # taker
                 PROVE  \E i \in DOMAIN book[orders[o].side] :
                           book[orders[o].side][i] = o
      BY DEF LiveIsInBook
    <2>0. orders \in Seq(Order)
      BY TypeParts DEF MemoryOK
    <2>1. o \in 1 .. Len(orders) /\ orders[o] \in Order
      BY <2>0
    <2>2. PICK side \in Sides : side = orders[o].side
      BY <2>1 DEF Order
    <2>3. o \in LiveOf(orders, side) \ {taker}
      BY <2>1, <2>2 DEF LiveOf
    <2>4. o \in Listed(book[side])
      BY <2>3 DEF Books, BookOK
    <2>5. DOMAIN book[side] = 1 .. Len(book[side])
      BY BookTypes
    <2> QED BY <2>2, <2>4, <2>5 DEF Listed
  <1> QED BY <1>1, BooksInvariant, TypeCorrect, PTL


-----------------------------------------------------------------------------
(* Prices.  Resting orders do not cross because the loop of the match that *)
(* placed each of them passed over own orders alone before it stopped, and *)
(* what follows in a sorted book is no better.  A restart finds the orders *)
(* of the last save, which no match had left halfway.                      *)

Rests(os, tk, o, side) == o \in LiveOf(os, side) \ {tk} /\ os[o].type = "limit"

Uncrossed(os, tk) ==
    \A b, s \in 1 .. Len(os) :
        (/\ Rests(os, tk, b, "buy") /\ Rests(os, tk, s, "sell")
         /\ os[b].wallet # os[s].wallet) => os[b].price < os[s].price

\* The entries the loop has passed are the taker's own, unless it is done.
Passed ==
    \/ Idle
    \/ orders[taker].remaining = 0
    \/ \A j \in 1 .. Len(OppositeBook) :
          j < idx => orders[OppositeBook[j]].wallet = orders[taker].wallet

Prices == Uncrossed(orders, taker) /\ Uncrossed(disk.orders, 0) /\ Passed

\* Orders that rest no more than they did, at the same prices.
LEMMA UncrossedKept ==
  ASSUME NEW os, NEW tk, NEW ps, NEW tk2, Uncrossed(os, tk), Len(ps) = Len(os),
         \A o \in 1 .. Len(os) : SameTerms(ps[o], os[o]),
         \A o \in 1 .. Len(os) : o # tk2 /\ Live(ps[o]) => o # tk /\ Live(os[o])
  PROVE  Uncrossed(ps, tk2)
  BY DEF Uncrossed, Rests, LiveOf, SameTerms

\* A save writes the orders of the memory, when no order is being matched.
LEMMA SavedPrices ==
  ASSUME Save, taker' = 0, Uncrossed(orders', 0)
  PROVE  Prices'
  BY DEF Prices, Save, Persisted, Passed, Idle

LEMMA TakerWants ==
  ASSUME TypeOK, Matching
  PROVE  ~Idle /\ orders[taker].remaining \in Nat /\ orders[taker].remaining # 0
  <1>1. orders[taker] \in Order
    BY FillFacts
  <1>2. ~Idle /\ orders[taker].remaining > 0
    BY DEF Matching
  <1> QED BY <1>1, <1>2 DEF Order

LEMMA PlacePrices ==
  ASSUME TypeOK, Prices, NEW w, NEW s, NEW type, NEW price, NEW qty,
         PlaceOrder(w, s, type, price, qty)
  PROVE  Prices'
  <1>1. PlaceView(w, s, type, price, qty) /\ idx' = 1 /\ disk' = disk
    BY PlaceViews DEF PlaceOrder
  <1>2. Uncrossed(orders', taker')
    BY <1>1 DEF Prices, Uncrossed, Rests, LiveOf, PlaceView
  <1>3. Passed'
    BY <1>1 DEF Passed
  <1> QED BY <1>1, <1>2, <1>3 DEF Prices

LEMMA FillPrices ==
  ASSUME TypeOK, Books, Prices, Fill
  PROVE  Prices'
  <1>1. PICK opp, m : /\ opp = Opposite(orders[taker].side) /\ opp \in Sides
                      /\ m = OppositeBook[idx] /\ m = book[opp][idx]
                      /\ idx \in 1 .. Len(book[opp])
                      /\ m \in LiveOf(orders, opp) /\ m # taker
    BY MakerInBook DEF Fill
  <1>2. /\ FillView(m) /\ taker \in 1 .. Len(orders) /\ taker' = taker /\ disk' = disk
    BY <1>1, FillViews, FillFacts DEF Fill
  <1>3. Uncrossed(orders', taker')
    <2>1. \A o \in 1 .. Len(orders) : o # taker /\ Live(orders'[o]) => Live(orders[o])
      BY <1>1, <1>2 DEF FillView, LiveOf, Live
    <2> QED BY <1>2, <2>1, UncrossedKept DEF Prices, FillView, TermsKept
  <1>4. Passed'
    <2>1. orders'[taker].side = orders[taker].side
          /\ \A o \in 1 .. Len(orders) : orders'[o].wallet = orders[o].wallet
      BY <1>2 DEF FillView, TermsKept, SameTerms
    <2>2. \/ orders[taker].remaining = 0
          \/ \A j \in 1 .. Len(book[opp]) :
                j < idx => orders[book[opp][j]].wallet = orders[taker].wallet
      BY <1>1 DEF Prices, Passed, Fill, Matching, OppositeBook
    <2>3. orders[taker].remaining # 0 /\ ~Idle /\ orders[taker].remaining \in Nat
      BY TakerWants DEF Fill
    <2>4. book[opp] \in Seq(1 .. Len(orders)) /\ book \in [Sides -> Seq(1 .. Len(orders))]
      BY <1>1, BookTypes
    <2>5. CASE orders[m].remaining = FillQty
      <3>1. book' = [book EXCEPT ![opp] = RemoveAt(@, idx)] /\ idx' = idx
        BY <1>1, <2>5 DEF Fill, FillQty
      <3>2. book'[opp] = RemoveAt(book[opp], idx)
        BY <1>1, <2>4, <3>1
      <3>3. /\ Len(book'[opp]) = Len(book[opp]) - 1
            /\ \A j \in 1 .. Len(book[opp]) - 1 : j < idx => book'[opp][j] = book[opp][j]
        <4>1. PICK r : r = RemoveAt(book[opp], idx)
          OBVIOUS
        <4>2. /\ Len(r) = Len(book[opp]) - 1
              /\ \A j \in 1 .. Len(book[opp]) - 1 :
                    r[j] = book[opp][IF j < idx THEN j ELSE j + 1]
          BY <1>1, <2>4, <4>1, RemoveAtEntries
        <4> QED BY <3>2, <4>1, <4>2
      <3>4. \A j \in 1 .. Len(book'[opp]) : j < idx =>
               /\ j \in 1 .. Len(book[opp]) /\ book'[opp][j] = book[opp][j]
               /\ book[opp][j] \in 1 .. Len(orders)
        <4>1. PICK n \in Nat : n = Len(book[opp]) /\ n # 0
          BY <1>1, <2>4
        <4>2. \A j \in 1 .. n - 1 : j \in 1 .. n
          BY <4>1
        <4>3. \A j \in 1 .. n : book[opp][j] \in 1 .. Len(orders)
          BY <2>4, <4>1
        <4> QED BY <3>3, <4>1, <4>2, <4>3
      <3>5. \A j \in 1 .. Len(book'[opp]) : j < idx' =>
               orders'[book'[opp][j]].wallet = orders'[taker].wallet
        BY <1>2, <2>1, <2>2, <2>3, <3>1, <3>4
      <3>6. OppositeBook' = book'[opp]
        BY <1>1, <1>2, <2>1 DEF OppositeBook
      <3> QED BY <1>2, <3>5, <3>6 DEF Passed
    <2>6. CASE orders[m].remaining # FillQty
      <3>1. FillQty = orders[taker].remaining
        BY <1>1, <2>6 DEF FillQty
      <3>2. orders'[taker].remaining = orders[taker].remaining - FillQty
        BY <1>2 DEF FillView
      <3>3. orders'[taker].remaining = 0
        BY <2>3, <3>1, <3>2
      <3> QED BY <1>2, <3>3 DEF Passed
    <2> QED BY <2>5, <2>6
  <1> QED BY <1>2, <1>3, <1>4 DEF Prices

LEMMA SkipPrices ==
  ASSUME TypeOK, Prices, SkipOwn
  PROVE  Prices'
  <1>1. /\ orders' = orders /\ book' = book /\ taker' = taker /\ disk' = disk
        /\ idx' = idx + 1
        /\ orders[OppositeBook[idx]].wallet = orders[taker].wallet
    BY DEF SkipOwn, persistent
  <1>2. OppositeBook' = OppositeBook
    BY <1>1 DEF OppositeBook
  <1>3. OppositeBook \in Seq(1 .. Len(orders)) /\ idx \in Nat
    BY FillFacts DEF SkipOwn
  <1>4. \A j \in 1 .. Len(OppositeBook) : j < idx + 1 => j < idx \/ j = idx
    BY <1>3
  <1>5. Passed'
    BY <1>1, <1>2, <1>4 DEF Prices, Passed, Idle
  <1> QED BY <1>1, <1>5 DEF Prices

\* When the loop stops with something left of a limit order, no order of
\* another wallet is left that it could trade with.
LEMMA NothingLeft ==
  ASSUME TypeOK, Books, Prices, ~Idle, ~Matching,
         orders[taker].remaining # 0, orders[taker].type = "limit",
         NEW opp \in Sides, opp = Opposite(orders[taker].side),
         NEW o, Rests(orders, taker, o, opp), orders[o].wallet # orders[taker].wallet
  PROVE  Before(opp, orders[taker].price, orders[o].price)
  <1>1. BookOK(opp) /\ OppositeBook = book[opp] /\ book[opp] \in Seq(1 .. Len(orders))
    BY BookTypes DEF Books, OppositeBook
  <1>2. PICK j \in 1 .. Len(book[opp]) : book[opp][j] = o
    BY <1>1 DEF BookOK, Rests, Listed
  <1>3. ~(j < idx)
    BY <1>1, <1>2 DEF Prices, Passed
  <1>4. taker \in 1 .. Len(orders) /\ idx \in Nat \ {0} /\ orders \in Seq(Order)
    BY TypeParts DEF LoopOK, MemoryOK, Idle
  <1>5. orders[taker].remaining \in Nat /\ orders[taker].price \in Int
    <2>1. orders[taker] \in Order
      BY <1>4
    <2> QED BY <2>1 DEF Order
  <1>6. orders[taker].remaining > 0
    BY <1>5
  <1>7. idx \in 1 .. Len(book[opp]) /\ idx <= Len(book[opp])
    BY <1>1, <1>3, <1>4
  <1>8. Before(opp, orders[taker].price, orders[book[opp][idx]].price)
    BY <1>1, <1>6, <1>7 DEF Matching
  <1>9. j = idx \/ ~Before(opp, orders[o].price, orders[book[opp][idx]].price)
    BY <1>1, <1>2, <1>3, <1>4, <1>7 DEF BookOK, InOrder
  <1>10. orders[o].price \in Int /\ orders[book[opp][idx]].price \in Int
    <2>1. o \in 1 .. Len(orders) /\ book[opp][idx] \in 1 .. Len(orders)
      BY <1>1, <1>2, <1>7
    <2>2. \A p \in 1 .. Len(orders) : orders[p] \in Order
      BY <1>4
    <2>3. \A p \in 1 .. Len(orders) : orders[p].price \in Int
      BY <2>2 DEF Order
    <2> QED BY <2>1, <2>3
  <1>11. j = idx => orders[o].price = orders[book[opp][idx]].price
    BY <1>2
  <1> QED BY <1>5, <1>8, <1>9, <1>10, <1>11 DEF Before

LEMMA FinishPrices ==
  ASSUME TypeOK, OrderAccounting, Books, Prices, FinishOrder
  PROVE  Prices'
  <1>1. /\ taker \in 1 .. Len(orders) /\ orders[taker] \in Order
        /\ StatusView(taker, FinishedStatus) /\ taker' = 0 /\ Save
        /\ ~Idle /\ ~Matching
    BY FinishViews DEF FinishOrder
  <1>2. /\ Len(orders') = Len(orders)
        /\ \A p \in 1 .. Len(orders) : SameTerms(orders'[p], orders[p])
        /\ \A p \in 1 .. Len(orders) : p # taker /\ Live(orders'[p]) => Live(orders[p])
    BY <1>1 DEF StatusView, TermsKept
  <1>3. \A p \in 1 .. Len(orders), side \in Sides :
           p # taker /\ Rests(orders', taker', p, side) => Rests(orders, taker, p, side)
    BY <1>2 DEF Rests, LiveOf, SameTerms
  <1>4. \A side \in Sides : Rests(orders', taker', taker, side) =>
           /\ orders[taker].remaining # 0 /\ orders[taker].type = "limit"
           /\ orders[taker].side = side
    BY <1>1, <1>2 DEF Rests, LiveOf, SameTerms, StatusView, FinishedStatus, Live
  <1>5. SUFFICES ASSUME NEW b \in 1 .. Len(orders), NEW s \in 1 .. Len(orders),
                        Rests(orders', taker', b, "buy"), Rests(orders', taker', s, "sell"),
                        orders[b].wallet # orders[s].wallet
                 PROVE  orders[b].price < orders[s].price
    <2>1. Uncrossed(orders', taker') => Prices'
      BY <1>1, SavedPrices
    <2> QED BY <1>2, <2>1 DEF Uncrossed, SameTerms
  <1>6. CASE b # taker /\ s # taker
    BY <1>3, <1>5, <1>6 DEF Prices, Uncrossed, Sides
  <1>7. CASE b = taker
    <2>1. orders[taker].side = "buy" /\ orders[taker].remaining # 0
          /\ orders[taker].type = "limit"
      BY <1>4, <1>5, <1>7 DEF Sides
    <2>2. s # taker
      BY <1>5, <1>7
    <2>3. Rests(orders, taker, s, "sell") /\ Opposite(orders[taker].side) = "sell"
      BY <1>3, <1>5, <2>1, <2>2 DEF Sides, Opposite
    <2>4. Before("sell", orders[taker].price, orders[s].price)
      BY <1>1, <1>5, <1>7, <2>1, <2>3, NothingLeft DEF Sides
    <2> QED BY <1>7, <2>4 DEF Before
  <1>8. CASE s = taker
    <2>1. orders[taker].side = "sell" /\ orders[taker].remaining # 0
          /\ orders[taker].type = "limit"
      BY <1>4, <1>5, <1>8 DEF Sides
    <2>2. b # taker
      BY <1>5, <1>8
    <2>3. Rests(orders, taker, b, "buy") /\ Opposite(orders[taker].side) = "buy"
      BY <1>3, <1>5, <2>1, <2>2 DEF Sides, Opposite
    <2>4. Before("buy", orders[taker].price, orders[b].price)
      BY <1>1, <1>5, <1>8, <2>1, <2>3, NothingLeft DEF Sides
    <2>5. orders[b].price \in Int /\ orders[taker].price \in Int
      <3>1. orders[b] \in Order
        BY TypeParts DEF MemoryOK
      <3> QED BY <1>1, <3>1 DEF Order
    <2> QED BY <1>8, <2>4, <2>5 DEF Before
  <1> QED BY <1>6, <1>7, <1>8

LEMMA CancelPrices ==
  ASSUME TypeOK, Prices, NEW o \in DOMAIN orders, NEW w, CancelOrder(o, w)
  PROVE  Prices'
  <1>1. /\ o \in 1 .. Len(orders) /\ StatusView(o, "cancelled")
        /\ taker = 0 /\ taker' = 0 /\ Save
    BY CancelViews DEF CancelOrder, Idle
  <1>2. \A p \in 1 .. Len(orders) : Live(orders'[p]) => Live(orders[p])
    BY <1>1 DEF StatusView, Live
  <1>3. Uncrossed(orders', taker')
    BY <1>1, <1>2, UncrossedKept DEF Prices, StatusView, TermsKept
  <1> QED BY <1>1, <1>3, SavedPrices

LEMMA RestartPrices ==
  ASSUME Prices, Restart
  PROVE  Prices'
  <1>1. PICK file \in {disk} \cup (IF TornWrites THEN {Blank} ELSE {}) :
           orders' = file.orders /\ taker' = 0 /\ disk' = file
    BY DEF Restart
  <1>2. Uncrossed(file.orders, 0)
    BY <1>1 DEF Prices, Blank, Uncrossed
  <1> QED BY <1>1, <1>2 DEF Prices, Passed, Idle

LEMMA PricesStep == TypeOK /\ OrderAccounting /\ Books /\ Prices /\ [Next]_vars => Prices'
  <1> SUFFICES ASSUME TypeOK, OrderAccounting, Books, Prices, [Next]_vars PROVE Prices'
    OBVIOUS
  <1>1. ASSUME UNCHANGED <<orders, taker>>, Idle, Save PROVE Prices'
    BY <1>1, SavedPrices DEF Prices, Idle
  <1>2. ASSUME NEW u, CreateWallet(u) PROVE Prices'
    BY <1>1, <1>2 DEF CreateWallet
  <1>3. ASSUME NEW w, NEW d, NEW amount,
               DepositToWallet(w, d, amount) \/ WithdrawFromWallet(w, d, amount)
        PROVE  Prices'
    BY <1>1, <1>3 DEF DepositToWallet, WithdrawFromWallet
  <1>4. ASSUME NEW u, NEW w, NEW tier, NEW sanctioned, SubmitKYC(u, w, tier, sanctioned)
        PROVE  Prices'
    BY <1>1, <1>4 DEF SubmitKYC
  <1>5. ASSUME NEW a, ApproveKYC(a) \/ RejectKYC(a) PROVE Prices'
    BY <1>1, <1>5 DEF ApproveKYC, RejectKYC
  <1>6. ASSUME NEW w, NEW side, NEW type, NEW offer,
               PlaceOrder(w, side, type, offer[1], offer[2])
        PROVE  Prices'
    BY <1>6, PlacePrices
  <1>7. CASE NewDay \/ UNCHANGED vars
    BY <1>7 DEF NewDay, vars, persistent, Prices, Passed, Idle, OppositeBook
  <1>8. CASE SkipOwn
    BY <1>8, SkipPrices
  <1>9. CASE Fill
    BY <1>9, FillPrices
  <1>10. CASE FinishOrder
    BY <1>10, FinishPrices
  <1>11. ASSUME NEW o \in DOMAIN orders, NEW w, CancelOrder(o, w) PROVE Prices'
    BY <1>11, CancelPrices
  <1>12. CASE Restart
    BY <1>12, RestartPrices
  <1> QED BY <1>2, <1>3, <1>4, <1>5, <1>6, <1>7, <1>8, <1>9, <1>10, <1>11, <1>12
          DEF Next, Operate

LEMMA PricesInvariant == Spec => []Prices
  <1>1. Init => Prices
    BY DEF Init, Blank, Prices, Uncrossed, Passed, Idle
  <1> QED BY <1>1, PricesStep, BooksInvariant, TypeCorrect, OrdersAccounted, PTL DEF Spec

\* Resting limit orders of different wallets never cross, for any number of
\* orders and in whatever order they were placed, matched and cancelled.
THEOREM RestingOrdersApart == Spec => []NoCrossing
  <1>1. TypeOK /\ Books /\ Prices => NoCrossing
    <2> SUFFICES ASSUME TypeOK, Books, Prices,
                        NEW i \in DOMAIN book["buy"], NEW j \in DOMAIN book["sell"],
                        orders[book["buy"][i]].wallet # orders[book["sell"][j]].wallet,
                        orders[book["buy"][i]].type = "limit",
                        orders[book["sell"][j]].type = "limit"
                 PROVE  orders[book["buy"][i]].price < orders[book["sell"][j]].price
      BY DEF NoCrossing
    <2>1. ASSUME NEW side \in Sides, NEW k \in DOMAIN book[side]
          PROVE  book[side][k] \in LiveOf(orders, side) \ {taker}
      <3>1. k \in 1 .. Len(book[side])
        BY <2>1, BookTypes
      <3> QED BY <3>1 DEF Books, BookOK, Listed
    <2>2. /\ Rests(orders, taker, book["buy"][i], "buy")
          /\ Rests(orders, taker, book["sell"][j], "sell")
      BY <2>1 DEF Rests, Sides
    <2> QED BY <2>2 DEF Prices, Uncrossed, Rests, LiveOf
  <1> QED BY <1>1, PricesInvariant, BooksInvariant, TypeCorrect, PTL

-----------------------------------------------------------------------------
(* Execution.  Only a fill makes the list of trades longer: a restart goes *)
(* back to a file that never holds more trades than the memory.            *)

TradesSaved == Len(disk.trades) <= Len(trades)

LEMMA TradesSavedStep ==
  TypeOK /\ TradesSaved /\ [Next]_vars
    => TradesSaved' /\ (Len(trades') > Len(trades) => Fill)
  <1> DEFINE Goal == TradesSaved' /\ (Len(trades') > Len(trades) => Fill)
  <1> SUFFICES ASSUME TypeOK, TradesSaved, [Next]_vars PROVE Goal
    OBVIOUS
  <1>0. trades \in Seq(Trade) /\ Len(trades) \in Nat /\ disk.trades \in Seq(Trade)
    BY TypeParts DEF MemoryOK, FileOK
  <1>1. ASSUME trades' = trades, Save \/ disk' = disk PROVE Goal
    BY <1>0, <1>1 DEF Save, Persisted, TradesSaved
  <1>2. ASSUME NEW u, CreateWallet(u) PROVE Goal
    BY <1>1, <1>2 DEF CreateWallet
  <1>3. ASSUME NEW w, NEW d, NEW amount,
               DepositToWallet(w, d, amount) \/ WithdrawFromWallet(w, d, amount)
        PROVE  Goal
    BY <1>1, <1>3 DEF DepositToWallet, WithdrawFromWallet
  <1>4. ASSUME NEW u, NEW w, NEW tier, NEW sanctioned, SubmitKYC(u, w, tier, sanctioned)
        PROVE  Goal
    BY <1>1, <1>4 DEF SubmitKYC
  <1>5. ASSUME NEW a, ApproveKYC(a) \/ RejectKYC(a) PROVE Goal
    BY <1>1, <1>5 DEF ApproveKYC, RejectKYC
  <1>6. ASSUME NEW w, NEW side, NEW type, NEW offer,
               PlaceOrder(w, side, type, offer[1], offer[2])
        PROVE  Goal
    BY <1>1, <1>6 DEF PlaceOrder
  <1>7. CASE SkipOwn \/ NewDay \/ UNCHANGED vars
    BY <1>1, <1>7 DEF SkipOwn, NewDay, vars, persistent
  <1>8. CASE Fill
    <2>1. PICK x : trades' = Append(trades, x) /\ disk' = disk
      BY <1>8 DEF Fill
    <2>2. Len(trades') = Len(trades) + 1
      BY <1>0, <2>1
    <2> QED BY <1>0, <1>8, <2>1, <2>2 DEF TradesSaved
  <1>9. CASE FinishOrder
    BY <1>1, <1>9 DEF FinishOrder
  <1>10. ASSUME NEW o, NEW w, CancelOrder(o, w) PROVE Goal
    BY <1>1, <1>10 DEF CancelOrder
  <1>11. CASE Restart
    <2>1. PICK file \in {disk} \cup (IF TornWrites THEN {Blank} ELSE {}) :
             trades' = file.trades /\ disk' = file
      BY <1>11 DEF Restart
    <2>2. Len(file.trades) <= Len(trades)
      BY <1>0, <2>1 DEF TradesSaved, Blank
    <2>3. Len(file.trades) \in Nat
      BY <1>0, <2>1 DEF Blank
    <2> QED BY <1>0, <2>1, <2>2, <2>3 DEF TradesSaved
  <1> QED BY <1>2, <1>3, <1>4, <1>5, <1>6, <1>7, <1>8, <1>9, <1>10, <1>11
          DEF Next, Operate

LEMMA TradesSavedInvariant == Spec => []TradesSaved
  <1>1. Init => TradesSaved
    BY DEF Init, Blank, TradesSaved
  <1> QED BY <1>1, TradesSavedStep, TypeCorrect, PTL DEF Spec

\* The trade of a fill, and that it is the last of the list.
LEMMA FillTrades ==
  ASSUME TypeOK, Fill
  PROVE  /\ trades' = Append(trades, TradeOf(OppositeBook[idx], FillQty))
         /\ LastTrade' = TradeOf(OppositeBook[idx], FillQty)
  <1>1. trades' = Append(trades, TradeOf(OppositeBook[idx], FillQty))
    BY DEF Fill, FillQty
  <1>2. trades \in Seq(Trade)
    BY TypeParts DEF MemoryOK
  <1>3. PICK x : x = TradeOf(OppositeBook[idx], FillQty)
    OBVIOUS
  <1>4. trades'[Len(trades')] = x
    BY <1>1, <1>2, <1>3
  <1> QED BY <1>1, <1>3, <1>4 DEF LastTrade

BestPrice ==
    LET tr   == LastTrade'
        t    == orders[tr.taker]
        side == Opposite(t.side)
    IN  /\ t.type = "limit" => ~Before(side, t.price, tr.price)
        /\ \A i \in DOMAIN book[side] :
              LET o == orders[book[side][i]] IN
              o.wallet # t.wallet => ~Before(side, o.price, tr.price)

LEMMA FillBest ==
  ASSUME TypeOK, Books, Prices, Fill
  PROVE  BestPrice
  <1>1. PICK opp, m : /\ opp = Opposite(orders[taker].side) /\ opp \in Sides
                      /\ m = OppositeBook[idx] /\ m = book[opp][idx]
                      /\ idx \in 1 .. Len(book[opp])
                      /\ OppositeBook = book[opp]
    BY MakerInBook DEF Fill, OppositeBook
  <1>2. PICK price : price = orders[m].price /\ price \in Int
    BY <1>1, FillFacts DEF Fill, Order
  <1>3. LastTrade'.taker = taker /\ LastTrade'.price = price
    BY <1>1, <1>2, FillTrades DEF TradeOf
  <1>4. orders[taker].type = "limit" => ~Before(opp, orders[taker].price, price)
    BY <1>1, <1>2 DEF Fill, Matching
  <1>5. book[opp] \in Seq(1 .. Len(orders)) /\ idx \in Nat
    BY <1>1, BookTypes
  <1>6. ASSUME NEW i \in DOMAIN book[opp],
               orders[book[opp][i]].wallet # orders[taker].wallet
        PROVE  ~Before(opp, orders[book[opp][i]].price, price)
    <2>1. i \in 1 .. Len(book[opp])
      BY <1>5
    <2>2. ~Idle /\ orders[taker].remaining # 0
      BY TakerWants DEF Fill
    <2>3. ~(i < idx)
      BY <1>1, <1>6, <2>1, <2>2 DEF Prices, Passed
    <2>4. CASE i = idx
      BY <1>1, <1>2, <2>4 DEF Before
    <2>5. CASE idx < i
      BY <1>1, <1>2, <2>1, <2>5 DEF Books, BookOK, InOrder
    <2> QED BY <1>5, <2>1, <2>3, <2>4, <2>5
  <1> QED BY <1>1, <1>3, <1>4, <1>6 DEF BestPrice

\* Every trade is made at the best price the maker's side has for the taker,
\* in books of any length and however often the loop skipped, cut or refilled.
THEOREM TradesAtBestPrice == Spec => BestExecution
  <1>1. TypeOK /\ Books /\ Prices /\ TradesSaved /\ [Next]_vars
           => (Len(trades') > Len(trades) => BestPrice)
    BY TradesSavedStep, FillBest
  <1>2. TypeOK /\ Books /\ Prices /\ TradesSaved /\ [Next]_vars
           => [Len(trades') > Len(trades) => BestPrice]_vars
    BY <1>1
  <1>3. Spec => [][Len(trades') > Len(trades) => BestPrice]_vars
    BY <1>2, TypeCorrect, BooksInvariant, PricesInvariant, TradesSavedInvariant, PTL DEF Spec
  <1> QED BY <1>3 DEF BestExecution, BestPrice

-----------------------------------------------------------------------------
(* Progress of the loop, the part of PlaceOrderReturns that is safety:     *)
(* what is left of the opposite book gets less with every iteration, if it *)
(* skips, trades or cuts a maker out, and nothing else goes on meanwhile.  *)

Unvisited == Len(OppositeBook) + 1 - idx

\* Every step during a match ends it, gets on with it or is midnight.
MatchAdvances ==
    ~Idle => \/ Idle'
             \/ NewDay /\ Unvisited' = Unvisited /\ ~Idle'
             \/ Unvisited \in Nat /\ Unvisited' \in Nat /\ Unvisited' < Unvisited

LEMMA SkipAdvances ==
  ASSUME TypeOK, SkipOwn
  PROVE  Unvisited \in Nat /\ Unvisited' \in Nat /\ Unvisited' < Unvisited
  <1>1. /\ OppositeBook' = OppositeBook /\ idx' = idx + 1
    BY DEF SkipOwn, persistent, OppositeBook
  <1>2. OppositeBook \in Seq(1 .. Len(orders)) /\ idx \in 1 .. Len(OppositeBook)
    BY FillFacts DEF SkipOwn
  <1>3. PICK n \in Nat : n = Len(OppositeBook)
    BY <1>2
  <1>4. PICK i \in 1 .. n : i = idx
    BY <1>2, <1>3
  <1> QED BY <1>1, <1>3, <1>4 DEF Unvisited

LEMMA FillAdvances ==
  ASSUME TypeOK, Fill
  PROVE  Unvisited \in Nat /\ Unvisited' \in Nat /\ Unvisited' < Unvisited
  <1>1. PICK opp : opp = Opposite(orders[taker].side)
    OBVIOUS
  <1>2. /\ OppositeBook \in Seq(1 .. Len(orders)) /\ idx \in 1 .. Len(OppositeBook)
        /\ taker \in 1 .. Len(orders) /\ orders[taker].side \in Sides
    BY FillFacts DEF Fill
  <1>3. opp \in Sides /\ OppositeBook = book[opp] /\ book \in [Sides -> Seq(1 .. Len(orders))]
    BY <1>1, <1>2, BookTypes DEF Opposite, Sides, OppositeBook
  <1>4. OppositeBook' = book'[opp]
    <2>1. taker' = taker /\ orders'[taker].side = orders[taker].side
      BY <1>2, FillViews DEF Fill, FillView, TermsKept, SameTerms
    <2> QED BY <1>1, <2>1 DEF OppositeBook
  <1>5. PICK n \in Nat : n = Len(book[opp])
    BY <1>2, <1>3
  <1>6. PICK i \in 1 .. n : i = idx
    BY <1>2, <1>3, <1>5
  <1>7. \/ book'[opp] = RemoveAt(book[opp], i) /\ idx' = i
        \/ book'[opp] = book[opp] /\ idx' = i + 1
    <2>1. \/ book' = [book EXCEPT ![opp] = RemoveAt(@, idx)] /\ idx' = idx
          \/ book' = book /\ idx' = idx + 1
      BY <1>1 DEF Fill
    <2> QED BY <1>3, <1>6, <2>1
  <1>8. Len(RemoveAt(book[opp], i)) = n - 1
    BY <1>3, <1>5, RemoveAtEntries
  <1>9. Unvisited = n + 1 - i
    BY <1>3, <1>5, <1>6 DEF Unvisited
  <1>10. Unvisited' = n - i
    <2>1. Unvisited' = Len(book'[opp]) + 1 - idx'
      BY <1>4 DEF Unvisited
    <2>2. CASE book'[opp] = RemoveAt(book[opp], i) /\ idx' = i
      <3>1. Len(book'[opp]) = n - 1
        BY <1>8, <2>2
      <3> QED BY <2>1, <2>2, <3>1
    <2>3. CASE book'[opp] = book[opp] /\ idx' = i + 1
      <3>1. Len(book'[opp]) = n
        BY <1>5, <2>3
      <3> QED BY <2>1, <2>3, <3>1
    <2> QED BY <1>7, <2>2, <2>3
  <1> QED BY <1>9, <1>10

\* Whatever else the keeper does needs the lock to be free.
LEMMA MatchSteps == Next /\ ~Idle => SkipOwn \/ Fill \/ FinishOrder \/ NewDay \/ Restart
  <1> SUFFICES ASSUME Next, ~Idle
               PROVE  SkipOwn \/ Fill \/ FinishOrder \/ NewDay \/ Restart
    OBVIOUS
  <1>1. \A u : ~CreateWallet(u)
    BY DEF CreateWallet
  <1>2. \A w, d, amount : ~DepositToWallet(w, d, amount) /\ ~WithdrawFromWallet(w, d, amount)
    BY DEF DepositToWallet, WithdrawFromWallet
  <1>3. \A a : ~ApproveKYC(a) /\ ~RejectKYC(a)
    BY DEF ApproveKYC, RejectKYC
  <1>4. \A u, w, tier, sanctioned : ~SubmitKYC(u, w, tier, sanctioned)
    BY DEF SubmitKYC
  <1>5. \A w, side, type, price, qty : ~PlaceOrder(w, side, type, price, qty)
    BY DEF PlaceOrder
  <1>6. \A o, w : ~CancelOrder(o, w)
    BY DEF CancelOrder
  <1> QED BY <1>1, <1>2, <1>3, <1>4, <1>5, <1>6 DEF Next, Operate

\* A match of any length comes to its end if it is let run: no iteration of
\* matchOrder leaves the loop where it was, not one that cuts the book.
THEOREM MatchesAdvance == Spec => [][MatchAdvances]_vars
  <1>1. TypeOK /\ [Next]_vars => [MatchAdvances]_vars
    <2> SUFFICES ASSUME TypeOK, Next, ~Idle
                 PROVE  MatchAdvances
      BY DEF MatchAdvances
    <2>1. CASE SkipOwn
      BY <2>1, SkipAdvances DEF MatchAdvances
    <2>2. CASE Fill
      BY <2>2, FillAdvances DEF MatchAdvances
    <2>3. CASE FinishOrder \/ Restart
      BY <2>3 DEF FinishOrder, Restart, MatchAdvances, Idle
    <2>4. CASE NewDay
      <3>1. UNCHANGED <<orders, book, taker, idx>>
        BY <2>4 DEF NewDay, persistent
      <3> QED BY <2>4, <3>1 DEF MatchAdvances, Unvisited, OppositeBook, Idle
    <2> QED BY <2>1, <2>2, <2>3, <2>4, MatchSteps
  <1> QED BY <1>1, TypeCorrect, PTL DEF Spec

-----------------------------------------------------------------------------
(* Verification of those who trade.  A tier, once granted, is replaced but *)
(* never withdrawn, and an order keeps the owner it was placed by; the     *)
(* wallets of the file are those of the memory, so that a restart finds    *)
(* both the orders and the tiers.                                          *)

\* Application a is the last one approved for wallet w, and gave it its tier.
LastFor(a, w) ==
    /\ apps[a].wallet = w /\ apps[a].approvedAt # 0
    /\ apps[a].tier = wallets[w].tier
    /\ \A b \in DOMAIN apps :
          apps[b].wallet = w => apps[b].approvedAt <= apps[a].approvedAt

Granted ==
    /\ \A a \in DOMAIN apps : apps[a].approvedAt <= Approvals
    /\ \A w \in DOMAIN wallets :
          wallets[w].tier # None => \E a \in DOMAIN apps : LastFor(a, w)

\* An application is approved while it is pending, and a sanctions match rejects
\* it before it is.
Decisions ==
    \A a \in DOMAIN apps :
        /\ apps[a].tier >= Basic
        /\ apps[a].approvedAt # 0 =>
              apps[a].status # "pending" /\ ~apps[a].sanctioned

Verified(ws, os) == \A o \in 1 .. Len(os) : ws[os[o].wallet].tier # None

Verification ==
    /\ Granted /\ Decisions
    /\ Verified(wallets, orders) /\ Verified(wallets, disk.orders)

TiersKept ==
    /\ DOMAIN wallets \subseteq DOMAIN wallets'
    /\ \A w \in DOMAIN wallets : wallets[w].tier # None => wallets'[w].tier # None

\* An order that was there keeps its owner, and one that was not belongs to a
\* wallet that may trade.
OwnersKept ==
    \A o \in 1 .. Len(orders') :
        \/ o \in 1 .. Len(orders) /\ orders'[o].wallet = orders[o].wallet
        \/ orders'[o].wallet \in DOMAIN wallets /\ wallets[orders'[o].wallet].tier # None

LEMMA RegistryTypes ==
  ASSUME TypeOK
  PROVE  /\ wallets \in Seq(Wallet) /\ apps \in Seq(App) /\ orders \in Seq(Order)
         /\ disk.orders \in Seq(Order)
         /\ \A w \in DOMAIN wallets : wallets[w] \in Wallet /\ wallets[w].tier \in Nat
         /\ \A a \in DOMAIN apps : /\ apps[a] \in App /\ apps[a].tier \in Nat
                                   /\ apps[a].approvedAt \in Nat
                                   /\ apps[a].wallet \in DOMAIN wallets
         /\ \A o \in 1 .. Len(orders) : orders[o].wallet \in DOMAIN wallets
         /\ \A o \in 1 .. Len(disk.orders) : disk.orders[o].wallet \in 1 .. Len(disk.wallets)
  <1>1. MemoryOK /\ FileOK(disk)
    BY TypeParts
  <1>2. \A w \in DOMAIN wallets : wallets[w] \in Wallet
    BY <1>1 DEF MemoryOK
  <1>3. \A a \in DOMAIN apps : apps[a] \in App /\ apps[a].wallet \in DOMAIN wallets
    BY <1>1 DEF MemoryOK
  <1>4. \A w \in DOMAIN wallets : wallets[w].tier \in Nat
    BY <1>2 DEF Wallet
  <1>5. \A a \in DOMAIN apps : apps[a].tier \in Nat /\ apps[a].approvedAt \in Nat
    BY <1>3 DEF App
  <1>6. wallets \in Seq(Wallet) /\ apps \in Seq(App) /\ orders \in Seq(Order)
    BY <1>1 DEF MemoryOK
  <1>7. disk.orders \in Seq(Order)
    BY <1>1 DEF FileOK
  <1>8. \A o \in 1 .. Len(orders) : orders[o].wallet \in DOMAIN wallets
    BY <1>1 DEF MemoryOK
  <1>9. \A o \in 1 .. Len(disk.orders) : disk.orders[o].wallet \in 1 .. Len(disk.wallets)
    BY <1>1 DEF FileOK
  <1> QED BY <1>2, <1>3, <1>4, <1>5, <1>6, <1>7, <1>8, <1>9

SameApproval(a) ==
    /\ apps'[a].wallet = apps[a].wallet /\ apps'[a].tier = apps[a].tier
    /\ apps'[a].approvedAt = apps[a].approvedAt

\* A step that approves nothing, and gives no tier.
Undecided ==
    /\ DOMAIN apps \subseteq DOMAIN apps'
    /\ \A a \in DOMAIN apps : SameApproval(a)
    /\ \A a \in DOMAIN apps' \ DOMAIN apps : apps'[a].approvedAt = 0
    /\ DOMAIN wallets \subseteq DOMAIN wallets'
    /\ \A w \in DOMAIN wallets : wallets'[w].tier = wallets[w].tier
    /\ \A w \in DOMAIN wallets' \ DOMAIN wallets : wallets'[w].tier = None

\* A step that approves application a, which may be new, and gives wallet w
\* its tier.
Decided(a, w) ==
    /\ DOMAIN apps' = DOMAIN apps \cup {a}
    /\ a \in DOMAIN apps => apps[a].approvedAt = 0
    /\ \A b \in DOMAIN apps \ {a} : SameApproval(b)
    /\ apps'[a].wallet = w /\ apps'[a].approvedAt = Approvals + 1
    /\ DOMAIN wallets' = DOMAIN wallets /\ w \in DOMAIN wallets
    /\ wallets'[w].tier = apps'[a].tier /\ wallets'[w].tier # None
    /\ \A v \in DOMAIN wallets \ {w} : wallets'[v].tier = wallets[v].tier

\* The approved applications, which Approvals counts.
Approved == {a \in DOMAIN apps : apps[a].approvedAt # 0}

LEMMA ApprovedFinite ==
  ASSUME TypeOK
  PROVE  /\ IsFiniteSet(Approved) /\ Approvals = Cardinality(Approved)
         /\ Approvals' = Cardinality(Approved)' /\ Approvals \in Nat
  <1>1. IsFiniteSet(1 .. Len(apps)) /\ DOMAIN apps = 1 .. Len(apps)
    BY FS_Interval, RegistryTypes
  <1>2. IsFiniteSet(Approved)
    BY <1>1, FS_Subset DEF Approved
  <1>3. Approvals \in Nat
    BY RegistryTypes, ApprovalsType
  <1> QED BY <1>2, <1>3 DEF Approvals, Approved

LEMMA UndecidedGranted ==
  ASSUME TypeOK, Granted, Undecided
  PROVE  Granted' /\ TiersKept
  <1>1. Approved' = Approved
    BY DEF Undecided, Approved, SameApproval
  <1>2. Approvals' = Approvals /\ Approvals \in Nat
    BY <1>1, ApprovedFinite
  <1>3. \A a \in DOMAIN apps' : apps'[a].approvedAt <= Approvals'
    BY <1>2 DEF Granted, Undecided, SameApproval
  <1>4. ASSUME NEW w \in DOMAIN wallets', wallets'[w].tier # None
        PROVE  \E a \in DOMAIN apps' : LastFor(a, w)'
    <2>1. w \in DOMAIN wallets /\ wallets[w].tier # None /\ wallets'[w].tier = wallets[w].tier
      BY <1>4 DEF Undecided
    <2>2. PICK a \in DOMAIN apps : LastFor(a, w)
      BY <2>1 DEF Granted
    <2>3. a \in DOMAIN apps' /\ SameApproval(a) /\ apps[a].approvedAt \in Nat
      BY RegistryTypes DEF Undecided
    <2>4. ASSUME NEW b \in DOMAIN apps', apps'[b].wallet = w
          PROVE  apps'[b].approvedAt <= apps[a].approvedAt
      <3>1. CASE b \in DOMAIN apps
        BY <2>2, <2>4, <3>1 DEF LastFor, Undecided, SameApproval
      <3>2. CASE b \notin DOMAIN apps
        BY <2>3, <2>4, <3>2 DEF Undecided
      <3> QED BY <3>1, <3>2
    <2>5. LastFor(a, w)'
      BY <2>1, <2>2, <2>3, <2>4 DEF LastFor, SameApproval
    <2> QED BY <2>3, <2>5
  <1>5. Granted'
    BY <1>3, <1>4 DEF Granted
  <1>6. TiersKept
    BY DEF TiersKept, Undecided
  <1> QED BY <1>5, <1>6

LEMMA DecidedGranted ==
  ASSUME TypeOK, Granted, NEW a, NEW w, Decided(a, w)
  PROVE  Granted' /\ TiersKept
  <1>1. Approvals \in Nat /\ IsFiniteSet(Approved)
    BY ApprovedFinite
  <1>2. Approved' = Approved \cup {a} /\ a \notin Approved
    BY <1>1 DEF Decided, Approved, SameApproval
  <1>3. Cardinality(Approved \cup {a}) = Cardinality(Approved) + 1
    BY <1>1, <1>2, FS_AddElement
  <1>4. Approvals' = Approvals + 1
    BY <1>2, <1>3, ApprovedFinite
  <1>5. ASSUME NEW b \in DOMAIN apps'
        PROVE  /\ apps'[b].approvedAt <= Approvals + 1
               /\ b # a => apps'[b].approvedAt <= Approvals /\ apps'[b].approvedAt \in Nat
    <2>1. CASE b = a
      BY <1>1, <2>1 DEF Decided
    <2>2. CASE b # a
      <3>1. b \in DOMAIN apps /\ apps'[b].approvedAt = apps[b].approvedAt
        BY <2>2 DEF Decided, SameApproval
      <3>2. apps[b].approvedAt \in Nat /\ apps[b].approvedAt <= Approvals
        BY <3>1, RegistryTypes DEF Granted
      <3> QED BY <1>1, <3>1, <3>2
    <2> QED BY <2>1, <2>2
  <1>6. ASSUME NEW v \in DOMAIN wallets', wallets'[v].tier # None
        PROVE  \E b \in DOMAIN apps' : LastFor(b, v)'
    <2>1. CASE v = w
      <3>1. a \in DOMAIN apps' /\ apps'[a].wallet = v /\ apps'[a].tier = wallets'[v].tier
            /\ apps'[a].approvedAt = Approvals + 1 /\ Approvals + 1 # 0
        BY <1>1, <2>1 DEF Decided
      <3>2. LastFor(a, v)'
        BY <1>5, <3>1 DEF LastFor
      <3> QED BY <3>1, <3>2
    <2>2. CASE v # w
      <3>1. v \in DOMAIN wallets /\ wallets[v].tier # None /\ wallets'[v].tier = wallets[v].tier
        BY <1>6, <2>2 DEF Decided
      <3>2. PICK b \in DOMAIN apps : LastFor(b, v)
        BY <3>1 DEF Granted
      <3>3. b # a
        BY <3>2 DEF LastFor, Decided
      <3>4. b \in DOMAIN apps' /\ SameApproval(b)
        BY <3>3 DEF Decided
      <3>5. ASSUME NEW c \in DOMAIN apps', apps'[c].wallet = v
            PROVE  apps'[c].approvedAt <= apps[b].approvedAt
        <4>1. c # a
          BY <2>2, <3>5 DEF Decided
        <4>2. c \in DOMAIN apps /\ SameApproval(c)
          BY <4>1 DEF Decided
        <4> QED BY <3>2, <3>5, <4>2 DEF LastFor, SameApproval
      <3>6. LastFor(b, v)'
        BY <3>1, <3>2, <3>4, <3>5 DEF LastFor, SameApproval
      <3> QED BY <3>4, <3>6
    <2> QED BY <2>1, <2>2
  <1>7. Granted'
    BY <1>4, <1>5, <1>6 DEF Granted
  <1>8. TiersKept
    BY DEF TiersKept, Decided
  <1> QED BY <1>7, <1>8

LEMMA CreateUndecided ==
  ASSUME TypeOK, NEW u, CreateWallet(u)
  PROVE  Undecided /\ apps' = apps
  <1> DEFINE x == [user |-> u, tier |-> None, active |-> TRUE]
  <1>1. wallets \in Seq(Wallet) /\ wallets' = Append(wallets, x) /\ apps' = apps
    BY RegistryTypes DEF CreateWallet
  <1>2. x.tier = None
    OBVIOUS
  <1> HIDE DEF x
  <1>3. /\ DOMAIN wallets' = DOMAIN wallets \cup {Len(wallets) + 1}
        /\ \A w \in DOMAIN wallets : wallets'[w] = wallets[w]
        /\ wallets'[Len(wallets) + 1] = x
    BY <1>1
  <1> QED BY <1>1, <1>2, <1>3 DEF Undecided, SameApproval

LEMMA SubmitGranted ==
  ASSUME TypeOK, Granted, Decisions, NEW u, NEW w \in DOMAIN wallets,
         NEW tier \in Requests, NEW sanctioned \in Sanctions, SubmitKYC(u, w, tier, sanctioned)
  PROVE  Granted' /\ Decisions' /\ TiersKept
  <1>1. PICK auto, active : auto = (tier = Basic /\ ~sanctioned)
                            /\ active = (wallets[w].active /\ ~sanctioned)
    OBVIOUS
  <1>2. tier \in Nat /\ tier >= Basic /\ sanctioned \in BOOLEAN /\ Approvals \in Nat
    <2>1. wallets[w].tier < tier /\ wallets[w].tier \in Nat
      BY RegistryTypes DEF SubmitKYC
    <2>2. tier \in Int /\ sanctioned \in BOOLEAN
      BY ExchangeAssumption
    <2> QED BY <2>1, <2>2, ApprovedFinite DEF Basic
  <1>3. PICK st, at :
           /\ apps' = Append(apps, [user |-> u, wallet |-> w, tier |-> tier,
                                    status |-> st, sanctioned |-> sanctioned,
                                    approvedAt |-> at])
           /\ wallets' = [wallets EXCEPT ![w].tier = IF auto THEN Basic ELSE @,
                                         ![w].active = active]
           /\ IF auto THEN st = "approved" /\ at = Approvals + 1 ELSE at = 0
    BY <1>1, RegistryTypes DEF SubmitKYC, Wallet
  <1> DEFINE app == [user |-> u, wallet |-> w, tier |-> tier, status |-> st,
                     sanctioned |-> sanctioned, approvedAt |-> at]
             a == Len(apps) + 1
  <1>4. /\ app.wallet = w /\ app.tier = tier /\ app.approvedAt = at
        /\ app.status = st /\ app.sanctioned = sanctioned
    BY <1>2
  <1>5. apps' = Append(apps, app)
    BY <1>3
  <1> HIDE DEF app
  <1>6. /\ DOMAIN apps' = DOMAIN apps \cup {a} /\ a \notin DOMAIN apps
        /\ \A b \in DOMAIN apps : apps'[b] = apps[b]
        /\ apps'[a] = app
    BY <1>5, RegistryTypes
  <1> HIDE DEF a
  <1>7. /\ DOMAIN wallets' = DOMAIN wallets
        /\ \A v \in DOMAIN wallets \ {w} : wallets'[v] = wallets[v]
        /\ wallets'[w].tier = IF auto THEN Basic ELSE wallets[w].tier
    <2>1. /\ DOMAIN wallets' = DOMAIN wallets
          /\ \A v \in DOMAIN wallets \ {w} : wallets'[v] = wallets[v]
      BY <1>3, RegistryTypes
    <2>2. wallets'[w] = [wallets[w] EXCEPT !.tier = IF auto THEN Basic ELSE @,
                                           !.active = active]
      BY <1>3, RegistryTypes
    <2>3. wallets[w] \in Wallet
      BY RegistryTypes
    <2> QED BY <2>1, <2>2, <2>3 DEF Wallet
  <1>8. Decisions'
    <2>1. at # 0 => st # "pending" /\ ~sanctioned
      BY <1>1, <1>3
    <2> QED BY <1>2, <1>4, <1>6, <2>1 DEF Decisions
  <1>9. CASE auto
    <2>1. tier = Basic /\ at = Approvals + 1
      BY <1>1, <1>3, <1>9
    <2>2. wallets'[w].tier = Basic
      BY <1>7, <1>9
    <2>3. apps'[a].wallet = w /\ apps'[a].tier = Basic /\ apps'[a].approvedAt = Approvals + 1
      BY <1>4, <1>6, <2>1
    <2>4. \A b \in DOMAIN apps \ {a} : SameApproval(b)
      BY <1>6 DEF SameApproval
    <2>5. Decided(a, w)
      BY <1>6, <1>7, <2>2, <2>3, <2>4 DEF Decided, Basic, None
    <2> QED BY <1>8, <2>5, DecidedGranted
  <1>10. CASE ~auto
    <2>1. Undecided
      BY <1>3, <1>4, <1>6, <1>7, <1>10 DEF Undecided, SameApproval
    <2> QED BY <1>8, <2>1, UndecidedGranted
  <1> QED BY <1>9, <1>10

LEMMA ApproveGranted ==
  ASSUME TypeOK, SanctionedIsFrozen, Granted, Decisions, NEW a \in DOMAIN apps, ApproveKYC(a)
  PROVE  Granted' /\ Decisions' /\ TiersKept
  <1>1. apps[a] \in App /\ Approvals \in Nat /\ apps[a].wallet \in DOMAIN wallets
    BY RegistryTypes, ApprovedFinite
  <1>2. apps[a].status = "pending" /\ ~apps[a].sanctioned /\ apps[a].approvedAt = 0
    <2>1. apps[a].status = "pending"
      BY DEF ApproveKYC, Approvable
    <2> QED BY <2>1 DEF SanctionedIsFrozen, Decisions
  <1>3. /\ DOMAIN apps' = DOMAIN apps
        /\ \A b \in DOMAIN apps \ {a} : apps'[b] = apps[b]
        /\ apps'[a] = [apps[a] EXCEPT !.status = "approved", !.approvedAt = Approvals + 1]
    BY RegistryTypes DEF ApproveKYC
  <1>4. /\ apps'[a].wallet = apps[a].wallet /\ apps'[a].tier = apps[a].tier
        /\ apps'[a].approvedAt = Approvals + 1 /\ apps'[a].status = "approved"
    BY <1>1, <1>3 DEF App
  <1>5. apps'[a].sanctioned = apps[a].sanctioned
    BY <1>1, <1>3 DEF App
  <1>6. PICK w, tier : w = apps[a].wallet /\ tier = apps[a].tier
    OBVIOUS
  <1>7. /\ DOMAIN wallets' = DOMAIN wallets /\ w \in DOMAIN wallets
        /\ \A v \in DOMAIN wallets \ {w} : wallets'[v] = wallets[v]
        /\ wallets'[w].tier = tier
    <2>1. wallets' = [wallets EXCEPT ![w].tier = tier] /\ w \in DOMAIN wallets
      BY <1>1, <1>6 DEF ApproveKYC
    <2>2. wallets'[w] = [wallets[w] EXCEPT !.tier = tier] /\ wallets[w] \in Wallet
      BY <2>1, RegistryTypes
    <2>3. wallets'[w].tier = tier
      BY <2>2 DEF Wallet
    <2> QED BY <2>1, <2>3, RegistryTypes
  <1>8. tier # None
    BY <1>6, RegistryTypes DEF Decisions, Basic, None
  <1>9. Decided(a, w)
    BY <1>2, <1>3, <1>4, <1>6, <1>7, <1>8 DEF Decided, SameApproval
  <1>10. Decisions'
    <2>1. apps'[a].tier >= Basic
      BY <1>4 DEF Decisions
    <2>2. \A b \in DOMAIN apps \ {a} :
             /\ apps'[b].tier >= Basic
             /\ apps'[b].approvedAt # 0 =>
                   apps'[b].status # "pending" /\ ~apps'[b].sanctioned
      BY <1>3 DEF Decisions
    <2> QED BY <1>2, <1>3, <1>4, <1>5, <2>1, <2>2 DEF Decisions
  <1> QED BY <1>9, <1>10, DecidedGranted

\* A rejected application keeps its approval, if it had one.
LEMMA RejectGranted ==
  ASSUME TypeOK, Granted, Decisions, NEW a \in DOMAIN apps, RejectKYC(a)
  PROVE  Granted' /\ Decisions' /\ TiersKept
  <1>1. apps[a] \in App
    BY RegistryTypes
  <1>2. /\ DOMAIN apps' = DOMAIN apps
        /\ \A b \in DOMAIN apps \ {a} : apps'[b] = apps[b]
        /\ apps'[a] = [apps[a] EXCEPT !.status = "rejected"]
    BY RegistryTypes DEF RejectKYC
  <1>3. SameApproval(a) /\ apps'[a].status = "rejected"
    BY <1>1, <1>2 DEF App, SameApproval
  <1>4. apps'[a].sanctioned = apps[a].sanctioned
    BY <1>1, <1>2 DEF App
  <1>5. Undecided
    BY <1>2, <1>3 DEF Undecided, SameApproval, RejectKYC
  <1>6. Decisions'
    BY <1>2, <1>3, <1>4 DEF Decisions, SameApproval
  <1> QED BY <1>5, <1>6, UndecidedGranted

LEMMA TiersStep ==
  ASSUME TypeOK, Registry, Granted, Decisions, [Next]_vars
  PROVE  Granted' /\ Decisions' /\ (TiersKept \/ Restart)
  <1> DEFINE Goal == Granted' /\ Decisions' /\ TiersKept
  <1>1. ASSUME UNCHANGED <<wallets, apps>> PROVE Goal
    <2>1. Undecided /\ Decisions'
      BY <1>1 DEF Undecided, SameApproval, Decisions
    <2> QED BY <2>1, UndecidedGranted
  <1>2. ASSUME NEW u \in Users, CreateWallet(u) PROVE Goal
    <2>1. Undecided /\ apps' = apps
      BY <1>2, CreateUndecided
    <2>2. Decisions'
      BY <2>1 DEF Decisions
    <2> QED BY <2>1, <2>2, UndecidedGranted
  <1>4. ASSUME NEW u \in Users, NEW w \in DOMAIN wallets, NEW tier \in Requests,
               NEW sanctioned \in Sanctions, SubmitKYC(u, w, tier, sanctioned)
        PROVE  Goal
    BY <1>4, SubmitGranted
  <1>5. ASSUME NEW a \in DOMAIN apps, ApproveKYC(a) \/ RejectKYC(a)
        PROVE  Goal
    BY <1>5, ApproveGranted, RejectGranted DEF Registry
  <1> HIDE DEF Goal
  <1>3. ASSUME NEW w, NEW d, NEW amount,
               DepositToWallet(w, d, amount) \/ WithdrawFromWallet(w, d, amount)
        PROVE  Goal
    BY <1>1, <1>3 DEF DepositToWallet, WithdrawFromWallet
  <1>6. ASSUME NEW w, NEW side, NEW type, NEW offer,
               PlaceOrder(w, side, type, offer[1], offer[2])
        PROVE  Goal
    BY <1>1, <1>6 DEF PlaceOrder
  <1>7. ASSUME SkipOwn \/ Fill \/ FinishOrder \/ NewDay \/ UNCHANGED vars PROVE Goal
    BY <1>1, <1>7 DEF SkipOwn, Fill, FinishOrder, NewDay, vars, persistent
  <1>8. ASSUME NEW o, NEW w, CancelOrder(o, w) PROVE Goal
    BY <1>1, <1>8 DEF CancelOrder
  <1>9. ASSUME Restart PROVE Goal \/ (wallets' = <<>> /\ apps' = <<>>)
    <2>1. UNCHANGED <<wallets, apps>> \/ (wallets' = <<>> /\ apps' = <<>>)
      BY <1>9, RestartRegistry DEF Registry
    <2> QED BY <1>1, <2>1
  <1>10. wallets' = <<>> /\ apps' = <<>> => Granted' /\ Decisions'
    BY DEF Granted, Decisions
  <1>11. Goal \/ Restart
    BY <1>2, <1>3, <1>4, <1>5, <1>6, <1>7, <1>8 DEF Next, Operate
  <1> QED BY <1>9, <1>10, <1>11 DEF Goal

LEMMA OwnersStep ==
  ASSUME TypeOK, OrderAccounting, [Next]_vars
  PROVE  (OwnersKept /\ (Save \/ disk' = disk)) \/ Restart
  <1> DEFINE Goal == OwnersKept /\ (Save \/ disk' = disk)
  <1>1. ASSUME orders' = orders PROVE OwnersKept
    BY <1>1 DEF OwnersKept
  <1>2. ASSUME TermsKept PROVE OwnersKept
    BY <1>2 DEF OwnersKept, TermsKept, SameTerms
  <1>3. ASSUME NEW u, CreateWallet(u) PROVE Goal
    BY <1>1, <1>3 DEF CreateWallet
  <1>4. ASSUME NEW w, NEW d, NEW amount,
               DepositToWallet(w, d, amount) \/ WithdrawFromWallet(w, d, amount)
        PROVE  Goal
    BY <1>1, <1>4 DEF DepositToWallet, WithdrawFromWallet
  <1>5. ASSUME NEW u, NEW w, NEW tier, NEW sanctioned, SubmitKYC(u, w, tier, sanctioned)
        PROVE  Goal
    BY <1>1, <1>5 DEF SubmitKYC
  <1>6. ASSUME NEW a, ApproveKYC(a) \/ RejectKYC(a) PROVE Goal
    BY <1>1, <1>6 DEF ApproveKYC, RejectKYC
  <1>7. ASSUME NEW w \in DOMAIN wallets, NEW side, NEW type, NEW offer,
               PlaceOrder(w, side, type, offer[1], offer[2])
        PROVE  Goal
    <2>1. PlaceView(w, side, type, offer[1], offer[2]) /\ disk' = disk
      BY <1>7, PlaceViews DEF PlaceOrder
    <2>2. wallets[w].tier # None
      BY <1>7, RegistryTypes DEF PlaceOrder, MayTrade, None, Basic
    <2>3. OwnersKept
      BY <2>1, <2>2 DEF PlaceView, OwnersKept
    <2> QED BY <2>1, <2>3
  <1>8. CASE SkipOwn \/ NewDay \/ UNCHANGED vars
    BY <1>1, <1>8 DEF SkipOwn, NewDay, vars, persistent
  <1>9. CASE Fill
    BY <1>2, <1>9, FillViews DEF FillView, Fill
  <1>10. CASE FinishOrder
    BY <1>2, <1>10, FinishViews DEF StatusView, FinishOrder
  <1>11. ASSUME NEW o \in DOMAIN orders, NEW w, CancelOrder(o, w) PROVE Goal
    BY <1>2, <1>11, CancelViews DEF StatusView, CancelOrder
  <1> QED BY <1>3, <1>4, <1>5, <1>6, <1>7, <1>8, <1>9, <1>10, <1>11
          DEF Next, Operate

LEMMA VerificationStep ==
  TypeOK /\ OrderAccounting /\ Registry /\ Verification /\ [Next]_vars => Verification'
  <1> SUFFICES ASSUME TypeOK, OrderAccounting, Registry, Verification, [Next]_vars
               PROVE  Verification'
    OBVIOUS
  <1>0. RegistrySaved
    BY DEF Registry
  <1>1. Granted' /\ Decisions' /\ (TiersKept \/ Restart)
    BY TiersStep DEF Verification
  <1>2. CASE Restart
    <2>1. PICK file \in {disk} \cup (IF TornWrites THEN {Blank} ELSE {}) :
             wallets' = file.wallets /\ orders' = file.orders /\ disk' = file
      BY <1>2 DEF Restart
    <2>2. Verified(file.wallets, file.orders)
      BY <1>0, <2>1 DEF Verification, RegistrySaved, Blank, Verified
    <2> QED BY <1>1, <2>1, <2>2 DEF Verification
  <1>3. CASE TiersKept /\ OwnersKept /\ (Save \/ disk' = disk)
    <2>1. Verified(wallets', orders')
      BY <1>3, RegistryTypes DEF Verification, Verified, TiersKept, OwnersKept
    <2>2. Verified(wallets', disk.orders)
      <3>1. \A o \in 1 .. Len(disk.orders) : disk.orders[o].wallet \in DOMAIN wallets
        BY <1>0, TypeParts DEF FileOK, RegistrySaved
      <3> QED BY <1>3, <3>1 DEF Verification, Verified, TiersKept
    <2>3. Verified(wallets', disk'.orders)
      BY <1>3, <2>1, <2>2 DEF Save, Persisted
    <2> QED BY <1>1, <2>1, <2>3 DEF Verification
  <1> QED BY <1>1, <1>2, <1>3, OwnersStep

\* TradersAreVerified: nobody trades without a decision.  The owner of an order
\* has the tier of the last application that was approved for its wallet, for
\* any sequence of applications, decisions, orders and restarts.
THEOREM OwnersVerified == Spec => []TradersAreVerified
  <1>1. Init => Verification
    BY DEF Init, Blank, Verification, Granted, Decisions, Verified
  <1>2. Spec => []Verification
    BY <1>1, VerificationStep, RegistryInvariant, TypeCorrect, OrdersAccounted, PTL
       DEF Spec
  <1>3. TypeOK /\ Verification => TradersAreVerified
    <2> SUFFICES ASSUME TypeOK, Verification, NEW o \in DOMAIN orders,
                        NEW w, w = orders[o].wallet
                 PROVE  /\ wallets[w].tier >= Basic
                        /\ \E a \in DOMAIN apps :
                              /\ apps[a].wallet = w /\ apps[a].approvedAt # 0
                              /\ ~apps[a].sanctioned /\ apps[a].tier = wallets[w].tier
                              /\ \A b \in DOMAIN apps : apps[b].wallet = w =>
                                    apps[b].approvedAt <= apps[a].approvedAt
      BY DEF TradersAreVerified
    <2>1. o \in 1 .. Len(orders) /\ w \in DOMAIN wallets /\ wallets[w].tier \in Nat
      BY RegistryTypes
    <2>2. wallets[w].tier # None
      BY <2>1 DEF Verification, Verified
    <2>3. wallets[w].tier >= Basic
      BY <2>1, <2>2 DEF None, Basic
    <2>4. PICK a \in DOMAIN apps : LastFor(a, w)
      BY <2>1, <2>2 DEF Verification, Granted
    <2>5. ~apps[a].sanctioned
      BY <2>4 DEF LastFor, Verification, Decisions
    <2> QED BY <2>3, <2>4, <2>5 DEF LastFor
  <1> QED BY <1>2, <1>3, TypeCorrect, PTL

=============================================================================
