-------------------------- MODULE SettlementProofs --------------------------
(***************************************************************************)
(* Proofs about Settlement: the counter of active escrows never goes       *)
(* negative, an escrow pays out once, what is finished stays finished, and *)
(* the totals reported are what the records add up to.                     *)
(***************************************************************************)
EXTENDS Settlement, Sums

-----------------------------------------------------------------------------
(* Lemmas.                                                                 *)

\* The elements of a sequence after Append: the old ones and the new one.
LEMMA AppendAt ==
  ASSUME NEW S, NEW s \in Seq(S), NEW x \in S
  PROVE  /\ Append(s, x) \in Seq(S)
         /\ Len(Append(s, x)) = Len(s) + 1
         /\ \A i \in 1 .. Len(s) : Append(s, x)[i] = s[i]
         /\ Append(s, x)[Len(s) + 1] = x
  OBVIOUS

\* Replacing one element of a sequence keeps the others and the length.
LEMMA ExceptAt ==
  ASSUME NEW S, NEW s \in Seq(S), NEW i \in 1 .. Len(s), NEW x \in S
  PROVE  /\ [s EXCEPT ![i] = x] \in Seq(S)
         /\ Len([s EXCEPT ![i] = x]) = Len(s)
         /\ \A j \in 1 .. Len(s) : [s EXCEPT ![i] = x][j] = IF j = i THEN x ELSE s[j]
  OBVIOUS

Statuses == {"pending", "funded", "completed", "failed", "refunded"}

\* Escrow e goes to status st and nothing else of any escrow changes.
Moves(e, st) == escrows' = [escrows EXCEPT ![e] = [escrows[e] EXCEPT !.status = st]]

\* What Moves does to the escrows, one by one.
LEMMA MovesAt ==
  ASSUME escrows \in Seq(Escrow), NEW e \in 1 .. Len(escrows), NEW st \in Statuses,
         Moves(e, st)
  PROVE  /\ escrows' \in Seq(Escrow)
         /\ Len(escrows') = Len(escrows)
         /\ escrows'[e] = [escrows[e] EXCEPT !.status = st]
         /\ escrows'[e].status = st /\ escrows'[e].amount = escrows[e].amount
         /\ \A j \in 1 .. Len(escrows) : j # e => escrows'[j] = escrows[j]
  <1> DEFINE x == [escrows[e] EXCEPT !.status = st]
  <1>1. escrows[e] \in Escrow
    OBVIOUS
  <1>2. x \in Escrow /\ x.status = st /\ x.amount = escrows[e].amount
    BY <1>1 DEF Escrow, Statuses
  <1> HIDE DEF x
  <1>3. escrows' = [escrows EXCEPT ![e] = x]
    BY DEF Moves, x
  <1>4. /\ escrows' \in Seq(Escrow) /\ Len(escrows') = Len(escrows)
        /\ \A j \in 1 .. Len(escrows) : escrows'[j] = IF j = e THEN x ELSE escrows[j]
    BY <1>2, <1>3, ExceptAt
  <1> QED BY <1>2, <1>4 DEF x

\* The open escrows are finitely many.
LEMMA OpenFinite ==
  ASSUME escrows \in Seq(Escrow)
  PROVE  /\ OpenEscrows = { e \in 1 .. Len(escrows) : Open(escrows[e]) }
         /\ IsFiniteSet(OpenEscrows) /\ Cardinality(OpenEscrows) \in Nat
  <1>1. DOMAIN escrows = 1 .. Len(escrows) /\ Len(escrows) \in Nat
    OBVIOUS
  <1>2. OpenEscrows \in SUBSET (1 .. Len(escrows))
    BY <1>1 DEF OpenEscrows
  <1>3. IsFiniteSet(1 .. Len(escrows))
    BY <1>1, FS_Interval
  <1>4. IsFiniteSet(OpenEscrows)
    BY <1>2, <1>3, FS_Subset
  <1>5. Cardinality(OpenEscrows) \in Nat
    BY <1>4, FS_CardinalityType
  <1> QED BY <1>1, <1>4, <1>5 DEF OpenEscrows

\* An open escrow that is closed leaves one fewer of them; any other step of
\* one escrow to a status of the same kind leaves as many.
LEMMA MovesOpen ==
  ASSUME escrows \in Seq(Escrow), NEW e \in 1 .. Len(escrows), NEW st \in Statuses,
         Moves(e, st)
  PROVE  /\ st \in {"pending", "funded"} /\ Open(escrows[e]) => OpenEscrows' = OpenEscrows
         /\ st \notin {"pending", "funded"} =>
               /\ OpenEscrows' = OpenEscrows \ {e}
               /\ Cardinality(OpenEscrows') =
                     Cardinality(OpenEscrows) - (IF Open(escrows[e]) THEN 1 ELSE 0)
  <1>1. /\ escrows' \in Seq(Escrow) /\ Len(escrows') = Len(escrows)
        /\ escrows'[e].status = st
        /\ \A j \in 1 .. Len(escrows) : j # e => escrows'[j] = escrows[j]
    BY MovesAt
  <1>2. /\ OpenEscrows = { j \in 1 .. Len(escrows) : Open(escrows[j]) }
        /\ IsFiniteSet(OpenEscrows) /\ Cardinality(OpenEscrows) \in Nat
    BY OpenFinite
  <1>3. OpenEscrows' = { j \in 1 .. Len(escrows) : Open(escrows'[j]) }
    BY <1>1 DEF OpenEscrows, Open
  <1>4. Open(escrows'[e]) <=> st \in {"pending", "funded"}
    BY <1>1 DEF Open
  <1>5. \A j \in 1 .. Len(escrows) : j # e => (Open(escrows'[j]) <=> Open(escrows[j]))
    BY <1>1
  <1> HIDE DEF Open
  <1>6. ASSUME st \in {"pending", "funded"}, Open(escrows[e])
        PROVE  OpenEscrows' = OpenEscrows
    BY <1>2, <1>3, <1>4, <1>5, <1>6
  <1>7. ASSUME st \notin {"pending", "funded"}
        PROVE  /\ OpenEscrows' = OpenEscrows \ {e}
               /\ Cardinality(OpenEscrows') =
                     Cardinality(OpenEscrows) - (IF Open(escrows[e]) THEN 1 ELSE 0)
    <2>1. OpenEscrows' = OpenEscrows \ {e}
      BY <1>2, <1>3, <1>4, <1>5, <1>7
    <2>2. e \in OpenEscrows <=> Open(escrows[e])
      BY <1>2
    <2>3. Cardinality(OpenEscrows \ {e}) =
             IF e \in OpenEscrows THEN Cardinality(OpenEscrows) - 1
             ELSE Cardinality(OpenEscrows)
      BY <1>2, FS_RemoveElement
    <2> QED BY <1>2, <2>1, <2>2, <2>3
  <1> QED BY <1>6, <1>7

-----------------------------------------------------------------------------
(* Types, and the counter of active escrows.                               *)

\* The invariant: types, with the counter above the open escrows.  Without the
\* second half the counter could go below zero when an escrow is counted out.
Counted == TypeOK /\ ActiveCoversOpen

LEMMA FeeTypes ==
  ASSUME NEW amount \in Nat
  PROVE  /\ (amount * SettlementFee) \div FeeScale \in Nat
         /\ WithdrawalFee(amount) \in Nat
  <1>1. \A n \in Nat, k \in Nat \ {0} : n \div k \in Nat
    OBVIOUS
  <1>2. amount * SettlementFee \in Nat /\ amount * BpsFee \in Nat
    BY SettlementAssumption
  <1> QED BY <1>1, <1>2, SettlementAssumption DEF WithdrawalFee

\* Steps that leave the escrows alone.
LEMMA SameEscrows ==
  ASSUME ActiveCoversOpen, UNCHANGED <<escrows, activeEscrows>>
  PROVE  ActiveCoversOpen'
  BY DEF ActiveCoversOpen, OpenEscrows

LEMMA CreateDepositStep ==
  ASSUME Counted, NEW amount \in Amounts, NEW method \in Methods,
         CreateDepositIntent(amount, method)
  PROVE  Counted'
  <1>1. [amount |-> amount, expires |-> now + Timeout, status |-> "pending"] \in Deposit
    BY SettlementAssumption DEF Counted, TypeOK, Deposit
  <1>2. deposits' \in Seq(Deposit)
    BY <1>1, AppendAt DEF Counted, TypeOK, CreateDepositIntent
  <1> QED BY <1>2, SameEscrows DEF Counted, TypeOK, CreateDepositIntent, totals

LEMMA ConfirmDepositStep ==
  ASSUME Counted, NEW d \in 1 .. Len(deposits), ConfirmDeposit(d)
  PROVE  Counted'
  <1>0. deposits \in Seq(Deposit) /\ deposits[d] \in Deposit
    BY DEF Counted, TypeOK
  <1>1. deposits[d].amount \in Nat
    BY <1>0 DEF Deposit
  <1>2. ASSUME NEW st \in {"pending", "confirmed", "expired"}
        PROVE  [deposits EXCEPT ![d] = [deposits[d] EXCEPT !.status = st]] \in Seq(Deposit)
    <2>1. [deposits[d] EXCEPT !.status = st] \in Deposit
      BY <1>0 DEF Deposit
    <2> QED BY <1>0, <2>1, ExceptAt
  <1>3. deposits' \in Seq(Deposit)
    BY <1>2 DEF ConfirmDeposit
  <1>4. totalDeposited' \in Nat
    <2>1. totalDeposited \in Nat
      BY DEF Counted, TypeOK
    <2>2. totalDeposited' = totalDeposited + deposits[d].amount \/ totalDeposited' = totalDeposited
      BY DEF ConfirmDeposit
    <2> QED BY <1>1, <2>1, <2>2
  <1> QED BY <1>3, <1>4, SameEscrows DEF Counted, TypeOK, ConfirmDeposit

LEMMA CreateWithdrawalStep ==
  ASSUME Counted, NEW amount \in Amounts, NEW method \in Methods,
         CreateWithdrawalRequest(amount, method)
  PROVE  Counted'
  <1>1. [amount |-> amount, status |-> "pending"] \in Withdrawal
    BY SettlementAssumption DEF Withdrawal
  <1>2. withdrawals' \in Seq(Withdrawal)
    BY <1>1, AppendAt DEF Counted, TypeOK, CreateWithdrawalRequest
  <1> QED BY <1>2, SameEscrows DEF Counted, TypeOK, CreateWithdrawalRequest, totals

LEMMA ProcessWithdrawalStep ==
  ASSUME Counted, NEW w \in 1 .. Len(withdrawals), ProcessWithdrawal(w)
  PROVE  Counted'
  <1>0. withdrawals \in Seq(Withdrawal) /\ withdrawals[w] \in Withdrawal
    BY DEF Counted, TypeOK
  <1>1. withdrawals[w].amount \in Nat
    BY <1>0 DEF Withdrawal
  <1>2. withdrawals' \in Seq(Withdrawal)
    <2>1. [withdrawals[w] EXCEPT !.status = "completed"] \in Withdrawal
      BY <1>0 DEF Withdrawal
    <2> QED BY <1>0, <2>1, ExceptAt DEF ProcessWithdrawal
  <1>3. WithdrawalFee(withdrawals[w].amount) \in Nat
    BY <1>1, FeeTypes
  <1>4. totalWithdrawn' \in Nat /\ totalFees' \in Nat
    <2>1. /\ totalWithdrawn' = totalWithdrawn + withdrawals[w].amount
          /\ totalFees' = totalFees + WithdrawalFee(withdrawals[w].amount)
      BY DEF ProcessWithdrawal
    <2>2. totalWithdrawn \in Nat /\ totalFees \in Nat
      BY DEF Counted, TypeOK
    <2>3. PICK amount \in Nat, fee \in Nat :
             amount = withdrawals[w].amount /\ fee = WithdrawalFee(withdrawals[w].amount)
      BY <1>1, <1>3
    <2> QED BY <2>1, <2>2, <2>3, SMTT(30)
  <1> QED BY <1>2, <1>4, SameEscrows DEF Counted, TypeOK, ProcessWithdrawal

LEMMA CreateEscrowStep ==
  ASSUME Counted, NEW amount \in Amounts, CreateEscrow(amount)
  PROVE  Counted'
  <1> DEFINE x == [amount |-> amount, fee |-> (amount * SettlementFee) \div FeeScale,
                   expires |-> now + Timeout, status |-> "pending"]
             n == Len(escrows) + 1
  <1>1. x \in Escrow /\ Open(x)
    BY FeeTypes, SettlementAssumption DEF Counted, TypeOK, Escrow, Open
  <1> HIDE DEF x
  <1>2. escrows \in Seq(Escrow) /\ escrows' = Append(escrows, x)
    BY DEF Counted, TypeOK, CreateEscrow, x
  <1>3. /\ escrows' \in Seq(Escrow) /\ Len(escrows') = n
        /\ \A i \in 1 .. Len(escrows) : escrows'[i] = escrows[i]
        /\ escrows'[n] = x
    BY <1>1, <1>2, AppendAt
  <1>4. /\ OpenEscrows = { j \in 1 .. Len(escrows) : Open(escrows[j]) }
        /\ IsFiniteSet(OpenEscrows) /\ Cardinality(OpenEscrows) \in Nat
    BY <1>2, OpenFinite
  <1>5. OpenEscrows' = { j \in 1 .. n : Open(escrows'[j]) }
    BY <1>3 DEF OpenEscrows, Open
  <1>6. OpenEscrows' = OpenEscrows \cup {n}
    <2>1. 1 .. n = (1 .. Len(escrows)) \cup {n}
      BY <1>2
    <2> QED BY <1>1, <1>3, <1>4, <1>5, <2>1
  <1>7. n \notin OpenEscrows
    BY <1>2, <1>4
  <1>8. Cardinality(OpenEscrows') = Cardinality(OpenEscrows) + 1
    BY <1>4, <1>6, <1>7, FS_AddElement
  <1>9. activeEscrows' \in Nat /\ ActiveCoversOpen'
    BY <1>4, <1>8 DEF Counted, TypeOK, ActiveCoversOpen, CreateEscrow
  <1> QED BY <1>3, <1>9 DEF Counted, TypeOK, CreateEscrow, totals

\* A step of one escrow keeps the counter above the open ones, and at least
\* zero, when it lowers it only for an escrow that was open and is no more.
LEMMA MovesCounted ==
  ASSUME Counted, NEW e \in 1 .. Len(escrows), NEW st \in Statuses, Moves(e, st),
         \/ /\ activeEscrows' = activeEscrows
            /\ st \notin {"pending", "funded"} \/ Open(escrows[e])
         \/ /\ activeEscrows' = activeEscrows - 1
            /\ st \notin {"pending", "funded"} /\ Open(escrows[e])
  PROVE  escrows' \in Seq(Escrow) /\ activeEscrows' \in Nat /\ ActiveCoversOpen'
  <1>1. escrows \in Seq(Escrow) /\ activeEscrows \in Nat
        /\ activeEscrows >= Cardinality(OpenEscrows)
    BY DEF Counted, TypeOK, ActiveCoversOpen
  <1>2. escrows' \in Seq(Escrow)
    BY <1>1, MovesAt
  <1>3. Cardinality(OpenEscrows) \in Nat
    BY <1>1, OpenFinite
  <1>4. Cardinality(OpenEscrows)' \in Nat
    <2>1. DOMAIN escrows' = 1 .. Len(escrows')
      BY <1>2
    <2>2. OpenEscrows' \in SUBSET (1 .. Len(escrows'))
      BY <2>1 DEF OpenEscrows
    <2>3. IsFiniteSet(1 .. Len(escrows'))
      BY <1>2, FS_Interval
    <2>4. IsFiniteSet(OpenEscrows')
      BY <2>2, <2>3, FS_Subset
    <2> QED BY <2>4, FS_CardinalityType
  <1>5. CASE st \in {"pending", "funded"}
    <2>1. OpenEscrows' = OpenEscrows
      BY <1>1, <1>5, MovesOpen
    <2> QED BY <1>1, <1>2, <1>5, <2>1 DEF ActiveCoversOpen
  <1>6. CASE st \notin {"pending", "funded"}
    <2>1. Cardinality(OpenEscrows') =
             Cardinality(OpenEscrows) - (IF Open(escrows[e]) THEN 1 ELSE 0)
      BY <1>1, <1>6, MovesOpen
    <2> HIDE DEF Open
    <2>2. activeEscrows' >= Cardinality(OpenEscrows') /\ activeEscrows' \in Int
      BY <1>1, <1>3, <2>1
    <2> QED BY <1>2, <1>4, <2>2 DEF ActiveCoversOpen
  <1> QED BY <1>5, <1>6

LEMMA FundEscrowStep ==
  ASSUME Counted, NEW e \in 1 .. Len(escrows), FundEscrow(e)
  PROVE  Counted'
  <1>1. Open(escrows[e])
    BY DEF FundEscrow, Open
  <1>2. PICK st \in {"failed", "funded"} : Moves(e, st)
        /\ activeEscrows' = IF st = "failed" THEN activeEscrows - 1 ELSE activeEscrows
    BY DEF FundEscrow, Moves
  <1>3. escrows' \in Seq(Escrow) /\ activeEscrows' \in Nat /\ ActiveCoversOpen'
    BY <1>1, <1>2, MovesCounted DEF Statuses
  <1> QED BY <1>3 DEF Counted, TypeOK, FundEscrow, totals

LEMMA ExecuteSettlementStep ==
  ASSUME Counted, NEW e \in 1 .. Len(escrows), ExecuteSettlement(e)
  PROVE  Counted'
  <1>1. Open(escrows[e])
    BY DEF ExecuteSettlement, Open
  <1>2. Moves(e, "completed") /\ activeEscrows' = activeEscrows - 1
    BY DEF ExecuteSettlement, Moves
  <1>3. escrows' \in Seq(Escrow) /\ activeEscrows' \in Nat /\ ActiveCoversOpen'
    BY <1>1, <1>2, MovesCounted DEF Statuses
  <1>4. escrows[e].amount \in Nat /\ escrows[e].fee \in Nat
    <2>1. escrows[e] \in Escrow
      BY DEF Counted, TypeOK
    <2> QED BY <2>1 DEF Escrow
  <1>5. [escrow |-> e, amount |-> escrows[e].amount, fee |-> escrows[e].fee] \in Record
    BY <1>4 DEF Record
  <1>6. settlements' \in Seq(Record)
    BY <1>5, AppendAt DEF Counted, TypeOK, ExecuteSettlement
  <1>7. totalSettled' \in Nat /\ totalFees' \in Nat
    <2>1. /\ totalSettled \in Nat /\ totalFees \in Nat
          /\ totalSettled' = totalSettled + escrows[e].amount
          /\ totalFees' = totalFees + escrows[e].fee
      BY DEF Counted, TypeOK, ExecuteSettlement
    <2> QED BY <1>4, <2>1
  <1> QED BY <1>3, <1>6, <1>7 DEF Counted, TypeOK, ExecuteSettlement

\* The counter the code leaves is the one it found: the status it tests is the
\* one it has just written.
LEMMA RefundKeepsCounter ==
  ASSUME escrows \in Seq(Escrow), NEW e \in 1 .. Len(escrows)
  PROVE  ActiveAfterRefund(e) = activeEscrows
  <1>1. escrows[e] \in Escrow
    OBVIOUS
  <1>2. ~Open([escrows[e] EXCEPT !.status = "refunded"])
    BY <1>1 DEF Escrow, Open
  <1> QED BY <1>2 DEF ActiveAfterRefund

LEMMA RefundEscrowStep ==
  ASSUME Counted, NEW e \in 1 .. Len(escrows), RefundEscrow(e)
  PROVE  Counted'
  <1>1. Moves(e, "refunded")
    BY DEF RefundEscrow, Moves
  <1>2. activeEscrows' = activeEscrows
    BY RefundKeepsCounter DEF Counted, TypeOK, RefundEscrow
  <1>3. escrows' \in Seq(Escrow) /\ activeEscrows' \in Nat /\ ActiveCoversOpen'
    BY <1>1, <1>2, MovesCounted DEF Statuses
  <1> QED BY <1>3 DEF Counted, TypeOK, RefundEscrow, totals

LEMMA NoneOpen == escrows = <<>> => OpenEscrows = {} /\ Cardinality(OpenEscrows) = 0
  BY FS_EmptySet DEF OpenEscrows

LEMMA TornRestartStep ==
  ASSUME Counted, TornRestart
  PROVE  Counted'
  <1>1. OpenEscrows' = {}
    BY DEF TornRestart, OpenEscrows
  <1>2. ActiveCoversOpen'
    BY <1>1, FS_EmptySet DEF TornRestart, ActiveCoversOpen
  <1> QED BY <1>2 DEF Counted, TypeOK, TornRestart

LEMMA CountedStep == Counted /\ [Next]_vars => Counted'
  <1> SUFFICES ASSUME Counted, [Next]_vars PROVE Counted'
    OBVIOUS
  <1>0. /\ DOMAIN deposits = 1 .. Len(deposits)
        /\ DOMAIN withdrawals = 1 .. Len(withdrawals)
        /\ DOMAIN escrows = 1 .. Len(escrows)
    BY DEF Counted, TypeOK
  <1>1. ASSUME NEW amount \in Amounts, NEW method \in Methods,
               CreateDepositIntent(amount, method)
        PROVE  Counted'
    BY <1>1, CreateDepositStep
  <1>2. ASSUME NEW amount \in Amounts, NEW method \in Methods,
               CreateWithdrawalRequest(amount, method)
        PROVE  Counted'
    BY <1>2, CreateWithdrawalStep
  <1>3. ASSUME NEW amount \in Amounts, CreateEscrow(amount) PROVE Counted'
    BY <1>3, CreateEscrowStep
  <1>4. ASSUME NEW d \in 1 .. Len(deposits), ConfirmDeposit(d) PROVE Counted'
    BY <1>4, ConfirmDepositStep
  <1>5. ASSUME NEW w \in 1 .. Len(withdrawals), ProcessWithdrawal(w) PROVE Counted'
    BY <1>5, ProcessWithdrawalStep
  <1>6. ASSUME NEW e \in 1 .. Len(escrows), FundEscrow(e) PROVE Counted'
    BY <1>6, FundEscrowStep
  <1>7. ASSUME NEW e \in 1 .. Len(escrows), ExecuteSettlement(e) PROVE Counted'
    BY <1>7, ExecuteSettlementStep
  <1>8. ASSUME NEW e \in 1 .. Len(escrows), RefundEscrow(e) PROVE Counted'
    BY <1>8, RefundEscrowStep
  <1>9. CASE Tick
    <2>1. now' \in Nat
      BY <1>9 DEF Tick, Counted, TypeOK
    <2> QED BY <1>9, <2>1, SameEscrows DEF Tick, Counted, TypeOK, totals
  <1>10. CASE TornRestart
    BY <1>10, TornRestartStep
  <1>11. CASE UNCHANGED vars
    BY <1>11, SameEscrows DEF Counted, TypeOK, vars, totals
  <1> QED BY <1>0, <1>1, <1>2, <1>3, <1>4, <1>5, <1>6, <1>7, <1>8, <1>9, <1>10, <1>11
          DEF Next

LEMMA CountedInit == Init => Counted
  BY NoneOpen DEF Init, Counted, TypeOK, ActiveCoversOpen

LEMMA CountedAlways == Spec => []Counted
  BY CountedInit, CountedStep, PTL DEF Spec

\* Every value keeps its type; in particular the counter of active escrows,
\* which the code decrements without looking, never goes below zero.
THEOREM TypeCorrect == Spec => []TypeOK
  <1>1. Counted => TypeOK
    BY DEF Counted
  <1> QED BY <1>1, CountedAlways, PTL

\* GetStats never reports fewer active escrows than are open: FundEscrow and
\* ExecuteSettlement count an escrow out only as it closes, RefundEscrow never.
THEOREM OpenAreCounted == Spec => []ActiveCoversOpen
  <1>1. Counted => ActiveCoversOpen
    BY DEF Counted
  <1> QED BY <1>1, CountedAlways, PTL

-----------------------------------------------------------------------------
(* An escrow pays out once.                                                *)

\* Records and escrows that agree, in any state where neither changed.
LEMMA SameRecords ==
  ASSUME SettledOnce, UNCHANGED <<escrows, settlements>>
  PROVE  SettledOnce'
  BY DEF SettledOnce

\* An escrow that was not completed had no record, so it may change freely as
\* long as it does not become completed.
LEMMA OtherStatusSettled ==
  ASSUME TypeOK, SettledOnce, NEW e \in 1 .. Len(escrows),
         NEW st \in Statuses \ {"completed"}, Moves(e, st),
         escrows[e].status # "completed", settlements' = settlements
  PROVE  SettledOnce'
  <1>1. /\ Len(escrows') = Len(escrows)
        /\ escrows'[e].status = st
        /\ \A j \in 1 .. Len(escrows) : j # e => escrows'[j] = escrows[j]
    BY MovesAt DEF TypeOK
  <1>2. \A i \in 1 .. Len(settlements) : settlements[i].escrow # e
    BY DEF SettledOnce
  <1>3. ASSUME NEW i \in 1 .. Len(settlements)
        PROVE  /\ settlements[i].escrow \in 1 .. Len(escrows')
               /\ escrows'[settlements[i].escrow].status = "completed"
               /\ settlements[i].amount = escrows'[settlements[i].escrow].amount
    <2>1. /\ settlements[i].escrow \in 1 .. Len(escrows)
          /\ escrows[settlements[i].escrow].status = "completed"
          /\ settlements[i].amount = escrows[settlements[i].escrow].amount
      BY DEF SettledOnce
    <2>2. escrows'[settlements[i].escrow] = escrows[settlements[i].escrow]
      BY <1>1, <1>2, <2>1
    <2> QED BY <1>1, <2>1, <2>2
  <1>4. ASSUME NEW j \in 1 .. Len(escrows'), escrows'[j].status = "completed"
        PROVE  \E i \in 1 .. Len(settlements) : settlements[i].escrow = j
    <2>1. j # e
      BY <1>1, <1>4
    <2>2. escrows[j].status = "completed"
      BY <1>1, <1>4, <2>1
    <2> QED BY <1>1, <2>2 DEF SettledOnce
  <1>5. \A i, j \in 1 .. Len(settlements) :
           settlements[i].escrow = settlements[j].escrow => i = j
    BY DEF SettledOnce
  <1> QED BY <1>3, <1>4, <1>5 DEF SettledOnce

LEMMA CreateEscrowSettled ==
  ASSUME TypeOK, SettledOnce, NEW amount \in Amounts, CreateEscrow(amount)
  PROVE  SettledOnce'
  <1> DEFINE x == [amount |-> amount, fee |-> (amount * SettlementFee) \div FeeScale,
                   expires |-> now + Timeout, status |-> "pending"]
             n == Len(escrows) + 1
  <1>1. x \in Escrow /\ x.status = "pending"
    BY FeeTypes, SettlementAssumption DEF TypeOK, Escrow
  <1>2. escrows \in Seq(Escrow) /\ escrows' = Append(escrows, x)
    BY DEF TypeOK, CreateEscrow
  <1> HIDE DEF x
  <1>3. /\ Len(escrows') = n
        /\ \A i \in 1 .. Len(escrows) : escrows'[i] = escrows[i]
        /\ escrows'[n] = x
    BY <1>1, <1>2, AppendAt
  <1>4. \A j \in 1 .. n : j \in 1 .. Len(escrows) \/ j = n
    BY <1>2
  <1>5. 1 .. Len(escrows) \subseteq 1 .. n
    BY <1>2
  <1>6. settlements' = settlements
    BY DEF CreateEscrow
  <1> HIDE DEF n
  <1>7. ASSUME NEW j \in 1 .. n, escrows'[j].status = "completed"
        PROVE  \E i \in 1 .. Len(settlements) : settlements[i].escrow = j
    <2>1. j \in 1 .. Len(escrows)
      BY <1>1, <1>3, <1>4, <1>7
    <2>2. escrows[j].status = "completed"
      BY <1>3, <1>7, <2>1
    <2> QED BY <2>1, <2>2 DEF SettledOnce
  <1>8. ASSUME NEW i \in 1 .. Len(settlements)
        PROVE  /\ settlements[i].escrow \in 1 .. n
               /\ escrows'[settlements[i].escrow].status = "completed"
               /\ settlements[i].amount = escrows'[settlements[i].escrow].amount
    BY <1>3, <1>5 DEF SettledOnce
  <1>9. \A i, j \in 1 .. Len(settlements) :
           settlements[i].escrow = settlements[j].escrow => i = j
    BY DEF SettledOnce
  <1> QED BY <1>3, <1>6, <1>7, <1>8, <1>9 DEF SettledOnce

LEMMA ExecuteSettled ==
  ASSUME TypeOK, SettledOnce, NEW e \in 1 .. Len(escrows), ExecuteSettlement(e)
  PROVE  SettledOnce'
  <1> DEFINE r == [escrow |-> e, amount |-> escrows[e].amount, fee |-> escrows[e].fee]
             n == Len(settlements) + 1
  <1>1. Moves(e, "completed") /\ escrows[e].status = "funded"
    BY DEF ExecuteSettlement, Moves
  <1>2. /\ Len(escrows') = Len(escrows)
        /\ escrows'[e].status = "completed" /\ escrows'[e].amount = escrows[e].amount
        /\ \A j \in 1 .. Len(escrows) : j # e => escrows'[j] = escrows[j]
    BY <1>1, MovesAt DEF TypeOK, Statuses
  <1>3. r \in Record /\ r.escrow = e /\ r.amount = escrows[e].amount
    <2>1. escrows[e] \in Escrow
      BY DEF TypeOK
    <2>2. escrows[e].amount \in Nat /\ escrows[e].fee \in Nat
      BY <2>1 DEF Escrow
    <2> QED BY <2>2 DEF Record
  <1>4. settlements \in Seq(Record) /\ settlements' = Append(settlements, r)
    BY DEF TypeOK, ExecuteSettlement
  <1> HIDE DEF r
  <1>5. /\ Len(settlements') = n
        /\ \A i \in 1 .. Len(settlements) : settlements'[i] = settlements[i]
        /\ settlements'[n] = r
    BY <1>3, <1>4, AppendAt
  <1>6. /\ \A i \in 1 .. n : i \in 1 .. Len(settlements) \/ i = n
        /\ 1 .. Len(settlements) \subseteq 1 .. n /\ n \in 1 .. n
    BY <1>4
  <1> HIDE DEF n
  <1>7. \A i \in 1 .. Len(settlements) :
           /\ settlements[i].escrow # e
           /\ settlements[i].escrow \in 1 .. Len(escrows)
           /\ escrows[settlements[i].escrow].status = "completed"
           /\ settlements[i].amount = escrows[settlements[i].escrow].amount
    BY <1>1 DEF SettledOnce
  <1>8. ASSUME NEW i \in 1 .. n
        PROVE  /\ settlements'[i].escrow \in 1 .. Len(escrows')
               /\ escrows'[settlements'[i].escrow].status = "completed"
               /\ settlements'[i].amount = escrows'[settlements'[i].escrow].amount
    <2>1. CASE i = n
      BY <1>2, <1>3, <1>5, <2>1
    <2>2. CASE i # n
      <3>1. i \in 1 .. Len(settlements) /\ settlements'[i] = settlements[i]
        BY <1>5, <1>6, <2>2
      <3>2. escrows'[settlements[i].escrow] = escrows[settlements[i].escrow]
        BY <1>2, <1>7, <3>1
      <3> QED BY <1>2, <1>7, <3>1, <3>2
    <2> QED BY <2>1, <2>2
  <1>9. ASSUME NEW i \in 1 .. n, NEW j \in 1 .. n,
               settlements'[i].escrow = settlements'[j].escrow
        PROVE  i = j
    <2>1. CASE i = n \/ j = n
      BY <1>3, <1>5, <1>6, <1>7, <1>9, <2>1
    <2>2. CASE i # n /\ j # n
      BY <1>5, <1>6, <1>9, <2>2 DEF SettledOnce
    <2> QED BY <2>1, <2>2
  <1>10. ASSUME NEW j \in 1 .. Len(escrows), escrows'[j].status = "completed"
         PROVE  \E i \in 1 .. n : settlements'[i].escrow = j
    <2>1. CASE j = e
      BY <1>3, <1>5, <1>6, <2>1
    <2>2. CASE j # e
      <3>1. PICK i \in 1 .. Len(settlements) : settlements[i].escrow = j
        BY <1>2, <1>10, <2>2 DEF SettledOnce
      <3> QED BY <1>5, <1>6, <3>1
    <2> QED BY <2>1, <2>2
  <1> QED BY <1>2, <1>5, <1>8, <1>9, <1>10 DEF SettledOnce

LEMMA SettledStep == TypeOK /\ SettledOnce /\ [Next]_vars => SettledOnce'
  <1> SUFFICES ASSUME TypeOK, SettledOnce, [Next]_vars PROVE SettledOnce'
    OBVIOUS
  <1>0. DOMAIN escrows = 1 .. Len(escrows)
    BY DEF TypeOK
  <1>1. ASSUME NEW amount \in Amounts, CreateEscrow(amount) PROVE SettledOnce'
    BY <1>1, CreateEscrowSettled
  <1>2. ASSUME NEW e \in 1 .. Len(escrows), FundEscrow(e) PROVE SettledOnce'
    <2>1. PICK st \in {"failed", "funded"} : Moves(e, st)
      BY <1>2 DEF FundEscrow, Moves
    <2> QED BY <1>2, <2>1, OtherStatusSettled DEF FundEscrow, Statuses
  <1>3. ASSUME NEW e \in 1 .. Len(escrows), ExecuteSettlement(e) PROVE SettledOnce'
    BY <1>3, ExecuteSettled
  <1>4. ASSUME NEW e \in 1 .. Len(escrows), RefundEscrow(e) PROVE SettledOnce'
    <2>1. Moves(e, "refunded")
      BY <1>4 DEF RefundEscrow, Moves
    <2> QED BY <1>4, <2>1, OtherStatusSettled DEF RefundEscrow, Refundable, Statuses
  <1>5. CASE TornRestart
    BY <1>5 DEF TornRestart, SettledOnce
  <1>6. CASE \/ \E amount \in Amounts, method \in Methods :
                   \/ CreateDepositIntent(amount, method)
                   \/ CreateWithdrawalRequest(amount, method)
             \/ \E d \in DOMAIN deposits : ConfirmDeposit(d)
             \/ \E w \in DOMAIN withdrawals : ProcessWithdrawal(w)
             \/ Tick
             \/ UNCHANGED vars
    BY <1>6, SameRecords DEF CreateDepositIntent, CreateWithdrawalRequest,
       ConfirmDeposit, ProcessWithdrawal, Tick, vars
  <1> QED BY <1>0, <1>1, <1>2, <1>3, <1>4, <1>5, <1>6 DEF Next

\* Each escrow has a settlement record exactly when it is completed, and only
\* one, whatever is funded, executed or refunded again afterwards.
THEOREM EscrowsSettleOnce == Spec => []SettledOnce
  <1>1. Init => SettledOnce
    BY DEF Init, SettledOnce
  <1> QED BY <1>1, TypeCorrect, SettledStep, PTL DEF Spec

-----------------------------------------------------------------------------
(* What is finished stays finished.                                        *)

FinalEscrows ==
    \A e \in DOMAIN escrows \cap DOMAIN escrows' :
        /\ escrows[e].status = "completed" => escrows'[e] = escrows[e]
        /\ ~Open(escrows[e]) /\ escrows[e].status # "completed" =>
              escrows'[e].status \in {"failed", "refunded"}

FinalDeposits ==
    \A d \in DOMAIN deposits \cap DOMAIN deposits' :
        deposits[d].status # "pending" => deposits'[d] = deposits[d]

FinalWithdrawals ==
    \A w \in DOMAIN withdrawals \cap DOMAIN withdrawals' :
        withdrawals[w].status # "pending" => withdrawals'[w] = withdrawals[w]

\* A step that appends an entry, or changes nothing, keeps every entry.
LEMMA AppendKeeps ==
  ASSUME NEW S, NEW s \in Seq(S), NEW x \in S
  PROVE  \A i \in DOMAIN s : Append(s, x)[i] = s[i]
  OBVIOUS

LEMMA MovesFinal ==
  ASSUME TypeOK, NEW e \in 1 .. Len(escrows), NEW st \in Statuses, Moves(e, st),
         escrows[e].status # "completed",
         Open(escrows[e]) \/ st \in {"failed", "refunded"}
  PROVE  FinalEscrows
  <1>1. /\ Len(escrows') = Len(escrows) /\ escrows'[e].status = st
        /\ \A j \in 1 .. Len(escrows) : j # e => escrows'[j] = escrows[j]
    BY MovesAt DEF TypeOK
  <1>2. DOMAIN escrows = 1 .. Len(escrows)
    BY DEF TypeOK
  <1>3. ASSUME NEW j \in 1 .. Len(escrows)
        PROVE  /\ escrows[j].status = "completed" => escrows'[j] = escrows[j]
               /\ ~Open(escrows[j]) /\ escrows[j].status # "completed" =>
                     escrows'[j].status \in {"failed", "refunded"}
    <2>1. CASE j = e
      BY <1>1, <2>1
    <2>2. CASE j # e
      <3>1. escrows'[j] = escrows[j] /\ escrows[j] \in Escrow
        BY <1>1, <2>2 DEF TypeOK
      <3> QED BY <3>1 DEF Escrow, Open
    <2> QED BY <2>1, <2>2
  <1> QED BY <1>2, <1>3 DEF FinalEscrows

\* An escrow keeps its status where the escrows do not change, or one is added.
LEMMA KeptFinal ==
  ASSUME TypeOK, \A e \in 1 .. Len(escrows) : escrows'[e] = escrows[e]
  PROVE  FinalEscrows
  <1>1. DOMAIN escrows = 1 .. Len(escrows)
    BY DEF TypeOK
  <1>2. \A e \in 1 .. Len(escrows) : escrows[e].status \in Statuses
    <2>1. \A e \in 1 .. Len(escrows) : escrows[e] \in Escrow
      BY DEF TypeOK
    <2> QED BY <2>1 DEF Escrow, Statuses
  <1> QED BY <1>1, <1>2 DEF FinalEscrows, Statuses, Open

LEMMA FinalStep ==
  ASSUME TypeOK, [Next]_vars
  PROVE  FinalEscrows /\ FinalDeposits /\ FinalWithdrawals
  <1>0. /\ DOMAIN deposits = 1 .. Len(deposits)
        /\ DOMAIN withdrawals = 1 .. Len(withdrawals)
        /\ DOMAIN escrows = 1 .. Len(escrows)
        /\ deposits \in Seq(Deposit) /\ withdrawals \in Seq(Withdrawal)
        /\ escrows \in Seq(Escrow)
    BY DEF TypeOK
  <1>1. ASSUME NEW amount \in Amounts, NEW method \in Methods,
               CreateDepositIntent(amount, method)
        PROVE  FinalEscrows /\ FinalDeposits /\ FinalWithdrawals
    <2>1. [amount |-> amount, expires |-> now + Timeout, status |-> "pending"] \in Deposit
      BY SettlementAssumption DEF TypeOK, Deposit
    <2>2. \A d \in DOMAIN deposits : deposits'[d] = deposits[d]
      BY <1>0, <1>1, <2>1, AppendKeeps DEF CreateDepositIntent
    <2> QED BY <1>1, <2>2, KeptFinal
            DEF CreateDepositIntent, FinalDeposits, FinalWithdrawals
  <1>2. ASSUME NEW amount \in Amounts, NEW method \in Methods,
               CreateWithdrawalRequest(amount, method)
        PROVE  FinalEscrows /\ FinalDeposits /\ FinalWithdrawals
    <2>1. [amount |-> amount, status |-> "pending"] \in Withdrawal
      BY SettlementAssumption DEF Withdrawal
    <2>2. \A w \in DOMAIN withdrawals : withdrawals'[w] = withdrawals[w]
      BY <1>0, <1>2, <2>1, AppendKeeps DEF CreateWithdrawalRequest
    <2> QED BY <1>2, <2>2, KeptFinal
            DEF CreateWithdrawalRequest, FinalDeposits, FinalWithdrawals
  <1>3. ASSUME NEW amount \in Amounts, CreateEscrow(amount)
        PROVE  FinalEscrows /\ FinalDeposits /\ FinalWithdrawals
    <2>1. [amount |-> amount, fee |-> (amount * SettlementFee) \div FeeScale,
           expires |-> now + Timeout, status |-> "pending"] \in Escrow
      BY FeeTypes, SettlementAssumption DEF TypeOK, Escrow
    <2>2. \A e \in 1 .. Len(escrows) : escrows'[e] = escrows[e]
      BY <1>0, <1>3, <2>1, AppendKeeps DEF CreateEscrow
    <2> QED BY <1>3, <2>2, KeptFinal DEF CreateEscrow, FinalDeposits, FinalWithdrawals
  <1>4. ASSUME NEW d \in 1 .. Len(deposits), ConfirmDeposit(d)
        PROVE  FinalEscrows /\ FinalDeposits /\ FinalWithdrawals
    <2>1. deposits[d].status = "pending"
      BY <1>4 DEF ConfirmDeposit
    <2>2. \A i \in DOMAIN deposits : i # d => deposits'[i] = deposits[i]
      BY <1>0, <1>4 DEF ConfirmDeposit
    <2> QED BY <1>4, <2>1, <2>2, KeptFinal
            DEF ConfirmDeposit, FinalDeposits, FinalWithdrawals
  <1>5. ASSUME NEW w \in 1 .. Len(withdrawals), ProcessWithdrawal(w)
        PROVE  FinalEscrows /\ FinalDeposits /\ FinalWithdrawals
    <2>1. withdrawals[w].status = "pending"
      BY <1>5 DEF ProcessWithdrawal, Processable
    <2>2. \A i \in DOMAIN withdrawals : i # w => withdrawals'[i] = withdrawals[i]
      BY <1>0, <1>5 DEF ProcessWithdrawal
    <2> QED BY <1>5, <2>1, <2>2, KeptFinal
            DEF ProcessWithdrawal, FinalDeposits, FinalWithdrawals
  <1>6. ASSUME NEW e \in 1 .. Len(escrows), FundEscrow(e)
        PROVE  FinalEscrows /\ FinalDeposits /\ FinalWithdrawals
    <2>1. PICK st \in {"failed", "funded"} : Moves(e, st)
      BY <1>6 DEF FundEscrow, Moves
    <2>2. FinalEscrows
      BY <1>6, <2>1, MovesFinal DEF FundEscrow, Statuses, Open
    <2> QED BY <1>6, <2>2 DEF FundEscrow, FinalDeposits, FinalWithdrawals
  <1>7. ASSUME NEW e \in 1 .. Len(escrows), ExecuteSettlement(e)
        PROVE  FinalEscrows /\ FinalDeposits /\ FinalWithdrawals
    <2>1. Moves(e, "completed")
      BY <1>7 DEF ExecuteSettlement, Moves
    <2>2. FinalEscrows
      BY <1>7, <2>1, MovesFinal DEF ExecuteSettlement, Statuses, Open
    <2> QED BY <1>7, <2>2 DEF ExecuteSettlement, FinalDeposits, FinalWithdrawals
  <1>8. ASSUME NEW e \in 1 .. Len(escrows), RefundEscrow(e)
        PROVE  FinalEscrows /\ FinalDeposits /\ FinalWithdrawals
    <2>1. Moves(e, "refunded")
      BY <1>8 DEF RefundEscrow, Moves
    <2>2. FinalEscrows
      BY <1>8, <2>1, MovesFinal DEF RefundEscrow, Refundable, Statuses
    <2> QED BY <1>8, <2>2 DEF RefundEscrow, FinalDeposits, FinalWithdrawals
  <1>9. CASE Tick \/ UNCHANGED vars
    BY <1>9, KeptFinal DEF Tick, vars, FinalDeposits, FinalWithdrawals
  <1>10. CASE TornRestart
    BY <1>10 DEF TornRestart, FinalEscrows, FinalDeposits, FinalWithdrawals
  <1> QED BY <1>0, <1>1, <1>2, <1>3, <1>4, <1>5, <1>6, <1>7, <1>8, <1>9, <1>10
          DEF Next

\* No later call changes a settled escrow, a confirmed or expired deposit or a
\* completed withdrawal, and none pays out an escrow that failed.
THEOREM FinishedStaysFinished == Spec => Final
  <1>1. TypeOK /\ [Next]_vars =>
           [/\ FinalEscrows /\ FinalDeposits /\ FinalWithdrawals]_vars
    BY FinalStep
  <1>2. [/\ FinalEscrows /\ FinalDeposits /\ FinalWithdrawals]_vars =>
        [/\ \A e \in DOMAIN escrows \cap DOMAIN escrows' :
               /\ escrows[e].status = "completed" => escrows'[e] = escrows[e]
               /\ ~Open(escrows[e]) /\ escrows[e].status # "completed" =>
                     escrows'[e].status \in {"failed", "refunded"}
         /\ \A d \in DOMAIN deposits \cap DOMAIN deposits' :
               deposits[d].status # "pending" => deposits'[d] = deposits[d]
         /\ \A w \in DOMAIN withdrawals \cap DOMAIN withdrawals' :
               withdrawals[w].status # "pending" => withdrawals'[w] = withdrawals[w]]_vars
    BY DEF FinalEscrows, FinalDeposits, FinalWithdrawals
  <1> QED BY <1>1, <1>2, TypeCorrect, PTL DEF Spec, Final

-----------------------------------------------------------------------------
(* The reported totals.                                                    *)

\* What TotalsReconcile sums.
ConfirmedAmounts == [d \in Confirmed |-> deposits[d].amount]
CompletedAmounts == [w \in Completed |-> withdrawals[w].amount]
CompletedFees    == [w \in Completed |-> WithdrawalFee(withdrawals[w].amount)]
SettledAmounts   == [i \in DOMAIN settlements |-> settlements[i].amount]
SettledFees      == [i \in DOMAIN settlements |-> settlements[i].fee]

LEMMA TotalsParts ==
  /\ TotalsReconcile <=>
        /\ totalDeposited = SumFunction(ConfirmedAmounts)
        /\ totalWithdrawn = SumFunction(CompletedAmounts)
        /\ totalSettled = SumFunction(SettledAmounts)
        /\ totalFees = SumFunction(SettledFees) + SumFunction(CompletedFees)
  /\ TotalsReconcile' <=>
        /\ totalDeposited' = SumFunction(ConfirmedAmounts')
        /\ totalWithdrawn' = SumFunction(CompletedAmounts')
        /\ totalSettled' = SumFunction(SettledAmounts')
        /\ totalFees' = SumFunction(SettledFees') + SumFunction(CompletedFees')
  BY DEF TotalsReconcile, ConfirmedAmounts, CompletedAmounts, CompletedFees,
         SettledAmounts, SettledFees

\* The sums are over finitely many natural numbers.
LEMMA TotalsColumns ==
  ASSUME TypeOK
  PROVE  /\ IsFiniteSet(Confirmed) /\ \A d \in Confirmed : deposits[d].amount \in Int
         /\ IsFiniteSet(Completed)
         /\ \A w \in Completed : /\ withdrawals[w].amount \in Int
                                 /\ WithdrawalFee(withdrawals[w].amount) \in Int
         /\ IsFiniteSet(DOMAIN settlements)
         /\ \A i \in DOMAIN settlements : settlements[i].fee \in Int
  <1>1. /\ deposits \in Seq(Deposit) /\ withdrawals \in Seq(Withdrawal)
        /\ settlements \in Seq(Record)
    BY DEF TypeOK
  <1>2. \A n \in Nat : IsFiniteSet(1 .. n)
    BY Indices
  <1>3. Confirmed \subseteq 1 .. Len(deposits) /\ IsFiniteSet(Confirmed)
    <2>1. Confirmed \subseteq 1 .. Len(deposits)
      BY <1>1 DEF Confirmed
    <2>2. IsFiniteSet(1 .. Len(deposits))
      BY <1>1, <1>2
    <2> QED BY <2>1, <2>2, FS_Subset
  <1>4. Completed \subseteq 1 .. Len(withdrawals) /\ IsFiniteSet(Completed)
    <2>1. Completed \subseteq 1 .. Len(withdrawals)
      BY <1>1 DEF Completed
    <2>2. IsFiniteSet(1 .. Len(withdrawals))
      BY <1>1, <1>2
    <2> QED BY <2>1, <2>2, FS_Subset
  <1>5. IsFiniteSet(DOMAIN settlements)
    BY <1>1, <1>2
  <1>6. ASSUME NEW d \in Confirmed PROVE deposits[d].amount \in Int
    <2>1. deposits[d] \in Deposit
      BY <1>1, <1>3
    <2> QED BY <2>1 DEF Deposit
  <1>7. ASSUME NEW w \in Completed
        PROVE  /\ withdrawals[w].amount \in Int
               /\ WithdrawalFee(withdrawals[w].amount) \in Int
    <2>1. withdrawals[w] \in Withdrawal
      BY <1>1, <1>4
    <2>2. withdrawals[w].amount \in Nat
      BY <2>1 DEF Withdrawal
    <2>3. WithdrawalFee(withdrawals[w].amount) \in Nat
      BY <2>2, FeeTypes
    <2> QED BY <2>2, <2>3
  <1>8. ASSUME NEW i \in DOMAIN settlements PROVE settlements[i].fee \in Int
    <2>1. settlements[i] \in Record
      BY <1>1
    <2> QED BY <2>1 DEF Record
  <1> QED BY <1>3, <1>4, <1>5, <1>6, <1>7, <1>8

\* The sums of fees are integers, so that one can grow without the other.
LEMMA FeeSums ==
  ASSUME TypeOK
  PROVE  SumFunction(SettledFees) \in Int /\ SumFunction(CompletedFees) \in Int
  <1>1. /\ DOMAIN SettledFees = DOMAIN settlements
        /\ \A i \in DOMAIN settlements : SettledFees[i] \in Int
    BY TotalsColumns DEF SettledFees
  <1>2. /\ DOMAIN CompletedFees = Completed
        /\ \A w \in Completed : CompletedFees[w] \in Int
    BY TotalsColumns DEF CompletedFees
  <1>3. IsFiniteSet(DOMAIN settlements) /\ IsFiniteSet(Completed)
    BY TotalsColumns
  <1>4. SumFunction(SettledFees) \in Int
    BY <1>1, <1>3, SumInt DEF SumFunction
  <1>5. SumFunction(CompletedFees) \in Int
    BY <1>2, <1>3, SumInt DEF SumFunction
  <1> QED BY <1>4, <1>5

\* A step that confirms no deposit leaves the confirmed ones as they were; one
\* that completes no withdrawal leaves the completed ones.
LEMMA SameConfirmed ==
  ASSUME Confirmed' = Confirmed, \A d \in Confirmed : deposits'[d] = deposits[d]
  PROVE  ConfirmedAmounts' = ConfirmedAmounts
  BY DEF ConfirmedAmounts

LEMMA SameCompleted ==
  ASSUME Completed' = Completed, \A w \in Completed : withdrawals'[w] = withdrawals[w]
  PROVE  CompletedAmounts' = CompletedAmounts /\ CompletedFees' = CompletedFees
  BY DEF CompletedAmounts, CompletedFees

LEMMA CreateDepositTotals ==
  ASSUME TypeOK, TotalsReconcile, NEW amount \in Amounts, NEW method \in Methods,
         CreateDepositIntent(amount, method)
  PROVE  TotalsReconcile'
  <1> DEFINE x == [amount |-> amount, expires |-> now + Timeout, status |-> "pending"]
             n == Len(deposits)
  <1>1. x \in Deposit /\ x.status # "confirmed"
    BY SettlementAssumption DEF TypeOK, Deposit
  <1>2. deposits \in Seq(Deposit) /\ deposits' = Append(deposits, x)
    BY DEF TypeOK, CreateDepositIntent
  <1> HIDE DEF x
  <1>3. /\ n \in Nat /\ DOMAIN deposits = 1 .. n /\ DOMAIN deposits' = 1 .. (n + 1)
        /\ \A i \in 1 .. n : deposits'[i] = deposits[i]
        /\ deposits'[n + 1] = x
    BY <1>1, <1>2
  <1>4. 1 .. (n + 1) = (1 .. n) \cup {n + 1}
    BY <1>3, Indices
  <1> HIDE DEF n
  <1>5. Confirmed' = Confirmed /\ \A d \in Confirmed : deposits'[d] = deposits[d]
    BY <1>1, <1>3, <1>4 DEF Confirmed
  <1>6. ConfirmedAmounts' = ConfirmedAmounts
    BY <1>5, SameConfirmed
  <1>7. /\ CompletedAmounts' = CompletedAmounts /\ CompletedFees' = CompletedFees
        /\ SettledAmounts' = SettledAmounts /\ SettledFees' = SettledFees
        /\ UNCHANGED totals
    BY DEF CreateDepositIntent, Completed, CompletedAmounts, CompletedFees,
           SettledAmounts, SettledFees
  <1> QED BY <1>6, <1>7, TotalsParts DEF totals

LEMMA ConfirmDepositTotals ==
  ASSUME TypeOK, TotalsReconcile, NEW d \in 1 .. Len(deposits), ConfirmDeposit(d)
  PROVE  TotalsReconcile'
  <1>1. deposits \in Seq(Deposit) /\ deposits[d] \in Deposit
    BY DEF TypeOK
  <1>2. deposits[d].status = "pending" /\ deposits[d].amount \in Int
    BY <1>1 DEF ConfirmDeposit, Deposit
  <1>3. d \notin Confirmed /\ DOMAIN deposits = 1 .. Len(deposits)
    BY <1>1, <1>2 DEF Confirmed
  <1>4. /\ CompletedAmounts' = CompletedAmounts /\ CompletedFees' = CompletedFees
        /\ SettledAmounts' = SettledAmounts /\ SettledFees' = SettledFees
        /\ UNCHANGED <<totalSettled, totalFees, totalWithdrawn>>
    BY DEF ConfirmDeposit, Completed, CompletedAmounts, CompletedFees,
           SettledAmounts, SettledFees
  <1>5. ASSUME NEW st \in {"confirmed", "expired"},
               deposits' = [deposits EXCEPT ![d] = [deposits[d] EXCEPT !.status = st]]
        PROVE  /\ DOMAIN deposits' = 1 .. Len(deposits)
               /\ \A i \in 1 .. Len(deposits) : i # d => deposits'[i] = deposits[i]
               /\ deposits'[d].status = st /\ deposits'[d].amount = deposits[d].amount
    BY <1>1, <1>5 DEF Deposit
  <1>6. CASE now > deposits[d].expires
    <2>1. /\ deposits' = [deposits EXCEPT ![d] = [deposits[d] EXCEPT !.status = "expired"]]
          /\ totalDeposited' = totalDeposited
      BY <1>6 DEF ConfirmDeposit
    <2>2. /\ DOMAIN deposits' = 1 .. Len(deposits) /\ deposits'[d].status = "expired"
          /\ \A i \in 1 .. Len(deposits) : i # d => deposits'[i] = deposits[i]
      BY <1>5, <2>1
    <2>3. Confirmed' = Confirmed /\ \A i \in Confirmed : deposits'[i] = deposits[i]
      BY <1>3, <2>2 DEF Confirmed
    <2>4. ConfirmedAmounts' = ConfirmedAmounts
      BY <2>3, SameConfirmed
    <2> QED BY <1>4, <2>1, <2>4, TotalsParts
  <1>7. CASE ~(now > deposits[d].expires)
    <2>1. /\ deposits' = [deposits EXCEPT ![d] = [deposits[d] EXCEPT !.status = "confirmed"]]
          /\ totalDeposited' = totalDeposited + deposits[d].amount
      BY <1>7 DEF ConfirmDeposit
    <2>2. /\ DOMAIN deposits' = 1 .. Len(deposits) /\ deposits'[d].status = "confirmed"
          /\ deposits'[d].amount = deposits[d].amount
          /\ \A i \in 1 .. Len(deposits) : i # d => deposits'[i] = deposits[i]
      BY <1>5, <2>1
    <2>3. /\ Confirmed' = Confirmed \cup {d}
          /\ \A i \in Confirmed : deposits'[i] = deposits[i]
      BY <1>3, <2>2 DEF Confirmed
    <2>4. /\ DOMAIN ConfirmedAmounts = Confirmed
          /\ DOMAIN ConfirmedAmounts' = Confirmed \cup {d}
          /\ ConfirmedAmounts'[d] = deposits[d].amount
      BY <2>2, <2>3 DEF ConfirmedAmounts
    <2>5. \A i \in Confirmed : /\ ConfirmedAmounts[i] \in Int
                               /\ ConfirmedAmounts'[i] = ConfirmedAmounts[i]
      BY <2>3, TotalsColumns DEF ConfirmedAmounts
    <2>6. IsFiniteSet(Confirmed) /\ ConfirmedAmounts'[d] \in Int
      BY <1>2, <2>4, TotalsColumns
    <2>7. SumFunction(ConfirmedAmounts') = SumFunction(ConfirmedAmounts) + deposits[d].amount
      BY <1>3, <2>4, <2>5, <2>6, TotalGrow
    <2> QED BY <1>4, <2>1, <2>7, TotalsParts
  <1> QED BY <1>6, <1>7

LEMMA CreateWithdrawalTotals ==
  ASSUME TypeOK, TotalsReconcile, NEW amount \in Amounts, NEW method \in Methods,
         CreateWithdrawalRequest(amount, method)
  PROVE  TotalsReconcile'
  <1> DEFINE x == [amount |-> amount, status |-> "pending"]
             n == Len(withdrawals)
  <1>1. x \in Withdrawal /\ x.status # "completed"
    BY SettlementAssumption DEF Withdrawal
  <1>2. withdrawals \in Seq(Withdrawal) /\ withdrawals' = Append(withdrawals, x)
    BY DEF TypeOK, CreateWithdrawalRequest
  <1> HIDE DEF x
  <1>3. /\ n \in Nat
        /\ DOMAIN withdrawals = 1 .. n /\ DOMAIN withdrawals' = 1 .. (n + 1)
        /\ \A i \in 1 .. n : withdrawals'[i] = withdrawals[i]
        /\ withdrawals'[n + 1] = x
    BY <1>1, <1>2
  <1>4. 1 .. (n + 1) = (1 .. n) \cup {n + 1}
    BY <1>3, Indices
  <1> HIDE DEF n
  <1>5. Completed' = Completed /\ \A w \in Completed : withdrawals'[w] = withdrawals[w]
    BY <1>1, <1>3, <1>4 DEF Completed
  <1>6. CompletedAmounts' = CompletedAmounts /\ CompletedFees' = CompletedFees
    BY <1>5, SameCompleted
  <1>7. /\ ConfirmedAmounts' = ConfirmedAmounts
        /\ SettledAmounts' = SettledAmounts /\ SettledFees' = SettledFees
        /\ UNCHANGED totals
    BY DEF CreateWithdrawalRequest, Confirmed, ConfirmedAmounts, SettledAmounts, SettledFees
  <1> QED BY <1>6, <1>7, TotalsParts DEF totals

LEMMA ProcessWithdrawalTotals ==
  ASSUME TypeOK, TotalsReconcile, NEW w \in 1 .. Len(withdrawals), ProcessWithdrawal(w)
  PROVE  TotalsReconcile'
  <1> DEFINE fee == WithdrawalFee(withdrawals[w].amount)
  <1>1. withdrawals \in Seq(Withdrawal) /\ withdrawals[w] \in Withdrawal
    BY DEF TypeOK
  <1>2. withdrawals[w].status = "pending" /\ withdrawals[w].amount \in Nat
    BY <1>1 DEF ProcessWithdrawal, Processable, Withdrawal
  <1>3. fee \in Int /\ withdrawals[w].amount \in Int
    <2>1. fee \in Nat
      BY <1>2, FeeTypes
    <2> QED BY <1>2, <2>1
  <1>4. w \notin Completed /\ DOMAIN withdrawals = 1 .. Len(withdrawals)
    BY <1>1, <1>2 DEF Completed
  <1>5. /\ withdrawals' = [withdrawals EXCEPT ![w] =
                              [withdrawals[w] EXCEPT !.status = "completed"]]
        /\ totalWithdrawn' = totalWithdrawn + withdrawals[w].amount
        /\ totalFees' = totalFees + fee
    BY DEF ProcessWithdrawal
  <1>6. /\ DOMAIN withdrawals' = 1 .. Len(withdrawals)
        /\ \A i \in 1 .. Len(withdrawals) : i # w => withdrawals'[i] = withdrawals[i]
        /\ withdrawals'[w].status = "completed"
        /\ withdrawals'[w].amount = withdrawals[w].amount
    BY <1>1, <1>5 DEF Withdrawal
  <1>7. /\ Completed' = Completed \cup {w}
        /\ \A i \in Completed : withdrawals'[i] = withdrawals[i]
    BY <1>4, <1>6 DEF Completed
  <1> HIDE DEF fee
  <1>8. IsFiniteSet(Completed)
    BY TotalsColumns
  <1>9. SumFunction(CompletedAmounts') = SumFunction(CompletedAmounts)
                                         + withdrawals[w].amount
    <2>1. /\ DOMAIN CompletedAmounts = Completed
          /\ DOMAIN CompletedAmounts' = Completed \cup {w}
          /\ CompletedAmounts'[w] = withdrawals[w].amount
      BY <1>6, <1>7 DEF CompletedAmounts
    <2>2. \A i \in Completed : /\ CompletedAmounts[i] \in Int
                               /\ CompletedAmounts'[i] = CompletedAmounts[i]
      BY <1>7, TotalsColumns DEF CompletedAmounts
    <2>3. CompletedAmounts'[w] \in Int
      BY <1>3, <2>1
    <2> QED BY <1>4, <1>8, <2>1, <2>2, <2>3, TotalGrow
  <1>10. SumFunction(CompletedFees') = SumFunction(CompletedFees) + fee
    <2>1. /\ DOMAIN CompletedFees = Completed
          /\ DOMAIN CompletedFees' = Completed \cup {w}
          /\ CompletedFees'[w] = fee
      BY <1>6, <1>7 DEF CompletedFees, fee
    <2>2. \A i \in Completed : /\ CompletedFees[i] \in Int
                               /\ CompletedFees'[i] = CompletedFees[i]
      BY <1>7, TotalsColumns DEF CompletedFees
    <2>3. CompletedFees'[w] \in Int
      BY <1>3, <2>1
    <2> QED BY <1>4, <1>8, <2>1, <2>2, <2>3, TotalGrow
  <1>11. /\ ConfirmedAmounts' = ConfirmedAmounts
         /\ SettledAmounts' = SettledAmounts /\ SettledFees' = SettledFees
         /\ UNCHANGED <<totalSettled, totalDeposited>>
    BY DEF ProcessWithdrawal, Confirmed, ConfirmedAmounts, SettledAmounts, SettledFees
  <1>12. totalFees' = SumFunction(SettledFees') + SumFunction(CompletedFees')
    <2>1. PICK a \in Int, b \in Int :
             a = SumFunction(SettledFees) /\ b = SumFunction(CompletedFees)
      BY FeeSums
    <2>2. totalFees = a + b
      BY <2>1, TotalsParts
    <2> QED BY <1>3, <1>5, <1>10, <1>11, <2>1, <2>2
  <1> QED BY <1>5, <1>9, <1>11, <1>12, TotalsParts

LEMMA ExecuteSettlementTotals ==
  ASSUME TypeOK, TotalsReconcile, NEW e \in 1 .. Len(escrows), ExecuteSettlement(e)
  PROVE  TotalsReconcile'
  <1> DEFINE r == [escrow |-> e, amount |-> escrows[e].amount, fee |-> escrows[e].fee]
             n == Len(settlements)
  <1>1. escrows[e].amount \in Nat /\ escrows[e].fee \in Nat
    <2>1. escrows[e] \in Escrow
      BY DEF TypeOK
    <2> QED BY <2>1 DEF Escrow
  <1>2. r \in Record /\ r.amount = escrows[e].amount /\ r.fee = escrows[e].fee
    BY <1>1 DEF Record
  <1>3. settlements \in Seq(Record) /\ settlements' = Append(settlements, r)
    BY DEF TypeOK, ExecuteSettlement
  <1>4. /\ totalSettled' = totalSettled + escrows[e].amount
        /\ totalFees' = totalFees + escrows[e].fee
    BY DEF ExecuteSettlement
  <1> HIDE DEF r
  <1>5. /\ n \in Nat /\ DOMAIN settlements = 1 .. n /\ DOMAIN settlements' = 1 .. (n + 1)
        /\ \A i \in 1 .. n : settlements'[i] = settlements[i] /\ settlements[i] \in Record
        /\ settlements'[n + 1] = r
    BY <1>2, <1>3
  <1>6. PICK S, k : /\ S = 1 .. n /\ k = n + 1 /\ IsFiniteSet(S) /\ k \notin S
                    /\ 1 .. (n + 1) = S \cup {k}
    BY <1>5, Indices
  <1> HIDE DEF n
  <1>7. \A x \in Record : x.amount \in Int /\ x.fee \in Int
    BY DEF Record
  <1>8. SumFunction(SettledAmounts') = SumFunction(SettledAmounts) + escrows[e].amount
    <2>1. /\ DOMAIN SettledAmounts = S /\ DOMAIN SettledAmounts' = S \cup {k}
          /\ SettledAmounts'[k] = escrows[e].amount
      BY <1>2, <1>5, <1>6 DEF SettledAmounts
    <2>2. \A i \in S : /\ SettledAmounts[i] \in Int
                            /\ SettledAmounts'[i] = SettledAmounts[i]
      BY <1>5, <1>6, <1>7 DEF SettledAmounts
    <2>3. SettledAmounts'[k] \in Int
      BY <1>1, <2>1
    <2>4. IsFiniteSet(S) /\ k \notin S
      BY <1>6
    <2>5. SumFunction(SettledAmounts') = SumFunction(SettledAmounts) + SettledAmounts'[k]
      BY <2>1, <2>2, <2>3, <2>4, TotalGrow
    <2> QED BY <2>1, <2>5
  <1>9. SumFunction(SettledFees') = SumFunction(SettledFees) + escrows[e].fee
    <2>1. /\ DOMAIN SettledFees = S /\ DOMAIN SettledFees' = S \cup {k}
          /\ SettledFees'[k] = escrows[e].fee
      BY <1>2, <1>5, <1>6 DEF SettledFees
    <2>2. \A i \in S : SettledFees[i] \in Int /\ SettledFees'[i] = SettledFees[i]
      BY <1>5, <1>6, <1>7 DEF SettledFees
    <2>3. SettledFees'[k] \in Int
      BY <1>1, <2>1
    <2>4. IsFiniteSet(S) /\ k \notin S
      BY <1>6
    <2>5. SumFunction(SettledFees') = SumFunction(SettledFees) + SettledFees'[k]
      BY <2>1, <2>2, <2>3, <2>4, TotalGrow
    <2> QED BY <2>1, <2>5
  <1>10. /\ ConfirmedAmounts' = ConfirmedAmounts
         /\ CompletedAmounts' = CompletedAmounts /\ CompletedFees' = CompletedFees
         /\ UNCHANGED <<totalDeposited, totalWithdrawn>>
    BY DEF ExecuteSettlement, Confirmed, ConfirmedAmounts, Completed, CompletedAmounts,
           CompletedFees
  <1>11. totalFees' = SumFunction(SettledFees') + SumFunction(CompletedFees')
    <2>1. PICK a \in Int, b \in Int :
             a = SumFunction(SettledFees) /\ b = SumFunction(CompletedFees)
      BY FeeSums
    <2>2. totalFees = a + b
      BY <2>1, TotalsParts
    <2>3. PICK fee \in Int : fee = escrows[e].fee
      BY <1>1
    <2>4. totalFees' = (a + b) + fee /\ SumFunction(SettledFees') = a + fee
          /\ SumFunction(CompletedFees') = b
      BY <1>4, <1>9, <1>10, <2>1, <2>2, <2>3
    <2> QED BY <2>1, <2>3, <2>4
  <1> QED BY <1>4, <1>8, <1>10, <1>11, TotalsParts

\* No record, no total.
LEMMA NoTotals ==
  /\ Init => TotalsReconcile
  /\ TornRestart => TotalsReconcile'
  <1>1. ASSUME Init PROVE TotalsReconcile
    <2>1. /\ DOMAIN ConfirmedAmounts = {} /\ DOMAIN CompletedAmounts = {}
          /\ DOMAIN CompletedFees = {}
          /\ DOMAIN SettledAmounts = {} /\ DOMAIN SettledFees = {}
      BY <1>1 DEF Init, Confirmed, Completed, ConfirmedAmounts, CompletedAmounts,
             CompletedFees, SettledAmounts, SettledFees
    <2>2. /\ SumFunction(ConfirmedAmounts) = 0 /\ SumFunction(CompletedAmounts) = 0
          /\ SumFunction(CompletedFees) = 0
          /\ SumFunction(SettledAmounts) = 0 /\ SumFunction(SettledFees) = 0
      BY <2>1, SumEmpty DEF SumFunction
    <2> QED BY <1>1, <2>2, TotalsParts DEF Init
  <1>2. ASSUME TornRestart PROVE TotalsReconcile'
    <2>1. /\ DOMAIN ConfirmedAmounts' = {} /\ DOMAIN CompletedAmounts' = {}
          /\ DOMAIN CompletedFees' = {}
          /\ DOMAIN SettledAmounts' = {} /\ DOMAIN SettledFees' = {}
      BY <1>2 DEF TornRestart, Confirmed, Completed, ConfirmedAmounts, CompletedAmounts,
             CompletedFees, SettledAmounts, SettledFees
    <2>2. /\ SumFunction(ConfirmedAmounts') = 0 /\ SumFunction(CompletedAmounts') = 0
          /\ SumFunction(CompletedFees') = 0
          /\ SumFunction(SettledAmounts') = 0 /\ SumFunction(SettledFees') = 0
      BY <2>1, SumEmpty DEF SumFunction
    <2> QED BY <1>2, <2>2, TotalsParts DEF TornRestart
  <1> QED BY <1>1, <1>2

LEMMA TotalsStep == TypeOK /\ TotalsReconcile /\ [Next]_vars => TotalsReconcile'
  <1> SUFFICES ASSUME TypeOK, TotalsReconcile, [Next]_vars PROVE TotalsReconcile'
    OBVIOUS
  <1>1. /\ DOMAIN deposits = 1 .. Len(deposits) /\ DOMAIN escrows = 1 .. Len(escrows)
        /\ DOMAIN withdrawals = 1 .. Len(withdrawals)
    BY DEF TypeOK
  <1>2. ASSUME NEW amount \in Amounts, NEW method \in Methods,
               CreateDepositIntent(amount, method)
        PROVE  TotalsReconcile'
    BY <1>2, CreateDepositTotals
  <1>3. ASSUME NEW amount \in Amounts, NEW method \in Methods,
               CreateWithdrawalRequest(amount, method)
        PROVE  TotalsReconcile'
    BY <1>3, CreateWithdrawalTotals
  <1>4. ASSUME NEW d \in 1 .. Len(deposits), ConfirmDeposit(d) PROVE TotalsReconcile'
    BY <1>4, ConfirmDepositTotals
  <1>5. ASSUME NEW w \in 1 .. Len(withdrawals), ProcessWithdrawal(w) PROVE TotalsReconcile'
    BY <1>5, ProcessWithdrawalTotals
  <1>6. ASSUME NEW e \in 1 .. Len(escrows), ExecuteSettlement(e) PROVE TotalsReconcile'
    BY <1>6, ExecuteSettlementTotals
  <1>7. ASSUME UNCHANGED <<deposits, withdrawals, settlements, totals>>
        PROVE  TotalsReconcile'
    BY <1>7 DEF TotalsReconcile, Confirmed, Completed, totals
  <1>8. CASE \/ \E amount \in Amounts : CreateEscrow(amount)
             \/ \E e \in DOMAIN escrows : FundEscrow(e) \/ RefundEscrow(e)
             \/ Tick
             \/ UNCHANGED vars
    BY <1>7, <1>8 DEF CreateEscrow, FundEscrow, RefundEscrow, Tick, vars
  <1>9. CASE TornRestart
    BY <1>9, NoTotals
  <1> QED BY <1>1, <1>2, <1>3, <1>4, <1>5, <1>6, <1>8, <1>9 DEF Next

\* GetStats reports what the records add up to: every deposit confirmed, every
\* withdrawal completed and every escrow settled is in the totals once, with its
\* fee, whatever expired, failed or was refunded in between.
THEOREM TotalsAreRecords == Spec => []TotalsReconcile
  <1> QED BY NoTotals, TypeCorrect, TotalsStep, PTL DEF Spec

=============================================================================
