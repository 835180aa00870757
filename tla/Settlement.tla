----------------------------- MODULE Settlement -----------------------------
(***************************************************************************)
(* The settlement keeper (x/settlement/keeper/keeper.go): deposit intents, *)
(* withdrawal requests, escrows and the running totals the keeper reports. *)
(* Each operation runs under the write lock and saves before it unlocks,   *)
(* so it is one step.  Nothing in the program calls these operations but   *)
(* the HTTP handlers, in whatever order clients send them: no timer        *)
(* expires a deposit or an escrow, the code only compares clocks when a    *)
(* confirmation or a funding arrives.  Wallet and user ids, references and *)
(* prices per token are data no decision depends on and are left out.      *)
(***************************************************************************)
EXTENDS Integers, Sequences, FiniteSets, Functions

CONSTANTS
    Amounts,              \* amounts requested
    Methods, Enabled,     \* payment methods, and those the config enables
    MinAmount, MaxAmount, \* config.MinSettlementUSDC, MaxSettlementUSDC
    SettlementFee,        \* config.SettlementFeeBPS
    FlatFee, BpsFee,      \* config.WithdrawalFeeFlat, WithdrawalFeeBPS
    FeeScale,             \* 10_000 in the code
    Timeout,              \* config.EscrowTimeoutHours
    TornWrites,           \* may the process die inside os.WriteFile?
    MaxDeposits, MaxWithdrawals, MaxEscrows, MaxTime    \* bounds

ASSUME SettlementAssumption ==
    /\ Amounts \subseteq Nat /\ Enabled \subseteq Methods
    /\ MinAmount \in Nat /\ MaxAmount \in Nat
    /\ SettlementFee \in Nat /\ FlatFee \in Nat /\ BpsFee \in Nat
    /\ FeeScale \in Nat \ {0} /\ Timeout \in Nat
    /\ TornWrites \in BOOLEAN
    /\ MaxDeposits \in Nat /\ MaxWithdrawals \in Nat
    /\ MaxEscrows \in Nat /\ MaxTime \in Nat

VARIABLES
    deposits,       \* k.Deposits in order of creation
    withdrawals,    \* k.Withdrawals in order of creation
    escrows,        \* k.Escrows in order of creation
    settlements,    \* k.Settlements
    totalSettled, totalFees, totalDeposited, totalWithdrawn, activeEscrows,
    now             \* time.Now(), in hours

totals == <<totalSettled, totalFees, totalDeposited, totalWithdrawn>>
vars == <<deposits, withdrawals, escrows, settlements, totals, activeEscrows, now>>

Deposit    == [amount : Nat, expires : Nat,
               status : {"pending", "confirmed", "expired"}]
Withdrawal == [amount : Nat, status : {"pending", "completed"}]
Escrow     == [amount : Nat, fee : Nat, expires : Nat,
               status : {"pending", "funded", "completed", "failed", "refunded"}]
Record     == [escrow : Nat, amount : Nat, fee : Nat]

WithdrawalFee(amount) == FlatFee + (amount * BpsFee) \div FeeScale

Open(e) == e.status \in {"pending", "funded"}

-----------------------------------------------------------------------------
(* Deposits.                                                               *)

CreateDepositIntent(amount, method) ==
    /\ Len(deposits) < MaxDeposits
    /\ amount >= MinAmount
    /\ method \in Enabled
    /\ deposits' = Append(deposits, [amount |-> amount, expires |-> now + Timeout,
                                     status |-> "pending"])
    /\ UNCHANGED <<withdrawals, escrows, settlements, totals, activeEscrows, now>>

\* Mutated form of ConfirmDeposit: a late confirmation expires the intent and
\* is counted all the same.
ConfirmDepositLate(d) ==
    /\ deposits[d].status = "pending"
    /\ deposits' = [deposits EXCEPT ![d].status =
                       IF now > deposits[d].expires THEN "expired" ELSE "confirmed"]
    /\ totalDeposited' = totalDeposited + deposits[d].amount
    /\ UNCHANGED <<withdrawals, escrows, settlements, totalSettled, totalFees,
                   totalWithdrawn, activeEscrows, now>>

\* A confirmation that comes too late expires the intent and is refused.
ConfirmDeposit(d) ==
    /\ deposits[d].status = "pending"
    /\ IF now > deposits[d].expires
       THEN /\ deposits' = [deposits EXCEPT ![d].status = "expired"]
            /\ totalDeposited' = totalDeposited
       ELSE /\ deposits' = [deposits EXCEPT ![d].status = "confirmed"]
            /\ totalDeposited' = totalDeposited + deposits[d].amount
    /\ UNCHANGED <<withdrawals, escrows, settlements, totalSettled, totalFees,
                   totalWithdrawn, activeEscrows, now>>

-----------------------------------------------------------------------------
(* Withdrawals.                                                            *)

CreateWithdrawalRequest(amount, method) ==
    /\ Len(withdrawals) < MaxWithdrawals
    /\ method \in Enabled
    /\ amount > WithdrawalFee(amount)
    /\ withdrawals' = Append(withdrawals, [amount |-> amount, status |-> "pending"])
    /\ UNCHANGED <<deposits, escrows, settlements, totals, activeEscrows, now>>

Processable(w) == withdrawals[w].status = "pending"

ProcessWithdrawal(w) ==
    LET amount == withdrawals[w].amount IN
    /\ Processable(w)
    /\ withdrawals' = [withdrawals EXCEPT ![w].status = "completed"]
    /\ totalWithdrawn' = totalWithdrawn + amount
    /\ totalFees' = totalFees + WithdrawalFee(amount)
    /\ UNCHANGED <<deposits, escrows, settlements, totalSettled, totalDeposited,
                   activeEscrows, now>>

-----------------------------------------------------------------------------
(* Escrows.                                                                *)

CreateEscrow(amount) ==
    /\ Len(escrows) < MaxEscrows
    /\ MinAmount <= amount /\ amount <= MaxAmount
    /\ escrows' = Append(escrows,
          [amount |-> amount, fee |-> (amount * SettlementFee) \div FeeScale,
           expires |-> now + Timeout, status |-> "pending"])
    /\ activeEscrows' = activeEscrows + 1
    /\ UNCHANGED <<deposits, withdrawals, settlements, totals, now>>

FundEscrow(e) ==
    LET late == now > escrows[e].expires IN
    /\ escrows[e].status = "pending"
    /\ escrows' = [escrows EXCEPT ![e].status = IF late THEN "failed" ELSE "funded"]
    /\ activeEscrows' = IF late THEN activeEscrows - 1 ELSE activeEscrows
    /\ UNCHANGED <<deposits, withdrawals, settlements, totals, now>>

ExecuteSettlement(e) ==
    LET t == escrows[e] IN
    /\ t.status = "funded"
    /\ escrows' = [escrows EXCEPT ![e].status = "completed"]
    /\ activeEscrows' = activeEscrows - 1
    /\ settlements' = Append(settlements,
          [escrow |-> e, amount |-> t.amount, fee |-> t.fee])
    /\ totalSettled' = totalSettled + t.amount
    /\ totalFees' = totalFees + t.fee
    /\ UNCHANGED <<deposits, withdrawals, totalDeposited, totalWithdrawn, now>>

\* Mutated form of Refundable: a completed escrow can be refunded.
AlwaysRefundable(e) == TRUE

Refundable(e) == escrows[e].status # "completed"

\* Mutated form of ActiveAfterRefund: every refund counts the escrow out,
\* also one of an escrow that had failed or been refunded before.
ActiveMinusOne(e) == activeEscrows - 1

\* The code overwrites the status before it tests whether the escrow was
\* funded or pending, so the test reads "refunded" and never counts it out.
ActiveAfterRefund(e) ==
    LET refunded == [escrows[e] EXCEPT !.status = "refunded"]
    IN  IF Open(refunded) THEN activeEscrows - 1 ELSE activeEscrows

RefundEscrow(e) ==
    /\ Refundable(e)
    /\ escrows' = [escrows EXCEPT ![e].status = "refunded"]
    /\ activeEscrows' = ActiveAfterRefund(e)
    /\ UNCHANGED <<deposits, withdrawals, settlements, totals, now>>

-----------------------------------------------------------------------------
(* The environment.                                                        *)

Tick ==
    /\ now < MaxTime
    /\ now' = now + 1
    /\ UNCHANGED <<deposits, withdrawals, escrows, settlements, totals, activeEscrows>>

\* A crash between operations loads the state that was saved.  One inside
\* os.WriteFile leaves a file that does not parse, and an empty keeper.
TornRestart ==
    /\ TornWrites
    /\ deposits' = <<>> /\ withdrawals' = <<>>
    /\ escrows' = <<>> /\ settlements' = <<>>
    /\ totalSettled' = 0 /\ totalFees' = 0
    /\ totalDeposited' = 0 /\ totalWithdrawn' = 0
    /\ activeEscrows' = 0
    /\ now' = now

-----------------------------------------------------------------------------

Init ==
    /\ deposits = <<>> /\ withdrawals = <<>>
    /\ escrows = <<>> /\ settlements = <<>>
    /\ totalSettled = 0 /\ totalFees = 0
    /\ totalDeposited = 0 /\ totalWithdrawn = 0
    /\ activeEscrows = 0
    /\ now = 0

Next ==
    \/ \E amount \in Amounts, method \in Methods :
          \/ CreateDepositIntent(amount, method)
          \/ CreateWithdrawalRequest(amount, method)
    \/ \E amount \in Amounts : CreateEscrow(amount)
    \/ \E d \in DOMAIN deposits : ConfirmDeposit(d)
    \/ \E w \in DOMAIN withdrawals : ProcessWithdrawal(w)
    \/ \E e \in DOMAIN escrows :
          \/ FundEscrow(e)
          \/ ExecuteSettlement(e)
          \/ RefundEscrow(e)
    \/ Tick
    \/ TornRestart

Spec == Init /\ [][Next]_vars

-----------------------------------------------------------------------------
(* Properties.                                                             *)

\* Every variable has its type.
TypeOK ==
    /\ deposits \in Seq(Deposit) /\ withdrawals \in Seq(Withdrawal)
    /\ escrows \in Seq(Escrow) /\ settlements \in Seq(Record)
    /\ totalSettled \in Nat /\ totalFees \in Nat
    /\ totalDeposited \in Nat /\ totalWithdrawn \in Nat
    /\ activeEscrows \in Nat /\ now \in Nat

\* An escrow pays out once: it has a settlement record exactly when it is
\* completed, one record, of its own amount (ExecuteSettlement against every
\* later refund, execution or funding of the same escrow).
SettledOnce ==
    /\ \A i \in 1 .. Len(settlements) :
          LET e == settlements[i].escrow IN
          /\ e \in 1 .. Len(escrows)
          /\ escrows[e].status = "completed"
          /\ settlements[i].amount = escrows[e].amount
    /\ \A i, j \in 1 .. Len(settlements) :
          settlements[i].escrow = settlements[j].escrow => i = j
    /\ \A e \in 1 .. Len(escrows) : escrows[e].status = "completed" =>
          \E i \in 1 .. Len(settlements) : settlements[i].escrow = e

Confirmed == { d \in DOMAIN deposits : deposits[d].status = "confirmed" }
Completed == { w \in DOMAIN withdrawals : withdrawals[w].status = "completed" }

\* The totals the keeper reports are what its records add up to: deposits
\* confirmed, withdrawals completed, escrows settled, and the fees of the
\* last two together (GetStats against the records).
TotalsReconcile ==
    /\ totalDeposited = SumFunction([d \in Confirmed |-> deposits[d].amount])
    /\ totalWithdrawn = SumFunction([w \in Completed |-> withdrawals[w].amount])
    /\ totalSettled = SumFunction([i \in DOMAIN settlements |-> settlements[i].amount])
    /\ totalFees = SumFunction([i \in DOMAIN settlements |-> settlements[i].fee])
          + SumFunction([w \in Completed |-> WithdrawalFee(withdrawals[w].amount)])

OpenEscrows == { e \in DOMAIN escrows : Open(escrows[e]) }

\* The counter of active escrows never misses one that still holds or awaits
\* money, in any order of funding, expiry, execution and repeated refunds.
ActiveCoversOpen == activeEscrows >= Cardinality(OpenEscrows)

\* What is finished stays finished: a settled escrow, a confirmed or expired
\* deposit and a completed withdrawal never change again, and an escrow that
\* failed or was refunded never pays out.
Final ==
    [][/\ \A e \in DOMAIN escrows \cap DOMAIN escrows' :
            /\ escrows[e].status = "completed" => escrows'[e] = escrows[e]
            /\ ~Open(escrows[e]) /\ escrows[e].status # "completed" =>
                  escrows'[e].status \in {"failed", "refunded"}
       /\ \A d \in DOMAIN deposits \cap DOMAIN deposits' :
            deposits[d].status # "pending" => deposits'[d] = deposits[d]
       /\ \A w \in DOMAIN withdrawals \cap DOMAIN withdrawals' :
            withdrawals[w].status # "pending" => withdrawals'[w] = withdrawals[w]]_vars

\* "active_escrows" in GetStats: the number of escrows that are open.  Refuted:
\* RefundEscrow never counts a refunded escrow out.
ActiveIsOpen == activeEscrows = Cardinality(OpenEscrows)

=============================================================================
