---------------------------- MODULE TokensProofs ----------------------------
(***************************************************************************)
(* Proofs about Tokens: no account is overdrawn, tokens never exceed the   *)
(* energy behind them, a commitment is paid out once, and the records of   *)
(* provenance are indexed and only grow.                                   *)
(***************************************************************************)
EXTENDS Tokens, Sums

-----------------------------------------------------------------------------
(* Lemmas.                                                                 *)

\* A transfer within the sender's means leaves every account its type.
LEMMA SentType ==
  ASSUME balance \in [Addrs -> Nat], NEW from \in Addrs, NEW to \in Addrs,
         NEW amount \in Nat, amount <= balance[from]
  PROVE  Sent(from, to, amount) \in [Addrs -> Nat]
  <1>1. CASE from = to
    BY <1>1 DEF Sent
  <1>2. CASE from # to
    <2>1. Sent(from, to, amount) =
             [a \in Addrs |-> IF a = to THEN balance[a] + amount
                              ELSE IF a = from THEN balance[a] - amount
                              ELSE balance[a]]
      BY <1>2 DEF Sent
    <2>2. balance[from] - amount \in Nat
      OBVIOUS
    <2> QED BY <2>1, <2>2
  <1> QED BY <1>1, <1>2

\* A transfer moves the amount out of the sender's account, unless the sender
\* is its own recipient.
LEMMA SentFrom ==
  ASSUME balance \in [Addrs -> Nat], NEW from \in Addrs, NEW to \in Addrs,
         NEW amount \in Nat, from # to
  PROVE  Sent(from, to, amount)[from] = balance[from] - amount
  BY DEF Sent

\* The tokens of one certificate are a natural number and need no more energy
\* than the certificate has.
LEMMA TokensWithin ==
  ASSUME NEW mwh \in Nat
  PROVE  /\ TokensFor(mwh) \in Nat
         /\ TokensFor(mwh) * DecScale <= mwh * TokensPerMwh
  <1>1. \A n \in Nat, k \in Nat \ {0} : n \div k \in Nat /\ (n \div k) * k <= n
    OBVIOUS
  <1>2. mwh * TokensPerMwh \in Nat /\ DecScale \in Nat \ {0}
    BY EnergyMintAssumption
  <1> QED BY <1>1, <1>2 DEF TokensFor

-----------------------------------------------------------------------------
(* Types.                                                                  *)

\* The guards of the handlers leave amounts that are not negative: a quantity of
\* at least the minimum, and an amount the sender has.
LEMMA GuardsArePositive ==
  /\ \A sender \in Addrs, ext \in Certs, mwh \in Quantities, documented \in BOOLEAN,
        dest \in Addrs :
        MintFromCertificate(sender, ext, mwh, documented, dest) => mwh \in Nat
  /\ \A addr \in Addrs, amount \in Int : HasFunds(addr, amount) => amount \in Nat
  <1>1. ASSUME NEW sender \in Addrs, NEW ext \in Certs, NEW mwh \in Quantities,
               NEW documented \in BOOLEAN, NEW dest \in Addrs,
               MintFromCertificate(sender, ext, mwh, documented, dest)
        PROVE  mwh \in Nat
    <2>1. mwh \in Int /\ mwh >= MinCertificateMwh /\ MinCertificateMwh \in Nat
      BY <1>1, EnergyMintAssumption DEF MintFromCertificate
    <2> QED BY <2>1
  <1>2. \A addr \in Addrs, amount \in Int : HasFunds(addr, amount) => amount \in Nat
    BY DEF HasFunds
  <1> QED BY <1>1, <1>2


\* TypeOK, component by component.
BankTypeOK == balance \in [Addrs -> Nat]

MintTypeOK ==
    /\ minters \subseteq Addrs
    /\ DOMAIN certificates \subseteq Certs
    /\ \A ext \in DOMAIN certificates :
          certificates[ext] \in [mwh : Nat, tokens : Nat, owner : Addrs]
    /\ totalMinted \in Nat /\ totalBackedMwh \in Nat

BurnTypeOK ==
    /\ merchants \subseteq Addrs
    /\ burnEvents \in Seq(BurnEvent) /\ burnStats \in BurnStats

ProvenanceTypeOK ==
    /\ recordCount \in Nat
    /\ DOMAIN records \subseteq 1 .. recordCount
    /\ \A id \in DOMAIN records : records[id] \in Record
    /\ recordOf \in [DOMAIN recordOf -> DOMAIN records]
    /\ DOMAIN recordOf \subseteq Certs

LEMMA TypeParts ==
  /\ TypeOK <=> /\ BankTypeOK /\ MintTypeOK /\ BurnTypeOK
                /\ commitments \in Seq(Commitment) /\ ProvenanceTypeOK
  /\ TypeOK' <=> /\ BankTypeOK' /\ MintTypeOK' /\ BurnTypeOK'
                 /\ commitments' \in Seq(Commitment) /\ ProvenanceTypeOK'
  BY DEF TypeOK, BankTypeOK, MintTypeOK, BurnTypeOK, ProvenanceTypeOK

LEMMA MintType ==
  ASSUME BankTypeOK, MintTypeOK, NEW sender \in Addrs, NEW ext \in Certs,
         NEW mwh \in Quantities, NEW documented \in BOOLEAN, NEW dest \in Addrs,
         MintFromCertificate(sender, ext, mwh, documented, dest)
  PROVE  BankTypeOK' /\ MintTypeOK'
  <1> DEFINE tokens == TokensFor(mwh)
             cert   == [mwh |-> mwh, tokens |-> tokens, owner |-> sender]
  <1>1. mwh \in Nat /\ tokens \in Nat
    BY GuardsArePositive, TokensWithin
  <1>2. cert \in [mwh : Nat, tokens : Nat, owner : Addrs]
    BY <1>1
  <1>3. /\ balance' = [balance EXCEPT ![dest] = @ + tokens]
        /\ certificates' = [e \in DOMAIN certificates \cup {ext} |->
              IF e = ext THEN cert ELSE certificates[e]]
        /\ totalMinted' = totalMinted + tokens
        /\ totalBackedMwh' = totalBackedMwh + mwh
        /\ minters' = minters
    BY DEF MintFromCertificate
  <1> HIDE DEF tokens, cert
  <1>4. BankTypeOK'
    BY <1>1, <1>3 DEF BankTypeOK
  <1>5. DOMAIN certificates' \subseteq Certs
    BY <1>3 DEF MintTypeOK
  <1>6. \A x \in DOMAIN certificates' :
           certificates'[x] \in [mwh : Nat, tokens : Nat, owner : Addrs]
    BY <1>2, <1>3 DEF MintTypeOK
  <1>7. totalMinted' \in Nat /\ totalBackedMwh' \in Nat
    BY <1>1, <1>3 DEF MintTypeOK
  <1> QED BY <1>3, <1>4, <1>5, <1>6, <1>7 DEF MintTypeOK

LEMMA BurnType ==
  ASSUME BankTypeOK, BurnTypeOK, NEW sender \in Addrs, NEW amount \in BurnAmounts,
         NEW source \in Sources, NEW revenue \in Int,
         BurnTokens(sender, amount, source, revenue)
  PROVE  BankTypeOK' /\ BurnTypeOK'
  <1>1. amount \in Nat /\ amount <= balance[sender]
    BY BurnAssumption DEF BurnTokens, HasFunds
  <1>2. BankTypeOK'
    <2>1. balance' = [balance EXCEPT ![sender] = @ - amount]
      BY DEF BurnTokens
    <2>2. balance[sender] - amount \in Nat
      BY <1>1 DEF BankTypeOK
    <2> QED BY <2>1, <2>2 DEF BankTypeOK
  <1>3. burnEvents' \in Seq(BurnEvent)
    <2>1. [amount |-> amount, source |-> source, sender |-> sender,
           revenue |-> revenue] \in BurnEvent
      BY <1>1 DEF BurnEvent
    <2> QED BY <2>1 DEF BurnTokens, BurnTypeOK
  <1>4. burnStats' \in BurnStats
    <2>1. /\ burnStats.total \in Nat /\ burnStats.events \in Nat
          /\ burnStats.bySource \in [Sources -> Nat] /\ burnStats.revenue \in Int
      BY DEF BurnTypeOK, BurnStats
    <2>2. [burnStats.bySource EXCEPT ![source] = @ + amount] \in [Sources -> Nat]
      BY <1>1, <2>1
    <2>3. UpdatedStats(amount, source, revenue) \in BurnStats
      BY <1>1, <2>1, <2>2 DEF UpdatedStats, BurnStats
    <2> QED BY <2>3 DEF BurnTokens
  <1> QED BY <1>2, <1>3, <1>4 DEF BurnTypeOK, BurnTokens

\* The amount and the status of a stored commitment.
LEMMA CommitmentType ==
  ASSUME commitments \in Seq(Commitment), NEW c \in DOMAIN commitments
  PROVE  /\ commitments[c].amount \in Nat
         /\ \A st \in {"funded", "delivered", "cancelled"} :
               [commitments EXCEPT ![c].status = st] \in Seq(Commitment)
  <1>1. commitments[c] \in Commitment /\ c \in 1 .. Len(commitments)
    OBVIOUS
  <1>2. \A st \in {"funded", "delivered", "cancelled"} :
           [commitments[c] EXCEPT !.status = st] \in Commitment
    BY <1>1 DEF Commitment
  <1>3. \A x \in Commitment : [commitments EXCEPT ![c] = x] \in Seq(Commitment)
    BY <1>1
  <1>4. \A st \in {"funded", "delivered", "cancelled"} :
           [commitments EXCEPT ![c] = [commitments[c] EXCEPT !.status = st]] \in Seq(Commitment)
    BY <1>2, <1>3
  <1> QED BY <1>1, <1>4 DEF Commitment

LEMMA TreasuryType ==
  ASSUME BankTypeOK, commitments \in Seq(Commitment), TreasuryStep
  PROVE  BankTypeOK' /\ commitments' \in Seq(Commitment)
  <1>0. /\ Owner \in Addrs /\ Minting \in Addrs /\ Committed \in Addrs
        /\ Liquidity \in Addrs /\ TransferAmounts \subseteq Int
    BY TreasuryAssumption
  <1>1. ASSUME NEW sender \in Addrs, NEW amount \in TransferAmounts,
               TransferMintingToCommitted(sender, amount)
        PROVE  BankTypeOK' /\ commitments' \in Seq(Commitment)
    <2>1. BankTypeOK'
      BY <1>0, <1>1, SentType DEF TransferMintingToCommitted, HasFunds, BankTypeOK
    <2>2. [amount |-> amount, status |-> "funded"] \in Commitment
      BY <1>0, <1>1 DEF TransferMintingToCommitted, HasFunds, Commitment
    <2>3. commitments' \in Seq(Commitment)
      BY <1>1, <2>2 DEF TransferMintingToCommitted
    <2> QED BY <2>1, <2>3
  <1>2. ASSUME NEW sender \in Addrs, NEW amount \in TransferAmounts,
               TransferMintingToLiquidity(sender, amount)
        PROVE  BankTypeOK' /\ commitments' \in Seq(Commitment)
    BY <1>0, <1>2, SentType DEF TransferMintingToLiquidity, HasFunds, BankTypeOK
  <1>3. ASSUME NEW sender \in Addrs, NEW c \in DOMAIN commitments, NEW dest \in Addrs,
               DeliverCommitment(sender, c, dest)
        PROVE  BankTypeOK' /\ commitments' \in Seq(Commitment)
    <2>1. commitments[c].amount \in Nat
      BY CommitmentType
    <2>2. BankTypeOK'
      BY <1>0, <1>3, <2>1, SentType DEF DeliverCommitment, HasFunds, BankTypeOK
    <2>3. commitments' \in Seq(Commitment)
      BY <1>3, CommitmentType DEF DeliverCommitment
    <2> QED BY <2>2, <2>3
  <1>4. ASSUME NEW sender \in Addrs, NEW c \in DOMAIN commitments,
               CancelCommitment(sender, c)
        PROVE  BankTypeOK' /\ commitments' \in Seq(Commitment)
    <2>1. commitments[c].amount \in Nat
      BY CommitmentType
    <2>2. BankTypeOK'
      BY <1>0, <1>4, <2>1, SentType DEF CancelCommitment, HasFunds, BankTypeOK
    <2>3. commitments' \in Seq(Commitment)
      BY <1>4, CommitmentType DEF CancelCommitment
    <2> QED BY <2>2, <2>3
  <1> QED BY <1>1, <1>2, <1>3, <1>4 DEF TreasuryStep

\* An appended sequence.
LEMMA AppendedTo ==
  ASSUME NEW S, NEW s \in Seq(S), NEW x \in S
  PROVE  Append(s, x) \in Seq(S) /\ IsPrefix(s, Append(s, x))
  <1>1. Append(s, x) \in Seq(S)
    OBVIOUS
  <1>2. /\ Len(Append(s, x)) = Len(s) + 1
        /\ \A i \in 1 .. Len(s) : Append(s, x)[i] = s[i]
    OBVIOUS
  <1> QED BY <1>1, <1>2 DEF IsPrefix

\* What adding a document or a change of custody makes of a record.
LEMMA GrownRecord ==
  ASSUME NEW r \in Record
  PROVE  /\ \A document \in Documents :
               LET new == [r EXCEPT !.documents = Append(@, document)]
               IN  /\ new \in Record /\ new.cert = r.cert /\ new.custody = r.custody
                   /\ IsPrefix(r.documents, new.documents)
         /\ \A event \in Custody :
               LET new == [r EXCEPT !.custody = Append(@, event)]
               IN  /\ new \in Record /\ new.cert = r.cert /\ new.documents = r.documents
                   /\ IsPrefix(r.custody, new.custody)
  <1>1. r.cert \in Certs /\ r.documents \in Seq(Documents) /\ r.custody \in Seq(Custody)
    BY DEF Record
  <1>2. ASSUME NEW document \in Documents
        PROVE  LET new == [r EXCEPT !.documents = Append(@, document)]
               IN  /\ new \in Record /\ new.cert = r.cert /\ new.custody = r.custody
                   /\ IsPrefix(r.documents, new.documents)
    <2> DEFINE more == Append(r.documents, document)
    <2>1. more \in Seq(Documents) /\ IsPrefix(r.documents, more)
      BY <1>1, AppendedTo
    <2> HIDE DEF more
    <2>2. [r EXCEPT !.documents = more] =
             [cert |-> r.cert, documents |-> more, custody |-> r.custody]
      BY DEF Record
    <2>3. [cert |-> r.cert, documents |-> more, custody |-> r.custody] \in Record
      BY <1>1, <2>1 DEF Record
    <2>4. [r EXCEPT !.documents = Append(@, document)] = [r EXCEPT !.documents = more]
      BY DEF more
    <2> QED BY <2>1, <2>2, <2>3, <2>4
  <1>3. ASSUME NEW event \in Custody
        PROVE  LET new == [r EXCEPT !.custody = Append(@, event)]
               IN  /\ new \in Record /\ new.cert = r.cert /\ new.documents = r.documents
                   /\ IsPrefix(r.custody, new.custody)
    <2> DEFINE more == Append(r.custody, event)
    <2>1. more \in Seq(Custody) /\ IsPrefix(r.custody, more)
      BY <1>1, AppendedTo
    <2> HIDE DEF more
    <2>2. [r EXCEPT !.custody = more] =
             [cert |-> r.cert, documents |-> r.documents, custody |-> more]
      BY DEF Record
    <2>3. [cert |-> r.cert, documents |-> r.documents, custody |-> more] \in Record
      BY <1>1, <2>1 DEF Record
    <2>4. [r EXCEPT !.custody = Append(@, event)] = [r EXCEPT !.custody = more]
      BY DEF more
    <2> QED BY <2>1, <2>2, <2>3, <2>4
  <1> QED BY <1>2, <1>3

\* What a step of the provenance keeper does, whichever it is: it creates the
\* record of a certificate that has none, or it lets one record grow.
Created ==
    \E cert \in Certs, r \in Record :
       /\ cert \notin DOMAIN recordOf /\ r.cert = cert
       /\ recordCount' = recordCount + 1
       /\ records' = With(records, recordCount + 1, r)
       /\ recordOf' = With(recordOf, cert, recordCount + 1)

Grown ==
    \E id \in DOMAIN records, r \in Record :
       /\ records' = [records EXCEPT ![id] = r]
       /\ r.cert = records[id].cert
       /\ IsPrefix(records[id].documents, r.documents)
       /\ IsPrefix(records[id].custody, r.custody)
       /\ UNCHANGED <<recordOf, recordCount>>

LEMMA Reflexive == ASSUME NEW S, NEW s \in Seq(S) PROVE IsPrefix(s, s)
  BY DEF IsPrefix

LEMMA RecordSteps == ProvenanceTypeOK /\ ProvenanceStep => Created \/ Grown
  <1> SUFFICES ASSUME ProvenanceTypeOK, ProvenanceStep PROVE Created \/ Grown
    OBVIOUS
  <1>0. Holders \subseteq Addrs
    BY ProvenanceAssumption
  <1>1. ASSUME NEW cert \in Certs, NEW documents \in Submitted, NEW energy \in BOOLEAN,
               NEW creator \in Holders,
               CreateProvenanceRecord(cert, documents, energy, creator)
        PROVE  Created
    <2> DEFINE r == [cert |-> cert, documents |-> documents,
                     custody |-> <<[from |-> Nobody, to |-> creator]>>]
    <2>1. documents \in Seq(Documents)
      <3>1. PICK n \in 0 .. MaxDocuments + 1 : documents \in [1 .. n -> Documents]
        BY <1>1 DEF Submitted, BoundedSeq, SeqOf
      <3>2. n \in Nat
        BY ProvenanceAssumption
      <3> QED BY <3>1, <3>2
    <2>2. [from |-> Nobody, to |-> creator] \in Custody
      BY <1>0 DEF Custody
    <2>3. r \in Record /\ r.cert = cert
      BY <2>1, <2>2 DEF Record
    <2>4. /\ cert \notin DOMAIN recordOf
          /\ recordCount' = recordCount + 1
          /\ records' = With(records, recordCount + 1, r)
          /\ recordOf' = With(recordOf, cert, recordCount + 1)
      BY <1>1 DEF CreateProvenanceRecord, HasProvenance, NextRecord
    <2> QED BY <2>3, <2>4 DEF Created
  <1>2. ASSUME NEW id \in DOMAIN records, NEW document \in Documents,
               AddDocumentToRecord(id, document)
        PROVE  Grown
    <2> DEFINE r == [records[id] EXCEPT !.documents = Append(@, document)]
    <2>1. records[id] \in Record
      BY DEF ProvenanceTypeOK
    <2>2. /\ r \in Record /\ r.cert = records[id].cert
          /\ r.custody = records[id].custody
          /\ IsPrefix(records[id].documents, r.documents)
      BY <2>1, GrownRecord
    <2>3. IsPrefix(records[id].custody, r.custody)
      BY <2>1, <2>2, Reflexive DEF Record
    <2>4. records' = [records EXCEPT ![id] = r] /\ UNCHANGED <<recordOf, recordCount>>
      BY <1>2 DEF AddDocumentToRecord
    <2> QED BY <2>2, <2>3, <2>4 DEF Grown
  <1>3. ASSUME NEW id \in DOMAIN records, NEW from \in Holders, NEW to \in Holders,
               RecordCustodyTransfer(id, from, to)
        PROVE  Grown
    <2> DEFINE event == [from |-> from, to |-> to]
               r == [records[id] EXCEPT !.custody = Append(@, event)]
    <2>1. records[id] \in Record
      BY DEF ProvenanceTypeOK
    <2>2. event \in Custody
      BY <1>0 DEF Custody
    <2>3. /\ r \in Record /\ r.cert = records[id].cert
          /\ r.documents = records[id].documents
          /\ IsPrefix(records[id].custody, r.custody)
      BY <2>1, <2>2, GrownRecord
    <2>4. IsPrefix(records[id].documents, r.documents)
      BY <2>1, <2>3, Reflexive DEF Record
    <2>5. records' = [records EXCEPT ![id] = r] /\ UNCHANGED <<recordOf, recordCount>>
      BY <1>3 DEF RecordCustodyTransfer
    <2> QED BY <2>3, <2>4, <2>5 DEF Grown
  <1> QED BY <1>1, <1>2, <1>3 DEF ProvenanceStep

LEMMA RecordType == ProvenanceTypeOK /\ ProvenanceStep => ProvenanceTypeOK'
  <1> SUFFICES ASSUME ProvenanceTypeOK, Created \/ Grown PROVE ProvenanceTypeOK'
    BY RecordSteps
  <1>1. CASE Created
    BY <1>1 DEF Created, With, ProvenanceTypeOK
  <1>2. CASE Grown
    BY <1>2 DEF Grown, ProvenanceTypeOK
  <1> QED BY <1>1, <1>2

LEMMA TypeStep == TypeOK /\ [Next]_vars => TypeOK'
  <1> SUFFICES ASSUME TypeOK, [Next]_vars PROVE TypeOK'
    OBVIOUS
  <1>0. /\ BankTypeOK /\ MintTypeOK /\ BurnTypeOK
        /\ commitments \in Seq(Commitment) /\ ProvenanceTypeOK
    BY TypeParts
  <1>7. UNCHANGED provenanceVars => ProvenanceTypeOK'
    BY <1>0 DEF provenanceVars, ProvenanceTypeOK
  <1>1. CASE MintStep
    <2>1. ASSUME NEW sender \in Addrs, NEW ext \in Certs, NEW mwh \in Quantities,
                 NEW documented \in BOOLEAN, NEW dest \in Addrs,
                 MintFromCertificate(sender, ext, mwh, documented, dest)
          PROVE  BankTypeOK' /\ MintTypeOK'
      BY <1>0, <2>1, MintType
    <2>2. ASSUME NEW sender \in Addrs, NEW addr \in Candidates,
                 AddMinter(sender, addr) \/ RemoveMinter(sender, addr)
          PROVE  BankTypeOK' /\ MintTypeOK'
      BY <1>0, <2>2, BankAssumption
         DEF AddMinter, RemoveMinter, BankTypeOK, MintTypeOK
    <2>3. BankTypeOK' /\ MintTypeOK'
      BY <1>1, <2>1, <2>2 DEF MintStep
    <2>4. BurnTypeOK' /\ commitments' \in Seq(Commitment)
      BY <1>0, <1>1 DEF MintStep, burnVars, BurnTypeOK
    <2>5. ProvenanceTypeOK'
      BY <1>1, <1>7 DEF MintStep
    <2> QED BY <2>3, <2>4, <2>5, TypeParts
  <1>2. CASE BurnStep
    <2>1. ASSUME NEW sender \in Addrs, NEW amount \in BurnAmounts, NEW source \in Sources,
                 MsgBurnTokens(sender, amount, source)
          PROVE  BankTypeOK' /\ BurnTypeOK'
      BY <1>0, <2>1, BurnType DEF MsgBurnTokens
    <2>2. ASSUME NEW sender \in Addrs, NEW amount \in BurnAmounts, NEW revenue \in Revenues,
                 MsgMerchantBurn(sender, amount, revenue)
          PROVE  BankTypeOK' /\ BurnTypeOK'
      <3>1. "merchant_protocol" \in Sources /\ revenue \in Int
        BY BurnAssumption DEF Sources
      <3> QED BY <1>0, <2>2, <3>1, BurnType DEF MsgMerchantBurn
    <2>3. ASSUME NEW sender \in Addrs, NEW addr \in Candidates, AddMerchant(sender, addr)
          PROVE  BankTypeOK' /\ BurnTypeOK'
      BY <1>0, <2>3, BankAssumption DEF AddMerchant, BankTypeOK, BurnTypeOK
    <2>4. BankTypeOK' /\ BurnTypeOK'
      BY <1>2, <2>1, <2>2, <2>3 DEF BurnStep
    <2>5. MintTypeOK' /\ commitments' \in Seq(Commitment)
      BY <1>0, <1>2 DEF BurnStep, mintVars, MintTypeOK
    <2>6. ProvenanceTypeOK'
      BY <1>2, <1>7 DEF BurnStep
    <2> QED BY <2>4, <2>5, <2>6, TypeParts
  <1>3. CASE TreasuryStep
    <2>1. BankTypeOK' /\ commitments' \in Seq(Commitment)
      BY <1>0, <1>3, TreasuryType
    <2>2. MintTypeOK' /\ BurnTypeOK'
      BY <1>0, <1>3 DEF TreasuryStep, mintVars, burnVars, MintTypeOK, BurnTypeOK
    <2>3. ProvenanceTypeOK'
      BY <1>3, <1>7 DEF TreasuryStep
    <2> QED BY <2>1, <2>2, <2>3, TypeParts
  <1>4. CASE Send
    <2>1. BankTypeOK'
      BY <1>0, <1>4, SentType, TreasuryAssumption, SMTT(30) DEF Send, HasFunds, BankTypeOK
    <2>2. MintTypeOK' /\ BurnTypeOK' /\ commitments' \in Seq(Commitment)
      BY <1>0, <1>4 DEF Send, mintVars, burnVars, MintTypeOK, BurnTypeOK
    <2>3. ProvenanceTypeOK'
      BY <1>4, <1>7 DEF Send
    <2> QED BY <2>1, <2>2, <2>3, TypeParts
  <1>5. CASE RecordStep
    <2>1. ProvenanceTypeOK'
      BY <1>0, <1>5, RecordType DEF RecordStep
    <2>2. /\ BankTypeOK' /\ MintTypeOK' /\ BurnTypeOK'
          /\ commitments' \in Seq(Commitment)
      BY <1>0, <1>5
         DEF RecordStep, mintVars, burnVars, BankTypeOK, MintTypeOK, BurnTypeOK
    <2> QED BY <2>1, <2>2, TypeParts
  <1>6. CASE UNCHANGED vars
    <2>1. /\ BankTypeOK' /\ MintTypeOK' /\ BurnTypeOK'
          /\ commitments' \in Seq(Commitment)
      BY <1>0, <1>6
         DEF vars, mintVars, burnVars, BankTypeOK, MintTypeOK, BurnTypeOK
    <2>2. ProvenanceTypeOK'
      BY <1>6, <1>7 DEF vars
    <2> QED BY <2>1, <2>2, TypeParts
  <1> QED BY <1>1, <1>2, <1>3, <1>4, <1>5, <1>6 DEF Next

LEMMA TypeInit == Init => TypeOK
  <1> SUFFICES ASSUME Init PROVE TypeOK
    OBVIOUS
  <1>1. burnStats \in BurnStats
    BY DEF Init, BurnInit, BurnStats
  <1>2. certificates = <<>> /\ DOMAIN certificates = {}
    BY DEF Init, MintInit
  <1>3. ProvenanceTypeOK
    BY DEF Init, ProvenanceInit, ProvenanceTypeOK
  <1>4. BankTypeOK /\ MintTypeOK /\ BurnTypeOK /\ commitments \in Seq(Commitment)
    BY <1>1, <1>2
       DEF Init, MintInit, BurnInit, TreasuryInit, BankTypeOK, MintTypeOK, BurnTypeOK
  <1> QED BY <1>3, <1>4, TypeParts

\* Every variable keeps its type over all four keepers, for requested amounts of
\* either sign: no message or transfer overdraws an account, and no counter goes
\* below zero but the total of the revenues that merchants report, which may.
THEOREM TypeCorrect == Spec => []TypeOK
  BY TypeInit, TypeStep, PTL DEF Spec

-----------------------------------------------------------------------------
(* The records of provenance.                                              *)

\* Numbers are given out without a gap: with the first two parts of
\* RecordsAreIndexed, an inductive invariant.
IndexInv ==
    /\ DOMAIN records = 1 .. recordCount
    /\ DOMAIN records = {recordOf[cert] : cert \in DOMAIN recordOf}
    /\ \A cert \in DOMAIN recordOf : records[recordOf[cert]].cert = cert

LEMMA IndexStep == TypeOK /\ IndexInv /\ [Next]_vars => IndexInv'
  <1> SUFFICES ASSUME TypeOK, IndexInv, [Next]_vars PROVE IndexInv'
    OBVIOUS
  <1>0. ProvenanceTypeOK
    BY TypeParts
  <1>1. CASE ProvenanceStep /\ Created
    <2>1. PICK cert \in Certs, r \in Record :
             /\ cert \notin DOMAIN recordOf /\ r.cert = cert
             /\ recordCount' = recordCount + 1
             /\ records' = With(records, recordCount + 1, r)
             /\ recordOf' = With(recordOf, cert, recordCount + 1)
      BY <1>1 DEF Created
    <2>2. /\ DOMAIN records' = DOMAIN records \cup {recordCount + 1}
          /\ DOMAIN recordOf' = DOMAIN recordOf \cup {cert}
          /\ recordOf'[cert] = recordCount + 1
          /\ records'[recordCount + 1] = r
          /\ \A c \in DOMAIN recordOf : recordOf'[c] = recordOf[c]
          /\ \A id \in DOMAIN records \ {recordCount + 1} : records'[id] = records[id]
      BY <2>1 DEF With
    <2>3. DOMAIN records' = 1 .. recordCount'
      <3>1. recordCount \in Nat
        BY <1>0 DEF ProvenanceTypeOK
      <3>2. DOMAIN records' = (1 .. recordCount) \cup {recordCount + 1}
        BY <2>2 DEF IndexInv
      <3>3. \A n \in Nat : (1 .. n) \cup {n + 1} = 1 .. (n + 1)
        OBVIOUS
      <3> QED BY <2>1, <3>1, <3>2, <3>3
    <2>4. DOMAIN records' = {recordOf'[c] : c \in DOMAIN recordOf'}
      BY <2>2 DEF IndexInv
    <2>5. ASSUME NEW c \in DOMAIN recordOf' PROVE records'[recordOf'[c]].cert = c
      <3>1. CASE c = cert
        BY <2>1, <2>2, <3>1
      <3>2. CASE c # cert
        <4>1. c \in DOMAIN recordOf /\ recordOf'[c] = recordOf[c]
          BY <2>2, <3>2
        <4>2. recordOf[c] \in 1 .. recordCount /\ recordCount \in Nat
          BY <1>0, <4>1 DEF ProvenanceTypeOK
        <4>3. recordOf[c] # recordCount + 1
          BY <4>2
        <4> QED BY <2>2, <4>1, <4>2, <4>3 DEF IndexInv
      <3> QED BY <3>1, <3>2
    <2> QED BY <2>3, <2>4, <2>5 DEF IndexInv
  <1>2. CASE ProvenanceStep /\ Grown
    BY <1>2 DEF Grown, IndexInv
  <1>3. CASE UNCHANGED provenanceVars
    BY <1>3 DEF provenanceVars, IndexInv
  <1>4. ProvenanceStep \/ UNCHANGED provenanceVars
    BY DEF Next, MintStep, BurnStep, TreasuryStep, Send, RecordStep, vars
  <1> QED BY <1>0, <1>1, <1>2, <1>3, <1>4, RecordSteps

\* For any number of certificates and records, the index leads from each
\* certificate to its own record, and no number is given twice.
THEOREM RecordsIndexed == Spec => []RecordsAreIndexed
  <1>1. Init => IndexInv
    BY DEF Init, ProvenanceInit, IndexInv
  <1>2. TypeOK /\ IndexInv => RecordsAreIndexed
    <2> SUFFICES ASSUME TypeOK, IndexInv PROVE RecordsAreIndexed
      OBVIOUS
    <2>1. Cardinality(1 .. recordCount) = recordCount
      <3>1. recordCount \in Nat
        BY DEF TypeOK
      <3> QED BY <3>1, FS_Interval
    <2> QED BY <2>1 DEF IndexInv, RecordsAreIndexed
  <1> QED BY <1>1, <1>2, TypeCorrect, IndexStep, PTL DEF Spec

\* What RecordsOnlyGrow says of one record in one step.
OnlyGrows(id) ==
    /\ id \in DOMAIN records'
    /\ records'[id].cert = records[id].cert
    /\ IsPrefix(records[id].documents, records'[id].documents)
    /\ IsPrefix(records[id].custody, records'[id].custody)

LEMMA GrowStep ==
  ASSUME TypeOK, [Next]_vars, NEW id \in DOMAIN records
  PROVE  OnlyGrows(id)
  <1>0. ProvenanceTypeOK
    BY TypeParts
  <1>1. IsPrefix(records[id].documents, records[id].documents)
        /\ IsPrefix(records[id].custody, records[id].custody)
    <2>1. records[id].documents \in Seq(Documents) /\ records[id].custody \in Seq(Custody)
      BY <1>0 DEF ProvenanceTypeOK, Record
    <2> QED BY <2>1, Reflexive
  <1>2. CASE ProvenanceStep /\ Created
    <2>1. id # recordCount + 1
      BY <1>0 DEF ProvenanceTypeOK
    <2>2. id \in DOMAIN records' /\ records'[id] = records[id]
      BY <1>2, <2>1 DEF Created, With
    <2> QED BY <1>1, <2>2 DEF OnlyGrows
  <1>3. CASE ProvenanceStep /\ Grown
    BY <1>1, <1>3 DEF Grown, OnlyGrows
  <1>4. CASE UNCHANGED provenanceVars
    BY <1>1, <1>4 DEF provenanceVars, OnlyGrows
  <1>5. ProvenanceStep \/ UNCHANGED provenanceVars
    BY DEF Next, MintStep, BurnStep, TreasuryStep, Send, RecordStep, vars
  <1> QED BY <1>0, <1>2, <1>3, <1>4, <1>5, RecordSteps

\* No operation takes anything from a record: whatever a record said it keeps
\* saying, at the same number and in the same order.
THEOREM RecordsGrow == Spec => RecordsOnlyGrow
  <1>1. TypeOK /\ [Next]_vars =>
           [\A id \in DOMAIN records : OnlyGrows(id)]_provenanceVars
    BY GrowStep
  <1>2. (\A id \in DOMAIN records : OnlyGrows(id)) =>
        \A id \in DOMAIN records :
          /\ id \in DOMAIN records'
          /\ records'[id].cert = records[id].cert
          /\ IsPrefix(records[id].documents, records'[id].documents)
          /\ IsPrefix(records[id].custody, records'[id].custody)
    BY DEF OnlyGrows
  <1> QED BY <1>1, <1>2, TypeCorrect, PTL DEF Spec, RecordsOnlyGrow

-----------------------------------------------------------------------------
(* Tokens and the energy behind them.                                      *)

LEMMA BackingStep == TypeOK /\ MintWithinBacking /\ [Next]_vars => MintWithinBacking'
  <1> SUFFICES ASSUME TypeOK, MintWithinBacking, [Next]_vars PROVE MintWithinBacking'
    OBVIOUS
  <1>1. ASSUME NEW sender \in Addrs, NEW ext \in Certs, NEW mwh \in Quantities,
               NEW documented \in BOOLEAN, NEW dest \in Addrs,
               MintFromCertificate(sender, ext, mwh, documented, dest)
        PROVE  MintWithinBacking'
    <2>1. PICK tokens \in Nat : tokens = TokensFor(mwh)
             /\ tokens * DecScale <= mwh * TokensPerMwh
      BY <1>1, GuardsArePositive, TokensWithin
    <2>2. totalMinted' = totalMinted + tokens /\ totalBackedMwh' = totalBackedMwh + mwh
      BY <1>1, <2>1 DEF MintFromCertificate
    <2>3. /\ totalMinted \in Nat /\ totalBackedMwh \in Nat /\ mwh \in Nat
          /\ DecScale \in Nat /\ TokensPerMwh \in Nat
      BY <1>1, GuardsArePositive, EnergyMintAssumption DEF TypeOK
    <2>4. /\ (totalMinted + tokens) * DecScale = totalMinted * DecScale + tokens * DecScale
          /\ (totalBackedMwh + mwh) * TokensPerMwh =
                totalBackedMwh * TokensPerMwh + mwh * TokensPerMwh
      BY <2>3
    <2>5. PICK a \in Int, b \in Int, c \in Int, d \in Int :
             /\ a = totalMinted * DecScale /\ b = tokens * DecScale
             /\ c = totalBackedMwh * TokensPerMwh /\ d = mwh * TokensPerMwh
      BY <2>3
    <2>6. a <= c /\ b <= d
      BY <2>1, <2>5 DEF MintWithinBacking
    <2>7. a + b <= c + d
      BY <2>6
    <2> QED BY <2>2, <2>4, <2>5, <2>7 DEF MintWithinBacking
  <1>2. ASSUME NEW sender \in Addrs, NEW addr \in Candidates,
               AddMinter(sender, addr) \/ RemoveMinter(sender, addr)
        PROVE  MintWithinBacking'
    BY <1>2 DEF AddMinter, RemoveMinter, MintWithinBacking
  <1>3. CASE BurnStep \/ TreasuryStep \/ Send \/ RecordStep \/ UNCHANGED vars
    BY <1>3 DEF BurnStep, TreasuryStep, Send, RecordStep, vars, mintVars,
                MintWithinBacking
  <1> QED BY <1>1, <1>2, <1>3 DEF Next, MintStep

\* Whatever the quantities of the certificates and however each is truncated,
\* the tokens minted in all stay within what all of their energy backs.
THEOREM MintingIsBacked == Spec => []MintWithinBacking
  <1>1. Init => MintWithinBacking
    BY EnergyMintAssumption DEF Init, MintInit, MintWithinBacking
  <1> QED BY <1>1, TypeCorrect, BackingStep, PTL DEF Spec

-----------------------------------------------------------------------------
(* Commitments.                                                            *)

\* What CommitmentPaidOnce says of one commitment in one step.
PaidOnce(c) ==
    IF commitments[c].status = "funded"
    THEN \/ commitments'[c] = commitments[c]
         \/ balance'[Committed] = balance[Committed] - commitments[c].amount
         \/ commitments'[c].status = "delivered" /\ balance' = balance
    ELSE commitments'[c] = commitments[c]

LEMMA PaidOnceStep ==
  ASSUME TypeOK, [Next]_vars, NEW c \in DOMAIN commitments
  PROVE  PaidOnce(c)
  <1>0. /\ commitments \in Seq(Commitment) /\ balance \in [Addrs -> Nat]
        /\ c \in 1 .. Len(commitments)
        /\ Committed \in Addrs /\ Minting \in Addrs /\ Committed # Minting
    BY TreasuryAssumption DEF TypeOK
  <1>1. ASSUME NEW sender \in Addrs, NEW amount \in TransferAmounts,
               TransferMintingToCommitted(sender, amount)
        PROVE  PaidOnce(c)
    <2>1. [amount |-> amount, status |-> "funded"] \in Commitment
      BY <1>1, TreasuryAssumption DEF TransferMintingToCommitted, HasFunds, Commitment
    <2>2. commitments'[c] = commitments[c]
      BY <1>0, <1>1, <2>1 DEF TransferMintingToCommitted
    <2> QED BY <2>2 DEF PaidOnce
  <1>2. ASSUME NEW sender \in Addrs, NEW i \in DOMAIN commitments, NEW dest \in Addrs,
               DeliverCommitment(sender, i, dest)
        PROVE  PaidOnce(c)
    <2>1. CASE i # c
      BY <1>2, <2>1 DEF DeliverCommitment, PaidOnce
    <2>2. CASE i = c
      <3>1. commitments[c].status = "funded" /\ commitments[c].amount \in Nat
        BY <1>0, <1>2, <2>2, CommitmentType DEF DeliverCommitment
      <3>2. balance' = Sent(Committed, dest, commitments[c].amount)
        BY <1>2, <2>2 DEF DeliverCommitment
      <3>3. commitments'[c].status = "delivered"
        <4>1. commitments[c] \in Commitment
          BY <1>0
        <4>2. [commitments[c] EXCEPT !.status = "delivered"].status = "delivered"
          BY <4>1 DEF Commitment
        <4>3. commitments'[c] = [commitments[c] EXCEPT !.status = "delivered"]
          BY <1>0, <1>2, <2>2 DEF DeliverCommitment
        <4> QED BY <4>2, <4>3
      <3>4. CASE dest = Committed
        <4>1. balance' = balance
          BY <3>2, <3>4 DEF Sent
        <4> QED BY <3>1, <3>3, <4>1 DEF PaidOnce
      <3>5. CASE dest # Committed
        <4>1. balance'[Committed] = balance[Committed] - commitments[c].amount
          BY <1>0, <3>1, <3>2, <3>5, SentFrom
        <4> QED BY <3>1, <4>1 DEF PaidOnce
      <3> QED BY <3>4, <3>5
    <2> QED BY <2>1, <2>2
  <1>3. ASSUME NEW sender \in Addrs, NEW i \in DOMAIN commitments,
               CancelCommitment(sender, i)
        PROVE  PaidOnce(c)
    <2>1. CASE i # c
      BY <1>3, <2>1 DEF CancelCommitment, PaidOnce
    <2>2. CASE i = c
      <3>1. commitments[c].status = "funded" /\ commitments[c].amount \in Nat
        BY <1>0, <1>3, <2>2, CommitmentType DEF CancelCommitment, Cancellable
      <3>2. balance' = Sent(Committed, Minting, commitments[c].amount)
        BY <1>3, <2>2 DEF CancelCommitment
      <3>3. balance'[Committed] = balance[Committed] - commitments[c].amount
        BY <1>0, <3>1, <3>2, SentFrom
      <3> QED BY <3>1, <3>3 DEF PaidOnce
    <2> QED BY <2>1, <2>2
  <1>4. CASE \/ MintStep
             \/ BurnStep
             \/ \E sender \in Addrs, amount \in TransferAmounts :
                   TransferMintingToLiquidity(sender, amount)
             \/ Send
             \/ RecordStep
             \/ UNCHANGED vars
    <2>1. commitments' = commitments
      BY <1>4 DEF MintStep, BurnStep, TransferMintingToLiquidity, Send, RecordStep, vars
    <2> QED BY <2>1 DEF PaidOnce
  <1> QED BY <1>1, <1>2, <1>3, <1>4 DEF Next, TreasuryStep

\* No sequence of deliveries and cancellations pays a commitment twice: the
\* step that settles it moves its amount out of the committed wallet, and no
\* later step changes it.
THEOREM CommitmentsPaidOnce == Spec => CommitmentPaidOnce
  <1>1. TypeOK /\ [Next]_vars => \A c \in DOMAIN commitments : PaidOnce(c)
    BY PaidOnceStep
  <1>2. (\A c \in DOMAIN commitments : PaidOnce(c)) =>
        \A c \in DOMAIN commitments :
          IF commitments[c].status = "funded"
          THEN \/ commitments'[c] = commitments[c]
               \/ balance'[Committed] = balance[Committed] - commitments[c].amount
               \/ commitments'[c].status = "delivered" /\ balance' = balance
          ELSE commitments'[c] = commitments[c]
    BY DEF PaidOnce
  <1> QED BY <1>1, <1>2, TypeCorrect, PTL DEF Spec, CommitmentPaidOnce

-----------------------------------------------------------------------------
(* The statistics of burns.                                                *)

\* The burn events after one more: the old ones, and the new one at the end.
LEMMA OneBurnMore ==
  ASSUME TypeOK, NEW sender \in Addrs, NEW amount \in BurnAmounts,
         NEW source \in Sources, NEW revenue \in Int,
         BurnTokens(sender, amount, source, revenue)
  PROVE  \E n \in Nat :
           /\ n = Len(burnEvents) /\ Len(burnEvents') = n + 1
           /\ DOMAIN burnEvents = 1 .. n /\ DOMAIN burnEvents' = (1 .. n) \cup {n + 1}
           /\ IsFiniteSet(1 .. n) /\ n + 1 \notin 1 .. n
           /\ \A i \in 1 .. n : /\ burnEvents'[i] = burnEvents[i]
                                /\ burnEvents[i] \in BurnEvent
           /\ burnEvents'[n + 1] = [amount |-> amount, source |-> source,
                                    sender |-> sender, revenue |-> revenue]
           /\ amount \in Nat
  <1> DEFINE e == [amount |-> amount, source |-> source, sender |-> sender,
                   revenue |-> revenue]
  <1>1. burnEvents \in Seq(BurnEvent) /\ amount \in Nat
    BY BurnAssumption DEF TypeOK, BurnTokens, HasFunds
  <1>2. e \in BurnEvent
    BY <1>1 DEF BurnEvent
  <1>3. burnEvents' = Append(burnEvents, e)
    BY DEF BurnTokens
  <1> HIDE DEF e
  <1> DEFINE n == Len(burnEvents)
  <1>4. /\ n \in Nat /\ Len(burnEvents') = n + 1
        /\ DOMAIN burnEvents = 1 .. n /\ DOMAIN burnEvents' = 1 .. (n + 1)
        /\ \A i \in 1 .. n : burnEvents'[i] = burnEvents[i] /\ burnEvents[i] \in BurnEvent
        /\ burnEvents'[n + 1] = e
    BY <1>1, <1>2, <1>3
  <1> QED BY <1>1, <1>4, Indices DEF e

LEMMA BurnTotals ==
  ASSUME TypeOK, BurnStatsReconcile, NEW sender \in Addrs, NEW amount \in BurnAmounts,
         NEW source \in Sources, NEW revenue \in Int,
         BurnTokens(sender, amount, source, revenue)
  PROVE  BurnStatsReconcile'
  <1>1. PICK n \in Nat :
           /\ n = Len(burnEvents) /\ Len(burnEvents') = n + 1
           /\ DOMAIN burnEvents = 1 .. n /\ DOMAIN burnEvents' = (1 .. n) \cup {n + 1}
           /\ IsFiniteSet(1 .. n) /\ n + 1 \notin 1 .. n
           /\ \A i \in 1 .. n : /\ burnEvents'[i] = burnEvents[i]
                                /\ burnEvents[i] \in BurnEvent
           /\ burnEvents'[n + 1] = [amount |-> amount, source |-> source,
                                    sender |-> sender, revenue |-> revenue]
           /\ amount \in Nat
    BY OneBurnMore
  <1> DEFINE Revenue == [i \in DOMAIN burnEvents |-> burnEvents[i].revenue]
  <1>2. /\ DOMAIN Burned = 1 .. n /\ DOMAIN Burned' = (1 .. n) \cup {n + 1}
        /\ \A i \in 1 .. n : Burned[i] \in Int /\ Burned'[i] = Burned[i]
        /\ Burned'[n + 1] = amount
    BY <1>1 DEF Burned, BurnEvent
  <1>3. /\ DOMAIN Revenue = 1 .. n /\ DOMAIN Revenue' = (1 .. n) \cup {n + 1}
        /\ \A i \in 1 .. n : Revenue[i] \in Int /\ Revenue'[i] = Revenue[i]
        /\ Revenue'[n + 1] = revenue
    BY <1>1 DEF BurnEvent
  <1>4. burnStats' = UpdatedStats(amount, source, revenue) /\ burnStats \in BurnStats
    BY DEF BurnTokens, TypeOK
  <1> HIDE DEF Revenue
  <1>5. SumFunction(Burned') = SumFunction(Burned) + amount
    BY <1>1, <1>2, TotalGrow
  <1>6. SumFunction(Revenue') = SumFunction(Revenue) + revenue
    BY <1>1, <1>3, TotalGrow
  <1>7. ASSUME NEW s \in Sources
        PROVE  burnStats'.bySource[s] = SumFunctionOnSet(Burned', BurnsFrom(s)')
    <2>1. burnStats'.bySource = [burnStats.bySource EXCEPT ![source] = @ + amount]
      BY <1>4 DEF UpdatedStats
    <2>2. burnStats.bySource \in [Sources -> Nat]
      BY <1>4 DEF BurnStats
    <2>3. burnStats.bySource[s] = SumFunctionOnSet(Burned, BurnsFrom(s))
      BY DEF BurnStatsReconcile
    <2>4. BurnsFrom(s) \subseteq 1 .. n /\ IsFiniteSet(BurnsFrom(s))
      BY <1>1, FS_Subset DEF BurnsFrom
    <2>5. CASE s = source
      <3>1. BurnsFrom(s)' = BurnsFrom(s) \cup {n + 1}
        BY <1>1, <2>5 DEF BurnsFrom
      <3>2. SumFunctionOnSet(Burned', BurnsFrom(s) \cup {n + 1})
               = SumFunctionOnSet(Burned, BurnsFrom(s)) + amount
        BY <1>1, <1>2, <2>4, SumGrow
      <3>3. burnStats'.bySource[s] = burnStats.bySource[s] + amount
        BY <2>1, <2>2, <2>5
      <3> QED BY <2>3, <3>1, <3>2, <3>3
    <2>6. CASE s # source
      <3>1. BurnsFrom(s)' = BurnsFrom(s)
        BY <1>1, <2>6 DEF BurnsFrom
      <3>2. SumFunctionOnSet(Burned', BurnsFrom(s)) = SumFunctionOnSet(Burned, BurnsFrom(s))
        BY <1>2, <2>4, SumSame
      <3>3. burnStats'.bySource[s] = burnStats.bySource[s]
        BY <2>1, <2>2, <2>6
      <3> QED BY <2>3, <3>1, <3>2, <3>3
    <2> QED BY <2>5, <2>6
  <1>8. /\ burnStats'.events = Len(burnEvents')
        /\ burnStats'.total = SumFunction(Burned')
        /\ burnStats'.revenue = SumFunction(Revenue')
    BY <1>1, <1>4, <1>5, <1>6 DEF BurnStatsReconcile, UpdatedStats, Revenue
  <1> QED BY <1>7, <1>8 DEF BurnStatsReconcile, Revenue

LEMMA BurnTotalsStep == TypeOK /\ BurnStatsReconcile /\ [Next]_vars => BurnStatsReconcile'
  <1> SUFFICES ASSUME TypeOK, BurnStatsReconcile, [Next]_vars
               PROVE  BurnStatsReconcile'
    OBVIOUS
  <1>1. ASSUME NEW sender \in Addrs, NEW amount \in BurnAmounts, NEW source \in Sources,
               MsgBurnTokens(sender, amount, source)
        PROVE  BurnStatsReconcile'
    BY <1>1, BurnTotals DEF MsgBurnTokens
  <1>2. ASSUME NEW sender \in Addrs, NEW amount \in BurnAmounts, NEW revenue \in Revenues,
               MsgMerchantBurn(sender, amount, revenue)
        PROVE  BurnStatsReconcile'
    <2>1. revenue \in Int /\ "merchant_protocol" \in Sources
      BY BurnAssumption DEF Sources
    <2> QED BY <1>2, <2>1, BurnTotals DEF MsgMerchantBurn
  <1>3. ASSUME UNCHANGED <<burnEvents, burnStats>>
        PROVE  BurnStatsReconcile'
    <2>1. Burned' = Burned /\ \A s \in Sources : BurnsFrom(s)' = BurnsFrom(s)
      BY <1>3 DEF Burned, BurnsFrom
    <2> QED BY <1>3, <2>1 DEF BurnStatsReconcile
  <1>4. \/ \E sender \in Addrs, amount \in BurnAmounts, source \in Sources :
             MsgBurnTokens(sender, amount, source)
        \/ \E sender \in Addrs, amount \in BurnAmounts, revenue \in Revenues :
             MsgMerchantBurn(sender, amount, revenue)
        \/ UNCHANGED <<burnEvents, burnStats>>
    BY DEF Next, MintStep, BurnStep, TreasuryStep, Send, RecordStep, vars, burnVars,
           AddMerchant
  <1> QED BY <1>1, <1>2, <1>3, <1>4

\* Over any mixture of the two burn messages, the statistics the burn keeper
\* updates are what its stored events add up to, in total and per source.
THEOREM BurnStatsAreTotals == Spec => []BurnStatsReconcile
  <1>1. Init => BurnStatsReconcile
    <2> SUFFICES ASSUME Init PROVE BurnStatsReconcile
      OBVIOUS
    <2>1. /\ burnEvents = <<>> /\ burnStats.total = 0 /\ burnStats.events = 0
          /\ burnStats.revenue = 0 /\ \A s \in Sources : burnStats.bySource[s] = 0
      BY DEF Init, BurnInit
    <2>2. DOMAIN burnEvents = {} /\ Len(burnEvents) = 0
      BY <2>1
    <2>3. DOMAIN Burned = {} /\ \A s \in Sources : BurnsFrom(s) = {}
      BY <2>2 DEF Burned, BurnsFrom
    <2> QED BY <2>1, <2>2, <2>3, SumEmpty DEF BurnStatsReconcile, SumFunction
  <1> QED BY <1>1, TypeCorrect, BurnTotalsStep, PTL DEF Spec

-----------------------------------------------------------------------------
(* The supply.                                                             *)

\* One account changes, and the supply by as much.
LEMMA OneAccountSupply ==
  ASSUME balance \in [Addrs -> Nat], NEW a \in Addrs, NEW v \in Nat,
         balance' = [balance EXCEPT ![a] = v]
  PROVE  Supply' = Supply - balance[a] + v
  <1>1. /\ \A y \in Addrs : balance[y] \in Int /\ balance'[y] \in Int
        /\ \A y \in Addrs : y # a => balance'[y] = balance[y]
        /\ balance'[a] = v
    OBVIOUS
  <1>2. \A f, g : (/\ \A y \in Addrs : f[y] \in Int /\ g[y] \in Int
                   /\ \A y \in Addrs : y # a => g[y] = f[y])
           => SumFunctionOnSet(g, Addrs) = SumFunctionOnSet(f, Addrs) - f[a] + g[a]
    BY BankAssumption, SumChange
  <1> QED BY <1>1, <1>2 DEF Supply

LEMMA SupplyType == ASSUME balance \in [Addrs -> Nat] PROVE Supply \in Nat
  <1>1. \A a \in Addrs : balance[a] \in Nat
    OBVIOUS
  <1> QED BY <1>1, BankAssumption, SumNat DEF Supply

\* A transfer leaves all accounts together what they were.
LEMMA SentSupply ==
  ASSUME balance \in [Addrs -> Nat], NEW from \in Addrs, NEW to \in Addrs,
         NEW amount \in Nat, balance' = Sent(from, to, amount)
  PROVE  Supply' = Supply
  <1>1. CASE from = to
    BY <1>1 DEF Sent, Supply
  <1>2. CASE from # to
    <2> DEFINE mid == [balance EXCEPT ![from] = @ - amount]
    <2>1. /\ \A y \in Addrs : balance[y] \in Int /\ mid[y] \in Int
          /\ \A y \in Addrs : y # from => mid[y] = balance[y]
          /\ mid[from] = balance[from] - amount
      OBVIOUS
    <2>2. balance' = [mid EXCEPT ![to] = @ + amount]
      BY <1>2 DEF Sent
    <2>3. /\ \A y \in Addrs : balance'[y] \in Int
          /\ \A y \in Addrs : y # to => balance'[y] = mid[y]
          /\ balance'[to] = mid[to] + amount
      BY <2>1, <2>2
    <2> HIDE DEF mid
    <2>4. SumFunctionOnSet(mid, Addrs)
             = SumFunctionOnSet(balance, Addrs) - balance[from] + mid[from]
      BY <2>1, BankAssumption, SumChange
    <2>5. SumFunctionOnSet(balance', Addrs)
             = SumFunctionOnSet(mid, Addrs) - mid[to] + balance'[to]
      BY <2>1, <2>3, BankAssumption, SumChange
    <2>6. SumFunctionOnSet(balance, Addrs) \in Int
      BY <2>1, BankAssumption, SumInt
    <2>7. balance[from] \in Int /\ mid[to] \in Int
      BY <2>1
    <2> QED BY <2>1, <2>3, <2>4, <2>5, <2>6, <2>7 DEF Supply
  <1> QED BY <1>1, <1>2

\* Nothing but a mint and a burn changes the supply.
LEMMA TransfersKeepSupply ==
  ASSUME TypeOK, TreasuryStep \/ Send
  PROVE  Supply' = Supply
  <1>0. /\ balance \in [Addrs -> Nat] /\ commitments \in Seq(Commitment)
        /\ Minting \in Addrs /\ Committed \in Addrs /\ Liquidity \in Addrs
        /\ TransferAmounts \subseteq Int
    BY TreasuryAssumption DEF TypeOK
  <1>1. ASSUME NEW sender \in Addrs, NEW amount \in TransferAmounts,
               \/ TransferMintingToCommitted(sender, amount)
               \/ TransferMintingToLiquidity(sender, amount)
        PROVE  Supply' = Supply
    <2>1. balance' = Sent(Minting, Committed, amount)
             \/ balance' = Sent(Minting, Liquidity, amount)
      BY <1>1 DEF TransferMintingToCommitted, TransferMintingToLiquidity
    <2>2. amount \in Nat
      BY <1>0, <1>1 DEF TransferMintingToCommitted, TransferMintingToLiquidity, HasFunds
    <2> QED BY <1>0, <2>1, <2>2, SentSupply
  <1>2. ASSUME NEW sender \in Addrs, NEW c \in DOMAIN commitments,
               \/ \E dest \in Addrs : DeliverCommitment(sender, c, dest)
               \/ CancelCommitment(sender, c)
        PROVE  Supply' = Supply
    <2>1. commitments[c].amount \in Nat
      BY <1>0, CommitmentType
    <2>2. \E dest \in Addrs : balance' = Sent(Committed, dest, commitments[c].amount)
      BY <1>0, <1>2 DEF DeliverCommitment, CancelCommitment
    <2> QED BY <1>0, <2>1, <2>2, SentSupply
  <1>3. ASSUME Send PROVE Supply' = Supply
    <2>1. PICK from \in Addrs, to \in Addrs, amount \in TransferAmounts :
             balance' = Sent(from, to, amount) /\ HasFunds(from, amount)
      BY <1>3 DEF Send
    <2>2. amount \in Nat
      BY <1>0, <2>1 DEF HasFunds
    <2> QED BY <1>0, <2>1, <2>2, SentSupply
  <1> QED BY <1>1, <1>2, <1>3 DEF TreasuryStep

\* What the proof of SupplyIsBacked carries along: only finitely many
\* certificates are ever stored.
SupplyInv == IsFiniteSet(DOMAIN certificates) /\ SupplyIsBacked

\* A mint adds the tokens of one new certificate to the supply and the totals.
LEMMA MintSupply ==
  ASSUME TypeOK, SupplyInv, NEW sender \in Addrs, NEW ext \in Certs,
         NEW mwh \in Quantities, NEW documented \in BOOLEAN, NEW dest \in Addrs,
         MintFromCertificate(sender, ext, mwh, documented, dest),
         UNCHANGED burnVars
  PROVE  /\ SupplyInv'
         /\ ext \notin DOMAIN certificates
         /\ DOMAIN certificates' = DOMAIN certificates \cup {ext}
         /\ Supply' - Supply = totalMinted' - totalMinted
  <1> DEFINE tokens == TokensFor(mwh)
             D == DOMAIN certificates
             Tokens == [e \in DOMAIN certificates |-> certificates[e].tokens]
             Energy == [e \in DOMAIN certificates |-> certificates[e].mwh]
  <1>1. mwh \in Nat /\ tokens \in Nat
    BY GuardsArePositive, TokensWithin
  <1>2. /\ ext \notin D
        /\ balance' = [balance EXCEPT ![dest] = @ + tokens]
        /\ certificates' = [e \in D \cup {ext} |->
              IF e = ext THEN [mwh |-> mwh, tokens |-> tokens, owner |-> sender]
              ELSE certificates[e]]
        /\ totalMinted' = totalMinted + tokens
        /\ totalBackedMwh' = totalBackedMwh + mwh
    BY DEF MintFromCertificate, HasCertificate
  <1>3. /\ balance \in [Addrs -> Nat] /\ totalMinted \in Nat /\ totalBackedMwh \in Nat
        /\ burnStats.total \in Nat /\ burnStats' = burnStats
        /\ \A e \in D : certificates[e].tokens \in Nat /\ certificates[e].mwh \in Nat
    BY DEF TypeOK, BurnStats, burnVars
  <1>4. /\ DOMAIN Tokens = D /\ DOMAIN Tokens' = D \cup {ext}
        /\ \A e \in D : Tokens[e] \in Int /\ Tokens'[e] = Tokens[e]
        /\ Tokens'[ext] = tokens
    BY <1>2, <1>3
  <1>5. /\ DOMAIN Energy = D /\ DOMAIN Energy' = D \cup {ext}
        /\ \A e \in D : Energy[e] \in Int /\ Energy'[e] = Energy[e]
        /\ Energy'[ext] = mwh
    BY <1>2, <1>3
  <1>6. DOMAIN certificates' = D \cup {ext}
    BY <1>2
  <1> HIDE DEF tokens, D, Tokens, Energy
  <1>7. IsFiniteSet(D) /\ IsFiniteSet(D \cup {ext})
    BY FS_AddElement DEF D, SupplyInv
  <1>8. SumFunction(Tokens') = SumFunction(Tokens) + tokens
    BY <1>1, <1>2, <1>4, <1>7, TotalGrow
  <1>9. SumFunction(Energy') = SumFunction(Energy) + mwh
    BY <1>1, <1>2, <1>5, <1>7, TotalGrow
  <1>10. Supply' = Supply + tokens
    <2>1. balance[dest] \in Nat /\ balance[dest] + tokens \in Nat
      BY <1>1, <1>3
    <2>2. Supply' = Supply - balance[dest] + (balance[dest] + tokens)
      BY <1>2, <1>3, <2>1, OneAccountSupply
    <2>3. Supply \in Nat
      BY <1>3, SupplyType
    <2> QED BY <1>1, <2>1, <2>2, <2>3
  <1>11. /\ Supply = totalMinted - burnStats.total
         /\ totalMinted = SumFunction(Tokens) /\ totalBackedMwh = SumFunction(Energy)
    BY DEF SupplyInv, SupplyIsBacked, Tokens, Energy
  <1>12. Supply' = totalMinted' - burnStats'.total
    BY <1>1, <1>2, <1>3, <1>10, <1>11
  <1>13. totalMinted' = SumFunction(Tokens') /\ totalBackedMwh' = SumFunction(Energy')
    BY <1>2, <1>8, <1>9, <1>11
  <1>14. SupplyIsBacked'
    BY <1>12, <1>13 DEF SupplyIsBacked, Tokens, Energy
  <1>15. SupplyInv'
    BY <1>6, <1>7, <1>14 DEF SupplyInv
  <1>16. Supply' - Supply = totalMinted' - totalMinted
    BY <1>1, <1>2, <1>3, <1>10, SupplyType
  <1> QED BY <1>2, <1>6, <1>15, <1>16 DEF D

\* A burn takes its amount, which the sender has, out of the supply.
LEMMA BurnSupply ==
  ASSUME TypeOK, NEW sender \in Addrs, NEW amount \in BurnAmounts,
         NEW source \in Sources, NEW revenue \in Int,
         BurnTokens(sender, amount, source, revenue)
  PROVE  /\ Supply' = Supply - amount
         /\ burnStats'.total = burnStats.total + amount
         /\ amount \in Nat /\ Supply' \in Nat
  <1>1. /\ amount \in Nat /\ balance \in [Addrs -> Nat] /\ amount <= balance[sender]
        /\ balance' = [balance EXCEPT ![sender] = @ - amount]
    BY BurnAssumption DEF BurnTokens, HasFunds, TypeOK
  <1>2. balance[sender] \in Nat /\ balance[sender] - amount \in Nat
    BY <1>1
  <1>3. Supply' = Supply - balance[sender] + (balance[sender] - amount)
    BY <1>1, <1>2, OneAccountSupply
  <1>4. balance' \in [Addrs -> Nat]
    BY <1>1, <1>2
  <1>5. Supply' \in Nat
    <2>1. \A a \in Addrs : balance'[a] \in Nat
      BY <1>4
    <2> QED BY <2>1, BankAssumption, SumNat DEF Supply
  <1>6. burnStats'.total = burnStats.total + amount
    BY DEF BurnTokens, UpdatedStats
  <1> QED BY <1>1, <1>2, <1>3, <1>5, <1>6, SupplyType

\* Every step of the chain, as the supply sees it.
SupplyMints ==
    /\ \E ext \in Certs : /\ ext \notin DOMAIN certificates
                          /\ DOMAIN certificates' = DOMAIN certificates \cup {ext}
    /\ Supply' - Supply = totalMinted' - totalMinted
    /\ burnStats' = burnStats

SupplyBurns ==
    /\ \E amount \in BurnAmounts : /\ amount \in Nat
                                   /\ Supply' = Supply - amount
                                   /\ burnStats'.total = burnStats.total + amount
    /\ Supply' \in Nat
    /\ UNCHANGED <<certificates, totalMinted, totalBackedMwh>>

SupplyStutters ==
    /\ Supply' = Supply
    /\ UNCHANGED <<certificates, totalMinted, totalBackedMwh, burnStats>>

LEMMA SupplySteps ==
  ASSUME TypeOK, SupplyInv, [Next]_vars
  PROVE  SupplyInv' /\ (SupplyMints \/ SupplyBurns \/ SupplyStutters)
  <1>0. /\ Supply \in Nat /\ burnStats.total \in Nat /\ totalMinted \in Nat
    BY SupplyType DEF TypeOK, BurnStats
  <1>1. ASSUME NEW sender \in Addrs, NEW ext \in Certs, NEW mwh \in Quantities,
               NEW documented \in BOOLEAN, NEW dest \in Addrs,
               MintFromCertificate(sender, ext, mwh, documented, dest),
               UNCHANGED burnVars
        PROVE  SupplyInv' /\ SupplyMints
    <2>1. /\ SupplyInv' /\ ext \notin DOMAIN certificates
          /\ DOMAIN certificates' = DOMAIN certificates \cup {ext}
          /\ Supply' - Supply = totalMinted' - totalMinted
      BY <1>1, MintSupply
    <2> QED BY <1>1, <2>1 DEF SupplyMints, burnVars
  <1>2. ASSUME NEW sender \in Addrs, NEW amount \in BurnAmounts, NEW source \in Sources,
               NEW revenue \in Int, BurnTokens(sender, amount, source, revenue),
               UNCHANGED mintVars
        PROVE  SupplyInv' /\ SupplyBurns
    <2>1. /\ Supply' = Supply - amount
          /\ burnStats'.total = burnStats.total + amount
          /\ amount \in Nat /\ Supply' \in Nat
      BY <1>2, BurnSupply
    <2>2. UNCHANGED <<certificates, totalMinted, totalBackedMwh>>
      BY <1>2 DEF mintVars
    <2>3. Supply' = totalMinted' - burnStats'.total
      BY <1>0, <2>1, <2>2 DEF SupplyInv, SupplyIsBacked
    <2>4. SupplyInv'
      BY <2>2, <2>3 DEF SupplyInv, SupplyIsBacked
    <2> QED BY <1>2, <2>1, <2>2, <2>4 DEF SupplyBurns
  <1>3. ASSUME Supply' = Supply,
               UNCHANGED <<certificates, totalMinted, totalBackedMwh, burnStats>>
        PROVE  SupplyInv' /\ SupplyStutters
    BY <1>3 DEF SupplyInv, SupplyIsBacked, SupplyStutters
  <1>4. CASE MintStep
    <2>1. CASE \E sender \in Addrs, addr \in Candidates :
                  AddMinter(sender, addr) \/ RemoveMinter(sender, addr)
      <3>1. UNCHANGED <<balance, certificates, totalMinted, totalBackedMwh, burnStats>>
        BY <1>4, <2>1 DEF MintStep, AddMinter, RemoveMinter, burnVars
      <3>2. Supply' = Supply
        BY <3>1 DEF Supply
      <3> QED BY <1>3, <3>1, <3>2
    <2> QED BY <1>1, <1>4, <2>1 DEF MintStep
  <1>5. CASE BurnStep
    <2>1. CASE \E sender \in Addrs, addr \in Candidates : AddMerchant(sender, addr)
      <3>1. UNCHANGED <<balance, certificates, totalMinted, totalBackedMwh, burnStats>>
        BY <1>5, <2>1 DEF BurnStep, AddMerchant, mintVars
      <3>2. Supply' = Supply
        BY <3>1 DEF Supply
      <3> QED BY <1>3, <3>1, <3>2
    <2>2. \A revenue \in Revenues : revenue \in Int
      BY BurnAssumption
    <2>3. 0 \in Nat /\ "merchant_protocol" \in Sources
      BY DEF Sources
    <2> QED BY <1>2, <1>5, <2>1, <2>2, <2>3 DEF BurnStep, MsgBurnTokens, MsgMerchantBurn
  <1>6. CASE TreasuryStep \/ Send
    <2>1. UNCHANGED <<certificates, totalMinted, totalBackedMwh, burnStats>>
      BY <1>6 DEF TreasuryStep, Send, mintVars, burnVars
    <2> QED BY <1>3, <1>6, <2>1, TransfersKeepSupply
  <1>7. CASE RecordStep \/ UNCHANGED vars
    <2>1. UNCHANGED <<balance, certificates, totalMinted, totalBackedMwh, burnStats>>
      BY <1>7 DEF RecordStep, vars, mintVars, burnVars
    <2>2. Supply' = Supply
      BY <2>1 DEF Supply
    <2> QED BY <1>3, <2>1, <2>2
  <1> QED BY <1>4, <1>5, <1>6, <1>7 DEF Next

LEMMA SupplyInit ==
  ASSUME Init
  PROVE  SupplyInv /\ Supply = 0
  <1>1. /\ certificates = <<>> /\ totalMinted = 0 /\ totalBackedMwh = 0
        /\ burnStats.total = 0 /\ \A a \in Addrs : balance[a] = 0
    BY DEF Init, MintInit, BurnInit
  <1>2. DOMAIN certificates = {} /\ IsFiniteSet(DOMAIN certificates)
    <2>1. DOMAIN certificates = {}
      BY <1>1
    <2> QED BY <2>1, FS_EmptySet
  <1>3. Supply = 0
    BY <1>1, BankAssumption, SumZero DEF Supply
  <1>4. /\ SumFunction([e \in DOMAIN certificates |-> certificates[e].tokens]) = 0
        /\ SumFunction([e \in DOMAIN certificates |-> certificates[e].mwh]) = 0
    BY <1>2, SumEmpty DEF SumFunction
  <1> QED BY <1>1, <1>2, <1>3, <1>4 DEF SupplyInv, SupplyIsBacked

LEMMA SupplyInvariant == Spec => []SupplyInv
  <1>1. TypeOK /\ SupplyInv /\ [Next]_vars => SupplyInv'
    BY SupplySteps
  <1> QED BY <1>1, SupplyInit, TypeCorrect, PTL DEF Spec

\* No token exists without energy behind it: what all accounts hold is what was
\* minted and not burned, and the totals of the energymint keeper are what its
\* stored certificates add up to.
THEOREM SupplyBacked == Spec => []SupplyIsBacked
  <1>1. SupplyInv => SupplyIsBacked
    BY DEF SupplyInv
  <1> QED BY <1>1, SupplyInvariant, PTL

\* The three keepers over the bank implement the token supply: a mint happens
\* once per certificate, a burn takes at most what there is, and every other
\* message leaves the supply alone.
THEOREM KeepersAreTokenSupply == Spec => ImplementsSupply
  <1>1. Init => Token!Init
    BY SupplyInit DEF Init, Token!Init, MintInit, BurnInit
  <1>2. TypeOK /\ SupplyInv /\ [Next]_vars => [Token!Next]_(Token!supplyVars)
    <2> SUFFICES ASSUME TypeOK, SupplyInv, [Next]_vars
                 PROVE  Token!Next \/ UNCHANGED Token!supplyVars
      OBVIOUS
    <2>0. Supply \in Nat /\ burnStats.total \in Nat
      BY SupplyType DEF TypeOK, BurnStats
    <2>1. CASE SupplyMints
      <3>1. Token!Mint
        BY <2>1 DEF SupplyMints, Token!Mint, Token!Agree
      <3> QED BY <3>1 DEF Token!Next
    <2>2. CASE SupplyBurns
      <3>1. PICK amount \in BurnAmounts :
               /\ amount \in Nat /\ Supply' = Supply - amount
               /\ burnStats'.total = burnStats.total + amount
        BY <2>2 DEF SupplyBurns
      <3>2. amount <= Supply /\ amount \in {a \in BurnAmounts : a >= 0}
        BY <2>0, <2>2, <3>1 DEF SupplyBurns
      <3>3. Token!Burn
        BY <2>2, <3>1, <3>2 DEF SupplyBurns, Token!Burn, Token!Agree
      <3> QED BY <3>3 DEF Token!Next
    <2>3. CASE SupplyStutters
      BY <2>3 DEF SupplyStutters, Token!supplyVars
    <2> QED BY <2>1, <2>2, <2>3, SupplySteps
  <1> QED BY <1>1, <1>2, TypeCorrect, SupplyInvariant, PTL
          DEF Spec, ImplementsSupply, Token!Spec

-----------------------------------------------------------------------------
(* The committed wallet.                                                   *)

\* What CommittedCovers relates: the amounts of the funded commitments and
\* what the committed wallet burned itself.
Owed  == SumFunctionOnSet(Promised, Funded)
Burnt == SumFunctionOnSet(Burned, BurnsBy(Committed))

LEMMA OwedType ==
  ASSUME TypeOK
  PROVE  /\ Owed \in Nat /\ Burnt \in Nat /\ balance[Committed] \in Nat
         /\ IsFiniteSet(Funded) /\ IsFiniteSet(BurnsBy(Committed))
         /\ \A c \in DOMAIN commitments : Promised[c] \in Nat
         /\ \A i \in DOMAIN burnEvents : Burned[i] \in Nat
  <1>1. /\ commitments \in Seq(Commitment) /\ burnEvents \in Seq(BurnEvent)
        /\ balance \in [Addrs -> Nat] /\ Committed \in Addrs
    BY TreasuryAssumption DEF TypeOK
  <1>2. IsFiniteSet(DOMAIN commitments) /\ IsFiniteSet(DOMAIN burnEvents)
    <2>1. \A n \in Nat : IsFiniteSet(1 .. n)
      BY FS_Interval
    <2> QED BY <1>1, <2>1
  <1>3. IsFiniteSet(Funded) /\ IsFiniteSet(BurnsBy(Committed))
    BY <1>2, FS_Subset DEF Funded, BurnsBy
  <1>4. \A c \in DOMAIN commitments : Promised[c] \in Nat
    <2>1. \A c \in DOMAIN commitments : commitments[c] \in Commitment
      BY <1>1
    <2> QED BY <2>1 DEF Promised, Commitment
  <1>5. \A i \in DOMAIN burnEvents : Burned[i] \in Nat
    <2>1. \A i \in DOMAIN burnEvents : burnEvents[i] \in BurnEvent
      BY <1>1
    <2> QED BY <2>1 DEF Burned, BurnEvent
  <1>6. Owed \in Nat
    BY <1>3, <1>4, SumNat DEF Owed, Funded
  <1>7. Burnt \in Nat
    BY <1>3, <1>5, SumNat DEF Burnt, BurnsBy
  <1> QED BY <1>1, <1>3, <1>4, <1>5, <1>6, <1>7

\* A transfer out of another account never takes from the committed wallet.
LEMMA SentElsewhere ==
  ASSUME balance \in [Addrs -> Nat], NEW from \in Addrs, NEW to \in Addrs,
         NEW amount \in Nat, from # Committed, Committed \in Addrs
  PROVE  Sent(from, to, amount)[Committed]
            = balance[Committed] + (IF to = Committed THEN amount ELSE 0)
  BY DEF Sent

\* A new commitment is owed from then on.
LEMMA PromiseOwed ==
  ASSUME TypeOK, NEW sender \in Addrs, NEW amount \in TransferAmounts,
         TransferMintingToCommitted(sender, amount)
  PROVE  Owed' = Owed + amount
  <1> DEFINE n == Len(commitments)
             c == [amount |-> amount, status |-> "funded"]
  <1>1. commitments \in Seq(Commitment) /\ amount \in Nat
    BY TreasuryAssumption DEF TypeOK, TransferMintingToCommitted, HasFunds
  <1>2. c \in Commitment
    BY <1>1 DEF Commitment
  <1>3. commitments' = Append(commitments, c)
    BY DEF TransferMintingToCommitted
  <1> HIDE DEF c
  <1>4. /\ n \in Nat /\ DOMAIN commitments = 1 .. n
        /\ DOMAIN commitments' = 1 .. (n + 1)
        /\ \A i \in 1 .. n : commitments'[i] = commitments[i]
        /\ commitments'[n + 1] = c
    BY <1>1, <1>2, <1>3
  <1> HIDE DEF n
  <1>5. 1 .. (n + 1) = (1 .. n) \cup {n + 1} /\ n + 1 \notin 1 .. n
    BY <1>4
  <1>6. Funded' = Funded \cup {n + 1} /\ n + 1 \notin Funded
    BY <1>4, <1>5 DEF Funded, c
  <1>7. /\ Promised'[n + 1] = amount
        /\ \A i \in Funded : Promised[i] \in Int /\ Promised'[i] = Promised[i]
    BY <1>4, <1>5, OwedType DEF Funded, Promised, c
  <1>8. SumFunctionOnSet(Promised', Funded \cup {n + 1})
           = SumFunctionOnSet(Promised, Funded) + amount
    BY <1>1, <1>6, <1>7, OwedType, SumGrow
  <1> QED BY <1>6, <1>8 DEF Owed

\* A commitment that leaves "funded" is owed no longer.
LEMMA SettledOwed ==
  ASSUME TypeOK, NEW c \in DOMAIN commitments, NEW st \in {"delivered", "cancelled"},
         commitments[c].status = "funded",
         commitments' = [commitments EXCEPT ![c].status = st]
  PROVE  Owed' = Owed - commitments[c].amount
  <1>1. commitments \in Seq(Commitment)
    BY DEF TypeOK
  <1>2. DOMAIN commitments' = DOMAIN commitments
    OBVIOUS
  <1>3. \A i \in DOMAIN commitments :
           i # c => commitments'[i] = commitments[i]
    OBVIOUS
  <1>4. commitments[c] \in Commitment /\ commitments'[c] = [commitments[c] EXCEPT !.status = st]
    BY <1>1
  <1>5. commitments'[c].status = st /\ commitments'[c].amount = commitments[c].amount
    BY <1>4 DEF Commitment
  <1>6. Promised' = Promised
    BY <1>2, <1>3, <1>5 DEF Promised
  <1>7. Funded' = Funded \ {c} /\ c \in Funded
    BY <1>2, <1>3, <1>5 DEF Funded
  <1>8. Promised[c] = commitments[c].amount
    BY DEF Promised
  <1>9. \A y \in Funded : Promised[y] \in Int
    BY OwedType DEF Funded
  <1>10. IsFiniteSet(Funded)
    BY OwedType
  <1>11. SumFunctionOnSet(Promised, Funded \ {c})
            = SumFunctionOnSet(Promised, Funded) - Promised[c]
    <2>1. SumFunctionOnSet(Promised, Funded)
             = Promised[c] + SumFunctionOnSet(Promised, Funded \ {c})
      BY <1>7, <1>9, <1>10, SumRemove
    <2>2. SumFunctionOnSet(Promised, Funded \ {c}) \in Int
      BY <1>9, <1>10, FS_Subset, SumInt
    <2> QED BY <1>7, <1>9, <2>1, <2>2
  <1> QED BY <1>6, <1>7, <1>8, <1>11 DEF Owed

\* Of a burn, the committed wallet's loss is counted against it.
LEMMA BurnCovered ==
  ASSUME TypeOK, NEW sender \in Addrs, NEW amount \in BurnAmounts,
         NEW source \in Sources, NEW revenue \in Int,
         BurnTokens(sender, amount, source, revenue)
  PROVE  balance'[Committed] + Burnt' = balance[Committed] + Burnt
  <1>1. PICK n \in Nat :
           /\ n = Len(burnEvents) /\ Len(burnEvents') = n + 1
           /\ DOMAIN burnEvents = 1 .. n /\ DOMAIN burnEvents' = (1 .. n) \cup {n + 1}
           /\ IsFiniteSet(1 .. n) /\ n + 1 \notin 1 .. n
           /\ \A i \in 1 .. n : /\ burnEvents'[i] = burnEvents[i]
                                /\ burnEvents[i] \in BurnEvent
           /\ burnEvents'[n + 1] = [amount |-> amount, source |-> source,
                                    sender |-> sender, revenue |-> revenue]
           /\ amount \in Nat
    BY OneBurnMore
  <1> DEFINE B == BurnsBy(Committed)
  <1>2. /\ Burned'[n + 1] = amount
        /\ \A i \in 1 .. n : Burned'[i] = Burned[i] /\ Burned[i] \in Int
    BY <1>1, OwedType DEF Burned
  <1>3. B \subseteq 1 .. n /\ IsFiniteSet(B)
    BY <1>1, OwedType DEF BurnsBy
  <1>4. balance \in [Addrs -> Nat] /\ balance' = [balance EXCEPT ![sender] = @ - amount]
        /\ Committed \in Addrs
    BY TreasuryAssumption DEF BurnTokens, TypeOK
  <1>5. CASE sender = Committed
    <2>1. B' = B \cup {n + 1}
      BY <1>1, <1>5 DEF BurnsBy
    <2> HIDE DEF B
    <2>2. SumFunctionOnSet(Burned', B \cup {n + 1}) = SumFunctionOnSet(Burned, B) + amount
      <3>1. n + 1 \notin B /\ amount \in Int
        BY <1>1, <1>3
      <3>2. \A y \in B : Burned[y] \in Int /\ Burned'[y] = Burned[y]
        BY <1>2, <1>3
      <3>3. Burned'[n + 1] \in Int /\ IsFiniteSet(B)
        BY <1>2, <1>3, <3>1
      <3>4. SumFunctionOnSet(Burned', B \cup {n + 1})
               = SumFunctionOnSet(Burned, B) + Burned'[n + 1]
        BY <3>1, <3>2, <3>3, SumGrow
      <3> QED BY <1>2, <3>4
    <2>3. Burnt' = Burnt + amount
      BY <2>1, <2>2 DEF Burnt, B
    <2>4. balance'[Committed] = balance[Committed] - amount
      BY <1>4, <1>5
    <2> QED BY <1>1, <2>3, <2>4, OwedType
  <1>6. CASE sender # Committed
    <2>1. B' = B
      BY <1>1, <1>6 DEF BurnsBy
    <2> HIDE DEF B
    <2>2. SumFunctionOnSet(Burned', B) = SumFunctionOnSet(Burned, B)
      BY <1>2, <1>3, SumSame
    <2>3. Burnt' = Burnt
      BY <2>1, <2>2 DEF Burnt, B
    <2>4. balance'[Committed] = balance[Committed]
      BY <1>4, <1>6
    <2> QED BY <2>3, <2>4
  <1> QED BY <1>5, <1>6

LEMMA CoverStep == TypeOK /\ CommittedCovers /\ [Next]_vars => CommittedCovers'
  <1> SUFFICES ASSUME TypeOK, CommittedCovers, [Next]_vars PROVE CommittedCovers'
    OBVIOUS
  <1>a. CommittedCovers <=> balance[Committed] + Burnt >= Owed
    BY DEF CommittedCovers, Burnt, Owed
  <1>b. CommittedCovers' <=> balance'[Committed] + Burnt' >= Owed'
    BY DEF CommittedCovers, Burnt, Owed
  <1>c. Owed \in Nat /\ Burnt \in Nat /\ balance[Committed] \in Nat
    BY OwedType
  <1>d. /\ balance \in [Addrs -> Nat] /\ commitments \in Seq(Commitment)
        /\ Committed \in Addrs /\ Minting \in Addrs /\ Liquidity \in Addrs
        /\ Committed # Minting /\ Committed # Liquidity /\ TransferAmounts \subseteq Int
    BY TreasuryAssumption DEF TypeOK
  <1>e. commitments' = commitments => Owed' = Owed
    BY DEF Owed, Promised, Funded
  <1>f. burnEvents' = burnEvents => Burnt' = Burnt
    BY DEF Burnt, Burned, BurnsBy
  <1>1. CASE MintStep
    <2>1. commitments' = commitments /\ burnEvents' = burnEvents
      BY <1>1 DEF MintStep, burnVars
    <2>2. balance'[Committed] \in Nat /\ balance'[Committed] >= balance[Committed]
      <3>1. ASSUME NEW sender \in Addrs, NEW ext \in Certs, NEW mwh \in Quantities,
                   NEW documented \in BOOLEAN, NEW dest \in Addrs,
                   MintFromCertificate(sender, ext, mwh, documented, dest)
            PROVE  balance'[Committed] \in Nat /\ balance'[Committed] >= balance[Committed]
        <4>1. TokensFor(mwh) \in Nat
          BY <3>1, GuardsArePositive, TokensWithin
        <4>2. balance' = [balance EXCEPT ![dest] = @ + TokensFor(mwh)]
          BY <3>1 DEF MintFromCertificate
        <4> QED BY <1>d, <4>1, <4>2
      <3>2. ASSUME NEW sender \in Addrs, NEW addr \in Candidates,
                   AddMinter(sender, addr) \/ RemoveMinter(sender, addr)
            PROVE  balance'[Committed] \in Nat /\ balance'[Committed] >= balance[Committed]
        BY <1>c, <3>2 DEF AddMinter, RemoveMinter
      <3> QED BY <1>1, <3>1, <3>2 DEF MintStep
    <2> QED BY <1>a, <1>b, <1>c, <1>e, <1>f, <2>1, <2>2
  <1>2. CASE BurnStep
    <2>1. commitments' = commitments
      BY <1>2 DEF BurnStep
    <2>2. balance'[Committed] + Burnt' = balance[Committed] + Burnt
      <3>1. ASSUME NEW sender \in Addrs, NEW amount \in BurnAmounts, NEW source \in Sources,
                   MsgBurnTokens(sender, amount, source)
            PROVE  balance'[Committed] + Burnt' = balance[Committed] + Burnt
        BY <3>1, BurnCovered DEF MsgBurnTokens
      <3>2. ASSUME NEW sender \in Addrs, NEW amount \in BurnAmounts,
                   NEW revenue \in Revenues, MsgMerchantBurn(sender, amount, revenue)
            PROVE  balance'[Committed] + Burnt' = balance[Committed] + Burnt
        <4>1. revenue \in Int /\ "merchant_protocol" \in Sources
          BY BurnAssumption DEF Sources
        <4> QED BY <3>2, <4>1, BurnCovered DEF MsgMerchantBurn
      <3>3. ASSUME NEW sender \in Addrs, NEW addr \in Candidates,
                   AddMerchant(sender, addr)
            PROVE  balance'[Committed] + Burnt' = balance[Committed] + Burnt
        BY <1>f, <3>3 DEF AddMerchant
      <3> QED BY <1>2, <3>1, <3>2, <3>3 DEF BurnStep
    <2> QED BY <1>a, <1>b, <1>e, <2>1, <2>2
  <1>3. ASSUME NEW sender \in Addrs, NEW amount \in TransferAmounts,
               TransferMintingToCommitted(sender, amount), burnEvents' = burnEvents
        PROVE  CommittedCovers'
    <2>1. balance' = Sent(Minting, Committed, amount) /\ amount \in Nat
      BY <1>d, <1>3 DEF TransferMintingToCommitted, HasFunds
    <2>2. balance'[Committed] = balance[Committed] + amount
      BY <1>d, <2>1, SentElsewhere
    <2>3. Owed' = Owed + amount
      BY <1>3, PromiseOwed
    <2> QED BY <1>a, <1>b, <1>c, <1>f, <1>3, <2>1, <2>2, <2>3
  <1>4. ASSUME NEW sender \in Addrs, NEW amount \in TransferAmounts,
               TransferMintingToLiquidity(sender, amount), burnEvents' = burnEvents
        PROVE  CommittedCovers'
    <2>1. /\ balance' = Sent(Minting, Liquidity, amount) /\ amount \in Nat
          /\ commitments' = commitments
      BY <1>d, <1>4 DEF TransferMintingToLiquidity, HasFunds
    <2>2. balance'[Committed] = balance[Committed] + 0
      BY <1>d, <2>1, SentElsewhere
    <2> QED BY <1>a, <1>b, <1>c, <1>e, <1>f, <1>4, <2>1, <2>2
  <1>5. ASSUME NEW c \in DOMAIN commitments, NEW dest \in Addrs,
               NEW st \in {"delivered", "cancelled"},
               commitments[c].status = "funded",
               commitments' = [commitments EXCEPT ![c].status = st],
               balance' = Sent(Committed, dest, commitments[c].amount),
               burnEvents' = burnEvents
        PROVE  CommittedCovers'
    <2> DEFINE amount == commitments[c].amount
    <2>1. amount \in Nat
      BY <1>d, CommitmentType
    <2>2. Owed' = Owed - amount
      BY <1>5, SettledOwed
    <2>3. balance'[Committed] = balance[Committed] \/ balance'[Committed] = balance[Committed] - amount
      <3>1. CASE dest = Committed
        BY <1>5, <3>1 DEF Sent
      <3>2. CASE dest # Committed
        BY <1>d, <1>5, <2>1, <3>2, SentFrom
      <3> QED BY <3>1, <3>2
    <2> HIDE DEF amount
    <2> QED BY <1>a, <1>b, <1>c, <1>f, <1>5, <2>1, <2>2, <2>3
  <1>6. CASE TreasuryStep
    <2>1. burnEvents' = burnEvents
      BY <1>6 DEF TreasuryStep, burnVars
    <2>2. ASSUME NEW sender \in Addrs, NEW c \in DOMAIN commitments, NEW dest \in Addrs,
                 DeliverCommitment(sender, c, dest)
          PROVE  CommittedCovers'
      BY <1>5, <2>1, <2>2 DEF DeliverCommitment
    <2>3. ASSUME NEW sender \in Addrs, NEW c \in DOMAIN commitments,
                 CancelCommitment(sender, c)
          PROVE  CommittedCovers'
      BY <1>5, <1>d, <2>1, <2>3 DEF CancelCommitment, Cancellable
    <2> QED BY <1>3, <1>4, <1>6, <2>1, <2>2, <2>3 DEF TreasuryStep
  <1>7. CASE Send
    <2>1. commitments' = commitments /\ burnEvents' = burnEvents
      BY <1>7 DEF Send, burnVars
    <2>2. PICK from \in Addrs, to \in Addrs, amount \in TransferAmounts :
             /\ from # Committed /\ HasFunds(from, amount)
             /\ balance' = Sent(from, to, amount)
      BY <1>7 DEF Send
    <2>4. amount \in Nat
      BY <1>d, <2>2 DEF HasFunds
    <2>3. balance'[Committed] = balance[Committed] + (IF to = Committed THEN amount ELSE 0)
      BY <1>d, <2>2, <2>4, SentElsewhere
    <2> QED BY <1>a, <1>b, <1>c, <1>e, <1>f, <2>1, <2>3, <2>4
  <1>8. CASE RecordStep \/ UNCHANGED vars
    BY <1>a, <1>b, <1>e, <1>f, <1>8 DEF RecordStep, vars, burnVars
  <1> QED BY <1>1, <1>2, <1>6, <1>7, <1>8 DEF Next

\* Whatever was delivered, cancelled, sent in and burned, every commitment that
\* is still funded is covered by the committed wallet, but for what that wallet
\* burned itself.
THEOREM CommitmentsCovered == Spec => []CommittedCovers
  <1>1. Init => CommittedCovers
    <2> SUFFICES ASSUME Init PROVE CommittedCovers
      OBVIOUS
    <2>1. /\ burnEvents = <<>> /\ commitments = <<>> /\ balance[Committed] = 0
      BY TreasuryAssumption DEF Init, BurnInit, TreasuryInit
    <2>2. BurnsBy(Committed) = {} /\ Funded = {}
      BY <2>1 DEF BurnsBy, Funded
    <2> QED BY <2>1, <2>2, SumEmpty DEF CommittedCovers
  <1> QED BY <1>1, TypeCorrect, CoverStep, PTL DEF Spec

=============================================================================
