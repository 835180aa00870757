----------------------------- MODULE NodeProofs -----------------------------
(***************************************************************************)
(* Proofs about Node: the types of its state, that no certificate mints    *)
(* twice, that the treasury balances hold what was minted modulo the width *)
(* of the counters, and how the height in memory keeps close to the one on *)
(* disk.                                                                   *)
(***************************************************************************)
EXTENDS Node, Sums

-----------------------------------------------------------------------------
(* Lemmas on integer division, which the provers know only as an axiom for *)
(* quotient and remainder.                                                 *)

LEMMA ProductGap ==
  ASSUME NEW n \in Nat \ {0}, NEW p \in Int, NEW q \in Int, p < q
  PROVE  n * p + n <= n * q
  <1>1. PICK d \in Nat : q = p + 1 + d
    <2>1. q - p - 1 \in Nat /\ q = p + 1 + (q - p - 1)
      OBVIOUS
    <2> QED BY <2>1
  <1>2. n * q = n * p + n + n * d
    BY <1>1
  <1>3. n * d \in Nat /\ n * p \in Int
    OBVIOUS
  <1> QED BY <1>2, <1>3

LEMMA Division ==
  ASSUME NEW h \in Int, NEW n \in Nat \ {0}
  PROVE  \E q \in Int, r \in 0 .. n - 1 :
            h \div n = q /\ h % n = r /\ h = n * q + r
  <1> DEFINE q == h \div n
             r == h % n
  <1>1. q \in Int /\ r \in 0 .. n - 1 /\ h = n * q + r
    OBVIOUS
  <1> HIDE DEF q, r
  <1>2. h \div n = q /\ h % n = r
    BY DEF q, r
  <1> QED BY <1>1, <1>2

\* Quotient and remainder are determined by the equation they solve.
LEMMA DivisionUnique ==
  ASSUME NEW h \in Int, NEW n \in Nat \ {0}, NEW q \in Int,
         NEW r \in 0 .. n - 1, h = n * q + r
  PROVE  h \div n = q /\ h % n = r
  <1> DEFINE Q == h \div n
             R == h % n
  <1>1. Q \in Int /\ R \in 0 .. n - 1 /\ h = n * Q + R
    OBVIOUS
  <1> HIDE DEF Q, R
  <1>2. ~(q < Q)
    BY <1>1, ProductGap
  <1>3. ~(Q < q)
    BY <1>1, ProductGap
  <1>4. q = Q
    BY <1>1, <1>2, <1>3
  <1>5. n * q \in Int
    OBVIOUS
  <1> QED BY <1>1, <1>4, <1>5 DEF Q, R

\* A height that is no multiple of n lies in the span of its predecessor.
LEMMA SameSpanNext ==
  ASSUME NEW h \in Nat, NEW n \in Nat \ {0}, (h + 1) % n # 0
  PROVE  (h + 1) \div n = h \div n
  <1> DEFINE Q == (h + 1) \div n
             R == (h + 1) % n
  <1>1. h + 1 = n * Q + R /\ R \in 0 .. n - 1 /\ Q \in Int
    OBVIOUS
  <1> HIDE DEF Q, R
  <1>2. R # 0
    BY DEF R
  <1>3. h = n * Q + (R - 1) /\ (R - 1) \in 0 .. n - 1
    BY <1>1, <1>2
  <1>4. h \div n = Q
    BY <1>1, <1>3, DivisionUnique
  <1> QED BY <1>4 DEF Q

\* Two heights of one span are less than n apart.
LEMMA SpanWidth ==
  ASSUME NEW h \in Nat, NEW d \in Nat, NEW n \in Nat \ {0}, h \div n = d \div n
  PROVE  h < d + n
  <1>1. PICK q \in Int, r \in 0 .. n - 1 : h \div n = q /\ h = n * q + r
    BY Division
  <1>2. PICK p \in Int, s \in 0 .. n - 1 : d \div n = p /\ d = n * p + s
    BY Division
  <1>3. p = q /\ n * q \in Int
    BY <1>1, <1>2
  <1> QED BY <1>1, <1>2, <1>3

-----------------------------------------------------------------------------
(* Lemmas on 64-bit arithmetic.                                            *)

\* Wrapping leaves a 64-bit integer and changes a number by a multiple of the
\* modulus.
LEMMA WrapType ==
  ASSUME NEW x \in Int
  PROVE  /\ Wrap(x) \in Int64
         /\ \E q \in Int : x = Wrap(x) + (2 * Half) * q
  <1> DEFINE n == 2 * Half
             y == x + Half
  <1>1. n \in Nat \ {0} /\ n = Half + Half /\ Half \in Int /\ y \in Int /\ y = x + Half
    BY ChainAssumption
  <1>2. Wrap(x) = (y % n) - Half
    BY DEF Wrap
  <1> HIDE DEF n, y
  <1>3. PICK q \in Int, r \in 0 .. n - 1 : y % n = r /\ y = n * q + r
    <2>1. y \in Int /\ n \in Nat \ {0}
      BY <1>1
    <2>2. \E q \in Int, r \in 0 .. n - 1 :
             y \div n = q /\ y % n = r /\ y = n * q + r
      BY <2>1, Division
    <2> QED BY <2>2
  <1>4. Wrap(x) = r - Half /\ n * q \in Int
    BY <1>1, <1>2, <1>3
  <1>5. Wrap(x) \in Int64
    BY <1>1, <1>4 DEF Int64
  <1>6. x = Wrap(x) + n * q
    BY <1>1, <1>3, <1>4
  <1> QED BY <1>5, <1>6 DEF n

\* Numbers a multiple of the modulus apart wrap to the same.
LEMMA WrapCongruent ==
  ASSUME NEW x \in Int, NEW y \in Int, NEW q \in Int, x = y + (2 * Half) * q
  PROVE  Wrap(x) = Wrap(y)
  <1> DEFINE n == 2 * Half
  <1>1. n \in Nat \ {0} /\ Half \in Int
    BY ChainAssumption
  <1>2. x = y + n * q
    OBVIOUS
  <1>3. Wrap(x) = ((x + Half) % n) - Half /\ Wrap(y) = ((y + Half) % n) - Half
    BY DEF Wrap
  <1> HIDE DEF n
  <1>4. PICK p \in Int, r \in 0 .. n - 1 : y + Half = n * p + r
    <2>1. PICK z \in Int : z = y + Half
      BY <1>1
    <2>2. \E p \in Int, r \in 0 .. n - 1 :
             z \div n = p /\ z % n = r /\ z = n * p + r
      BY <1>1, Division
    <2> QED BY <2>1, <2>2
  <1>5. n * q \in Int /\ n * p \in Int /\ n * (p + q) = n * p + n * q
    BY <1>1
  <1>6. x + Half = n * (p + q) + r
    BY <1>1, <1>2, <1>4, <1>5
  <1>7. y + Half \in Int /\ x + Half \in Int /\ p + q \in Int
    BY <1>1
  <1>8. (y + Half) % n = r
    BY <1>1, <1>4, <1>7, DivisionUnique
  <1>9. (x + Half) % n = r
    BY <1>1, <1>6, <1>7, DivisionUnique
  <1> QED BY <1>3, <1>8, <1>9

\* Wrapping a term before adding does not change the wrapped sum.
LEMMA WrapSum ==
  ASSUME NEW x \in Int, NEW y \in Int
  PROVE  Wrap(Wrap(x) + y) = Wrap(x + y)
  <1>1. Half \in Int /\ Wrap(x) \in Int
    BY ChainAssumption, WrapType DEF Int64
  <1>2. PICK q \in Int : x = Wrap(x) + (2 * Half) * q
    BY WrapType
  <1>3. (2 * Half) * q \in Int
    BY <1>1
  <1>4. x + y = (Wrap(x) + y) + (2 * Half) * q
    BY <1>1, <1>2, <1>3
  <1>5. x + y \in Int /\ Wrap(x) + y \in Int
    BY <1>1
  <1>6. Wrap(x + y) = Wrap(Wrap(x) + y)
    BY <1>4, <1>5, WrapCongruent
  <1> QED BY <1>6

LEMMA WrapInt ==
  /\ Int64 \subseteq Int /\ 0 \in Int64
  /\ \A x \in Int : Wrap(x) \in Int64
  /\ \A x \in Int : Wrap(x) \in Int
  <1>1. Int64 \subseteq Int /\ 0 \in Int64
    BY ChainAssumption DEF Int64
  <1>2. \A x \in Int : Wrap(x) \in Int64
    BY WrapType
  <1> QED BY <1>1, <1>2

-----------------------------------------------------------------------------
(* Types.                                                                  *)

\* The ledger's operations keep its types, whatever height they are given.
LEMMA MintType ==
  ASSUME ChainTypeOK, NEW ext \in Certs, NEW mwh \in Nat, NEW h \in Nat,
         MintFromCertificate(ext, mwh, h)
  PROVE  ChainTypeOK'
  <1> DEFINE tokens == Wrap(mwh * TokensPerMWh)
  <1>1. tokens \in Int64 /\ Int64 \subseteq Int
    <2>1. mwh * TokensPerMWh \in Int
      BY ChainAssumption
    <2> QED BY <2>1, WrapInt
  <1> HIDE DEF tokens
  <1>2. [ext |-> ext, mwh |-> mwh, tokens |-> tokens, block |-> h] \in Certificate
    BY <1>1 DEF Certificate
  <1>3. certificates' \in Seq(Certificate)
    BY <1>2 DEF ChainTypeOK, MintFromCertificate, tokens
  <1>4. txs' \in Seq(Tx)
    <2>1. [kind |-> "mint", height |-> h] \in Tx
      BY DEF Tx
    <2> QED BY <2>1 DEF ChainTypeOK, MintFromCertificate
  <1>5. totalMinted' \in Int64 /\ totalSupply' \in Int64 /\ totalMWh' \in Int64
    <2>1. /\ totalMinted + tokens \in Int /\ totalSupply + tokens \in Int
          /\ totalMWh + mwh \in Int
      BY <1>1 DEF ChainTypeOK
    <2>2. /\ totalMinted' = Wrap(totalMinted + tokens)
          /\ totalSupply' = Wrap(totalSupply + tokens)
          /\ totalMWh' = Wrap(totalMWh + mwh)
      BY DEF MintFromCertificate, SupplyAfterMint, tokens
    <2> QED BY <2>1, <2>2, WrapInt
  <1>6. treasury' \in [Accounts -> Int64]
    <2>1. treasury["minting"] + tokens \in Int
      <3>1. treasury["minting"] \in Int64
        BY DEF ChainTypeOK, Accounts
      <3>2. treasury["minting"] \in Int /\ tokens \in Int
        BY <1>1, <3>1
      <3> QED BY <3>2
    <2>2. Wrap(treasury["minting"] + tokens) \in Int64
      BY <2>1, WrapInt
    <2>3. treasury' = [treasury EXCEPT !["minting"] = Wrap(treasury["minting"] + tokens)]
      BY DEF MintFromCertificate, tokens
    <2> QED BY <2>2, <2>3 DEF ChainTypeOK
  <1> QED BY <1>3, <1>4, <1>5, <1>6 DEF ChainTypeOK, MintFromCertificate

LEMMA BurnType ==
  ASSUME ChainTypeOK, NEW amount \in Int64, NEW h \in Nat, BurnTokens(amount, h)
  PROVE  ChainTypeOK'
  <1>1. Int64 \subseteq Int
    BY WrapInt
  <1>2. burns' \in Seq(BurnEvent)
    <2>1. [amount |-> amount, block |-> h] \in BurnEvent
      BY DEF BurnEvent
    <2> QED BY <2>1 DEF ChainTypeOK, BurnTokens
  <1>3. txs' \in Seq(Tx)
    <2>1. [kind |-> "burn", height |-> h] \in Tx
      BY DEF Tx
    <2> QED BY <2>1 DEF ChainTypeOK, BurnTokens
  <1>4. totalBurned' \in Int64 /\ totalSupply' \in Int64
    <2>1. totalBurned + amount \in Int /\ totalSupply - amount \in Int
      BY <1>1 DEF ChainTypeOK
    <2> QED BY <2>1, WrapInt DEF BurnTokens
  <1> QED BY <1>2, <1>3, <1>4 DEF ChainTypeOK, BurnTokens

LEMMA TransferType ==
  ASSUME ChainTypeOK, NEW amount \in Int64, NEW dest \in Accounts,
         TransferFromMinting(amount, dest)
  PROVE  ChainTypeOK'
  <1>1. treasury["minting"] - amount \in Int /\ treasury[dest] + amount \in Int
    <2>1. treasury["minting"] \in Int64 /\ treasury[dest] \in Int64
      BY DEF ChainTypeOK, Accounts
    <2>2. treasury["minting"] \in Int /\ treasury[dest] \in Int /\ amount \in Int
      BY <2>1, WrapInt
    <2> QED BY <2>2
  <1>2. /\ Wrap(treasury["minting"] - amount) \in Int64
        /\ Wrap(treasury[dest] + amount) \in Int64
    BY <1>1, WrapInt
  <1>3. treasury' = [treasury EXCEPT
            !["minting"] = Wrap(treasury["minting"] - amount),
            ![dest] = Wrap(treasury[dest] + amount)]
    BY DEF TransferFromMinting, Moved, ChainTypeOK, Accounts
  <1>4. treasury' \in [Accounts -> Int64]
    BY <1>2, <1>3 DEF ChainTypeOK
  <1> QED BY <1>4 DEF ChainTypeOK, TransferFromMinting

\* No ledger at all is a ledger: at the start, and after a torn write.
LEMMA EmptyType == /\ ChainInit => ChainTypeOK
                   /\ ChainLost => ChainTypeOK'
  <1>1. ChainInit => ChainTypeOK
    BY WrapInt DEF ChainInit, ChainTypeOK
  <1>2. ChainLost => ChainTypeOK'
    BY WrapInt DEF ChainLost, ChainTypeOK
  <1> QED BY <1>1, <1>2

LEMMA InitType == Init => TypeOK
  <1> SUFFICES ASSUME Init PROVE TypeOK
    OBVIOUS
  <1>1. ChainTypeOK
    BY EmptyType DEF Init
  <1>2. running \in BOOLEAN /\ late \in BOOLEAN /\ saving \in BOOLEAN
    BY DEF Init
  <1>3. /\ height \in Nat /\ diskHeight \in Nat /\ final \in Nat
        /\ shutdown \in {"none", "asked", "saving"}
    BY DEF Init
  <1>4. requests \subseteq MintRequest \cup BurnRequest
    BY DEF Init
  <1> QED BY <1>1, <1>2, <1>3, <1>4 DEF TypeOK

LEMMA StutterType == ChainTypeOK /\ UNCHANGED chainVars => ChainTypeOK'
  BY DEF ChainTypeOK, chainVars

LEMMA TypeStep == TypeOK /\ [Next]_vars => TypeOK'
  <1> SUFFICES ASSUME TypeOK, [Next]_vars
               PROVE  TypeOK'
    OBVIOUS
  <1> USE DEF TypeOK
  <1>1. CASE CommitBlock
    BY <1>1, StutterType DEF CommitBlock, SaveDue
  <1>13. CASE SaveBlock
    BY <1>13, StutterType DEF SaveBlock, stopVars
  <1>2. ASSUME NEW ext \in Certs, NEW mwh \in MWhs,
               Receive([kind |-> "mint", ext |-> ext, mwh |-> mwh, height |-> height])
        PROVE  TypeOK'
    <2>1. [kind |-> "mint", ext |-> ext, mwh |-> mwh, height |-> height]
             \in MintRequest
      BY DEF MintRequest
    <2> QED BY <1>2, <2>1, StutterType DEF Receive, stopVars
  <1>3. ASSUME NEW amount \in BurnAmounts,
               Receive([kind |-> "burn", amount |-> amount, height |-> height])
        PROVE  TypeOK'
    <2>1. [kind |-> "burn", amount |-> amount, height |-> height] \in BurnRequest
      BY DEF BurnRequest
    <2> QED BY <1>3, <2>1, StutterType DEF Receive, stopVars
  <1>4. ASSUME NEW r \in requests, ServeMint(r)
        PROVE  TypeOK'
    <2>1. r \in MintRequest
      BY <1>4 DEF ServeMint, MintRequest, BurnRequest
    <2>2. r.ext \in Certs /\ r.mwh \in Nat /\ r.height \in Nat
      BY <2>1, NodeAssumption DEF MintRequest
    <2>3. ChainTypeOK'
      BY <1>4, <2>2, MintType, StutterType DEF ServeMint
    <2> QED BY <1>4, <2>3 DEF ServeMint, stopVars
  <1>5. ASSUME NEW r \in requests, ServeBurn(r)
        PROVE  TypeOK'
    <2>1. r \in BurnRequest
      BY <1>5 DEF ServeBurn, MintRequest, BurnRequest
    <2>2. r.amount \in Int64 /\ r.height \in Nat
      BY <2>1, NodeAssumption DEF BurnRequest
    <2>3. ChainTypeOK'
      BY <1>5, <2>2, BurnType, StutterType DEF ServeBurn
    <2> QED BY <1>5, <2>3 DEF ServeBurn, stopVars
  <1>6. ASSUME NEW amount \in TransferAmounts, NEW dest \in Accounts,
               Transfer(amount, dest)
        PROVE  TypeOK'
    <2>1. ChainTypeOK'
      BY <1>6, TransferType, NodeAssumption DEF Transfer
    <2> QED BY <1>6, <2>1 DEF Transfer, nodeVars, stopVars
  <1>7. CASE Signal
    BY <1>7, StutterType DEF Signal
  <1>11. CASE BeginFinalSave
    BY <1>11, StutterType DEF BeginFinalSave
  <1>12. CASE EndFinalSave
    BY <1>12, StutterType DEF EndFinalSave
  <1>8. CASE Crash
    <2>1. ChainTypeOK'
      BY <1>8, StutterType, EmptyType DEF Crash
    <2>2. height' \in Nat /\ diskHeight' \in Nat
      BY <1>8 DEF Crash
    <2> QED BY <1>8, <2>1, <2>2 DEF Crash
  <1>9. CASE Restart
    BY <1>9, StutterType DEF Restart, Loaded, stopVars
  <1>10. CASE UNCHANGED vars
    BY <1>10, StutterType DEF vars, nodeVars, stopVars
  <1> QED
    BY <1>1, <1>2, <1>3, <1>4, <1>5, <1>6, <1>7, <1>8, <1>9, <1>10, <1>11, <1>12,
       <1>13
    DEF Next

\* TypeOK: every variable keeps its type; in particular the 64-bit totals stay
\* 64-bit integers however much is minted, burned and moved.
THEOREM TypeCorrect == Spec => []TypeOK
  BY InitType, TypeStep, PTL DEF Spec

-----------------------------------------------------------------------------
(* One mint per certificate.                                               *)

LEMMA NoDoubleMintStep == TypeOK /\ NoDoubleMint /\ [Next]_vars => NoDoubleMint'
  <1> SUFFICES ASSUME TypeOK, NoDoubleMint, [Next]_vars
               PROVE  NoDoubleMint'
    OBVIOUS
  <1>1. CASE UNCHANGED certificates
    BY <1>1 DEF NoDoubleMint
  <1>2. CASE ChainLost
    BY <1>2 DEF ChainLost, NoDoubleMint
  <1>3. ASSUME NEW r \in requests, MintFromCertificate(r.ext, r.mwh, r.height)
        PROVE  NoDoubleMint'
    <2> DEFINE c == [ext |-> r.ext, mwh |-> r.mwh,
                     tokens |-> Wrap(r.mwh * TokensPerMWh), block |-> r.height]
    <2>1. certificates \in Seq(Certificate) /\ certificates' = Append(certificates, c)
      BY <1>3 DEF TypeOK, ChainTypeOK, MintFromCertificate
    <2>2. \A i \in 1 .. Len(certificates) : certificates[i].ext # c.ext
      BY <1>3, <2>1 DEF MintFromCertificate, Registered
    <2> HIDE DEF c
    <2>3. /\ Len(certificates') = Len(certificates) + 1
          /\ certificates'[Len(certificates) + 1] = c
          /\ \A i \in 1 .. Len(certificates) : certificates'[i] = certificates[i]
      BY <2>1
    <2> SUFFICES ASSUME NEW i \in 1 .. Len(certificates'), NEW j \in 1 .. Len(certificates'),
                        certificates'[i].ext = certificates'[j].ext
                 PROVE  i = j
      BY DEF NoDoubleMint
    <2>4. Len(certificates) \in Nat
      BY <2>1
    <2>5. CASE i <= Len(certificates) /\ j <= Len(certificates)
      BY <2>3, <2>4, <2>5 DEF NoDoubleMint
    <2>6. CASE i > Len(certificates) \/ j > Len(certificates)
      BY <2>2, <2>3, <2>4, <2>6
    <2> QED BY <2>4, <2>5, <2>6
  <1> QED
    BY <1>1, <1>2, <1>3
    DEF Next, vars, chainVars, nodeVars, CommitBlock, SaveBlock, Receive, ServeMint, ServeBurn,
        BurnTokens, Transfer, TransferFromMinting, Signal, BeginFinalSave,
        EndFinalSave, Crash, Restart

\* The ledger keeps every certificate, where it is and as it was minted for;
\* only a process that dies inside the write of the ledger's file loses them,
\* and then it loses all.
CertificatesStay ==
    \/ \A i \in 1 .. Len(certificates) :
          i \in 1 .. Len(certificates') /\ certificates'[i] = certificates[i]
    \/ TornWrites /\ running /\ ~running' /\ certificates' = <<>>

LEMMA CertificatesStayStep == TypeOK /\ [Next]_vars => [CertificatesStay]_vars
  <1> SUFFICES ASSUME TypeOK, [Next]_vars PROVE CertificatesStay
    OBVIOUS
  <1>1. certificates \in Seq(Certificate)
    BY DEF TypeOK, ChainTypeOK
  <1>2. CASE UNCHANGED certificates
    BY <1>1, <1>2 DEF CertificatesStay
  <1>3. CASE Crash
    BY <1>2, <1>3 DEF Crash, ChainLost, chainVars, CertificatesStay
  <1>4. ASSUME NEW r \in requests, MintFromCertificate(r.ext, r.mwh, r.height)
        PROVE  CertificatesStay
    <2>1. PICK c : certificates' = Append(certificates, c)
      BY <1>4 DEF MintFromCertificate
    <2> QED BY <1>1, <2>1 DEF CertificatesStay
  <1> QED
    BY <1>2, <1>3, <1>4
    DEF Next, vars, chainVars, nodeVars, CommitBlock, SaveBlock, Receive, ServeMint,
        ServeBurn, BurnTokens, Transfer, TransferFromMinting, Signal, BeginFinalSave,
        EndFinalSave, Restart

\* NoDoubleMint: while its file is whole, the ledger mints for a certificate
\* once, however many requests for it are between reading the height and
\* calling the ledger at the same time: it holds no certificate twice, and it
\* gives none up.  A ledger torn by a crash is the exception, and is named:
\* it starts again with no certificate, and may mint for each anew.
THEOREM CertificateMintsOnce == Spec => []NoDoubleMint /\ [][CertificatesStay]_vars
  <1>1. Init => TypeOK /\ NoDoubleMint
    BY InitType DEF Init, ChainInit, NoDoubleMint
  <1>2. (TypeOK /\ NoDoubleMint) /\ [Next]_vars => (TypeOK /\ NoDoubleMint)'
    BY TypeStep, NoDoubleMintStep
  <1>3. TypeOK /\ [Next]_vars => [CertificatesStay]_vars
    BY CertificatesStayStep
  <1> QED BY <1>1, <1>2, <1>3, PTL DEF Spec

-----------------------------------------------------------------------------
(* The treasury balances.                                                  *)

\* The sum of the balances moves by what is minted, up to a multiple of the
\* modulus, and a transfer leaves it alone.
LEMMA TreasuryStep == TypeOK /\ TreasuryIsMinted /\ [Next]_vars => TreasuryIsMinted'
  <1> SUFFICES ASSUME TypeOK, TreasuryIsMinted, [Next]_vars
               PROVE  TreasuryIsMinted'
    OBVIOUS
  <1> DEFINE m == treasury["minting"]
             c == treasury["committed"]
             l == treasury["liquidity"]
  <1>1. m \in Int /\ c \in Int /\ l \in Int
    <2>1. m \in Int64 /\ c \in Int64 /\ l \in Int64
      BY DEF TypeOK, ChainTypeOK, Accounts
    <2> QED BY <2>1, WrapInt
  <1>2. totalMinted = Wrap(m + c + l)
    BY DEF TreasuryIsMinted
  <1>3. ASSUME NEW x \in Int, NEW y \in Int, NEW z \in Int
        PROVE  Wrap(x + Wrap(y) + z) = Wrap(x + y + z)
    <2>1. Wrap(y) \in Int
      BY WrapInt
    <2>4. x + z \in Int
      OBVIOUS
    <2>2. Wrap(Wrap(y) + (x + z)) = Wrap(y + (x + z))
      BY <2>4, WrapSum
    <2>3. Wrap(y) + (x + z) = x + Wrap(y) + z /\ y + (x + z) = x + y + z
      BY <2>1
    <2> QED BY <2>2, <2>3
  <1>4. CASE UNCHANGED <<totalMinted, treasury>>
    BY <1>4 DEF TreasuryIsMinted
  <1>5. CASE ChainLost
    <2>1. totalMinted' = 0 /\ treasury' = [a \in Accounts |-> 0]
      BY <1>5 DEF ChainLost
    <2>2. Wrap(0) = 0
      <3>1. Half \in Nat \ {0} /\ 2 * Half \in Nat \ {0} /\ Half = (2 * Half) * 0 + Half
            /\ Half \in 0 .. 2 * Half - 1
        BY ChainAssumption
      <3>2. Half % (2 * Half) = Half
        BY <3>1, DivisionUnique
      <3> QED BY <3>1, <3>2 DEF Wrap
    <2> QED BY <2>1, <2>2 DEF TreasuryIsMinted, Accounts
  <1>6. ASSUME NEW r \in requests, r.kind = "mint",
               MintFromCertificate(r.ext, r.mwh, r.height)
        PROVE  TreasuryIsMinted'
    <2>1. PICK t \in Int : t = Wrap(r.mwh * TokensPerMWh)
      <3>1. r.mwh \in Nat
        BY <1>6, NodeAssumption DEF TypeOK, MintRequest, BurnRequest
      <3>2. r.mwh * TokensPerMWh \in Int
        BY <3>1, ChainAssumption
      <3> QED BY <3>2, WrapInt
    <2>2. totalMinted' = Wrap(totalMinted + t)
      BY <1>6, <2>1 DEF MintFromCertificate
    <2>3. treasury' = [treasury EXCEPT !["minting"] = Wrap(m + t)]
      BY <1>6, <2>1 DEF MintFromCertificate, TypeOK, ChainTypeOK, Accounts
    <2>4. treasury'["minting"] = Wrap(m + t) /\ treasury'["committed"] = c
          /\ treasury'["liquidity"] = l
      BY <2>3 DEF TypeOK, ChainTypeOK, Accounts
    <2> HIDE DEF m, c, l
    <2>9. m + t \in Int /\ c + l \in Int /\ m + c + l \in Int
      BY <1>1, <2>1
    <2>5. m + t \in Int /\ c + l \in Int /\ m + c + l \in Int /\ Wrap(m + t) \in Int
      BY <2>9, WrapInt
    <2>6. Wrap(Wrap(m + t) + (c + l)) = Wrap((m + t) + (c + l))
      BY <2>5, WrapSum
    <2>7. Wrap(Wrap(m + c + l) + t) = Wrap((m + c + l) + t)
      BY <2>5, WrapSum
    <2>8. (m + t) + (c + l) = (m + c + l) + t
          /\ Wrap(m + t) + (c + l) = Wrap(m + t) + c + l
      BY <1>1, <2>5
    <2> QED BY <1>2, <2>2, <2>4, <2>6, <2>7, <2>8 DEF TreasuryIsMinted
  <1>7. ASSUME NEW amount \in TransferAmounts, NEW dest \in Accounts,
               TransferFromMinting(amount, dest)
        PROVE  TreasuryIsMinted'
    <2>1. amount \in Int
      BY NodeAssumption, WrapInt
    <2>2. totalMinted' = totalMinted
      BY <1>7 DEF TransferFromMinting
    <2>3. treasury' = [treasury EXCEPT !["minting"] = Wrap(m - amount),
                                       ![dest] = Wrap(treasury[dest] + amount)]
      BY <1>7 DEF TransferFromMinting, Moved, TypeOK, ChainTypeOK, Accounts
    <2>7. m - amount \in Int /\ c + amount \in Int /\ l + amount \in Int
      BY <1>1, <2>1
    <2>4. m - amount \in Int /\ c + amount \in Int /\ l + amount \in Int
          /\ Wrap(m - amount) \in Int /\ Wrap(c + amount) \in Int
          /\ Wrap(l + amount) \in Int
      BY <2>7, WrapInt
    <2>5. CASE dest = "committed"
      <3>1. treasury'["minting"] = Wrap(m - amount)
            /\ treasury'["committed"] = Wrap(c + amount) /\ treasury'["liquidity"] = l
        BY <2>3, <2>5 DEF TypeOK, ChainTypeOK, Accounts
      <3> HIDE DEF m, c, l
      <3>2. Wrap(Wrap(m - amount) + Wrap(c + amount) + l)
               = Wrap(Wrap(m - amount) + (c + amount) + l)
        <4>1. PICK x \in Int : x = Wrap(m - amount)
          BY <2>4
        <4>2. PICK y \in Int : y = c + amount
          BY <2>4
        <4>3. Wrap(x + Wrap(y) + l) = Wrap(x + y + l)
          BY <1>1, <1>3
        <4> QED BY <4>1, <4>2, <4>3
      <3>3. Wrap(Wrap(m - amount) + ((c + amount) + l))
               = Wrap((m - amount) + ((c + amount) + l))
        BY <1>1, <2>4, WrapSum
      <3>4. Wrap(m - amount) + ((c + amount) + l) = Wrap(m - amount) + (c + amount) + l
            /\ (m - amount) + ((c + amount) + l) = m + c + l
        BY <1>1, <2>1, <2>4
      <3> QED BY <1>2, <2>2, <3>1, <3>2, <3>3, <3>4 DEF TreasuryIsMinted
    <2>6. CASE dest = "liquidity"
      <3>1. treasury'["minting"] = Wrap(m - amount)
            /\ treasury'["committed"] = c /\ treasury'["liquidity"] = Wrap(l + amount)
        BY <2>3, <2>6 DEF TypeOK, ChainTypeOK, Accounts
      <3> HIDE DEF m, c, l
      <3>2. Wrap(Wrap(l + amount) + (Wrap(m - amount) + c))
               = Wrap((l + amount) + (Wrap(m - amount) + c))
        BY <1>1, <2>4, WrapSum
      <3>3. Wrap(Wrap(m - amount) + (l + amount + c)) = Wrap((m - amount) + (l + amount + c))
        BY <1>1, <2>4, WrapSum
      <3>4. /\ Wrap(l + amount) + (Wrap(m - amount) + c)
                  = Wrap(m - amount) + c + Wrap(l + amount)
            /\ (l + amount) + (Wrap(m - amount) + c) = Wrap(m - amount) + (l + amount + c)
            /\ (m - amount) + (l + amount + c) = m + c + l
        BY <1>1, <2>1, <2>4
      <3> QED BY <1>2, <2>2, <3>1, <3>2, <3>3, <3>4 DEF TreasuryIsMinted
    <2> QED BY <1>7, <2>5, <2>6 DEF TransferFromMinting
  <1> QED
    BY <1>4, <1>5, <1>6, <1>7
    DEF Next, vars, chainVars, nodeVars, CommitBlock, SaveBlock, Receive, ServeMint, ServeBurn,
        BurnTokens, Transfer, Signal, BeginFinalSave, EndFinalSave, Crash, Restart

\* TreasuryIsMinted: what was minted is in the three balances, for amounts of
\* any size and also once the 64-bit counters have wrapped.
THEOREM TreasuryHoldsMinted == Spec => []TreasuryIsMinted
  <1>1. Init => TypeOK /\ TreasuryIsMinted
    <2>1. ASSUME Init PROVE TreasuryIsMinted
      <3>1. Half \in Nat \ {0} /\ 2 * Half \in Nat \ {0} /\ Half = (2 * Half) * 0 + Half
            /\ Half \in 0 .. 2 * Half - 1
        BY ChainAssumption
      <3>2. Half % (2 * Half) = Half
        BY <3>1, DivisionUnique
      <3>3. Wrap(0) = 0
        BY <3>1, <3>2 DEF Wrap
      <3> QED BY <2>1, <3>3 DEF Init, ChainInit, TreasuryIsMinted, Accounts
    <2> QED BY <2>1, InitType
  <1>2. (TypeOK /\ TreasuryIsMinted) /\ [Next]_vars => (TypeOK /\ TreasuryIsMinted)'
    BY TypeStep, TreasuryStep
  <1> QED BY <1>1, <1>2, PTL DEF Spec

-----------------------------------------------------------------------------
(* The height in memory and the height on disk.                            *)

\* HeightsNearDisk is not inductive: it must also be known that no multiple of
\* SaveEvery was passed since the height on disk, which a graceful stop leaves
\* anywhere between two multiples.
SameSpan == running /\ ~saving => height \div SaveEvery = diskHeight \div SaveEvery

\* A process that is not running has no handlers, no block to save, and is not
\* stopping.
Quiet == ~running => requests = {} /\ shutdown = "none" /\ ~saving

\* The final save writes the height it has read, or is one block late.
FinalIsNear ==
    /\ late => shutdown # "none"
    /\ shutdown = "saving" =>
          final <= height /\ height <= final + 1 /\ (~late => height = final)

HeightInv == HeightsNearDisk /\ SameSpan /\ Quiet /\ FinalIsNear

LEMMA HeightInit == Init => HeightInv
  <1> SUFFICES ASSUME Init PROVE HeightInv
    OBVIOUS
  <1>1. HeightsNearDisk /\ SameSpan
    BY NodeAssumption DEF Init, HeightsNearDisk, SameSpan
  <1>2. Quiet /\ FinalIsNear
    BY DEF Init, Quiet, FinalIsNear
  <1> QED BY <1>1, <1>2 DEF HeightInv

LEMMA HeightStep == TypeOK /\ HeightInv /\ [Next]_vars => HeightInv'
  <1> SUFFICES ASSUME TypeOK, HeightInv, [Next]_vars
               PROVE  HeightInv'
    OBVIOUS
  <1> USE DEF HeightInv, HeightsNearDisk, SameSpan, Quiet, FinalIsNear, TypeOK
  <1>1. CASE CommitBlock
    <2>1. SaveEvery \in Nat \ {0} /\ height \in Nat /\ diskHeight \in Nat
      BY NodeAssumption
    <2>2. /\ running /\ running' = running /\ height' = height + 1
          /\ ~saving /\ requests' = requests /\ diskHeight' = diskHeight
      BY <1>1 DEF CommitBlock
    <2>3. \A r \in requests' : r.height <= height'
      <3>1. \A r \in requests : r.height \in Nat
        BY DEF MintRequest, BurnRequest
      <3> QED BY <2>1, <2>2, <3>1
    <2>4. diskHeight' <= height' /\ height' <= diskHeight' + SaveEvery
      BY <2>1, <2>2
    <2>5. FinalIsNear' /\ Quiet'
      <3>1. /\ ~late /\ shutdown' = shutdown /\ final' = final
            /\ late' <=> shutdown # "none"
        BY <1>1 DEF CommitBlock
      <3>2. shutdown = "saving" => height = final /\ final \in Nat
        BY <3>1
      <3>3. shutdown = "saving" => late' /\ final' <= height' /\ height' <= final' + 1
        <4>1. shutdown = "saving" => late'
          BY <3>1
        <4>2. shutdown = "saving" => final' <= height' /\ height' <= final' + 1
          BY <2>2, <3>1, <3>2
        <4> QED BY <4>1, <4>2
      <3>4. Quiet'
        BY <2>2
      <3>5. FinalIsNear'
        BY <3>1, <3>3
      <3> QED BY <3>4, <3>5
    <2>6. CASE saving'
      <3>1. height' < diskHeight' + SaveEvery \/ height' = diskHeight' + SaveEvery
        BY <2>1, <2>2, <2>4
      <3> QED BY <2>3, <2>4, <2>5, <2>6, <3>1
    <2>7. CASE ~saving'
      <3>1. (height + 1) % SaveEvery # 0
        BY <1>1, <2>7 DEF CommitBlock, SaveDue
      <3>2. (height + 1) \div SaveEvery = height \div SaveEvery
        BY <2>1, <3>1, SameSpanNext
      <3>3. (height + 1) \div SaveEvery = diskHeight \div SaveEvery
        BY <2>2, <3>2
      <3>4. height + 1 < diskHeight + SaveEvery
        <4>1. height + 1 \in Nat /\ diskHeight \in Nat /\ SaveEvery \in Nat \ {0}
          BY <2>1
        <4> QED BY <3>3, <4>1, SpanWidth
      <3> QED BY <2>2, <2>3, <2>4, <2>5, <3>3, <3>4
    <2> QED BY <2>6, <2>7
  <1>11. CASE SaveBlock
    <2>1. /\ running /\ ~saving' /\ diskHeight' = height /\ height' = height
          /\ running' = running /\ requests' = requests
          /\ shutdown' = shutdown /\ final' = final /\ late' = late
      BY <1>11 DEF SaveBlock, stopVars
    <2>2. height \in Nat /\ SaveEvery \in Nat \ {0}
      BY NodeAssumption
    <2>3. HeightsNearDisk'
      BY <2>1, <2>2
    <2>4. SameSpan' /\ Quiet' /\ FinalIsNear'
      BY <2>1
    <2> QED BY <2>3, <2>4
  <1>2. ASSUME NEW r, r.height = height, Receive(r)
        PROVE  HeightInv'
    BY <1>2 DEF Receive, stopVars
  <1>3. CASE /\ UNCHANGED <<height, saving, diskHeight, running, stopVars>>
             /\ requests' \subseteq requests
    BY <1>3 DEF stopVars
  <1>4. CASE Signal \/ BeginFinalSave
    BY <1>4 DEF Signal, BeginFinalSave
  <1>5. CASE /\ running' = FALSE /\ requests' = {} /\ saving' = FALSE
             /\ shutdown' = "none" /\ late' = FALSE
    BY <1>5
  <1>6. CASE Restart
    <2>1. /\ running' /\ height' = diskHeight /\ diskHeight' = diskHeight
          /\ requests' = requests /\ saving' = saving
      BY <1>6 DEF Restart, Loaded
    <2>2. requests = {} /\ shutdown = "none" /\ UNCHANGED stopVars
      BY <1>6 DEF Restart
    <2> QED BY <2>1, <2>2, NodeAssumption DEF stopVars
  <1>7. ASSUME NEW r \in requests, ServeMint(r) \/ ServeBurn(r)
        PROVE  HeightInv'
    <2>1. /\ requests' = requests \ {r}
          /\ UNCHANGED <<height, saving, diskHeight, running, stopVars>>
      BY <1>7 DEF ServeMint, ServeBurn
    <2> QED BY <1>3, <2>1
  <1>8. ASSUME NEW amount \in TransferAmounts, NEW dest \in Accounts, Transfer(amount, dest)
        PROVE  HeightInv'
    BY <1>3, <1>8 DEF Transfer, nodeVars
  <1>9. CASE EndFinalSave \/ Crash
    BY <1>5, <1>9 DEF EndFinalSave, Crash
  <1>10. CASE UNCHANGED vars
    BY <1>3, <1>10 DEF vars, nodeVars
  <1> QED
    BY <1>1, <1>2, <1>4, <1>6, <1>7, <1>8, <1>9, <1>10, <1>11 DEF Next

\* HeightsNearDisk: a crash takes back fewer than SaveEvery blocks, or as many
\* between a block and its save, and no handler passes on a height the running
\* chain has not reached.
THEOREM HeightsStayNear == Spec => []HeightsNearDisk
  <1>1. Init => TypeOK /\ HeightInv
    BY InitType, HeightInit
  <1>2. (TypeOK /\ HeightInv) /\ [Next]_vars => (TypeOK /\ HeightInv)'
    BY TypeStep, HeightStep
  <1>3. HeightInv => HeightsNearDisk
    BY DEF HeightInv
  <1> QED BY <1>1, <1>2, <1>3, PTL DEF Spec

\* DiskHeightGrows: the height a restart resumes from only grows, or falls to
\* zero when a crash tears state.json, or by the one block that was produced
\* between the two halves of the final save.
THEOREM RestartHeightGrows == Spec => DiskHeightGrows
  <1> DEFINE Grows == \/ diskHeight' >= diskHeight
                      \/ Writing /\ diskHeight' = 0
                      \/ shutdown = "saving" /\ late /\ diskHeight' = diskHeight - 1
  <1>1. Init => TypeOK /\ HeightInv
    BY InitType, HeightInit
  <1>2. (TypeOK /\ HeightInv) /\ [Next]_vars => (TypeOK /\ HeightInv)'
    BY TypeStep, HeightStep
  <1>3. TypeOK /\ HeightInv /\ [Next]_vars => Grows
    <2> SUFFICES ASSUME TypeOK, HeightInv, [Next]_vars, diskHeight' # diskHeight
                 PROVE  Grows
      BY DEF TypeOK
    <2>1. diskHeight \in Nat /\ height \in Nat /\ final \in Nat /\ late \in BOOLEAN
      BY DEF TypeOK
    <2>2. CASE SaveBlock
      BY <2>1, <2>2 DEF SaveBlock, HeightInv, HeightsNearDisk
    <2>3. CASE EndFinalSave
      <3>1. running /\ diskHeight <= height /\ diskHeight' = final /\ shutdown = "saving"
        BY <2>3 DEF EndFinalSave, HeightInv, HeightsNearDisk, Quiet
      <3>2. height <= final + 1 /\ (~late => height = final)
        BY <3>1 DEF HeightInv, FinalIsNear
      <3> QED BY <2>1, <3>1, <3>2
    <2>4. CASE Crash
      BY <2>4 DEF Crash
    <2> QED
      BY <2>2, <2>3, <2>4
      DEF Next, vars, nodeVars, CommitBlock, ServeMint, ServeBurn, Transfer, Receive,
          Signal, BeginFinalSave, Restart
  <1> QED BY <1>1, <1>2, <1>3, PTL DEF Spec, DiskHeightGrows

-----------------------------------------------------------------------------
(* The ledger implements the abstract supply.                              *)

\* Two counters that are moved by the same amount and then wrapped have moved
\* by the same amount modulo their width.
LEMMA WrappedMovesAgree ==
  ASSUME NEW x \in Int, NEW y \in Int, NEW t \in Int
  PROVE  Token!Agree(Wrap(x + t) - x, Wrap(y + t) - y)
  <1> DEFINE n == 2 * Half
             a == Wrap(x + t)
             b == Wrap(y + t)
  <1>1. n \in Nat \ {0} /\ x + t \in Int /\ y + t \in Int
    BY ChainAssumption
  <1>2. PICK p \in Int : x + t = a + n * p
    BY <1>1, WrapType
  <1>3. PICK q \in Int : y + t = b + n * q
    BY <1>1, WrapType
  <1>4. a \in Int /\ b \in Int
    BY <1>1, WrapInt
  <1> HIDE DEF n, a, b
  <1>5. n * p \in Int /\ n * q \in Int /\ n * (q - p) = n * q - n * p /\ q - p \in Int
    BY <1>1
  <1>6. (a - x) - (b - y) = n * (q - p) + 0
    BY <1>2, <1>3, <1>4, <1>5
  <1>7. (a - x) - (b - y) \in Int /\ 0 \in 0 .. n - 1
    BY <1>1, <1>4
  <1>8. ((a - x) - (b - y)) % n = 0
    BY <1>1, <1>5, <1>6, <1>7, DivisionUnique
  <1> QED BY <1>1, <1>8 DEF Token!Agree, n, a, b

\* A mint of the ledger is a mint of the abstract supply.
LEMMA MintIsMint ==
  ASSUME ChainTypeOK, NEW ext \in Certs, NEW mwh \in Nat, NEW h \in Nat,
         MintFromCertificate(ext, mwh, h)
  PROVE  Token!Mint
  <1> DEFINE tokens == Wrap(mwh * TokensPerMWh)
             c == [ext |-> ext, mwh |-> mwh, tokens |-> tokens, block |-> h]
             backed == {certificates[i].ext : i \in DOMAIN certificates}
  <1>1. tokens \in Int /\ totalSupply \in Int /\ totalMinted \in Int
    <2>1. mwh * TokensPerMWh \in Int
      BY ChainAssumption
    <2> QED BY <2>1, WrapInt DEF ChainTypeOK
  <1>2. totalMinted' = Wrap(totalMinted + tokens) /\ totalSupply' = Wrap(totalSupply + tokens)
        /\ totalBurned' = totalBurned
    BY DEF MintFromCertificate, SupplyAfterMint
  <1>3. certificates \in Seq(Certificate) /\ certificates' = Append(certificates, c)
    BY DEF ChainTypeOK, MintFromCertificate
  <1>4. c.ext = ext /\ ext \notin backed
    BY DEF MintFromCertificate, Registered
  <1> HIDE DEF tokens, c
  <1>5. {certificates'[i].ext : i \in DOMAIN certificates'} = backed \cup {ext}
    <2>1. /\ DOMAIN certificates' = 1 .. Len(certificates) + 1
          /\ DOMAIN certificates = 1 .. Len(certificates) /\ Len(certificates) \in Nat
          /\ certificates'[Len(certificates) + 1] = c
          /\ \A i \in 1 .. Len(certificates) : certificates'[i] = certificates[i]
      BY <1>3
    <2>2. DOMAIN certificates' = DOMAIN certificates \cup {Len(certificates) + 1}
      BY <2>1
    <2> QED BY <1>4, <2>1, <2>2
  <1>6. Token!Agree(totalSupply' - totalSupply, totalMinted' - totalMinted)
    BY <1>1, <1>2, WrappedMovesAgree
  <1> QED BY <1>2, <1>4, <1>5, <1>6 DEF Token!Mint

\* A wrapped number agrees with the number itself.
LEMMA WrapAgrees ==
  ASSUME NEW x \in Int
  PROVE  Token!Agree(Wrap(x), x)
  <1> DEFINE n == 2 * Half
             a == Wrap(x)
  <1>1. n \in Nat \ {0}
    BY ChainAssumption
  <1>2. PICK q \in Int : x = a + n * q
    BY WrapType
  <1>3. a \in Int
    BY WrapInt
  <1> HIDE DEF n, a
  <1>4. n * q \in Int /\ -q \in Int /\ n * (-q) = -(n * q) /\ 0 \in 0 .. n - 1
    BY <1>1
  <1>5. a - x \in Int /\ a - x = n * (-q) + 0
    BY <1>2, <1>3, <1>4
  <1>6. (a - x) % n = 0
    BY <1>1, <1>4, <1>5, DivisionUnique
  <1> QED BY <1>1, <1>6 DEF Token!Agree, n, a

\* A burn of the ledger, of an amount of either sign, is a burn of the abstract
\* supply.
LEMMA BurnIsBurn ==
  ASSUME ChainTypeOK, NEW amount \in BurnAmounts, NEW h \in Nat, BurnTokens(amount, h)
  PROVE  Token!Burn
  <1>1. /\ amount \in Int /\ totalSupply \in Int /\ totalBurned \in Int
        /\ amount <= totalSupply
    BY NodeAssumption, WrapInt DEF ChainTypeOK, BurnTokens
  <1>2. totalSupply' = Wrap(totalSupply - amount) /\ totalBurned' = Wrap(totalBurned + amount)
        /\ UNCHANGED <<certificates, totalMinted>>
    BY DEF BurnTokens
  <1>3. totalSupply - amount \in Int /\ totalBurned + amount \in Int
    BY <1>1
  <1>4. /\ Token!Agree(totalSupply', totalSupply - amount)
        /\ Token!Agree(totalBurned', totalBurned + amount)
    BY <1>2, <1>3, WrapAgrees
  <1> QED BY <1>1, <1>2, <1>4 DEF Token!Burn

LEMMA SupplyStep ==
  TypeOK /\ [Next]_vars => [Token!Next]_(Token!supplyVars)
  <1> SUFFICES ASSUME TypeOK, [Next]_vars
               PROVE  [Token!Next]_(Token!supplyVars)
    OBVIOUS
  <1>1. ASSUME NEW r \in requests, ServeMint(r)
        PROVE  [Token!Next]_(Token!supplyVars)
    <2>1. r.ext \in Certs /\ r.mwh \in Nat /\ r.height \in Nat
      BY <1>1, NodeAssumption DEF TypeOK, ServeMint, MintRequest, BurnRequest
    <2>2. CASE MintFromCertificate(r.ext, r.mwh, r.height)
      BY <2>1, <2>2, MintIsMint DEF TypeOK, Token!Next
    <2>3. CASE UNCHANGED chainVars
      BY <2>3 DEF chainVars, Token!supplyVars
    <2> QED BY <1>1, <2>2, <2>3 DEF ServeMint
  <1>2. ASSUME NEW r \in requests, ServeBurn(r)
        PROVE  [Token!Next]_(Token!supplyVars)
    <2>1. r.amount \in BurnAmounts /\ r.height \in Nat
      BY <1>2 DEF TypeOK, ServeBurn, MintRequest, BurnRequest
    <2>2. CASE BurnTokens(r.amount, r.height)
      BY <2>1, <2>2, BurnIsBurn DEF TypeOK, Token!Next
    <2>3. CASE UNCHANGED chainVars
      BY <2>3 DEF chainVars, Token!supplyVars
    <2> QED BY <1>2, <2>2, <2>3 DEF ServeBurn
  <1>3. CASE ChainLost
    BY <1>3 DEF ChainLost, Token!Lose, Token!Next
  <1>4. CASE UNCHANGED <<certificates, totalMinted, totalBurned, totalSupply>>
    BY <1>4 DEF Token!supplyVars
  <1> QED
    BY <1>1, <1>2, <1>3, <1>4
    DEF Next, vars, chainVars, nodeVars, CommitBlock, SaveBlock, Receive, Transfer,
        TransferFromMinting, Signal, BeginFinalSave, EndFinalSave, Crash, Restart

\* ImplementsSupply: every step of the ledger behind the RPC server, whatever is
\* in flight, refused, repeated or lost, is one mint per certificate or a burn
\* of the abstract supply, for amounts of either sign, or none of its steps.
THEOREM LedgerIsTokenSupply == Spec => ImplementsSupply
  <1>1. Init => Token!Init
    BY DEF Init, ChainInit, Token!Init
  <1>2. Init => TypeOK
    BY InitType
  <1>3. TypeOK /\ [Next]_vars => TypeOK'
    BY TypeStep
  <1>4. TypeOK /\ [Next]_vars => [Token!Next]_(Token!supplyVars)
    BY SupplyStep
  <1> QED BY <1>1, <1>2, <1>3, <1>4, PTL DEF Spec, ImplementsSupply, Token!Spec

-----------------------------------------------------------------------------
(* The totals of the ledger.                                               *)

\* Wrapping a factor does not change the wrapped product.
LEMMA WrapProduct ==
  ASSUME NEW x \in Int, NEW k \in Int
  PROVE  Wrap(Wrap(x) * k) = Wrap(x * k)
  <1> DEFINE n == 2 * Half
  <1>1. Wrap(x) \in Int /\ n \in Int
    BY ChainAssumption, WrapInt
  <1>2. PICK q \in Int : x = Wrap(x) + n * q
    BY WrapType
  <1>3. PICK y \in Int : y = Wrap(x)
    BY <1>1
  <1> HIDE DEF n
  <1>4. x * k = y * k + n * (q * k)
    <2>1. PICK p \in Int : p = n * q
      BY <1>1
    <2>2. x * k = y * k + p * k
      <3>1. x = y + p
        BY <1>2, <1>3, <2>1
      <3>2. \A u, v, w \in Int : (u + v) * w = u * w + v * w
        OBVIOUS
      <3> QED BY <3>1, <3>2, <1>3, <2>1
    <2>3. p * k = n * (q * k)
      BY <1>1, <2>1
    <2> QED BY <2>2, <2>3
  <1>5. q * k \in Int /\ x * k \in Int /\ y * k \in Int
    BY <1>3
  <1>6. Wrap(x * k) = Wrap(y * k)
    BY <1>4, <1>5, WrapCongruent DEF n
  <1> QED BY <1>3, <1>6

\* What SupplyReconciles sums.
Minted == [i \in DOMAIN certificates |-> certificates[i].tokens]
Energy == [i \in DOMAIN certificates |-> certificates[i].mwh]
Burned == [i \in DOMAIN burns |-> burns[i].amount]

LEMMA ReconcilesParts ==
  /\ SupplyReconciles <=>
        /\ totalMinted = Wrap(SumFunction(Minted))
        /\ totalMWh = Wrap(SumFunction(Energy))
        /\ totalBurned = Wrap(SumFunction(Burned))
        /\ totalSupply = Wrap(SumFunction(Minted) - SumFunction(Burned))
        /\ totalMinted = Wrap(totalMWh * TokensPerMWh)
  /\ SupplyReconciles' <=>
        /\ totalMinted' = Wrap(SumFunction(Minted'))
        /\ totalMWh' = Wrap(SumFunction(Energy'))
        /\ totalBurned' = Wrap(SumFunction(Burned'))
        /\ totalSupply' = Wrap(SumFunction(Minted') - SumFunction(Burned'))
        /\ totalMinted' = Wrap(totalMWh' * TokensPerMWh)
  BY DEF SupplyReconciles, Minted, Energy, Burned

LEMMA SumsType ==
  ASSUME ChainTypeOK
  PROVE  /\ SumFunction(Minted) \in Int
         /\ SumFunction(Energy) \in Int
         /\ SumFunction(Burned) \in Int
  <1>1. certificates \in Seq(Certificate) /\ burns \in Seq(BurnEvent)
    BY DEF ChainTypeOK
  <1>2. IsFiniteSet(DOMAIN certificates) /\ IsFiniteSet(DOMAIN burns)
    <2>1. \A n \in Nat : IsFiniteSet(1 .. n)
      BY FS_Interval
    <2> QED BY <1>1, <2>1
  <1>3. \A i \in DOMAIN certificates : certificates[i] \in Certificate
    BY <1>1
  <1>4. \A i \in DOMAIN burns : burns[i] \in BurnEvent
    BY <1>1
  <1>5. /\ \A i \in DOMAIN certificates : Minted[i] \in Int /\ Energy[i] \in Int
        /\ \A i \in DOMAIN burns : Burned[i] \in Int
    <2>1. \A c \in Certificate : c.tokens \in Int64 /\ c.mwh \in Nat
      BY DEF Certificate
    <2>3. Int64 \subseteq Int
      BY WrapInt
    <2>2. \A b \in BurnEvent : b.amount \in Int
      BY <2>3 DEF BurnEvent
    <2>4. \A i \in DOMAIN certificates : Minted[i] \in Int
      BY <1>3, <2>1, <2>3 DEF Minted
    <2>5. \A i \in DOMAIN certificates : Energy[i] \in Int
      BY <1>3, <2>1 DEF Energy
    <2>6. \A i \in DOMAIN burns : Burned[i] \in Int
      BY <1>4, <2>2 DEF Burned
    <2> QED BY <2>4, <2>5, <2>6
  <1>6. /\ DOMAIN Minted = DOMAIN certificates /\ DOMAIN Energy = DOMAIN certificates
        /\ DOMAIN Burned = DOMAIN burns
    BY DEF Minted, Energy, Burned
  <1> QED BY <1>2, <1>5, <1>6, SumInt DEF SumFunction

LEMMA MintReconciles ==
  ASSUME ChainTypeOK, SupplyReconciles, NEW ext \in Certs, NEW mwh \in Nat, NEW h \in Nat,
         MintFromCertificate(ext, mwh, h)
  PROVE  SupplyReconciles'
  <1> DEFINE T == TokensPerMWh
             cert == [ext |-> ext, mwh |-> mwh, tokens |-> Wrap(mwh * T), block |-> h]
  <1>1. T \in Int /\ mwh * T \in Int
    BY ChainAssumption
  <1>2. PICK t \in Int64 : t = Wrap(mwh * T) /\ t \in Int
    BY <1>1, WrapInt
  <1>3. cert \in Certificate
    BY <1>2 DEF Certificate
  <1>4. /\ certificates' = Append(certificates, cert) /\ certificates \in Seq(Certificate)
        /\ totalMinted' = Wrap(totalMinted + t)
        /\ totalSupply' = Wrap(totalSupply + t)
        /\ totalMWh' = Wrap(totalMWh + mwh)
        /\ burns' = burns /\ totalBurned' = totalBurned
    BY <1>2 DEF MintFromCertificate, SupplyAfterMint, ChainTypeOK
  <1>5. cert.tokens = t /\ cert.mwh = mwh
    BY <1>2
  <1> HIDE DEF cert, T
  <1>6. PICK n \in Nat :
           /\ DOMAIN certificates = 1 .. n
           /\ DOMAIN certificates' = (1 .. n) \cup {n + 1}
           /\ IsFiniteSet(1 .. n) /\ n + 1 \notin 1 .. n
           /\ \A i \in 1 .. n : certificates'[i] = certificates[i]
                                /\ certificates[i] \in Certificate
           /\ certificates'[n + 1] = cert
    <2> DEFINE l == Len(certificates)
    <2>1. /\ l \in Nat
          /\ DOMAIN certificates = 1 .. l /\ DOMAIN certificates' = 1 .. (l + 1)
          /\ \A i \in 1 .. l : certificates'[i] = certificates[i] /\ certificates[i] \in Certificate
          /\ certificates'[l + 1] = cert
      BY <1>3, <1>4
    <2> QED BY <2>1, Indices
  <1>7. /\ DOMAIN Minted = 1 .. n /\ DOMAIN Minted' = (1 .. n) \cup {n + 1}
        /\ \A i \in 1 .. n : Minted[i] \in Int /\ Minted'[i] = Minted[i]
        /\ Minted'[n + 1] = t
    BY <1>5, <1>6, WrapInt DEF Minted, Certificate
  <1>8. /\ DOMAIN Energy = 1 .. n /\ DOMAIN Energy' = (1 .. n) \cup {n + 1}
        /\ \A i \in 1 .. n : Energy[i] \in Int /\ Energy'[i] = Energy[i]
        /\ Energy'[n + 1] = mwh
    BY <1>5, <1>6 DEF Energy, Certificate
  <1>9. SumFunction(Minted') = SumFunction(Minted) + t
    <2>1. PICK f, g, S, new : f = Minted /\ g = Minted' /\ S = 1 .. n /\ new = n + 1
      OBVIOUS
    <2>2. IsFiniteSet(S) /\ new \notin S
      BY <1>6, <2>1
    <2>3. DOMAIN f = S /\ DOMAIN g = S \cup {new}
      BY <1>7, <2>1
    <2>4. \A y \in S : f[y] \in Int /\ g[y] = f[y]
      BY <1>7, <2>1
    <2>5. g[new] = t /\ g[new] \in Int
      BY <1>2, <1>7, <2>1
    <2>6. SumFunction(g) = SumFunction(f) + g[new]
      BY <2>2, <2>3, <2>4, <2>5, TotalGrow
    <2> QED BY <2>1, <2>5, <2>6
  <1>10. SumFunction(Energy') = SumFunction(Energy) + mwh
    <2>1. PICK f, g, S, new : f = Energy /\ g = Energy' /\ S = 1 .. n /\ new = n + 1
      OBVIOUS
    <2>2. IsFiniteSet(S) /\ new \notin S
      BY <1>6, <2>1
    <2>3. DOMAIN f = S /\ DOMAIN g = S \cup {new}
      BY <1>8, <2>1
    <2>4. \A y \in S : f[y] \in Int /\ g[y] = f[y]
      BY <1>8, <2>1
    <2>5. g[new] = mwh /\ g[new] \in Int
      BY <1>8, <2>1
    <2>6. SumFunction(g) = SumFunction(f) + g[new]
      BY <2>2, <2>3, <2>4, <2>5, TotalGrow
    <2> QED BY <2>1, <2>5, <2>6
  <1>11. Burned' = Burned
    BY <1>4 DEF Burned
  <1>12. PICK m \in Int, e \in Int, b \in Int :
            m = SumFunction(Minted) /\ e = SumFunction(Energy) /\ b = SumFunction(Burned)
    BY SumsType
  <1>13. /\ totalMinted = Wrap(m) /\ totalMWh = Wrap(e) /\ totalBurned = Wrap(b)
         /\ totalSupply = Wrap(m - b) /\ totalMinted = Wrap(totalMWh * T)
    BY <1>12, ReconcilesParts DEF T
  <1>14. totalMinted' = Wrap(m + t) /\ totalMWh' = Wrap(e + mwh)
    <2>1. Wrap(Wrap(m) + t) = Wrap(m + t)
      BY <1>2, <1>12, WrapSum
    <2>2. Wrap(Wrap(e) + mwh) = Wrap(e + mwh)
      BY <1>12, WrapSum
    <2> QED BY <1>4, <1>13, <2>1, <2>2
  <1>15. totalSupply' = Wrap((m + t) - b)
    <2>1. m - b \in Int /\ (m - b) + t = (m + t) - b
      BY <1>2, <1>12
    <2>2. Wrap(Wrap(m - b) + t) = Wrap((m - b) + t)
      BY <1>2, <2>1, WrapSum
    <2> QED BY <1>4, <1>13, <2>1, <2>2
  <1>16. totalMinted' = Wrap(totalMWh' * T)
    <2>1. PICK w \in Int : w = totalMWh
      BY <1>13, <1>12, WrapInt
    <2>2. /\ w + mwh \in Int /\ w * T \in Int
          /\ (w + mwh) * T = w * T + mwh * T
      BY <1>1, <2>1
    <2>3. Wrap(totalMWh' * T) = Wrap((w + mwh) * T)
      BY <1>1, <1>4, <2>1, <2>2, WrapProduct
    <2>4. Wrap(Wrap(w * T) + t) = Wrap(w * T + t)
      BY <1>2, <2>2, WrapSum
    <2>5. Wrap(Wrap(mwh * T) + w * T) = Wrap(mwh * T + w * T)
      BY <1>1, <2>2, WrapSum
    <2>6. w * T + t = t + w * T /\ mwh * T + w * T = w * T + mwh * T
      BY <1>1, <1>2, <2>2
    <2> QED BY <1>2, <1>4, <1>13, <2>1, <2>2, <2>3, <2>4, <2>5, <2>6
  <1> QED BY <1>4, <1>9, <1>10, <1>11, <1>12, <1>13, <1>14, <1>15, <1>16, ReconcilesParts
          DEF T

LEMMA BurnReconciles ==
  ASSUME ChainTypeOK, SupplyReconciles, NEW amount \in Int64, NEW h \in Nat,
         BurnTokens(amount, h)
  PROVE  SupplyReconciles'
  <1> DEFINE event == [amount |-> amount, block |-> h]
  <1>0. amount \in Int /\ \A e \in BurnEvent : e.amount \in Int
    BY WrapInt DEF BurnEvent
  <1>1. event \in BurnEvent /\ event.amount = amount
    BY DEF BurnEvent
  <1>2. /\ burns' = Append(burns, event) /\ burns \in Seq(BurnEvent)
        /\ totalBurned' = Wrap(totalBurned + amount)
        /\ totalSupply' = Wrap(totalSupply - amount)
        /\ UNCHANGED <<certificates, totalMinted, totalMWh>>
    BY DEF BurnTokens, ChainTypeOK
  <1> HIDE DEF event
  <1>3. PICK n \in Nat :
           /\ DOMAIN burns = 1 .. n /\ DOMAIN burns' = (1 .. n) \cup {n + 1}
           /\ IsFiniteSet(1 .. n) /\ n + 1 \notin 1 .. n
           /\ \A i \in 1 .. n : burns'[i] = burns[i] /\ burns[i] \in BurnEvent
           /\ burns'[n + 1] = event
    <2> DEFINE l == Len(burns)
    <2>1. /\ l \in Nat
          /\ DOMAIN burns = 1 .. l /\ DOMAIN burns' = 1 .. (l + 1)
          /\ \A i \in 1 .. l : burns'[i] = burns[i] /\ burns[i] \in BurnEvent
          /\ burns'[l + 1] = event
      BY <1>1, <1>2
    <2> QED BY <2>1, Indices
  <1>4. /\ DOMAIN Burned = 1 .. n /\ DOMAIN Burned' = (1 .. n) \cup {n + 1}
        /\ \A i \in 1 .. n : Burned[i] \in Int /\ Burned'[i] = Burned[i]
        /\ Burned'[n + 1] = amount
    BY <1>0, <1>1, <1>3 DEF Burned
  <1>5. SumFunction(Burned') = SumFunction(Burned) + amount
    <2>1. PICK f, g, S, new : f = Burned /\ g = Burned' /\ S = 1 .. n /\ new = n + 1
      OBVIOUS
    <2>2. IsFiniteSet(S) /\ new \notin S
      BY <1>3, <2>1
    <2>3. DOMAIN f = S /\ DOMAIN g = S \cup {new}
      BY <1>4, <2>1
    <2>4. \A y \in S : f[y] \in Int /\ g[y] = f[y]
      BY <1>4, <2>1
    <2>5. g[new] = amount /\ g[new] \in Int
      BY <1>0, <1>4, <2>1
    <2>6. SumFunction(g) = SumFunction(f) + g[new]
      BY <2>2, <2>3, <2>4, <2>5, TotalGrow
    <2> QED BY <2>1, <2>5, <2>6
  <1>6. Minted' = Minted /\ Energy' = Energy
    BY <1>2 DEF Minted, Energy
  <1>7. PICK m \in Int, b \in Int : m = SumFunction(Minted) /\ b = SumFunction(Burned)
    BY SumsType
  <1>8. totalBurned = Wrap(b) /\ totalSupply = Wrap(m - b)
    BY <1>7, ReconcilesParts
  <1>9. totalBurned' = Wrap(b + amount)
    BY <1>0, <1>2, <1>7, <1>8, WrapSum
  <1>10. totalSupply' = Wrap(m - (b + amount))
    <2>1. m - b \in Int /\ -amount \in Int /\ (m - b) + (-amount) = m - (b + amount)
      BY <1>0, <1>7
    <2>2. Wrap(Wrap(m - b) + (-amount)) = Wrap((m - b) + (-amount))
      BY <2>1, WrapSum
    <2>3. Wrap(m - b) + (-amount) = Wrap(m - b) - amount
      BY <2>1, WrapInt
    <2> QED BY <1>2, <1>8, <2>1, <2>2, <2>3
  <1> QED BY <1>2, <1>5, <1>6, <1>7, <1>9, <1>10, ReconcilesParts

LEMMA WrapZero == Wrap(0) = 0
  <1>1. Half \in Nat \ {0} /\ 2 * Half \in Nat \ {0} /\ Half = (2 * Half) * 0 + Half
        /\ Half \in 0 .. 2 * Half - 1
    BY ChainAssumption
  <1>2. Half % (2 * Half) = Half
    BY <1>1, DivisionUnique
  <1> QED BY <1>1, <1>2 DEF Wrap

LEMMA EmptyReconciles ==
  /\ ChainInit => SupplyReconciles
  /\ ChainLost => SupplyReconciles'
  <1>1. 0 * TokensPerMWh = 0 /\ 0 - 0 = 0
    BY ChainAssumption
  <1>2. ASSUME ChainInit PROVE SupplyReconciles
    <2>1. DOMAIN Minted = {} /\ DOMAIN Energy = {} /\ DOMAIN Burned = {}
      BY <1>2 DEF ChainInit, Minted, Energy, Burned
    <2>2. SumFunction(Minted) = 0 /\ SumFunction(Energy) = 0 /\ SumFunction(Burned) = 0
      BY <2>1, SumEmpty DEF SumFunction
    <2> QED BY <1>1, <1>2, <2>2, WrapZero, ReconcilesParts DEF ChainInit
  <1>3. ASSUME ChainLost PROVE SupplyReconciles'
    <2>1. DOMAIN Minted' = {} /\ DOMAIN Energy' = {} /\ DOMAIN Burned' = {}
      BY <1>3 DEF ChainLost, Minted, Energy, Burned
    <2>2. SumFunction(Minted') = 0 /\ SumFunction(Energy') = 0 /\ SumFunction(Burned') = 0
      BY <2>1, SumEmpty DEF SumFunction
    <2> QED BY <1>1, <1>3, <2>2, WrapZero, ReconcilesParts DEF ChainLost
  <1> QED BY <1>2, <1>3

LEMMA ReconcilesStep == TypeOK /\ SupplyReconciles /\ [Next]_vars => SupplyReconciles'
  <1> SUFFICES ASSUME TypeOK, SupplyReconciles, [Next]_vars PROVE SupplyReconciles'
    OBVIOUS
  <1>0. ChainTypeOK
    BY DEF TypeOK
  <1>1. ASSUME NEW r \in requests, r.kind = "mint",
               MintFromCertificate(r.ext, r.mwh, r.height)
        PROVE  SupplyReconciles'
    <2>1. r.ext \in Certs /\ r.mwh \in Nat /\ r.height \in Nat
      BY <1>1, NodeAssumption DEF TypeOK, MintRequest, BurnRequest
    <2> QED BY <1>0, <1>1, <2>1, MintReconciles
  <1>2. ASSUME NEW r \in requests, r.kind = "burn", BurnTokens(r.amount, r.height)
        PROVE  SupplyReconciles'
    <2>1. r.amount \in Int64 /\ r.height \in Nat
      BY <1>2, NodeAssumption DEF TypeOK, MintRequest, BurnRequest
    <2> QED BY <1>0, <1>2, <2>1, BurnReconciles
  <1>3. ASSUME UNCHANGED <<certificates, burns, totalMinted, totalBurned, totalSupply,
                           totalMWh>>
        PROVE  SupplyReconciles'
    <2>1. Minted' = Minted /\ Energy' = Energy /\ Burned' = Burned
      BY <1>3 DEF Minted, Energy, Burned
    <2> QED BY <1>3, <2>1, ReconcilesParts
  <1>4. CASE ChainLost
    BY <1>4, EmptyReconciles
  <1> QED
    BY <1>1, <1>2, <1>3, <1>4
    DEF Next, vars, chainVars, nodeVars, CommitBlock, SaveBlock, Receive, ServeMint, ServeBurn,
        Transfer, TransferFromMinting, Signal, BeginFinalSave, EndFinalSave, Crash, Restart

\* The totals the ledger keeps are what its certificates and burns add up to,
\* and its supply what was minted and not burned, for any history and once the
\* 64-bit counters have wrapped.
THEOREM SupplyReconciled == Spec => []SupplyReconciles
  <1>1. Init => TypeOK /\ SupplyReconciles
    BY InitType, EmptyReconciles DEF Init
  <1>2. (TypeOK /\ SupplyReconciles) /\ [Next]_vars => (TypeOK /\ SupplyReconciles)'
    BY TypeStep, ReconcilesStep
  <1> QED BY <1>1, <1>2, PTL DEF Spec

=============================================================================
