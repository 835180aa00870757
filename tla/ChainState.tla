----------------------------- MODULE ChainState -----------------------------
(***************************************************************************)
(* The node's token ledger (cmd/ftgd/chain_state.go): certificates, burns, *)
(* the transaction log, the supply totals and the three treasury balances. *)
(* Each operation runs under cs.mu and saves before it unlocks, so it is   *)
(* one step; the block height it records is an argument, read by the RPC   *)
(* handler before the call (module Node).  Totals are 64-bit integers that *)
(* wrap around; here their width is the constant Half = 2^63.              *)
(***************************************************************************)
EXTENDS Integers, Sequences, FiniteSets, Functions

CONSTANTS
    Certs,        \* external certificate ids
    TokensPerMWh, \* 100_000_000 in the code: uftg per MWh
    Half          \* integers lie in -Half .. Half - 1

ASSUME ChainAssumption ==
    /\ TokensPerMWh \in Nat \ {0}
    /\ Half \in Nat \ {0}

VARIABLES
    certificates,   \* cs.Certificates: external id, MWh, tokens, block
    burns,          \* cs.BurnEvents: amount, block
    txs,            \* cs.Transactions: kind and height
    totalMinted, totalBurned, totalSupply, totalMWh,
    treasury        \* TreasuryMinting, TreasuryCommitted, TreasuryLiquidity

chainVars == <<certificates, burns, txs, totalMinted, totalBurned, totalSupply,
               totalMWh, treasury>>

Accounts == {"minting", "committed", "liquidity"}

Int64 == -Half .. Half - 1

\* Mutated form of Wrap: a total grows past 64 bits.
NoWrap(x) == x

\* Two's complement: what int64 arithmetic keeps of an integer.
Wrap(x) == ((x + Half) % (2 * Half)) - Half

-----------------------------------------------------------------------------

ChainInit ==
    /\ certificates = <<>> /\ burns = <<>> /\ txs = <<>>
    /\ totalMinted = 0 /\ totalBurned = 0 /\ totalSupply = 0 /\ totalMWh = 0
    /\ treasury = [a \in Accounts |-> 0]

\* Mutated form of Registered: only the last certificate is compared.
LastRegistered(ext) ==
    certificates # <<>> /\ certificates[Len(certificates)].ext = ext

Registered(ext) == \E i \in DOMAIN certificates : certificates[i].ext = ext

\* Mutated form of SupplyAfterMint: supply is set to what was ever minted.
SupplyIsMinted(tokens) == Wrap(totalMinted + tokens)

SupplyAfterMint(tokens) == Wrap(totalSupply + tokens)

MintFromCertificate(ext, mwh, height) ==
    LET tokens == Wrap(mwh * TokensPerMWh) IN
    /\ ~Registered(ext)
    /\ certificates' = Append(certificates,
          [ext |-> ext, mwh |-> mwh, tokens |-> tokens, block |-> height])
    /\ totalMinted' = Wrap(totalMinted + tokens)
    /\ totalSupply' = SupplyAfterMint(tokens)
    /\ totalMWh' = Wrap(totalMWh + mwh)
    /\ treasury' = [treasury EXCEPT !["minting"] = Wrap(@ + tokens)]
    /\ txs' = Append(txs, [kind |-> "mint", height |-> height])
    /\ UNCHANGED <<burns, totalBurned>>

\* Burning is limited by the supply alone: no treasury balance pays for it, and
\* a negative amount passes.
BurnTokens(amount, height) ==
    /\ amount <= totalSupply
    /\ burns' = Append(burns, [amount |-> amount, block |-> height])
    /\ totalBurned' = Wrap(totalBurned + amount)
    /\ totalSupply' = Wrap(totalSupply - amount)
    /\ txs' = Append(txs, [kind |-> "burn", height |-> height])
    /\ UNCHANGED <<certificates, totalMinted, totalMWh, treasury>>

\* Mutated form of Moved: the destination is credited and nothing debited.
MovedTwice(amount, dest) == [treasury EXCEPT ![dest] = Wrap(@ + amount)]

Moved(amount, dest) ==
    [treasury EXCEPT !["minting"] = Wrap(@ - amount), ![dest] = Wrap(@ + amount)]

\* TransferFromMintingToCommitted and TransferFromMintingToLiquidity.
TransferFromMinting(amount, dest) ==
    /\ dest \in {"committed", "liquidity"}
    /\ amount <= treasury["minting"]
    /\ treasury' = Moved(amount, dest)
    /\ UNCHANGED <<certificates, burns, txs, totalMinted, totalBurned, totalSupply,
                   totalMWh>>

\* NewChainState after a file that does not parse.
ChainLost ==
    /\ certificates' = <<>> /\ burns' = <<>> /\ txs' = <<>>
    /\ totalMinted' = 0 /\ totalBurned' = 0 /\ totalSupply' = 0 /\ totalMWh' = 0
    /\ treasury' = [a \in Accounts |-> 0]

-----------------------------------------------------------------------------

Certificate == [ext : Certs, mwh : Nat, tokens : Int64, block : Nat]
BurnEvent   == [amount : Int64, block : Nat]
Tx          == [kind : {"mint", "burn"}, height : Nat]

ChainTypeOK ==
    /\ certificates \in Seq(Certificate)
    /\ burns \in Seq(BurnEvent)
    /\ txs \in Seq(Tx)
    /\ totalMinted \in Int64 /\ totalBurned \in Int64
    /\ totalSupply \in Int64 /\ totalMWh \in Int64
    /\ treasury \in [Accounts -> Int64]

\* No certificate is in the ledger twice, however many requests for it are in
\* flight at once (the duplicate scan of MintFromCertificate, over the list the
\* file had: of a ledger that a torn write lost it knows nothing).
NoDoubleMint ==
    \A i, j \in 1 .. Len(certificates) :
        certificates[i].ext = certificates[j].ext => i = j

\* The running totals are what the certificates and burns add up to, and the
\* supply is what was minted and not burned, modulo the width of the counters.
SupplyReconciles ==
    LET minted == SumFunction([i \in DOMAIN certificates |-> certificates[i].tokens])
        mwh    == SumFunction([i \in DOMAIN certificates |-> certificates[i].mwh])
        burned == SumFunction([i \in DOMAIN burns |-> burns[i].amount])
    IN  /\ totalMinted = Wrap(minted)
        /\ totalMWh = Wrap(mwh)
        /\ totalBurned = Wrap(burned)
        /\ totalSupply = Wrap(minted - burned)
        /\ totalMinted = Wrap(totalMWh * TokensPerMWh)

\* Every token minted is in one of the three treasury balances: transfers
\* neither create nor lose any, and nothing else touches them.
TreasuryIsMinted ==
    totalMinted =
        Wrap(treasury["minting"] + treasury["committed"] + treasury["liquidity"])

=============================================================================
