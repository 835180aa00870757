SPECIFICATION Spec
CONSTANTS
    owner = owner
    minting = minting
    committed = committed
    liquidity = liquidity
    c1 = c1
    c2 = c2
    Addrs <- MCAddrs
    Authority = owner
    Candidates <- MCCandidates
    Owner = owner
    Minting = minting
    Committed = committed
    Liquidity = liquidity
    Certs <- MCCerts
    Quantities = {1, 3, 4}
    DecScale = 2
    TokensPerMwh = 1
    MinCertificateMwh = 2
    BurnAmounts <- MCBurnAmounts
    Revenues <- MCRevenues
    MinBurnAmount = 1
    MerchantProtocolEnabled = TRUE
    MaxBurns = 2
    TransferAmounts <- MCAmounts
    MaxCommitments = 2
    certificate = certificate
    meme = meme
    Documents <- MCDocuments
    Accepted <- MCAccepted
    Holders <- MCHolders
    MaxDocuments = 2
    MaxCustody = 2
CONSTRAINT ShortHistory
INVARIANTS TypeOK SupplyIsBacked MintWithinBacking BurnStatsReconcile CommittedCovers RecordsAreIndexed
PROPERTIES CommitmentPaidOnce RecordsOnlyGrow ImplementsSupply
