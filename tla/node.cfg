SPECIFICATION Spec
CONSTANTS
    c1 = c1
    c2 = c2
    Certs <- MCCerts
    TokensPerMWh = 2
    Half = 4
    MWhs = {1, 2}
    BurnAmounts <- MCAmounts
    TransferAmounts = {1}
    SaveEvery = 2
    TornWrites = TRUE
    MaxHeight = 2
    MaxBurns = 1
    MaxInFlight = 2
SYMMETRY CertSymmetry
INVARIANTS TypeOK NoDoubleMint SupplyReconciles TreasuryIsMinted HeightsNearDisk
PROPERTIES DiskHeightGrows ImplementsSupply
