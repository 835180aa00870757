SPECIFICATION Spec
CONSTANTS
    stripe = stripe
    wire = wire
    Methods <- MCMethods
    Enabled <- MCEnabled
    Amounts = {1, 2, 3}
    MinAmount = 2
    MaxAmount = 2
    SettlementFee = 1
    FlatFee = 1
    BpsFee = 1
    FeeScale = 2
    Timeout = 1
    TornWrites = TRUE
    MaxDeposits = 2
    MaxWithdrawals = 2
    MaxEscrows = 2
    MaxTime = 3
INVARIANTS TypeOK SettledOnce TotalsReconcile ActiveCoversOpen
PROPERTIES Final
