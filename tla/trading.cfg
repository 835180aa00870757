SPECIFICATION Spec
CONSTANTS
    u1 = u1
    u2 = u2
    Users <- MCUsers
    Deposits <- MCDeposits
    Withdrawals <- MCNoAmounts
    Offers <- MCOffers
    OrderTypes = {"limit"}
    Requests = {1}
    Sanctions = {FALSE}
    PriceScale = 2
    FeeScale = 1
    MakerFee = 0
    TakerFee = 1
    MinOrderSize = 1
    TierLimit <- MCTierLimit
    StableSortLen = 12
    TornWrites = FALSE
    MaxWallets = 2
    MaxOrders = 3
    MaxApps = 2
    MaxBalance = 2
    MaxDays = 2
SYMMETRY UserSymmetry
INVARIANTS TypeOK OrderAccounting BookIsLive LiveIsInBook NoCrossing BaseLockExact QuoteLockCovers FillsAreTraded VolumeIsTraded
PROPERTIES BestExecution TradesConserve ImplementsMarket
