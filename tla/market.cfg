SPECIFICATION FairSpec
CONSTANTS
    u1 = u1
    u2 = u2
    Users <- MCUsers
    Deposits <- MCSignedBase
    Withdrawals <- MCSignedBase
    Offers <- MCSignedOffers
    OrderTypes = {"limit", "market"}
    Requests = {1}
    Sanctions = {FALSE}
    PriceScale = 2
    FeeScale = 1
    MakerFee = 0
    TakerFee = 1
    MinOrderSize = 1
    TierLimit <- MCTierLimit
    StableSortLen = 12
    TornWrites = TRUE
    MaxWallets = 2
    MaxOrders = 2
    MaxApps = 2
    MaxBalance = 2
    MaxDays = 1
PROPERTIES PlaceOrderReturns OnlyDepositsOverdraw
