SPECIFICATION ScreeningSpec
CONSTANTS
    u1 = u1
    u2 = u2
    us = us
    ir = ir
    cu = cu
    Users <- MCUsers
    Countries <- MCCountries
    HighRisk <- MCHighRisk
    Blocked <- MCBlocked
    Deposits <- MCNoAmounts
    Withdrawals <- MCNoAmounts
    Offers <- MCCheapOffer
    OrderTypes = {"limit"}
    Requests = {1, 4}
    Sanctions = {TRUE, FALSE}
    PriceScale = 2
    FeeScale = 1
    MakerFee = 0
    TakerFee = 1
    MinOrderSize = 1
    TierLimit <- MCTierLimit
    StableSortLen = 12
    TornWrites = TRUE
    MaxWallets = 3
    MaxOrders = 1
    MaxApps = 2
    MaxBalance = 1
    MaxDays = 1
    MaxScreenings = 2
    MaxInFlight = 1
SYMMETRY UserSymmetry
INVARIANTS OnePerUser SanctionedIsFrozen TradersAreVerified ApplicationsAreScreened
PROPERTIES ScreeningsAreKept
