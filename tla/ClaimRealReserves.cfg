SPECIFICATION Spec
CONSTANTS
    dev = dev
    user = user
    Wallets <- MCWallets
    Mints = {m1}
    Pda = pda
    NoKey = nokey
    MaxU64 = 4
    ConfigRent = 1
    MintCost = 1
    CurveRent = 1
    AtaRent = 1
    Funds <- CodeFunds
    Configs <- RoomyConfigs
    Amounts = {0, 1, 2}
    Quotes <- CalcAmountOut
    MaxOut = 1
PROPERTIES
    RealReservesAreReal
CHECK_DEADLOCK FALSE
