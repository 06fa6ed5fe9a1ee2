SPECIFICATION ToolSpec
CONSTANTS
    dev = dev
    user = user
    m1 = m1
    Wallets <- MCWallets
    Mints <- MCMints
    Terminal <- dev
    CommandLines <- FeeLines
    Pda = pda
    NoKey = nokey
    NoKeyText = nokey
    Garbage = garbage
    MaxU64 = 3
    ConfigRent = 0
    MintCost = 0
    CurveRent = 1
    AtaRent = 1
    Funds <- ToolFunds
    Configs <- ToolConfigs
    Amounts = {0, 1}
    Quotes <- CalcAmountOut
    MaxOut = 0
PROPERTY ConfiguresTheFeeAsked
