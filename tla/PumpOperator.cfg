SPECIFICATION FairClientSpec
CONSTANTS
    dev = dev
    user = user
    Wallets <- MCWallets
    Buyers <- MCBuyers
    Operator <- dev
    Recipients <- MCRecipients
    Spends = {1}
    MaxInFlight = 1
    Mints = {m1}
    Pda = pda
    NoKey = nokey
    MaxU64 = 4
    ConfigRent = 1
    MintCost = 1
    CurveRent = 1
    AtaRent = 1
    Funds <- ClientFunds
    Configs <- ClientConfigs
    Amounts = {0, 1}
    Quotes <- CalcAmountOut
    MaxOut = 1
PROPERTY
    CompletedIsReleased
CHECK_DEADLOCK FALSE
