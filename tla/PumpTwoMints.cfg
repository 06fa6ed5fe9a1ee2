SPECIFICATION Spec
CONSTANTS
    dev = dev
    user = user
    Wallets <- MCWallets
    Mints = {m1, m2}
    Pda = pda
    NoKey = nokey
    MaxU64 = 4
    ConfigRent = 1
    MintCost = 1
    CurveRent = 1
    AtaRent = 1
    Funds <- TwinFunds
    Configs <- TwinConfigs
    Amounts = {0, 1}
    Quotes <- AnyQuote
    MaxOut = 1
PROPERTIES
    ImplementsEscrow
CHECK_DEADLOCK FALSE
