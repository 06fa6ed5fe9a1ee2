SPECIFICATION Spec
CONSTANTS
    dev = dev
    user = user
    Wallets <- MCWallets
    Mints = {m1}
    Pda = pda
    NoKey = nokey
    MaxU64 = 4
    ConfigRent = 1
    MintCost = 1
    CurveRent = 1
    AtaRent = 1
    Funds <- ProgramFunds
    Configs <- ProgramConfigs
    Amounts = {0, 1, 2}
    Quotes <- AnyQuote
    MaxOut = 2
INVARIANTS
    TypeOK
    NothingStranded
    RentExempt
    ReservesBacked
    LamportsConserved
    SupplyConserved
PROPERTIES
    CompletedIsFinal
    PauseFreezesCurves
    OnlyTheAuthorityRules
    ReservesLeaveOnlyByRelease
    BuyMovesReserves
    CompletesFunded
CHECK_DEADLOCK FALSE
