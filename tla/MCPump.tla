-------------------------------- MODULE MCPump --------------------------------
(* Small instances of Pump for TLC. *)
EXTENDS PumpEscrow, PumpMoney, PumpClaims, CurveFormula, TLC

CONSTANTS dev, user  \* two wallets

MCWallets == {dev, user}

Settings(authority, limit, tokens0, sol0, supply, paused, completed) ==
    [ authority |-> authority, fee_recipient |-> dev, curve_limit |-> limit,
      initial_virtual_token_reserves |-> tokens0,
      initial_virtual_sol_reserves |-> sol0,
      initial_real_token_reserves |-> tokens0, total_token_supply |-> supply,
      paused |-> paused, is_completed |-> completed ]

\* Regular operation, the paused program, the completed program handed to user,
\* and an authority given up: whoever configures next becomes it.
CodeConfigs ==
    { Settings(dev, 2, 3, 1, 1, FALSE, FALSE),
      Settings(dev, 2, 3, 1, 1, TRUE, FALSE),
      Settings(user, 2, 3, 1, 1, FALSE, TRUE),
      Settings(NoKey, 2, 3, 1, 1, FALSE, FALSE) }

\* dev launches; both trade.
CodeFunds == (dev :> 9 @@ user :> 6)

\* The same four situations with two tokens and a limit two buys away, for any
\* formula: the paused configuration also lowers the limit, and the completed one
\* mints one token only.
ProgramConfigs ==
    { Settings(dev, 3, 2, 1, 2, FALSE, FALSE),
      Settings(dev, 2, 2, 1, 2, TRUE, FALSE),
      Settings(user, 2, 2, 1, 1, FALSE, TRUE),
      Settings(NoKey, 3, 2, 1, 2, FALSE, FALSE) }

ProgramFunds == (dev :> 8 @@ user :> 6)

\* Two curves, no pause: what is done to one leaves the other alone.
TwinConfigs == { Settings(dev, 2, 2, 1, 1, FALSE, FALSE) }
TwinFunds == (dev :> 8 @@ user :> 2)

\* The configuration OpenIsBelowTheLimit needs: its limit is above the opening.
RoomyConfigs == { Settings(dev, 3, 3, 1, 2, FALSE, FALSE) }
\* The same, and a lower limit.
LoweredConfigs == RoomyConfigs \cup { Settings(dev, 2, 3, 2, 2, FALSE, FALSE) }
=============================================================================
