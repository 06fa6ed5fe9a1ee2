------------------------------- MODULE MCClient -------------------------------
(* Small instances of PumpClient for TLC. *)
EXTENDS PumpClient, CurveFormula, TLC

CONSTANTS dev, user  \* two wallets: dev operates, user buys

MCWallets == {dev, user}
MCBuyers == {user}
MCRecipients == {dev}

Settings(fee_recipient, paused, completed) ==
    [ authority |-> dev, fee_recipient |-> fee_recipient, curve_limit |-> 3,
      initial_virtual_token_reserves |-> 2, initial_virtual_sol_reserves |-> 1,
      initial_real_token_reserves |-> 2, total_token_supply |-> 1,
      paused |-> paused, is_completed |-> completed ]

\* Two fee recipients to change between, and the paused, completed program.
ClientConfigs ==
    { Settings(dev, FALSE, FALSE), Settings(user, FALSE, FALSE),
      Settings(dev, TRUE, TRUE) }

ClientFunds == (dev :> 5 @@ user :> 3)
=============================================================================
