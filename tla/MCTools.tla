-------------------------------- MODULE MCTools --------------------------------
(* A small instance of Toolbox for TLC: dev is at the terminal, and one mint. *)
EXTENDS Toolbox, CurveFormula, TLC

CONSTANTS dev, user, m1

MCWallets == {dev, user}
MCMints == {m1}
ToolFunds == (dev :> 4 @@ user :> 0)

\* A curve that completes with the first lamport; the configurations change the
\* authority, the fee recipient and the pause flag.
Settings(authority, fee_recipient, paused) ==
    [ authority |-> authority, fee_recipient |-> fee_recipient, curve_limit |-> 2,
      initial_virtual_token_reserves |-> 2, initial_virtual_sol_reserves |-> 1,
      initial_real_token_reserves |-> 0, total_token_supply |-> 1,
      paused |-> paused, is_completed |-> FALSE ]

ToolConfigs ==
    {Settings(dev, user, FALSE), Settings(user, dev, TRUE), Settings(user, user, FALSE)}

-----------------------------------------------------------------------------
Whole(n) == Number("int", 100 * n)
Url == [ANCHOR_PROVIDER_URL |-> Shape("word")]
Environment(given) == given @@ Url @@ [n \in EnvNames |-> Shape("empty")]
Unset == [n \in EnvNames |-> Shape("empty")]
Mint == KeyText(m1)
Curve == KeyText(bondingCurvePda(m1))

\* A flag as the scripts' usage texts write it and as parseFlags reads it.
Spaced(name, text) == <<Flag(name, Bare), Word(text)>>
Equals(name, text) == <<Flag(name, text)>>

Send == <<Flag("send", Bare)>>

Lines(script, argvs, envs) ==
    {[script |-> script, argv |-> argv, env |-> env] : argv \in argvs, env \in envs}

HelpLine == <<Flag("help", Bare)>>

ConfigureLines ==
    Lines("configure",
          { HelpLine, << >>, Equals("send", Shape("false")),
            Equals("fees", Number("float", 2)) \o Send,
            Spaced("fees", Number("float", 2)) \o Send },
          {Environment(<< >>)})
    \cup Lines("configure", {Send}, {Unset})

SmokeLines == Lines("smoke", {<< >>}, {Environment(<< >>), Unset})

LaunchLines ==
    Lines("launch", {HelpLine, << >>, Send}, {Environment(<< >>)})
    \cup Lines("launch", {Send}, {Unset})

\* The flags typed with a space, or missing, beside an environment that names both.
BuyLines ==
    Lines("buy",
          { Equals("mint", Mint) \o Equals("lamports", Number("float", 150)) \o Send,
            Equals("mint", Mint) \o Equals("lamports", Shape("empty")),
            Equals("mint", Mint) \o Spaced("lamports", Whole(1)) \o Send,
            Spaced("mint", Mint) \o Equals("lamports", Whole(1)) \o Send,
            Send },
          {Environment(<< >>), Environment([MINT |-> Mint, LAMPORTS |-> Number("exp", 100)])})

SellLines ==
    Lines("sell", {Equals("mint", Mint) \o raw : raw \in {<< >>, Equals("rawTokens", Whole(1))}},
          {Environment(<< >>)})
    \cup Lines("sell", {Equals("rawTokens", Whole(1)) \o Spaced("mint", Mint)}, {Environment(<< >>)})

ReleaseLines ==
    Lines("release",
          {Equals("mint", Mint) \o recipient \o send :
              recipient \in {<< >>, Equals("recipient", KeyText(user)),
                             Spaced("recipient", KeyText(user)), Equals("recipient", Curve)},
              send \in {<< >>, Send}},
          {Environment(<< >>), Environment([RECIPIENT |-> KeyText(dev)])})

MigrateLines == Lines("migrate", {<< >>}, {Environment(<< >>), Environment([NONCE |-> Whole(256)])})

ShowLines ==
    Lines("curve-state", {HelpLine, Equals("mint", Mint), Spaced("mint", Mint)},
          {Environment(<< >>)})
    \cup Lines("mint-info", {<< >>}, {Environment(<< >>), Environment([MINT |-> Mint])})

Recipients == {Shape("empty"), KeyText(dev), KeyText(user), Curve}

ReportLines ==
    Lines("release_min", {<< >>},
          {Environment([MINT |-> Mint, RECIPIENT |-> recipient,
                        ANCHOR_WALLET_JSON |-> Shape("word")]) : recipient \in Recipients})

EncodeLines ==
    Lines("release_encode", {<< >>},
          {Environment(<< >>), [Unset EXCEPT !.MINT = Mint]} \cup
          {Environment([MINT |-> Mint, RECIPIENT |-> recipient]) : recipient \in Recipients})

SweepLines == Lines("sweep_and_report", {<< >>}, {Environment(<< >>)})

ToolLines ==
    ConfigureLines \cup SmokeLines \cup LaunchLines \cup BuyLines \cup SellLines \cup ReleaseLines
    \cup MigrateLines \cup ShowLines \cup ReportLines \cup EncodeLines \cup SweepLines

\* The lines that configure.
FeeLines == ConfigureLines
=============================================================================
