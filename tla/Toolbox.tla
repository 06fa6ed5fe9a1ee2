--------------------------------- MODULE Toolbox ---------------------------------
(***************************************************************************)
(* The scripts (scripts/*.ts) from the command line to the program and     *)
(* back: one terminal that runs one script at a time.  A script reads its  *)
(* flags and the environment, derives the accounts, encodes the            *)
(* instruction after the checked-in IDL and sends it; the program takes    *)
(* accounts by position and data by its own layout; the script prints what *)
(* comes of it.  Between any two of its steps the chain moves on.          *)
(*                                                                         *)
(* An await may throw: the RPC node fails, a confirmation times out, the   *)
(* client library rejects the call.  What was sent may land all the same.  *)
(*                                                                         *)
(* Abstracted: the texts printed and the token's metadata.  Bounds: one    *)
(* transaction of the terminal in flight; the keys of KeyAssumption.       *)
(***************************************************************************)
EXTENDS Pump, Layout, Interface, Flags

CONSTANTS
    Terminal,     \* provider.wallet
    CommandLines  \* what may be typed: the script, its argv and the environment

ASSUME ToolAssumption == Terminal \in Wallets

\* No number typed, and none that LAMPORTS or NONCE names, is negative.
ASSUME TextAssumption ==
    \A line \in CommandLines :
        /\ LastFlag(line.argv, "lamports").of.number \in Nat
        /\ LastFlag(line.argv, "fees").of.number \in Nat
        /\ line.env.LAMPORTS.number \in Nat
        /\ line.env.NONCE.number \in Nat

\* A key typed for a mint is one of Mints, and none of them is typed for a recipient.
ASSUME KeyAssumption ==
    \A line \in CommandLines :
        LET Typed(name, variable) ==
                {v \in {LastFlag(line.argv, name), JsValue("string", line.env[variable])} :
                    IsKey(v)}
        IN  /\ \A v \in Typed("mint", "MINT") : KeyOf(v) \in Mints
            /\ \A v \in Typed("recipient", "RECIPIENT") : KeyOf(v) \notin Mints

VARIABLES
    run,     \* the script that is running
    flight,  \* the job whose transaction was sent and may still land, if any
    printed  \* what the last step printed

toolVars == <<vars, run, flight, printed>>

Instruction ==
    [ configure |-> "configure", smoke |-> "configure", launch |-> "launch",
      buy |-> "swap", migrate |-> "migrate", release |-> "release_reserves",
      release_min |-> "release_reserves" ]

OnCurve(key) == key \in Wallets \cup Mints  \* false of derived addresses

(* What a script is about once its flags are read: `to` is the fee recipient of a *)
(* buy or the recipient of a release, `amount` the lamports of a buy, the nonce   *)
(* of a migrate or the fee, in hundredths, of a configure.                        *)

Job(script, mint, to, amount) ==
    [script |-> script, mint |-> mint, to |-> to, amount |-> amount]

NoJob == Job("none", NoKey, NoKey, 0)

NothingRead == [what \in {} |-> 0]

Run(pc, job, c) ==
    [ pc |-> pc, job |-> job, send |-> c.flags.send, asked |-> c.asked,
      before |-> NothingRead, after |-> NothingRead, quiet |-> TRUE ]

\* What a command line means, and what its script reads of it.  The meaning is history:
\* no script uses it, and it is dropped once the script has sent.
Parsed(line) ==
    [ script |-> line.script, env |-> line.env, flags |-> parseFlags(line.argv, line.env),
      asked  |-> [ mint      |-> Meant(line.argv, line.env, "mint", "MINT"),
                   recipient |-> Meant(line.argv, line.env, "recipient", "RECIPIENT"),
                   lamports  |-> Meant(line.argv, line.env, "lamports", "LAMPORTS"),
                   fees      |-> Meant(line.argv, line.env, "fees", "none"),
                   send      |-> ToldToSend(line.argv) ] ]

Commands == {Parsed(line) : line \in CommandLines}

NoFlags == [send |-> FALSE]
NotAsked == [mint |-> Bare, recipient |-> Bare, lamports |-> Bare, fees |-> Bare, send |-> FALSE]
Idle == Run("idle", NoJob, [flags |-> NoFlags, asked |-> NotAsked])

Nothing == [kind |-> "nothing"]
Usage == [kind |-> "usage"]        \* a help text, or "send skipped"
Thrown == [kind |-> "thrown"]      \* console.error(e), exit code 1
DryRun == [kind |-> "dry run"]
Signature == [kind |-> "signature"]
ProgramError(code) == [kind |-> "error", name |-> ErrorName(code)]

ToolInit == Init /\ run = Idle /\ flight = {} /\ printed = Nothing

-----------------------------------------------------------------------------
(* From the command line to the first await. *)

Ends(what) == run' = Idle /\ printed' = what
Goes(r) == run' = r /\ printed' = Nothing

\* main(): a help text, an error, or on with r.
Main(c, script, help, valid, r) ==
    /\ c.script = script /\ run = Idle
    /\ \/ help /\ Ends(Usage)
       \/ ~help /\ ~valid /\ Ends(Thrown)
       \/ ~help /\ valid /\ Goes(r)
    /\ UNCHANGED <<vars, flight>>

\* AnchorProvider.env() throws without the node's URL; a wallet is always configured.
HasProvider(c) == Given(c.env.ANCHOR_PROVIDER_URL)

IsHelp(c) == Truthy(c.flags.help)

\* configure.ts: a fee that is not a number is 0.05.
FeesOf(c) == IF c.flags.fees.type = "number" THEN c.flags.fees.of.number ELSE 5

StartConfigure(c) ==
    Main(c, "configure", IsHelp(c), HasProvider(c),
         Run("built", Job("configure", NoKey, Terminal, FeesOf(c)), c))

\* tests/smoke.devnet.ts up to its first transaction, which it always sends; the
\* airdrop before it is left out.
StartSmoke(c) ==
    Main(c, "smoke", FALSE, HasProvider(c),
         [Run("built", Job("smoke", NoKey, Terminal, 0), c) EXCEPT !.send = TRUE])

\* launch.ts: the mint is a fresh keypair.
StartLaunch(c) ==
    \E m \in Mints \ launched :
        Main(c, "launch", IsHelp(c), HasProvider(c), Run("built", Job("launch", m, NoKey, 0), c))

\* buy.ts: what new PublicKey and new BN throw on is thrown here, before the config
\* is read: nothing depends on the order.
StartBuy(c) ==
    LET f == c.flags
    IN  Main(c, "buy",
             IsHelp(c) \/ ~Truthy(f.mint) \/ f.lamports.type = "undefined",
             HasProvider(c) /\ IsKey(f.mint) /\ IsAmount(f.lamports),
             Run("config", Job("buy", KeyOf(f.mint), NoKey, Amount(f.lamports)), c))

StartSell(c) ==
    LET f == c.flags
    IN  Main(c, "sell",
             IsHelp(c) \/ ~Truthy(f.mint) \/ ~Truthy(f.rawTokens),
             HasProvider(c) /\ IsKey(f.mint),
             Run("config", Job("sell", KeyOf(f.mint), NoKey, 0), c))

StartRelease(c) ==
    LET f == c.flags
    IN  Main(c, "release",
             IsHelp(c) \/ ~Truthy(f.mint) \/ ~Truthy(f.recipient),
             HasProvider(c) /\ IsKey(f.mint) /\ IsKey(f.recipient) /\ OnCurve(KeyOf(f.recipient)),
             Run("built", Job("release", KeyOf(f.mint), KeyOf(f.recipient), 0), c))

\* Number(text) is a number from 0 to 255; it is 0 of the empty text.
IsNonce(text) ==
    \/ text.shape \in {"int", "float"} /\ text.number <= 25500
    \/ text.shape = "empty"

\* migrate.ts: the environment only; it always sends.
StartMigrate(c) ==
    LET nonce == c.env.NONCE
    IN  Main(c, "migrate", FALSE, HasProvider(c) /\ IsNonce(nonce),
             [Run("built", Job("migrate", NoKey, NoKey, nonce.number \div 100), c)
                EXCEPT !.send = TRUE])

StartCurveState(c) ==
    LET mint == c.flags.mint
    IN  Main(c, "curve-state", IsHelp(c) \/ ~Truthy(mint), HasProvider(c) /\ IsKey(mint),
             Run("show", Job("curve-state", KeyOf(mint), NoKey, 0), c))

EnvKey(text) == text.shape = "key"

StartMintInfo(c) ==
    LET mint == c.env.MINT
    IN  Main(c, "mint-info", FALSE, HasProvider(c) /\ EnvKey(mint),
             Run("show", Job("mint-info", mint.key, NoKey, 0), c))

\* release_min.ts: the environment only; it always sends.  It constructs its Program
\* from three arguments (line 44), shared.ts:37 from two under the same version of the
\* client: should the library take only one of the forms, the other is a Throw, and
\* what is said of the script's report is said of no run.
StartReleaseMin(c) ==
    LET needed == {"MINT", "RECIPIENT", "ANCHOR_WALLET_JSON", "ANCHOR_PROVIDER_URL"}
        mint == c.env.MINT
        recipient == c.env.RECIPIENT
    IN  Main(c, "release_min", \E n \in needed : ~Given(c.env[n]),
             EnvKey(mint) /\ EnvKey(recipient) /\ OnCurve(recipient.key),
             [Run("before", Job("release_min", mint.key, recipient.key, 0), c)
                EXCEPT !.send = TRUE])

\* sweep_and_report.ts throws with and without MINT and RECIPIENT: the functions it
\* calls next are imported from ./utils, which exports none.
StartSweep(c) == Main(c, "sweep_and_report", FALSE, FALSE, Idle)

-----------------------------------------------------------------------------
(* The accounts and the data each script puts into its instruction. *)

ConfigureValues == [ admin |-> Terminal, global_config |-> globalConfigPda,
                     system_program |-> SystemProgram ]

LaunchValues(mint) ==
    LET curve == findPda(<<Text("bonding-curve"), mint>>, PumpProgram)
    IN  [ creator |-> Terminal, global_config |-> globalConfigPda, token_mint |-> mint,
          bonding_curve |-> curve, curve_token_account |-> curveAta(mint, curve),
          token_metadata_account |->
              findPda(<<Text("metadata"), MetadataProgram, mint>>, MetadataProgram),
          token_program |-> TokenProgram,
          associated_token_program |-> AssociatedTokenProgram,
          metadata_program |-> MetadataProgram, system_program |-> SystemProgram,
          rent |-> RentSysvar ]

BuyValues(mint, feeRecipient) ==
    LET curve == bondingCurvePda(mint)
    IN  [ user |-> Terminal, global_config |-> globalConfigPda,
          fee_recipient |-> feeRecipient, bonding_curve |-> curve, token_mint |-> mint,
          curve_token_account |-> curveAta(mint, curve),
          user_token_account |-> ownerAta(mint, Terminal), token_program |-> TokenProgram,
          associated_token_program |-> AssociatedTokenProgram,
          system_program |-> SystemProgram ]

ReleaseValues(mint, recipient) ==
    LET curve == bondingCurvePda(mint)
    IN  [ admin |-> Terminal, global_config |-> globalConfigPda, token_mint |-> mint,
          bonding_curve |-> curve, recipient |-> recipient,
          curve_token_account |-> curveAta(mint, curve),
          recipient_token_account |-> ownerAta(mint, recipient),
          token_program |-> TokenProgram,
          associated_token_program |-> AssociatedTokenProgram,
          system_program |-> SystemProgram ]

\* release_min.ts derives the same accounts without the helpers.
ReleaseMinValues(mint, recipient) ==
    LET curve == findPda(<<Text("bonding-curve"), mint>>, PumpProgram)
    IN  [ admin |-> Terminal, global_config |-> findPda(<<Text("global-config")>>, PumpProgram),
          bonding_curve |-> curve, recipient |-> recipient, token_mint |-> mint,
          curve_token_account |-> AssociatedTokenAddress(mint, curve),
          recipient_token_account |-> AssociatedTokenAddress(mint, recipient),
          token_program |-> TokenProgram,
          associated_token_program |-> AssociatedTokenProgram,
          system_program |-> SystemProgram ]

Values(job) ==
    CASE job.script \in {"configure", "smoke"} -> ConfigureValues
      [] job.script = "launch"      -> LaunchValues(job.mint)
      [] job.script = "buy"         -> BuyValues(job.mint, job.to)
      [] job.script = "migrate"     -> [payer |-> Terminal]
      [] job.script = "release"     -> ReleaseValues(job.mint, job.to)
      [] job.script = "release_min" -> ReleaseMinValues(job.mint, job.to)

Metas(job) == buildAccountsFromIdl(getInstructionIdl(Instruction[job.script]), Values(job))

\* smoke.devnet.ts: the configuration it sends, u64 fields in hundred thousands.
SmokeConfig ==
    [ authority |-> Terminal, feeRecipient |-> Terminal, curveLimit |-> 12,
      initialVirtualTokenReserves |-> 5000000, initialVirtualSolReserves |-> 0,
      initialRealTokenReserves |-> 0, totalTokenSupply |-> 10000000,
      buyFeePercent |-> 0, sellFeePercent |-> 0, migrationFeePercent |-> 0 ]

\* The instruction's data: the arguments after the IDL's layout.  There is none for
\* configure: configure.ts:30-41 spells the keys of its configuration as pump.json
\* does, the client knows them in camel case, and what it makes of the others is
\* not in this repository.  Nothing is said of that data: see MayNotDecode.
Data(job) ==
    CASE job.script = "smoke"   -> Encode(IdlConfigureArgs, SmokeConfig)
      [] job.script = "launch"  -> Encode(IdlLaunchArgs, [name |-> 0, symbol |-> 0, uri |-> 0])
      [] job.script = "buy"     ->
            Encode(IdlSwapArgs, [amount |-> job.amount, direction |-> 0, min_out |-> 0])
      [] job.script = "migrate" -> Encode(IdlMigrateArgs, [nonce |-> job.amount])
      [] job.script \in {"release", "release_min"} -> Encode(IdlReleaseReservesArgs, <<>>)

-----------------------------------------------------------------------------
(* release_encode.ts prints the instruction release.ts would send, from a list of *)
(* accounts of its own and the environment: the recipient is the admin unless it  *)
(* is given, and without a provider the admin is a keypair generated for it.      *)

\* Variant: the recipient before the curve's token account.
RecipientFirst ==
    << Account("admin", MutSigner), Account("global_config", Mut),
       Account("token_mint", Readonly), Account("bonding_curve", Mut),
       Account("recipient", Mut), Account("curve_token_account", Mut),
       Account("recipient_token_account", Mut), Account("token_program", Readonly),
       Account("associated_token_program", Readonly),
       Account("system_program", Readonly) >>

EncodedKeys ==
    << Account("admin", MutSigner), Account("global_config", Mut),
       Account("token_mint", Readonly), Account("bonding_curve", Mut),
       Account("curve_token_account", Mut), Account("recipient", Mut),
       Account("recipient_token_account", Mut), Account("token_program", Readonly),
       Account("associated_token_program", Readonly),
       Account("system_program", Readonly) >>

EncodedValues(mint, admin, recipient) ==
    [ReleaseMinValues(mint, recipient) EXCEPT !.admin = admin]

ReleaseEncode(c) ==
    LET mint == c.env.MINT
        to == c.env.RECIPIENT
        admin == IF HasProvider(c) THEN Terminal ELSE Text("generated")
        recipient == IF Given(to) THEN to.key ELSE admin
        valid == EnvKey(mint) /\ (Given(to) => EnvKey(to) /\ OnCurve(to.key))
        values == EncodedValues(mint.key, admin, recipient)
    IN  /\ c.script = "release_encode" /\ run = Idle
        /\ \/ ~Given(mint) /\ Ends(Usage)
           \/ Given(mint) /\ ~valid /\ Ends(Thrown)
           \/ /\ Given(mint) /\ valid
              /\ Ends([ kind |-> "instruction", mint |-> mint.key, to |-> recipient,
                        keys |-> buildAccountsFromIdl(EncodedKeys, values) ])
        /\ UNCHANGED <<vars, flight>>

-----------------------------------------------------------------------------
(* What a script reads from the chain, whenever the answer comes. *)

Stays == UNCHANGED <<vars, flight>>

\* The config account's data; the fees, which Pump leaves out, are 0.
ConfigData ==
    Encode(ConfigStruct, [n \in Names(ConfigStruct) |->
                            IF n \in DOMAIN global_config THEN global_config[n] ELSE 0])

CurveData(m) == Encode(BondingCurveStruct, bonding_curve[m])

\* buy.ts and sell.ts: the config account must exist.  A curve is no person: sell.ts
\* goes no further.
ReadConfig ==
    /\ run.pc = "config"
    /\ \/ ~initialized /\ Ends(Thrown)
       \/ /\ initialized /\ run.job.script = "sell"
          /\ ~OnCurve(bondingCurvePda(run.job.mint)) /\ Ends(Thrown)
       \/ /\ initialized /\ run.job.script = "buy"
          /\ Goes([run EXCEPT !.pc = "mint", !.job.to = parseConfig(ConfigData).fee_recipient])
    /\ Stays

\* buy.ts: getMintDecimals throws if there is no such mint.
ReadMint ==
    /\ run.pc = "mint"
    /\ \/ run.job.mint \notin launched /\ Ends(Thrown)
       \/ run.job.mint \in launched /\ Goes([run EXCEPT !.pc = "built"])
    /\ Stays

ShowCurve ==
    LET m == run.job.mint
    IN  /\ run.pc = "show" /\ run.job.script = "curve-state"
        /\ \/ m \notin launched /\ Ends(Thrown)
           \/ /\ m \in launched
              /\ Ends([kind |-> "curve", mint |-> m, shown |-> parseBondingCurve(CurveData(m))])
        /\ Stays

\* mint-info.ts: the wallet's balance, or N/A (-1 here) if it has no token account,
\* or if the node fails: every error of that read is swallowed.
ShowMint ==
    LET m == run.job.mint
    IN  /\ run.pc = "show" /\ run.job.script = "mint-info"
        /\ \/ m \notin launched /\ Ends(Thrown)
           \/ /\ m \in launched
              /\ \E balance \in {tokens[m][w] : w \in atas[m] \cap {Terminal}} \cup {-1} :
                    Ends([kind |-> "mint", mint |-> m, balance |-> balance])
        /\ Stays

\* release_min.ts reads three balances before and after: the two of lamports at
\* once, in whichever order they are answered, then the tokens, 0 without account.
\* Transaction fees are left out: the terminal's own balance is really less by those
\* it has paid.
Balance(what, job) ==
    CASE what = "curve"     -> vault[job.mint]
      [] what = "recipient" -> wallet[job.to]
      [] what = "tokens"    -> IF Pda \in atas[job.mint] THEN tokens[job.mint][Pda] ELSE 0

Balances == {"curve", "recipient", "tokens"}

\* The error of a token read is swallowed, whatever it is: '0' stays.
Answers(what, job) == {Balance(what, job)} \cup (IF what = "tokens" THEN {0} ELSE {})

MayRead(read, what) ==
    /\ what \in Balances \ DOMAIN read
    /\ what = "tokens" => {"curve", "recipient"} \subseteq DOMAIN read

\* A reading is noted until somebody else's transaction falls between the reads: from
\* then on nothing is claimed of the report, and 0 stands for every number in it.
Noted(read, what, answer) ==
    [w \in DOMAIN read \cup {what} |->
        IF w # what THEN read[w] ELSE IF run.quiet THEN answer ELSE 0]

Disturbed(r) ==
    IF r.job.script # "release_min" THEN r
    ELSE [r EXCEPT !.quiet = FALSE, !.before = [w \in DOMAIN @ |-> 0],
                   !.after = [w \in DOMAIN @ |-> 0]]

ReadBefore(what) ==
    /\ run.pc = "before" /\ MayRead(run.before, what)
    /\ \E answer \in Answers(what, run.job) :
          Goes([run EXCEPT !.before = Noted(@, what, answer),
                           !.pc = IF what = "tokens" THEN "built" ELSE "before"])
    /\ Stays

\* Variant: rpc() returns when the transaction is sent.
OnceSent == "sent"

\* rpc() returns when the transaction is confirmed.
OnceConfirmed == "confirmed"

ReadAfter(what) ==
    /\ run.pc = OnceConfirmed /\ run.job.script = "release_min" /\ MayRead(run.after, what)
    /\ \E answer \in Answers(what, run.job) :
          LET after == Noted(run.after, what, answer)
          IN  \/ what # "tokens" /\ Goes([run EXCEPT !.after = after])
              \/ /\ what = "tokens"
                 /\ Ends([ kind |-> "report", job |-> run.job, before |-> run.before,
                           after |-> after, quiet |-> run.quiet ])
    /\ Stays

-----------------------------------------------------------------------------
(* Sending, and what becomes of it. *)

DryRunEnds == run.pc = "built" /\ ~run.send /\ Ends(DryRun) /\ Stays

Submit ==
    /\ run.pc = "built" /\ run.send
    /\ HasAccounts(getInstructionIdl(Instruction[run.job.script]), Values(run.job))
    /\ flight = {}
    /\ flight' = {run.job}
    /\ Goes([run EXCEPT !.pc = "sent", !.asked = NotAsked])
    /\ UNCHANGED vars

\* The await a script is in throws.
Throw == run.pc # "idle" /\ Ends(Thrown) /\ Stays

Finish ==
    /\ run.pc = "confirmed" /\ run.job.script # "release_min"
    /\ Ends(Signature)
    /\ Stays

(* The program's entry: it decodes the data by its own layout and takes the       *)
(* accounts by position.                                                          *)

ProgramArgs ==
    [ configure |-> ConfigureArgs, launch |-> LaunchArgs, swap |-> SwapArgs,
      migrate |-> MigrateArgs, release_reserves |-> ReleaseReservesArgs ]

Enters(job) ==
    LET instruction == Instruction[job.script]
    IN  /\ Decodes(ProgramArgs[instruction], Data(job))
        /\ Admits(instruction, Metas(job))

Accounts(job) == ByName(ProgramAccounts[Instruction[job.script]], Metas(job))

\* The scripts whose transactions reach a handler.  Those of smoke and migrate never
\* do (NeverEnters).
Executed == {"launch", "buy", "release", "release_min"}

\* The handler's step.
Execute(job) ==
    LET a == Accounts(job)
        args == Read(SwapArgs, Data(job))
    IN  /\ job.script \in Executed
        /\ Enters(job)
        /\ a.token_mint \in Mints
        /\ \/ /\ job.script = "launch" /\ a.creator \in Wallets
              /\ Launch(a.creator, a.token_mint)
           \/ /\ job.script = "buy" /\ {a.user, a.fee_recipient} \subseteq Wallets
              /\ {args.amount, args.min_out} \subseteq Amounts /\ args.direction \in Directions
              /\ Swap(a.user, a.token_mint, a.fee_recipient, args.amount, args.direction,
                      args.min_out)
           \/ /\ job.script \in {"release", "release_min"}
              /\ {a.admin, a.recipient} \subseteq Wallets
              /\ ReleaseReserves(a.admin, a.token_mint, a.recipient)

\* What configure.ts sends may decode to anything, or not at all.
ExecuteConfigure(job) ==
    job.script = "configure" /\ \E new_config \in Configs : Configure(Terminal, new_config)

MayNotDecode(job) == job.script = "configure"

Land(job) ==
    /\ Execute(job) \/ ExecuteConfigure(job)
    /\ flight' = {}
    /\ run' = IF run.pc = "sent" THEN [run EXCEPT !.pc = "confirmed"] ELSE Disturbed(run)
    /\ printed' = Nothing

Lose(job) ==
    /\ flight' = {} /\ printed' = Nothing
    /\ UNCHANGED <<vars, run>>

Others ==
    /\ Next
    /\ run' = Disturbed(run) /\ printed' = Nothing
    /\ UNCHANGED flight

-----------------------------------------------------------------------------
(* Refusals: the checks of an instruction in the order in which it makes them, *)
(* each with the code of its error, as far as they have one.                   *)

PumpError ==
    [ NotAuthorized |-> 6000, IncorrectFeeRecipient |-> 6001, IncorrectValue |-> 6002,
      ReturnAmountTooSmall |-> 6003, OverflowOrUnderflowOccurred |-> 6004,
      CurveAlreadyCompleted |-> 6005, ProgramPaused |-> 6006, ProgramCompleted |-> 6007 ]

\* The second #[error_code] of the program numbers its errors from 6000 again.
ReleaseReservesError == [CurveNotCompleted |-> 6000]

\* Anchor's own.
AnchorError ==
    [ InstructionDidNotDeserialize |-> 102, ConstraintAddress |-> 2012,
      AccountNotEnoughKeys |-> 3005, AccountNotInitialized |-> 3012 ]

Check(holds, code) == [holds |-> holds, code |-> code]

Decoded(job) == Check(Decodes(ProgramArgs[Instruction[job.script]], Data(job)),
                      AnchorError.InstructionDidNotDeserialize)

Supplied(job) == Check(Len(getInstructionIdl(Instruction[job.script])) >=
                            Len(ProgramAccounts[Instruction[job.script]]),
                       AnchorError.AccountNotEnoughKeys)

Initialized == Check(initialized, AnchorError.AccountNotInitialized)
NotPaused == Check(EnsureNotPaused, PumpError.ProgramPaused)
NotCompleted == Check(EnsureNotCompleted, PumpError.ProgramCompleted)
Authorized == Check(EnsureAdmin(Terminal), PumpError.NotAuthorized)

\* An account that is deserialized must exist, before any constraint on an account
\* is tested.
CurveExists(job) == Check(job.mint \in launched, AnchorError.AccountNotInitialized)
CurveAtaExists(job) == Check(Pda \in atas[job.mint], AnchorError.AccountNotInitialized)

\* That the data decodes comes first, where anything is known of it.
ConfigureChecks(job) ==
    << Supplied(job), Check(MayConfigure(Terminal), PumpError.NotAuthorized) >>

SmokeChecks(job) == << Decoded(job) >> \o ConfigureChecks(job)

LaunchChecks(job) == << Decoded(job), Supplied(job), Initialized, NotPaused, NotCompleted >>

SwapChecks(job) ==
    << Decoded(job), Supplied(job), Initialized, CurveExists(job), CurveAtaExists(job),
       Check(FeeRecipientInForce(job.to), PumpError.IncorrectFeeRecipient),
       NotPaused, NotCompleted,
       Check(CurveIsOpen(job.mint), PumpError.CurveAlreadyCompleted) >>

MigrateChecks(job) ==
    << Decoded(job), Supplied(job), Initialized, NotPaused, NotCompleted, Authorized >>

\* Variant: the admin account has no address constraint.
NoAddressConstraint(job) ==
    << Decoded(job), Supplied(job), Initialized, CurveExists(job), CurveAtaExists(job),
       NotPaused, Authorized,
       Check(CurveIsCompleted(job.mint), ReleaseReservesError.CurveNotCompleted) >>

ReleaseChecks(job) ==
    << Decoded(job), Supplied(job), Initialized, CurveExists(job), CurveAtaExists(job),
       Check(EnsureAdmin(Terminal), AnchorError.ConstraintAddress),
       NotPaused, Authorized,
       Check(CurveIsCompleted(job.mint), ReleaseReservesError.CurveNotCompleted) >>

Checks(job) ==
    CASE job.script = "configure" -> ConfigureChecks(job)
      [] job.script = "smoke"     -> SmokeChecks(job)
      [] job.script = "launch"    -> LaunchChecks(job)
      [] job.script = "buy"       -> SwapChecks(job)
      [] job.script = "migrate"   -> MigrateChecks(job)
      [] OTHER                    -> ReleaseChecks(job)

\* The first check that fails gives the error the waiting script prints.
Refuse(job) ==
    LET checks == Checks(job)
    IN  /\ run.pc = "sent"
        /\ \/ /\ MayNotDecode(job)
              /\ Ends(ProgramError(AnchorError.InstructionDidNotDeserialize))
           \/ \E i \in DOMAIN checks :
                 /\ ~checks[i].holds /\ \A k \in DOMAIN checks : k < i => checks[k].holds
                 /\ Ends(ProgramError(checks[i].code))
        /\ flight' = {}
        /\ UNCHANGED vars

-----------------------------------------------------------------------------
Start(c) ==
    \/ StartConfigure(c) \/ StartSmoke(c) \/ StartLaunch(c) \/ StartBuy(c)
    \/ StartSell(c) \/ StartRelease(c) \/ StartMigrate(c) \/ StartCurveState(c)
    \/ StartMintInfo(c) \/ StartReleaseMin(c) \/ StartSweep(c) \/ ReleaseEncode(c)

ToolNext ==
    \/ \E c \in Commands : Start(c)
    \/ ReadConfig \/ ReadMint \/ ShowCurve \/ ShowMint
    \/ \E what \in Balances : ReadBefore(what) \/ ReadAfter(what)
    \/ DryRunEnds \/ Submit \/ Throw \/ Finish
    \/ \E job \in flight : Land(job) \/ Refuse(job) \/ Lose(job)
    \/ Others

ToolSpec == ToolInit /\ [][ToolNext]_toolVars

-----------------------------------------------------------------------------
JobType == [script : DOMAIN Instruction, mint : Mints \cup {NoKey}, to : Keys, amount : Nat]

IsReading(read) == DOMAIN read \subseteq Balances /\ read \in [DOMAIN read -> Nat]

ToolTypeOK ==
    /\ run.pc \in {"idle", "config", "mint", "show", "before", "built", "sent", "confirmed"}
    /\ run.pc = "idle" => run = Idle
    /\ flight \subseteq JobType /\ \A j, k \in flight : j = k
    /\ run.pc = "sent" => flight \subseteq {run.job}
    /\ IsReading(run.before) /\ IsReading(run.after)

\* Script, IDL and program mean the same accounts and arguments: what launch, buy
\* and release send enters the handler at the addresses the IDL derives, names the
\* mint and the account the job is about, and reads back as the amount it carries.
EntersAsMeant ==
    \A job \in flight : job.script \in Executed =>
        LET a == Accounts(job)
        IN  /\ Enters(job) /\ AgreesWithIdl(Values(job)) /\ a.token_mint = job.mint
            /\ job.script = "buy" =>
                  /\ a.fee_recipient = job.to /\ a.user = Terminal
                  /\ Read(SwapArgs, Data(job)) =
                        [amount |-> job.amount, direction |-> 0, min_out |-> 0]
            /\ job.script \in {"release", "release_min"} =>
                  a.recipient = job.to /\ a.admin = Terminal

\* A configuration encoded after the checked-in IDL, as tests/smoke.devnet.ts sends
\* it, is two bytes shorter than the program's: it never reaches the handler, and is
\* not read with its last two flags, `paused` among them, cleared.  Nor does what
\* migrate.ts sends, which lacks the config account.
NeverEnters ==
    \A job \in flight : job.script \in {"smoke", "migrate"} => ~Enters(job)

\* The parsers of shared.ts and what the scripts print of them tell the truth of
\* the moment of the read: the fee recipient of a buy, every field curve-state.ts
\* shows, the balance mint-info.ts shows if it shows one.
ReadsAreFaithful ==
    [][/\ run.pc = "config" /\ run'.pc = "mint" => run'.job.to = global_config.fee_recipient
       /\ printed'.kind = "curve" => printed'.shown = bonding_curve[printed'.mint]
       /\ printed'.kind = "mint" /\ printed'.balance # -1 =>
            /\ Terminal \in atas[printed'.mint]
            /\ printed'.balance = tokens[printed'.mint][Terminal]]_toolVars

\* A flag a script takes from the wrong place never moves money: a buy or a release
\* is sent for the mint and the recipient that were typed, or that the environment
\* names when nothing was typed, and a buy for no more than was typed.
SendsWhatWasTyped ==
    [][\A job \in flight' \ flight :
        LET asked == run.asked
        IN  /\ job.script \in {"buy", "release"} => asked.mint.shape = "key" /\ asked.mint.key = job.mint
            /\ job.script = "release" =>
                  asked.recipient.shape = "key" /\ asked.recipient.key = job.to
            /\ job.script = "buy" => job.amount * 100 <= asked.lamports.number]_toolVars

\* "dry-run default true unless --send is passed" (shared.ts:252): of the scripts
\* that take the flag, none sends without it, or when the last one is --send=false.
SendsOnlyWhenTold ==
    [][\A job \in flight' \ flight :
        job.script \in {"configure", "launch", "buy", "release"} => run.asked.send]_toolVars

\* Two errors of the program share the code 6000, and the IDL has a name for one.
\* When a script prints CurveNotCompleted, it sent a release of a curve that is not
\* completed: the other one, NotAuthorized, never hides behind the name.  Nothing is
\* said of configure.ts: if its data decodes, it prints NotAuthorized by that name.
CompletionErrorIsTrue ==
    [][\A job \in flight :
        run.pc = "sent" /\ printed' = ProgramError(6000) /\ job.script # "configure" =>
            /\ job.script \in {"release", "release_min"}
            /\ job.mint \in launched /\ ~bonding_curve[job.mint].is_completed]_toolVars

\* A report of release_min.ts that nobody disturbed adds up: the curve is left with
\* its rent and no tokens, and what it lost in lamports, with the rent of its token
\* account if it held tokens, is what the recipient gained.  A terminal that pays
\* itself gains no more than that: its own balance is less by the transaction fee and
\* by the rent of its token account if that is new.  A report that shows no tokens
\* before the release leaves open whether there were any: see Answers.
ReportAddsUp ==
    printed.kind = "report" /\ printed.quiet =>
        LET before == printed.before
            after == printed.after
            gain == before.curve - CurveRent
            closed == IF before.tokens > 0 THEN {AtaRent} ELSE {0, AtaRent}
            gained == after.recipient - before.recipient
        IN  /\ after.curve = CurveRent /\ after.tokens = 0
            /\ printed.job.to # Terminal => \E c \in closed : gained = gain + c
            /\ printed.job.to = Terminal => \E c \in closed : gained <= gain + c

\* release_encode.ts keeps a list of accounts of its own; what it prints is, account
\* for account, what release.ts would send for the mint and the recipient.
EncodesTheRelease ==
    printed.kind = "instruction" =>
        \A i \in DOMAIN printed.keys :
            LET release == Metas(Job("release", printed.mint, printed.to, 0))
            IN  /\ Len(printed.keys) = Len(release)
                /\ i # 1 => printed.keys[i] = release[i]
                /\ printed.keys[1].flags = release[1].flags

\* README.md:123, "yarn configure:run --fees 0.02 --send" under "Configure (admin &
\* fees)": the fee that configure.ts sends is the fee that was typed, if one was.
ConfiguresTheFeeAsked ==
    [][\A job \in flight' \ flight :
        job.script = "configure" /\ run.asked.fees.shape \in {"int", "float"} =>
            job.amount = run.asked.fees.number]_toolVars

\* tests/smoke.devnet.ts:85 awaits its configure, and README_tests.md:4 has it as the
\* first step of "the full happy path": a terminal that may configure is not refused.
SmokeConfigures ==
    [][\A job \in flight :
        job.script = "smoke" /\ run.pc = "sent" /\ MayConfigure(Terminal) =>
            printed'.kind # "error"]_toolVars

=============================================================================
