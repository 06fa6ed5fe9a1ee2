# A verification project for the pump program

TLA+ models of the pump bonding-curve program (`programs/pump/src`) and of the
scripts that operate it (`scripts/`), TLC configurations that check them on
small instances, and TLAPS proofs of the results that matter for every instance.

Run inside this directory:

    tlc -workers 2 -config PumpProgram.cfg MCPump   # one run, see the table below
    tlapm PumpProofs.tla                            # the proofs about the program
    tlapm PumpMoneyProofs.tla                       # what its lamports and tokens add up to
    tlapm SumProofs.tla                             # sums over finite sets
    tlapm PumpClientProofs.tla                      # the proofs about many scripts at once
    tlapm LayoutProofs.tla                          # what is encoded is read back
    tlapm ToolboxProofs.tla                         # the proofs about one script, end to end
    tlapm ToolboxDataProofs.tla                     # and about the data it sends and reads

## 1. The system

| Component | State it keeps | Operations |
|---|---|---|
| Global configuration (`configure.rs`, `config.rs`) | one account: authority, fee recipient, curve limit, opening reserves, `paused`, `is_completed`, fee percentages | `configure` |
| Bonding curve (`launch.rs`, `swap.rs`, `bonding_curve.rs`) | per mint: virtual and real reserves, supply, `is_completed`; lamports at its address; a token account (ATA) it owns | `launch`, `swap` (buy, sell) |
| Release (`release_reserves.rs`) | the same accounts | `release_reserves` |
| Migrate (`migrate.rs`) | nothing | `migrate` (guards only) |
| Curve formula (`calc_amount_out`) | nothing | a placeholder that quotes nothing; the tests compute x*dy/(y+dy) |
| Operator scripts (`scripts/*.ts`) | what they read, until they exit | parse flags, derive accounts, read, build, preview, send, wait, report |
| Smoke test (`tests/smoke.devnet.ts`) | its keypairs | its first transaction, a `configure` after the IDL |
| Checked-in IDL (`target/idl/pump.json`, `target/types/pump.ts`) | nothing | says how accounts and arguments are ordered and encoded, which addresses are derived, what an error is called |
| Old client library, CLI (`lib/`, `cli/`) | nothing | written for an interface that is gone; does not run |

Wallets call instructions; an instruction reads the config, changes one curve,
and moves lamports and tokens through the system and token programs. The scripts
read the same accounts over RPC, at another time than their transactions execute.

**What is hard.** Transactions of different users interleave at every point, and
the config changes under open curves. Two flags are called `is_completed`, one
in the config and one in the curve, and each handler must ask the right one.
Anyone may send lamports to a curve address, even before its launch, and may
reopen a token account the program closed, without calling the program at all;
`release_reserves` can be called again after that. Bookkeeping (virtual
reserves) and money (lamports, tokens) are two things that separate calls
change. A script's read may be stale when its transaction lands, a confirmation
may time out while the transaction can still land, and the script may be run
again. Program, IDL and scripts are three descriptions of the same accounts,
arguments and error codes, written down at different times. `PROJECT.json` lists these hazards at their lines.

**What makes it correct.** Config: once there is an authority, only its
signature changes the configuration or releases, whoever it was handed to.
Curve: lamports back the virtual reserves while open; buys book what they move;
completion is final and funded; nothing is stranded, and no lamport and no token
is made or lost. Release: all or nothing,
only from a completed curve, never below rent, never while paused. Scripts: a
stale read never moves money to the wrong place, a completed curve is drained
in the end, what is sent is what was typed and enters the program as it was
meant, and what is printed is true.

## 2. The modules

| Module | Models | Extends |
|---|---|---|
| `Pump` | the program and what the system and token programs let anyone do with its accounts; its properties | |
| `CurveFormula` | what `calc_amount_out` may answer: the placeholder, or anything | |
| `PumpMoney` | what the lamports and the tokens of `Pump` add up to | `Pump` |
| `Escrow` | the abstract promise: open, trade, close for good, drain in one step | |
| `PumpEscrow` | the refinement mapping `Pump` -> `Escrow` | `Pump` |
| `PumpClaims` | what comments, tests and docs say and the code does not do | `Pump` |
| `PumpClient` | `buy.ts`, `curve-state.ts` and `release.ts` as clients of `Pump` | `Pump` |
| `Layout` | the config and curve accounts and the arguments in bytes, three times: the structs, the IDL, the parsers of `shared.ts` | |
| `Interface` | the accounts of each instruction, three times: the program's, the IDL's, the scripts' | |
| `Flags` | `parseFlags` and what the scripts make of its values | |
| `Toolbox` | every script at one terminal, from the command line to what it prints | `Pump`, `Layout`, `Interface`, `Flags` |
| `MCPump`, `MCClient`, `MCTools` | the instances TLC checks | |
| `SumProofs` | lemmas about `SumFunction`, the sum over a finite set | |
| `PumpProofs`, `PumpMoneyProofs` | theorems about the program | `PumpEscrow`; `PumpMoney`, `PumpProofs`, `SumProofs` |
| `PumpClientProofs` | theorems about many scripts | `PumpClient`, `PumpProofs` |
| `LayoutProofs` | theorems about layouts, for any list of fields | `Layout` |
| `ToolboxProofs`, `ToolboxDataProofs` | theorems about one script, end to end | `Toolbox`, `PumpProofs`, `LayoutProofs`; `ToolboxProofs` |

### Pump: state and actions against the code

`global_config` and `initialized` are the config account; `bonding_curve[m]` and
`launched` the curve accounts; `wallet`, `vault` the lamports of system accounts
and of curve addresses; `atas`, `tokens` the associated token accounts that
exist and their balances (`Pda` stands for the curve as owner). `signer` is the
signer of the last transaction and `opening` the SOL reserves a curve was
launched with: both are there for the properties only.

One action is one instruction: `Configure`, `Launch`, `Swap` (disjuncts `Buy`,
`Sell`, `TradeNothing`), `Migrate`, `ReleaseReserves`. Guards are the account
constraints and `require`s in their order, with the error's name in a comment.
`SystemTransfer`, `TokenTransfer`, `OpenAta` and `CloseAta` are what the system,
token and associated-token programs do for anyone (external code).

Decisions a reader should know:

- *Atomicity.* A Solana transaction commits all of its effects or none, so an
  instruction that fails (an error, an overflow panic: `Cargo.toml` turns
  overflow checks on, a transfer without funds) is no step. Nothing between two
  lines of a handler is visible to anyone else.
- *The order inside a handler still matters* where a later line sees an earlier
  one: `PaySol` runs the fee transfer before the deposit, so a user who is the
  fee recipient needs the funds at each transfer, not just in the sum.
- *u64.* `Checked` is the range test of `checked_add`, `checked_sub` and of the
  overflow-checked operators; lamport and token balances are naturals, whose
  sums cannot exceed the SOL and token supplies.
- *The formula is a parameter.* `Quotes(curve, amount, direction)` is the set of
  answers. `CalcAmountOut` is the placeholder; `AnyQuote` any amount and fee up
  to a bound, which stands for whatever formula is filled in. The proofs use
  nothing of `Quotes` at all.
- *Sell is modelled as written*: it takes lamports from the seller, hands the
  curve `amount_out` tokens and books something else (finding `sell`).
- *`release_reserves`* edits lamports directly before its CPIs. The runtime's
  balance check at each CPI is outside this repository; like
  `tests/smoke.devnet.ts`, the model takes it that the runtime accepts the call.
- *Abstracted*: fee percentages (f64, they reach only the formula), metadata,
  events and logs, bumps, transaction fees, rent minimums of wallets, transfers
  between wallets. `launch` gives the mint authority up, so no mint action.

Some definitions are marked *Variant*: a plausible bug, used by no action. Each
property of a passing run fails when one of them takes the place of the
definition after it, which shows that the property depends on the code.

### PumpClient

`runs` are the scripts in progress, `mempool` the transactions that may still
land. `ReadConfig` is the read of `buy.ts` (line 41), `ReadCurve` an operator
who sees `isCompleted` in the output of `curve-state.ts` and runs `release.ts`;
`Send` is `builder.rpc()`, `Land` and `Drop` what the cluster does with a
transaction, `Exit` the end of a run for any reason. No script keeps anything
when it exits, so a killed run, a timeout and a success differ only in what was
printed. `Others` lets everybody call anything in between.

`PumpClient` and `Toolbox` cut the scripts in two ways. `PumpClient` has any
number of runs and transactions at once and leaves the command line and the
encoding out; `Toolbox` has one terminal and follows a script end to end.

### Toolbox

`run` is the script that is running: its place `pc`, its `job` (what it is about
once the flags are read), whether it sends, and for `release_min.ts` the
balances read `before` and `after`. `flight` holds the job whose transaction was
sent and may still land, `printed` what the last step printed. Two parts of
`run` are history that no step of a script depends on: `asked`, what the command
line means to whoever typed it, and `quiet`, whether a report is undisturbed.

A script is three or four steps: `Start...` is everything up to its first await
(flags, help text, keys, derived accounts), then its reads (`ReadConfig`,
`ReadMint`, `ReadBefore`, `ReadAfter`, `ShowCurve`, `ShowMint`), then
`DryRunEnds` or `Submit`, then `Finish`. `Throw` is the failure of any await,
`Land`, `Refuse` and `Lose` what becomes of the transaction, `Others` a step of
everybody else. `sell.ts` ends at its line 43, which asks for the token account
of an off-curve owner without allowing it; `sweep_and_report.ts` at its first
call into `utils.ts`, which is a comment.

- *Bytes.* `Encode` writes fields at offsets and `Read` finds a value only where
  a field of its type begins, so a field too many, too few or in another order
  shows. `Decodes` fails on data that is too short and, as borsh in anchor does,
  lets bytes at the end pass.
- *Accounts* are addresses with flags, by position. An address is a key or the
  seeds it is derived from, so two derivations agree only if seeds, their order
  and the program agree. `Admits` is anchor's check on entry.
- *Errors.* `Checks` lists what a handler tests, in order, with the code of
  each; `Refuse` prints the name the IDL has for the code of the first that
  fails. Checks that depend on funds have no code here.
- *Texts* are shapes (bare flag, integer, float, `1e9`, `true`, `false`, key,
  word, empty), since that is all the patterns and constructors tell apart.
- *What was asked*: `asked.send` (`ToldToSend`) is what a person
  means by the flags, so that `--send=false` is not being told to send.
- *The client library* (anchor) is external. It is taken to accept account names
  in either case and IDLs in either version; whatever it rejects is a `Throw`.
  The scripts load `pump.json`; it says what `pump.ts`, whose lines the map
  names, says, but in snake_case, which the client turns into camelCase.
- *What `configure.ts` sends is left open.* It spells the keys of its
  configuration in snake_case (`configure.ts:30-41`), the client knows the fields
  in camelCase (as `pump.ts` and `tests/smoke.devnet.ts` spell them), and what
  it makes of the others is not in this repository: it may reject them (`Throw`),
  the program may not be able to decode them (`MayNotDecode`), or they are any
  configuration (`ExecuteConfigure`). No property says anything of that data. Only
  the fee the script puts in is kept, in `job.amount`.
- *The smoke test* does spell the keys as the client does, so `StartSmoke` can
  follow its first transaction to the program and back.
- *`release_min.ts:44`* constructs `Program` from three arguments, `shared.ts:37`
  from two, with the same pinned version. Should the library take only the second
  form, the script throws there (a `Throw`, possible from its first step on) and
  prints no report; `ReportAddsUp` is then about nothing that happens.
- *Transaction fees are left out*, and the terminal pays them. Its own balance is
  therefore lower than the model's, and `ReportAddsUp` states an upper bound for a
  terminal that releases to itself; for any other recipient it is an equation.
- *Errors that are swallowed.* A token read that fails is 0 in a report of
  `release_min.ts` and N/A in `mint-info.ts`: `Answers` and `ShowMint` allow that
  whenever the account exists as well.

### Escrow

Three variables per curve: phase, money, goods. `ImplementsEscrow` says that the
program, seen through `Phase`, `Held` (lamports above rent) and `Stock` (tokens
in the curve's ATA), opens a curve once, takes no money out of it while open,
keeps it closed for good, empties it in one step and touches one curve at a time.

## 3. What the runs check

| Run (cfg) | Instance | States | Shows |
|---|---|---|---|
| program (`PumpProgram`) | any amount and fee up to 2, the committed quote (0, 0) among them; 2 wallets, 1 mint, 4 configurations: regular, paused with a lower limit, program-completed under another authority, authority given up | 137 991 | `TypeOK`, `NothingStranded`, `RentExempt`, `ReservesBacked`, `LamportsConserved`, `SupplyConserved`, `CompletedIsFinal`, `PauseFreezesCurves`, `OnlyTheAuthorityRules`, `ReservesLeaveOnlyByRelease`, `BuyMovesReserves`, `CompletesFunded` |
| escrow (`PumpTwoMints`) | 2 mints, any formula | 143 041 | `ImplementsEscrow` |
| scripts (`PumpScripts`) | one buyer, one operator, 2 transactions each in flight, 3 configurations that change the fee recipient or stop the program | 771 107 | `ClientTypeOK`, `StaleBuyNeverPays`, `ReleaseIsNeverEarly` |
| operator (`PumpOperator`) | the same with 1 transaction in flight, under fairness | 121 561 | `CompletedIsReleased` |
| tools (`Tools`) | every script at one terminal, 59 command lines and environments, one mint, three configurations that change authority, fee recipient and pause | 275 829 | `ToolTypeOK`, `EntersAsMeant`, `NeverEnters`, `SendsWhatWasTyped`, `SendsOnlyWhenTold`, `ReadsAreFaithful`, `CompletionErrorIsTrue`, `ReportAddsUp`, `EncodesTheRelease` |
| real_reserves, sell, limit, completed_flag, release_ata, fees, smoke_configure (`Claim*`) | one claim each, with the placeholder formula of the code | | a violation each, see Findings |

**Bounds.** `MaxU64` is 4 so that additions do leave the range; every rent
is one lamport, so that a rent too much or too little shows; `Funds` bounds the
lamports and with them the length of a trade; `Amounts` is 0 to 2: nothing, one
step towards the limit, and enough to reach or pass it in one buy (0 and 1 with
two curves and with the scripts). The cases these bounds must reach were confirmed with probes: a second sweep after somebody reopened the
token account, a curve sold out before it completes, sells by somebody who holds
tokens, a launch at an address that was sent lamports before, a limit lowered
under an open curve, both curves completed and drained, the same buy twice in
flight, two releases of one curve in flight when the first lands, a program whose
authority was given up and taken by somebody else. Two wallets give every pair of roles
(authority, fee recipient, creator, trader, recipient), equal or different; more
wallets repeat them. Curves share nothing but the config and the wallets, so two
show independence; the proofs cover any number. `MaxInFlight` 2 lets a repeated
buy land beside the one thought lost.

In `tools` the terminal has four lamports and the other wallet none: enough to
launch, to complete the curve (limit 2) and to release it, with a rent left to
pay. The command lines hold each flag in both spellings (`--k=v`, `--k v`),
missing, and beside an environment that contradicts it; a key typed for a mint
is a mint (`KeyAssumption`), no number is negative (`TextAssumption`), and one
transaction of the terminal is in flight at a time (more are in `scripts`). Two wallets and the
curve give every recipient: the terminal itself, somebody else, an address that
is no wallet. Probes confirmed the reports that must occur: to either recipient,
undisturbed, with tokens before and without, and disturbed.

**Deadlock** is checked in `tools`, `fees` and `smoke_configure`: somebody at a terminal can always
run another script, and no script waits for ever. It is not checked elsewhere:
when every wallet has spent its lamports, nobody can pay for another
transaction, and the bounded system stops.

**Fairness** is used by the run `operator` only: the operator looks at every curve
again and again and sends the release of a completed one, its runs end, its
blockhashes expire, and a release sent over and over that could land lands at
last (strong fairness: other transactions may get in between). Nothing else is
fair: no trader, and no authority, has to do anything, the program has no
scheduler, and safety needs none. The promise has its exceptions in it: the
operator is not the authority, is paused, or cannot pay the recipient's token
account. It also needs the curve's token account: that only a release closes it
is what makes the first release always possible. After it, lamports sent to
the curve wait until somebody reopens the account.

## 4. What is proved

All theorems hold for every value of the constants under `ConstantsAssumption`
(the curve address and the default key are no wallets, rents and funds are
naturals, configurations and amounts are of their u64 types) and, for the sums,
`FiniteAssumption` (wallets and mints are finite sets); for the scripts
`ClientAssumption`; for the toolbox `ToolAssumption` (the terminal's wallet is
one), `TextAssumption` (no number that is typed or in the environment is
negative) and `KeyAssumption` (a key typed for a mint is one of `Mints`, a key
typed for a recipient is not: `Mints` are all the mints there are in the
instance). No theorem assumes anything of the formula. The accounts and layouts
of the IDL, of the structs and of the parsers are definitions of `Interface` and
`Layout`, not assumptions: that the IDL's configuration is shorter than the
struct is proved.

| Theorem | States |
|---|---|
| `TypeCorrect` | `[]TypeOK`: no u64 leaves its range, no balance goes below zero |
| `CurvesStayRentExempt`, `OpenCurvesAreBacked` | `[]RentExempt`, `[]ReservesBacked` |
| `NothingIsStranded` | `[]NothingStranded` |
| `CompletionIsFinal`, `PauseIsComplete`, `OnlyReleaseTakesOut`, `BuysAreBooked`, `CompletionIsFunded` | the action properties |
| `AuthorityRules` | `OnlyTheAuthorityRules`: the configuration and what is in the curves are the authority's alone, through any number of handovers |
| `PumpImplementsEscrow` | `Spec => E!Spec` |
| `LamportsAreConserved`, `SupplyIsConserved` | `[]LamportsConserved`, `[]SupplyConserved`: lamports and tokens add up after any sequence of instructions and outside transfers |
| `ScriptsAreClients` | `ClientSpec => Spec`: all of the above holds whatever the scripts do |
| `ClientTypeCorrect`, `StaleBuysNeverPay`, `NoReleaseIsEarly` | the safety properties of the scripts |
| `ToolsAreClients` | `ToolSpec => Spec` |
| `SentAsTyped`, `DryRunIsTheDefault` | what is sent is what was typed, and nothing unless the last `--send` says so, for any set of command lines |
| `NeverEntered`, `TransactionsAreAdmitted` | a configuration encoded after the IDL and what `migrate.ts` sends never reach their handlers; what launch, buy and the release scripts send is admitted, for every mint and wallet |
| `CompletionErrorsAreTrue` | the error name shared by two errors is printed for the right one (`configure.ts` excepted, see section 2) |
| `ReportsAddUp`, `EncodedIsReleased` | the report (exact for another recipient, a bound for the terminal) and the printed instruction |
| `PrefixReads`, `ShorterFails` | what is encoded after one list of fields is read back, name by name, after any list it begins with; data encoded after a shorter list never decodes, whatever its fields are called |
| `ToolTypeCorrect` | `[]ToolTypeOK` |
| `JobsEnterAsMeant` | `[]EntersAsMeant`: program, IDL and script mean the same accounts and arguments, for every mint, wallet, amount and recipient |
| `ReadsAreTrue` | `ReadsAreFaithful` |

*The argument.* Type correctness comes first, one lemma per action. Then every
step is classified once: `StepEffect` shows that a step leaves each curve
`Unaffected`, but for at most one that it `Received` something for, `Opened`,
`Bought` from, `Sold` to or `Released` (`OneCurve`). Invariants, action
properties and the refinement are read off that classification instead of off
nine actions each. The inductive invariant `IInv` is `TypeOK`, `RentExempt` and
`ReservesBacked` together: `CompletesFunded` is a consequence of the last, since a
limit tested on virtual reserves says something about lamports only while these
back those, and the escrow's `Held` is a natural number only above the rent.
`NothingStranded` needs its own strengthening: tokens are only in accounts that
exist. For the scripts, `ReleaseIsNeverEarly` is not inductive by itself (an
unlaunched curve's flag could be anything to the step lemma); `OnlyReady` adds
that the curve is launched, and `CompletionStep` that it stays so.

For the toolbox, `ToolInv` is about one run and its transaction: each script is
at a place of its own kind (`AtItsPlace`), has read what it needs by then
(`ReadInTime`), and until it has sent, its job is what the command line means
(`AsTyped`, from lemmas about `parseFlags` such as `KeyMeant` and
`AmountMeant`). `SentAsTyped` and `DryRunIsTheDefault` are that invariant seen
at `Submit`. `CompletionErrorsAreTrue` goes through the checks of each
instruction: before the only check of `release_reserves` with the ambiguous code
that may fail comes one with anchor's code that tests the authority, so
`NotAuthorized` can never be reached there, and of what the smoke test and
`migrate.ts` send the first or second check fails already. `configure.ts` is
excepted: nothing is known of what it sends, and if that decodes it is refused
with `NotAuthorized` by that very code. `ReportsAddUp` needs `Measured`: while
nobody disturbs the run, what was read before holds until the landing, and
the landing changes exactly what `Settled` says; it uses `RentExempt` of the
program (`IInv`) through `ToolsAreClients`.

`PrefixReads` is about any two lists of fields. `Offsets` is a recursive
function, so even that it has a value needs a proof by induction: if it failed
for some number of fields there would be a least one (`LeastNumber`), and one
field fewer gives the contradiction. From the step that leaves
(`OffsetsStep`) follow that offsets increase, that no two fields share one, and
that a list and what it begins with lay their fields at the same places. The
structs, the IDL and the parsers are then instances: `shared.ts` knows the first
fields of what the program stores. `JobsEnterAsMeant` puts that together with
the accounts, each of which the program finds under the name the script gave it
(`AccountsAsBuilt`). `ToolTypeCorrect` needs that the fee recipient read
from a configuration is a key (`ConfigRead`), which is `PrefixReads` again,
and the program's own types, which `ToolsAreClients` brings; the keys and
numbers of a command line are of their types by `KeyAssumption` and
`TextAssumption` (`CommandValues`). `ReadsAreTrue` needs in addition that only
one action leads to each place a read is shown at (`OnlyReadConfigLeads`,
`WhoPrints`).

For the sums, `SumFunction` of the community modules is a recursive function on
sets, treated the same way with a smallest set (`SmallestSet`) in place of a
least number; `SumChange` (one value changes, the sum changes by as much) is the
one fact the program's proofs use, `SumSent` its consequence for a transfer, to
oneself too. Every action then is shown to pay into the accounts of one mint
what it takes from the wallets (`PaidIn`). Neither sum is inductive alone: a
launch at an address with an open token account would pay a rent too much, and
one with tokens would not start from the supply. `MoneyInv` adds that a mint
that is not launched has neither (`Unborn`).

*Only model-checked*: `CompletedIsReleased`, since liveness under fairness is out
of the prover's reach; every other property of a passing run is stated by a
theorem. The violations are traces.

## 5. Findings

- `sell`: sell takes lamports from the seller and books token and SOL amounts
  that did not move (`bonding_curve.rs:157-191`, "swap token for sol" at 117).
- `real_reserves`: "real balances on the curve" (`bonding_curve.rs:13`) are
  written at launch only.
- `limit`: the last buy can overshoot the limit; `tests/pumpfun.ts:391-396`
  expects it met exactly.
- `completed_flag`: a curve launched at the limit, or passed by a lowered one, has
  reached it and is not completed (comment at `bonding_curve.rs:20`).
- `release_ata`: the curve's token account is closed only if it held tokens,
  `README_tests.md:5` says the opposite.
- `fees`: `--fees 0.02`, as `README.md:123` writes it, puts 0.05 into the
  configuration: `parseFlags` reads `--k=v` only (`shared.ts:237`,
  `configure.ts:23`).
- `smoke_configure`: the first step of the smoke test is a `configure` after the
  checked-in IDL (`README_tests.md:4`, `tests/smoke.devnet.ts:85-92`), which lacks
  the last two fields of `Config` (`target/types/pump.ts:958-1005`,
  `config.rs:3-25`). The program cannot decode it (error 102), even from the
  authority.

Met on the way, and stated in the models:

- The README's other commands in that form (`--mint <MINT> --lamports 1000000`,
  `--name "MyToken"`) print a help text, throw, or use the default;
  `SendsWhatWasTyped` says that none of them moves money wrongly.
- The checked-in IDL also lacks the config account of `migrate`, so that
  `migrate.ts` cannot reach its handler either. Both are refused and not misread
  (`NeverEnters`), which is what matters for the pause flag: a short
  configuration is not one with `paused` cleared.
- `sell.ts` always throws (line 43 uses `ownerAta` where `buy.ts` uses
  `curveAta`), as does `sweep_and_report.ts`.

## 6. Not modelled, and why

- `utils/calc.rs` and `scripts/utils_min.ts`: nobody calls them. `maybeSend`,
  `requireFlag`, `--feeRecipient`, `flags.dryRun` of `shared.ts`: unused.
- `lib/` and `cli/` do not run at this commit: `cli/scripts.ts:27` imports a file
  that is not there, the constants `lib/scripts.ts` imports are not exported, and
  the function that would send a transaction is an empty stub.
- `vendor/anchor-syn`: third party; only its rule for creating an account at an
  address that holds lamports is used (`RentShortfall`).
- The formula of `tests/utils.ts` is the tests' own; `AnyQuote` covers it.
- The runtime's balance rule at each CPI of `release_reserves`: outside this
  repository. That the edits add up is modelled (`LamportsConserved`).
- The rest of `tests/smoke.devnet.ts` after its first transaction, and the tests
  of the old interface (`tests/pumpfun.ts`): test code, quoted in the findings.
- What the client library makes of the keys of `configure.ts` (section 2).
- Previews, logs, events, name, symbol and uri of a launch (a `=` in a uri cuts
  it off, `shared.ts:237`), negative numbers, the shell script `idl:check`.
- An RPC node that answers from an older slot than the confirmation it gave.
