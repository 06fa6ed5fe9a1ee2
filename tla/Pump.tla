---------------------------------- MODULE Pump ----------------------------------
(***************************************************************************)
(* The on-chain pump program (programs/pump/src): one global configuration *)
(* account, one bonding curve per launched mint, and the lamports and      *)
(* tokens its five instructions move.                                      *)
(*                                                                         *)
(* An instruction is one atomic step: the transaction that carries it      *)
(* either commits all of its effects or, on an error, a panic              *)
(* (Cargo.toml turns overflow checks on) or a failed transfer, none.  So   *)
(* an action is enabled exactly when the instruction succeeds, its guards  *)
(* are the instruction's account constraints and requires in the code's    *)
(* order, and a failing instruction is no step at all.                     *)
(*                                                                         *)
(* Abstracted: f64 fee percentages (they only reach the quote), metadata,  *)
(* log and event texts, bumps, transaction fees.                           *)
(***************************************************************************)
EXTENDS Integers

CONSTANTS
    Wallets,        \* system accounts with a key that can sign
    Mints,          \* keypairs a creator may launch a token with
    Pda,            \* owns the curve's token account of every mint
    NoKey,          \* Pubkey::default()
    MaxU64,         \* the largest u64
    ConfigRent,     \* rent-exempt minimum of the global-config account
    MintCost,       \* rent of a mint and its metadata, and the metadata fee
    CurveRent,      \* rent-exempt minimum of a bonding-curve account
    AtaRent,        \* rent-exempt minimum of a token account
    Funds,          \* the lamports each wallet starts with
    Configs,        \* the configurations configure may be called with
    Amounts,        \* the amounts swaps and transfers may be called with
    Quotes(_, _, _) \* (curve, amount_in, direction): what calc_amount_out may return

U64 == 0 .. MaxU64
Keys == Wallets \cup {NoKey}
Owners == Wallets \cup {Pda}
Directions == 0 .. 2  \* a u8: 0 buys, 1 sells, 2 stands for every other value

Config ==
    [ authority : Keys, fee_recipient : Keys, curve_limit : U64,
      initial_virtual_token_reserves : U64, initial_virtual_sol_reserves : U64,
      initial_real_token_reserves : U64, total_token_supply : U64,
      paused : BOOLEAN, is_completed : BOOLEAN ]

BondingCurve ==
    [ virtual_token_reserves : U64, virtual_sol_reserves : U64,
      real_token_reserves : U64, real_sol_reserves : U64,
      token_total_supply : U64, is_completed : BOOLEAN ]

Quote == [ out : U64, fee : U64 ]  \* (amount_out, fee_lamports)

ASSUME ConstantsAssumption ==
    /\ Pda \notin Wallets /\ NoKey \notin Wallets
    /\ MaxU64 \in Nat /\ ConfigRent \in Nat /\ MintCost \in Nat
    /\ CurveRent \in Nat /\ AtaRent \in Nat
    /\ Funds \in [Wallets -> Nat]
    /\ Configs \subseteq Config
    /\ Amounts \subseteq U64

VARIABLES
    global_config,  \* the fields of the global-config account
    initialized,    \* does the global-config account exist?
    bonding_curve,  \* per mint: the fields of its bonding-curve account
    launched,       \* the mints that exist, each with its bonding-curve account
    wallet,         \* per wallet: lamports
    vault,          \* per mint: lamports held at its bonding-curve address
    atas,           \* per mint: the owners whose associated token account exists
    tokens,         \* per mint and owner: the balance of that token account
    signer,         \* the signer of the last transaction
    opening         \* history: the virtual SOL reserves each curve was launched with

vars == <<global_config, initialized, bonding_curve, launched, wallet, vault,
          atas, tokens, signer, opening>>

-----------------------------------------------------------------------------
(* The accounts before their first transaction: zeroed data. *)

ZeroConfig ==
    [ authority |-> NoKey, fee_recipient |-> NoKey, curve_limit |-> 0,
      initial_virtual_token_reserves |-> 0, initial_virtual_sol_reserves |-> 0,
      initial_real_token_reserves |-> 0, total_token_supply |-> 0,
      paused |-> FALSE, is_completed |-> FALSE ]

ZeroCurve ==
    [ virtual_token_reserves |-> 0, virtual_sol_reserves |-> 0,
      real_token_reserves |-> 0, real_sol_reserves |-> 0,
      token_total_supply |-> 0, is_completed |-> FALSE ]

Init ==
    /\ global_config = ZeroConfig
    /\ initialized = FALSE
    /\ bonding_curve = [m \in Mints |-> ZeroCurve]
    /\ launched = {}
    /\ wallet = Funds
    /\ vault = [m \in Mints |-> 0]
    /\ atas = [m \in Mints |-> {}]
    /\ tokens = [m \in Mints |-> [o \in Owners |-> 0]]
    /\ signer = NoKey
    /\ opening = [m \in Mints |-> 0]

-----------------------------------------------------------------------------
(* Guards shared by the instructions.  A definition whose comment begins    *)
(* with "Variant" is what a plausible bug would make of the one after it:  *)
(* no action uses it, it shows that a property can fail.                   *)

\* Variant: the pause check is missing.
NoPauseCheck == TRUE

\* Variant: the admin check is missing.
NoAdminCheck(key) == TRUE

EnsureNotPaused == ~global_config.paused            \* ProgramPaused
EnsureNotCompleted == ~global_config.is_completed   \* ProgramCompleted
EnsureAdmin(key) == global_config.authority = key   \* NotAuthorized

\* Variant: swap relies on the program-wide flag alone.
ProgramIsOpen(m) == ~global_config.is_completed

\* Variant: release_reserves looks at the program-wide flag instead.
ProgramIsCompleted(m) == global_config.is_completed

\* Variant: any account may collect the fee.
AnyFeeRecipient(fee_recipient) == TRUE

\* The address constraint of swap: IncorrectFeeRecipient.
FeeRecipientInForce(fee_recipient) == global_config.fee_recipient = fee_recipient

\* The require of swap: CurveAlreadyCompleted.
CurveIsOpen(m) == ~bonding_curve[m].is_completed

\* The require of release_reserves: CurveNotCompleted.
CurveIsCompleted(m) == bonding_curve[m].is_completed

\* Variant: arithmetic without a check of the result.
Unchecked(n) == n \in Int

\* checked_add, checked_sub and overflow-checked + and - return a u64 or fail.
Checked(n) == n \in U64

(* Lamports and tokens. *)

\* What creating an associated token account costs its payer, if it is missing.
AtaCost(o, m) == IF o \in atas[m] THEN 0 ELSE AtaRent

\* Variant: the receiver's balance is read before the sender is debited.
SentStale(w, u, f, n) == [[w EXCEPT ![u] = @ - n] EXCEPT ![f] = w[f] + n]

\* w after account u sends n lamports to account f; u = f sends to itself.
Sent(w, u, f, n) == [[w EXCEPT ![u] = @ - n] EXCEPT ![f] = @ + n]

-----------------------------------------------------------------------------
(* configure: the first call creates the account; whoever calls while the  *)
(* authority is the default key needs no other right.                      *)

\* Variant: whoever signs may configure.
AnyoneMayConfigure(admin) == TRUE

MayConfigure(admin) == global_config.authority = NoKey \/ EnsureAdmin(admin)

Configure(admin, new_config) ==
    LET cost == IF initialized THEN 0 ELSE ConfigRent
    IN  /\ wallet[admin] >= cost
        /\ MayConfigure(admin)                          \* NotAuthorized
        /\ initialized' = TRUE
        /\ wallet' = [wallet EXCEPT ![admin] = @ - cost]
        /\ global_config' = new_config
        /\ signer' = admin
        /\ UNCHANGED <<bonding_curve, launched, vault, atas, tokens, opening>>

-----------------------------------------------------------------------------
(* launch: creates the mint, the curve and the curve's token account,      *)
(* mints the whole supply to it and gives the mint authority up, so that   *)
(* the supply is fixed from then on.                                       *)

LaunchedCurve ==
    [ virtual_token_reserves |-> global_config.initial_virtual_token_reserves,
      virtual_sol_reserves |-> global_config.initial_virtual_sol_reserves,
      real_token_reserves |-> global_config.initial_real_token_reserves,
      real_sol_reserves |-> 0,
      token_total_supply |-> global_config.total_token_supply,
      is_completed |-> FALSE ]

\* Creating an account at an address that already holds lamports: the payer
\* adds what is missing to the rent-exempt minimum, and no less than nothing.
RentShortfall(m) == IF vault[m] < CurveRent THEN CurveRent - vault[m] ELSE 0

\* Variant: init_if_needed in place of init, so a mint can be launched again.
AnyMint(m) == TRUE

\* The init constraints: neither the mint nor its curve exists yet.
MintIsNew(m) == m \notin launched

Launch(creator, m) ==
    LET cost == MintCost + RentShortfall(m) + AtaRent
    IN  /\ initialized
        /\ MintIsNew(m)
        /\ wallet[creator] >= cost
        /\ EnsureNotPaused
        /\ EnsureNotCompleted
        /\ launched' = launched \cup {m}
        /\ wallet' = [wallet EXCEPT ![creator] = @ - cost]
        /\ vault' = [vault EXCEPT ![m] = @ + RentShortfall(m)]
        /\ bonding_curve' = [bonding_curve EXCEPT ![m] = LaunchedCurve]
        /\ atas' = [atas EXCEPT ![m] = @ \cup {Pda}]
        /\ tokens' = [tokens EXCEPT ![m] =
                        [@ EXCEPT ![Pda] = global_config.total_token_supply]]
        /\ signer' = creator
        /\ opening' = [opening EXCEPT ![m] = LaunchedCurve.virtual_sol_reserves]
        /\ UNCHANGED <<global_config, initialized>>

-----------------------------------------------------------------------------
(* swap: the user's token account is created if it is missing, then the    *)
(* direction decides what moves.                                           *)

SwapGuards(user, m, fee_recipient) ==
    /\ initialized
    /\ m \in launched
    /\ Pda \in atas[m]
    /\ FeeRecipientInForce(fee_recipient)           \* IncorrectFeeRecipient
    /\ wallet[user] >= AtaCost(user, m)
    /\ EnsureNotPaused
    /\ EnsureNotCompleted
    /\ CurveIsOpen(m)                               \* CurveAlreadyCompleted

\* The two SOL transfers buy and sell both make, from the user: the fee to the
\* fee recipient, then the rest to the curve.
PaySol(user, m, fee_recipient, amount, fee) ==
    LET w0 == [wallet EXCEPT ![user] = @ - AtaCost(user, m)]
        w1 == Sent(w0, user, fee_recipient, fee)
    IN  /\ w0[user] >= fee
        /\ Checked(amount - fee)
        /\ w1[user] >= amount - fee
        /\ wallet' = [w1 EXCEPT ![user] = @ - (amount - fee)]
        /\ vault' = [vault EXCEPT ![m] = @ + (amount - fee)]
        /\ atas' = [atas EXCEPT ![m] = @ \cup {user}]

MoveTokens(m, from, to, n) ==
    /\ tokens[m][from] >= n
    /\ tokens' = [tokens EXCEPT ![m] = Sent(@, from, to, n)]

\* Variant: the two reserves are swapped.
SwappedReserves(curve, reserve_lamport, reserve_token) ==
    [ curve EXCEPT !.virtual_sol_reserves = reserve_token,
                   !.virtual_token_reserves = reserve_lamport ]

UpdateReserves(curve, reserve_lamport, reserve_token) ==
    [ curve EXCEPT !.virtual_sol_reserves = reserve_lamport,
                   !.virtual_token_reserves = reserve_token ]

\* Variant: the fee is booked as deposited.
GrossSol(curve, amount, fee) == curve.virtual_sol_reserves + amount

\* The curve's SOL reserves after a buy.
BoughtSol(curve, amount, fee) == curve.virtual_sol_reserves + (amount - fee)

\* Variant: the limit is reached one lamport early.
NearsLimit(reserve_lamport) == reserve_lamport + 1 >= global_config.curve_limit

ReachesLimit(reserve_lamport) == reserve_lamport >= global_config.curve_limit

Buy(user, m, fee_recipient, amount, min_out, q) ==
    LET curve == bonding_curve[m]
        new_token_reserves == curve.virtual_token_reserves - q.out
        new_sol_reserves == BoughtSol(curve, amount, q.fee)
    IN  /\ q.out >= min_out                         \* ReturnAmountTooSmall
        /\ PaySol(user, m, fee_recipient, amount, q.fee)
        /\ MoveTokens(m, Pda, user, q.out)
        /\ Checked(new_token_reserves)              \* OverflowOrUnderflowOccurred
        /\ Checked(new_sol_reserves)                \* OverflowOrUnderflowOccurred
        /\ bonding_curve' = [bonding_curve EXCEPT ![m] =
             [ UpdateReserves(curve, new_sol_reserves, new_token_reserves)
               EXCEPT !.is_completed = @ \/ ReachesLimit(new_sol_reserves) ]]

\* The code's sell: lamports go from the user to the curve, as in a buy, and
\* amount_out tokens from the user to the curve, while the reserves are credited
\* amount_in tokens and debited amount_out + fee lamports.
Sell(user, m, fee_recipient, amount, min_out, q) ==
    LET curve == bonding_curve[m]
        new_token_reserves == curve.virtual_token_reserves + amount
        new_sol_reserves == curve.virtual_sol_reserves - (q.out + q.fee)
    IN  /\ q.out >= min_out                         \* ReturnAmountTooSmall
        /\ PaySol(user, m, fee_recipient, amount, q.fee)
        /\ MoveTokens(m, user, Pda, q.out)
        /\ Checked(new_token_reserves)              \* OverflowOrUnderflowOccurred
        /\ Checked(q.out + q.fee)
        /\ Checked(new_sol_reserves)                \* OverflowOrUnderflowOccurred
        /\ bonding_curve' = [bonding_curve EXCEPT ![m] =
             UpdateReserves(curve, new_sol_reserves, new_token_reserves)]

\* A direction that is neither 0 nor 1 succeeds and trades nothing: all it
\* leaves behind is the user's token account.
TradeNothing(user, m) ==
    /\ wallet' = [wallet EXCEPT ![user] = @ - AtaCost(user, m)]
    /\ atas' = [atas EXCEPT ![m] = @ \cup {user}]
    /\ UNCHANGED <<vault, tokens, bonding_curve>>

Swap(user, m, fee_recipient, amount, direction, min_out) ==
    /\ SwapGuards(user, m, fee_recipient)
    /\ \/ /\ direction = 0
          /\ \E q \in Quotes(bonding_curve[m], amount, 0) :
                q \in Quote /\ Buy(user, m, fee_recipient, amount, min_out, q)
       \/ /\ direction = 1
          /\ \E q \in Quotes(bonding_curve[m], amount, 1) :
                q \in Quote /\ Sell(user, m, fee_recipient, amount, min_out, q)
       \/ /\ direction \notin {0, 1}
          /\ TradeNothing(user, m)
    /\ signer' = user
    /\ UNCHANGED <<global_config, initialized, launched, opening>>

-----------------------------------------------------------------------------
(* migrate: three guards and no effect; only that it was signed is seen.   *)

Migrate(payer) ==
    /\ initialized
    /\ EnsureNotPaused
    /\ EnsureNotCompleted
    /\ EnsureAdmin(payer)
    /\ signer' = payer
    /\ UNCHANGED <<global_config, initialized, bonding_curve, launched, wallet,
                   vault, atas, tokens, opening>>

-----------------------------------------------------------------------------
(* release_reserves: all lamports above the rent-exempt minimum, then all  *)
(* tokens, go to the recipient; the curve's token account is closed only   *)
(* if it held tokens, and its rent goes to the recipient too.              *)

\* Variant: the rent is swept along.
AllLamports(m) == vault[m]

Available(m) == IF vault[m] > CurveRent THEN vault[m] - CurveRent ELSE 0

ReleaseGuards(admin, m, recipient) ==
    /\ initialized
    /\ EnsureAdmin(admin)                           \* address constraint, NotAuthorized
    /\ m \in launched
    /\ Pda \in atas[m]
    /\ wallet[admin] >= AtaCost(recipient, m)
    /\ EnsureNotPaused
    /\ CurveIsCompleted(m)                          \* CurveNotCompleted

\* Variant: the recipient's balance as it was before the caller paid for its account.
CreditedStale(w, recipient, n) == [w EXCEPT ![recipient] = wallet[recipient] + n]

\* w after n lamports are added to the recipient's by hand.
Credited(w, recipient, n) == [w EXCEPT ![recipient] = @ + n]

ReleaseReserves(admin, m, recipient) ==
    LET amount == tokens[m][Pda]
        closes == amount > 0
        w0 == [wallet EXCEPT ![admin] = @ - AtaCost(recipient, m)]
    IN  /\ ReleaseGuards(admin, m, recipient)
        /\ vault' = [vault EXCEPT ![m] = @ - Available(m)]
        /\ wallet' = Credited(w0, recipient, Available(m) + (IF closes THEN AtaRent ELSE 0))
        /\ tokens' = [tokens EXCEPT ![m] = Sent(@, Pda, recipient, amount)]
        /\ atas' = [atas EXCEPT ![m] =
                      (@ \cup {recipient}) \ (IF closes THEN {Pda} ELSE {})]
        /\ signer' = admin
        /\ UNCHANGED <<global_config, initialized, bonding_curve, launched, opening>>

-----------------------------------------------------------------------------
(* What the system, token and associated-token programs let anyone do with *)
(* the same accounts, without the pump program.                            *)

\* Lamports sent to a curve address, whether or not the curve exists yet.
SystemTransfer(user, m, n) ==
    /\ n > 0 /\ wallet[user] >= n
    /\ wallet' = [wallet EXCEPT ![user] = @ - n]
    /\ vault' = [vault EXCEPT ![m] = @ + n]
    /\ signer' = user
    /\ UNCHANGED <<global_config, initialized, bonding_curve, launched, atas,
                   tokens, opening>>

\* Tokens sent from the user's token account to another one.
TokenTransfer(user, m, to, n) ==
    /\ n > 0 /\ to # user /\ {user, to} \subseteq atas[m]
    /\ MoveTokens(m, user, to, n)
    /\ signer' = user
    /\ UNCHANGED <<global_config, initialized, bonding_curve, launched, wallet,
                   vault, atas, opening>>

\* Anyone may create anyone's associated token account, the curve's included.
OpenAta(payer, m, owner) ==
    /\ m \in launched /\ owner \notin atas[m] /\ wallet[payer] >= AtaRent
    /\ wallet' = [wallet EXCEPT ![payer] = @ - AtaRent]
    /\ atas' = [atas EXCEPT ![m] = @ \cup {owner}]
    /\ signer' = payer
    /\ UNCHANGED <<global_config, initialized, bonding_curve, launched, vault,
                   tokens, opening>>

\* An owner closes its own empty token account and gets the rent back.
CloseAta(user, m) ==
    /\ user \in atas[m] /\ tokens[m][user] = 0
    /\ wallet' = [wallet EXCEPT ![user] = @ + AtaRent]
    /\ atas' = [atas EXCEPT ![m] = @ \ {user}]
    /\ signer' = user
    /\ UNCHANGED <<global_config, initialized, bonding_curve, launched, vault,
                   tokens, opening>>

-----------------------------------------------------------------------------
Next ==
    \/ \E admin \in Wallets, new_config \in Configs : Configure(admin, new_config)
    \/ \E creator \in Wallets, m \in Mints : Launch(creator, m)
    \/ \E user, fee_recipient \in Wallets, m \in Mints, amount, min_out \in Amounts,
          direction \in Directions :
            Swap(user, m, fee_recipient, amount, direction, min_out)
    \/ \E payer \in Wallets : Migrate(payer)
    \/ \E admin, recipient \in Wallets, m \in Mints : ReleaseReserves(admin, m, recipient)
    \/ \E user \in Wallets, m \in Mints, n \in Amounts : SystemTransfer(user, m, n)
    \/ \E user \in Wallets, m \in Mints, to \in Owners, n \in Amounts :
            TokenTransfer(user, m, to, n)
    \/ \E payer \in Wallets, m \in Mints, owner \in Owners : OpenAta(payer, m, owner)
    \/ \E user \in Wallets, m \in Mints : CloseAta(user, m)

Spec == Init /\ [][Next]_vars

-----------------------------------------------------------------------------
(* Properties. *)

TypeOK ==
    /\ global_config \in Config
    /\ initialized \in BOOLEAN
    /\ bonding_curve \in [Mints -> BondingCurve]
    /\ launched \subseteq Mints
    /\ wallet \in [Wallets -> Nat]
    /\ vault \in [Mints -> Nat]
    /\ atas \in [Mints -> SUBSET Owners]
    /\ tokens \in [Mints -> [Owners -> Nat]]
    /\ signer \in Keys
    /\ opening \in [Mints -> U64]

\* A curve account never falls below its rent-exempt minimum: release_reserves,
\* the one handler that takes lamports out, stops there however often it runs.
RentExempt == \A m \in launched : vault[m] >= CurveRent

\* While a curve is open, the lamports at its address back everything its
\* virtual SOL reserves have gained since launch, on top of the rent: no mix of
\* buys, sells, fees and transfers lets the bookkeeping run ahead of the money.
ReservesBacked ==
    \A m \in launched : ~bonding_curve[m].is_completed =>
        vault[m] + opening[m] >= CurveRent + bonding_curve[m].virtual_sol_reserves

\* Only a token account that exists holds tokens, and a curve without its token
\* account (release_reserves closes it) is completed: no open curve ever loses the
\* account that swap's constraints ask for.
NothingStranded ==
    \A m \in Mints :
        /\ \A o \in Owners : tokens[m][o] > 0 => o \in atas[m]
        /\ m \in launched /\ Pda \notin atas[m] => bonding_curve[m].is_completed

\* A completed curve stays completed and its reserves are frozen, whatever is
\* configured, traded or released afterwards.
CompletedIsFinal ==
    [][\A m \in launched : bonding_curve[m].is_completed =>
            bonding_curve'[m] = bonding_curve[m]]_vars

\* Lamports leave a curve address only when the authority releases a completed
\* curve while not paused; then everything above the rent and all tokens leave
\* together, to one recipient.
ReservesLeaveOnlyByRelease ==
    [][\A m \in Mints : vault'[m] < vault[m] =>
        /\ m \in launched /\ bonding_curve[m].is_completed
        /\ ~global_config.paused /\ signer' = global_config.authority
        /\ vault'[m] = CurveRent /\ tokens'[m][Pda] = 0
        /\ \E r \in Wallets :
              /\ tokens'[m][r] = tokens[m][r] + tokens[m][Pda]
              /\ wallet'[r] + AtaRent >= wallet[r] + (vault[m] - vault'[m])]_vars

\* While there is an authority, nobody else changes the configuration, the next
\* authority included, or takes lamports out of a curve: the role changes hands
\* only by the signature of its holder, through however many configurations.
OnlyTheAuthorityRules ==
    [][global_config.authority # NoKey /\ signer' # global_config.authority =>
        /\ UNCHANGED global_config
        /\ \A m \in Mints : vault'[m] >= vault[m]]_vars

\* While the program is paused no curve changes, none is launched, and nothing
\* leaves a curve: the pause guard of every handler, over all handlers.
PauseFreezesCurves ==
    [][global_config.paused =>
        /\ UNCHANGED <<bonding_curve, launched>>
        /\ \A m \in Mints : vault'[m] >= vault[m] /\ tokens'[m][Pda] >= tokens[m][Pda]]_vars

\* When tokens leave an open curve, or its virtual SOL reserves grow, the
\* reserves move by exactly the tokens and the lamports that moved: what buy
\* pays, what it hands out and what it books never differ, fee or no fee.
BuyMovesReserves ==
    [][\A m \in launched :
        LET curve == bonding_curve[m]
            sol == bonding_curve'[m].virtual_sol_reserves - curve.virtual_sol_reserves
        IN  ~bonding_curve[m].is_completed /\ (tokens'[m][Pda] < tokens[m][Pda] \/ sol > 0) =>
              /\ vault'[m] - vault[m] = sol
              /\ tokens'[m][Pda] - tokens[m][Pda] =
                   bonding_curve'[m].virtual_token_reserves - curve.virtual_token_reserves]_vars

\* A curve completes only when the lamports really at its address, with the
\* reserves it was launched with, reach the limit in force: the limit is tested
\* on virtual reserves, and this says the money is there too.
CompletesFunded ==
    [][\A m \in launched : ~bonding_curve[m].is_completed /\ bonding_curve'[m].is_completed =>
          vault'[m] + opening[m] >= CurveRent + global_config.curve_limit]_vars

=============================================================================
