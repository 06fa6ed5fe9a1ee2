-------------------------------- MODULE Interface --------------------------------
(***************************************************************************)
(* The accounts an instruction names, as three sources derive and order    *)
(* them: the program's #[derive(Accounts)] structs, the checked-in IDL     *)
(* (target/types/pump.ts) and the scripts.                                 *)
(*                                                                         *)
(* Abstracted: an address is a key (a model value), or the seeds and the   *)
(* program it is derived from.  Names of accounts are the program's, as in *)
(* pump.json and the scripts: the client is taken to know an account by    *)
(* either spelling of its name (pump.ts has camel case).                   *)
(***************************************************************************)
EXTENDS Integers, Sequences

Text(s) == <<"text", s>>
Program(name) == <<"program", name>>

PumpProgram == Program("pump")
TokenProgram == Program("token")
AssociatedTokenProgram == Program("associated token")
MetadataProgram == Program("metadata")
SystemProgram == Program("system")
RentSysvar == Program("rent")

-----------------------------------------------------------------------------
(* The helpers of shared.ts. *)

findPda(seeds, program) == <<"pda", seeds, program>>

globalConfigPda == findPda(<<Text("global-config")>>, PumpProgram)

bondingCurvePda(mint) == findPda(<<Text("bonding-curve"), mint>>, PumpProgram)

AssociatedTokenAddress(mint, owner) ==
    findPda(<<owner, TokenProgram, mint>>, AssociatedTokenProgram)

\* Variant: the seeds in the order mint, owner.
MintFirst(mint, curve) ==
    findPda(<<mint, TokenProgram, curve>>, AssociatedTokenProgram)

curveAta(mint, curve) == AssociatedTokenAddress(mint, curve)

\* Its caller must know that the owner is on the curve: see OnCurve in Toolbox.
ownerAta(mint, owner) == AssociatedTokenAddress(mint, owner)

-----------------------------------------------------------------------------
(* The program's side. *)

Account(name, flags) == [name |-> name, flags |-> flags]

Readonly == {}
Mut == {"writable"}
MutSigner == {"writable", "signer"}

ConfigureAccounts ==
    << Account("admin", MutSigner), Account("global_config", Mut),
       Account("system_program", Readonly) >>

LaunchAccounts ==
    << Account("creator", MutSigner), Account("global_config", Readonly),
       Account("token_mint", MutSigner), Account("bonding_curve", Mut),
       Account("curve_token_account", Mut), Account("token_metadata_account", Mut),
       Account("token_program", Readonly), Account("associated_token_program", Readonly),
       Account("metadata_program", Readonly), Account("system_program", Readonly),
       Account("rent", Readonly) >>

SwapAccounts ==
    << Account("user", MutSigner), Account("global_config", Readonly),
       Account("fee_recipient", Mut), Account("bonding_curve", Mut),
       Account("token_mint", Readonly), Account("curve_token_account", Mut),
       Account("user_token_account", Mut), Account("token_program", Readonly),
       Account("associated_token_program", Readonly),
       Account("system_program", Readonly) >>

MigrateAccounts == << Account("payer", MutSigner), Account("global_config", Readonly) >>

ReleaseReservesAccounts ==
    << Account("admin", MutSigner), Account("global_config", Mut),
       Account("token_mint", Readonly), Account("bonding_curve", Mut),
       Account("curve_token_account", Mut), Account("recipient", Mut),
       Account("recipient_token_account", Mut), Account("token_program", Readonly),
       Account("associated_token_program", Readonly),
       Account("system_program", Readonly) >>

ProgramAccounts ==
    [ configure |-> ConfigureAccounts, launch |-> LaunchAccounts, swap |-> SwapAccounts,
      migrate |-> MigrateAccounts, release_reserves |-> ReleaseReservesAccounts ]

\* The addresses the seeds, address and associated_token constraints require,
\* given the accounts a by name; an account of another name may be any.  The
\* metadata account is unchecked here and checked by the metadata program.
FixedAddresses ==
    [ global_config |-> findPda(<<Text("global-config")>>, PumpProgram),
      token_program |-> TokenProgram,
      associated_token_program |-> AssociatedTokenProgram,
      metadata_program |-> MetadataProgram,
      system_program |-> SystemProgram, rent |-> RentSysvar ]

RequiredAddress(name, a) ==
    CASE name \in DOMAIN FixedAddresses -> FixedAddresses[name]
      [] name = "bonding_curve" ->
            findPda(<<Text("bonding-curve"), a.token_mint>>, PumpProgram)
      [] name = "curve_token_account" ->
            findPda(<<a.bonding_curve, TokenProgram, a.token_mint>>, AssociatedTokenProgram)
      [] name = "user_token_account" ->
            findPda(<<a.user, TokenProgram, a.token_mint>>, AssociatedTokenProgram)
      [] name = "recipient_token_account" ->
            findPda(<<a.recipient, TokenProgram, a.token_mint>>, AssociatedTokenProgram)
      [] name = "token_metadata_account" ->
            findPda(<<Text("metadata"), MetadataProgram, a.token_mint>>, MetadataProgram)
      [] OTHER -> a[name]

\* The accounts of an instruction by the program's names: it takes them by position.
ByName(accounts, metas) ==
    [n \in {accounts[i].name : i \in DOMAIN accounts} |->
        metas[CHOOSE i \in DOMAIN accounts : accounts[i].name = n].address]

\* Entry to a handler: enough accounts, each with the signature and the write
\* access its type asks for and at the address its constraints derive.
Admits(instruction, metas) ==
    LET accounts == ProgramAccounts[instruction]
    IN  /\ Len(metas) >= Len(accounts)
        /\ \A i \in DOMAIN accounts :
              /\ accounts[i].flags \subseteq metas[i].flags
              /\ metas[i].address =
                    RequiredAddress(accounts[i].name, ByName(accounts, metas))

-----------------------------------------------------------------------------
(* The IDL. *)

IdlConfigureAccounts ==
    << Account("admin", MutSigner), Account("global_config", Mut),
       Account("system_program", Readonly) >>

IdlLaunchAccounts ==
    << Account("creator", MutSigner), Account("global_config", Readonly),
       Account("token_mint", MutSigner), Account("bonding_curve", Mut),
       Account("curve_token_account", Mut), Account("token_metadata_account", Mut),
       Account("token_program", Readonly), Account("associated_token_program", Readonly),
       Account("metadata_program", Readonly), Account("system_program", Readonly),
       Account("rent", Readonly) >>

IdlMigrateAccounts == << Account("payer", MutSigner) >>

IdlReleaseReservesAccounts ==
    << Account("admin", MutSigner), Account("global_config", Mut),
       Account("token_mint", Readonly), Account("bonding_curve", Mut),
       Account("curve_token_account", Mut), Account("recipient", Mut),
       Account("recipient_token_account", Mut), Account("token_program", Readonly),
       Account("associated_token_program", Readonly),
       Account("system_program", Readonly) >>

IdlSwapAccounts ==
    << Account("user", MutSigner), Account("global_config", Readonly),
       Account("fee_recipient", Mut), Account("bonding_curve", Mut),
       Account("token_mint", Readonly), Account("curve_token_account", Mut),
       Account("user_token_account", Mut), Account("token_program", Readonly),
       Account("associated_token_program", Readonly),
       Account("system_program", Readonly) >>

IdlAccounts ==
    [ configure |-> IdlConfigureAccounts, launch |-> IdlLaunchAccounts,
      migrate |-> IdlMigrateAccounts, release_reserves |-> IdlReleaseReservesAccounts,
      swap |-> IdlSwapAccounts ]

\* The "pda" entries of the IDL: what a client that is not given the account
\* derives for it.
IdlGlobalConfig == findPda(<<Text("global-config")>>, PumpProgram)
IdlCurve(mint) == findPda(<<Text("bonding-curve"), mint>>, PumpProgram)
IdlCurveTokenAccount(curve, mint) ==
    findPda(<<curve, TokenProgram, mint>>, AssociatedTokenProgram)
IdlRecipientTokenAccount(recipient, mint) ==
    findPda(<<recipient, TokenProgram, mint>>, AssociatedTokenProgram)
IdlUserTokenAccount(user, mint) ==
    findPda(<<user, TokenProgram, mint>>, AssociatedTokenProgram)

\* Does every account of a that the IDL derives lie where the IDL derives it?
AgreesWithIdl(a) ==
    /\ "global_config" \in DOMAIN a => a.global_config = IdlGlobalConfig
    /\ "bonding_curve" \in DOMAIN a =>
          /\ a.bonding_curve = IdlCurve(a.token_mint)
          /\ a.curve_token_account = IdlCurveTokenAccount(a.bonding_curve, a.token_mint)
    /\ "recipient_token_account" \in DOMAIN a =>
          a.recipient_token_account = IdlRecipientTokenAccount(a.recipient, a.token_mint)
    /\ "user_token_account" \in DOMAIN a =>
          a.user_token_account = IdlUserTokenAccount(a.user, a.token_mint)

\* The errors the IDL has a name for.
IdlErrors == [code \in {6000} |-> "CurveNotCompleted"]

\* What a client prints of an error code.
ErrorName(code) == IF code \in DOMAIN IdlErrors THEN IdlErrors[code] ELSE "unnamed"

-----------------------------------------------------------------------------
(* The scripts' side. *)

\* The instruction of that name must be in the IDL, and every account of it among
\* the values the script provides.
getInstructionIdl(instruction) == IdlAccounts[instruction]

HasAccounts(idl_accounts, values) ==
    \A i \in DOMAIN idl_accounts : idl_accounts[i].name \in DOMAIN values

\* The accounts in the IDL's order with the IDL's flags.
buildAccountsFromIdl(idl_accounts, values) ==
    [i \in DOMAIN idl_accounts |->
        [address |-> values[idl_accounts[i].name], flags |-> idl_accounts[i].flags]]
=============================================================================
