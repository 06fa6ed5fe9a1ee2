--------------------------------- MODULE Layout ---------------------------------
(***************************************************************************)
(* How structures lie in bytes: three descriptions of the same two         *)
(* accounts and of the instructions' arguments are kept in the repository, *)
(* the program's structs, the checked-in IDL (target/types/pump.ts) and    *)
(* the hand-written parsers of scripts/shared.ts.  Each is written down    *)
(* here as it stands.                                                      *)
(*                                                                         *)
(* Abstracted: bytes.  Data is its size and, at the offset where a field   *)
(* was written, the field's type and value; a read finds the value only    *)
(* where a field of its type begins.                                       *)
(***************************************************************************)
EXTENDS Integers, Sequences

CONSTANT Garbage  \* what a read finds anywhere else

Field(name, type) == [name |-> name, type |-> type]

\* A string is its length prefix; the characters are left out.
Width == [pubkey |-> 32, u64 |-> 8, f64 |-> 8, bool |-> 1, u8 |-> 1, string |-> 4]

DiscriminatorSize == 8  \* precedes the fields of an account or an instruction

\* offset[i]: where field i begins; the offset after the last field is the size.
Offsets(fields) ==
    LET offset[i \in 1 .. Len(fields) + 1] ==
            IF i = 1 THEN DiscriminatorSize
            ELSE offset[i - 1] + Width[fields[i - 1].type]
    IN  offset

Size(fields) == Offsets(fields)[Len(fields) + 1]

Names(fields) == {fields[i].name : i \in DOMAIN fields}

Position(fields, name) == CHOOSE i \in DOMAIN fields : fields[i].name = name

\* Borsh: the fields one after the other, in the order of the description.
Encode(fields, rec) ==
    LET offset == Offsets(fields)
        FieldAt(o) == fields[CHOOSE i \in DOMAIN fields : offset[i] = o]
    IN  [ size  |-> Size(fields),
          cells |-> [o \in {offset[i] : i \in DOMAIN fields} |->
                        [type |-> FieldAt(o).type, value |-> rec[FieldAt(o).name]]] ]

\* Variant: what is missing at the end reads as zeros.
PadsWithZeros(fields, data) == TRUE

\* Borsh fails on data that ends before the last field; bytes left over pass.
Decodes(fields, data) == data.size >= Size(fields)

\* The values a description of the fields finds in the data.
Read(fields, data) ==
    LET offset == Offsets(fields)
        At(o, type) == IF o \in DOMAIN data.cells /\ data.cells[o].type = type
                       THEN data.cells[o].value ELSE Garbage
    IN  [n \in Names(fields) |->
            LET i == Position(fields, n) IN At(offset[i], fields[i].type)]

-----------------------------------------------------------------------------
(* The program's structs. *)

ConfigStruct ==
    << Field("authority", "pubkey"), Field("fee_recipient", "pubkey"),
       Field("curve_limit", "u64"),
       Field("initial_virtual_token_reserves", "u64"),
       Field("initial_virtual_sol_reserves", "u64"),
       Field("initial_real_token_reserves", "u64"),
       Field("total_token_supply", "u64"),
       Field("buy_fee_percent", "f64"), Field("sell_fee_percent", "f64"),
       Field("migration_fee_percent", "f64"),
       Field("paused", "bool"), Field("is_completed", "bool") >>

BondingCurveStruct ==
    << Field("virtual_token_reserves", "u64"), Field("virtual_sol_reserves", "u64"),
       Field("real_token_reserves", "u64"), Field("real_sol_reserves", "u64"),
       Field("token_total_supply", "u64"), Field("is_completed", "bool") >>

ConfigureArgs == ConfigStruct
LaunchArgs == << Field("name", "string"), Field("symbol", "string"), Field("uri", "string") >>
SwapArgs == << Field("amount", "u64"), Field("direction", "u8"), Field("min_out", "u64") >>
MigrateArgs == << Field("nonce", "u8") >>
ReleaseReservesArgs == << >>

-----------------------------------------------------------------------------
(* The IDL.  Clients know an argument by its place and a field of a structure   *)
(* that is an argument by its name, in camel case (target/types/pump.ts).  Its  *)
(* description of the curve is left out: no script reads accounts by it.        *)

IdlConfig ==
    << Field("authority", "pubkey"), Field("feeRecipient", "pubkey"),
       Field("curveLimit", "u64"),
       Field("initialVirtualTokenReserves", "u64"),
       Field("initialVirtualSolReserves", "u64"),
       Field("initialRealTokenReserves", "u64"),
       Field("totalTokenSupply", "u64"),
       Field("buyFeePercent", "f64"), Field("sellFeePercent", "f64"),
       Field("migrationFeePercent", "f64") >>

IdlConfigureArgs == IdlConfig
IdlLaunchArgs == << Field("name", "string"), Field("symbol", "string"), Field("uri", "string") >>
IdlMigrateArgs == << Field("nonce", "u8") >>
IdlReleaseReservesArgs == << >>
IdlSwapArgs == << Field("amount", "u64"), Field("direction", "u8"), Field("min_out", "u64") >>

-----------------------------------------------------------------------------
(* The parsers of shared.ts, which read one field after the other. *)

\* Variant: the limit is read before the fee recipient.
LimitFirst ==
    << Field("authority", "pubkey"), Field("curve_limit", "u64"),
       Field("fee_recipient", "pubkey"),
       Field("initial_virtual_token_reserves", "u64"),
       Field("initial_virtual_sol_reserves", "u64"),
       Field("initial_real_token_reserves", "u64"),
       Field("total_token_supply", "u64"),
       Field("buy_fee_percent", "f64"), Field("sell_fee_percent", "f64"),
       Field("migration_fee_percent", "f64") >>

ParsedConfig ==
    << Field("authority", "pubkey"), Field("fee_recipient", "pubkey"),
       Field("curve_limit", "u64"),
       Field("initial_virtual_token_reserves", "u64"),
       Field("initial_virtual_sol_reserves", "u64"),
       Field("initial_real_token_reserves", "u64"),
       Field("total_token_supply", "u64"),
       Field("buy_fee_percent", "f64"), Field("sell_fee_percent", "f64"),
       Field("migration_fee_percent", "f64") >>

\* Variant: the two virtual reserves are read in the order SOL, token.
MisreadBondingCurve ==
    << Field("virtual_sol_reserves", "u64"), Field("virtual_token_reserves", "u64"),
       Field("real_token_reserves", "u64"), Field("real_sol_reserves", "u64"),
       Field("token_total_supply", "u64"), Field("is_completed", "bool") >>

ParsedBondingCurve ==
    << Field("virtual_token_reserves", "u64"), Field("virtual_sol_reserves", "u64"),
       Field("real_token_reserves", "u64"), Field("real_sol_reserves", "u64"),
       Field("token_total_supply", "u64"), Field("is_completed", "bool") >>

parseConfig(data) == Read(ParsedConfig, data)
parseBondingCurve(data) == Read(ParsedBondingCurve, data)
=============================================================================
