---------------------------------- MODULE Flags ----------------------------------
(***************************************************************************)
(* The command line of the scripts: parseFlags of scripts/shared.ts, and   *)
(* what the scripts make of the JavaScript values it leaves.               *)
(*                                                                         *)
(* Abstracted: characters.  A text is what the patterns of parseFlags and  *)
(* the constructors that use the value can tell apart: its shape, its      *)
(* number in hundredths where it is or begins with one, and its key where  *)
(* it spells one.  No number typed is negative.                            *)
(***************************************************************************)
EXTENDS Integers, Sequences

CONSTANT NoKeyText  \* fills the key of a text that spells none

\* "exp" stands for 1e9, which begins with the number 1.

Shape(s) == [shape |-> s, number |-> 0, key |-> NoKeyText]
Number(s, n) == [shape |-> s, number |-> n, key |-> NoKeyText]
KeyText(k) == [shape |-> "key", number |-> 0, key |-> k]

\* An element of argv: --name=text, --name (its text is bare) or, with the empty
\* name, anything that does not begin with --.
Bare == Shape("bare")
Flag(name, text) == [name |-> name, text |-> text]
Word(text) == Flag("", text)

\* A JavaScript value; of: the text it was made from.
JsValue(type, text) == [type |-> type, of |-> text]
Undefined == JsValue("undefined", Shape("empty"))

\* What parseFlags makes of the text of a flag.
Convert(text) ==
    CASE text.shape = "bare"            -> JsValue("boolean", Shape("true"))
      [] text.shape \in {"true", "false"} -> JsValue("boolean", text)
      [] text.shape \in {"int", "float"}  -> JsValue("number", text)
      [] OTHER                          -> JsValue("string", text)

\* parseInt(text, 10): the integer the text begins with, or NaN.
ParseInt(text) ==
    IF text.shape \in {"int", "float", "exp"}
    THEN JsValue("number", Number("int", (text.number \div 100) * 100))
    ELSE JsValue("NaN", text)

Truthy(v) ==
    \/ v.type = "boolean" /\ v.of.shape = "true"
    \/ v.type = "number" /\ v.of.number # 0
    \/ v.type = "string" /\ v.of.shape # "empty"

FlagNames == {"help", "send", "mint", "recipient", "lamports", "rawTokens", "fees",
              "name", "symbol", "uri"}

\* The last flag of that name in argv decides.
LastFlag(argv, name) ==
    LET at == {i \in DOMAIN argv : argv[i].name = name}
    IN  IF at = {} THEN Undefined
        ELSE Convert(argv[CHOOSE i \in at : \A j \in at : j <= i].text)

\* Environment variables: a text each; unset is empty, as far as the scripts can tell.
EnvNames == {"MINT", "RECIPIENT", "LAMPORTS", "RAW_TOKENS", "NONCE", "ANCHOR_WALLET_JSON",
             "ANCHOR_PROVIDER_URL"}
Given(text) == text.shape # "empty"

\* Variant: the environment replaces every value that is not a string.
FallbackUnlessString(v, env, name, value) ==
    IF v.type # "string" /\ Given(env[name]) THEN value ELSE v

Fallback(v, env, name, value) ==
    IF v.type = "undefined" /\ Given(env[name]) THEN value ELSE v

\* Variant: the flag counts as soon as it is there, --send=false too.
SendsIfPresent(v) == v.type # "undefined"

\* flags.send = !!flags.send: nothing is sent unless the flag is there and truthy.
SendFlag(v) == Truthy(v)

parseFlags(argv, env) ==
    LET flag(name) == LastFlag(argv, name)
        given == [name \in FlagNames |-> flag(name)]
    IN  [given EXCEPT
            !.mint = Fallback(@, env, "MINT", JsValue("string", env.MINT)),
            !.recipient = Fallback(@, env, "RECIPIENT", JsValue("string", env.RECIPIENT)),
            !.lamports = Fallback(@, env, "LAMPORTS", ParseInt(env.LAMPORTS)),
            !.rawTokens = Fallback(@, env, "RAW_TOKENS", JsValue("string", env.RAW_TOKENS)),
            !.send = SendFlag(@)]

-----------------------------------------------------------------------------
(* The constructors the values end in. *)

\* new anchor.BN(v) throws on true and on a string that is no decimal integer; it
\* takes the integer part of a number, and 0 for NaN, false and the empty string.
IsAmount(v) ==
    \/ v.type \in {"number", "NaN"}
    \/ v.type = "boolean" /\ v.of.shape = "false"
    \/ v.type = "string" /\ v.of.shape \in {"empty", "int"}

Amount(v) == IF v.type = "NaN" THEN 0 ELSE v.of.number \div 100

\* new PublicKey(v), for the texts typed here, throws on all but a key's base58.
IsKey(v) == v.type = "string" /\ v.of.shape = "key"
KeyOf(v) == v.of.key

-----------------------------------------------------------------------------
(* What whoever typed the command line means by it (no code: the reference *)
(* for the properties): --name=text and --name text both give the flag a   *)
(* value, the last one counts, and the environment stands in for a flag    *)
(* that is not there.                                                      *)

Meant(argv, env, name, variable) ==
    LET at == {i \in DOMAIN argv : argv[i].name = name}
        last == CHOOSE i \in at : \A j \in at : j <= i
        next == IF last < Len(argv) THEN argv[last + 1] ELSE Word(Bare)
    IN  IF at = {} THEN IF variable \in EnvNames THEN env[variable] ELSE Shape("empty")
        ELSE IF argv[last].text = Bare /\ next.name = "" THEN next.text
        ELSE argv[last].text

\* To send is meant when the last --send says anything but false (--send=0 and
\* --send= are for the code to judge).
ToldToSend(argv) ==
    LET at == {i \in DOMAIN argv : argv[i].name = "send"}
        last == CHOOSE i \in at : \A j \in at : j <= i
    IN  at # {} /\ argv[last].text.shape # "false"
=============================================================================
