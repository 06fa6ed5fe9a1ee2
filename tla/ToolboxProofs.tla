----------------------------- MODULE ToolboxProofs -----------------------------
(***************************************************************************)
(* Proofs about Toolbox: whatever is typed and however its transaction     *)
(* fares, the scripts are clients of Pump, send what was typed and print   *)
(* the truth.                                                              *)
(***************************************************************************)
EXTENDS Toolbox, PumpProofs, LayoutProofs

-----------------------------------------------------------------------------
(* The scripts are clients of the program. *)

LEMMA LandIsNext ==
    ASSUME NEW job, Land(job)
    PROVE  Next
  <1>1. CASE ExecuteConfigure(job)
    BY <1>1, ToolAssumption DEF ExecuteConfigure, Next
  <1>2. CASE Execute(job)
    <2> DEFINE a == Accounts(job)
               args == Read(SwapArgs, Data(job))
    <2>1. a.token_mint \in Mints
      BY <1>2 DEF Execute
    <2>2. CASE a.creator \in Wallets /\ Launch(a.creator, a.token_mint)
      BY <2>1, <2>2 DEF Next
    <2>3. CASE /\ {a.user, a.fee_recipient} \subseteq Wallets
               /\ {args.amount, args.min_out} \subseteq Amounts /\ args.direction \in Directions
               /\ Swap(a.user, a.token_mint, a.fee_recipient, args.amount, args.direction,
                       args.min_out)
      BY <2>1, <2>3 DEF Next
    <2>4. CASE /\ {a.admin, a.recipient} \subseteq Wallets
               /\ ReleaseReserves(a.admin, a.token_mint, a.recipient)
      BY <2>1, <2>4 DEF Next
    <2> QED BY <1>2, <2>2, <2>3, <2>4 DEF Execute
  <1> QED BY <1>1, <1>2 DEF Land

LEMMA StartKeeps ==
    ASSUME NEW c, Start(c)
    PROVE  UNCHANGED <<vars, flight>>
  BY DEF Start, StartConfigure, StartSmoke, StartLaunch, StartBuy, StartSell, StartRelease,
         StartMigrate, StartCurveState, StartMintInfo, StartReleaseMin, StartSweep,
         ReleaseEncode, Main

\* What every step does to the program below.
LEMMA ToolStepIsPumpStep == [ToolNext]_toolVars => [Next]_vars
  <1> SUFFICES ASSUME [ToolNext]_toolVars
               PROVE  [Next]_vars
    OBVIOUS
  <1>1. CASE \E c \in Commands : Start(c)
    BY <1>1, StartKeeps
  <1>2. CASE ReadConfig \/ ReadMint \/ ShowCurve \/ ShowMint
    BY <1>2 DEF ReadConfig, ReadMint, ShowCurve, ShowMint, Stays
  <1>3. CASE \E what \in Balances : ReadBefore(what) \/ ReadAfter(what)
    BY <1>3 DEF ReadBefore, ReadAfter, Stays
  <1>4. CASE DryRunEnds \/ Submit \/ Throw \/ Finish
    BY <1>4 DEF DryRunEnds, Submit, Throw, Finish, Stays
  <1>5. CASE \E job \in flight : Land(job)
    BY <1>5, LandIsNext
  <1>6. CASE \E job \in flight : Refuse(job) \/ Lose(job)
    BY <1>6 DEF Refuse, Lose
  <1>7. CASE Others
    BY <1>7 DEF Others
  <1>8. CASE UNCHANGED toolVars
    BY <1>8 DEF toolVars
  <1> QED BY <1>1, <1>2, <1>3, <1>4, <1>5, <1>6, <1>7, <1>8 DEF ToolNext

\* The scripts at a terminal are clients like any other: what they encode and send
\* is an instruction of the program or none at all, and all that is proved of Pump
\* holds whatever is typed.
THEOREM ToolsAreClients == ToolSpec => Spec
  <1>1. ToolInit => Init
    BY DEF ToolInit
  <1> QED BY <1>1, ToolStepIsPumpStep, PTL DEF ToolSpec, Spec

-----------------------------------------------------------------------------
(* What a script is about to send is what was typed. *)

Fields(r) ==
    /\ r = [ pc |-> r.pc, job |-> r.job, send |-> r.send, asked |-> r.asked,
             before |-> r.before, after |-> r.after, quiet |-> r.quiet ]
    /\ r.job = Job(r.job.script, r.job.mint, r.job.to, r.job.amount)

\* Where a script can be, by its name.
AtItsPlace(r) ==
    /\ r.pc \in {"idle", "config", "mint", "show", "before", "built", "sent", "confirmed"}
    /\ r.pc = "config" => r.job.script \in {"buy", "sell"}
    /\ r.pc = "mint" => r.job.script = "buy"
    /\ r.pc = "before" => r.job.script = "release_min"
    /\ r.pc \in {"built", "sent", "confirmed"} => r.job.script \in DOMAIN Instruction

\* The job is the one that was typed, and it is sent only if that was typed.
AsTyped(r) ==
    /\ r.job.script \in {"buy", "release"} =>
          r.asked.mint.shape = "key" /\ r.asked.mint.key = r.job.mint
    /\ r.job.script = "release" =>
          r.asked.recipient.shape = "key" /\ r.asked.recipient.key = r.job.to
    /\ r.job.script = "buy" => r.job.amount * 100 <= r.asked.lamports.number
    /\ r.send /\ r.job.script \in {"configure", "launch", "buy", "release"} => r.asked.send

\* No balance is read before its time.
ReadInTime(r) ==
    /\ r.pc = "before" => DOMAIN r.before \subseteq Balances
    /\ r.pc \in {"config", "mint", "before", "built", "sent"} => r.after = NothingRead
    /\ r.pc \in {"built", "sent", "confirmed"} /\ r.job.script = "release_min" =>
          DOMAIN r.before = Balances

RunOK(r) ==
    /\ Fields(r) /\ AtItsPlace(r) /\ ReadInTime(r)
    /\ r.pc \in {"config", "mint", "built"} => AsTyped(r)

Flying ==
    /\ \A job \in flight : job.script \in DOMAIN Instruction
    /\ \A j, k \in flight : j = k
    /\ run.pc = "sent" => flight \subseteq {run.job}

LEMMA InstructionScripts ==
    DOMAIN Instruction =
        {"configure", "smoke", "launch", "buy", "migrate", "release", "release_min"}
  BY DEF Instruction

\* A key that a script takes from a flag, or from the environment, is the one meant.
LEMMA KeyMeant ==
    ASSUME NEW argv, NEW env, NEW name, NEW variable \in EnvNames,
           IsKey(Fallback(LastFlag(argv, name), env, variable,
                          JsValue("string", env[variable])))
    PROVE  LET v == Fallback(LastFlag(argv, name), env, variable,
                             JsValue("string", env[variable]))
           IN  /\ Meant(argv, env, name, variable).shape = "key"
               /\ Meant(argv, env, name, variable).key = KeyOf(v)
  <1> DEFINE at == {i \in DOMAIN argv : argv[i].name = name}
             last == CHOOSE i \in at : \A j \in at : j <= i
             text == argv[last].text
  <1>1. CASE at = {}
    <2>1. LastFlag(argv, name) = Undefined /\ Meant(argv, env, name, variable) = env[variable]
      BY <1>1 DEF LastFlag, Meant
    <2> QED BY <2>1 DEF Undefined, JsValue, Fallback, IsKey, KeyOf
  <1>2. CASE at # {}
    <2>1. LastFlag(argv, name) = Convert(text)
      BY <1>2 DEF LastFlag
    <2>2. Convert(text).type # "undefined"
      BY DEF Convert, JsValue
    <2>3. Fallback(Convert(text), env, variable, JsValue("string", env[variable]))
            = Convert(text)
      BY <2>2 DEF Fallback
    <2>4. Convert(text).type = "string" => Convert(text) = JsValue("string", text)
      BY DEF Convert, JsValue
    <2>5. IsKey(Convert(text))
      BY <2>1, <2>3
    <2>6. Convert(text) = JsValue("string", text)
      BY <2>4, <2>5 DEF IsKey
    <2>7. text.shape = "key" /\ KeyOf(Convert(text)) = text.key
      BY <2>5, <2>6 DEF IsKey, KeyOf, JsValue
    <2>8. text # Bare
      BY <2>7 DEF Bare, Shape
    <2>9. Meant(argv, env, name, variable) = text
      BY <1>2, <2>8 DEF Meant
    <2> QED BY <2>1, <2>3, <2>7, <2>9
  <1> QED BY <1>1, <1>2

LEMMA ConvertCases ==
    ASSUME NEW text
    PROVE  \/ text.shape = "bare" /\ Convert(text) = JsValue("boolean", Shape("true"))
           \/ /\ text.shape # "bare"
              /\ \E type \in {"boolean", "number", "string"} : Convert(text) = JsValue(type, text)
  <1>1. CASE text.shape = "bare"
    BY <1>1 DEF Convert
  <1>2. CASE text.shape \in {"true", "false"}
    BY <1>2 DEF Convert
  <1>3. CASE text.shape \in {"int", "float"}
    BY <1>3 DEF Convert
  <1>4. CASE text.shape \notin {"bare", "true", "false", "int", "float"}
    BY <1>4 DEF Convert
  <1> QED BY <1>1, <1>2, <1>3, <1>4

\* A buy asks for no more lamports than were meant.
LEMMA AmountMeant ==
    ASSUME NEW line \in CommandLines, NEW v,
           v = Fallback(LastFlag(line.argv, "lamports"), line.env, "LAMPORTS",
                        ParseInt(line.env.LAMPORTS)),
           IsAmount(v)
    PROVE  Amount(v) * 100 <= Meant(line.argv, line.env, "lamports", "LAMPORTS").number
  <1> DEFINE argv == line.argv
             env == line.env
             at == {i \in DOMAIN argv : argv[i].name = "lamports"}
             last == CHOOSE i \in at : \A j \in at : j <= i
             text == argv[last].text
             flag == LastFlag(argv, "lamports")
  <1>1. flag.of.number \in Nat /\ env.LAMPORTS.number \in Nat
    BY TextAssumption
  <1>2. CASE at = {}
    <2>1. flag = Undefined /\ Meant(argv, env, "lamports", "LAMPORTS") = env["LAMPORTS"]
      BY <1>2 DEF LastFlag, Meant, EnvNames
    <2>2. v = ParseInt(env.LAMPORTS)
      BY <2>1 DEF Fallback, Undefined, JsValue, IsAmount
    <2>3. CASE v.type = "NaN"
      BY <1>1, <2>1, <2>3 DEF Amount
    <2>4. CASE v.type # "NaN"
      <3>1. v = JsValue("number", Number("int", (env.LAMPORTS.number \div 100) * 100))
        BY <2>2, <2>4 DEF ParseInt, JsValue
      <3>2. v.of.number = (env.LAMPORTS.number \div 100) * 100
        BY <3>1 DEF JsValue, Number
      <3>3. Amount(v) = env.LAMPORTS.number \div 100
        BY <1>1, <2>4, <3>2 DEF Amount
      <3> QED BY <1>1, <2>1, <3>3
    <2> QED BY <2>3, <2>4
  <1>3. CASE at # {}
    <2>1. flag = Convert(text)
      BY <1>3 DEF LastFlag
    <2>2. flag.type # "undefined"
      BY <2>1, ConvertCases DEF JsValue
    <2>3. v = flag
      BY <2>2 DEF Fallback
    <2>4. \/ flag = JsValue("boolean", Shape("true")) /\ text.shape = "bare"
          \/ flag.of = text /\ text.shape # "bare"
      BY <2>1, ConvertCases DEF JsValue
    <2>5. flag # JsValue("boolean", Shape("true"))
      BY <2>3 DEF IsAmount, JsValue, Shape
    <2>6. text # Bare
      BY <2>4, <2>5 DEF Bare, Shape
    <2>7. Meant(argv, env, "lamports", "LAMPORTS") = text /\ v.of = text
      BY <1>3, <2>3, <2>4, <2>5, <2>6 DEF Meant
    <2> QED BY <1>1, <2>3, <2>7 DEF Amount
  <1> QED BY <1>2, <1>3

\* A script sends only if the flag was there, and did not say false.
LEMMA SendMeant ==
    ASSUME NEW argv, SendFlag(LastFlag(argv, "send"))
    PROVE  ToldToSend(argv)
  <1> DEFINE at == {i \in DOMAIN argv : argv[i].name = "send"}
             last == CHOOSE i \in at : \A j \in at : j <= i
             text == argv[last].text
  <1>1. ~SendFlag(Undefined)
    BY DEF SendFlag, Truthy, Undefined, JsValue
  <1>2. at # {} /\ LastFlag(argv, "send") = Convert(text)
    BY <1>1 DEF LastFlag
  <1>3. text.shape = "false" => ~SendFlag(Convert(text))
    BY DEF Convert, SendFlag, Truthy, JsValue
  <1> QED BY <1>2, <1>3 DEF ToldToSend

\* What a script reads of its command line is what the line means.
LEMMA CommandMeant ==
    ASSUME NEW c \in Commands
    PROVE  /\ IsKey(c.flags.mint) => /\ c.asked.mint.shape = "key"
                                     /\ c.asked.mint.key = KeyOf(c.flags.mint)
           /\ IsKey(c.flags.recipient) => /\ c.asked.recipient.shape = "key"
                                          /\ c.asked.recipient.key = KeyOf(c.flags.recipient)
           /\ IsAmount(c.flags.lamports) =>
                Amount(c.flags.lamports) * 100 <= c.asked.lamports.number
           /\ c.flags.send => c.asked.send
  <1>1. PICK line \in CommandLines : c = Parsed(line)
    BY DEF Commands
  <1> DEFINE argv == line.argv
             env == line.env
  <1>2. /\ c.flags = parseFlags(argv, env)
        /\ c.asked.mint = Meant(argv, env, "mint", "MINT")
        /\ c.asked.recipient = Meant(argv, env, "recipient", "RECIPIENT")
        /\ c.asked.lamports = Meant(argv, env, "lamports", "LAMPORTS")
        /\ c.asked.send = ToldToSend(argv)
    BY <1>1 DEF Parsed
  <1>3. /\ c.flags.mint = Fallback(LastFlag(argv, "mint"), env, "MINT",
                                   JsValue("string", env["MINT"]))
        /\ c.flags.recipient = Fallback(LastFlag(argv, "recipient"), env, "RECIPIENT",
                                        JsValue("string", env["RECIPIENT"]))
        /\ c.flags.lamports = Fallback(LastFlag(argv, "lamports"), env, "LAMPORTS",
                                       ParseInt(env.LAMPORTS))
        /\ c.flags.send = SendFlag(LastFlag(argv, "send"))
    BY <1>2 DEF parseFlags, FlagNames
  <1>4. {"MINT", "RECIPIENT"} \subseteq EnvNames
    BY DEF EnvNames
  <1> QED BY <1>2, <1>3, <1>4, KeyMeant, AmountMeant, SendMeant

-----------------------------------------------------------------------------
(* What a command line starts. *)

LEMMA RunFields ==
    ASSUME NEW pc, NEW script, NEW mint, NEW to, NEW amount, NEW c, NEW r,
           r = Run(pc, Job(script, mint, to, amount), c)
    PROVE  /\ Fields(r) /\ r.pc = pc /\ r.send = c.flags.send /\ r.asked = c.asked
           /\ r.before = NothingRead /\ r.after = NothingRead
           /\ r.job.script = script /\ r.job.mint = mint /\ r.job.to = to
           /\ r.job.amount = amount
  BY DEF Run, Job, Fields

LEMMA SendingFields ==
    ASSUME NEW r, NEW q, Fields(q), r = [q EXCEPT !.send = TRUE]
    PROVE  /\ Fields(r) /\ r.pc = q.pc /\ r.job = q.job
           /\ r.before = q.before /\ r.after = q.after
  BY DEF Fields

\* A run as it starts.
Fresh(r) == RunOK(r) /\ r.pc \notin {"sent", "confirmed"} /\ r.before = NothingRead

\* A run that a command line starts, at whatever place.
LEMMA StartedOK ==
    ASSUME NEW c \in Commands, NEW pc \in {"idle", "config", "show", "built"},
           NEW script, NEW mint, NEW to, NEW amount,
           pc = "config" => script \in {"buy", "sell"},
           pc = "built" => script \in {"configure", "launch", "release"},
           script \in {"buy", "release"} => c.asked.mint.shape = "key" /\ c.asked.mint.key = mint,
           script = "release" => c.asked.recipient.shape = "key" /\ c.asked.recipient.key = to,
           script = "buy" => amount * 100 <= c.asked.lamports.number
    PROVE  Fresh(Run(pc, Job(script, mint, to, amount), c))
  <1> DEFINE r == Run(pc, Job(script, mint, to, amount), c)
  <1>1. r = Run(pc, Job(script, mint, to, amount), c)
    OBVIOUS
  <1> HIDE DEF r
  <1>2. /\ Fields(r) /\ r.pc = pc /\ r.send = c.flags.send /\ r.asked = c.asked
        /\ r.before = NothingRead /\ r.after = NothingRead
        /\ r.job.script = script /\ r.job.mint = mint /\ r.job.to = to
        /\ r.job.amount = amount
    BY <1>1, RunFields
  <1>3. AtItsPlace(r)
    BY <1>2, InstructionScripts DEF AtItsPlace
  <1>4. ReadInTime(r)
    BY <1>2 DEF ReadInTime
  <1>5. AsTyped(r)
    BY <1>2, CommandMeant DEF AsTyped
  <1>6. Fresh(r)
    BY <1>2, <1>3, <1>4, <1>5 DEF RunOK, Fresh
  <1> QED BY <1>6 DEF r

LEMMA IdleFields ==
    Fields(Idle) /\ Idle.pc = "idle" /\ Idle.before = NothingRead /\ Idle.after = NothingRead
    /\ Idle.job.script = "none"
  BY DEF Idle, Run, NoJob, Job, Fields

LEMMA IdleOK == Fresh(Idle) /\ RunOK(Idle) /\ Idle.pc = "idle"
  BY IdleFields DEF Fresh, RunOK, AtItsPlace, ReadInTime

\* What a step prints when it does not print a report or an error of the program.
Quietly == printed'.kind \notin {"report", "error"}

LEMMA PrintsQuietly ==
    /\ Nothing.kind \notin {"report", "error"} /\ Usage.kind \notin {"report", "error"}
    /\ Thrown.kind \notin {"report", "error"} /\ DryRun.kind \notin {"report", "error"}
    /\ Signature.kind \notin {"report", "error"}
  BY DEF Nothing, Usage, Thrown, DryRun, Signature

LEMMA StartConfigureOK ==
    ASSUME NEW c \in Commands, StartConfigure(c)
    PROVE  Fresh(run') /\ Quietly
  <1> DEFINE r == Run("built", Job("configure", NoKey, Terminal, FeesOf(c)), c)
  <1>1. Fresh(r)
    BY StartedOK
  <1> HIDE DEF r
  <1> QED BY <1>1, IdleOK, PrintsQuietly DEF StartConfigure, Main, Ends, Goes, Quietly, r

LEMMA StartLaunchOK ==
    ASSUME NEW c \in Commands, StartLaunch(c)
    PROVE  Fresh(run') /\ Quietly
  <1>1. PICK m : Main(c, "launch", IsHelp(c), HasProvider(c),
                      Run("built", Job("launch", m, NoKey, 0), c))
    BY DEF StartLaunch
  <1> DEFINE r == Run("built", Job("launch", m, NoKey, 0), c)
  <1>2. Fresh(r)
    BY StartedOK
  <1> HIDE DEF r
  <1> QED BY <1>1, <1>2, IdleOK, PrintsQuietly DEF Main, Ends, Goes, Quietly, r

LEMMA StartBuyOK ==
    ASSUME NEW c \in Commands, StartBuy(c)
    PROVE  Fresh(run') /\ Quietly
  <1> DEFINE f == c.flags
             r == Run("config", Job("buy", KeyOf(f.mint), NoKey, Amount(f.lamports)), c)
  <1>1. ASSUME IsKey(f.mint), IsAmount(f.lamports) PROVE Fresh(r)
    BY <1>1, StartedOK, CommandMeant
  <1> HIDE DEF r
  <1> QED BY <1>1, IdleOK, PrintsQuietly DEF StartBuy, Main, Ends, Goes, Quietly, r

LEMMA StartReleaseOK ==
    ASSUME NEW c \in Commands, StartRelease(c)
    PROVE  Fresh(run') /\ Quietly
  <1> DEFINE f == c.flags
             r == Run("built", Job("release", KeyOf(f.mint), KeyOf(f.recipient), 0), c)
  <1>1. ASSUME IsKey(f.mint), IsKey(f.recipient) PROVE Fresh(r)
    BY <1>1, StartedOK, CommandMeant
  <1> HIDE DEF r
  <1> QED BY <1>1, IdleOK, PrintsQuietly DEF StartRelease, Main, Ends, Goes, Quietly, r

LEMMA StartUnaskedOK ==
    ASSUME NEW c \in Commands, StartSmoke(c) \/ StartMigrate(c) \/ StartReleaseMin(c)
    PROVE  Fresh(run') /\ Quietly
  <1> DEFINE p0 == Run("built", Job("smoke", NoKey, Terminal, 0), c)
             r0 == Run("built", Job("migrate", NoKey, NoKey, c.env.NONCE.number \div 100), c)
             q0 == Run("before", Job("release_min", c.env.MINT.key, c.env.RECIPIENT.key, 0), c)
             p == [p0 EXCEPT !.send = TRUE]
             r == [r0 EXCEPT !.send = TRUE]
             q == [q0 EXCEPT !.send = TRUE]
  <1>0. /\ p0 = Run("built", Job("smoke", NoKey, Terminal, 0), c)
        /\ r0 = Run("built", Job("migrate", NoKey, NoKey, c.env.NONCE.number \div 100), c)
        /\ q0 = Run("before", Job("release_min", c.env.MINT.key, c.env.RECIPIENT.key, 0), c)
        /\ p = [p0 EXCEPT !.send = TRUE]
        /\ r = [r0 EXCEPT !.send = TRUE] /\ q = [q0 EXCEPT !.send = TRUE]
    OBVIOUS
  <1> HIDE DEF p0, r0, q0, p, r, q
  <1>1. /\ Fields(p) /\ p.pc = "built" /\ p.job.script = "smoke" /\ p.after = NothingRead
        /\ p.before = NothingRead
        /\ Fields(r) /\ r.pc = "built" /\ r.job.script = "migrate" /\ r.after = NothingRead
        /\ r.before = NothingRead /\ Fields(q) /\ q.pc = "before" /\ q.job.script = "release_min"
        /\ q.after = NothingRead /\ q.before = NothingRead
    BY <1>0, RunFields, SendingFields
  <1>2. DOMAIN NothingRead = {}
    BY DEF NothingRead
  <1>3. Fresh(p) /\ Fresh(r) /\ Fresh(q)
    BY <1>1, <1>2, InstructionScripts DEF Fresh, RunOK, AtItsPlace, AsTyped, ReadInTime
  <1> QED BY <1>1, <1>3, IdleOK, PrintsQuietly
          DEF StartSmoke, StartMigrate, StartReleaseMin, Main, Ends, Goes, Quietly,
              p, r, q, p0, r0, q0

LEMMA StartReaderOK ==
    ASSUME NEW c \in Commands,
           StartSell(c) \/ StartCurveState(c) \/ StartMintInfo(c) \/ StartSweep(c)
    PROVE  Fresh(run') /\ Quietly
  <1> DEFINE r == Run("config", Job("sell", KeyOf(c.flags.mint), NoKey, 0), c)
             q == Run("show", Job("curve-state", KeyOf(c.flags.mint), NoKey, 0), c)
             s == Run("show", Job("mint-info", c.env.MINT.key, NoKey, 0), c)
  <1>1. Fresh(r) /\ Fresh(q) /\ Fresh(s)
    BY StartedOK
  <1> HIDE DEF r, q, s
  <1> QED BY <1>1, IdleOK, PrintsQuietly
          DEF StartSell, StartCurveState, StartMintInfo, StartSweep, Main, Ends, Goes, Quietly,
              r, q, s

LEMMA StartOK ==
    ASSUME NEW c \in Commands, Start(c)
    PROVE  Fresh(run') /\ Quietly
  <1>1. ReleaseEncode(c) => run' = Idle /\ Quietly
    BY PrintsQuietly DEF ReleaseEncode, Ends, Quietly
  <1> QED BY <1>1, IdleOK, StartConfigureOK, StartLaunchOK, StartBuyOK, StartReleaseOK,
             StartUnaskedOK, StartReaderOK DEF Start

-----------------------------------------------------------------------------
(* What becomes of a run. *)

LEMMA MovedFields ==
    ASSUME NEW r, Fields(r), NEW pc, NEW q, q = [r EXCEPT !.pc = pc]
    PROVE  /\ Fields(q) /\ q.pc = pc /\ q.job = r.job /\ q.send = r.send /\ q.asked = r.asked
           /\ q.before = r.before /\ q.after = r.after /\ q.quiet = r.quiet
  BY DEF Fields

LEMMA SentFields ==
    ASSUME NEW r, Fields(r), NEW q, q = [r EXCEPT !.pc = "sent", !.asked = NotAsked]
    PROVE  /\ Fields(q) /\ q.pc = "sent" /\ q.job = r.job
           /\ q.before = r.before /\ q.after = r.after /\ q.quiet = r.quiet
  BY DEF Fields

LEMMA AfterFields ==
    ASSUME NEW r, Fields(r), NEW x, NEW q, q = [r EXCEPT !.after = x]
    PROVE  /\ Fields(q) /\ q.pc = r.pc /\ q.job = r.job
           /\ q.before = r.before /\ q.after = x /\ q.quiet = r.quiet
  BY DEF Fields

LEMMA DisturbedFields ==
    ASSUME NEW r, Fields(r)
    PROVE  /\ r.job.script # "release_min" => Disturbed(r) = r
           /\ r.job.script = "release_min" =>
                /\ Fields(Disturbed(r)) /\ Disturbed(r).pc = r.pc /\ Disturbed(r).job = r.job
                /\ Disturbed(r).quiet = FALSE
                /\ DOMAIN Disturbed(r).before = DOMAIN r.before
                /\ r.after = NothingRead => Disturbed(r).after = NothingRead
  <1> DEFINE b == [w \in DOMAIN r.before |-> 0]
             a == [w \in DOMAIN r.after |-> 0]
             q == [r EXCEPT !.quiet = FALSE, !.before = b, !.after = a]
  <1>1. DOMAIN b = DOMAIN r.before /\ (r.after = NothingRead => a = NothingRead)
    BY DEF NothingRead
  <1>2. q = [r EXCEPT !.quiet = FALSE, !.before = b, !.after = a]
    OBVIOUS
  <1>3. r.job.script = "release_min" => Disturbed(r) = q
    BY DEF Disturbed
  <1> HIDE DEF q, a, b
  <1>4. /\ Fields(q) /\ q.pc = r.pc /\ q.job = r.job /\ q.quiet = FALSE
        /\ q.before = b /\ q.after = a
    BY <1>2 DEF Fields
  <1> QED BY <1>1, <1>3, <1>4 DEF Disturbed

ToolInv == RunOK(run) /\ Flying

LEMMA ReadConfigOK ==
    ASSUME RunOK(run), ReadConfig
    PROVE  RunOK(run') /\ run'.pc # "sent" /\ Quietly
  <1>1. CASE run' = Idle /\ printed' = Thrown
    BY <1>1, IdleOK, PrintsQuietly DEF Quietly
  <1>2. CASE /\ run.job.script = "buy"
             /\ Goes([run EXCEPT !.pc = "mint",
                                 !.job.to = parseConfig(ConfigData).fee_recipient])
    <2> DEFINE to == parseConfig(ConfigData).fee_recipient
    <2>1. run' = [run EXCEPT !.pc = "mint", !.job.to = to] /\ Quietly
      BY <1>2, PrintsQuietly DEF Goes, Quietly
    <2> HIDE DEF to
    <2>2. /\ Fields(run') /\ run'.pc = "mint" /\ run'.send = run.send /\ run'.asked = run.asked
          /\ run'.job.script = "buy" /\ run'.job.mint = run.job.mint
          /\ run'.job.amount = run.job.amount /\ run'.after = run.after
      BY <1>2, <2>1 DEF RunOK, Fields, Job
    <2>3. run.pc = "config" /\ AsTyped(run)
      BY DEF ReadConfig, RunOK
    <2>4. AsTyped(run')
      BY <1>2, <2>2, <2>3 DEF AsTyped
    <2>5. run.after = NothingRead
      BY <2>3 DEF RunOK, ReadInTime
    <2>6. AtItsPlace(run') /\ ReadInTime(run')
      BY <2>2, <2>5 DEF AtItsPlace, ReadInTime
    <2> QED BY <2>1, <2>2, <2>4, <2>6 DEF RunOK
  <1> QED BY <1>1, <1>2 DEF ReadConfig, Ends

LEMMA ReadMintOK ==
    ASSUME RunOK(run), ReadMint
    PROVE  RunOK(run') /\ run'.pc # "sent" /\ Quietly
  <1>1. CASE run' = Idle /\ printed' = Thrown
    BY <1>1, IdleOK, PrintsQuietly DEF Quietly
  <1>2. CASE Goes([run EXCEPT !.pc = "built"])
    <2>1. run' = [run EXCEPT !.pc = "built"] /\ Quietly
      BY <1>2, PrintsQuietly DEF Goes, Quietly
    <2>2. /\ Fields(run') /\ run'.pc = "built" /\ run'.job = run.job
          /\ run'.send = run.send /\ run'.asked = run.asked /\ run'.after = run.after
      BY <2>1, MovedFields DEF RunOK
    <2>3. run.pc = "mint"
      BY DEF ReadMint
    <2>4. run.job.script = "buy" /\ AsTyped(run)
      BY <2>3 DEF RunOK, AtItsPlace
    <2>5. ReadInTime(run')
      BY <2>2, <2>3, <2>4 DEF RunOK, ReadInTime
    <2>6. AtItsPlace(run') /\ AsTyped(run')
      BY <2>2, <2>4, InstructionScripts DEF AtItsPlace, AsTyped
    <2> QED BY <2>1, <2>2, <2>6, <2>5 DEF RunOK
  <1> QED BY <1>1, <1>2 DEF ReadMint, Ends

LEMMA ReadBeforeOK ==
    ASSUME RunOK(run), NEW what \in Balances, ReadBefore(what)
    PROVE  RunOK(run') /\ run'.pc # "sent" /\ Quietly
  <1> DEFINE pc == IF what = "tokens" THEN "built" ELSE "before"
  <1>0. PICK answer \in Answers(what, run.job) :
            Goes([run EXCEPT !.before = Noted(@, what, answer), !.pc = pc])
    BY DEF ReadBefore
  <1> DEFINE x == Noted(run.before, what, answer)
  <1>1. run' = [run EXCEPT !.before = x, !.pc = pc] /\ Quietly
    BY <1>0, PrintsQuietly DEF Goes, Quietly
  <1>2. DOMAIN x = DOMAIN run.before \cup {what}
    BY DEF Noted
  <1> HIDE DEF x
  <1>3. ASSUME what = "tokens" PROVE DOMAIN x = Balances
    <2>1. {"curve", "recipient"} \subseteq DOMAIN run.before /\ DOMAIN run.before \subseteq Balances
      BY <1>3 DEF ReadBefore, MayRead, RunOK, ReadInTime
    <2> QED BY <1>2, <1>3, <2>1 DEF Balances
  <1>4. /\ Fields(run') /\ run'.pc = pc /\ run'.job = run.job
        /\ run'.before = x /\ run'.after = run.after
    BY <1>1 DEF RunOK, Fields
  <1>5. run.pc = "before" /\ run.job.script = "release_min"
    BY DEF ReadBefore, RunOK, AtItsPlace
  <1>6. run.after = NothingRead /\ DOMAIN run.before \subseteq Balances
    BY <1>5 DEF RunOK, ReadInTime
  <1>7. pc \in {"before", "built"}
    OBVIOUS
  <1>8. pc = "built" => DOMAIN x = Balances
    BY <1>3
  <1> HIDE DEF pc
  <1>9. AsTyped(run')
    BY <1>4, <1>5 DEF AsTyped
  <1>10. AtItsPlace(run')
    BY <1>4, <1>5, <1>7, InstructionScripts DEF AtItsPlace
  <1>11. ReadInTime(run')
    BY <1>2, <1>4, <1>6, <1>7, <1>8 DEF ReadInTime
  <1>12. Quietly
    BY <1>1
  <1> QED BY <1>4, <1>7, <1>9, <1>10, <1>11, <1>12 DEF RunOK

LEMMA ReadAfterOK ==
    ASSUME RunOK(run), NEW what \in Balances, ReadAfter(what)
    PROVE  RunOK(run') /\ run'.pc # "sent"
  <1>0. PICK answer \in Answers(what, run.job) :
            run' = Idle \/ run' = [run EXCEPT !.after = Noted(@, what, answer)]
    BY DEF ReadAfter, Goes, Ends
  <1> DEFINE x == Noted(run.after, what, answer)
  <1>1. CASE run' = Idle
    BY <1>1, IdleOK
  <1>2. CASE run' = [run EXCEPT !.after = x]
    <2> HIDE DEF x
    <2>1. /\ Fields(run') /\ run'.pc = run.pc /\ run'.job = run.job
          /\ run'.before = run.before
      BY <1>2, AfterFields DEF RunOK
    <2>2. run.pc = "confirmed"
      BY DEF ReadAfter, OnceConfirmed
    <2> QED BY <2>1, <2>2 DEF RunOK, AtItsPlace, ReadInTime
  <1> QED BY <1>0, <1>1, <1>2

LEMMA SubmitOK ==
    ASSUME RunOK(run), Submit
    PROVE  RunOK(run') /\ run'.pc = "sent" /\ run'.job = run.job /\ Quietly
  <1>1. run' = [run EXCEPT !.pc = "sent", !.asked = NotAsked] /\ Quietly
    BY PrintsQuietly DEF Submit, Goes, Quietly
  <1>2. /\ Fields(run') /\ run'.pc = "sent" /\ run'.job = run.job
        /\ run'.before = run.before /\ run'.after = run.after
    BY <1>1, SentFields DEF RunOK
  <1> QED BY <1>1, <1>2 DEF Submit, RunOK, AtItsPlace, ReadInTime

LEMMA DisturbedOK ==
    ASSUME RunOK(run)
    PROVE  /\ RunOK(Disturbed(run)) /\ Disturbed(run).pc = run.pc
           /\ Disturbed(run).job = run.job
  <1>1. CASE run.job.script # "release_min"
    BY <1>1, DisturbedFields DEF RunOK
  <1>2. CASE run.job.script = "release_min"
    <2> DEFINE q == Disturbed(run)
    <2>1. /\ Fields(q) /\ q.pc = run.pc /\ q.job = run.job
          /\ DOMAIN q.before = DOMAIN run.before
          /\ run.after = NothingRead => q.after = NothingRead
      BY <1>2, DisturbedFields DEF RunOK
    <2> HIDE DEF q
    <2>2. AtItsPlace(q) /\ ReadInTime(q) /\ AsTyped(q)
      BY <1>2, <2>1 DEF RunOK, AtItsPlace, ReadInTime, AsTyped
    <2>3. RunOK(q)
      BY <2>1, <2>2 DEF RunOK
    <2> QED BY <2>1, <2>3 DEF q
  <1> QED BY <1>1, <1>2

LEMMA LandOK ==
    ASSUME RunOK(run), NEW job, Land(job)
    PROVE  RunOK(run') /\ run'.pc # "sent" /\ Quietly
  <1>1. Quietly
    BY PrintsQuietly DEF Land, Quietly
  <1>2. CASE run.pc = "sent"
    <2>1. run' = [run EXCEPT !.pc = "confirmed"]
      BY <1>2 DEF Land
    <2>2. /\ Fields(run') /\ run'.pc = "confirmed" /\ run'.job = run.job
          /\ run'.before = run.before
      BY <2>1, MovedFields DEF RunOK
    <2> QED BY <1>1, <1>2, <2>2 DEF RunOK, AtItsPlace, ReadInTime
  <1>3. CASE run.pc # "sent"
    <2>1. run' = Disturbed(run)
      BY <1>3 DEF Land
    <2> QED BY <1>1, <1>3, <2>1, DisturbedOK
  <1> QED BY <1>2, <1>3

\* Every step keeps the invariant and, but for a refusal and a report, prints quietly.
LEMMA ToolStep ==
    ASSUME ToolInv, [ToolNext]_toolVars
    PROVE  ToolInv'
  <1>1. CASE \E c \in Commands : Start(c)
    BY <1>1, StartOK, StartKeeps DEF ToolInv, Flying, Fresh
  <1>2. CASE ReadConfig \/ ReadMint
    BY <1>2, ReadConfigOK, ReadMintOK DEF ToolInv, Flying, ReadConfig, ReadMint, Stays
  <1>3. CASE \/ ShowCurve \/ ShowMint \/ DryRunEnds \/ Throw \/ Finish
             \/ \E job \in flight : Refuse(job)
    <2>1. run' = Idle /\ flight' \subseteq flight
      BY <1>3 DEF ShowCurve, ShowMint, DryRunEnds, Throw, Finish, Refuse, Ends, Stays
    <2> QED BY <2>1, IdleOK DEF ToolInv, Flying
  <1>4. CASE \E what \in Balances : ReadBefore(what)
    BY <1>4, ReadBeforeOK DEF ToolInv, Flying, ReadBefore, Stays
  <1>5. CASE \E what \in Balances : ReadAfter(what)
    BY <1>5, ReadAfterOK DEF ToolInv, Flying, ReadAfter, Stays
  <1>6. CASE Submit
    <2>1. run.job.script \in DOMAIN Instruction /\ flight' = {run.job}
      BY <1>6 DEF Submit, ToolInv, RunOK, AtItsPlace
    <2> QED BY <1>6, <2>1, SubmitOK DEF ToolInv, Flying
  <1>7. CASE \E job \in flight : Land(job)
    <2>1. flight' = {}
      BY <1>7 DEF Land
    <2> QED BY <1>7, <2>1, LandOK DEF ToolInv, Flying
  <1>8. CASE \E job \in flight : Lose(job)
    BY <1>8 DEF ToolInv, Flying, Lose
  <1>9. CASE Others
    <2>1. run' = Disturbed(run) /\ flight' = flight
      BY <1>9 DEF Others
    <2> QED BY <2>1, DisturbedOK DEF ToolInv, Flying
  <1>10. CASE UNCHANGED toolVars
    BY <1>10 DEF toolVars, ToolInv, Flying
  <1> QED BY <1>1, <1>2, <1>3, <1>4, <1>5, <1>6, <1>7, <1>8, <1>9, <1>10 DEF ToolNext

LEMMA ToolInvariant == ToolSpec => []ToolInv
  <1>1. ToolInit => ToolInv
    BY IdleOK DEF ToolInit, ToolInv, Flying
  <1> QED BY <1>1, ToolStep, PTL DEF ToolSpec

\* Only a submission puts a transaction into flight.
LEMMA OnlySubmitSends ==
    ASSUME ToolInv, [ToolNext]_toolVars, NEW job \in flight' \ flight
    PROVE  job = run.job /\ run.send /\ AsTyped(run)
  <1>1. CASE Submit
    BY <1>1 DEF Submit, ToolInv, RunOK
  <1>2. CASE ~Submit
    <2>1. (\E c \in Commands : Start(c)) => flight' = flight
      BY StartKeeps
    <2>2. flight' \subseteq flight
      BY <1>2, <2>1 DEF ToolNext, ReadConfig, ReadMint, ShowCurve, ShowMint, ReadBefore,
            ReadAfter, DryRunEnds, Throw, Finish, Stays, Land, Refuse, Lose, Others, toolVars
    <2> QED BY <2>2
  <1> QED BY <1>1, <1>2

\* A transaction is for the mint, the recipient and no more than the lamports that
\* were typed, however flags and environment were mixed.
THEOREM SentAsTyped == ToolSpec => SendsWhatWasTyped
  <1> DEFINE P == \A job \in flight' \ flight :
                LET asked == run.asked
                IN  /\ job.script \in {"buy", "release"} =>
                          asked.mint.shape = "key" /\ asked.mint.key = job.mint
                    /\ job.script = "release" =>
                          asked.recipient.shape = "key" /\ asked.recipient.key = job.to
                    /\ job.script = "buy" => job.amount * 100 <= asked.lamports.number
  <1>1. ToolInv /\ [ToolNext]_toolVars => [P]_toolVars
    BY OnlySubmitSends DEF AsTyped
  <1> QED BY <1>1, ToolInvariant, PTL DEF ToolSpec, SendsWhatWasTyped

\* Nothing is sent by a script with a --send flag unless it was given, or when the
\* last one given says false.
THEOREM DryRunIsTheDefault == ToolSpec => SendsOnlyWhenTold
  <1> DEFINE P == \A job \in flight' \ flight :
                job.script \in {"configure", "launch", "buy", "release"} => run.asked.send
  <1>1. ToolInv /\ [ToolNext]_toolVars => [P]_toolVars
    BY OnlySubmitSends DEF AsTyped
  <1> QED BY <1>1, ToolInvariant, PTL DEF ToolSpec, SendsOnlyWhenTold

-----------------------------------------------------------------------------
(* What the program makes of a transaction. *)

\* The configuration of the IDL is too short for the program.
LEMMA SmokeTooShort ==
    ASSUME NEW job, job.script = "smoke"
    PROVE  ~Decodes(ProgramArgs[Instruction[job.script]], Data(job))
  <1>1. Instruction[job.script] = "configure"
    BY DEF Instruction
  <1>2. ProgramArgs["configure"] = ConfigureArgs
    BY DEF ProgramArgs
  <1>3. Data(job) = Encode(IdlConfigureArgs, SmokeConfig)
    BY DEF Data
  <1>4. HasTypesOf(IdlConfig, ConfigStruct)
    BY DEF HasTypesOf, IdlConfig, ConfigStruct, Field
  <1>5. Len(IdlConfig) < Len(ConfigStruct)
    BY IdlConfigFields, ConfigStructFields
  <1>6. ~Decodes(ConfigStruct, Encode(IdlConfig, SmokeConfig))
    BY <1>4, <1>5, IdlConfigFields, ConfigStructFields, ShorterFails DEF IsDescription
  <1> QED BY <1>1, <1>2, <1>3, <1>6 DEF ConfigureArgs, IdlConfigureArgs

\* migrate is sent one account, and takes two.
LEMMA MigrateLacksConfig ==
    ASSUME NEW job, job.script = "migrate"
    PROVE  /\ ~(Len(Metas(job)) >= Len(ProgramAccounts[Instruction[job.script]]))
           /\ ~(Len(getInstructionIdl(Instruction[job.script])) >=
                    Len(ProgramAccounts[Instruction[job.script]]))
  <1>1. Instruction[job.script] = "migrate"
    BY DEF Instruction
  <1>2. ProgramAccounts["migrate"] = MigrateAccounts /\ Len(MigrateAccounts) = 2
    BY DEF ProgramAccounts, MigrateAccounts
  <1>3. IdlAccounts["migrate"] = IdlMigrateAccounts /\ Len(IdlMigrateAccounts) = 1
    BY DEF IdlAccounts, IdlMigrateAccounts
  <1>4. DOMAIN IdlMigrateAccounts = 1 .. 1
    BY DEF IdlMigrateAccounts
  <1>5. Len(Metas(job)) = 1
    BY <1>1, <1>3, <1>4 DEF Metas, getInstructionIdl, buildAccountsFromIdl
  <1> QED BY <1>1, <1>2, <1>3, <1>5 DEF getInstructionIdl

\* A configuration encoded after the checked-in IDL and what migrate.ts sends never
\* reach their handlers.
THEOREM NeverEntered == ToolSpec => []NeverEnters
  <1>1. NeverEnters
    BY SmokeTooShort, MigrateLacksConfig DEF NeverEnters, Enters, Admits
  <1> QED BY <1>1, PTL

LEMMA ErrorNamed ==
    ASSUME NEW code, ProgramError(code) = ProgramError(6000)
    PROVE  code = 6000
  <1>1. ErrorName(6000) = "CurveNotCompleted"
    BY DEF ErrorName, IdlErrors
  <1>2. ErrorName(code) = "CurveNotCompleted"
    BY <1>1 DEF ProgramError
  <1> QED BY <1>2 DEF ErrorName, IdlErrors

\* The check of an instruction that fails with code 6000 and hides behind no other.
Fails(checks, i, code) ==
    /\ i \in DOMAIN checks /\ checks[i].code = code
    /\ ~checks[i].holds /\ \A k \in DOMAIN checks : k < i => checks[k].holds

LEMMA SmokeFails ==
    ASSUME NEW job, job.script = "smoke", NEW i, Fails(SmokeChecks(job), i, 6000)
    PROVE  FALSE
  <1>1. ~Decoded(job).holds /\ Decoded(job).code = 102
    BY SmokeTooShort DEF Decoded, Check, AnchorError
  <1>2. SmokeChecks(job)[1] = Decoded(job) /\ DOMAIN SmokeChecks(job) = 1 .. 3
    BY DEF SmokeChecks, ConfigureChecks
  <1> QED BY <1>1, <1>2 DEF Fails

LEMMA MigrateFails ==
    ASSUME NEW job, job.script = "migrate", NEW i, Fails(MigrateChecks(job), i, 6000)
    PROVE  FALSE
  <1> DEFINE enough == Len(getInstructionIdl(Instruction[job.script])) >=
                            Len(ProgramAccounts[Instruction[job.script]])
  <1>0. ~enough
    BY MigrateLacksConfig
  <1> HIDE DEF enough
  <1>1. ~Supplied(job).holds
    <2>1. Supplied(job) = Check(enough, AnchorError.AccountNotEnoughKeys)
      BY DEF Supplied, enough
    <2> QED BY <1>0, <2>1 DEF Check
  <1>2. Decoded(job).code = 102 /\ Supplied(job).code = 3005
    BY DEF Decoded, Supplied, Check, AnchorError
  <1>3. /\ MigrateChecks(job)[1] = Decoded(job) /\ MigrateChecks(job)[2] = Supplied(job)
        /\ DOMAIN MigrateChecks(job) = 1 .. 6
    BY DEF MigrateChecks
  <1> QED BY <1>1, <1>2, <1>3 DEF Fails

LEMMA LaunchFails ==
    ASSUME NEW job, NEW i, Fails(LaunchChecks(job), i, 6000)
    PROVE  FALSE
  <1>1. /\ Decoded(job).code = 102 /\ Supplied(job).code = 3005 /\ Initialized.code = 3012
        /\ NotPaused.code = 6006 /\ NotCompleted.code = 6007
    BY DEF Decoded, Supplied, Initialized, NotPaused, NotCompleted, Check, AnchorError, PumpError
  <1>2. /\ DOMAIN LaunchChecks(job) = 1 .. 5
        /\ LaunchChecks(job)[1] = Decoded(job) /\ LaunchChecks(job)[2] = Supplied(job)
        /\ LaunchChecks(job)[3] = Initialized /\ LaunchChecks(job)[4] = NotPaused
        /\ LaunchChecks(job)[5] = NotCompleted
    BY DEF LaunchChecks
  <1> QED BY <1>1, <1>2 DEF Fails

LEMMA SwapFails ==
    ASSUME NEW job, NEW i, Fails(SwapChecks(job), i, 6000)
    PROVE  FALSE
  <1> DEFINE recipient == Check(FeeRecipientInForce(job.to), PumpError.IncorrectFeeRecipient)
             open == Check(CurveIsOpen(job.mint), PumpError.CurveAlreadyCompleted)
             checks == SwapChecks(job)
  <1>1. /\ Decoded(job).code = 102 /\ Supplied(job).code = 3005 /\ Initialized.code = 3012
        /\ CurveExists(job).code = 3012 /\ CurveAtaExists(job).code = 3012
        /\ NotPaused.code = 6006 /\ NotCompleted.code = 6007
        /\ recipient.code = 6001 /\ open.code = 6005
    BY DEF Decoded, Supplied, Initialized, CurveExists, CurveAtaExists, NotPaused,
           NotCompleted, Check, AnchorError, PumpError
  <1>2. /\ DOMAIN checks = 1 .. 9
        /\ checks[1] = Decoded(job) /\ checks[2] = Supplied(job) /\ checks[3] = Initialized
        /\ checks[4] = CurveExists(job) /\ checks[5] = CurveAtaExists(job)
        /\ checks[6] = recipient /\ checks[7] = NotPaused /\ checks[8] = NotCompleted
        /\ checks[9] = open
    BY DEF SwapChecks
  <1> HIDE DEF recipient, open, checks
  <1>3. Fails(checks, i, 6000)
    BY DEF checks
  <1> QED BY <1>1, <1>2, <1>3 DEF Fails

\* A release that fails with code 6000 passed the address constraint of the admin, so
\* that it is not the authorization that fails.
LEMMA ReleaseFails ==
    ASSUME NEW job, NEW i, Fails(ReleaseChecks(job), i, 6000)
    PROVE  job.mint \in launched /\ ~CurveIsCompleted(job.mint)
  <1> DEFINE address == Check(EnsureAdmin(Terminal), AnchorError.ConstraintAddress)
             exists == CurveExists(job)
             completed == Check(CurveIsCompleted(job.mint), ReleaseReservesError.CurveNotCompleted)
             checks == ReleaseChecks(job)
  <1>1. /\ Decoded(job).code = 102 /\ Supplied(job).code = 3005 /\ Initialized.code = 3012
        /\ NotPaused.code = 6006 /\ address.code = 2012 /\ exists.code = 3012
        /\ CurveAtaExists(job).code = 3012
    BY DEF Decoded, Supplied, Initialized, CurveExists, CurveAtaExists, NotPaused, Check,
           AnchorError, PumpError
  <1>2. /\ address.holds => EnsureAdmin(Terminal)
        /\ EnsureAdmin(Terminal) => Authorized.holds
        /\ exists.holds => job.mint \in launched
        /\ CurveIsCompleted(job.mint) => completed.holds
    <2>1. address.holds => EnsureAdmin(Terminal)
      BY DEF Check
    <2>2. EnsureAdmin(Terminal) => Authorized.holds
      BY DEF Authorized, Check
    <2>3. exists.holds => job.mint \in launched
      <3> DEFINE is_launched == job.mint \in launched
      <3> HIDE DEF is_launched
      <3>1. exists = Check(is_launched, AnchorError.AccountNotInitialized)
        BY DEF is_launched, CurveExists
      <3> HIDE DEF exists
      <3>2. exists.holds => is_launched
        BY <3>1 DEF Check
      <3> QED BY <3>2 DEF is_launched
    <2>4. CurveIsCompleted(job.mint) => completed.holds
      BY DEF Check
    <2> QED BY <2>1, <2>2, <2>3, <2>4
  <1>3. /\ DOMAIN checks = 1 .. 9
        /\ checks[1] = Decoded(job) /\ checks[2] = Supplied(job) /\ checks[3] = Initialized
        /\ checks[4] = exists /\ checks[5] = CurveAtaExists(job) /\ checks[6] = address
        /\ checks[7] = NotPaused /\ checks[8] = Authorized /\ checks[9] = completed
    BY DEF ReleaseChecks
  <1> HIDE DEF address, exists, completed, checks
  <1>4. Fails(checks, i, 6000)
    BY DEF checks
  <1>5. i \in {8, 9}
    BY <1>1, <1>3, <1>4 DEF Fails
  <1>6. checks[4].holds /\ checks[6].holds
    BY <1>3, <1>4, <1>5 DEF Fails
  <1>7. i = 9
    BY <1>2, <1>3, <1>4, <1>5, <1>6 DEF Fails
  <1> QED BY <1>2, <1>3, <1>4, <1>6, <1>7 DEF Fails

\* When a script other than configure.ts prints CurveNotCompleted, it sent a release,
\* and the curve it was to release is not completed.
THEOREM CompletionErrorsAreTrue == ToolSpec => CompletionErrorIsTrue
  <1> DEFINE P == \A job \in flight :
                run.pc = "sent" /\ printed' = ProgramError(6000) /\ job.script # "configure" =>
                    /\ job.script \in {"release", "release_min"}
                    /\ job.mint \in launched /\ ~bonding_curve[job.mint].is_completed
  <1>1. ASSUME ToolInv, ToolNext PROVE P
    <2> SUFFICES ASSUME NEW job \in flight, run.pc = "sent", printed' = ProgramError(6000),
                        job.script # "configure"
                 PROVE  /\ job.script \in {"release", "release_min"}
                        /\ job.mint \in launched /\ ~CurveIsCompleted(job.mint)
      BY DEF CurveIsCompleted
    <2>1. printed'.kind = "error"
      BY DEF ProgramError
    <2>2. \E j \in flight : Refuse(j)
      <3>1. run.pc # "idle" /\ run # Idle
        BY IdleOK
      <3>2. ~(\E c \in Commands : Start(c))
        BY <2>1, StartOK DEF Quietly
      <3> QED BY <1>1, <2>1, <3>2, PrintsQuietly
              DEF ToolNext, ReadConfig, ReadMint, ShowCurve, ShowMint, ReadBefore, ReadAfter,
                  DryRunEnds, Submit, Throw, Finish, Land, Lose, Others, Ends, Goes
    <2>3. Refuse(job)
      BY <1>1, <2>2 DEF ToolInv, Flying
    <2>4. PICK i \in DOMAIN Checks(job) :
            /\ ~Checks(job)[i].holds
            /\ \A k \in DOMAIN Checks(job) : k < i => Checks(job)[k].holds
            /\ printed' = ProgramError(Checks(job)[i].code)
      BY <2>3 DEF Refuse, MayNotDecode, Ends
    <2>5. Fails(Checks(job), i, 6000)
      BY <2>4, ErrorNamed DEF Fails
    <2>6. job.script \in DOMAIN Instruction
      BY <1>1 DEF ToolInv, Flying
    <2>7. job.script \in {"release", "release_min"} /\ Checks(job) = ReleaseChecks(job)
      <3>1. CASE job.script = "smoke"
        BY <2>5, <3>1, SmokeFails DEF Checks
      <3>2. CASE job.script = "launch"
        BY <2>5, <3>2, LaunchFails DEF Checks
      <3>3. CASE job.script = "buy"
        BY <2>5, <3>3, SwapFails DEF Checks
      <3>4. CASE job.script = "migrate"
        BY <2>5, <3>4, MigrateFails DEF Checks
      <3>5. CASE job.script \in {"release", "release_min"}
        BY <3>5 DEF Checks
      <3> QED BY <2>6, <3>1, <3>2, <3>3, <3>4, <3>5, InstructionScripts
    <2> QED BY <2>5, <2>7, ReleaseFails
  <1>2. ToolInv /\ [ToolNext]_toolVars => [P]_toolVars
    BY <1>1
  <1> QED BY <1>2, ToolInvariant, PTL DEF ToolSpec, CompletionErrorIsTrue

-----------------------------------------------------------------------------
(* The report of release_min.ts. *)

\* The balances of the job's accounts now, against the readings before its release.
Settled(job, before) ==
    LET gain == before.curve - CurveRent
        closed == IF before.tokens > 0 THEN {AtaRent} ELSE {0, AtaRent}
        gained == wallet[job.to] - before.recipient
    IN  /\ vault[job.mint] = CurveRent /\ Balance("tokens", job) = 0
        /\ job.to # Terminal => \E c \in closed : gained = gain + c
        /\ job.to = Terminal => \E c \in closed : gained <= gain + c

\* Undisturbed, what was read before the release holds until it lands, and what is
\* read after it is what the release left.
Measured ==
    run.job.script = "release_min" /\ run.quiet =>
        /\ run.pc \in {"before", "built", "sent"} =>
              \A w \in DOMAIN run.before : run.before[w] \in Answers(w, run.job)
        /\ run.pc = "confirmed" =>
              /\ \A w \in DOMAIN run.after : run.after[w] \in Answers(w, run.job)
              /\ Settled(run.job, run.before)

\* The program takes the accounts of release_min.ts for what they are.
LEMMA ReleaseMinAccounts ==
    ASSUME NEW job, job.script = "release_min"
    PROVE  /\ Accounts(job).admin = Terminal /\ Accounts(job).token_mint = job.mint
           /\ Accounts(job).recipient = job.to
  <1> DEFINE idl == IdlReleaseReservesAccounts
             accounts == ReleaseReservesAccounts
             values == ReleaseMinValues(job.mint, job.to)
             metas == buildAccountsFromIdl(idl, values)
             At(n) == CHOOSE i \in DOMAIN accounts : accounts[i].name = n
  <1>1. Instruction[job.script] = "release_reserves"
    BY DEF Instruction
  <1>2. Values(job) = values
    BY DEF Values
  <1>3. Metas(job) = metas
    BY <1>1, <1>2 DEF Metas, getInstructionIdl, IdlAccounts
  <1>4. Accounts(job) = ByName(accounts, metas)
    BY <1>1, <1>3 DEF Accounts, ProgramAccounts
  <1>5. /\ DOMAIN accounts = 1 .. 10 /\ DOMAIN idl = 1 .. 10
        /\ accounts[1].name = "admin" /\ accounts[2].name = "global_config"
        /\ accounts[3].name = "token_mint" /\ accounts[4].name = "bonding_curve"
        /\ accounts[5].name = "curve_token_account" /\ accounts[6].name = "recipient"
        /\ accounts[7].name = "recipient_token_account" /\ accounts[8].name = "token_program"
        /\ accounts[9].name = "associated_token_program"
        /\ accounts[10].name = "system_program"
    BY DEF ReleaseReservesAccounts, IdlReleaseReservesAccounts, Account
  <1>6. idl[1].name = "admin" /\ idl[3].name = "token_mint" /\ idl[6].name = "recipient"
    BY DEF IdlReleaseReservesAccounts, Account
  <1>7. values.admin = Terminal /\ values.token_mint = job.mint /\ values.recipient = job.to
    BY DEF ReleaseMinValues
  <1> HIDE DEF idl, accounts, values
  <1>8. /\ metas[1].address = values[idl[1].name] /\ metas[3].address = values[idl[3].name]
        /\ metas[6].address = values[idl[6].name]
    BY <1>5 DEF buildAccountsFromIdl
  <1>9. At("admin") = 1 /\ At("token_mint") = 3 /\ At("recipient") = 6
    BY <1>5
  <1>10. {"admin", "token_mint", "recipient"} \subseteq {accounts[i].name : i \in DOMAIN accounts}
    BY <1>5
  <1> HIDE DEF metas
  <1>11. Accounts(job) = [n \in {accounts[i].name : i \in DOMAIN accounts} |-> metas[At(n)].address]
    BY <1>4 DEF ByName
  <1> HIDE DEF At
  <1> QED BY <1>6, <1>7, <1>8, <1>9, <1>10, <1>11

LEMMA ReleaseSettles ==
    ASSUME TypeOK, RentExempt, Measured, RunOK(run), Land(run.job),
           run.pc = "sent", run.job.script = "release_min", run.quiet
    PROVE  Settled(run.job, run.before)'
  <1> DEFINE job == run.job
             m == job.mint
             to == job.to
             before == run.before
             amount == tokens[m][Pda]
             rent == IF amount > 0 THEN AtaRent ELSE 0
  <1>1. /\ ReleaseReserves(Terminal, m, to) /\ to \in Wallets /\ m \in Mints
    BY ReleaseMinAccounts DEF Land, Execute, ExecuteConfigure
  <1>2. DOMAIN before = Balances /\ run'.job = job /\ run'.before = before
    <2>1. run' = [run EXCEPT !.pc = "confirmed"]
      BY DEF Land
    <2> QED BY <2>1, MovedFields DEF RunOK, ReadInTime
  <1>3. /\ before.curve = vault[m] /\ before.recipient = wallet[to]
        /\ before.tokens \in {0, IF Pda \in atas[m] THEN amount ELSE 0}
    BY <1>2 DEF Measured, Balances, Balance, Answers
  <1>4. m \in launched /\ Pda \in atas[m] /\ vault[m] >= CurveRent
    BY <1>1 DEF ReleaseReserves, ReleaseGuards, RentExempt
  <1>5. /\ vault[m] \in Nat /\ wallet[to] \in Nat /\ amount \in Nat /\ Pda \notin Wallets
        /\ AtaRent \in Nat /\ CurveRent \in Nat /\ Terminal \in Wallets /\ Pda \in Owners
        /\ AtaCost(to, m) \in {0, AtaRent}
    BY <1>1, ConstantsAssumption, ToolAssumption DEF TypeOK, Owners, AtaCost
  <1>6. vault'[m] = CurveRent
    <2>1. Available(m) = vault[m] - CurveRent
      BY <1>4, <1>5 DEF Available
    <2>2. vault'[m] = vault[m] - Available(m)
      BY <1>1 DEF ReleaseReserves, TypeOK
    <2> QED BY <1>5, <2>1, <2>2
  <1>7. Balance("tokens", job)' = 0
    <2>1. CASE amount > 0
      <3>1. Pda \notin atas'[m]
        BY <1>1, <2>1 DEF ReleaseReserves, TypeOK
      <3> QED BY <1>2, <3>1 DEF Balance
    <2>2. CASE ~(amount > 0)
      <3>1. amount = 0
        BY <1>5, <2>2
      <3>2. tokens'[m] = Sent(tokens[m], Pda, to, amount) /\ to # Pda
        BY <1>1, <1>5 DEF ReleaseReserves, TypeOK
      <3>3. tokens'[m][Pda] = 0
        BY <1>1, <1>5, <3>1, <3>2 DEF Sent, TypeOK
      <3> QED BY <1>2, <3>3 DEF Balance
    <2> QED BY <2>1, <2>2
  <1>8. wallet'[to] = wallet[to] + (vault[m] - CurveRent) + rent
                        - (IF to = Terminal THEN AtaCost(to, m) ELSE 0)
    <2>1. Available(m) = vault[m] - CurveRent
      BY <1>4, <1>5 DEF Available
    <2> DEFINE w0 == [wallet EXCEPT ![Terminal] = @ - AtaCost(to, m)]
    <2>2. wallet' = [w0 EXCEPT ![to] = @ + (Available(m) + rent)]
      BY <1>1 DEF ReleaseReserves, Credited
    <2>3. w0 \in [Wallets -> Int]
          /\ w0[to] = wallet[to] - (IF to = Terminal THEN AtaCost(to, m) ELSE 0)
      BY <1>1, <1>5 DEF TypeOK
    <2> HIDE DEF w0
    <2>4. wallet'[to] = w0[to] + (Available(m) + rent)
      BY <1>1, <2>2, <2>3
    <2> QED BY <1>5, <2>1, <2>3, <2>4
  <1> DEFINE gain == before.curve - CurveRent
             closed == IF before.tokens > 0 THEN {AtaRent} ELSE {0, AtaRent}
  <1>9. rent \in closed
    BY <1>3, <1>4, <1>5
  <1> DEFINE p == IF to = Terminal THEN AtaCost(to, m) ELSE 0
  <1>10. to # Terminal => p = 0
    OBVIOUS
  <1>11. rent \in Nat /\ p \in Nat
    BY <1>5
  <1>12. before.curve = vault[m] /\ before.recipient = wallet[to]
         /\ wallet'[to] = wallet[to] + (vault[m] - CurveRent) + rent - p
    BY <1>3, <1>8
  <1> HIDE DEF rent, p
  <1> DEFINE gained == wallet'[to] - before.recipient
  <1>13. gained = gain + rent - p
    BY <1>5, <1>11, <1>12
  <1>14. gained <= gain + rent /\ (to # Terminal => gained = gain + rent)
    BY <1>5, <1>10, <1>11, <1>12
  <1> HIDE DEF job, before, m, to
  <1>15. /\ vault'[run'.job.mint] = CurveRent
         /\ run'.before = before /\ run'.job.to = to
         /\ wallet'[run'.job.to] - run'.before.recipient = gained
    BY <1>2, <1>6 DEF job, m, to
  <1>16. Balance("tokens", run.job)' = 0
    BY <1>7 DEF job
  <1> HIDE DEF gained
  <1> QED BY <1>9, <1>14, <1>15, <1>16 DEF Settled

\* A reading is of the moment it is made.
LEMMA NotedIsTrue ==
    ASSUME NEW read, NEW what, NEW answer \in Answers(what, run.job), run.quiet,
           \A w \in DOMAIN read : read[w] \in Answers(w, run.job)
    PROVE  \A w \in DOMAIN Noted(read, what, answer) :
                Noted(read, what, answer)[w] \in Answers(w, run.job)
  BY DEF Noted

LEMMA ReadBeforeMeasured ==
    ASSUME RunOK(run), Measured, NEW what \in Balances, ReadBefore(what)
    PROVE  Measured'
  <1> DEFINE pc == IF what = "tokens" THEN "built" ELSE "before"
  <1>0. PICK answer \in Answers(what, run.job) :
            Goes([run EXCEPT !.before = Noted(@, what, answer), !.pc = pc])
    BY DEF ReadBefore
  <1> DEFINE x == Noted(run.before, what, answer)
  <1>1. run' = [run EXCEPT !.before = x, !.pc = pc] /\ run.pc = "before"
    BY <1>0 DEF ReadBefore, Goes
  <1>2. pc # "confirmed" /\ UNCHANGED vars
    BY DEF ReadBefore, Stays
  <1>3. run.job.script = "release_min" /\ run.quiet =>
            \A w \in DOMAIN x : x[w] \in Answers(w, run.job)
    BY <1>1, NotedIsTrue DEF Measured
  <1> HIDE DEF x, pc
  <1>4. run'.job = run.job /\ run'.quiet = run.quiet /\ run'.before = x /\ run'.pc = pc
    BY <1>1 DEF RunOK, Fields
  <1>5. \A w : Answers(w, run.job)' = Answers(w, run.job)
    BY <1>2, <1>4 DEF Answers, Balance, vars
  <1>6. ASSUME run'.job.script = "release_min", run'.quiet, NEW w \in DOMAIN run'.before
        PROVE  run'.before[w] \in Answers(w, run.job)'
    BY <1>3, <1>4, <1>5, <1>6
  <1> QED BY <1>2, <1>4, <1>6 DEF Measured

LEMMA ReadAfterMeasured ==
    ASSUME RunOK(run), Measured, NEW what \in Balances, ReadAfter(what)
    PROVE  Measured' /\ ReportAddsUp'
  <1>0. PICK answer \in Answers(what, run.job) :
            LET after == Noted(run.after, what, answer)
            IN  \/ Goes([run EXCEPT !.after = after])
                \/ /\ what = "tokens"
                   /\ Ends([ kind |-> "report", job |-> run.job, before |-> run.before,
                             after |-> after, quiet |-> run.quiet ])
    BY DEF ReadAfter
  <1> DEFINE x == Noted(run.after, what, answer)
  <1>1. run.pc = "confirmed" /\ run.job.script = "release_min" /\ UNCHANGED vars
    BY DEF ReadAfter, OnceConfirmed, Stays
  <1>2. run.quiet => /\ \A w \in DOMAIN x : x[w] \in Answers(w, run.job)
                     /\ Settled(run.job, run.before)
    BY <1>1, NotedIsTrue DEF Measured
  <1>3. CASE Goes([run EXCEPT !.after = x])
    <2>1. run' = [run EXCEPT !.after = x] /\ printed' = Nothing
      BY <1>3 DEF Goes
    <2> HIDE DEF x
    <2>2. /\ run'.job = run.job /\ run'.quiet = run.quiet /\ run'.after = x
          /\ run'.pc = run.pc /\ run'.before = run.before
      BY <2>1, AfterFields DEF RunOK
    <2>3. /\ \A w : Answers(w, run.job)' = Answers(w, run.job)
          /\ Settled(run.job, run.before)' = Settled(run.job, run.before)
      BY <1>1, <2>2 DEF Answers, Balance, Settled, vars
    <2>4. Measured'
      BY <1>1, <1>2, <2>2, <2>3 DEF Measured
    <2>5. ReportAddsUp'
      BY <2>1, PrintsQuietly DEF ReportAddsUp
    <2> QED BY <2>4, <2>5
  <1>4. CASE /\ what = "tokens"
             /\ Ends([ kind |-> "report", job |-> run.job, before |-> run.before,
                       after |-> x, quiet |-> run.quiet ])
    <2>1. /\ run' = Idle /\ printed'.job = run.job /\ printed'.before = run.before
          /\ printed'.after = x /\ printed'.quiet = run.quiet
      BY <1>4 DEF Ends
    <2>2. Measured'
      BY <2>1, IdleFields DEF Measured
    <2>3. Balances \subseteq DOMAIN x
      <3>1. DOMAIN x = DOMAIN run.after \cup {what}
        BY DEF Noted
      <3> QED BY <1>4, <3>1 DEF ReadAfter, MayRead, Balances
    <2> HIDE DEF x
    <2>4. ASSUME run.quiet
          PROVE  /\ x["curve"] = vault[run.job.mint] /\ x["recipient"] = wallet[run.job.to]
                 /\ x["tokens"] \in {0, Balance("tokens", run.job)}
      BY <1>2, <2>3, <2>4 DEF Balances, Balance, Answers
    <2>5. ReportAddsUp'
      <3> SUFFICES ASSUME run.quiet
                   PROVE LET gain == run.before.curve - CurveRent
                             closed == IF run.before.tokens > 0 THEN {AtaRent}
                                       ELSE {0, AtaRent}
                             gained == x.recipient - run.before.recipient
                         IN  /\ x.curve = CurveRent /\ x.tokens = 0
                             /\ run.job.to # Terminal => \E c \in closed : gained = gain + c
                             /\ run.job.to = Terminal => \E c \in closed : gained <= gain + c
        BY <2>1 DEF ReportAddsUp
      <3> QED BY <1>2, <2>4 DEF Settled
    <2> QED BY <2>2, <2>5
  <1> QED BY <1>0, <1>3, <1>4

LEMMA DisturbedMeasured ==
    ASSUME RunOK(run), run' = Disturbed(run), run.job.script = "release_min"
    PROVE  Measured'
  <1>1. Disturbed(run).quiet = FALSE
    BY DisturbedFields DEF RunOK
  <1> QED BY <1>1 DEF Measured

LEMMA SubmitMeasured ==
    ASSUME RunOK(run), Measured, Submit
    PROVE  Measured'
  <1>1. run' = [run EXCEPT !.pc = "sent", !.asked = NotAsked] /\ run.pc = "built"
    BY DEF Submit, Goes
  <1>2. /\ run'.pc = "sent" /\ run'.job = run.job
        /\ run'.before = run.before /\ run'.quiet = run.quiet
    BY <1>1, SentFields DEF RunOK
  <1>3. UNCHANGED vars
    BY DEF Submit
  <1>4. \A w : Answers(w, run.job)' = Answers(w, run.job)
    BY <1>2, <1>3 DEF Answers, Balance, vars
  <1> QED BY <1>1, <1>2, <1>4 DEF Measured

LEMMA LandMeasured ==
    ASSUME IInv, ToolInv, Measured, NEW job \in flight, Land(job)
    PROVE  Measured'
  <1>1. CASE run.pc = "sent"
    <2>1. job = run.job /\ run' = [run EXCEPT !.pc = "confirmed"]
      BY <1>1 DEF Land, ToolInv, Flying
    <2>2. /\ run'.pc = "confirmed" /\ run'.job = run.job /\ run'.quiet = run.quiet
          /\ run'.after = run.after /\ run.after = NothingRead
      BY <1>1, <2>1, MovedFields DEF ToolInv, RunOK, ReadInTime
    <2>3. DOMAIN run'.after = {}
      BY <2>2 DEF NothingRead
    <2>4. run.job.script = "release_min" /\ run.quiet => Settled(run.job, run.before)'
      BY <1>1, <2>1, ReleaseSettles DEF IInv, ToolInv
    <2> QED BY <2>2, <2>3, <2>4 DEF Measured
  <1>2. CASE run.pc # "sent" /\ run.job.script = "release_min"
    BY <1>2, DisturbedMeasured DEF Land, ToolInv
  <1>3. CASE run.pc # "sent" /\ run.job.script # "release_min"
    BY <1>3, DisturbedFields DEF Land, ToolInv, RunOK, Measured
  <1> QED BY <1>1, <1>2, <1>3

LEMMA UnmovedMeasured ==
    ASSUME Measured, UNCHANGED <<vars, run>>
    PROVE  Measured'
  <1>1. /\ \A w : Answers(w, run.job)' = Answers(w, run.job)
        /\ Settled(run.job, run.before)' = Settled(run.job, run.before)
    BY DEF Answers, Settled, Balance, vars
  <1> QED BY <1>1 DEF Measured

LEMMA MeasuredStep ==
    ASSUME IInv, ToolInv, Measured, ReportAddsUp, [ToolNext]_toolVars
    PROVE  Measured' /\ ReportAddsUp'
  <1>1. CASE \E c \in Commands : Start(c)
    <2>1. Fresh(run') /\ Quietly
      BY <1>1, StartOK
    <2>2. DOMAIN run'.before = {} /\ run'.pc # "confirmed"
      BY <2>1 DEF Fresh, NothingRead
    <2> QED BY <2>1, <2>2 DEF Measured, ReportAddsUp, Quietly
  <1>2. CASE ReadConfig
    <2>1. Quietly /\ AtItsPlace(run') /\ AtItsPlace(run)
      BY <1>2, ReadConfigOK DEF ToolInv, RunOK
    <2>2. run'.pc \in {"idle", "mint"}
      BY <1>2, IdleOK DEF ReadConfig, Ends, Goes, ToolInv, RunOK, Fields
    <2> QED BY <2>1, <2>2 DEF Measured, ReportAddsUp, Quietly
  <1>3. CASE ReadMint
    <2>1. Quietly
      BY <1>3, ReadMintOK DEF ToolInv
    <2>2. run' = Idle \/ run'.job.script = "buy"
      BY <1>3, MovedFields DEF ReadMint, Ends, Goes, ToolInv, RunOK, AtItsPlace
    <2> QED BY <2>1, <2>2, IdleFields DEF Measured, ReportAddsUp, Quietly
  <1>4. CASE \/ ShowCurve \/ ShowMint \/ DryRunEnds \/ Throw \/ Finish
             \/ \E job \in flight : Refuse(job)
    <2>1. run' = Idle
      BY <1>4 DEF ShowCurve, ShowMint, DryRunEnds, Throw, Finish, Refuse, Ends
    <2>2. printed'.kind # "report"
      BY <1>4, PrintsQuietly
         DEF ShowCurve, ShowMint, DryRunEnds, Throw, Finish, Refuse, Ends, ProgramError
    <2> QED BY <2>1, <2>2, IdleFields DEF Measured, ReportAddsUp
  <1>5. CASE \E what \in Balances : ReadBefore(what)
    BY <1>5, ReadBeforeMeasured, ReadBeforeOK DEF ToolInv, ReportAddsUp, Quietly
  <1>6. CASE \E what \in Balances : ReadAfter(what)
    BY <1>6, ReadAfterMeasured DEF ToolInv
  <1>7. CASE Submit
    BY <1>7, SubmitMeasured, SubmitOK DEF ToolInv, ReportAddsUp, Quietly
  <1>8. CASE \E job \in flight : Land(job)
    BY <1>8, LandMeasured, LandOK DEF ToolInv, ReportAddsUp, Quietly
  <1>9. CASE \E job \in flight : Lose(job)
    <2>1. UNCHANGED <<vars, run>> /\ printed' = Nothing
      BY <1>9 DEF Lose
    <2>2. Measured'
      BY <2>1, UnmovedMeasured
    <2> QED BY <2>1, <2>2, PrintsQuietly DEF ReportAddsUp
  <1>10. CASE Others
    <2>1. run' = Disturbed(run) /\ printed' = Nothing
      BY <1>10 DEF Others
    <2>2. CASE run.job.script = "release_min"
      BY <2>1, <2>2, DisturbedMeasured, PrintsQuietly DEF ToolInv, ReportAddsUp
    <2>3. CASE run.job.script # "release_min"
      <3>1. run'.job.script # "release_min"
        BY <2>1, <2>3, DisturbedFields DEF ToolInv, RunOK
      <3>2. printed'.kind # "report"
        BY <2>1, PrintsQuietly
      <3> QED BY <3>1, <3>2 DEF Measured, ReportAddsUp
    <2> QED BY <2>2, <2>3
  <1>11. CASE UNCHANGED toolVars
    <2>1. UNCHANGED <<vars, run, printed>>
      BY <1>11 DEF toolVars
    <2>2. Measured'
      BY <2>1, UnmovedMeasured
    <2> QED BY <2>1, <2>2 DEF ReportAddsUp
  <1> QED BY <1>1, <1>2, <1>3, <1>4, <1>5, <1>6, <1>7, <1>8, <1>9, <1>10, <1>11 DEF ToolNext

\* What release_min.ts reports of an undisturbed release is what the release moved:
\* another recipient than the terminal gained everything above the rent and the closed
\* account's rent, and nothing else; the terminal no more than that.
THEOREM ReportsAddUp == ToolSpec => []ReportAddsUp
  <1>1. ToolInit => IInv /\ ToolInv /\ Measured /\ ReportAddsUp
    <2> SUFFICES ASSUME ToolInit PROVE IInv /\ ToolInv /\ Measured /\ ReportAddsUp
      OBVIOUS
    <2>1. IInv
      BY InitIInv DEF ToolInit
    <2>2. ToolInv
      BY IdleOK DEF ToolInit, ToolInv, Flying
    <2> QED BY <2>1, <2>2, IdleFields, PrintsQuietly DEF ToolInit, Measured, ReportAddsUp
  <1>2. IInv /\ ToolInv /\ Measured /\ ReportAddsUp /\ [ToolNext]_toolVars
          => IInv' /\ ToolInv' /\ Measured' /\ ReportAddsUp'
    BY NextIInv, ToolStepIsPumpStep, ToolStep, MeasuredStep
  <1> QED BY <1>1, <1>2, PTL DEF ToolSpec

-----------------------------------------------------------------------------
(* The accounts the scripts pass are the ones the program derives. *)

LEMMA SameLists ==
    /\ IdlLaunchAccounts = LaunchAccounts /\ IdlSwapAccounts = SwapAccounts
    /\ IdlReleaseReservesAccounts = ReleaseReservesAccounts
    /\ EncodedKeys = ReleaseReservesAccounts
  BY DEF IdlLaunchAccounts, LaunchAccounts, IdlSwapAccounts, SwapAccounts,
         IdlReleaseReservesAccounts, ReleaseReservesAccounts, EncodedKeys

\* Taken by position, the accounts get the names they were built for.
LEMMA NamesByPosition ==
    ASSUME NEW accounts, NEW values, NEW i \in DOMAIN accounts
    PROVE  ByName(accounts, buildAccountsFromIdl(accounts, values))[accounts[i].name]
             = values[accounts[i].name]
  <1> DEFINE metas == buildAccountsFromIdl(accounts, values)
             n == accounts[i].name
             k == CHOOSE j \in DOMAIN accounts : accounts[j].name = n
  <1>1. k \in DOMAIN accounts /\ accounts[k].name = n
    OBVIOUS
  <1>2. metas[k].address = values[accounts[k].name]
    BY <1>1 DEF buildAccountsFromIdl
  <1>3. ByName(accounts, metas)[n] = metas[k].address
    BY DEF ByName
  <1> QED BY <1>1, <1>2, <1>3

\* An instruction admits accounts that were built from its own list, if every value
\* is the address required by the others.
LEMMA BuiltIsAdmitted ==
    ASSUME NEW instruction \in DOMAIN ProgramAccounts, NEW values, NEW n \in Nat,
           ProgramAccounts[instruction] = IdlAccounts[instruction],
           LET accounts == ProgramAccounts[instruction]
           IN  /\ DOMAIN accounts = 1 .. n /\ Len(accounts) = n
               /\ \A i \in 1 .. n :
                     values[accounts[i].name] =
                        RequiredAddress(accounts[i].name,
                                        ByName(accounts, buildAccountsFromIdl(accounts, values)))
    PROVE  Admits(instruction,
                  buildAccountsFromIdl(getInstructionIdl(instruction), values))
  <1> DEFINE accounts == ProgramAccounts[instruction]
             metas == buildAccountsFromIdl(accounts, values)
  <1>1. getInstructionIdl(instruction) = accounts
    BY DEF getInstructionIdl
  <1>2. DOMAIN metas = 1 .. n /\ Len(metas) = n
    BY DEF buildAccountsFromIdl
  <1>3. \A i \in 1 .. n : /\ metas[i].address = values[accounts[i].name]
                          /\ metas[i].flags = accounts[i].flags
    BY DEF buildAccountsFromIdl
  <1> QED BY <1>1, <1>2, <1>3 DEF Admits

LEMMA ReleaseIsAdmitted ==
    ASSUME NEW job, job.script \in {"release", "release_min"}
    PROVE  Admits("release_reserves", Metas(job))
  <1> DEFINE accounts == ReleaseReservesAccounts
             values == Values(job)
             b == ByName(accounts, buildAccountsFromIdl(accounts, values))
  <1>1. values = ReleaseValues(job.mint, job.to)
    BY DEF Values, ReleaseMinValues, ReleaseValues, bondingCurvePda, globalConfigPda,
           curveAta, ownerAta
  <1>2. /\ DOMAIN accounts = 1 .. 10 /\ Len(accounts) = 10
        /\ accounts[1].name = "admin" /\ accounts[2].name = "global_config"
        /\ accounts[3].name = "token_mint" /\ accounts[4].name = "bonding_curve"
        /\ accounts[5].name = "curve_token_account" /\ accounts[6].name = "recipient"
        /\ accounts[7].name = "recipient_token_account" /\ accounts[8].name = "token_program"
        /\ accounts[9].name = "associated_token_program"
        /\ accounts[10].name = "system_program"
    BY DEF ReleaseReservesAccounts, Account
  <1>3. \A i \in 1 .. 10 : b[accounts[i].name] = values[accounts[i].name]
    BY <1>2, NamesByPosition
  <1> HIDE DEF accounts, values, b
  <1>4. /\ b.admin = values.admin /\ b.token_mint = values.token_mint
        /\ b.bonding_curve = values.bonding_curve /\ b.recipient = values.recipient
    BY <1>2, <1>3
  <1>5. /\ values.token_mint = job.mint /\ values.bonding_curve = bondingCurvePda(job.mint)
        /\ values.recipient = job.to
    BY <1>1 DEF ReleaseValues
  <1>6. ASSUME NEW i \in 1 .. 10
        PROVE  values[accounts[i].name] = RequiredAddress(accounts[i].name, b)
    <2>1. CASE i \in {1, 6, 3}
      BY <1>2, <1>4, <2>1 DEF RequiredAddress, FixedAddresses
    <2>2. CASE i \in {2, 8, 9, 10}
      BY <1>1, <1>2, <2>2 DEF RequiredAddress, FixedAddresses, ReleaseValues, globalConfigPda
    <2>3. CASE i = 4
      BY <1>2, <1>4, <1>5, <2>3 DEF RequiredAddress, FixedAddresses, bondingCurvePda
    <2>4. CASE i = 5
      BY <1>1, <1>2, <1>4, <1>5, <2>4
         DEF RequiredAddress, FixedAddresses, ReleaseValues, curveAta, AssociatedTokenAddress
    <2>5. CASE i = 7
      BY <1>1, <1>2, <1>4, <1>5, <2>5
         DEF RequiredAddress, FixedAddresses, ReleaseValues, ownerAta, AssociatedTokenAddress
    <2> QED BY <2>1, <2>2, <2>3, <2>4, <2>5
  <1>7. /\ ProgramAccounts["release_reserves"] = accounts
        /\ IdlAccounts["release_reserves"] = accounts
        /\ "release_reserves" \in DOMAIN ProgramAccounts
    BY SameLists DEF ProgramAccounts, IdlAccounts, accounts
  <1>8. Metas(job) = buildAccountsFromIdl(getInstructionIdl("release_reserves"), values)
    BY DEF Metas, Instruction, values
  <1> QED BY <1>2, <1>6, <1>7, <1>8, BuiltIsAdmitted DEF b

LEMMA BuyIsAdmitted ==
    ASSUME NEW job, job.script = "buy"
    PROVE  Admits("swap", Metas(job))
  <1> DEFINE accounts == SwapAccounts
             values == Values(job)
             b == ByName(accounts, buildAccountsFromIdl(accounts, values))
  <1>1. values = BuyValues(job.mint, job.to)
    BY DEF Values
  <1>2. /\ DOMAIN accounts = 1 .. 10 /\ Len(accounts) = 10
        /\ accounts[1].name = "user" /\ accounts[2].name = "global_config"
        /\ accounts[3].name = "fee_recipient" /\ accounts[4].name = "bonding_curve"
        /\ accounts[5].name = "token_mint" /\ accounts[6].name = "curve_token_account"
        /\ accounts[7].name = "user_token_account" /\ accounts[8].name = "token_program"
        /\ accounts[9].name = "associated_token_program"
        /\ accounts[10].name = "system_program"
    BY DEF SwapAccounts, Account
  <1>3. \A i \in 1 .. 10 : b[accounts[i].name] = values[accounts[i].name]
    BY <1>2, NamesByPosition
  <1> HIDE DEF accounts, values, b
  <1>4. /\ b.user = values.user /\ b.token_mint = values.token_mint
        /\ b.bonding_curve = values.bonding_curve /\ b.fee_recipient = values.fee_recipient
    BY <1>2, <1>3
  <1>5. /\ values.token_mint = job.mint /\ values.bonding_curve = bondingCurvePda(job.mint)
        /\ values.user = Terminal
    BY <1>1 DEF BuyValues
  <1>6. ASSUME NEW i \in 1 .. 10
        PROVE  values[accounts[i].name] = RequiredAddress(accounts[i].name, b)
    <2>1. CASE i \in {1, 3, 5}
      BY <1>2, <1>4, <2>1 DEF RequiredAddress, FixedAddresses
    <2>2. CASE i \in {2, 8, 9, 10}
      BY <1>1, <1>2, <2>2 DEF RequiredAddress, FixedAddresses, BuyValues, globalConfigPda
    <2>3. CASE i = 4
      BY <1>2, <1>4, <1>5, <2>3 DEF RequiredAddress, FixedAddresses, bondingCurvePda
    <2>4. CASE i = 6
      BY <1>1, <1>2, <1>4, <1>5, <2>4
         DEF RequiredAddress, FixedAddresses, BuyValues, curveAta, AssociatedTokenAddress
    <2>5. CASE i = 7
      BY <1>1, <1>2, <1>4, <1>5, <2>5
         DEF RequiredAddress, FixedAddresses, BuyValues, ownerAta, AssociatedTokenAddress
    <2> QED BY <2>1, <2>2, <2>3, <2>4, <2>5
  <1>7. /\ ProgramAccounts["swap"] = accounts /\ IdlAccounts["swap"] = accounts
        /\ "swap" \in DOMAIN ProgramAccounts
    BY SameLists DEF ProgramAccounts, IdlAccounts, accounts
  <1>8. Metas(job) = buildAccountsFromIdl(getInstructionIdl("swap"), values)
    BY DEF Metas, Instruction, values
  <1> QED BY <1>2, <1>6, <1>7, <1>8, BuiltIsAdmitted DEF b

LEMMA LaunchIsAdmitted ==
    ASSUME NEW job, job.script = "launch"
    PROVE  Admits("launch", Metas(job))
  <1> DEFINE accounts == LaunchAccounts
             values == Values(job)
             b == ByName(accounts, buildAccountsFromIdl(accounts, values))
  <1>1. values = LaunchValues(job.mint)
    BY DEF Values
  <1>2. /\ DOMAIN accounts = 1 .. 11 /\ Len(accounts) = 11
        /\ accounts[1].name = "creator" /\ accounts[2].name = "global_config"
        /\ accounts[3].name = "token_mint" /\ accounts[4].name = "bonding_curve"
        /\ accounts[5].name = "curve_token_account"
        /\ accounts[6].name = "token_metadata_account" /\ accounts[7].name = "token_program"
        /\ accounts[8].name = "associated_token_program"
        /\ accounts[9].name = "metadata_program" /\ accounts[10].name = "system_program"
        /\ accounts[11].name = "rent"
    BY DEF LaunchAccounts, Account
  <1>3. \A i \in 1 .. 11 : b[accounts[i].name] = values[accounts[i].name]
    BY <1>2, NamesByPosition
  <1> HIDE DEF accounts, values, b
  <1>4. /\ b.creator = values.creator /\ b.token_mint = values.token_mint
        /\ b.bonding_curve = values.bonding_curve
    BY <1>2, <1>3
  <1>5. /\ values.token_mint = job.mint
        /\ values.bonding_curve = findPda(<<Text("bonding-curve"), job.mint>>, PumpProgram)
    BY <1>1 DEF LaunchValues
  <1>6. ASSUME NEW i \in 1 .. 11
        PROVE  values[accounts[i].name] = RequiredAddress(accounts[i].name, b)
    <2>1. CASE i \in {1, 3}
      BY <1>2, <1>4, <2>1 DEF RequiredAddress, FixedAddresses
    <2>2. CASE i \in {2, 7, 8, 9, 10, 11}
      BY <1>1, <1>2, <2>2 DEF RequiredAddress, FixedAddresses, LaunchValues, globalConfigPda
    <2>3. CASE i = 4
      BY <1>2, <1>4, <1>5, <2>3 DEF RequiredAddress, FixedAddresses
    <2>4. CASE i = 5
      BY <1>1, <1>2, <1>4, <1>5, <2>4
         DEF RequiredAddress, FixedAddresses, LaunchValues, curveAta, AssociatedTokenAddress
    <2>5. CASE i = 6
      BY <1>1, <1>2, <1>4, <1>5, <2>5 DEF RequiredAddress, FixedAddresses, LaunchValues
    <2> QED BY <2>1, <2>2, <2>3, <2>4, <2>5
  <1>7. /\ ProgramAccounts["launch"] = accounts /\ IdlAccounts["launch"] = accounts
        /\ "launch" \in DOMAIN ProgramAccounts
    BY SameLists DEF ProgramAccounts, IdlAccounts, accounts
  <1>8. Metas(job) = buildAccountsFromIdl(getInstructionIdl("launch"), values)
    BY DEF Metas, Instruction, values
  <1> QED BY <1>2, <1>6, <1>7, <1>8, BuiltIsAdmitted DEF b

\* For every mint and every recipient, what launch, buy and the releases send has the
\* accounts, the flags and the addresses the program's constraints ask for.
THEOREM TransactionsAreAdmitted ==
    ToolSpec => [](\A job \in flight : job.script \in Executed =>
                        Admits(Instruction[job.script], Metas(job)))
  <1>1. \A job \in flight : job.script \in Executed =>
            Admits(Instruction[job.script], Metas(job))
    <2> SUFFICES ASSUME NEW job \in flight, job.script \in Executed
                 PROVE  Admits(Instruction[job.script], Metas(job))
      OBVIOUS
    <2>1. job.script \in {"launch", "buy", "release", "release_min"}
      BY DEF Executed
    <2>2. /\ Instruction["launch"] = "launch" /\ Instruction["buy"] = "swap"
          /\ Instruction["release"] = "release_reserves"
          /\ Instruction["release_min"] = "release_reserves"
      BY DEF Instruction
    <2> QED BY <2>1, <2>2, LaunchIsAdmitted, BuyIsAdmitted, ReleaseIsAdmitted
  <1> QED BY <1>1, PTL

\* Whoever uses what release_encode.ts prints sends what release.ts would send.
THEOREM EncodedIsReleased == ToolSpec => []EncodesTheRelease
  <1>1. ToolInit => EncodesTheRelease
    BY DEF ToolInit, Nothing, EncodesTheRelease
  <1>2. ASSUME EncodesTheRelease, ToolNext PROVE EncodesTheRelease'
    <2>1. CASE printed'.kind # "instruction"
      BY <2>1 DEF EncodesTheRelease
    <2>2. CASE printed'.kind = "instruction"
      <3> /\ Nothing.kind # "instruction" /\ Usage.kind # "instruction"
          /\ Thrown.kind # "instruction" /\ DryRun.kind # "instruction"
          /\ Signature.kind # "instruction"
          /\ \A code : ProgramError(code).kind # "instruction"
        BY DEF Nothing, Usage, Thrown, DryRun, Signature, ProgramError
      <3>0. PICK c \in Commands : Start(c)
        <4>1. ~ReadConfig /\ ~ReadMint /\ ~ShowCurve /\ ~ShowMint
          BY <2>2 DEF ReadConfig, ReadMint, ShowCurve, ShowMint, Ends, Goes
        <4>2. ASSUME NEW what PROVE ~ReadBefore(what) /\ ~ReadAfter(what)
          <5>1. ~ReadBefore(what)
            BY <2>2 DEF ReadBefore, Goes
          <5>2. ASSUME ReadAfter(what) PROVE FALSE
            <6>1. PICK after : \/ printed' = Nothing
                               \/ printed' = [ kind |-> "report", job |-> run.job,
                                               before |-> run.before, after |-> after,
                                               quiet |-> run.quiet ]
              BY <5>2 DEF ReadAfter, Ends, Goes
            <6> QED BY <2>2, <6>1
          <5> QED BY <5>1, <5>2
        <4>3. ~DryRunEnds /\ ~Submit /\ ~Throw /\ ~Finish /\ ~Others
          BY <2>2 DEF DryRunEnds, Submit, Throw, Finish, Others, Ends, Goes
        <4>4. ASSUME NEW job PROVE ~Land(job) /\ ~Refuse(job) /\ ~Lose(job)
          BY <2>2 DEF Land, Refuse, Lose, Ends
        <4> QED BY <1>2, <4>1, <4>2, <4>3, <4>4 DEF ToolNext
      <3>1. ReleaseEncode(c)
        <4>1. ASSUME NEW script, NEW help, NEW valid, NEW r, Main(c, script, help, valid, r)
              PROVE  FALSE
          BY <2>2, <4>1 DEF Main, Ends, Goes
        <4> QED BY <3>0, <4>1 DEF Start, StartConfigure, StartSmoke, StartLaunch, StartBuy,
              StartSell, StartRelease, StartMigrate, StartCurveState, StartMintInfo,
              StartReleaseMin, StartSweep
      <3>2. PICK mint, admin, recipient :
              printed' = [ kind |-> "instruction", mint |-> mint, to |-> recipient,
                           keys |-> buildAccountsFromIdl(EncodedKeys,
                                        EncodedValues(mint, admin, recipient)) ]
        BY <2>2, <3>1 DEF ReleaseEncode, Ends, Usage, Thrown
      <3> DEFINE accounts == ReleaseReservesAccounts
                 values == EncodedValues(mint, admin, recipient)
                 release == ReleaseValues(mint, recipient)
                 keys == buildAccountsFromIdl(accounts, values)
                 sent == buildAccountsFromIdl(accounts, release)
      <3>3. printed'.mint = mint /\ printed'.to = recipient /\ printed'.keys = keys
        BY <3>2, SameLists
      <3>4. Metas(Job("release", mint, recipient, 0)) = sent
        BY SameLists DEF Metas, Job, Instruction, getInstructionIdl, IdlAccounts, Values
      <3>5. values = [release EXCEPT !.admin = admin]
        BY DEF EncodedValues, ReleaseMinValues, ReleaseValues, bondingCurvePda,
               globalConfigPda, curveAta, ownerAta
      <3>6. DOMAIN accounts = 1 .. 10 /\ \A i \in 2 .. 10 : accounts[i].name # "admin"
        BY DEF ReleaseReservesAccounts, Account
      <3>7. \A i \in 2 .. 10 : values[accounts[i].name] = release[accounts[i].name]
        <4>1. \A i \in 2 .. 10 : accounts[i].name \in DOMAIN release
          BY DEF ReleaseReservesAccounts, Account, ReleaseValues
        <4> HIDE DEF values, release, accounts
        <4> QED BY <3>5, <3>6, <4>1
      <3> HIDE DEF accounts, values, release
      <3>8. DOMAIN keys = 1 .. 10 /\ Len(keys) = 10 /\ Len(sent) = 10
        BY <3>6 DEF buildAccountsFromIdl
      <3>9. /\ \A i \in 2 .. 10 : keys[i] = sent[i]
            /\ keys[1].flags = sent[1].flags
        BY <3>6, <3>7 DEF buildAccountsFromIdl
      <3> HIDE DEF keys, sent
      <3> QED BY <3>3, <3>4, <3>8, <3>9 DEF EncodesTheRelease
    <2> QED BY <2>1, <2>2
  <1>3. EncodesTheRelease /\ [ToolNext]_toolVars => EncodesTheRelease'
    BY <1>2 DEF toolVars, EncodesTheRelease
  <1> QED BY <1>1, <1>3, PTL DEF ToolSpec
=============================================================================
