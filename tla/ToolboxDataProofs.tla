--------------------------- MODULE ToolboxDataProofs ---------------------------
(***************************************************************************)
(* Proofs about the data that passes between the scripts and the program:  *)
(* the types of the terminal's state, what the program finds in what the   *)
(* scripts send, and what the scripts find in the accounts they read.      *)
(***************************************************************************)
EXTENDS ToolboxProofs

-----------------------------------------------------------------------------
(* The keys and numbers a command line brings into a job are of the model. *)

LEMMA CommandValues ==
    ASSUME NEW c \in Commands
    PROVE  /\ IsKey(c.flags.mint) => KeyOf(c.flags.mint) \in Mints
           /\ IsKey(c.flags.recipient) => KeyOf(c.flags.recipient) \notin Mints
           /\ EnvKey(c.env.MINT) => c.env.MINT.key \in Mints
           /\ EnvKey(c.env.RECIPIENT) => c.env.RECIPIENT.key \notin Mints
           /\ Amount(c.flags.lamports) \in Nat
           /\ FeesOf(c) \in Nat /\ c.env.NONCE.number \div 100 \in Nat
  <1>1. PICK line \in CommandLines : c = Parsed(line)
    BY DEF Commands
  <1> DEFINE argv == line.argv
             env == line.env
             Text_(variable) == JsValue("string", env[variable])
  <1>2. c.env = env /\ c.flags = parseFlags(argv, env)
    BY <1>1 DEF Parsed
  <1>3. /\ c.flags.mint = Fallback(LastFlag(argv, "mint"), env, "MINT", Text_("MINT"))
        /\ c.flags.recipient =
              Fallback(LastFlag(argv, "recipient"), env, "RECIPIENT", Text_("RECIPIENT"))
        /\ c.flags.lamports = Fallback(LastFlag(argv, "lamports"), env, "LAMPORTS",
                                       ParseInt(env.LAMPORTS))
        /\ c.flags.fees = LastFlag(argv, "fees")
    BY <1>2 DEF parseFlags, FlagNames
  <1>4. /\ IsKey(LastFlag(argv, "mint")) => KeyOf(LastFlag(argv, "mint")) \in Mints
        /\ IsKey(LastFlag(argv, "recipient")) => KeyOf(LastFlag(argv, "recipient")) \notin Mints
        /\ IsKey(Text_("MINT")) => KeyOf(Text_("MINT")) \in Mints
        /\ IsKey(Text_("RECIPIENT")) => KeyOf(Text_("RECIPIENT")) \notin Mints
    BY KeyAssumption
  <1>5. \A variable : /\ IsKey(Text_(variable)) <=> EnvKey(env[variable])
                      /\ KeyOf(Text_(variable)) = env[variable].key
    BY DEF IsKey, EnvKey, KeyOf, JsValue
  <1>6. /\ IsKey(c.flags.mint) => KeyOf(c.flags.mint) \in Mints
        /\ IsKey(c.flags.recipient) => KeyOf(c.flags.recipient) \notin Mints
    BY <1>3, <1>4 DEF Fallback
  <1>7. /\ LastFlag(argv, "lamports").of.number \in Nat
        /\ LastFlag(argv, "fees").of.number \in Nat
        /\ env.LAMPORTS.number \in Nat /\ env.NONCE.number \in Nat
    BY TextAssumption
  <1>8. Amount(ParseInt(env.LAMPORTS)) \in Nat
    <2>1. CASE env.LAMPORTS.shape \in {"int", "float", "exp"}
      <3>1. ParseInt(env.LAMPORTS).of.number = (env.LAMPORTS.number \div 100) * 100
        BY <2>1 DEF ParseInt, JsValue, Number
      <3> QED BY <1>7, <3>1 DEF Amount
    <2>2. CASE env.LAMPORTS.shape \notin {"int", "float", "exp"}
      BY <2>2 DEF ParseInt, JsValue, Amount
    <2> QED BY <2>1, <2>2
  <1>9. Amount(LastFlag(argv, "lamports")) \in Nat
    BY <1>7 DEF Amount
  <1>10. Amount(c.flags.lamports) \in Nat
    BY <1>3, <1>8, <1>9 DEF Fallback
  <1>11. FeesOf(c) \in Nat
    BY <1>3, <1>7 DEF FeesOf
  <1> QED BY <1>2, <1>4, <1>5, <1>6, <1>7, <1>10, <1>11

-----------------------------------------------------------------------------
(* Types. *)

\* The accounts a job names are of the model.
JobNamed(job) ==
    /\ job.mint \in Mints \cup {NoKey} /\ job.to \in Keys /\ job.amount \in Nat
    /\ job.script = "release_min" => job.mint \in Mints /\ job.to \in Wallets

RunTyped(r) ==
    /\ JobNamed(r.job) /\ IsReading(r.before) /\ IsReading(r.after)
    /\ r.pc = "idle" => r = Idle

ToolTyped == RunTyped(run) /\ \A job \in flight : job \in JobType

LEMMA NothingReadIsReading == IsReading(NothingRead)
  BY DEF IsReading, NothingRead

LEMMA IdleTyped == RunTyped(Idle)
  <1>1. /\ Idle.job = NoJob /\ Idle.before = NothingRead /\ Idle.after = NothingRead
    BY DEF Idle, Run
  <1>2. JobNamed(NoJob)
    BY DEF JobNamed, NoJob, Job, Keys
  <1> QED BY <1>1, <1>2, NothingReadIsReading DEF RunTyped

LEMMA StartedTyped ==
    ASSUME NEW pc, pc # "idle", NEW script, script # "release_min",
           NEW mint \in Mints \cup {NoKey}, NEW to \in Keys, NEW amount \in Nat, NEW c
    PROVE  RunTyped(Run(pc, Job(script, mint, to, amount), c))
  <1> DEFINE r == Run(pc, Job(script, mint, to, amount), c)
  <1>1. r = Run(pc, Job(script, mint, to, amount), c)
    OBVIOUS
  <1> HIDE DEF r
  <1>2. /\ r.pc = pc /\ r.before = NothingRead /\ r.after = NothingRead
        /\ r.job.script = script /\ r.job.mint = mint /\ r.job.to = to
        /\ r.job.amount = amount
    BY <1>1, RunFields
  <1>3. RunTyped(r)
    BY <1>2, NothingReadIsReading DEF RunTyped, JobNamed
  <1> QED BY <1>3 DEF r

LEMMA StartTyped ==
    ASSUME NEW c \in Commands, Start(c)
    PROVE  RunTyped(run')
  <1> DEFINE f == c.flags
  <1>0. Terminal \in Keys /\ NoKey \in Keys
    BY ToolAssumption DEF Keys
  <1>1. CASE StartConfigure(c)
    <2> DEFINE r == Run("built", Job("configure", NoKey, Terminal, FeesOf(c)), c)
    <2>1. RunTyped(r)
      BY <1>0, CommandValues, StartedTyped
    <2> HIDE DEF r
    <2> QED BY <1>1, <2>1, IdleTyped DEF StartConfigure, Main, Ends, Goes, r
  <1>2. CASE StartLaunch(c)
    <2>1. PICK m \in Mints \ launched :
            Main(c, "launch", IsHelp(c), HasProvider(c),
                 Run("built", Job("launch", m, NoKey, 0), c))
      BY <1>2 DEF StartLaunch
    <2> DEFINE r == Run("built", Job("launch", m, NoKey, 0), c)
    <2>2. RunTyped(r)
      BY <1>0, StartedTyped
    <2> HIDE DEF r
    <2> QED BY <2>1, <2>2, IdleTyped DEF Main, Ends, Goes, r
  <1>3. CASE StartBuy(c)
    <2> DEFINE r == Run("config", Job("buy", KeyOf(f.mint), NoKey, Amount(f.lamports)), c)
    <2>1. ASSUME IsKey(f.mint) PROVE RunTyped(r)
      BY <1>0, <2>1, CommandValues, StartedTyped
    <2> HIDE DEF r
    <2> QED BY <1>3, <2>1, IdleTyped DEF StartBuy, Main, Ends, Goes, r
  <1>4. CASE StartSell(c)
    <2> DEFINE r == Run("config", Job("sell", KeyOf(f.mint), NoKey, 0), c)
    <2>1. ASSUME IsKey(f.mint) PROVE RunTyped(r)
      BY <1>0, <2>1, CommandValues, StartedTyped
    <2> HIDE DEF r
    <2> QED BY <1>4, <2>1, IdleTyped DEF StartSell, Main, Ends, Goes, r
  <1>5. CASE StartRelease(c)
    <2> DEFINE r == Run("built", Job("release", KeyOf(f.mint), KeyOf(f.recipient), 0), c)
    <2>1. ASSUME IsKey(f.mint), IsKey(f.recipient), OnCurve(KeyOf(f.recipient))
          PROVE  RunTyped(r)
      <3>1. KeyOf(f.mint) \in Mints /\ KeyOf(f.recipient) \in Keys
        BY <2>1, CommandValues DEF OnCurve, Keys
      <3> QED BY <3>1, StartedTyped
    <2> HIDE DEF r
    <2> QED BY <1>5, <2>1, IdleTyped DEF StartRelease, Main, Ends, Goes, r
  <1>6. CASE StartMigrate(c)
    <2> DEFINE q == Run("built", Job("migrate", NoKey, NoKey, c.env.NONCE.number \div 100), c)
               r == [q EXCEPT !.send = TRUE]
    <2>1. RunTyped(q) /\ q.pc = "built"
      BY <1>0, CommandValues, StartedTyped DEF Run
    <2>2. Fields(q) /\ r = [q EXCEPT !.send = TRUE]
      BY RunFields
    <2> HIDE DEF q, r
    <2>3. RunTyped(r)
      BY <2>1, <2>2, SendingFields DEF RunTyped
    <2> QED BY <1>6, <2>3, IdleTyped DEF StartMigrate, Main, Ends, Goes, q, r
  <1>7. CASE StartCurveState(c)
    <2> DEFINE r == Run("show", Job("curve-state", KeyOf(f.mint), NoKey, 0), c)
    <2>1. ASSUME IsKey(f.mint) PROVE RunTyped(r)
      BY <1>0, <2>1, CommandValues, StartedTyped
    <2> HIDE DEF r
    <2> QED BY <1>7, <2>1, IdleTyped DEF StartCurveState, Main, Ends, Goes, r
  <1>8. CASE StartMintInfo(c)
    <2> DEFINE r == Run("show", Job("mint-info", c.env.MINT.key, NoKey, 0), c)
    <2>1. ASSUME EnvKey(c.env.MINT) PROVE RunTyped(r)
      BY <1>0, <2>1, CommandValues, StartedTyped
    <2> HIDE DEF r
    <2> QED BY <1>8, <2>1, IdleTyped DEF StartMintInfo, Main, Ends, Goes, r
  <1>9. CASE StartReleaseMin(c)
    <2> DEFINE q == Run("before", Job("release_min", c.env.MINT.key, c.env.RECIPIENT.key, 0), c)
               r == [q EXCEPT !.send = TRUE]
    <2>1. /\ Fields(q) /\ q.pc = "before" /\ q.before = NothingRead /\ q.after = NothingRead
          /\ q.job.mint = c.env.MINT.key /\ q.job.to = c.env.RECIPIENT.key /\ q.job.amount = 0
      BY RunFields
    <2>2. r = [q EXCEPT !.send = TRUE]
      OBVIOUS
    <2> HIDE DEF q, r
    <2>3. ASSUME EnvKey(c.env.MINT), EnvKey(c.env.RECIPIENT), OnCurve(c.env.RECIPIENT.key)
          PROVE  RunTyped(r)
      <3>1. c.env.MINT.key \in Mints /\ c.env.RECIPIENT.key \in Wallets
        BY <2>3, CommandValues DEF OnCurve
      <3>2. /\ r.pc = "before" /\ r.job = q.job /\ r.before = NothingRead
            /\ r.after = NothingRead
        BY <2>1, <2>2, SendingFields
      <3> QED BY <2>1, <3>1, <3>2, NothingReadIsReading DEF RunTyped, JobNamed, Keys
    <2> QED BY <1>9, <2>3, IdleTyped DEF StartReleaseMin, Main, Ends, Goes, q, r
  <1>10. CASE StartSweep(c) \/ ReleaseEncode(c)
    BY <1>10, IdleTyped DEF StartSweep, ReleaseEncode, Main, Ends
  <1>11. CASE StartSmoke(c)
    <2> DEFINE q == Run("built", Job("smoke", NoKey, Terminal, 0), c)
               r == [q EXCEPT !.send = TRUE]
    <2>1. RunTyped(q) /\ q.pc = "built"
      BY <1>0, StartedTyped DEF Run
    <2>2. Fields(q) /\ r = [q EXCEPT !.send = TRUE]
      BY RunFields
    <2> HIDE DEF q, r
    <2>3. RunTyped(r)
      BY <2>1, <2>2, SendingFields DEF RunTyped
    <2> QED BY <1>11, <2>3, IdleTyped DEF StartSmoke, Main, Ends, Goes, q, r
  <1> QED BY <1>1, <1>2, <1>3, <1>4, <1>5, <1>6, <1>7, <1>8, <1>9, <1>10, <1>11 DEF Start

-----------------------------------------------------------------------------
(* What the parsers of shared.ts find in the accounts. *)

\* parseConfig knows the first ten fields of the account: it finds each of them.
LEMMA ConfigRead ==
    ASSUME TypeOK
    PROVE  parseConfig(ConfigData).fee_recipient = global_config.fee_recipient
  <1> DEFINE rec == [n \in Names(ConfigStruct) |->
                        IF n \in DOMAIN global_config THEN global_config[n] ELSE 0]
  <1>1. IsPrefixOf(ParsedConfig, ConfigStruct)
    BY DEF IsPrefixOf, ParsedConfig, ConfigStruct, Field
  <1>2. parseConfig(ConfigData) = [n \in Names(ParsedConfig) |-> rec[n]]
    <2> HIDE DEF rec
    <2>1. ConfigData = Encode(ConfigStruct, rec)
      BY DEF ConfigData, rec
    <2> QED BY <1>1, <2>1, ParsedConfigFields, ConfigStructFields, PrefixReads DEF parseConfig
  <1>3. "fee_recipient" \in Names(ParsedConfig)
    <2>1. 2 \in DOMAIN ParsedConfig /\ ParsedConfig[2].name = "fee_recipient"
      BY DEF ParsedConfig, Field
    <2> QED BY <2>1 DEF Names
  <1>4. "fee_recipient" \in Names(ConfigStruct)
    <2>1. 2 \in DOMAIN ConfigStruct /\ ConfigStruct[2].name = "fee_recipient"
      BY DEF ConfigStruct, Field
    <2> QED BY <2>1 DEF Names
  <1>5. "fee_recipient" \in DOMAIN global_config
    BY DEF TypeOK, Config
  <1> QED BY <1>2, <1>3, <1>4, <1>5

LEMMA CurveNames ==
    Names(BondingCurveStruct) =
      { "virtual_token_reserves", "virtual_sol_reserves", "real_token_reserves",
        "real_sol_reserves", "token_total_supply", "is_completed" }
  <1> DEFINE s == BondingCurveStruct
  <1>1. /\ DOMAIN s = 1 .. 6
        /\ s[1].name = "virtual_token_reserves" /\ s[2].name = "virtual_sol_reserves"
        /\ s[3].name = "real_token_reserves" /\ s[4].name = "real_sol_reserves"
        /\ s[5].name = "token_total_supply" /\ s[6].name = "is_completed"
    BY DEF BondingCurveStruct, Field
  <1> HIDE DEF s
  <1> QED BY <1>1 DEF Names, s

\* parseBondingCurve finds the whole curve.
LEMMA CurveRead ==
    ASSUME TypeOK, NEW m \in Mints
    PROVE  parseBondingCurve(CurveData(m)) = bonding_curve[m]
  <1> DEFINE curve == bonding_curve[m]
  <1>1. ParsedBondingCurve = BondingCurveStruct
    BY DEF ParsedBondingCurve, BondingCurveStruct
  <1>2. parseBondingCurve(CurveData(m)) = [n \in Names(BondingCurveStruct) |-> curve[n]]
    BY <1>1, CurveFields, RoundTrip DEF parseBondingCurve, CurveData
  <1>3. curve \in BondingCurve
    BY DEF TypeOK
  <1>4. curve = [n \in Names(BondingCurveStruct) |-> curve[n]]
    BY <1>3, CurveNames DEF BondingCurve
  <1> QED BY <1>2, <1>4

-----------------------------------------------------------------------------
(* The types are kept. *)

LEMMA AnswerIsNat ==
    ASSUME TypeOK, NEW job, job.mint \in Mints, job.to \in Wallets, NEW what \in Balances
    PROVE  Answers(what, job) \subseteq Nat
  <1>1. /\ vault[job.mint] \in Nat /\ wallet[job.to] \in Nat
        /\ tokens[job.mint][Pda] \in Nat
    BY DEF TypeOK, Owners
  <1> QED BY <1>1 DEF Answers, Balance, Balances

LEMMA NotedIsReading ==
    ASSUME NEW read, IsReading(read), NEW what \in Balances, NEW answer \in Nat
    PROVE  IsReading(Noted(read, what, answer))
  <1> DEFINE x == Noted(read, what, answer)
  <1>1. DOMAIN x = DOMAIN read \cup {what}
    BY DEF Noted
  <1>2. \A w \in DOMAIN x : x[w] \in Nat
    BY DEF Noted, IsReading
  <1>3. x = [w \in DOMAIN x |-> x[w]]
    BY DEF Noted
  <1> HIDE DEF x
  <1>4. x \in [DOMAIN x -> Nat]
    BY <1>2, <1>3
  <1>5. IsReading(x)
    BY <1>1, <1>4 DEF IsReading
  <1> QED BY <1>5 DEF x

LEMMA DisturbedTyped ==
    ASSUME NEW r, Fields(r), RunTyped(r), r.pc = "idle" => r.job.script # "release_min"
    PROVE  RunTyped(Disturbed(r))
  <1>1. CASE r.job.script # "release_min"
    BY <1>1, DisturbedFields
  <1>2. CASE r.job.script = "release_min"
    <2> DEFINE b == [w \in DOMAIN r.before |-> 0]
               a == [w \in DOMAIN r.after |-> 0]
               q == [r EXCEPT !.quiet = FALSE, !.before = b, !.after = a]
    <2>1. IsReading(b) /\ IsReading(a)
      BY DEF IsReading, RunTyped
    <2>2. q = [r EXCEPT !.quiet = FALSE, !.before = b, !.after = a]
      OBVIOUS
    <2>3. Disturbed(r) = q
      BY <1>2 DEF Disturbed
    <2> HIDE DEF q, a, b
    <2>4. q.pc = r.pc /\ q.job = r.job /\ q.before = b /\ q.after = a
      BY <2>2 DEF Fields
    <2> QED BY <1>2, <2>1, <2>3, <2>4 DEF RunTyped
  <1> QED BY <1>1, <1>2

LEMMA ToolTypedStep ==
    ASSUME IInv, ToolInv, ToolTyped, [ToolNext]_toolVars
    PROVE  ToolTyped'
  <1>0. TypeOK /\ RunOK(run) /\ Fields(run) /\ RunTyped(run)
    BY DEF IInv, ToolInv, RunOK, ToolTyped
  <1>1. CASE \E c \in Commands : Start(c)
    BY <1>1, StartTyped, StartKeeps DEF ToolTyped
  <1>2. CASE ReadConfig
    <2>1. CASE run' = Idle
      BY <1>2, <2>1, IdleTyped DEF ToolTyped, ReadConfig, Stays
    <2>2. CASE run' # Idle
      <3> DEFINE to == parseConfig(ConfigData).fee_recipient
      <3>1. run' = [run EXCEPT !.pc = "mint", !.job.to = to] /\ run.job.script = "buy"
        BY <1>2, <2>2 DEF ReadConfig, Ends, Goes
      <3>2. to \in Keys
        BY <1>0, ConfigRead DEF TypeOK, Config
      <3> HIDE DEF to
      <3>3. /\ run'.pc = "mint" /\ run'.before = run.before /\ run'.after = run.after
            /\ run'.job.script = "buy" /\ run'.job.mint = run.job.mint
            /\ run'.job.amount = run.job.amount /\ run'.job.to = to
        BY <1>0, <3>1 DEF Fields, Job
      <3>4. RunTyped(run')
        BY <1>0, <3>2, <3>3 DEF RunTyped, JobNamed
      <3> QED BY <1>2, <3>4 DEF ToolTyped, ReadConfig, Stays
    <2> QED BY <2>1, <2>2
  <1>3. CASE ReadMint
    <2>1. CASE run' = [run EXCEPT !.pc = "built"]
      <3>1. /\ run'.pc = "built" /\ run'.job = run.job
            /\ run'.before = run.before /\ run'.after = run.after
        BY <1>0, <2>1, MovedFields
      <3>2. RunTyped(run')
        BY <1>0, <3>1 DEF RunTyped
      <3> QED BY <1>3, <3>2 DEF ToolTyped, ReadMint, Stays
    <2> QED BY <1>3, <2>1, IdleTyped DEF ToolTyped, ReadMint, Stays, Ends, Goes
  <1>4. CASE \/ ShowCurve \/ ShowMint \/ DryRunEnds \/ Throw \/ Finish
             \/ \E job \in flight : Refuse(job)
    <2>1. run' = Idle /\ flight' \subseteq flight
      BY <1>4 DEF ShowCurve, ShowMint, DryRunEnds, Throw, Finish, Refuse, Ends, Stays
    <2> QED BY <2>1, IdleTyped DEF ToolTyped
  <1>5. CASE \E what \in Balances : ReadBefore(what)
    <2>1. PICK what \in Balances : ReadBefore(what)
      BY <1>5
    <2> DEFINE pc == IF what = "tokens" THEN "built" ELSE "before"
    <2>2. PICK answer \in Answers(what, run.job) :
              run' = [run EXCEPT !.before = Noted(@, what, answer), !.pc = pc]
      BY <2>1 DEF ReadBefore, Goes
    <2>3. run.job.script = "release_min"
      BY <1>0, <2>1 DEF ReadBefore, RunOK, AtItsPlace
    <2>4. answer \in Nat
      BY <1>0, <2>2, <2>3, AnswerIsNat DEF RunTyped, JobNamed
    <2>5. IsReading(Noted(run.before, what, answer))
      BY <1>0, <2>4, NotedIsReading DEF RunTyped
    <2>6. pc # "idle"
      OBVIOUS
    <2> HIDE DEF pc
    <2>7. /\ run'.pc = pc /\ run'.job = run.job /\ run'.after = run.after
          /\ run'.before = Noted(run.before, what, answer)
      BY <1>0, <2>2 DEF Fields
    <2>8. RunTyped(run')
      BY <1>0, <2>5, <2>6, <2>7 DEF RunTyped
    <2> QED BY <2>1, <2>8 DEF ToolTyped, ReadBefore, Stays
  <1>6. CASE \E what \in Balances : ReadAfter(what)
    <2>1. PICK what \in Balances : ReadAfter(what)
      BY <1>6
    <2>2. PICK answer \in Answers(what, run.job) :
              run' = Idle \/ run' = [run EXCEPT !.after = Noted(run.after, what, answer)]
      BY <2>1 DEF ReadAfter, Goes, Ends
    <2>3. run.job.script = "release_min" /\ run.pc # "idle"
      BY <2>1 DEF ReadAfter, OnceConfirmed
    <2>4. answer \in Nat
      BY <1>0, <2>2, <2>3, AnswerIsNat DEF RunTyped, JobNamed
    <2> DEFINE x == Noted(run.after, what, answer)
    <2>5. IsReading(x)
      BY <1>0, <2>4, NotedIsReading DEF RunTyped
    <2>6. ASSUME run' = [run EXCEPT !.after = x]
          PROVE  RunTyped(run')
      <3> HIDE DEF x
      <3>1. /\ run'.pc = run.pc /\ run'.job = run.job /\ run'.before = run.before
            /\ run'.after = x
        BY <1>0, <2>6, AfterFields
      <3> QED BY <1>0, <2>3, <2>5, <3>1 DEF RunTyped
    <2>7. RunTyped(run')
      BY <2>2, <2>6, IdleTyped
    <2> QED BY <2>1, <2>7 DEF ToolTyped, ReadAfter, Stays
  <1>7. CASE Submit
    <2>1. /\ run'.pc = "sent" /\ run'.job = run.job
          /\ run'.before = run.before /\ run'.after = run.after
      BY <1>0, <1>7, SentFields DEF Submit, Goes
    <2>2. RunTyped(run')
      BY <1>0, <2>1 DEF RunTyped
    <2>3. run.job \in JobType
      <3>1. run.job.script \in DOMAIN Instruction
        BY <1>0, <1>7 DEF Submit, RunOK, AtItsPlace
      <3> QED BY <1>0, <3>1 DEF Fields, Job, JobType, RunTyped, JobNamed
    <2> QED BY <1>7, <2>2, <2>3 DEF Submit, ToolTyped
  <1>8. CASE \E job \in flight : Land(job)
    <2>1. flight' = {}
      BY <1>8 DEF Land
    <2>2. CASE run.pc = "sent"
      <3>1. run' = [run EXCEPT !.pc = "confirmed"]
        BY <1>8, <2>2 DEF Land
      <3>2. /\ run'.pc = "confirmed" /\ run'.job = run.job
            /\ run'.before = run.before /\ run'.after = run.after
        BY <1>0, <3>1, MovedFields
      <3>3. RunTyped(run')
        BY <1>0, <3>2 DEF RunTyped
      <3> QED BY <2>1, <3>3 DEF ToolTyped
    <2>3. CASE run.pc # "sent"
      <3>1. run' = Disturbed(run)
        BY <1>8, <2>3 DEF Land
      <3>2. RunTyped(run')
        BY <1>0, <3>1, DisturbedTyped, IdleFields DEF RunTyped
      <3> QED BY <2>1, <3>2 DEF ToolTyped
    <2> QED BY <2>2, <2>3
  <1>9. CASE \E job \in flight : Lose(job)
    BY <1>9 DEF Lose, ToolTyped
  <1>10. CASE Others
    <2>1. run' = Disturbed(run) /\ flight' = flight
      BY <1>10 DEF Others
    <2>2. RunTyped(run')
      BY <1>0, <2>1, DisturbedTyped, IdleFields DEF RunTyped
    <2> QED BY <2>1, <2>2 DEF ToolTyped
  <1>11. CASE UNCHANGED toolVars
    BY <1>11 DEF toolVars, ToolTyped
  <1> QED BY <1>1, <1>2, <1>3, <1>4, <1>5, <1>6, <1>7, <1>8, <1>9, <1>10, <1>11 DEF ToolNext

LEMMA ToolTypedInvariant == ToolSpec => [](IInv /\ ToolInv /\ ToolTyped)
  <1>1. ToolInit => IInv /\ ToolInv /\ ToolTyped
    BY InitIInv, IdleOK, IdleTyped DEF ToolInit, ToolInv, Flying, ToolTyped
  <1>2. IInv /\ ToolInv /\ ToolTyped /\ [ToolNext]_toolVars => (IInv /\ ToolInv /\ ToolTyped)'
    BY NextIInv, ToolStepIsPumpStep, ToolStep, ToolTypedStep
  <1> QED BY <1>1, <1>2, PTL DEF ToolSpec

\* The terminal's state has its types whatever is typed and whatever lands: an idle
\* terminal remembers nothing of the script before, and at most one transaction is in
\* flight, the running script's own while it waits.
THEOREM ToolTypeCorrect == ToolSpec => []ToolTypeOK
  <1>1. IInv /\ ToolInv /\ ToolTyped => ToolTypeOK
    BY DEF ToolInv, RunOK, AtItsPlace, Flying, ToolTyped, RunTyped, ToolTypeOK
  <1> QED BY <1>1, ToolTypedInvariant, PTL


-----------------------------------------------------------------------------
(* What the program finds in what the scripts send. *)

LEMMA InstructionOf ==
    /\ Instruction["launch"] = "launch" /\ Instruction["buy"] = "swap"
    /\ Instruction["release"] = "release_reserves"
    /\ Instruction["release_min"] = "release_reserves"
  BY DEF Instruction

\* The arguments of launch, buy and the releases are written by the layout the
\* program reads them by.
LEMMA ArgumentsDecode ==
    ASSUME NEW job, job.script \in {"launch", "buy", "release", "release_min"}
    PROVE  /\ Decodes(ProgramArgs[Instruction[job.script]], Data(job))
           /\ job.script = "buy" =>
                Read(SwapArgs, Data(job)) =
                   [amount |-> job.amount, direction |-> 0, min_out |-> 0]
  <1>1. CASE job.script = "launch"
    <2>1. /\ ProgramArgs[Instruction[job.script]] = LaunchArgs
          /\ Data(job) = Encode(LaunchArgs, [name |-> 0, symbol |-> 0, uri |-> 0])
      BY <1>1, InstructionOf DEF ProgramArgs, Data, IdlLaunchArgs, LaunchArgs
    <2> QED BY <1>1, <2>1, LaunchFields, RoundTrip
  <1>2. CASE job.script = "buy"
    <2> DEFINE rec == [amount |-> job.amount, direction |-> 0, min_out |-> 0]
    <2>1. ProgramArgs[Instruction[job.script]] = SwapArgs /\ Data(job) = Encode(SwapArgs, rec)
      BY <1>2, InstructionOf DEF ProgramArgs, Data, IdlSwapArgs, SwapArgs
    <2>2. Names(SwapArgs) = {"amount", "direction", "min_out"}
      <3>1. /\ DOMAIN SwapArgs = 1 .. 3 /\ SwapArgs[1].name = "amount"
            /\ SwapArgs[2].name = "direction" /\ SwapArgs[3].name = "min_out"
        BY DEF SwapArgs, Field
      <3> QED BY <3>1 DEF Names
    <2>3. rec = [n \in Names(SwapArgs) |-> rec[n]]
      BY <2>2
    <2>4. /\ Read(SwapArgs, Encode(SwapArgs, rec)) = [n \in Names(SwapArgs) |-> rec[n]]
          /\ Decodes(SwapArgs, Encode(SwapArgs, rec))
      <3> HIDE DEF rec
      <3> QED BY SwapFields, RoundTrip
    <2> QED BY <2>1, <2>3, <2>4
  <1>3. CASE job.script \in {"release", "release_min"}
    <2>1. /\ ProgramArgs[Instruction[job.script]] = ReleaseReservesArgs
          /\ Data(job) = Encode(ReleaseReservesArgs, <<>>)
      BY <1>3, InstructionOf DEF ProgramArgs, Data, IdlReleaseReservesArgs, ReleaseReservesArgs
    <2> QED BY <1>3, <2>1, ReleaseFields, RoundTrip
  <1> QED BY <1>1, <1>2, <1>3

\* The program takes every account for what the script meant by it.
LEMMA AccountsAsBuilt ==
    ASSUME NEW job, NEW accounts, NEW i \in DOMAIN accounts,
           ProgramAccounts[Instruction[job.script]] = accounts,
           IdlAccounts[Instruction[job.script]] = accounts
    PROVE  Accounts(job)[accounts[i].name] = Values(job)[accounts[i].name]
  BY NamesByPosition DEF Accounts, Metas, getInstructionIdl

LEMMA LaunchAsMeant ==
    ASSUME NEW job, job.script = "launch"
    PROVE  AgreesWithIdl(Values(job)) /\ Accounts(job).token_mint = job.mint
  <1>1. Values(job) = LaunchValues(job.mint)
    BY DEF Values
  <1>2. /\ ProgramAccounts[Instruction[job.script]] = LaunchAccounts
        /\ IdlAccounts[Instruction[job.script]] = LaunchAccounts
    BY InstructionOf, SameLists DEF ProgramAccounts, IdlAccounts
  <1>3. 3 \in DOMAIN LaunchAccounts /\ LaunchAccounts[3].name = "token_mint"
    BY DEF LaunchAccounts, Account
  <1>4. Accounts(job).token_mint = job.mint
    BY <1>1, <1>2, <1>3, AccountsAsBuilt DEF LaunchValues
  <1>5. AgreesWithIdl(Values(job))
    BY <1>1 DEF AgreesWithIdl, LaunchValues, IdlGlobalConfig, IdlCurve, IdlCurveTokenAccount,
                globalConfigPda, curveAta, AssociatedTokenAddress
  <1> QED BY <1>4, <1>5

LEMMA BuyAsMeant ==
    ASSUME NEW job, job.script = "buy"
    PROVE  /\ AgreesWithIdl(Values(job)) /\ Accounts(job).token_mint = job.mint
           /\ Accounts(job).fee_recipient = job.to /\ Accounts(job).user = Terminal
  <1>1. Values(job) = BuyValues(job.mint, job.to)
    BY DEF Values
  <1>2. /\ ProgramAccounts[Instruction[job.script]] = SwapAccounts
        /\ IdlAccounts[Instruction[job.script]] = SwapAccounts
    BY InstructionOf, SameLists DEF ProgramAccounts, IdlAccounts
  <1>3. /\ {1, 3, 5} \subseteq DOMAIN SwapAccounts /\ SwapAccounts[1].name = "user"
        /\ SwapAccounts[3].name = "fee_recipient" /\ SwapAccounts[5].name = "token_mint"
    BY DEF SwapAccounts, Account
  <1>4. /\ Accounts(job).token_mint = Values(job).token_mint
        /\ Accounts(job).fee_recipient = Values(job).fee_recipient
        /\ Accounts(job).user = Values(job).user
    BY <1>2, <1>3, AccountsAsBuilt
  <1>5. AgreesWithIdl(Values(job))
    BY <1>1 DEF AgreesWithIdl, BuyValues, IdlGlobalConfig, IdlCurve, IdlCurveTokenAccount,
                IdlUserTokenAccount, globalConfigPda, bondingCurvePda, curveAta, ownerAta,
                AssociatedTokenAddress
  <1> QED BY <1>1, <1>4, <1>5 DEF BuyValues

LEMMA ReleaseAsMeant ==
    ASSUME NEW job, job.script \in {"release", "release_min"}
    PROVE  /\ AgreesWithIdl(Values(job)) /\ Accounts(job).token_mint = job.mint
           /\ Accounts(job).recipient = job.to /\ Accounts(job).admin = Terminal
  <1>1. Values(job) = ReleaseValues(job.mint, job.to)
    BY DEF Values, ReleaseMinValues, ReleaseValues, bondingCurvePda, globalConfigPda,
           curveAta, ownerAta
  <1> DEFINE accounts == ReleaseReservesAccounts
  <1>2. /\ ProgramAccounts[Instruction[job.script]] = accounts
        /\ IdlAccounts[Instruction[job.script]] = accounts
    BY InstructionOf, SameLists DEF ProgramAccounts, IdlAccounts
  <1>3. /\ {1, 3, 6} \subseteq DOMAIN accounts /\ accounts[1].name = "admin"
        /\ accounts[3].name = "token_mint" /\ accounts[6].name = "recipient"
    BY DEF ReleaseReservesAccounts, Account
  <1> HIDE DEF accounts
  <1>4. /\ Accounts(job).token_mint = Values(job).token_mint
        /\ Accounts(job).recipient = Values(job).recipient
        /\ Accounts(job).admin = Values(job).admin
    BY <1>2, <1>3, AccountsAsBuilt
  <1>5. AgreesWithIdl(Values(job))
    BY <1>1 DEF AgreesWithIdl, ReleaseValues, IdlGlobalConfig, IdlCurve, IdlCurveTokenAccount,
                IdlRecipientTokenAccount, globalConfigPda, bondingCurvePda, curveAta, ownerAta,
                AssociatedTokenAddress
  <1> QED BY <1>1, <1>4, <1>5 DEF ReleaseValues

\* Whatever mint, recipient or amount a job carries, the program decodes what was
\* encoded, admits the accounts, finds them where the IDL derives them, and takes
\* every one of them, and every argument, for what the script meant by it.
THEOREM JobsEnterAsMeant == ToolSpec => []EntersAsMeant
  <1>1. EntersAsMeant
    <2> SUFFICES ASSUME NEW job \in flight, job.script \in Executed
                 PROVE  LET a == Accounts(job)
                        IN  /\ Enters(job) /\ AgreesWithIdl(Values(job))
                            /\ a.token_mint = job.mint
                            /\ job.script = "buy" =>
                                  /\ a.fee_recipient = job.to /\ a.user = Terminal
                                  /\ Read(SwapArgs, Data(job)) =
                                        [amount |-> job.amount, direction |-> 0, min_out |-> 0]
                            /\ job.script \in {"release", "release_min"} =>
                                  a.recipient = job.to /\ a.admin = Terminal
      BY DEF EntersAsMeant
    <2>1. job.script \in {"launch", "buy", "release", "release_min"}
      BY DEF Executed
    <2>2. Admits(Instruction[job.script], Metas(job))
      BY <2>1, InstructionOf, LaunchIsAdmitted, BuyIsAdmitted, ReleaseIsAdmitted
    <2>3. Enters(job)
      BY <2>1, <2>2, ArgumentsDecode DEF Enters
    <2> QED BY <2>1, <2>3, ArgumentsDecode, LaunchAsMeant, BuyAsMeant, ReleaseAsMeant
  <1> QED BY <1>1, PTL

-----------------------------------------------------------------------------
(* What the scripts find in what they read. *)

\* No step but curve-state.ts prints a curve, none but mint-info.ts a balance.
LEMMA WhoPrints ==
    ASSUME ToolNext
    PROVE  /\ printed'.kind = "curve" => ShowCurve
           /\ printed'.kind = "mint" => ShowMint
  <1> DEFINE Other == printed'.kind \notin {"curve", "mint"}
  <1>0. /\ Nothing.kind \notin {"curve", "mint"} /\ Usage.kind \notin {"curve", "mint"}
        /\ Thrown.kind \notin {"curve", "mint"} /\ DryRun.kind \notin {"curve", "mint"}
        /\ Signature.kind \notin {"curve", "mint"}
        /\ \A code : ProgramError(code).kind \notin {"curve", "mint"}
    BY DEF Nothing, Usage, Thrown, DryRun, Signature, ProgramError
  <1>1. ASSUME NEW c, Start(c) PROVE Other
    <2>1. ReleaseEncode(c) => Other
      BY <1>0 DEF ReleaseEncode, Ends
    <2>2. ASSUME NEW script, NEW help, NEW valid, NEW r, Main(c, script, help, valid, r)
          PROVE  Other
      BY <1>0, <2>2 DEF Main, Ends, Goes
    <2> HIDE DEF Other
    <2> QED BY <1>1, <2>1, <2>2 DEF Start, StartConfigure, StartSmoke, StartLaunch,
              StartBuy, StartSell, StartRelease, StartMigrate, StartCurveState, StartMintInfo,
              StartReleaseMin, StartSweep
  <1>2. ReadConfig \/ ReadMint => Other
    BY <1>0 DEF ReadConfig, ReadMint, Ends, Goes
  <1>3. ASSUME NEW what, ReadBefore(what) PROVE Other
    BY <1>0, <1>3 DEF ReadBefore, Goes
  <1>4. ASSUME NEW what, ReadAfter(what) PROVE Other
    <2>1. PICK after : \/ printed' = Nothing
                       \/ printed' = [ kind |-> "report", job |-> run.job,
                                       before |-> run.before, after |-> after,
                                       quiet |-> run.quiet ]
      BY <1>4 DEF ReadAfter, Ends, Goes
    <2> QED BY <1>0, <2>1
  <1>5. DryRunEnds \/ Submit \/ Throw \/ Finish \/ Others => Other
    BY <1>0 DEF DryRunEnds, Submit, Throw, Finish, Others, Ends, Goes
  <1>6. ASSUME NEW job, Land(job) \/ Refuse(job) \/ Lose(job) PROVE Other
    BY <1>0, <1>6 DEF Land, Refuse, Lose, Ends
  <1>7. ShowCurve => printed'.kind # "mint"
    BY <1>0 DEF ShowCurve, Ends
  <1>8. ShowMint => printed'.kind # "curve"
    <2>1. ASSUME ShowMint
          PROVE  \E balance : \/ printed' = Thrown
                              \/ printed' = [kind |-> "mint", mint |-> run.job.mint,
                                             balance |-> balance]
      BY <2>1 DEF ShowMint, Ends
    <2> QED BY <1>0, <2>1
  <1>9. Other \/ ShowCurve \/ ShowMint
    <2> HIDE DEF Other
    <2> QED BY <1>1, <1>2, <1>3, <1>4, <1>5, <1>6 DEF ToolNext
  <1> QED BY <1>7, <1>8, <1>9

LEMMA CurvesShownTrue ==
    ASSUME TypeOK, ShowCurve, printed'.kind = "curve"
    PROVE  printed'.shown = bonding_curve[printed'.mint]
  <1>1. /\ run.job.mint \in launched
        /\ printed' = [ kind |-> "curve", mint |-> run.job.mint,
                        shown |-> parseBondingCurve(CurveData(run.job.mint)) ]
    BY DEF ShowCurve, Ends, Thrown
  <1>2. run.job.mint \in Mints
    BY <1>1 DEF TypeOK
  <1> QED BY <1>1, <1>2, CurveRead

LEMMA BalancesShownTrue ==
    ASSUME TypeOK, ShowMint, printed'.kind = "mint", printed'.balance # -1
    PROVE  /\ Terminal \in atas[printed'.mint]
           /\ printed'.balance = tokens[printed'.mint][Terminal]
  <1> DEFINE m == run.job.mint
  <1>1. PICK balance \in {tokens[m][w] : w \in atas[m] \cap {Terminal}} \cup {-1} :
            printed' = [kind |-> "mint", mint |-> m, balance |-> balance]
    BY DEF ShowMint, Ends, Thrown
  <1> QED BY <1>1

\* From "config", the only way to "mint" is the read of the config account.
LEMMA OnlyReadConfigLeads ==
    ASSUME ToolInv, ToolNext, run.pc = "config", run'.pc = "mint"
    PROVE  ReadConfig
  <1>1. ASSUME NEW c, Start(c) PROVE FALSE
    <2>1. run = Idle
      BY <1>1 DEF Start, StartConfigure, StartSmoke, StartLaunch, StartBuy, StartSell,
              StartRelease,
              StartMigrate, StartCurveState, StartMintInfo, StartReleaseMin, StartSweep,
              ReleaseEncode, Main
    <2> QED BY <2>1, IdleFields
  <1>2. ~ReadMint /\ ~ShowCurve /\ ~ShowMint
    BY DEF ReadMint, ShowCurve, ShowMint
  <1>3. ASSUME NEW what PROVE ~ReadBefore(what) /\ ~ReadAfter(what)
    BY DEF ReadBefore, ReadAfter, OnceConfirmed
  <1>4. ~DryRunEnds /\ ~Submit /\ ~Finish /\ ~Throw
    BY IdleFields DEF DryRunEnds, Submit, Finish, Throw, Ends
  <1>5. run' # Disturbed(run)
    BY DisturbedOK DEF ToolInv
  <1>6. ~Others
    BY <1>5 DEF Others
  <1>7. ASSUME NEW job PROVE ~Land(job) /\ ~Refuse(job) /\ ~Lose(job)
    BY <1>5 DEF Land, Refuse, Lose
  <1> QED BY <1>1, <1>2, <1>3, <1>4, <1>6, <1>7 DEF ToolNext

\* buy.ts pays the fee recipient that is in force when it asks, curve-state.ts shows
\* the curve as it is, field by field, and mint-info.ts a balance that is there.
THEOREM ReadsAreTrue == ToolSpec => ReadsAreFaithful
  <1> DEFINE P == /\ run.pc = "config" /\ run'.pc = "mint" =>
                        run'.job.to = global_config.fee_recipient
                  /\ printed'.kind = "curve" => printed'.shown = bonding_curve[printed'.mint]
                  /\ printed'.kind = "mint" /\ printed'.balance # -1 =>
                        /\ Terminal \in atas[printed'.mint]
                        /\ printed'.balance = tokens[printed'.mint][Terminal]
  <1>1. ASSUME IInv, ToolInv, ToolNext
        PROVE  P
    <2>0. TypeOK
      BY <1>1 DEF IInv
    <2>1. ASSUME run.pc = "config", run'.pc = "mint"
          PROVE  run'.job.to = global_config.fee_recipient
      <3> DEFINE to == parseConfig(ConfigData).fee_recipient
      <3>1. ReadConfig
        BY <1>1, <2>1, OnlyReadConfigLeads
      <3>2. run' = [run EXCEPT !.pc = "mint", !.job.to = to]
        BY <2>1, <3>1, IdleFields DEF ReadConfig, Ends, Goes
      <3> HIDE DEF to
      <3>3. run'.job.to = to
        BY <1>1, <3>2 DEF ToolInv, RunOK, Fields, Job
      <3> QED BY <2>0, <3>3, ConfigRead DEF to
    <2> QED BY <1>1, <2>0, <2>1, WhoPrints, CurvesShownTrue, BalancesShownTrue
  <1>2. IInv /\ ToolInv /\ [ToolNext]_toolVars => [P]_toolVars
    <2> HIDE DEF P
    <2> QED BY <1>1
  <1> QED BY <1>2, ToolTypedInvariant, PTL DEF ToolSpec, ReadsAreFaithful

===============================================================================
