---------------------------- MODULE PumpClientProofs ----------------------------
(***************************************************************************)
(* Proofs about PumpClient.  Whatever the scripts do is a behaviour of     *)
(* Pump, so that every theorem of PumpProofs holds of the composition; the *)
(* rest is what stale reads and late landings could have broken.           *)
(***************************************************************************)
EXTENDS PumpClient, PumpProofs

-----------------------------------------------------------------------------
LEMMA InitClientType == ClientInit => ClientTypeOK
  BY DEF ClientInit, ClientTypeOK

LEMMA StartType ==
    ASSUME ClientTypeOK, NEW job \in Job, Start(job)
    PROVE  ClientTypeOK'
  <1>1. [job |-> job, pc |-> "built"] \in Run
    BY DEF Run
  <1>2. /\ runs' = runs \cup {[job |-> job, pc |-> "built"]}
        /\ mempool' = mempool
        /\ \A r \in runs : r.job.client # job.client
    BY DEF Start, Idle
  <1> QED BY <1>1, <1>2 DEF ClientTypeOK

LEMMA SendType ==
    ASSUME ClientTypeOK, NEW r \in runs, Send(r)
    PROVE  ClientTypeOK'
  <1> DEFINE s == [r EXCEPT !.pc = "sent"]
  <1>1. r \in Run
    BY DEF ClientTypeOK
  <1>2. s \in Run /\ s.job = r.job
    BY <1>1 DEF Run
  <1>3. PICK n \in 1 .. MaxInFlight : mempool' = mempool \cup {[job |-> r.job, n |-> n]}
    BY DEF Send
  <1>4. [job |-> r.job, n |-> n] \in Transaction
    BY <1>1 DEF Run, Transaction
  <1>5. runs' = (runs \ {r}) \cup {s}
    BY DEF Send
  <1> HIDE DEF s
  <1> QED BY <1>2, <1>3, <1>4, <1>5 DEF ClientTypeOK

LEMMA ReadConfigJob ==
    ASSUME TypeOK, NEW u \in Buyers, NEW m \in Mints, NEW a \in Spends
    PROVE  [ script |-> "buy", client |-> u, mint |-> m, amount |-> a,
             to |-> ReadFeeRecipient ] \in Job
  BY ClientAssumption DEF Job, TypeOK, Config, ReadFeeRecipient

LEMMA ReadCurveJob ==
    ASSUME NEW m \in Mints, NEW recipient \in Recipients
    PROVE  [ script |-> "release", client |-> Operator, mint |-> m, amount |-> 0,
             to |-> recipient ] \in Job
  BY ClientAssumption DEF Job, Keys

\* Types, and what every step does to the program below.
LEMMA ClientStep ==
    ASSUME TypeOK, ClientTypeOK, [ClientNext]_clientVars
    PROVE  ClientTypeOK' /\ [Next]_vars
  <1>1. CASE \E u \in Buyers, m \in Mints, a \in Spends : ReadConfig(u, m, a)
    BY <1>1, ReadConfigJob, StartType DEF ReadConfig, Start
  <1>2. CASE \E m \in Mints, recipient \in Recipients : ReadCurve(m, recipient)
    BY <1>2, ReadCurveJob, StartType DEF ReadCurve, Start
  <1>3. CASE \E r \in runs : Send(r)
    BY <1>3, SendType DEF Send
  <1>4. CASE \E r \in runs : Exit(r)
    BY <1>4 DEF Exit, ClientTypeOK
  <1>5. CASE \E t \in mempool : Land(t)
    <2>1. PICK t \in mempool : Land(t)
      BY <1>5
    <2>2. t.job \in Job
      BY DEF ClientTypeOK, Transaction
    <2>3. t.job.client \in Wallets /\ t.job.mint \in Mints /\ t.job.amount \in Amounts
      BY <2>2 DEF Job
    <2>4. CASE /\ t.job.to \in Wallets
               /\ Swap(t.job.client, t.job.mint, t.job.to, t.job.amount, 0, 0)
      <3>1. 0 \in Amounts /\ 0 \in Directions
        BY ClientAssumption DEF Directions
      <3>2. Next
        BY <2>3, <2>4, <3>1 DEF Next
      <3> QED BY <2>1, <3>2 DEF Land, ClientTypeOK
    <2>5. CASE ReleaseReserves(t.job.client, t.job.mint, t.job.to)
                 /\ t.job.to \in Wallets
      <3>1. Next
        BY <2>3, <2>5 DEF Next
      <3> QED BY <2>1, <3>1 DEF Land, ClientTypeOK
    <2> QED BY <2>1, <2>4, <2>5 DEF Land, Execute
  <1>6. CASE \E t \in mempool : Drop(t)
    BY <1>6 DEF Drop, ClientTypeOK
  <1>7. CASE Others
    BY <1>7 DEF Others, ClientTypeOK
  <1>8. CASE UNCHANGED clientVars
    BY <1>8 DEF clientVars, ClientTypeOK
  <1> QED BY <1>1, <1>2, <1>3, <1>4, <1>5, <1>6, <1>7, <1>8 DEF ClientNext

\* The scripts are clients like any other: whatever they read, however late
\* their transactions land, the program below behaves as specified, and all
\* that is proved of it holds of the composition.
THEOREM ScriptsAreClients == ClientSpec => Spec
  <1>1. ClientInit => Init /\ TypeOK /\ ClientTypeOK
    BY InitType, InitClientType DEF ClientInit
  <1>2. TypeOK /\ ClientTypeOK /\ [ClientNext]_clientVars
          => TypeOK' /\ ClientTypeOK' /\ [Next]_vars
    BY ClientStep, NextType
  <1> QED BY <1>1, <1>2, PTL DEF ClientSpec, Spec

\* No wallet runs two scripts, and every transaction is one a script can build.
THEOREM ClientTypeCorrect == ClientSpec => []ClientTypeOK
  <1>1. ClientInit => TypeOK /\ ClientTypeOK
    BY InitType, InitClientType DEF ClientInit
  <1>2. TypeOK /\ ClientTypeOK /\ [ClientNext]_clientVars => TypeOK' /\ ClientTypeOK'
    BY ClientStep, NextType
  <1> QED BY <1>1, <1>2, PTL DEF ClientSpec

-----------------------------------------------------------------------------
\* A stale fee recipient is refused when the transaction lands.
THEOREM StaleBuysNeverPay == ClientSpec => StaleBuyNeverPays
  <1> DEFINE P == \A t \in mempool \ mempool' :
                    t.job.script = "buy" /\ wallet' # wallet =>
                        t.job.to = global_config.fee_recipient
  <1>1. [ClientNext]_clientVars => [P]_clientVars
    <2> SUFFICES ASSUME ClientNext, NEW t \in mempool \ mempool',
                        t.job.script = "buy", wallet' # wallet
                 PROVE  t.job.to = global_config.fee_recipient
      OBVIOUS
    <2>1. PICK s \in mempool : Land(s)
      BY DEF ClientNext, ReadConfig, ReadCurve, Start, Send, Exit, Drop, Others, vars
    <2>2. s = t
      BY <2>1 DEF Land
    <2>3. Swap(t.job.client, t.job.mint, t.job.to, t.job.amount, 0, 0)
      BY <2>1, <2>2 DEF Land, Execute
    <2> QED BY <2>3 DEF Swap, SwapGuards, FeeRecipientInForce
  <1> QED BY <1>1, PTL DEF ClientSpec, StaleBuyNeverPays

-----------------------------------------------------------------------------
\* A launched, completed curve is still both after any step of the program.
LEMMA CompletionStep ==
    ASSUME TypeOK, [Next]_vars, NEW m \in Mints,
           m \in launched, bonding_curve[m].is_completed
    PROVE  m \in launched' /\ bonding_curve'[m].is_completed
  <1>1. Unaffected(m) \/ Affected(m)
    BY StepEffect DEF OneCurve
  <1> QED BY <1>1 DEF Affected, Unaffected, Received, Opened, Bought, Sold,
                      Trading, Released, SameCurve

\* What makes ReleaseIsNeverEarly inductive: the curve was launched, and it
\* stays so.
Ready(job) == job.mint \in launched /\ bonding_curve[job.mint].is_completed

OnlyReady == \A x \in runs \cup mempool : x.job.script = "release" => Ready(x.job)

LEMMA NextOnlyReady ==
    ASSUME TypeOK, ClientTypeOK, OnlyReady, [ClientNext]_clientVars
    PROVE  OnlyReady'
  <1> SUFFICES ASSUME NEW x \in (runs \cup mempool)', x.job.script = "release"
               PROVE  Ready(x.job)'
    BY DEF OnlyReady
  <1>1. [Next]_vars
    BY ClientStep
  <1>2. ASSUME NEW y \in runs \cup mempool, y.job = x.job PROVE Ready(x.job)'
    <2>1. x.job.mint \in Mints /\ Ready(x.job)
      BY <1>2 DEF OnlyReady, ClientTypeOK, Run, Transaction, Job
    <2> QED BY <2>1, <1>1, CompletionStep DEF Ready
  <1>3. CASE \E u \in Buyers, m \in Mints, a \in Spends : ReadConfig(u, m, a)
    <2>1. x \in runs \cup mempool
      BY <1>3 DEF ReadConfig, Start
    <2> QED BY <2>1, <1>2
  <1>4. CASE \E m \in Mints, recipient \in Recipients : ReadCurve(m, recipient)
    <2>1. PICK m \in Mints, recipient \in Recipients : ReadCurve(m, recipient)
      BY <1>4
    <2>2. CASE x \in runs \cup mempool
      BY <2>2, <1>2
    <2>3. CASE x \notin runs \cup mempool
      <3>1. x.job.mint = m
        BY <2>1, <2>3 DEF ReadCurve, Start
      <3> QED BY <3>1, <2>1 DEF ReadCurve, ShowsCompleted, Start, vars, Ready
    <2> QED BY <2>2, <2>3
  <1>5. CASE \E r \in runs : Send(r)
    <2>1. PICK r \in runs : Send(r)
      BY <1>5
    <2>2. r \in Run
      BY DEF ClientTypeOK
    <2>3. \E y \in runs \cup mempool : y.job = x.job
      BY <2>1, <2>2 DEF Send, Run
    <2> QED BY <2>3, <1>2
  <1>6. CASE \/ \E r \in runs : Exit(r)
             \/ \E t \in mempool : Land(t) \/ Drop(t)
             \/ Others
             \/ UNCHANGED clientVars
    <2>1. x \in runs \cup mempool
      BY <1>6 DEF Exit, Land, Drop, Others, clientVars
    <2> QED BY <2>1, <1>2
  <1> QED BY <1>3, <1>4, <1>5, <1>6 DEF ClientNext

\* The answer of curve-state.ts cannot go stale: completion is final.
THEOREM NoReleaseIsEarly == ClientSpec => []ReleaseIsNeverEarly
  <1> DEFINE Inv == TypeOK /\ ClientTypeOK /\ OnlyReady
  <1>1. ClientInit => Inv
    BY InitType, InitClientType DEF ClientInit, OnlyReady
  <1>2. Inv /\ [ClientNext]_clientVars => Inv'
    BY ClientStep, NextType, NextOnlyReady
  <1>3. Inv => ReleaseIsNeverEarly
    BY DEF OnlyReady, Ready, ReleaseIsNeverEarly
  <1> QED BY <1>1, <1>2, <1>3, PTL DEF ClientSpec
=============================================================================
