------------------------------- MODULE PumpClient -------------------------------
(***************************************************************************)
(* The operator's command-line scripts (scripts/*.ts) as clients of the    *)
(* program: buy.ts, and curve-state.ts followed by release.ts.             *)
(*                                                                         *)
(* A script reads an account, builds a transaction from what it read, sends *)
(* it and waits.  In between, everybody else goes on: what was read may be *)
(* stale when the transaction lands, the transaction may be lost, and the  *)
(* script may give up (a confirmation timeout, a killed process) while its *)
(* transaction can still land, beside the one a second run sends.          *)
(*                                                                         *)
(* Modelled with --send: without it a script only prints.                  *)
(***************************************************************************)
EXTENDS Pump

CONSTANTS
    Buyers,      \* the wallets buy.ts is run with
    Spends,      \* what buy.ts may be told to spend
    Operator,    \* the wallet curve-state.ts and release.ts are run with
    Recipients,  \* the wallets release.ts may be told to pay
    MaxInFlight  \* bound: transactions of one wallet that may still land

ASSUME ClientAssumption ==
    /\ Buyers \subseteq Wallets /\ Operator \in Wallets \ Buyers
    /\ Recipients \subseteq Wallets
    /\ MaxInFlight \in Nat
    /\ Spends \subseteq Amounts /\ 0 \in Amounts

VARIABLES
    runs,    \* the scripts that are running: at most one per wallet, a bound
    mempool  \* the transactions sent that may still land

clientVars == <<vars, runs, mempool>>

\* What a run is about.  `to` is the account a buy names as fee recipient, or
\* the one a release names as recipient.
Job == [ script : {"buy", "release"}, client : Wallets, mint : Mints,
         amount : Amounts, to : Keys ]

Run == [ job : Job, pc : {"built", "sent"} ]

\* Two runs with the same job send two transactions: they differ in their
\* recent blockhash, here n.
Transaction == [ job : Job, n : 1 .. MaxInFlight ]

ClientInit == Init /\ runs = {} /\ mempool = {}

Idle(w) == \A r \in runs : r.job.client # w

Start(job) ==
    /\ Idle(job.client)
    /\ runs' = runs \cup {[job |-> job, pc |-> "built"]}
    /\ UNCHANGED <<vars, mempool>>

-----------------------------------------------------------------------------
\* Variant: parseConfig reads past the key.
MisreadFeeRecipient == global_config.curve_limit

\* parseConfig: the field of the config account that follows the authority.
ReadFeeRecipient == global_config.fee_recipient

\* buy.ts: the config account must exist, its fee recipient goes into the swap.
ReadConfig(u, m, amount) ==
    /\ initialized
    /\ Start([ script |-> "buy", client |-> u, mint |-> m, amount |-> amount,
               to |-> ReadFeeRecipient ])

\* Variant: curve-state.ts prints the flag of the global config.
ShowsProgramCompleted(m) == global_config.is_completed

\* curve-state.ts: the curve account must exist; isCompleted is its own flag.
ShowsCompleted(m) == bonding_curve[m].is_completed

\* The operator sees a completed curve and runs release.ts on it.
ReadCurve(m, recipient) ==
    /\ m \in launched
    /\ ShowsCompleted(m)
    /\ Start([ script |-> "release", client |-> Operator, mint |-> m, amount |-> 0,
               to |-> recipient ])

\* builder.rpc(); buy.ts reads the mint's decimals first, which must exist.
Send(r) ==
    /\ r \in runs /\ r.pc = "built"
    /\ r.job.script = "buy" => r.job.mint \in launched
    /\ \E n \in 1 .. MaxInFlight :
          /\ \A t \in mempool : t.n = n => t.job.client # r.job.client
          /\ mempool' = mempool \cup {[job |-> r.job, n |-> n]}
    /\ runs' = (runs \ {r}) \cup {[r EXCEPT !.pc = "sent"]}
    /\ UNCHANGED vars

\* The script ends: it printed a signature, or an error, or was killed.  What
\* it printed changes nothing, and its transaction may still be under way.
Exit(r) ==
    /\ r \in runs
    /\ runs' = runs \ {r}
    /\ UNCHANGED <<vars, mempool>>

-----------------------------------------------------------------------------
\* The instruction a transaction carries: a buy at any price, or a release.  The
\* account it names must be writable, which Pubkey::default() never is.
Execute(job) ==
    /\ job.to \in Wallets
    /\ \/ /\ job.script = "buy"
          /\ Swap(job.client, job.mint, job.to, job.amount, 0, 0)
       \/ /\ job.script = "release"
          /\ ReleaseReserves(job.client, job.mint, job.to)

Land(t) ==
    /\ t \in mempool
    /\ Execute(t.job)
    /\ mempool' = mempool \ {t}
    /\ UNCHANGED runs

\* Lost, failed on chain, or its blockhash expired.
Drop(t) ==
    /\ t \in mempool
    /\ mempool' = mempool \ {t}
    /\ UNCHANGED <<vars, runs>>

\* Everybody else, with any client.
Others == Next /\ UNCHANGED <<runs, mempool>>

ClientNext ==
    \/ \E u \in Buyers, m \in Mints, amount \in Spends : ReadConfig(u, m, amount)
    \/ \E m \in Mints, recipient \in Recipients : ReadCurve(m, recipient)
    \/ \E r \in runs : Send(r)
    \/ \E r \in runs : Exit(r)
    \/ \E t \in mempool : Land(t)
    \/ \E t \in mempool : Drop(t)
    \/ Others

ClientSpec == ClientInit /\ [][ClientNext]_clientVars

\* The operator keeps looking at every curve and keeps sending, and a release that
\* is sent over and over and could land lands at last.  Its scripts end and its
\* blockhashes expire.  Nobody else has to do anything.
OperatorIsFair ==
    /\ \A m \in Mints :
          /\ SF_clientVars(\E recipient \in Recipients : ReadCurve(m, recipient))
          /\ SF_clientVars(\E r \in runs :
                              r.job.script = "release" /\ r.job.mint = m /\ Send(r))
          /\ SF_clientVars(\E t \in mempool :
                              t.job.script = "release" /\ t.job.mint = m /\ Land(t))
    /\ WF_clientVars(\E r \in runs :
                        r.job.client = Operator /\ r.pc = "sent" /\ Exit(r))
    /\ WF_clientVars(\E t \in mempool : t.job.client = Operator /\ Drop(t))

FairClientSpec == ClientSpec /\ OperatorIsFair

-----------------------------------------------------------------------------
ClientTypeOK ==
    /\ runs \subseteq Run
    /\ mempool \subseteq Transaction
    /\ \A r, s \in runs : r.job.client = s.job.client => r = s

\* A buy built from a config that has changed since never pays the old fee
\* recipient, however late it lands: buy.ts reads, configure comes in between,
\* and the chain decides.
StaleBuyNeverPays ==
    [][\A t \in mempool \ mempool' :
          t.job.script = "buy" /\ wallet' # wallet =>
              t.job.to = global_config.fee_recipient]_clientVars

\* What curve-state.ts showed stays true until the release built on it lands:
\* no release is ever under way for a curve that is not completed.
ReleaseIsNeverEarly ==
    \A x \in runs \cup mempool :
        x.job.script = "release" => bonding_curve[x.job.mint].is_completed

\* A completed curve that still has its token account is drained in the end, or
\* the operator could not do it: not the authority, paused, or without the rent
\* of the recipient's token account.
CompletedIsReleased ==
    \A m \in Mints :
        bonding_curve[m].is_completed /\ Pda \in atas[m] ~>
            \/ vault[m] = CurveRent /\ tokens[m][Pda] = 0
            \/ global_config.authority # Operator
            \/ global_config.paused
            \/ wallet[Operator] < AtaRent

=============================================================================
