------------------------------- MODULE PumpClaims -------------------------------
(* What comments and tests of the repository say of the program and the code  *)
(* does not do.  TLC refutes each in a run of its own.                        *)
EXTENDS Pump

\* bonding_curve.rs calls real_sol_reserves "real balances on the curve": when a
\* trade moves lamports in or out of a curve, it books them there.
RealReservesAreReal ==
    [][\A m \in launched :
          bonding_curve'[m].virtual_sol_reserves # bonding_curve[m].virtual_sol_reserves
          => bonding_curve'[m].real_sol_reserves - bonding_curve[m].real_sol_reserves
               = vault'[m] - vault[m]]_vars

\* bonding_curve.rs has sell "swap token for sol" and "update reserve balance on
\* the curve PDA": when it credits token reserves, the seller's lamports leave
\* the curve by what the SOL reserves lose, and never enter it.
SellPaysSol ==
    [][\A m \in launched :
          bonding_curve'[m].virtual_token_reserves > bonding_curve[m].virtual_token_reserves
          => vault'[m] - vault[m] = bonding_curve'[m].virtual_sol_reserves
                                      - bonding_curve[m].virtual_sol_reserves]_vars

\* The test of a completed curve in tests/pumpfun.ts expects its SOL reserves to
\* be the limit, to the lamport, at the moment the curve completes.
CompletesAtTheLimit ==
    [][\A m \in launched : ~bonding_curve[m].is_completed /\ bonding_curve'[m].is_completed =>
          bonding_curve'[m].virtual_sol_reserves = global_config.curve_limit]_vars

\* bonding_curve.rs documents is_completed as "true - if the curve reached the
\* limit": an open curve is below the limit in force.
OpenIsBelowTheLimit ==
    \A m \in launched :
        bonding_curve[m].virtual_sol_reserves >= global_config.curve_limit
        => bonding_curve[m].is_completed

\* README_tests.md has release leave the curve's token account "swept/closed if
\* empty": after the step that drains a curve's lamports, the account is gone.
ReleaseClosesAta ==
    [][\A m \in launched : vault'[m] < vault[m] => Pda \notin atas'[m]]_vars

=============================================================================
