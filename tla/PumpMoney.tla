------------------------------- MODULE PumpMoney -------------------------------
(***************************************************************************)
(* What the lamports and the tokens of the pump program add up to.  Every  *)
(* handler moves them in several pieces (a fee, a deposit, a rent, what an *)
(* account that is closed gives back), some by transfers of other programs *)
(* and some, in release_reserves, by hand: the pieces must add up.         *)
(***************************************************************************)
EXTENDS Pump, Functions, FiniteSets

ASSUME FiniteAssumption == IsFiniteSet(Wallets) /\ IsFiniteSet(Mints)

\* The rents of the token accounts of these owners.
RentsOf(owners) == SumFunction([o \in Owners |-> IF o \in owners THEN AtaRent ELSE 0])

\* The lamports in accounts that exist for mint m: at the address of its curve,
\* in the mint with its metadata, in token accounts.
Deposits(m) ==
    vault[m] + (IF m \in launched THEN MintCost ELSE 0) + RentsOf(atas[m])

ConfigDeposit == IF initialized THEN ConfigRent ELSE 0

\* No instruction makes lamports or loses any: whatever is paid, released,
\* topped up and given back, by whom and to whom, oneself included, what the
\* wallets started with is in the wallets and in the accounts they paid for.
LamportsConserved ==
    SumFunction(wallet) + SumFunction([m \in Mints |-> Deposits(m)]) + ConfigDeposit
        = SumFunction(Funds)

\* The supply of a mint is fixed at launch: however it is traded, sent and
\* swept, its token accounts hold together what its curve says it was launched
\* with, and a mint is launched once.
SupplyConserved ==
    \A m \in launched : SumFunction(tokens[m]) = bonding_curve[m].token_total_supply

=============================================================================
