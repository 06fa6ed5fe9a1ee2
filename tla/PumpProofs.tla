------------------------------- MODULE PumpProofs -------------------------------
(* Theorems about Pump, for every set of wallets, mints, configurations and   *)
(* amounts, every rent and every formula.                                     *)
EXTENDS PumpEscrow, TLAPS

-----------------------------------------------------------------------------
(* Lemmas about the operators the actions are built from. *)

\* Sending n from u to f keeps balances natural; only u and f change, and
\* sending to oneself changes nothing.
LEMMA SentFacts ==
    ASSUME NEW S, NEW w \in [S -> Nat], NEW u \in S, NEW f \in S, NEW n \in Nat,
           w[u] >= n
    PROVE  /\ Sent(w, u, f, n) \in [S -> Nat]
           /\ u # f => /\ Sent(w, u, f, n)[u] = w[u] - n
                       /\ Sent(w, u, f, n)[f] = w[f] + n
           /\ u = f => Sent(w, u, f, n)[u] = w[u]
           /\ \A x \in S \ {u, f} : Sent(w, u, f, n)[x] = w[x]
  BY DEF Sent

\* A token account costs its payer nothing or the rent of an account.
LEMMA AtaCostType == \A o, m : AtaCost(o, m) \in Nat
  BY ConstantsAssumption DEF AtaCost

\* The SOL payments of a trade keep the types, and what the curve receives is
\* the amount without the fee.
LEMMA PaySolFacts ==
    ASSUME TypeOK, NEW user \in Wallets, NEW f \in Wallets, NEW m \in Mints,
           NEW amount \in U64, NEW fee \in U64,
           wallet[user] >= AtaCost(user, m), PaySol(user, m, f, amount, fee)
    PROVE  /\ amount - fee \in U64
           /\ wallet' \in [Wallets -> Nat]
           /\ vault' = [vault EXCEPT ![m] = @ + (amount - fee)]
           /\ vault' \in [Mints -> Nat]
           /\ atas' = [atas EXCEPT ![m] = @ \cup {user}]
           /\ atas' \in [Mints -> SUBSET Owners]
  <1> DEFINE w0 == [wallet EXCEPT ![user] = @ - AtaCost(user, m)]
             w1 == Sent(w0, user, f, fee)
  <1>1. amount - fee \in U64 /\ amount - fee \in Nat /\ fee \in Nat
    BY ConstantsAssumption DEF PaySol, Checked, U64
  <1>2. w0 \in [Wallets -> Nat]
    BY AtaCostType DEF TypeOK
  <1>3. w0[user] >= fee /\ w1[user] >= amount - fee
    BY DEF PaySol
  <1>4. w1 \in [Wallets -> Nat]
    BY <1>1, <1>2, <1>3, SentFacts
  <1>5. wallet' = [w1 EXCEPT ![user] = @ - (amount - fee)]
    BY DEF PaySol
  <1> HIDE DEF w0, w1
  <1>6. wallet' \in [Wallets -> Nat]
    BY <1>1, <1>3, <1>4, <1>5
  <1>7. /\ vault' = [vault EXCEPT ![m] = @ + (amount - fee)]
        /\ atas' = [atas EXCEPT ![m] = @ \cup {user}]
    BY DEF PaySol
  <1>8. vault' \in [Mints -> Nat] /\ atas' \in [Mints -> SUBSET Owners]
    BY <1>1, <1>7 DEF TypeOK, Owners
  <1> QED BY <1>1, <1>6, <1>7, <1>8

\* A token transfer keeps the types.
LEMMA MoveTokensType ==
    ASSUME TypeOK, NEW m \in Mints, NEW from \in Owners, NEW to \in Owners,
           NEW n \in Nat, MoveTokens(m, from, to, n)
    PROVE  tokens' \in [Mints -> [Owners -> Nat]]
  <1>1. tokens[m] \in [Owners -> Nat] /\ tokens[m][from] >= n
    BY DEF TypeOK, MoveTokens
  <1>2. Sent(tokens[m], from, to, n) \in [Owners -> Nat]
    BY <1>1, SentFacts
  <1> QED BY <1>2 DEF TypeOK, MoveTokens

\* Writing two u64 reserves to a curve account keeps its type.
LEMMA UpdateReservesType ==
    ASSUME NEW c \in BondingCurve, NEW l \in U64, NEW t \in U64
    PROVE  /\ UpdateReserves(c, l, t) \in BondingCurve
           /\ UpdateReserves(c, l, t).virtual_sol_reserves = l
           /\ UpdateReserves(c, l, t).is_completed = c.is_completed
  BY DEF UpdateReserves, BondingCurve

-----------------------------------------------------------------------------
(* Type correctness, one lemma per action. *)

LEMMA InitType == Init => TypeOK
  <1> SUFFICES ASSUME Init PROVE TypeOK
    OBVIOUS
  <1>1. 0 \in U64
    BY ConstantsAssumption DEF U64
  <1>2. ZeroConfig \in Config /\ ZeroCurve \in BondingCurve
    BY <1>1 DEF ZeroConfig, ZeroCurve, Config, BondingCurve, Keys
  <1> QED BY <1>1, <1>2, ConstantsAssumption DEF Init, TypeOK, Keys

LEMMA ConfigureType ==
    ASSUME TypeOK, NEW admin \in Wallets, NEW c \in Configs, Configure(admin, c)
    PROVE  TypeOK'
  <1>1. c \in Config /\ admin \in Keys /\ ConfigRent \in Nat
    BY ConstantsAssumption DEF Keys
  <1>2. wallet' \in [Wallets -> Nat]
    BY <1>1 DEF Configure, TypeOK
  <1> QED BY <1>1, <1>2 DEF Configure, TypeOK

LEMMA LaunchType ==
    ASSUME TypeOK, NEW creator \in Wallets, NEW m \in Mints, Launch(creator, m)
    PROVE  TypeOK'
  <1>1. LaunchedCurve \in BondingCurve /\ LaunchedCurve.virtual_sol_reserves \in U64
    <2>1. 0 \in U64
      BY ConstantsAssumption DEF U64
    <2> QED BY <2>1 DEF LaunchedCurve, BondingCurve, TypeOK, Config
  <1>2. RentShortfall(m) \in Nat /\ MintCost + RentShortfall(m) + AtaRent \in Nat
    BY ConstantsAssumption DEF RentShortfall, TypeOK
  <1>3. wallet' \in [Wallets -> Nat] /\ vault' \in [Mints -> Nat]
    BY <1>2 DEF Launch, TypeOK
  <1>4. global_config.total_token_supply \in Nat
    BY ConstantsAssumption DEF TypeOK, Config, U64
  <1>5. tokens' \in [Mints -> [Owners -> Nat]] /\ atas' \in [Mints -> SUBSET Owners]
    BY <1>4 DEF Launch, TypeOK, Owners
  <1> QED BY <1>1, <1>3, <1>5 DEF Launch, TypeOK, Keys

LEMMA BuyType ==
    ASSUME TypeOK, NEW user \in Wallets, NEW f \in Wallets, NEW m \in Mints,
           NEW amount \in U64, NEW min_out, NEW q \in Quote,
           SwapGuards(user, m, f), Buy(user, m, f, amount, min_out, q)
    PROVE  /\ wallet' \in [Wallets -> Nat] /\ vault' \in [Mints -> Nat]
           /\ atas' \in [Mints -> SUBSET Owners]
           /\ tokens' \in [Mints -> [Owners -> Nat]]
           /\ bonding_curve' \in [Mints -> BondingCurve]
  <1> DEFINE c == bonding_curve[m]
             t == c.virtual_token_reserves - q.out
             l == BoughtSol(c, amount, q.fee)
  <1>1. q.out \in U64 /\ q.fee \in U64 /\ q.out \in Nat /\ Pda \in Owners /\ user \in Owners
    BY ConstantsAssumption DEF Quote, U64, Owners
  <1>2. PaySol(user, m, f, amount, q.fee) /\ wallet[user] >= AtaCost(user, m)
    BY DEF Buy, SwapGuards
  <1>3. tokens' \in [Mints -> [Owners -> Nat]]
    BY <1>1, MoveTokensType DEF Buy
  <1>4. c \in BondingCurve /\ t \in U64 /\ l \in U64
    BY DEF Buy, Checked, TypeOK
  <1>5. UpdateReserves(c, l, t) \in BondingCurve
    BY <1>4, UpdateReservesType
  <1>6. bonding_curve' = [bonding_curve EXCEPT ![m] =
           [UpdateReserves(c, l, t) EXCEPT !.is_completed = @ \/ ReachesLimit(l)]]
    BY DEF Buy
  <1>7. [UpdateReserves(c, l, t) EXCEPT !.is_completed = @ \/ ReachesLimit(l)] \in BondingCurve
    <2> DEFINE u == UpdateReserves(c, l, t)
               b == u.is_completed \/ ReachesLimit(l)
    <2>1. b \in BOOLEAN
      OBVIOUS
    <2>2. u \in BondingCurve
      BY <1>5
    <2> HIDE DEF u, b
    <2>3. [u EXCEPT !.is_completed = b] \in BondingCurve
      BY <2>1, <2>2 DEF BondingCurve
    <2> QED BY <2>3 DEF u, b
  <1>8. bonding_curve' \in [Mints -> BondingCurve]
    <2> HIDE DEF c, l, t
    <2> QED BY <1>6, <1>7 DEF TypeOK
  <1> QED BY <1>1, <1>2, <1>3, <1>8, PaySolFacts

LEMMA SellType ==
    ASSUME TypeOK, NEW user \in Wallets, NEW f \in Wallets, NEW m \in Mints,
           NEW amount \in U64, NEW min_out, NEW q \in Quote,
           SwapGuards(user, m, f), Sell(user, m, f, amount, min_out, q)
    PROVE  /\ wallet' \in [Wallets -> Nat] /\ vault' \in [Mints -> Nat]
           /\ atas' \in [Mints -> SUBSET Owners]
           /\ tokens' \in [Mints -> [Owners -> Nat]]
           /\ bonding_curve' \in [Mints -> BondingCurve]
  <1> DEFINE c == bonding_curve[m]
             t == c.virtual_token_reserves + amount
             l == c.virtual_sol_reserves - (q.out + q.fee)
  <1>1. q.out \in U64 /\ q.fee \in U64 /\ q.out \in Nat /\ Pda \in Owners /\ user \in Owners
    BY ConstantsAssumption DEF Quote, U64, Owners
  <1>2. PaySol(user, m, f, amount, q.fee) /\ wallet[user] >= AtaCost(user, m)
    BY DEF Sell, SwapGuards
  <1>3. tokens' \in [Mints -> [Owners -> Nat]]
    BY <1>1, MoveTokensType DEF Sell
  <1>4. c \in BondingCurve /\ t \in U64 /\ l \in U64
    BY DEF Sell, Checked, TypeOK
  <1>5. UpdateReserves(c, l, t) \in BondingCurve
    BY <1>4, UpdateReservesType
  <1>6. bonding_curve' = [bonding_curve EXCEPT ![m] = UpdateReserves(c, l, t)]
    BY DEF Sell
  <1>7. bonding_curve' \in [Mints -> BondingCurve]
    <2> HIDE DEF c, l, t
    <2> QED BY <1>5, <1>6 DEF TypeOK
  <1> QED BY <1>1, <1>2, <1>3, <1>7, PaySolFacts

LEMMA SwapType ==
    ASSUME TypeOK, NEW user \in Wallets, NEW f \in Wallets, NEW m \in Mints,
           NEW amount \in U64, NEW direction, NEW min_out,
           Swap(user, m, f, amount, direction, min_out)
    PROVE  TypeOK'
  <1>1. SwapGuards(user, m, f) /\ user \in Owners /\ user \in Keys
    BY DEF Swap, Owners, Keys
  <1>2. /\ wallet' \in [Wallets -> Nat] /\ vault' \in [Mints -> Nat]
        /\ atas' \in [Mints -> SUBSET Owners]
        /\ tokens' \in [Mints -> [Owners -> Nat]]
        /\ bonding_curve' \in [Mints -> BondingCurve]
    <2>1. CASE \E q \in Quote : Buy(user, m, f, amount, min_out, q)
      BY <1>1, <2>1, BuyType
    <2>2. CASE \E q \in Quote : Sell(user, m, f, amount, min_out, q)
      BY <1>1, <2>2, SellType
    <2>3. CASE TradeNothing(user, m)
      <3>1. wallet[user] >= AtaCost(user, m) /\ AtaCost(user, m) \in Nat
        BY <1>1, AtaCostType DEF SwapGuards
      <3> QED BY <1>1, <2>3, <3>1 DEF TradeNothing, TypeOK
    <2> QED BY <2>1, <2>2, <2>3 DEF Swap
  <1> QED BY <1>1, <1>2 DEF Swap, TypeOK

LEMMA ReleaseType ==
    ASSUME TypeOK, NEW admin \in Wallets, NEW m \in Mints, NEW r \in Wallets,
           ReleaseReserves(admin, m, r)
    PROVE  TypeOK'
  <1> DEFINE w0 == [wallet EXCEPT ![admin] = @ - AtaCost(r, m)]
             rent == IF tokens[m][Pda] > 0 THEN AtaRent ELSE 0
  <1>1. Available(m) \in Nat /\ vault[m] - Available(m) \in Nat /\ rent \in Nat
    BY ConstantsAssumption DEF Available, TypeOK
  <1>2. w0 \in [Wallets -> Nat]
    BY AtaCostType DEF ReleaseReserves, ReleaseGuards, TypeOK
  <1>3. wallet' = [w0 EXCEPT ![r] = @ + (Available(m) + rent)]
    BY DEF ReleaseReserves, Credited
  <1>4. wallet' \in [Wallets -> Nat]
    <2> HIDE DEF w0, rent
    <2> QED BY <1>1, <1>2, <1>3
  <1>5. vault' \in [Mints -> Nat]
    BY <1>1 DEF ReleaseReserves, TypeOK
  <1>6. tokens' \in [Mints -> [Owners -> Nat]]
    <2>1. tokens[m] \in [Owners -> Nat] /\ tokens[m][Pda] \in Nat /\ Pda \in Owners /\ r \in Owners
      BY DEF TypeOK, Owners
    <2>2. Sent(tokens[m], Pda, r, tokens[m][Pda]) \in [Owners -> Nat]
      BY <2>1, SentFacts
    <2> QED BY <2>2 DEF ReleaseReserves, TypeOK
  <1>7. atas' \in [Mints -> SUBSET Owners] /\ signer' \in Keys
    BY DEF ReleaseReserves, TypeOK, Owners, Keys
  <1> QED BY <1>4, <1>5, <1>6, <1>7 DEF ReleaseReserves, TypeOK

LEMMA AccountType ==
    ASSUME TypeOK, NEW u \in Wallets, NEW m \in Mints, NEW o \in Owners, NEW n \in U64,
           \/ Migrate(u) \/ SystemTransfer(u, m, n) \/ TokenTransfer(u, m, o, n)
           \/ OpenAta(u, m, o) \/ CloseAta(u, m)
    PROVE  TypeOK'
  <1>1. u \in Keys /\ u \in Owners /\ n \in Nat /\ AtaRent \in Nat
    BY ConstantsAssumption DEF Keys, Owners, U64
  <1>2. CASE Migrate(u)
    BY <1>1, <1>2 DEF Migrate, TypeOK
  <1>3. CASE SystemTransfer(u, m, n)
    BY <1>1, <1>3 DEF SystemTransfer, TypeOK
  <1>4. CASE TokenTransfer(u, m, o, n)
    BY <1>1, <1>4, MoveTokensType DEF TokenTransfer, TypeOK
  <1>5. CASE OpenAta(u, m, o)
    BY <1>1, <1>5 DEF OpenAta, TypeOK
  <1>6. CASE CloseAta(u, m)
    BY <1>1, <1>6 DEF CloseAta, TypeOK
  <1> QED BY <1>2, <1>3, <1>4, <1>5, <1>6

LEMMA NextType == TypeOK /\ [Next]_vars => TypeOK'
  <1> SUFFICES ASSUME TypeOK, [Next]_vars PROVE TypeOK'
    OBVIOUS
  <1>0. Amounts \subseteq U64
    BY ConstantsAssumption
  <1>1. CASE \E admin \in Wallets, c \in Configs : Configure(admin, c)
    BY <1>1, ConfigureType
  <1>2. CASE \E creator \in Wallets, m \in Mints : Launch(creator, m)
    BY <1>2, LaunchType
  <1>3. CASE \E user, f \in Wallets, m \in Mints, amount, min_out \in Amounts,
               direction \in Directions : Swap(user, m, f, amount, direction, min_out)
    BY <1>0, <1>3, SwapType
  <1>4. CASE \E payer \in Wallets : Migrate(payer)
    BY <1>4 DEF Migrate, TypeOK, Keys
  <1>5. CASE \E admin, r \in Wallets, m \in Mints : ReleaseReserves(admin, m, r)
    BY <1>5, ReleaseType
  <1>6. CASE \E user \in Wallets, m \in Mints, n \in Amounts : SystemTransfer(user, m, n)
    BY <1>0, <1>6, AccountType DEF Owners
  <1>7. CASE \E user \in Wallets, m \in Mints, to \in Owners, n \in Amounts :
               TokenTransfer(user, m, to, n)
    BY <1>0, <1>7, AccountType
  <1>8. CASE \E payer \in Wallets, m \in Mints, owner \in Owners : OpenAta(payer, m, owner)
    <2>1. 0 \in U64
      BY ConstantsAssumption DEF U64
    <2> QED BY <1>8, <2>1, AccountType
  <1>9. CASE \E user \in Wallets, m \in Mints : CloseAta(user, m)
    <2>1. 0 \in U64 /\ Pda \in Owners
      BY ConstantsAssumption DEF U64, Owners
    <2> QED BY <1>9, <2>1, AccountType
  <1>10. CASE UNCHANGED vars
    BY <1>10 DEF vars, TypeOK
  <1> QED BY <1>1, <1>2, <1>3, <1>4, <1>5, <1>6, <1>7, <1>8, <1>9, <1>10 DEF Next

\* The fields of every account, and every balance, stay what their types say:
\* the guards and checked operations of the handlers leave no u64 out of range
\* and no balance below zero.
THEOREM TypeCorrect == Spec => []TypeOK
  BY InitType, NextType, PTL DEF Spec

-----------------------------------------------------------------------------
(* What a step does to one curve.  Every step is one of these for one mint *)
(* and leaves every other mint's curve alone; the invariants, the action   *)
(* properties and the refinement below are all read off this split.        *)

Lamports(m) == vault'[m] - vault[m]
Tokens(m) == tokens'[m][Pda] - tokens[m][Pda]
VirtualSol(m) == bonding_curve'[m].virtual_sol_reserves
                   - bonding_curve[m].virtual_sol_reserves
VirtualTokens(m) == bonding_curve'[m].virtual_token_reserves
                      - bonding_curve[m].virtual_token_reserves

\* The curve account, if any, keeps its fields, and its token account stays.
SameCurve(m) ==
    /\ m \in launched' <=> m \in launched
    /\ bonding_curve'[m] = bonding_curve[m]
    /\ opening'[m] = opening[m]

Unaffected(m) ==
    /\ SameCurve(m)
    /\ vault'[m] = vault[m]
    /\ tokens'[m][Pda] = tokens[m][Pda]
    /\ Pda \in atas[m] => Pda \in atas'[m]

Received(m) ==
    /\ SameCurve(m)
    /\ vault'[m] >= vault[m]
    /\ tokens'[m][Pda] >= tokens[m][Pda]
    /\ Pda \in atas[m] => Pda \in atas'[m]

Opened(m) ==
    /\ m \notin launched /\ m \in launched' /\ ~global_config.paused
    /\ ~bonding_curve'[m].is_completed
    /\ opening'[m] = bonding_curve'[m].virtual_sol_reserves
    /\ vault'[m] >= CurveRent /\ vault'[m] >= vault[m]
    /\ Pda \in atas'[m]

Trading(m) ==
    /\ m \in launched /\ m \in launched' /\ opening'[m] = opening[m]
    /\ ~bonding_curve[m].is_completed /\ ~global_config.paused
    /\ Lamports(m) >= 0 /\ Pda \in atas'[m]

Bought(m) ==
    /\ Trading(m)
    /\ Lamports(m) = VirtualSol(m) /\ Tokens(m) = VirtualTokens(m)
    /\ bonding_curve'[m].is_completed =>
          bonding_curve'[m].virtual_sol_reserves >= global_config.curve_limit

Sold(m) ==
    /\ Trading(m)
    /\ VirtualSol(m) =< 0 /\ Tokens(m) >= 0
    /\ ~bonding_curve'[m].is_completed

Released(m) ==
    /\ SameCurve(m) /\ m \in launched /\ bonding_curve[m].is_completed
    /\ ~global_config.paused /\ signer' = global_config.authority
    /\ vault'[m] = vault[m] - Available(m)
    /\ tokens'[m][Pda] = 0
    /\ \E r \in Wallets :
          /\ tokens'[m][r] = tokens[m][r] + tokens[m][Pda]
          /\ wallet'[r] + AtaRent >= wallet[r] + Available(m)

Affected(m) == Received(m) \/ Opened(m) \/ Bought(m) \/ Sold(m) \/ Released(m)

OneCurve ==
    \A m \in Mints : \/ Unaffected(m)
                     \/ Affected(m) /\ \A d \in Mints \ {m} : Unaffected(d)

LEMMA ConfigureEffect ==
    ASSUME TypeOK, NEW u \in Wallets, NEW c, Configure(u, c) \/ Migrate(u)
    PROVE  \A m \in Mints : Unaffected(m)
  BY DEF Configure, Migrate, Unaffected, SameCurve

LEMMA LaunchEffect ==
    ASSUME TypeOK, NEW u \in Wallets, NEW m \in Mints, Launch(u, m)
    PROVE  Opened(m) /\ \A d \in Mints \ {m} : Unaffected(d)
  <1>1. vault[m] \in Nat /\ CurveRent \in Nat
    BY ConstantsAssumption DEF TypeOK
  <1>2. vault'[m] >= CurveRent /\ vault'[m] >= vault[m]
    BY <1>1 DEF Launch, RentShortfall, TypeOK
  <1>3. /\ bonding_curve'[m] = LaunchedCurve /\ opening'[m] = LaunchedCurve.virtual_sol_reserves
        /\ m \notin launched /\ m \in launched' /\ ~global_config.paused /\ Pda \in atas'[m]
    BY DEF Launch, MintIsNew, TypeOK, EnsureNotPaused
  <1>4. Opened(m)
    BY <1>2, <1>3 DEF Opened, LaunchedCurve
  <1>5. \A d \in Mints \ {m} : Unaffected(d)
    BY DEF Launch, TypeOK, Unaffected, SameCurve
  <1> QED BY <1>4, <1>5

LEMMA BuyEffect ==
    ASSUME TypeOK, NEW user \in Wallets, NEW f \in Wallets, NEW m \in Mints,
           NEW amount \in U64, NEW min_out, NEW q \in Quote,
           SwapGuards(user, m, f), Buy(user, m, f, amount, min_out, q),
           UNCHANGED <<launched, opening>>
    PROVE  Bought(m) /\ \A d \in Mints \ {m} : Unaffected(d)
  <1> DEFINE c == bonding_curve[m]
             t == c.virtual_token_reserves - q.out
             l == BoughtSol(c, amount, q.fee)
             c1 == UpdateReserves(c, l, t)
             b == c1.is_completed \/ ReachesLimit(l)
  <1>1. /\ q.out \in Nat /\ q.fee \in U64 /\ Pda # user
        /\ Pda \in Owners /\ user \in Owners
    BY ConstantsAssumption DEF Quote, U64, Owners
  <1>2. /\ amount - q.fee \in Nat
        /\ vault' = [vault EXCEPT ![m] = @ + (amount - q.fee)]
        /\ atas' = [atas EXCEPT ![m] = @ \cup {user}]
    <2>1. PaySol(user, m, f, amount, q.fee) /\ wallet[user] >= AtaCost(user, m)
      BY DEF Buy, SwapGuards
    <2>2. amount - q.fee \in U64
      BY <1>1, <2>1, PaySolFacts
    <2> QED BY <1>1, <2>1, <2>2, PaySolFacts, ConstantsAssumption DEF U64
  <1>3. Lamports(m) = amount - q.fee /\ Lamports(m) >= 0
    BY <1>2 DEF Lamports, TypeOK
  <1>4. c \in BondingCurve /\ c \in [virtual_token_reserves : Nat, virtual_sol_reserves : Nat,
          real_token_reserves : U64, real_sol_reserves : U64,
          token_total_supply : U64, is_completed : BOOLEAN]
    BY ConstantsAssumption DEF TypeOK, BondingCurve, U64
  <1>5. tokens'[m][Pda] = tokens[m][Pda] - q.out
    <2>1. tokens[m] \in [Owners -> Nat] /\ tokens[m][Pda] >= q.out
      BY <1>1 DEF Buy, MoveTokens, TypeOK
    <2>2. tokens'[m] = Sent(tokens[m], Pda, user, q.out)
      BY DEF Buy, MoveTokens, TypeOK
    <2> QED BY <1>1, <2>1, <2>2, SentFacts
  <1>6. bonding_curve' = [bonding_curve EXCEPT ![m] = [c1 EXCEPT !.is_completed = b]]
    BY DEF Buy
  <1>7. /\ c1.virtual_sol_reserves = l /\ c1.virtual_token_reserves = t
        /\ c1.is_completed = c.is_completed
        /\ c1 = [c EXCEPT !.virtual_sol_reserves = l, !.virtual_token_reserves = t]
    BY <1>4 DEF UpdateReserves, BondingCurve
  <1>8. /\ bonding_curve'[m].virtual_sol_reserves = l
        /\ bonding_curve'[m].virtual_token_reserves = t
        /\ bonding_curve'[m].is_completed = b
    <2>1. c1 \in BondingCurve
      BY <1>4, UpdateReservesType DEF Buy, Checked
    <2>2. bonding_curve'[m] = [c1 EXCEPT !.is_completed = b]
      BY <1>6 DEF TypeOK
    <2> HIDE DEF b, c1, c, l, t
    <2> QED BY <1>7, <2>1, <2>2 DEF BondingCurve
  <1>9. VirtualSol(m) = amount - q.fee /\ VirtualTokens(m) = -q.out /\ Tokens(m) = -q.out
    <2>1. /\ c.virtual_sol_reserves \in Nat /\ c.virtual_token_reserves \in Nat
          /\ tokens[m][Pda] \in Nat
      BY <1>1, <1>4 DEF TypeOK
    <2> QED BY <1>1, <1>2, <1>5, <1>8, <2>1
          DEF VirtualSol, VirtualTokens, Tokens, BoughtSol
  <1>10. ~c.is_completed /\ ~global_config.paused /\ m \in launched /\ Pda \in atas[m]
    BY DEF SwapGuards, CurveIsOpen, EnsureNotPaused
  <1>11. Pda \in atas'[m] /\ opening'[m] = opening[m] /\ m \in launched'
    BY <1>2, <1>10 DEF TypeOK
  <1>12. bonding_curve'[m].is_completed => l >= global_config.curve_limit
    BY <1>7, <1>8, <1>10 DEF ReachesLimit
  <1>13. Bought(m)
    BY <1>3, <1>8, <1>9, <1>10, <1>11, <1>12 DEF Bought, Trading
  <1>14. \A d \in Mints \ {m} : Unaffected(d)
    BY <1>2, <1>6 DEF Unaffected, SameCurve, TypeOK, Buy, MoveTokens
  <1> QED BY <1>13, <1>14

LEMMA SellEffect ==
    ASSUME TypeOK, NEW user \in Wallets, NEW f \in Wallets, NEW m \in Mints,
           NEW amount \in U64, NEW min_out, NEW q \in Quote,
           SwapGuards(user, m, f), Sell(user, m, f, amount, min_out, q),
           UNCHANGED <<launched, opening>>
    PROVE  Sold(m) /\ \A d \in Mints \ {m} : Unaffected(d)
  <1> DEFINE c == bonding_curve[m]
             t == c.virtual_token_reserves + amount
             l == c.virtual_sol_reserves - (q.out + q.fee)
             c1 == UpdateReserves(c, l, t)
  <1>1. /\ q.out \in Nat /\ q.fee \in Nat /\ q.fee \in U64 /\ Pda # user
        /\ Pda \in Owners /\ user \in Owners
    BY ConstantsAssumption DEF Quote, U64, Owners
  <1>2. /\ amount - q.fee \in Nat
        /\ vault' = [vault EXCEPT ![m] = @ + (amount - q.fee)]
        /\ atas' = [atas EXCEPT ![m] = @ \cup {user}]
    <2>1. PaySol(user, m, f, amount, q.fee) /\ wallet[user] >= AtaCost(user, m)
      BY DEF Sell, SwapGuards
    <2>2. amount - q.fee \in U64
      BY <1>1, <2>1, PaySolFacts
    <2> QED BY <1>1, <2>1, <2>2, PaySolFacts, ConstantsAssumption DEF U64
  <1>3. Lamports(m) >= 0
    BY <1>2 DEF Lamports, TypeOK
  <1>4. c \in BondingCurve /\ c.virtual_sol_reserves \in Nat
    BY ConstantsAssumption DEF TypeOK, BondingCurve, U64
  <1>5. tokens'[m][Pda] = tokens[m][Pda] + q.out /\ tokens[m][Pda] \in Nat
    <2>1. tokens[m] \in [Owners -> Nat] /\ tokens[m][user] >= q.out
      BY <1>1 DEF Sell, MoveTokens, TypeOK
    <2>2. tokens'[m] = Sent(tokens[m], user, Pda, q.out)
      BY DEF Sell, MoveTokens, TypeOK
    <2> QED BY <1>1, <2>1, <2>2, SentFacts
  <1>6. bonding_curve' = [bonding_curve EXCEPT ![m] = c1]
    BY DEF Sell
  <1>7. c1.virtual_sol_reserves = l /\ c1.is_completed = c.is_completed
    BY <1>4, UpdateReservesType DEF Sell, Checked
  <1>8. bonding_curve'[m] = c1
    BY <1>6 DEF TypeOK
  <1>9. VirtualSol(m) =< 0 /\ Tokens(m) >= 0
    BY <1>1, <1>4, <1>5, <1>7, <1>8 DEF VirtualSol, Tokens
  <1>10. ~c.is_completed /\ ~global_config.paused /\ m \in launched /\ Pda \in atas[m]
    BY DEF SwapGuards, CurveIsOpen, EnsureNotPaused
  <1>11. Pda \in atas'[m] /\ opening'[m] = opening[m] /\ m \in launched'
    BY <1>2, <1>10 DEF TypeOK
  <1>12. Sold(m)
    BY <1>3, <1>7, <1>8, <1>9, <1>10, <1>11 DEF Sold, Trading
  <1>13. \A d \in Mints \ {m} : Unaffected(d)
    BY <1>2, <1>6 DEF Unaffected, SameCurve, TypeOK, Sell, MoveTokens
  <1> QED BY <1>12, <1>13

LEMMA SwapEffect ==
    ASSUME TypeOK, NEW user \in Wallets, NEW f \in Wallets, NEW m \in Mints,
           NEW amount \in U64, NEW direction, NEW min_out,
           Swap(user, m, f, amount, direction, min_out)
    PROVE  OneCurve
  <1>1. SwapGuards(user, m, f) /\ UNCHANGED <<launched, opening>>
    BY DEF Swap
  <1>2. CASE \E q \in Quote : Buy(user, m, f, amount, min_out, q)
    BY <1>1, <1>2, BuyEffect DEF OneCurve, Affected
  <1>3. CASE \E q \in Quote : Sell(user, m, f, amount, min_out, q)
    BY <1>1, <1>3, SellEffect DEF OneCurve, Affected
  <1>4. CASE TradeNothing(user, m)
    <2>1. \A d \in Mints : Unaffected(d)
      BY <1>1, <1>4 DEF TradeNothing, Unaffected, SameCurve, TypeOK
    <2> QED BY <2>1 DEF OneCurve
  <1> QED BY <1>2, <1>3, <1>4 DEF Swap

LEMMA ReleaseEffect ==
    ASSUME TypeOK, NEW admin \in Wallets, NEW m \in Mints, NEW r \in Wallets,
           ReleaseReserves(admin, m, r)
    PROVE  Released(m) /\ \A d \in Mints \ {m} : Unaffected(d)
  <1> DEFINE amount == tokens[m][Pda]
             w0 == [wallet EXCEPT ![admin] = @ - AtaCost(r, m)]
             rent == IF amount > 0 THEN AtaRent ELSE 0
  <1>1. /\ SameCurve(m) /\ m \in launched /\ bonding_curve[m].is_completed
        /\ ~global_config.paused /\ signer' = global_config.authority
    BY DEF ReleaseReserves, ReleaseGuards, SameCurve, CurveIsCompleted,
           EnsureNotPaused, EnsureAdmin
  <1>2. vault'[m] = vault[m] - Available(m) /\ Available(m) \in Nat
    BY ConstantsAssumption DEF ReleaseReserves, TypeOK, Available
  <1>3. tokens'[m][Pda] = 0 /\ tokens'[m][r] = tokens[m][r] + tokens[m][Pda]
    <2>1. Pda \in Owners /\ r \in Owners /\ Pda # r
      BY ConstantsAssumption DEF Owners
    <2>2. tokens[m] \in [Owners -> Nat] /\ amount \in Nat
      BY <2>1 DEF TypeOK
    <2>3. tokens'[m] = Sent(tokens[m], Pda, r, amount)
      BY DEF ReleaseReserves, TypeOK
    <2>4. amount - amount = 0
      BY <2>2
    <2> QED BY <2>1, <2>2, <2>3, <2>4, SentFacts
  <1>4. wallet'[r] + AtaRent >= wallet[r] + Available(m)
    <2>1. AtaRent \in Nat /\ AtaCost(r, m) \in {0, AtaRent} /\ rent \in {0, AtaRent}
      BY ConstantsAssumption DEF AtaCost
    <2>2. w0[r] \in Int /\ wallet[r] \in Nat /\ w0[r] >= wallet[r] - AtaRent
      BY <2>1 DEF TypeOK
    <2>3. wallet' = [w0 EXCEPT ![r] = @ + (Available(m) + rent)]
      BY DEF ReleaseReserves, Credited
    <2>4. r \in DOMAIN w0
      BY DEF TypeOK
    <2> HIDE DEF w0, rent
    <2> QED BY <1>2, <2>1, <2>2, <2>3, <2>4
  <1>5. Released(m)
    BY <1>1, <1>2, <1>3, <1>4 DEF Released
  <1>6. \A d \in Mints \ {m} : Unaffected(d)
    BY DEF Unaffected, SameCurve, TypeOK, ReleaseReserves
  <1> QED BY <1>5, <1>6

LEMMA GiftEffect ==
    ASSUME TypeOK, NEW u \in Wallets, NEW m \in Mints, NEW o \in Owners, NEW n \in U64,
           \/ SystemTransfer(u, m, n) \/ TokenTransfer(u, m, o, n)
           \/ OpenAta(u, m, o) \/ CloseAta(u, m)
    PROVE  Received(m) /\ \A d \in Mints \ {m} : Unaffected(d)
  <1>1. u # Pda /\ n \in Nat /\ u \in Owners /\ Pda \in Owners
    BY ConstantsAssumption DEF U64, Owners
  <1>2. CASE SystemTransfer(u, m, n)
    BY <1>1, <1>2 DEF SystemTransfer, TypeOK, Received, Unaffected, SameCurve
  <1>3. CASE TokenTransfer(u, m, o, n)
    <2>1. tokens[m] \in [Owners -> Nat] /\ tokens[m][u] >= n
      BY <1>1, <1>3 DEF TypeOK, TokenTransfer, MoveTokens
    <2>2. tokens' = [tokens EXCEPT ![m] = Sent(tokens[m], u, o, n)] /\ u # o
      BY <1>3 DEF TokenTransfer, MoveTokens
    <2>3. tokens'[m] = Sent(tokens[m], u, o, n) /\ tokens[m][Pda] \in Nat
      BY <1>1, <2>1, <2>2 DEF TypeOK
    <2>4. \/ Sent(tokens[m], u, o, n)[Pda] = tokens[m][Pda] + n
          \/ Sent(tokens[m], u, o, n)[Pda] = tokens[m][Pda]
      <3>1. CASE o = Pda
        BY <1>1, <2>1, <2>2, <3>1, SentFacts
      <3>2. CASE o # Pda
        <4>1. Pda \in Owners \ {u, o}
          BY <1>1, <3>2
        <4> QED BY <1>1, <2>1, <4>1, SentFacts
      <3> QED BY <3>1, <3>2
    <2>5. tokens'[m][Pda] >= tokens[m][Pda]
      BY <1>1, <2>3, <2>4
    <2>6. \A d \in Mints \ {m} : tokens'[d] = tokens[d]
      BY <2>2 DEF TypeOK
    <2>7. vault' = vault /\ atas' = atas /\ \A d \in Mints : SameCurve(d)
      BY <1>3 DEF TokenTransfer, SameCurve
    <2>8. vault[m] \in Nat
      BY DEF TypeOK
    <2> QED BY <2>5, <2>6, <2>7, <2>8 DEF Received, Unaffected
  <1>4. CASE OpenAta(u, m, o)
    BY <1>1, <1>4 DEF OpenAta, TypeOK, Received, Unaffected, SameCurve
  <1>5. CASE CloseAta(u, m)
    BY <1>1, <1>5 DEF CloseAta, TypeOK, Received, Unaffected, SameCurve
  <1> QED BY <1>2, <1>3, <1>4, <1>5

LEMMA StepEffect == TypeOK /\ [Next]_vars => OneCurve
  <1> SUFFICES ASSUME TypeOK, [Next]_vars PROVE OneCurve
    OBVIOUS
  <1>0. Amounts \subseteq U64 /\ 0 \in U64 /\ Wallets \subseteq Owners /\ Pda \in Owners
    BY ConstantsAssumption DEF U64, Owners
  <1>1. CASE \E admin \in Wallets, c \in Configs : Configure(admin, c)
    BY <1>1, ConfigureEffect DEF OneCurve
  <1>2. CASE \E creator \in Wallets, m \in Mints : Launch(creator, m)
    BY <1>2, LaunchEffect DEF OneCurve, Affected
  <1>3. CASE \E user, f \in Wallets, m \in Mints, amount, min_out \in Amounts,
               direction \in Directions : Swap(user, m, f, amount, direction, min_out)
    BY <1>0, <1>3, SwapEffect
  <1>4. CASE \E payer \in Wallets : Migrate(payer)
    BY <1>4, ConfigureEffect DEF OneCurve
  <1>5. CASE \E admin, r \in Wallets, m \in Mints : ReleaseReserves(admin, m, r)
    BY <1>5, ReleaseEffect DEF OneCurve, Affected
  <1>6. CASE \E user \in Wallets, m \in Mints, n \in Amounts : SystemTransfer(user, m, n)
    BY <1>0, <1>6, GiftEffect DEF OneCurve, Affected
  <1>7. CASE \E user \in Wallets, m \in Mints, to \in Owners, n \in Amounts :
               TokenTransfer(user, m, to, n)
    BY <1>0, <1>7, GiftEffect DEF OneCurve, Affected
  <1>8. CASE \E payer \in Wallets, m \in Mints, owner \in Owners : OpenAta(payer, m, owner)
    BY <1>0, <1>8, GiftEffect DEF OneCurve, Affected
  <1>9. CASE \E user \in Wallets, m \in Mints : CloseAta(user, m)
    BY <1>0, <1>9, GiftEffect DEF OneCurve, Affected
  <1>10. CASE UNCHANGED vars
    BY <1>10 DEF vars, Unaffected, SameCurve, OneCurve
  <1> QED BY <1>1, <1>2, <1>3, <1>4, <1>5, <1>6, <1>7, <1>8, <1>9, <1>10 DEF Next

-----------------------------------------------------------------------------
(* The inductive invariant.  ReservesBacked is inductive with the types     *)
(* alone, because release_reserves only touches completed curves and the    *)
(* rest adds at least as much money as it books.                            *)

IInv == TypeOK /\ RentExempt /\ ReservesBacked

LEMMA FieldTypes ==
    ASSUME TypeOK, NEW m \in Mints
    PROVE  /\ vault[m] \in Nat /\ CurveRent \in Nat /\ opening[m] \in Nat
           /\ tokens[m][Pda] \in Nat
           /\ bonding_curve[m].virtual_sol_reserves \in Nat
           /\ bonding_curve[m].virtual_token_reserves \in Nat
           /\ bonding_curve[m].is_completed \in BOOLEAN
           /\ global_config.curve_limit \in Nat
  BY ConstantsAssumption DEF TypeOK, BondingCurve, Config, U64, Owners

LEMMA InitIInv == Init => IInv
  BY InitType DEF Init, IInv, RentExempt, ReservesBacked

LEMMA NextIInv == IInv /\ [Next]_vars => IInv'
  <1> SUFFICES ASSUME IInv, [Next]_vars PROVE IInv'
    OBVIOUS
  <1>1. TypeOK /\ TypeOK' /\ OneCurve
    BY NextType, StepEffect DEF IInv
  <1>2. \A m \in Mints : Unaffected(m) \/ Affected(m)
    BY <1>1 DEF OneCurve
  <1>3. ASSUME NEW m \in Mints, m \in launched' PROVE vault'[m] >= CurveRent
    <2>1. /\ vault[m] \in Nat /\ vault'[m] \in Nat /\ CurveRent \in Nat
          /\ m \in launched => vault[m] >= CurveRent
      BY <1>1, FieldTypes DEF IInv, RentExempt, TypeOK
    <2>2. CASE Unaffected(m) \/ Received(m)
      BY <1>3, <2>1, <2>2 DEF Unaffected, Received, SameCurve
    <2>3. CASE Opened(m)
      BY <2>3 DEF Opened
    <2>4. CASE Bought(m) \/ Sold(m)
      BY <2>1, <2>4 DEF Bought, Sold, Trading, Lamports
    <2>5. CASE Released(m)
      BY <2>1, <2>5 DEF Released, Available
    <2> QED BY <1>2, <2>2, <2>3, <2>4, <2>5 DEF Affected
  <1>4. ASSUME NEW m \in Mints, m \in launched', ~bonding_curve'[m].is_completed
        PROVE  vault'[m] + opening'[m]
                 >= CurveRent + bonding_curve'[m].virtual_sol_reserves
    <2>1. /\ vault[m] \in Nat /\ vault'[m] \in Nat /\ CurveRent \in Nat
          /\ opening[m] \in Nat /\ opening'[m] \in Nat
          /\ bonding_curve[m].virtual_sol_reserves \in Nat
          /\ bonding_curve'[m].virtual_sol_reserves \in Nat
      <3>1. \A n \in U64 : n \in Nat
        BY ConstantsAssumption DEF U64
      <3> QED BY <1>1, <3>1, FieldTypes DEF TypeOK, BondingCurve
    <2>2. m \in launched /\ ~bonding_curve[m].is_completed =>
             vault[m] + opening[m] >= CurveRent + bonding_curve[m].virtual_sol_reserves
      BY DEF IInv, ReservesBacked
    <2>3. CASE Unaffected(m) \/ Received(m)
      BY <1>4, <2>1, <2>2, <2>3 DEF Unaffected, Received, SameCurve
    <2>4. CASE Opened(m)
      BY <2>1, <2>4 DEF Opened
    <2>5. CASE Bought(m)
      BY <2>1, <2>2, <2>5 DEF Bought, Trading, Lamports, VirtualSol
    <2>6. CASE Sold(m)
      BY <2>1, <2>2, <2>6 DEF Sold, Trading, Lamports, VirtualSol
    <2>7. CASE Released(m)
      BY <1>4, <2>7 DEF Released, SameCurve
    <2> QED BY <1>2, <2>3, <2>4, <2>5, <2>6, <2>7 DEF Affected
  <1>5. launched' \subseteq Mints
    BY <1>1 DEF TypeOK
  <1>6. RentExempt' /\ ReservesBacked'
    BY <1>3, <1>4, <1>5 DEF RentExempt, ReservesBacked
  <1> QED BY <1>1, <1>6 DEF IInv

\* Whatever the formula, however often curves are released: no curve account
\* falls below its rent-exempt minimum.
THEOREM CurvesStayRentExempt == Spec => []RentExempt
  <1>1. IInv => RentExempt
    BY DEF IInv
  <1> QED BY <1>1, InitIInv, NextIInv, PTL DEF Spec

\* Whatever the formula: the lamports at an open curve's address back all that
\* its virtual SOL reserves have gained since launch.
THEOREM OpenCurvesAreBacked == Spec => []ReservesBacked
  <1>1. IInv => ReservesBacked
    BY DEF IInv
  <1> QED BY <1>1, InitIInv, NextIInv, PTL DEF Spec

-----------------------------------------------------------------------------
(* Action properties, from the inductive invariant and the effects. *)

\* Completion is for good and freezes the reserves.
THEOREM CompletionIsFinal == Spec => CompletedIsFinal
  <1>1. TypeOK /\ [Next]_vars =>
          [\A m \in launched : bonding_curve[m].is_completed =>
              bonding_curve'[m] = bonding_curve[m]]_vars
    <2> SUFFICES ASSUME TypeOK, [Next]_vars, NEW m \in launched,
                        bonding_curve[m].is_completed
                 PROVE  bonding_curve'[m] = bonding_curve[m]
      OBVIOUS
    <2>1. Unaffected(m) \/ Affected(m)
      BY StepEffect DEF OneCurve, TypeOK
    <2> QED BY <2>1 DEF Affected, Unaffected, Received, Opened, Bought, Sold,
                        Trading, Released, SameCurve
  <1> QED BY <1>1, TypeCorrect, PTL DEF Spec, CompletedIsFinal

\* Pausing freezes every curve, whoever calls what.
THEOREM PauseIsComplete == Spec => PauseFreezesCurves
  <1> DEFINE P == global_config.paused =>
        /\ UNCHANGED <<bonding_curve, launched>>
        /\ \A m \in Mints : vault'[m] >= vault[m] /\ tokens'[m][Pda] >= tokens[m][Pda]
  <1>1. TypeOK /\ [Next]_vars => [P]_vars
    <2> SUFFICES ASSUME TypeOK, [Next]_vars, global_config.paused
                 PROVE  /\ UNCHANGED <<bonding_curve, launched>>
                        /\ \A m \in Mints : /\ vault'[m] >= vault[m]
                                            /\ tokens'[m][Pda] >= tokens[m][Pda]
      OBVIOUS
    <2>1. TypeOK' /\ OneCurve
      BY NextType, StepEffect
    <2>2. \A m \in Mints : Unaffected(m) \/ Received(m)
      BY <2>1 DEF OneCurve, Affected, Opened, Bought, Sold, Trading, Released
    <2>3. \A m \in Mints : vault[m] \in Nat /\ tokens[m][Pda] \in Nat
      BY FieldTypes
    <2>4. \A m \in Mints : vault'[m] >= vault[m] /\ tokens'[m][Pda] >= tokens[m][Pda]
      BY <2>2, <2>3 DEF Unaffected, Received
    <2>5. launched' = launched
      BY <2>1, <2>2 DEF Unaffected, Received, SameCurve, TypeOK
    <2>6. bonding_curve' = bonding_curve
      BY <2>1, <2>2 DEF Unaffected, Received, SameCurve, TypeOK
    <2> QED BY <2>4, <2>5, <2>6
  <1> QED BY <1>1, TypeCorrect, PTL DEF Spec, PauseFreezesCurves

\* What a step does that takes lamports out of a curve.
Swept(m) ==
    /\ m \in launched /\ bonding_curve[m].is_completed
    /\ ~global_config.paused /\ signer' = global_config.authority
    /\ vault'[m] = CurveRent /\ tokens'[m][Pda] = 0
    /\ \E r \in Wallets :
          /\ tokens'[m][r] = tokens[m][r] + tokens[m][Pda]
          /\ wallet'[r] + AtaRent >= wallet[r] + (vault[m] - vault'[m])

LEMMA TakesOut ==
    ASSUME TypeOK, [Next]_vars, NEW m \in Mints, vault'[m] < vault[m]
    PROVE  Swept(m)
  <1>1. Unaffected(m) \/ Affected(m)
    BY StepEffect DEF OneCurve
  <1>2. vault[m] \in Nat /\ vault'[m] \in Nat /\ CurveRent \in Nat
    BY FieldTypes, NextType DEF TypeOK
  <1>3. Released(m)
    BY <1>1, <1>2 DEF Affected, Unaffected, Received, Opened, Bought, Sold, Trading, Lamports
  <1>4. vault'[m] = CurveRent /\ Available(m) = vault[m] - vault'[m]
    BY <1>2, <1>3 DEF Released, Available
  <1> QED BY <1>3, <1>4 DEF Released, Swept

\* Only the authority's release of a completed curve takes lamports out, and it
\* takes all there is, with all tokens, to one recipient.
THEOREM OnlyReleaseTakesOut == Spec => ReservesLeaveOnlyByRelease
  <1>1. TypeOK /\ [Next]_vars => [\A m \in Mints : vault'[m] < vault[m] => Swept(m)]_vars
    BY TakesOut
  <1> QED BY <1>1, TypeCorrect, PTL DEF Spec, ReservesLeaveOnlyByRelease, Swept

LEMMA ConfigIsKept ==
    ASSUME [Next]_vars, global_config.authority # NoKey, signer' # global_config.authority
    PROVE  UNCHANGED global_config
  <1>1. CASE \E admin \in Wallets, c \in Configs : Configure(admin, c)
    BY <1>1 DEF Configure, MayConfigure, EnsureAdmin
  <1>2. CASE \E creator \in Wallets, m \in Mints : Launch(creator, m)
    BY <1>2 DEF Launch
  <1>3. CASE \E user, f \in Wallets, m \in Mints, amount, min_out \in Amounts,
               direction \in Directions : Swap(user, m, f, amount, direction, min_out)
    BY <1>3 DEF Swap
  <1>4. CASE \E payer \in Wallets : Migrate(payer)
    BY <1>4 DEF Migrate
  <1>5. CASE \E admin, r \in Wallets, m \in Mints : ReleaseReserves(admin, m, r)
    BY <1>5 DEF ReleaseReserves
  <1>6. CASE \E user \in Wallets, m \in Mints, n \in Amounts : SystemTransfer(user, m, n)
    BY <1>6 DEF SystemTransfer
  <1>7. CASE \E user \in Wallets, m \in Mints, to \in Owners, n \in Amounts :
               TokenTransfer(user, m, to, n)
    BY <1>7 DEF TokenTransfer
  <1>8. CASE \/ \E payer \in Wallets, m \in Mints, owner \in Owners : OpenAta(payer, m, owner)
             \/ \E user \in Wallets, m \in Mints : CloseAta(user, m)
    BY <1>8 DEF OpenAta, CloseAta
  <1>9. CASE UNCHANGED vars
    BY <1>9 DEF vars
  <1> QED BY <1>1, <1>2, <1>3, <1>4, <1>5, <1>6, <1>7, <1>8, <1>9 DEF Next

\* Once there is an authority, only its own signature changes the configuration, the
\* authority in it included, or takes lamports out of a curve.
THEOREM AuthorityRules == Spec => OnlyTheAuthorityRules
  <1>1. ASSUME TypeOK, [Next]_vars, global_config.authority # NoKey,
               signer' # global_config.authority, NEW m \in Mints
        PROVE  vault'[m] >= vault[m]
    <2>1. vault[m] \in Nat /\ vault'[m] \in Nat
      BY <1>1, NextType DEF TypeOK
    <2>2. ~(vault'[m] < vault[m])
      BY <1>1, TakesOut DEF Swept
    <2> QED BY <2>1, <2>2
  <1>2. TypeOK /\ [Next]_vars =>
          [global_config.authority # NoKey /\ signer' # global_config.authority =>
              /\ UNCHANGED global_config
              /\ \A m \in Mints : vault'[m] >= vault[m]]_vars
    BY <1>1, ConfigIsKept
  <1> QED BY <1>2, TypeCorrect, PTL DEF Spec, OnlyTheAuthorityRules

\* Whatever the formula, a buy books exactly the lamports and tokens it moves.
THEOREM BuysAreBooked == Spec => BuyMovesReserves
  <1>1. TypeOK /\ [Next]_vars =>
          [\A m \in launched :
             LET curve == bonding_curve[m]
                 sol == bonding_curve'[m].virtual_sol_reserves - curve.virtual_sol_reserves
             IN  ~bonding_curve[m].is_completed /\ (tokens'[m][Pda] < tokens[m][Pda] \/ sol > 0) =>
                   /\ vault'[m] - vault[m] = sol
                   /\ tokens'[m][Pda] - tokens[m][Pda] =
                        bonding_curve'[m].virtual_token_reserves - curve.virtual_token_reserves]_vars
    <2> SUFFICES ASSUME TypeOK, [Next]_vars, NEW m \in launched,
                        ~bonding_curve[m].is_completed,
                        tokens'[m][Pda] < tokens[m][Pda] \/ VirtualSol(m) > 0
                 PROVE  Lamports(m) = VirtualSol(m) /\ Tokens(m) = VirtualTokens(m)
      BY DEF Lamports, VirtualSol, Tokens, VirtualTokens
    <2>1. m \in Mints /\ (Unaffected(m) \/ Affected(m)) /\ TypeOK'
      BY StepEffect, NextType DEF OneCurve, TypeOK
    <2>2. /\ tokens[m][Pda] \in Nat /\ tokens'[m][Pda] \in Nat
          /\ bonding_curve[m].virtual_sol_reserves \in Nat
      BY <2>1, FieldTypes DEF TypeOK, Owners
    <2>3. CASE Unaffected(m) \/ Received(m)
      BY <2>2, <2>3 DEF Unaffected, Received, SameCurve, VirtualSol
    <2>4. CASE Opened(m) \/ Released(m)
      BY <2>4 DEF Opened, Released
    <2>5. CASE Bought(m)
      BY <2>5 DEF Bought
    <2>6. CASE Sold(m)
      <3>1. VirtualSol(m) \in Int
        <4>1. bonding_curve'[m].virtual_sol_reserves \in Nat
          <5>1. \A n \in U64 : n \in Nat
            BY ConstantsAssumption DEF U64
          <5> QED BY <2>1, <5>1 DEF TypeOK, BondingCurve
        <4> QED BY <2>2, <4>1 DEF VirtualSol
      <3> QED BY <2>2, <2>6, <3>1 DEF Sold, Tokens
    <2> QED BY <2>1, <2>3, <2>4, <2>5, <2>6 DEF Affected
  <1> QED BY <1>1, TypeCorrect, PTL DEF Spec, BuyMovesReserves

\* A curve that completes holds, with its opening reserves, the limit in lamports.
THEOREM CompletionIsFunded == Spec => CompletesFunded
  <1>1. IInv /\ [Next]_vars =>
          [\A m \in launched : ~bonding_curve[m].is_completed /\ bonding_curve'[m].is_completed =>
              vault'[m] + opening[m] >= CurveRent + global_config.curve_limit]_vars
    <2> SUFFICES ASSUME IInv, [Next]_vars, NEW m \in launched,
                        ~bonding_curve[m].is_completed, bonding_curve'[m].is_completed
                 PROVE  vault'[m] + opening[m] >= CurveRent + global_config.curve_limit
      OBVIOUS
    <2>1. TypeOK /\ TypeOK' /\ m \in Mints /\ (Unaffected(m) \/ Affected(m))
      BY StepEffect, NextType DEF OneCurve, TypeOK, IInv
    <2>2. Bought(m)
      BY <2>1 DEF Affected, Unaffected, Received, Opened, Sold, Released, SameCurve
    <2>3. vault[m] + opening[m] >= CurveRent + bonding_curve[m].virtual_sol_reserves
      BY DEF IInv, ReservesBacked
    <2>4. /\ vault[m] \in Nat /\ vault'[m] \in Nat /\ CurveRent \in Nat /\ opening[m] \in Nat
          /\ bonding_curve[m].virtual_sol_reserves \in Nat
          /\ global_config.curve_limit \in Nat
      BY <2>1, FieldTypes DEF TypeOK
    <2>5. bonding_curve'[m].virtual_sol_reserves \in Nat
      <3>1. \A n \in U64 : n \in Nat
        BY ConstantsAssumption DEF U64
      <3> QED BY <2>1, <3>1 DEF TypeOK, BondingCurve
    <2>6. /\ vault'[m] - vault[m] = bonding_curve'[m].virtual_sol_reserves
                                      - bonding_curve[m].virtual_sol_reserves
          /\ bonding_curve'[m].virtual_sol_reserves >= global_config.curve_limit
      BY <2>2 DEF Bought, Lamports, VirtualSol
    <2> QED BY <2>3, <2>4, <2>5, <2>6
  <1> QED BY <1>1, InitIInv, NextIInv, PTL DEF Spec, CompletesFunded

-----------------------------------------------------------------------------
(* Token accounts. *)

Holders == \A m \in Mints : \A o \in Owners : tokens[m][o] > 0 => o \in atas[m]

LEMMA NextHolders == TypeOK /\ Holders /\ [Next]_vars => Holders'
  <1> SUFFICES ASSUME TypeOK, Holders, [Next]_vars,
                      NEW d \in Mints, NEW o \in Owners, tokens'[d][o] > 0
               PROVE  o \in atas'[d]
    BY DEF Holders
  <1>0. tokens[d][o] > 0 => o \in atas[d]
    BY DEF Holders
  <1>1. CASE \E admin \in Wallets, c \in Configs : Configure(admin, c)
    BY <1>0, <1>1 DEF Configure
  <1>2. CASE \E creator \in Wallets, m \in Mints : Launch(creator, m)
    <2>1. PICK creator \in Wallets, m \in Mints : Launch(creator, m)
      BY <1>2
    <2> QED BY <1>0, <2>1 DEF Launch, TypeOK, Holders
  <1>3. CASE \E user, f \in Wallets, m \in Mints, amount, min_out \in Amounts,
               direction \in Directions : Swap(user, m, f, amount, direction, min_out)
    <2>1. PICK user \in Wallets, f \in Wallets, m \in Mints, amount \in Amounts,
               min_out \in Amounts, direction \in Directions :
                 Swap(user, m, f, amount, direction, min_out)
      BY <1>3
    <2>2. Pda \in atas[m] /\ atas' = [atas EXCEPT ![m] = @ \cup {user}]
      BY <2>1 DEF Swap, SwapGuards, Buy, Sell, TradeNothing, PaySol
    <2>3. CASE d # m
      BY <1>0, <2>1, <2>2, <2>3 DEF Swap, Buy, Sell, TradeNothing, MoveTokens, TypeOK
    <2>4. CASE d = m
      <3>1. CASE o \in {user, Pda}
        BY <2>2, <2>4, <3>1 DEF TypeOK
      <3>2. CASE o \notin {user, Pda}
        <4>1. tokens'[m][o] = tokens[m][o]
          <5>1. \/ tokens' = tokens
                \/ \E n : tokens' = [tokens EXCEPT ![m] = Sent(@, Pda, user, n)]
                \/ \E n : tokens' = [tokens EXCEPT ![m] = Sent(@, user, Pda, n)]
            BY <2>1 DEF Swap, Buy, Sell, TradeNothing, MoveTokens
          <5> QED BY <3>2, <5>1 DEF Sent, TypeOK
        <4> QED BY <1>0, <2>2, <2>4, <4>1 DEF TypeOK
      <3> QED BY <3>1, <3>2
    <2> QED BY <2>3, <2>4
  <1>4. CASE \E payer \in Wallets : Migrate(payer)
    BY <1>0, <1>4 DEF Migrate
  <1>5. CASE \E admin, r \in Wallets, m \in Mints : ReleaseReserves(admin, m, r)
    <2>1. PICK admin \in Wallets, r \in Wallets, m \in Mints : ReleaseReserves(admin, m, r)
      BY <1>5
    <2>2. CASE d # m
      BY <1>0, <2>1, <2>2 DEF ReleaseReserves, TypeOK
    <2>3. CASE d = m
      <3>1. tokens'[m][Pda] = 0
        BY <2>1, ReleaseEffect DEF Released
      <3>2. o # Pda /\ r # Pda
        BY <2>3, <3>1, ConstantsAssumption
      <3>3. o = r \/ tokens'[m][o] = tokens[m][o]
        BY <2>1, <3>2 DEF ReleaseReserves, Sent, TypeOK
      <3>4. o = r \/ o \in atas[m]
        BY <1>0, <2>3, <3>3
      <3> QED BY <2>1, <2>3, <3>2, <3>4 DEF ReleaseReserves, TypeOK
    <2> QED BY <2>2, <2>3
  <1>6. CASE \E user \in Wallets, m \in Mints, n \in Amounts : SystemTransfer(user, m, n)
    BY <1>0, <1>6 DEF SystemTransfer
  <1>7. CASE \E user \in Wallets, m \in Mints, to \in Owners, n \in Amounts :
               TokenTransfer(user, m, to, n)
    <2>1. PICK user \in Wallets, m \in Mints, to \in Owners, n \in Amounts :
                 TokenTransfer(user, m, to, n)
      BY <1>7
    <2>2. d # m \/ o \notin {user, to} => tokens'[d][o] = tokens[d][o]
      BY <2>1 DEF TokenTransfer, MoveTokens, Sent, TypeOK
    <2> QED BY <1>0, <2>1, <2>2 DEF TokenTransfer
  <1>8. CASE \E payer \in Wallets, m \in Mints, owner \in Owners : OpenAta(payer, m, owner)
    BY <1>0, <1>8 DEF OpenAta, TypeOK
  <1>9. CASE \E user \in Wallets, m \in Mints : CloseAta(user, m)
    BY <1>0, <1>9 DEF CloseAta, TypeOK
  <1>10. CASE UNCHANGED vars
    BY <1>0, <1>10 DEF vars
  <1> QED BY <1>1, <1>2, <1>3, <1>4, <1>5, <1>6, <1>7, <1>8, <1>9, <1>10 DEF Next

\* Tokens are always in an account that exists, and only a completed curve is
\* without its token account.
THEOREM NothingIsStranded == Spec => []NothingStranded
  <1> DEFINE Inv == TypeOK /\ NothingStranded
  <1>1. Init => Inv
    BY InitType DEF Init, NothingStranded
  <1>2. Inv /\ [Next]_vars => Inv'
    <2> SUFFICES ASSUME Inv, [Next]_vars PROVE Inv'
      OBVIOUS
    <2>1. TypeOK' /\ OneCurve
      BY NextType, StepEffect
    <2>2. Holders'
      BY NextHolders DEF NothingStranded, Holders
    <2>3. ASSUME NEW m \in Mints, m \in launched', Pda \notin atas'[m]
          PROVE  bonding_curve'[m].is_completed
      <3>1. m \in launched /\ Pda \notin atas[m] => bonding_curve[m].is_completed
        BY DEF NothingStranded
      <3>2. Unaffected(m) \/ Affected(m)
        BY <2>1 DEF OneCurve
      <3> QED BY <2>3, <3>1, <3>2 DEF Affected, Unaffected, Received, Opened, Bought,
                                     Sold, Trading, Released, SameCurve
    <2> QED BY <2>1, <2>2, <2>3 DEF NothingStranded, Holders
  <1>3. Inv => NothingStranded
    OBVIOUS
  <1> QED BY <1>1, <1>2, <1>3, PTL DEF Spec

-----------------------------------------------------------------------------
(* Refinement. *)

\* Pump implements Escrow under the mapping of PumpEscrow.
THEOREM PumpImplementsEscrow == Spec => ImplementsEscrow
  <1>1. Init => E!Init
    BY DEF Init, E!Init, Phase, Held, Stock, Owners
  <1>2. IInv /\ IInv' /\ [Next]_vars => [E!Next]_<<Phase, Held, Stock>>
    <2> SUFFICES ASSUME IInv, IInv', [Next]_vars,
                        ~UNCHANGED <<Phase, Held, Stock>>
                 PROVE  E!Next
      OBVIOUS
    <2>1. TypeOK /\ TypeOK' /\ RentExempt /\ RentExempt' /\ OneCurve
      BY StepEffect DEF IInv
    <2>2. E!TypeOK'
      <3>1. \A m \in Mints : Held'[m] \in Nat /\ Stock'[m] \in Nat
        BY <2>1, ConstantsAssumption DEF Held, Stock, RentExempt, TypeOK, Owners
      <3>2. \A m \in Mints : Phase'[m] \in {"none", "open", "closed"}
        BY DEF Phase
      <3> QED BY <3>1, <3>2 DEF E!TypeOK, Phase, Held, Stock
    <2>3. \A m \in Mints : Unaffected(m) => E!Untouched(m)
      BY DEF Unaffected, SameCurve, E!Untouched, Phase, Held, Stock
    <2>4. PICK m \in Mints : Affected(m) /\ \A d \in Mints \ {m} : Unaffected(d)
      <3>1. CASE \A m \in Mints : Unaffected(m)
        BY <2>3, <3>1 DEF E!Untouched, Phase, Held, Stock
      <3> QED BY <2>1, <3>1 DEF OneCurve
    <2>5. /\ vault[m] \in Nat /\ vault'[m] \in Nat /\ CurveRent \in Nat
          /\ tokens[m][Pda] \in Nat /\ tokens'[m][Pda] \in Nat
          /\ m \in launched => vault[m] >= CurveRent
      BY <2>1, FieldTypes DEF TypeOK, RentExempt, Owners
    <2>6. \/ E!Open(m) \/ E!Trade(m) \/ E!Add(m) \/ E!Drain(m) \/ E!Untouched(m)
      <3>1. CASE Received(m)
        <4>1. CASE m \notin launched
          BY <2>1, <3>1, <4>1
             DEF Received, SameCurve, E!Untouched, Phase, Held, Stock, TypeOK
        <4>2. CASE m \in launched
          BY <2>5, <3>1, <4>2
             DEF Received, SameCurve, E!Trade, E!Add, Phase, Held, Stock
        <4> QED BY <4>1, <4>2
      <3>2. CASE Opened(m)
        BY <3>2 DEF Opened, E!Open, Phase
      <3>3. CASE Bought(m) \/ Sold(m)
        BY <2>5, <3>3 DEF Bought, Sold, Trading, Lamports, E!Trade, Phase, Held
      <3>4. CASE Released(m)
        BY <2>5, <3>4
           DEF Released, SameCurve, Available, E!Drain, Phase, Held, Stock
      <3> QED BY <2>4, <3>1, <3>2, <3>3, <3>4 DEF Affected
    <2>7. ~E!Untouched(m)
      <3> SUFFICES ASSUME E!Untouched(m) PROVE FALSE
        OBVIOUS
      <3>1. \A d \in Mints : E!Untouched(d)
        BY <2>3, <2>4
      <3> QED BY <3>1 DEF E!Untouched, Phase, Held, Stock
    <2>8. \A d \in Mints \ {m} : E!Untouched(d)
      BY <2>3, <2>4
    <2>9. E!Open(m) \/ E!Trade(m) \/ E!Add(m) \/ E!Drain(m)
      BY <2>6, <2>7
    <2> QED BY <2>2, <2>8, <2>9 DEF E!Next
  <1> QED BY <1>1, <1>2, InitIInv, NextIInv, PTL DEF Spec, ImplementsEscrow, E!Spec, E!vars

=============================================================================
