---------------------------- MODULE PumpMoneyProofs ----------------------------
(* Nothing is made and nothing is lost: the sums of PumpMoney, for every      *)
(* finite set of wallets and of mints, every rent and every formula.          *)
EXTENDS PumpMoney, PumpProofs, SumProofs

-----------------------------------------------------------------------------
(* Sums of balances. *)

\* One balance that goes up, or down, by n.
LEMMA SumPlus ==
    ASSUME NEW S, IsFiniteSet(S), NEW w \in [S -> Int], NEW x \in S, NEW n \in Int
    PROVE  SumFunction([w EXCEPT ![x] = @ + n]) = SumFunction(w) + n
  <1> DEFINE g == [w EXCEPT ![x] = @ + n]
  <1>1. g \in [S -> Int] /\ g[x] = w[x] + n /\ \A y \in S \ {x} : g[y] = w[y]
    OBVIOUS
  <1>2. SumFunction(g) = SumFunction(w) + g[x] - w[x]
    <2> HIDE DEF g
    <2> QED BY <1>1, SumChange
  <1>3. SumFunction(w) \in Int /\ w[x] \in Int
    BY SumInt
  <1> HIDE DEF g
  <1>4. SumFunction(g) = SumFunction(w) + n
    BY <1>1, <1>2, <1>3
  <1> QED BY <1>4 DEF g

LEMMA SumMinus ==
    ASSUME NEW S, IsFiniteSet(S), NEW w \in [S -> Int], NEW x \in S, NEW n \in Int
    PROVE  SumFunction([w EXCEPT ![x] = @ - n]) = SumFunction(w) - n
  <1> DEFINE g == [w EXCEPT ![x] = @ - n]
  <1>1. g \in [S -> Int] /\ g[x] = w[x] - n /\ \A y \in S \ {x} : g[y] = w[y]
    OBVIOUS
  <1>2. SumFunction(g) = SumFunction(w) + g[x] - w[x]
    <2> HIDE DEF g
    <2> QED BY <1>1, SumChange
  <1>3. SumFunction(w) \in Int /\ w[x] \in Int
    BY SumInt
  <1> HIDE DEF g
  <1>4. SumFunction(g) = SumFunction(w) - n
    BY <1>1, <1>2, <1>3
  <1> QED BY <1>4 DEF g

\* A transfer leaves the sum as it is, to oneself too.
LEMMA SumSent ==
    ASSUME NEW S, IsFiniteSet(S), NEW w \in [S -> Nat], NEW u \in S, NEW f \in S,
           NEW n \in Nat
    PROVE  SumFunction(Sent(w, u, f, n)) = SumFunction(w)
  <1> DEFINE w1 == [w EXCEPT ![u] = @ - n]
  <1>1. w \in [S -> Int] /\ w1 \in [S -> Int] /\ n \in Int
    OBVIOUS
  <1>2. SumFunction(w1) = SumFunction(w) - n
    <2>1. SumFunction([w EXCEPT ![u] = @ - n]) = SumFunction(w) - n
      <3> HIDE DEF w1
      <3> QED BY <1>1, SumMinus
    <2> QED BY <2>1
  <1>3. SumFunction([w1 EXCEPT ![f] = @ + n]) = SumFunction(w1) + n
    <2> HIDE DEF w1
    <2> QED BY <1>1, SumPlus
  <1>4. SumFunction(w) \in Int
    BY <1>1, SumInt
  <1>5. Sent(w, u, f, n) = [w1 EXCEPT ![f] = @ + n]
    BY DEF Sent
  <1> HIDE DEF w1
  <1> QED BY <1>2, <1>3, <1>4, <1>5

LEMMA Finite == IsFiniteSet(Wallets) /\ IsFiniteSet(Mints) /\ IsFiniteSet(Owners)
  BY FiniteAssumption, FS_AddElement DEF Owners

\* Rents of token accounts: one account more, one account less.
LEMMA RentsType == ASSUME NEW A PROVE RentsOf(A) \in Int
  <1> DEFINE r == [o \in Owners |-> IF o \in A THEN AtaRent ELSE 0]
  <1>1. r \in [Owners -> Int]
    BY ConstantsAssumption
  <1> HIDE DEF r
  <1>2. SumFunction(r) \in Int
    BY <1>1, Finite, SumInt
  <1> QED BY <1>2 DEF RentsOf, r

LEMMA RentsUp ==
    ASSUME NEW A, NEW o \in Owners
    PROVE  RentsOf(A \cup {o}) = RentsOf(A) + (IF o \in A THEN 0 ELSE AtaRent)
  <1> DEFINE r(B) == [x \in Owners |-> IF x \in B THEN AtaRent ELSE 0]
             n == IF o \in A THEN 0 ELSE AtaRent
  <1>1. r(A) \in [Owners -> Int] /\ n \in Int
    BY ConstantsAssumption
  <1>2. r(A \cup {o}) = [r(A) EXCEPT ![o] = @ + n]
    <2>1. \A x \in Owners : r(A \cup {o})[x] = [r(A) EXCEPT ![o] = @ + n][x]
      BY ConstantsAssumption
    <2> QED BY <2>1
  <1>3. SumFunction([r(A) EXCEPT ![o] = @ + n]) = SumFunction(r(A)) + n
    <2> HIDE DEF r, n
    <2> QED BY <1>1, Finite, SumPlus
  <1> QED BY <1>2, <1>3 DEF RentsOf

LEMMA RentsDown ==
    ASSUME NEW A, NEW o \in A, o \in Owners
    PROVE  RentsOf(A \ {o}) = RentsOf(A) - AtaRent
  <1>1. (A \ {o}) \cup {o} = A
    OBVIOUS
  <1>2. RentsOf(A) = RentsOf(A \ {o}) + AtaRent
    BY <1>1, RentsUp
  <1> QED BY <1>2, RentsType, ConstantsAssumption


-----------------------------------------------------------------------------
(* Lamports.  What is paid out of wallets is deposited, by every action.    *)

Total == SumFunction(wallet) + SumFunction([m \in Mints |-> Deposits(m)]) + ConfigDeposit

\* A mint that is not launched has no token account.
Unborn == \A m \in Mints \ launched :
            atas[m] = {} /\ \A o \in Owners : tokens[m][o] = 0

LEMMA WalletSum == ASSUME TypeOK
                   PROVE  wallet \in [Wallets -> Int] /\ SumFunction(wallet) \in Int
  <1>1. wallet \in [Wallets -> Int]
    BY DEF TypeOK
  <1> QED BY <1>1, Finite, SumInt

LEMMA DepositsType == ASSUME TypeOK, NEW m \in Mints PROVE Deposits(m) \in Int
  <1>1. vault[m] \in Int /\ MintCost \in Int
    BY ConstantsAssumption DEF TypeOK
  <1> QED BY <1>1, RentsType DEF Deposits

\* n lamports go from wallets to accounts of m and nothing else is touched.
PaidIn(m, n) ==
    /\ n \in Int
    /\ SumFunction(wallet') = SumFunction(wallet) - n
    /\ Deposits(m)' = Deposits(m) + n
    /\ initialized' = initialized
    /\ \A d \in Mints \ {m} :
          /\ vault'[d] = vault[d] /\ atas'[d] = atas[d]
          /\ d \in launched' <=> d \in launched

LEMMA PaidInBalances ==
    ASSUME TypeOK, TypeOK', NEW m \in Mints, NEW n, PaidIn(m, n)
    PROVE  Total' = Total
  <1> DEFINE D == [d \in Mints |-> Deposits(d)]
             D1 == [d \in Mints |-> Deposits(d)']
  <1>1. D \in [Mints -> Int]
    BY DepositsType
  <1>2. D1 \in [Mints -> Int]
    <2>1. \A d \in Mints : Deposits(d)' \in Int
      <3>1. ASSUME NEW d \in Mints PROVE Deposits(d)' \in Int
        <4>1. vault'[d] \in Int /\ MintCost \in Int
          BY ConstantsAssumption DEF TypeOK
        <4> QED BY <4>1, RentsType DEF Deposits, RentsOf
      <3> QED BY <3>1
    <2> QED BY <2>1
  <1>3. D1[m] = D[m] + n /\ D[m] \in Int /\ n \in Int
    BY <1>1 DEF PaidIn
  <1>4. \A d \in Mints \ {m} : D1[d] = D[d]
    BY DEF PaidIn, Deposits, RentsOf
  <1>5. SumFunction(D1) = SumFunction(D) + n
    <2>1. SumFunction(D1) = SumFunction(D) + D1[m] - D[m]
      <3> HIDE DEF D, D1
      <3> QED BY <1>1, <1>2, <1>4, Finite, SumChange
    <2>2. SumFunction(D) \in Int
      <3> HIDE DEF D
      <3> QED BY <1>1, Finite, SumInt
    <2> HIDE DEF D, D1
    <2> QED BY <1>3, <2>1, <2>2
  <1>6. SumFunction(D) \in Int
    <2> HIDE DEF D
    <2> QED BY <1>1, Finite, SumInt
  <1>7. ConfigDeposit' = ConfigDeposit /\ ConfigDeposit \in Int
    BY ConstantsAssumption DEF PaidIn, ConfigDeposit
  <1>8. /\ Total = SumFunction(wallet) + SumFunction(D) + ConfigDeposit
        /\ Total' = SumFunction(wallet') + SumFunction(D1) + ConfigDeposit'
    BY DEF Total
  <1>9. SumFunction(wallet') = SumFunction(wallet) - n /\ SumFunction(wallet) \in Int
    BY WalletSum DEF PaidIn
  <1> HIDE DEF D, D1
  <1> QED BY <1>3, <1>5, <1>6, <1>7, <1>8, <1>9

\* One wallet pays n, or receives it.
LEMMA OnePays ==
    ASSUME TypeOK, NEW u \in Wallets, NEW n \in Int,
           wallet' = [wallet EXCEPT ![u] = @ - n]
    PROVE  SumFunction(wallet') = SumFunction(wallet) - n
  BY WalletSum, Finite, SumMinus

LEMMA OneReceives ==
    ASSUME TypeOK, NEW u \in Wallets, NEW n \in Int,
           wallet' = [wallet EXCEPT ![u] = @ + n]
    PROVE  SumFunction(wallet') = SumFunction(wallet) + n
  BY WalletSum, Finite, SumPlus

\* The token account of o is opened for m, if it is missing.
LEMMA AtaOpened ==
    ASSUME NEW m, NEW o \in Owners
    PROVE  RentsOf(atas[m] \cup {o}) = RentsOf(atas[m]) + AtaCost(o, m)
  BY RentsUp DEF AtaCost


LEMMA ConfigureBalances ==
    ASSUME TypeOK, NEW u \in Wallets, NEW c, Configure(u, c)
    PROVE  Total' = Total
  <1> DEFINE cost == IF initialized THEN 0 ELSE ConfigRent
  <1>1. cost \in Int /\ ConfigDeposit' = ConfigDeposit + cost /\ ConfigDeposit \in Int
    BY ConstantsAssumption DEF Configure, ConfigDeposit
  <1>2. wallet' = [wallet EXCEPT ![u] = @ - cost]
    BY DEF Configure
  <1> HIDE DEF cost
  <1>3. SumFunction(wallet') = SumFunction(wallet) - cost /\ SumFunction(wallet) \in Int
    BY <1>1, <1>2, OnePays, WalletSum
  <1> DEFINE D == SumFunction([m \in Mints |-> Deposits(m)])
  <1>4. D' = D
    BY DEF Configure, Deposits, RentsOf
  <1>5. D \in Int
    <2> DEFINE S == [m \in Mints |-> Deposits(m)]
    <2>1. S \in [Mints -> Int]
      BY DepositsType
    <2>2. SumFunction(S) \in Int
      <3> HIDE DEF S
      <3> QED BY <2>1, Finite, SumInt
    <2> QED BY <2>2
  <1>6. Total = SumFunction(wallet) + D + ConfigDeposit
        /\ Total' = SumFunction(wallet') + D' + ConfigDeposit'
    BY DEF Total
  <1> HIDE DEF D
  <1> QED BY <1>1, <1>3, <1>4, <1>5, <1>6

LEMMA LaunchPaysIn ==
    ASSUME TypeOK, Unborn, NEW u \in Wallets, NEW m \in Mints, Launch(u, m)
    PROVE  \E n : PaidIn(m, n)
  <1> DEFINE n == MintCost + RentShortfall(m) + AtaRent
  <1>1. /\ vault[m] \in Int /\ MintCost \in Int /\ AtaRent \in Int
        /\ RentShortfall(m) \in Int /\ RentsOf(atas[m]) \in Int /\ n \in Int
    BY ConstantsAssumption, RentsType DEF TypeOK, RentShortfall
  <1>2. wallet' = [wallet EXCEPT ![u] = @ - n]
    BY DEF Launch
  <1>3. SumFunction(wallet') = SumFunction(wallet) - n
    <2> HIDE DEF n
    <2> QED BY <1>1, <1>2, OnePays
  <1>4. /\ vault'[m] = vault[m] + RentShortfall(m) /\ atas'[m] = atas[m] \cup {Pda}
        /\ m \notin launched /\ m \in launched'
    BY DEF Launch, MintIsNew, TypeOK
  <1>5. RentsOf(atas'[m]) = RentsOf(atas[m]) + AtaRent
    <2>1. Pda \in Owners /\ Pda \notin atas[m]
      BY <1>4 DEF Owners, Unborn
    <2> QED BY <1>4, <2>1, RentsUp
  <1>6. Deposits(m)' = vault'[m] + MintCost + RentsOf(atas'[m])
    BY <1>4 DEF Deposits, RentsOf
  <1>7. Deposits(m) = vault[m] + 0 + RentsOf(atas[m])
    BY <1>4 DEF Deposits
  <1>8. Deposits(m)' = Deposits(m) + n
    BY <1>1, <1>4, <1>5, <1>6, <1>7
  <1>9. /\ initialized' = initialized
        /\ \A d \in Mints \ {m} : /\ vault'[d] = vault[d] /\ atas'[d] = atas[d]
                                  /\ d \in launched' <=> d \in launched
    BY DEF Launch, TypeOK
  <1> QED BY <1>1, <1>3, <1>8, <1>9 DEF PaidIn

\* The payments of a trade, and the rent of the token account it opens.
LEMMA PaySolPaysIn ==
    ASSUME TypeOK, NEW user \in Wallets, NEW f \in Wallets, NEW m \in Mints,
           NEW amount \in U64, NEW fee \in U64, wallet[user] >= AtaCost(user, m),
           PaySol(user, m, f, amount, fee)
    PROVE  SumFunction(wallet') = SumFunction(wallet) - (AtaCost(user, m) + (amount - fee))
  <1> DEFINE c == AtaCost(user, m)
             k == amount - fee
             w0 == [wallet EXCEPT ![user] = @ - c]
             w1 == Sent(w0, user, f, fee)
  <1>1. c \in Nat /\ c \in Int /\ k \in Int /\ fee \in Nat
    BY AtaCostType, PaySolFacts, ConstantsAssumption DEF U64
  <1>2. w0 \in [Wallets -> Nat] /\ wallet \in [Wallets -> Int]
    BY <1>1 DEF TypeOK
  <1>3. w0[user] >= fee
    BY DEF PaySol
  <1>4. wallet' = [w1 EXCEPT ![user] = @ - k]
    BY DEF PaySol
  <1>5. SumFunction(w0) = SumFunction(wallet) - c
    <2>1. SumFunction([wallet EXCEPT ![user] = @ - c]) = SumFunction(wallet) - c
      <3> HIDE DEF w0, c
      <3> QED BY <1>1, <1>2, Finite, SumMinus
    <2> QED BY <2>1
  <1>6. w1 \in [Wallets -> Nat] /\ SumFunction(w1) = SumFunction(w0)
    <2> HIDE DEF w0
    <2> QED BY <1>1, <1>2, <1>3, Finite, SentFacts, SumSent
  <1>7. SumFunction(wallet') = SumFunction(w1) - k
    <2> HIDE DEF w1, k
    <2>1. w1 \in [Wallets -> Int]
      BY <1>6
    <2> QED BY <1>1, <1>4, <2>1, Finite, SumMinus
  <1>8. SumFunction(wallet) \in Int
    BY WalletSum
  <1>9. SumFunction(wallet') = SumFunction(wallet) - (c + k)
    <2> HIDE DEF c, k, w0, w1
    <2> QED BY <1>1, <1>5, <1>6, <1>7, <1>8
  <1> QED BY <1>9

LEMMA SwapPaysIn ==
    ASSUME TypeOK, NEW user \in Wallets, NEW f \in Wallets, NEW m \in Mints,
           NEW amount \in U64, NEW min_out, NEW direction,
           Swap(user, m, f, amount, direction, min_out)
    PROVE  \E n : PaidIn(m, n)
  <1>1. wallet[user] >= AtaCost(user, m) /\ initialized' = initialized /\ launched' = launched
    BY DEF Swap, SwapGuards
  <1>2. ASSUME NEW k \in Int,
               SumFunction(wallet') = SumFunction(wallet) - (AtaCost(user, m) + k),
               vault' = [vault EXCEPT ![m] = @ + k],
               atas' = [atas EXCEPT ![m] = @ \cup {user}]
        PROVE  PaidIn(m, AtaCost(user, m) + k)
    <2>1. vault[m] \in Int /\ AtaCost(user, m) \in Int /\ RentsOf(atas[m]) \in Int
          /\ MintCost \in Int
      BY AtaCostType, RentsType, ConstantsAssumption DEF TypeOK
    <2>2. vault'[m] = vault[m] + k /\ atas'[m] = atas[m] \cup {user}
      BY <1>2 DEF TypeOK
    <2>3. RentsOf(atas'[m]) = RentsOf(atas[m]) + AtaCost(user, m)
      BY <2>2, AtaOpened DEF Owners
    <2> DEFINE cost == IF m \in launched THEN MintCost ELSE 0
    <2>4. cost \in Int /\ Deposits(m) = vault[m] + cost + RentsOf(atas[m])
      BY <2>1 DEF Deposits
    <2>5. Deposits(m)' = vault'[m] + cost + RentsOf(atas'[m])
      BY <1>1 DEF Deposits, RentsOf
    <2> HIDE DEF cost
    <2>6. Deposits(m)' = Deposits(m) + (AtaCost(user, m) + k)
      BY <1>2, <2>1, <2>2, <2>3, <2>4, <2>5
    <2>7. \A d \in Mints \ {m} : vault'[d] = vault[d] /\ atas'[d] = atas[d]
      BY <1>2 DEF TypeOK
    <2> QED BY <1>1, <1>2, <2>1, <2>6, <2>7 DEF PaidIn
  <1>3. ASSUME NEW fee \in U64, PaySol(user, m, f, amount, fee)
        PROVE  \E n : PaidIn(m, n)
    <2>1. /\ amount - fee \in Int
          /\ vault' = [vault EXCEPT ![m] = @ + (amount - fee)]
          /\ atas' = [atas EXCEPT ![m] = @ \cup {user}]
      BY <1>1, <1>3, PaySolFacts, ConstantsAssumption DEF U64
    <2>2. SumFunction(wallet') = SumFunction(wallet) - (AtaCost(user, m) + (amount - fee))
      BY <1>1, <1>3, PaySolPaysIn
    <2> QED BY <1>2, <2>1, <2>2
  <1>4. CASE TradeNothing(user, m)
    <2> DEFINE c == AtaCost(user, m)
    <2>1. c \in Int /\ wallet' = [wallet EXCEPT ![user] = @ - c]
      BY <1>4, AtaCostType DEF TradeNothing
    <2>2. SumFunction(wallet') = SumFunction(wallet) - c
      <3> HIDE DEF c
      <3> QED BY <2>1, OnePays
    <2>3. c + 0 = c /\ vault' = [vault EXCEPT ![m] = @ + 0]
      BY <1>4, <2>1 DEF TradeNothing, TypeOK
    <2>4. atas' = [atas EXCEPT ![m] = @ \cup {user}]
      BY <1>4 DEF TradeNothing
    <2>5. 0 \in Int /\ SumFunction(wallet') = SumFunction(wallet) - (AtaCost(user, m) + 0)
      BY <2>2, <2>3
    <2>6. PaidIn(m, AtaCost(user, m) + 0)
      BY <1>2, <2>3, <2>4, <2>5
    <2> QED BY <2>6
  <1>5. CASE \E q \in Quote : Buy(user, m, f, amount, min_out, q)
    BY <1>3, <1>5 DEF Buy, Quote
  <1>6. CASE \E q \in Quote : Sell(user, m, f, amount, min_out, q)
    BY <1>3, <1>6 DEF Sell, Quote
  <1> QED BY <1>4, <1>5, <1>6 DEF Swap


\* What release_reserves takes out of the curve and out of the account it
\* closes is what the recipient gets.
LEMMA ReleasePaysIn ==
    ASSUME TypeOK, NEW u \in Wallets, NEW m \in Mints, NEW r \in Wallets,
           ReleaseReserves(u, m, r)
    PROVE  \E n : PaidIn(m, n)
  <1> DEFINE c == AtaCost(r, m)
             back == IF tokens[m][Pda] > 0 THEN AtaRent ELSE 0
             out == Available(m) + back
             n == c - out
             w0 == [wallet EXCEPT ![u] = @ - c]
  <1>1. /\ c \in Int /\ back \in Int /\ Available(m) \in Int /\ out \in Int /\ n \in Int
        /\ vault[m] \in Int /\ MintCost \in Int /\ RentsOf(atas[m]) \in Int
    BY AtaCostType, RentsType, ConstantsAssumption DEF TypeOK, Available
  <1>2. /\ wallet' = [w0 EXCEPT ![r] = @ + out]
        /\ m \in launched /\ launched' = launched /\ initialized' = initialized
        /\ Pda \in atas[m]
    BY DEF ReleaseReserves, ReleaseGuards, Credited
  <1>3. wallet \in [Wallets -> Int] /\ w0 \in [Wallets -> Int]
    BY <1>1, WalletSum
  <1>4. SumFunction(w0) = SumFunction(wallet) - c /\ SumFunction(wallet) \in Int
    <2>1. SumFunction([wallet EXCEPT ![u] = @ - c]) = SumFunction(wallet) - c
      <3>1. c \in Int /\ IsFiniteSet(Wallets)
        BY <1>1, Finite
      <3> HIDE DEF w0, c, back, out, n
      <3> QED BY <1>3, <3>1, SumMinus
    <2> QED BY <2>1, WalletSum
  <1>5. SumFunction(wallet') = SumFunction(w0) + out
    <2>1. out \in Int /\ IsFiniteSet(Wallets)
      BY <1>1, Finite
    <2> HIDE DEF w0, c, back, out, n
    <2> QED BY <1>2, <1>3, <2>1, SumPlus
  <1>6. SumFunction(wallet') = SumFunction(wallet) - n
    <2> HIDE DEF c, out, w0
    <2> QED BY <1>1, <1>4, <1>5
  <1>7. vault'[m] = vault[m] - Available(m)
    BY DEF ReleaseReserves, TypeOK
  <1>8. RentsOf(atas'[m]) = RentsOf(atas[m]) + c - back
    <2> DEFINE A == atas[m] \cup {r}
    <2>1. RentsOf(A) = RentsOf(atas[m]) + c
      BY AtaOpened DEF Owners
    <2>2. Pda \in A /\ Pda \in Owners
      BY <1>2 DEF Owners
    <2>3. atas'[m] = A \ (IF tokens[m][Pda] > 0 THEN {Pda} ELSE {})
      BY DEF ReleaseReserves, TypeOK
    <2>4. CASE tokens[m][Pda] > 0
      <3>1. RentsOf(A \ {Pda}) = RentsOf(A) - AtaRent
        <4> HIDE DEF A
        <4> QED BY <2>2, RentsDown
      <3>2. atas'[m] = A \ {Pda} /\ back = AtaRent
        BY <2>3, <2>4
      <3> HIDE DEF A, c, back
      <3> QED BY <1>1, <2>1, <3>1, <3>2
    <2>5. CASE ~(tokens[m][Pda] > 0)
      <3>1. atas'[m] = A /\ back = 0
        BY <2>3, <2>5
      <3> HIDE DEF A, c, back
      <3> QED BY <1>1, <2>1, <3>1
    <2> QED BY <2>4, <2>5
  <1>9. Deposits(m) = vault[m] + MintCost + RentsOf(atas[m])
    BY <1>2 DEF Deposits
  <1>10. Deposits(m)' = vault'[m] + MintCost + RentsOf(atas'[m])
    BY <1>2 DEF Deposits, RentsOf
  <1>11. Deposits(m)' = Deposits(m) + n
    <2> HIDE DEF c, back
    <2> QED BY <1>1, <1>7, <1>8, <1>9, <1>10
  <1>12. \A d \in Mints \ {m} : vault'[d] = vault[d] /\ atas'[d] = atas[d]
    BY DEF ReleaseReserves, TypeOK
  <1> HIDE DEF n
  <1> QED BY <1>1, <1>2, <1>6, <1>11, <1>12 DEF PaidIn

\* What anyone may do with the accounts without the program.
LEMMA AccountPaysIn ==
    ASSUME TypeOK, NEW u \in Wallets, NEW m \in Mints, NEW o \in Owners, NEW n \in U64,
           SystemTransfer(u, m, n) \/ OpenAta(u, m, o) \/ CloseAta(u, m)
    PROVE  \E k : PaidIn(m, k)
  <1> DEFINE cost == IF m \in launched THEN MintCost ELSE 0
  <1>1. /\ launched' = launched /\ initialized' = initialized
        /\ \A d \in Mints \ {m} : vault'[d] = vault[d] /\ atas'[d] = atas[d]
    BY DEF SystemTransfer, OpenAta, CloseAta, TypeOK
  <1>2. /\ n \in Int /\ AtaRent \in Int /\ 0 - AtaRent \in Int /\ cost \in Int
        /\ vault[m] \in Int /\ RentsOf(atas[m]) \in Int
        /\ u \in Owners
    BY RentsType, ConstantsAssumption DEF TypeOK, U64, Owners
  <1>3. /\ Deposits(m) = vault[m] + cost + RentsOf(atas[m])
        /\ Deposits(m)' = vault'[m] + cost + RentsOf(atas'[m])
    BY <1>1 DEF Deposits, RentsOf
  <1> HIDE DEF cost
  <1>4. CASE SystemTransfer(u, m, n)
    <2>1. wallet' = [wallet EXCEPT ![u] = @ - n] /\ vault'[m] = vault[m] + n /\ atas' = atas
      BY <1>4 DEF SystemTransfer, TypeOK
    <2>2. SumFunction(wallet') = SumFunction(wallet) - n
      BY <1>2, <2>1, OnePays
    <2>3. Deposits(m)' = Deposits(m) + n
      BY <1>2, <1>3, <2>1
    <2> QED BY <1>1, <1>2, <2>2, <2>3 DEF PaidIn
  <1>5. CASE OpenAta(u, m, o)
    <2>1. /\ wallet' = [wallet EXCEPT ![u] = @ - AtaRent] /\ vault' = vault
          /\ atas'[m] = atas[m] \cup {o} /\ o \notin atas[m]
      BY <1>5 DEF OpenAta, TypeOK
    <2>2. SumFunction(wallet') = SumFunction(wallet) - AtaRent
      BY <1>2, <2>1, OnePays
    <2>3. RentsOf(atas'[m]) = RentsOf(atas[m]) + AtaRent
      BY <2>1, RentsUp
    <2>4. Deposits(m)' = Deposits(m) + AtaRent
      BY <1>2, <1>3, <2>1, <2>3
    <2> QED BY <1>1, <1>2, <2>2, <2>4 DEF PaidIn
  <1>6. CASE CloseAta(u, m)
    <2>1. /\ wallet' = [wallet EXCEPT ![u] = @ + AtaRent] /\ vault' = vault
          /\ atas'[m] = atas[m] \ {u} /\ u \in atas[m]
      BY <1>6 DEF CloseAta, TypeOK
    <2>2. SumFunction(wallet') = SumFunction(wallet) - (0 - AtaRent)
      <3>1. SumFunction(wallet') = SumFunction(wallet) + AtaRent
        BY <1>2, <2>1, OneReceives
      <3> QED BY <1>2, <3>1, WalletSum
    <2>3. RentsOf(atas'[m]) = RentsOf(atas[m]) - AtaRent
      BY <1>2, <2>1, RentsDown
    <2>4. Deposits(m)' = Deposits(m) + (0 - AtaRent)
      BY <1>2, <1>3, <2>1, <2>3
    <2> QED BY <1>1, <1>2, <2>2, <2>4 DEF PaidIn
  <1> QED BY <1>4, <1>5, <1>6


LEMMA NextBalances == TypeOK /\ Unborn /\ [Next]_vars => Total' = Total
  <1> SUFFICES ASSUME TypeOK, Unborn, [Next]_vars PROVE Total' = Total
    OBVIOUS
  <1>0. TypeOK' /\ Amounts \subseteq U64
    BY NextType, ConstantsAssumption
  <1>1. ASSUME UNCHANGED <<wallet, vault, atas, launched, initialized>>
        PROVE  Total' = Total
    BY <1>1 DEF Total, Deposits, RentsOf, ConfigDeposit
  <1>2. ASSUME \E m \in Mints : \E n : PaidIn(m, n)
        PROVE  Total' = Total
    BY <1>0, <1>2, PaidInBalances
  <1>3. CASE \E admin \in Wallets, c \in Configs : Configure(admin, c)
    BY <1>3, ConfigureBalances
  <1>4. CASE \E creator \in Wallets, m \in Mints : Launch(creator, m)
    BY <1>2, <1>4, LaunchPaysIn
  <1>5. CASE \E user, f \in Wallets, m \in Mints, amount, min_out \in Amounts,
               direction \in Directions : Swap(user, m, f, amount, direction, min_out)
    BY <1>0, <1>2, <1>5, SwapPaysIn
  <1>6. CASE \E payer \in Wallets : Migrate(payer)
    BY <1>1, <1>6 DEF Migrate
  <1>7. CASE \E admin, r \in Wallets, m \in Mints : ReleaseReserves(admin, m, r)
    BY <1>2, <1>7, ReleasePaysIn
  <1>8. CASE \E user \in Wallets, m \in Mints, n \in Amounts : SystemTransfer(user, m, n)
    <2>1. Pda \in Owners
      BY DEF Owners
    <2> QED BY <1>0, <1>2, <1>8, <2>1, AccountPaysIn
  <1>9. CASE \E user \in Wallets, m \in Mints, to \in Owners, n \in Amounts :
               TokenTransfer(user, m, to, n)
    BY <1>1, <1>9 DEF TokenTransfer
  <1>10. CASE \E payer \in Wallets, m \in Mints, owner \in Owners : OpenAta(payer, m, owner)
    <2>1. 0 \in U64
      BY ConstantsAssumption DEF U64
    <2> QED BY <1>2, <1>10, <2>1, AccountPaysIn
  <1>11. CASE \E user \in Wallets, m \in Mints : CloseAta(user, m)
    <2>1. 0 \in U64 /\ Pda \in Owners
      BY ConstantsAssumption DEF U64, Owners
    <2> QED BY <1>2, <1>11, <2>1, AccountPaysIn
  <1>12. CASE UNCHANGED vars
    BY <1>1, <1>12 DEF vars
  <1> QED BY <1>3, <1>4, <1>5, <1>6, <1>7, <1>8, <1>9, <1>10, <1>11, <1>12 DEF Next

-----------------------------------------------------------------------------
(* Tokens.                                                                  *)

\* The tokens of m stay as they are, or some are sent from one owner to another.
Moves(m) ==
    \/ tokens'[m] = tokens[m]
    \/ \E from, to \in Owners, n \in Nat :
          tokens[m][from] >= n /\ tokens'[m] = Sent(tokens[m], from, to, n)

LEMMA MovesSum ==
    ASSUME TypeOK, NEW m \in Mints, Moves(m)
    PROVE  SumFunction(tokens'[m]) = SumFunction(tokens[m])
  <1>1. tokens[m] \in [Owners -> Nat]
    BY DEF TypeOK
  <1> QED BY <1>1, Finite, SumSent DEF Moves

\* Nothing but tokens of m from one owner to another, and new token accounts.
MovedOnly ==
    /\ launched' = launched
    /\ \A d \in Mints : Moves(d)
    /\ \A d \in Mints : bonding_curve'[d].token_total_supply
                            = bonding_curve[d].token_total_supply
    /\ \A d \in Mints \ launched : atas'[d] = atas[d] /\ tokens'[d] = tokens[d]

\* The whole supply is minted to the curve of a mint that had no tokens.
LEMMA LaunchMints ==
    ASSUME TypeOK, Unborn, NEW u \in Wallets, NEW m \in Mints, Launch(u, m)
    PROVE  SumFunction(tokens'[m]) = bonding_curve'[m].token_total_supply
  <1> DEFINE n == global_config.total_token_supply
  <1>1. n \in Int /\ n \in Nat
    BY ConstantsAssumption DEF TypeOK, Config, U64
  <1>2. m \notin launched /\ bonding_curve'[m].token_total_supply = n
    BY DEF Launch, MintIsNew, LaunchedCurve, TypeOK
  <1>3. tokens[m] \in [Owners -> Int] /\ DOMAIN tokens[m] = Owners
        /\ \A o \in Owners : tokens[m][o] = 0
    BY <1>2 DEF TypeOK, Unborn
  <1>4. SumFunction(tokens[m]) = 0
    BY <1>3, Finite, SumZeros
  <1>5. tokens'[m] = [tokens[m] EXCEPT ![Pda] = n]
    BY DEF Launch, TypeOK
  <1>6. Pda \in Owners
    BY DEF Owners
  <1>7. tokens'[m] = [tokens[m] EXCEPT ![Pda] = @ + n]
    <2>1. tokens[m][Pda] + n = n
      BY <1>1, <1>3, <1>6
    <2> QED BY <1>5, <2>1
  <1> HIDE DEF n
  <1>8. SumFunction(tokens'[m]) = SumFunction(tokens[m]) + n
    <2>1. n \in Int /\ IsFiniteSet(Owners)
      BY <1>1, Finite
    <2> QED BY <1>3, <1>6, <1>7, <2>1, SumPlus
  <1> QED BY <1>1, <1>2, <1>4, <1>8


LEMMA SwapMoves ==
    ASSUME TypeOK, NEW user \in Wallets, NEW f \in Wallets, NEW m \in Mints,
           NEW amount, NEW min_out, NEW direction,
           Swap(user, m, f, amount, direction, min_out)
    PROVE  MovedOnly
  <1>1. launched' = launched /\ m \in launched
    BY DEF Swap, SwapGuards
  <1>2. atas' = [atas EXCEPT ![m] = @ \cup {user}]
    BY DEF Swap, Buy, Sell, TradeNothing, PaySol
  <1>3. \A d \in Mints \ launched : atas'[d] = atas[d]
    BY <1>1, <1>2 DEF TypeOK
  <1>4. ASSUME NEW from \in Owners, NEW to \in Owners, NEW n \in U64,
               MoveTokens(m, from, to, n)
        PROVE  /\ \A d \in Mints : Moves(d)
               /\ \A d \in Mints \ launched : tokens'[d] = tokens[d]
    <2>1. n \in Nat
      BY ConstantsAssumption DEF U64
    <2>2. tokens[m][from] >= n /\ tokens'[m] = Sent(tokens[m], from, to, n)
      BY <1>4 DEF MoveTokens, TypeOK
    <2>3. \A d \in Mints \ {m} : tokens'[d] = tokens[d]
      BY <1>4 DEF MoveTokens, TypeOK
    <2> QED BY <1>1, <2>1, <2>2, <2>3 DEF Moves
  <1>5. user \in Owners /\ Pda \in Owners
    BY DEF Owners
  <1>6. CASE TradeNothing(user, m)
    BY <1>1, <1>3, <1>6 DEF TradeNothing, Moves, MovedOnly
  <1>7. CASE \E q \in Quote : Buy(user, m, f, amount, min_out, q)
    <2>1. PICK q \in Quote : Buy(user, m, f, amount, min_out, q)
      BY <1>7
    <2>2. MoveTokens(m, Pda, user, q.out) /\ q.out \in U64
      BY <2>1 DEF Buy, Quote
    <2>3. \A d \in Mints : bonding_curve'[d].token_total_supply
                             = bonding_curve[d].token_total_supply
      BY <2>1 DEF Buy, UpdateReserves, TypeOK, BondingCurve
    <2> QED BY <1>1, <1>3, <1>4, <1>5, <2>2, <2>3 DEF MovedOnly
  <1>8. CASE \E q \in Quote : Sell(user, m, f, amount, min_out, q)
    <2>1. PICK q \in Quote : Sell(user, m, f, amount, min_out, q)
      BY <1>8
    <2>2. MoveTokens(m, user, Pda, q.out) /\ q.out \in U64
      BY <2>1 DEF Sell, Quote
    <2>3. \A d \in Mints : bonding_curve'[d].token_total_supply
                             = bonding_curve[d].token_total_supply
      BY <2>1 DEF Sell, UpdateReserves, TypeOK, BondingCurve
    <2> QED BY <1>1, <1>3, <1>4, <1>5, <2>2, <2>3 DEF MovedOnly
  <1> QED BY <1>6, <1>7, <1>8 DEF Swap

LEMMA NextMoves ==
    ASSUME TypeOK, Unborn, [Next]_vars,
           ~ \E u \in Wallets, m \in Mints : Launch(u, m)
    PROVE  MovedOnly
  <1>0. Amounts \subseteq U64 /\ \A n \in U64 : n \in Nat
    BY ConstantsAssumption DEF U64
  <1>1. ASSUME UNCHANGED <<launched, tokens, bonding_curve>>,
               \A d \in Mints \ launched : atas'[d] = atas[d]
        PROVE  MovedOnly
    BY <1>1 DEF MovedOnly, Moves
  <1>2. CASE \E admin \in Wallets, c \in Configs : Configure(admin, c)
    BY <1>1, <1>2 DEF Configure
  <1>3. CASE \E user, f \in Wallets, m \in Mints, amount, min_out \in Amounts,
               direction \in Directions : Swap(user, m, f, amount, direction, min_out)
    BY <1>3, SwapMoves
  <1>4. CASE \E payer \in Wallets : Migrate(payer)
    BY <1>1, <1>4 DEF Migrate
  <1>5. CASE \E admin, r \in Wallets, m \in Mints : ReleaseReserves(admin, m, r)
    <2>1. PICK admin \in Wallets, r \in Wallets, m \in Mints : ReleaseReserves(admin, m, r)
      BY <1>5
    <2>2. m \in launched /\ UNCHANGED <<launched, bonding_curve>>
      BY <2>1 DEF ReleaseReserves, ReleaseGuards
    <2>3. \A d \in Mints \ {m} : atas'[d] = atas[d] /\ tokens'[d] = tokens[d]
      BY <2>1 DEF ReleaseReserves, TypeOK
    <2>4. Moves(m)
      <3>1. Pda \in Owners /\ r \in Owners
        BY DEF Owners
      <3>2. tokens[m][Pda] \in Nat /\ tokens[m][Pda] >= tokens[m][Pda]
        BY <3>1 DEF TypeOK
      <3>3. tokens'[m] = Sent(tokens[m], Pda, r, tokens[m][Pda])
        BY <2>1 DEF ReleaseReserves, TypeOK
      <3> QED BY <3>1, <3>2, <3>3 DEF Moves
    <2>5. \A d \in Mints : Moves(d)
      BY <2>3, <2>4 DEF Moves
    <2> QED BY <2>2, <2>3, <2>5 DEF MovedOnly
  <1>6. CASE \E user \in Wallets, m \in Mints, n \in Amounts : SystemTransfer(user, m, n)
    BY <1>1, <1>6 DEF SystemTransfer
  <1>7. CASE \E user \in Wallets, m \in Mints, to \in Owners, n \in Amounts :
               TokenTransfer(user, m, to, n)
    <2>1. PICK user \in Wallets, m \in Mints, to \in Owners, n \in Amounts :
                 TokenTransfer(user, m, to, n)
      BY <1>7
    <2>2. /\ UNCHANGED <<launched, bonding_curve, atas>> /\ user \in atas[m]
          /\ tokens[m][user] >= n /\ tokens'[m] = Sent(tokens[m], user, to, n)
      BY <2>1 DEF TokenTransfer, MoveTokens, TypeOK
    <2>3. m \in launched
      BY <2>2 DEF Unborn
    <2>4. \A d \in Mints \ {m} : tokens'[d] = tokens[d]
      BY <2>1 DEF TokenTransfer, MoveTokens, TypeOK
    <2>5. user \in Owners /\ n \in Nat
      BY <1>0 DEF Owners
    <2>6. \A d \in Mints : Moves(d)
      BY <2>2, <2>4, <2>5 DEF Moves
    <2> QED BY <2>2, <2>3, <2>4, <2>6 DEF MovedOnly
  <1>8. CASE \E payer \in Wallets, m \in Mints, owner \in Owners : OpenAta(payer, m, owner)
    BY <1>1, <1>8 DEF OpenAta, TypeOK
  <1>9. CASE \E user \in Wallets, m \in Mints : CloseAta(user, m)
    <2>1. PICK user \in Wallets, m \in Mints : CloseAta(user, m)
      BY <1>9
    <2>2. m \in launched
      BY <2>1 DEF CloseAta, Unborn
    <2> QED BY <1>1, <2>1, <2>2 DEF CloseAta, TypeOK
  <1>10. CASE UNCHANGED vars
    BY <1>1, <1>10 DEF vars
  <1> QED BY <1>2, <1>3, <1>4, <1>5, <1>6, <1>7, <1>8, <1>9, <1>10 DEF Next

LEMMA NextUnborn == TypeOK /\ Unborn /\ [Next]_vars => Unborn'
  <1> SUFFICES ASSUME TypeOK, Unborn, [Next]_vars PROVE Unborn'
    OBVIOUS
  <1>1. CASE \E u \in Wallets, m \in Mints : Launch(u, m)
    BY <1>1 DEF Launch, Unborn, TypeOK
  <1>2. CASE ~ \E u \in Wallets, m \in Mints : Launch(u, m)
    BY <1>2, NextMoves DEF MovedOnly, Unborn
  <1> QED BY <1>1, <1>2

LEMMA NextSupply ==
    ASSUME TypeOK, Unborn, SupplyConserved, [Next]_vars
    PROVE  SupplyConserved'
  <1>1. CASE \E u \in Wallets, m \in Mints : Launch(u, m)
    <2>1. PICK u \in Wallets, m \in Mints : Launch(u, m)
      BY <1>1
    <2>2. SumFunction(tokens'[m]) = bonding_curve'[m].token_total_supply
      BY <2>1, LaunchMints
    <2>3. \A d \in launched' \ {m} :
            /\ d \in launched /\ tokens'[d] = tokens[d]
            /\ bonding_curve'[d] = bonding_curve[d]
      BY <2>1 DEF Launch, TypeOK
    <2> QED BY <2>2, <2>3 DEF SupplyConserved
  <1>2. CASE ~ \E u \in Wallets, m \in Mints : Launch(u, m)
    <2>1. MovedOnly
      BY <1>2, NextMoves
    <2>2. \A m \in launched : SumFunction(tokens'[m]) = SumFunction(tokens[m])
      BY <2>1, MovesSum DEF MovedOnly, TypeOK
    <2> QED BY <2>1, <2>2 DEF MovedOnly, SupplyConserved, TypeOK
  <1> QED BY <1>1, <1>2

-----------------------------------------------------------------------------
(* The theorems.                                                            *)

MoneyInv == TypeOK /\ Unborn /\ Total = SumFunction(Funds) /\ SupplyConserved

LEMMA InitMoney == Init => MoneyInv
  <1> SUFFICES ASSUME Init PROVE MoneyInv
    OBVIOUS
  <1>1. TypeOK
    BY InitType
  <1>2. Unborn /\ SupplyConserved
    BY DEF Init, Unborn, SupplyConserved
  <1>3. \A m \in Mints : Deposits(m) = 0
    <2>1. RentsOf({}) = 0
      <3> DEFINE r == [o \in Owners |-> IF o \in {} THEN AtaRent ELSE 0]
      <3>1. DOMAIN r = Owners /\ \A o \in Owners : r[o] = 0
        OBVIOUS
      <3> HIDE DEF r
      <3>2. SumFunction(r) = 0
        BY <3>1, Finite, SumZeros
      <3> QED BY <3>2 DEF RentsOf, r
    <2> QED BY <2>1 DEF Init, Deposits
  <1>4. SumFunction([m \in Mints |-> Deposits(m)]) = 0
    <2> DEFINE D == [m \in Mints |-> Deposits(m)]
    <2>1. DOMAIN D = Mints /\ \A m \in Mints : D[m] = 0
      BY <1>3
    <2>2. SumFunction(D) = 0
      <3> HIDE DEF D
      <3> QED BY <2>1, Finite, SumZeros
    <2> QED BY <2>2
  <1>5. Total = SumFunction(wallet) + 0 + 0
    BY <1>4 DEF Total, ConfigDeposit, Init
  <1>6. SumFunction(wallet) \in Int /\ wallet = Funds
    BY <1>1, WalletSum DEF Init
  <1> QED BY <1>1, <1>2, <1>5, <1>6 DEF MoneyInv

LEMMA NextMoney == MoneyInv /\ [Next]_vars => MoneyInv'
  BY NextType, NextUnborn, NextBalances, NextSupply DEF MoneyInv

\* No instruction makes lamports or loses any: fees, deposits, rents, what
\* release_reserves moves by hand and what closed accounts give back add up.
THEOREM LamportsAreConserved == Spec => []LamportsConserved
  <1>1. MoneyInv => LamportsConserved
    BY DEF MoneyInv, Total, LamportsConserved
  <1> QED BY <1>1, InitMoney, NextMoney, PTL DEF Spec

\* The supply of a mint is what its curve says, whoever holds it: launch mints
\* it once, and swap and release_reserves only move it.
THEOREM SupplyIsConserved == Spec => []SupplyConserved
  <1>1. MoneyInv => SupplyConserved
    BY DEF MoneyInv
  <1> QED BY <1>1, InitMoney, NextMoney, PTL DEF Spec

===============================================================================
