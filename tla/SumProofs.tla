------------------------------- MODULE SumProofs -------------------------------
(***************************************************************************)
(* What SumFunction adds up: the sum over a finite set is an integer, is 0 *)
(* of zeros, and follows the change of one value.                          *)
(*                                                                         *)
(* It is a recursive function on the subsets of the domain; what it is on  *)
(* each of them is shown by taking a smallest one on which it would not be.*)
(***************************************************************************)
EXTENDS Functions, FiniteSets, FiniteSetTheorems, WellFoundedInduction, TLAPS

\* Every collection of finite sets with a member has one that contains no other.
LEMMA SmallestSet ==
    ASSUME NEW S, IsFiniteSet(S), NEW C, C \subseteq SUBSET S, C # {}
    PROVE  \E T \in C : \A U \in C : ~ (U \subseteq T /\ U # T)
  <1> DEFINE R == StrictSubsetOrdering(S)
             F == FiniteSubsetsOf(S)
  <1>1. IsWellFoundedOn(R, F)
    BY FS_StrictSubsetOrderingWellFounded
  <1>2. C \subseteq F
    BY FS_FiniteSubsetsOfFinite
  <1>3. \E x \in C : \A y \in C : ~ (<<y, x>> \in R)
    <2> HIDE DEF R, F
    <2> QED BY <1>1, <1>2, WFMin
  <1> QED BY <1>3 DEF StrictSubsetOrdering

Pick(U) == CHOOSE x \in U : TRUE

\* s is the sum of f over every subset of T.
Adds(s, f, T) ==
    s = [U \in SUBSET T |-> IF U = {} THEN 0 ELSE f[Pick(U)] + s[U \ {Pick(U)}]]

LEMMA SumIsChosen ==
    ASSUME NEW f
    PROVE  SumFunction(f) = (CHOOSE s : Adds(s, f, DOMAIN f))[DOMAIN f]
  BY DEF SumFunction, SumFunctionOnSet, FoldFunctionOnSet, MapThenFoldSet, Adds, Pick

LEMMA AddsAt ==
    ASSUME NEW s, NEW f, NEW T, Adds(s, f, T), NEW U \in SUBSET T
    PROVE  /\ U = {} => s[U] = 0
           /\ U # {} => /\ Pick(U) \in U /\ U \ {Pick(U)} \in SUBSET T
                        /\ s[U] = f[Pick(U)] + s[U \ {Pick(U)}]
  <1>1. U # {} => Pick(U) \in U
    BY DEF Pick
  <1>2. s[U] = IF U = {} THEN 0 ELSE f[Pick(U)] + s[U \ {Pick(U)}]
    BY DEF Adds
  <1> QED BY <1>1, <1>2

\* Two of them agree where both are defined.
LEMMA AddsAgree ==
    ASSUME NEW S, IsFiniteSet(S), NEW f, NEW T \in SUBSET S, NEW V \in SUBSET S,
           NEW s, NEW r, Adds(s, f, T), Adds(r, f, V),
           NEW U, U \subseteq T, U \subseteq V
    PROVE  s[U] = r[U]
  <1> DEFINE Apart == {W \in SUBSET S : W \subseteq T /\ W \subseteq V /\ s[W] # r[W]}
  <1>1. ASSUME Apart # {} PROVE FALSE
    <2>1. PICK W \in Apart : \A X \in Apart : ~ (X \subseteq W /\ X # W)
      <3>1. Apart \subseteq SUBSET S
        OBVIOUS
      <3> HIDE DEF Apart
      <3> QED BY <1>1, <3>1, SmallestSet
    <2>2. CASE W = {}
      BY <2>1, <2>2, AddsAt
    <2>3. CASE W # {}
      <3> DEFINE X == W \ {Pick(W)}
      <3>1. Pick(W) \in W
        BY <2>1, <2>3, AddsAt
      <3>2. X \subseteq W /\ X # W /\ X \in SUBSET S
        BY <2>1, <3>1
      <3>3. s[X] = r[X]
        BY <2>1, <3>2
      <3>4. s[W] = f[Pick(W)] + s[X] /\ r[W] = f[Pick(W)] + r[X]
        BY <2>1, <2>3, AddsAt
      <3> QED BY <2>1, <3>3, <3>4
    <2> QED BY <2>2, <2>3
  <1> QED BY <1>1

LEMMA SomeSum ==
    ASSUME NEW S, IsFiniteSet(S), NEW f
    PROVE  \E s : Adds(s, f, S)
  <1> DEFINE Without == {T \in SUBSET S : ~\E s : Adds(s, f, T)}
  <1>1. ASSUME Without # {} PROVE FALSE
    <2>1. PICK T \in Without : \A X \in Without : ~ (X \subseteq T /\ X # T)
      <3>1. Without \subseteq SUBSET S
        OBVIOUS
      <3> HIDE DEF Without
      <3> QED BY <1>1, <3>1, SmallestSet
    <2> DEFINE G(U) == CHOOSE s : Adds(s, f, U)
               At(U) == G(U)[U]
               step(U) == IF U = {} THEN 0 ELSE f[Pick(U)] + At(U \ {Pick(U)})
               h == [U \in SUBSET T |-> step(U)]
    <2>2. \A U \in SUBSET T : U # T => Adds(G(U), f, U)
      <3> SUFFICES ASSUME NEW U \in SUBSET T, U # T PROVE Adds(G(U), f, U)
        OBVIOUS
      <3>1. U \in SUBSET S /\ U \notin Without
        BY <2>1
      <3>2. \E s : Adds(s, f, U)
        BY <3>1
      <3> QED BY <3>2
    <2>3. ASSUME NEW U \in SUBSET T, U # T
          PROVE  At(U) = step(U)
      <3>1. Adds(G(U), f, U)
        BY <2>2, <2>3
      <3>2. CASE U = {}
        BY <3>1, <3>2, AddsAt
      <3>3. CASE U # {}
        <4> DEFINE X == U \ {Pick(U)}
        <4>1. Pick(U) \in U
          BY <3>3 DEF Pick
        <4>2. X \in SUBSET T /\ X # T /\ X \subseteq U
          BY <4>1
        <4>3. Adds(G(X), f, X)
          BY <2>2, <4>2
        <4>4. G(U)[U] = f[Pick(U)] + G(U)[X]
          <5> HIDE DEF G
          <5> QED BY <3>1, <3>3, AddsAt
        <4>5. G(U)[X] = G(X)[X]
          <5>1. U \in SUBSET S /\ X \in SUBSET S
            BY <2>1, <4>2
          <5> HIDE DEF G, X
          <5> QED BY <3>1, <4>2, <4>3, <5>1, AddsAgree
        <4> QED BY <3>3, <4>4, <4>5
      <3> QED BY <3>2, <3>3
    <2>4. ASSUME NEW U \in SUBSET T
          PROVE  h[U] = IF U = {} THEN 0 ELSE f[Pick(U)] + h[U \ {Pick(U)}]
      <3>1. CASE U = {}
        BY <3>1
      <3>2. CASE U # {}
        <4> DEFINE X == U \ {Pick(U)}
        <4>1. Pick(U) \in U
          BY <3>2 DEF Pick
        <4>2. X \in SUBSET T /\ X # T
          BY <4>1
        <4>3. At(X) = step(X)
          BY <2>3, <4>2
        <4>4. h[X] = step(X) /\ h[U] = step(U)
          BY <4>2
        <4>5. step(U) = f[Pick(U)] + At(X)
          BY <3>2
        <4> HIDE DEF step, At, h
        <4> QED BY <3>2, <4>3, <4>4, <4>5
      <3> QED BY <3>1, <3>2
    <2>5. Adds(h, f, T)
      <3>1. h = [U \in SUBSET T |-> h[U]]
        OBVIOUS
      <3> HIDE DEF h
      <3> QED BY <2>4, <3>1 DEF Adds
    <2> QED BY <2>1, <2>5
  <1>2. S \in SUBSET S
    OBVIOUS
  <1> QED BY <1>1, <1>2

\* The sum over a finite domain satisfies the equation that defines it.
LEMMA SumAdds ==
    ASSUME NEW S, IsFiniteSet(S), NEW f, DOMAIN f = S
    PROVE  \E s : Adds(s, f, S) /\ SumFunction(f) = s[S]
  BY SomeSum, SumIsChosen

LEMMA AddsInt ==
    ASSUME NEW S, IsFiniteSet(S), NEW f \in [S -> Int], NEW s, Adds(s, f, S),
           NEW U \in SUBSET S
    PROVE  s[U] \in Int
  <1> DEFINE Untyped == {W \in SUBSET S : s[W] \notin Int}
  <1>1. ASSUME Untyped # {} PROVE FALSE
    <2>1. PICK W \in Untyped : \A X \in Untyped : ~ (X \subseteq W /\ X # W)
      <3>1. Untyped \subseteq SUBSET S
        OBVIOUS
      <3> HIDE DEF Untyped
      <3> QED BY <1>1, <3>1, SmallestSet
    <2>2. CASE W = {}
      <3>1. W \in SUBSET S
        BY <2>1
      <3>2. s[W] = 0
        <4> HIDE DEF Untyped
        <4> QED BY <2>2, <3>1, AddsAt
      <3> QED BY <2>1, <3>2
    <2>3. CASE W # {}
      <3> DEFINE X == W \ {Pick(W)}
      <3>1. Pick(W) \in W /\ s[W] = f[Pick(W)] + s[X]
        BY <2>1, <2>3, AddsAt
      <3>2. X \subseteq W /\ X # W /\ X \in SUBSET S
        BY <2>1, <3>1
      <3>3. s[X] \in Int
        BY <2>1, <3>2
      <3>4. f[Pick(W)] \in Int
        BY <2>1, <3>1
      <3> QED BY <2>1, <3>1, <3>3, <3>4
    <2> QED BY <2>2, <2>3
  <1> QED BY <1>1

LEMMA SumInt ==
    ASSUME NEW S, IsFiniteSet(S), NEW f \in [S -> Int]
    PROVE  SumFunction(f) \in Int
  <1>1. PICK s : Adds(s, f, S) /\ SumFunction(f) = s[S]
    BY SumAdds
  <1> QED BY <1>1, AddsInt

\* When one value changes, the sum changes by as much.
LEMMA SumChange ==
    ASSUME NEW S, IsFiniteSet(S), NEW f \in [S -> Int], NEW g \in [S -> Int],
           NEW x \in S, \A y \in S \ {x} : g[y] = f[y]
    PROVE  SumFunction(g) = SumFunction(f) + g[x] - f[x]
  <1>1. PICK s : Adds(s, f, S) /\ SumFunction(f) = s[S]
    BY SumAdds
  <1>2. PICK r : Adds(r, g, S) /\ SumFunction(g) = r[S]
    BY SumAdds
  <1> DEFINE by(W) == IF x \in W THEN g[x] - f[x] ELSE 0
             Apart == {W \in SUBSET S : r[W] # s[W] + by(W)}
  <1>3. ASSUME Apart # {} PROVE FALSE
    <2>1. PICK W \in Apart : \A X \in Apart : ~ (X \subseteq W /\ X # W)
      <3>1. Apart \subseteq SUBSET S
        OBVIOUS
      <3> HIDE DEF Apart
      <3> QED BY <1>3, <3>1, SmallestSet
    <2> W \in SUBSET S
      BY <2>1
    <2>2. CASE W = {}
      <3>1. s[W] = 0 /\ r[W] = 0 /\ by(W) = 0
        <4>1. s[W] = 0
          <5> HIDE DEF Apart
          <5> QED BY <1>1, <2>2, AddsAt
        <4>2. r[W] = 0
          <5> HIDE DEF Apart
          <5> QED BY <1>2, <2>2, AddsAt
        <4> QED BY <2>2, <4>1, <4>2
      <3> QED BY <2>1, <3>1
    <2>3. CASE W # {}
      <3> DEFINE p == Pick(W)
                 X == W \ {p}
      <3>0. s[W] = f[p] + s[X] /\ p \in W
        <4> HIDE DEF Apart
        <4> QED BY <1>1, <2>3, AddsAt
      <3>9. r[W] = g[p] + r[X]
        <4> HIDE DEF Apart
        <4> QED BY <1>2, <2>3, AddsAt
      <3>1. p \in W /\ s[W] = f[p] + s[X] /\ r[W] = g[p] + r[X]
        BY <3>0, <3>9
      <3>2. X \subseteq W /\ X # W /\ X \in SUBSET S
        BY <2>1, <3>1
      <3>3. r[X] = s[X] + by(X)
        BY <2>1, <3>2
      <3>4. s[X] \in Int /\ r[X] \in Int /\ f[p] \in Int /\ g[p] \in Int
            /\ f[x] \in Int /\ g[x] \in Int
        BY <1>1, <1>2, <2>1, <3>1, <3>2, AddsInt
      <3>5. CASE p = x
        <4>1. by(X) = 0 /\ by(W) = g[x] - f[x]
          BY <3>1, <3>5
        <4> HIDE DEF by, p, X
        <4> QED BY <2>1, <3>1, <3>3, <3>4, <3>5, <4>1
      <3>6. CASE p # x
        <4>1. by(X) = by(W) /\ g[p] = f[p] /\ by(W) \in Int
          BY <2>1, <3>1, <3>4, <3>6
        <4> HIDE DEF by, p, X
        <4> QED BY <2>1, <3>1, <3>3, <3>4, <4>1
      <3> QED BY <3>5, <3>6
    <2> QED BY <2>2, <2>3
  <1>4. r[S] = s[S] + by(S)
    BY <1>3
  <1>5. s[S] \in Int /\ f[x] \in Int /\ g[x] \in Int
    BY <1>1, AddsInt
  <1> QED BY <1>1, <1>2, <1>4, <1>5

\* Nothing but zeros adds up to zero.
LEMMA SumZeros ==
    ASSUME NEW S, IsFiniteSet(S), NEW f, DOMAIN f = S, \A x \in S : f[x] = 0
    PROVE  SumFunction(f) = 0
  <1>1. PICK s : Adds(s, f, S) /\ SumFunction(f) = s[S]
    BY SumAdds
  <1> DEFINE Some == {W \in SUBSET S : s[W] # 0}
  <1>2. ASSUME Some # {} PROVE FALSE
    <2>1. PICK W \in Some : \A X \in Some : ~ (X \subseteq W /\ X # W)
      <3>1. Some \subseteq SUBSET S
        OBVIOUS
      <3> HIDE DEF Some
      <3> QED BY <1>2, <3>1, SmallestSet
    <2>2. CASE W = {}
      BY <1>1, <2>1, <2>2, AddsAt
    <2>3. CASE W # {}
      <3> DEFINE X == W \ {Pick(W)}
      <3>1. Pick(W) \in W /\ s[W] = f[Pick(W)] + s[X]
        BY <1>1, <2>1, <2>3, AddsAt
      <3>2. X \subseteq W /\ X # W /\ X \in SUBSET S /\ f[Pick(W)] = 0
        BY <2>1, <3>1
      <3>3. s[X] = 0
        BY <2>1, <3>2
      <3> QED BY <2>1, <3>1, <3>2, <3>3
    <2> QED BY <2>2, <2>3
  <1> QED BY <1>1, <1>2

===============================================================================
