----------------------------- MODULE LayoutProofs -----------------------------
(***************************************************************************)
(* What Layout promises of any description of fields: offsets exist, no    *)
(* two fields overlap, and a reader that knows the first fields of what a  *)
(* writer wrote reads what was written.  Then the descriptions the         *)
(* repository keeps, one by one.                                           *)
(*                                                                         *)
(* Offsets is a recursive function: that it is one at all, and what it     *)
(* computes for a list of any length, is shown by taking a least number    *)
(* for which it would fail.                                                *)
(***************************************************************************)
EXTENDS Layout, WellFoundedInduction, TLAPS

\* Every set of numbers with a member has a least one.
LEMMA LeastNumber ==
    ASSUME NEW T, T \subseteq Nat, T # {}
    PROVE  \E x \in T : \A y \in T : x <= y
  <1> DEFINE R == {ss \in Nat \X Nat : ss[1] < ss[2]}
  <1>1. IsWellFoundedOn(R, Nat)
    BY NatLessThanWellFounded DEF OpToRel
  <1>2. PICK x \in T : \A y \in T : ~ (<<y, x>> \in R)
    <2> HIDE DEF R
    <2> QED BY <1>1, WFMin
  <1>3. \A y \in T : ~ (y < x)
    BY <1>2
  <1> QED BY <1>3

\* A list of fields of known types.
IsFields(fields) ==
    /\ Len(fields) \in Nat /\ DOMAIN fields = 1 .. Len(fields)
    /\ \A i \in DOMAIN fields : fields[i].type \in DOMAIN Width

\* A description: no name occurs twice in it.
IsDescription(fields) ==
    /\ IsFields(fields)
    /\ \A i, j \in DOMAIN fields : fields[i].name = fields[j].name => i = j

LEMMA Widths == \A type \in DOMAIN Width : Width[type] \in Nat \ {0}
  BY DEF Width

-----------------------------------------------------------------------------
(* The recursion behind Offsets has a solution, and increases. *)

\* Where the first n fields begin, as far as g knows it.
Lays(g, fields, n) ==
    g = [i \in 1 .. n |-> IF i = 1 THEN DiscriminatorSize
                          ELSE g[i - 1] + Width[fields[i - 1].type]]

LEMMA LaysOneMore ==
    ASSUME NEW fields, NEW n \in Nat \ {0}, NEW g, Lays(g, fields, n)
    PROVE  \E h : Lays(h, fields, n + 1)
  <1> DEFINE h == [i \in 1 .. n + 1 |-> IF i = n + 1 THEN g[n] + Width[fields[n].type]
                                        ELSE g[i]]
             step(i) == IF i = 1 THEN DiscriminatorSize
                        ELSE h[i - 1] + Width[fields[i - 1].type]
  <1>1. \A i \in 1 .. n : g[i] = IF i = 1 THEN DiscriminatorSize
                                 ELSE g[i - 1] + Width[fields[i - 1].type]
    BY DEF Lays
  <1>2. ASSUME NEW i \in 1 .. n + 1
        PROVE  h[i] = step(i)
    <2>1. CASE i = n + 1
      BY <2>1
    <2>2. CASE i # n + 1 /\ i = 1
      BY <1>1, <2>2
    <2>3. CASE i # n + 1 /\ i # 1
      <3>1. i \in 1 .. n /\ i - 1 \in 1 .. n /\ i - 1 # n + 1
        BY <2>3
      <3>2. h[i] = g[i] /\ h[i - 1] = g[i - 1]
        BY <2>3, <3>1
      <3> QED BY <1>1, <2>3, <3>1, <3>2
    <2> QED BY <2>1, <2>2, <2>3
  <1>3. h = [i \in 1 .. n + 1 |-> step(i)]
    BY <1>2
  <1>4. Lays(h, fields, n + 1)
    BY <1>3 DEF Lays
  <1> QED BY <1>4

LEMMA SomeLayout ==
    ASSUME NEW fields, NEW n \in Nat \ {0}
    PROVE  \E g : Lays(g, fields, n)
  <1> DEFINE Without == {k \in Nat \ {0} : ~\E g : Lays(g, fields, k)}
  <1>1. ASSUME Without # {}
        PROVE  FALSE
    <2>1. PICK k \in Without : \A l \in Without : k <= l
      <3>1. Without \subseteq Nat
        OBVIOUS
      <3> HIDE DEF Without
      <3> QED BY <1>1, <3>1, LeastNumber
    <2>2. CASE k = 1
      <3> DEFINE g == [i \in 1 .. 1 |-> DiscriminatorSize]
      <3>1. Lays(g, fields, 1)
        BY DEF Lays
      <3> QED BY <2>1, <2>2, <3>1
    <2>3. CASE k # 1
      <3>1. k - 1 \in Nat \ {0} /\ k - 1 \notin Without
        BY <2>1, <2>3
      <3>2. PICK g : Lays(g, fields, k - 1)
        BY <3>1
      <3>3. \E h : Lays(h, fields, k)
        BY <3>1, <3>2, LaysOneMore
      <3> QED BY <2>1, <3>3
    <2> QED BY <2>2, <2>3
  <1> QED BY <1>1

\* The offsets of a description satisfy the equation that defines them.
LEMMA OffsetsDef ==
    ASSUME NEW fields, IsFields(fields)
    PROVE  Offsets(fields) =
             [i \in 1 .. Len(fields) + 1 |->
                IF i = 1 THEN DiscriminatorSize
                ELSE Offsets(fields)[i - 1] + Width[fields[i - 1].type]]
  <1> DEFINE n == Len(fields) + 1
  <1>1. n \in Nat \ {0}
    BY DEF IsFields
  <1>2. \E g : Lays(g, fields, n)
    BY <1>1, SomeLayout
  <1>3. Offsets(fields) = CHOOSE g : Lays(g, fields, n)
    BY DEF Offsets, Lays
  <1>4. Lays(Offsets(fields), fields, n)
    <2> HIDE DEF n
    <2> QED BY <1>2, <1>3
  <1> QED BY <1>4 DEF Lays
LEMMA OffsetsType ==
    ASSUME NEW fields, IsFields(fields)
    PROVE  \A i \in 1 .. Len(fields) + 1 : Offsets(fields)[i] \in Nat
  <1> DEFINE off == Offsets(fields)
             n == Len(fields) + 1
             Untyped == {i \in 1 .. n : off[i] \notin Nat}
  <1>1. n \in Nat
    BY DEF IsFields
  <1>2. ASSUME Untyped # {}
        PROVE  FALSE
    <2>1. PICK k \in Untyped : \A l \in Untyped : k <= l
      <3>1. Untyped \subseteq Nat
        BY <1>1
      <3> HIDE DEF Untyped
      <3> QED BY <1>2, <3>1, LeastNumber
    <2>2. CASE k = 1
      BY <1>1, <2>1, <2>2, OffsetsDef DEF DiscriminatorSize
    <2>3. CASE k # 1
      <3>1. k - 1 \in 1 .. Len(fields) /\ k - 1 \in 1 .. n /\ k - 1 \notin Untyped
        BY <1>1, <2>1, <2>3
      <3>2. off[k - 1] \in Nat
        BY <3>1
      <3>3. off[k] = off[k - 1] + Width[fields[k - 1].type]
        BY <1>1, <2>1, <2>3, OffsetsDef
      <3>4. fields[k - 1].type \in DOMAIN Width
        BY <3>1 DEF IsFields
      <3> QED BY <2>1, <3>2, <3>3, <3>4, Widths
    <2> QED BY <2>2, <2>3
  <1> QED BY <1>2

\* A field ends where the next one begins, after at least one byte.
LEMMA OffsetsStep ==
    ASSUME NEW fields, IsFields(fields), NEW i \in DOMAIN fields
    PROVE  /\ Offsets(fields)[i + 1] = Offsets(fields)[i] + Width[fields[i].type]
           /\ Offsets(fields)[i] < Offsets(fields)[i + 1]
  <1>1. /\ i \in 1 .. Len(fields) /\ Len(fields) \in Nat
        /\ i + 1 \in 1 .. Len(fields) + 1 /\ i + 1 # 1 /\ (i + 1) - 1 = i
    BY DEF IsFields
  <1>2. Offsets(fields)[i + 1] = Offsets(fields)[i] + Width[fields[i].type]
    BY <1>1, OffsetsDef
  <1>3. fields[i].type \in DOMAIN Width
    BY DEF IsFields
  <1>4. Offsets(fields)[i] \in Nat
    BY <1>1, OffsetsType
  <1> QED BY <1>2, <1>3, <1>4, Widths

\* No field begins before an earlier one ends.
LEMMA OffsetsIncrease ==
    ASSUME NEW fields, IsFields(fields),
           NEW i \in 1 .. Len(fields) + 1, NEW j \in 1 .. Len(fields) + 1, i < j
    PROVE  Offsets(fields)[i] < Offsets(fields)[j]
  <1> DEFINE off == Offsets(fields)
             n == Len(fields) + 1
             Back == {k \in 1 .. n : i < k /\ ~(off[i] < off[k])}
  <1>1. n \in Nat
    BY DEF IsFields
  <1>2. ASSUME Back # {}
        PROVE  FALSE
    <2>1. PICK k \in Back : \A l \in Back : k <= l
      <3>1. Back \subseteq Nat
        BY <1>1
      <3> HIDE DEF Back
      <3> QED BY <1>2, <3>1, LeastNumber
    <2>2. k - 1 \in DOMAIN fields /\ (k - 1) + 1 = k /\ k - 1 \in 1 .. n
      BY <1>1, <2>1 DEF IsFields
    <2>3. off[k - 1] < off[k]
      BY <2>2, OffsetsStep
    <2>4. k - 1 = i \/ off[i] < off[k - 1]
      BY <1>1, <2>1, <2>2
    <2>5. off[i] \in Nat /\ off[k - 1] \in Nat /\ off[k] \in Nat
      BY <2>1, <2>2, OffsetsType
    <2> HIDE DEF off
    <2> QED BY <2>1, <2>3, <2>4, <2>5
  <1> QED BY <1>2

LEMMA OffsetsInjective ==
    ASSUME NEW fields, IsFields(fields), NEW i \in DOMAIN fields, NEW j \in DOMAIN fields,
           Offsets(fields)[i] = Offsets(fields)[j]
    PROVE  i = j
  <1>1. /\ i \in 1 .. Len(fields) + 1 /\ j \in 1 .. Len(fields) + 1
        /\ i \in Int /\ j \in Int
    BY DEF IsFields
  <1>2. Offsets(fields)[i] \in Nat /\ Offsets(fields)[j] \in Nat
    BY <1>1, OffsetsType
  <1> QED BY <1>1, <1>2, OffsetsIncrease

-----------------------------------------------------------------------------
(* Reading what was written. *)

\* The reader's fields are the first ones of the writer's.
IsPrefixOf(short, long) ==
    /\ Len(short) <= Len(long)
    /\ \A i \in DOMAIN short : short[i] = long[i]

\* Or of the same types, whatever their names.
HasTypesOf(short, long) ==
    /\ Len(short) <= Len(long)
    /\ \A i \in DOMAIN short : short[i].type = long[i].type

LEMMA PrefixOffsets ==
    ASSUME NEW short, NEW long, IsFields(short), IsFields(long), HasTypesOf(short, long)
    PROVE  \A i \in 1 .. Len(short) + 1 : Offsets(short)[i] = Offsets(long)[i]
  <1> DEFINE n == Len(short) + 1
             Apart == {i \in 1 .. n : Offsets(short)[i] # Offsets(long)[i]}
  <1>1. n \in Nat /\ Len(long) \in Nat /\ Len(short) \in Nat
    BY DEF IsFields
  <1>2. ASSUME Apart # {}
        PROVE  FALSE
    <2>1. PICK k \in Apart : \A l \in Apart : k <= l
      <3>1. Apart \subseteq Nat
        BY <1>1
      <3> HIDE DEF Apart
      <3> QED BY <1>2, <3>1, LeastNumber
    <2>2. k \in 1 .. Len(short) + 1 /\ k \in 1 .. Len(long) + 1
      BY <1>1, <2>1 DEF HasTypesOf
    <2>3. CASE k = 1
      <3>1. Offsets(short)[1] = DiscriminatorSize /\ Offsets(long)[1] = DiscriminatorSize
        BY <2>2, <2>3, OffsetsDef
      <3> QED BY <2>1, <2>3, <3>1
    <2>4. CASE k # 1
      <3>1. /\ k - 1 \in DOMAIN short /\ k - 1 \in DOMAIN long /\ (k - 1) + 1 = k
            /\ k - 1 \notin Apart /\ k - 1 \in 1 .. n
        BY <1>1, <2>1, <2>2, <2>4 DEF IsFields
      <3>2. /\ Offsets(short)[k - 1] = Offsets(long)[k - 1]
            /\ short[k - 1].type = long[k - 1].type
        BY <3>1 DEF HasTypesOf
      <3>3. /\ Offsets(short)[k] = Offsets(short)[k - 1] + Width[short[k - 1].type]
            /\ Offsets(long)[k] = Offsets(long)[k - 1] + Width[long[k - 1].type]
        BY <3>1, OffsetsStep
      <3> QED BY <2>1, <3>2, <3>3
    <2> QED BY <2>3, <2>4
  <1> QED BY <1>2

\* A cell holds the type and the value of the field that begins there.
LEMMA EncodedCell ==
    ASSUME NEW fields, IsFields(fields), NEW rec, NEW i \in DOMAIN fields
    PROVE  LET cells == Encode(fields, rec).cells
               o == Offsets(fields)[i]
           IN  /\ o \in DOMAIN cells
               /\ cells[o] = [type |-> fields[i].type, value |-> rec[fields[i].name]]
  <1> DEFINE off == Offsets(fields)
             At(o) == CHOOSE k \in DOMAIN fields : off[k] = o
             o == off[i]
  <1>1. At(o) \in DOMAIN fields /\ off[At(o)] = o
    OBVIOUS
  <1>2. At(o) = i
    <2> HIDE DEF At
    <2> QED BY <1>1, OffsetsInjective
  <1>3. o \in {off[k] : k \in DOMAIN fields}
    OBVIOUS
  <1>4. Encode(fields, rec).cells = [p \in {off[k] : k \in DOMAIN fields} |->
            [type |-> fields[At(p)].type, value |-> rec[fields[At(p)].name]]]
    BY DEF Encode
  <1> HIDE DEF At, off, o
  <1>5. Encode(fields, rec).cells[o] =
            [type |-> fields[At(o)].type, value |-> rec[fields[At(o)].name]]
    BY <1>3, <1>4
  <1> QED BY <1>2, <1>3, <1>4, <1>5 DEF off, o

LEMMA PositionOf ==
    ASSUME NEW fields, IsDescription(fields), NEW i \in DOMAIN fields
    PROVE  Position(fields, fields[i].name) = i
  BY DEF Position, IsDescription

\* Whoever knows the first fields of what was written reads every one of them as it
\* was written, whatever follows: accounts can grow at their end, and a parser that
\* stops early is still right (parseConfig in shared.ts stops before the two flags).
THEOREM PrefixReads ==
    ASSUME NEW short, NEW long, IsDescription(short), IsDescription(long),
           IsPrefixOf(short, long), NEW rec
    PROVE  /\ Read(short, Encode(long, rec)) = [n \in Names(short) |-> rec[n]]
           /\ Decodes(short, Encode(long, rec))
  <1> DEFINE data == Encode(long, rec)
             At(o, type) == IF o \in DOMAIN data.cells /\ data.cells[o].type = type
                            THEN data.cells[o].value ELSE Garbage
  <1>0. /\ IsFields(short) /\ IsFields(long) /\ Len(short) \in Nat /\ Len(long) \in Nat
        /\ HasTypesOf(short, long)
    BY DEF IsDescription, IsFields, IsPrefixOf, HasTypesOf
  <1>1. ASSUME NEW n \in Names(short)
        PROVE  At(Offsets(short)[Position(short, n)], short[Position(short, n)].type) = rec[n]
    <2>1. PICK i \in DOMAIN short : short[i].name = n
      BY DEF Names
    <2>2. Position(short, n) = i
      BY <2>1, PositionOf
    <2>3. i \in DOMAIN long /\ i \in 1 .. Len(short) + 1 /\ short[i] = long[i]
      BY <1>0 DEF IsPrefixOf, IsFields
    <2>4. Offsets(short)[i] = Offsets(long)[i]
      BY <1>0, <2>3, PrefixOffsets
    <2>5. /\ Offsets(long)[i] \in DOMAIN data.cells
          /\ data.cells[Offsets(long)[i]] = [type |-> long[i].type, value |-> rec[long[i].name]]
      BY <1>0, <2>3, EncodedCell
    <2> HIDE DEF data
    <2> QED BY <2>1, <2>2, <2>3, <2>4, <2>5
  <1>2. Read(short, data) =
          [n \in Names(short) |->
             At(Offsets(short)[Position(short, n)], short[Position(short, n)].type)]
    BY DEF Read
  <1>3. Read(short, data) = [n \in Names(short) |-> rec[n]]
    <2> HIDE DEF At, data
    <2> QED BY <1>1, <1>2
  <1>4. Size(short) <= Size(long)
    <2>1. Offsets(short)[Len(short) + 1] = Offsets(long)[Len(short) + 1]
      BY <1>0, PrefixOffsets
    <2>2. /\ Len(short) + 1 \in 1 .. Len(long) + 1 /\ Len(long) + 1 \in 1 .. Len(long) + 1
          /\ Len(short) <= Len(long)
      BY <1>0 DEF IsPrefixOf
    <2>3. /\ Offsets(long)[Len(short) + 1] \in Nat /\ Offsets(long)[Len(long) + 1] \in Nat
      BY <1>0, <2>2, OffsetsType
    <2>4. CASE Len(short) = Len(long)
      BY <2>1, <2>3, <2>4 DEF Size
    <2>5. CASE Len(short) # Len(long)
      <3>1. Len(short) + 1 < Len(long) + 1
        BY <1>0, <2>2, <2>5
      <3>2. Offsets(long)[Len(short) + 1] < Offsets(long)[Len(long) + 1]
        BY <1>0, <2>2, <3>1, OffsetsIncrease
      <3> QED BY <2>1, <2>3, <3>2 DEF Size
    <2> QED BY <2>4, <2>5
  <1>5. data.size = Size(long)
    BY DEF Encode
  <1>6. Decodes(short, data)
    <2> HIDE DEF data
    <2> QED BY <1>4, <1>5 DEF Decodes
  <1> QED BY <1>3, <1>6

\* Data that ends before the reader's last field is no data to the reader, whatever
\* the fields before it are called (an argument after the checked-in IDL, read by a
\* struct of the program that has grown).
THEOREM ShorterFails ==
    ASSUME NEW short, NEW long, IsFields(short), IsFields(long),
           HasTypesOf(short, long), Len(short) < Len(long), NEW rec
    PROVE  ~Decodes(long, Encode(short, rec))
  <1>1. Len(short) \in Nat /\ Len(long) \in Nat
    BY DEF IsFields
  <1>2. Offsets(short)[Len(short) + 1] = Offsets(long)[Len(short) + 1]
    BY <1>1, PrefixOffsets
  <1>3. /\ Len(short) + 1 \in 1 .. Len(long) + 1 /\ Len(long) + 1 \in 1 .. Len(long) + 1
        /\ Len(short) + 1 < Len(long) + 1
    BY <1>1
  <1>4. Offsets(long)[Len(short) + 1] < Offsets(long)[Len(long) + 1]
    BY <1>1, <1>3, OffsetsIncrease
  <1>5. Offsets(long)[Len(short) + 1] \in Nat /\ Offsets(long)[Len(long) + 1] \in Nat
    BY <1>1, <1>3, OffsetsType
  <1>6. Size(short) < Size(long)
    BY <1>2, <1>4 DEF Size
  <1>7. Encode(short, rec).size = Size(short)
    BY DEF Encode
  <1> QED BY <1>2, <1>5, <1>6, <1>7 DEF Decodes, Size

\* Two clients of the same description agree, and all there is to decode is there.
LEMMA RoundTrip ==
    ASSUME NEW fields, IsDescription(fields), NEW rec
    PROVE  /\ Read(fields, Encode(fields, rec)) = [n \in Names(fields) |-> rec[n]]
           /\ Decodes(fields, Encode(fields, rec))
  <1>1. IsPrefixOf(fields, fields)
    BY DEF IsPrefixOf, IsDescription, IsFields
  <1> QED BY <1>1, PrefixReads

-----------------------------------------------------------------------------
(* The descriptions the repository keeps. *)

LEMMA ConfigStructFields == IsDescription(ConfigStruct) /\ Len(ConfigStruct) = 12
  BY DEF ConfigStruct, Field, IsDescription, IsFields, Width

LEMMA IdlConfigFields == IsDescription(IdlConfig) /\ Len(IdlConfig) = 10
  BY DEF IdlConfig, Field, IsDescription, IsFields, Width

LEMMA ParsedConfigFields == IsDescription(ParsedConfig) /\ Len(ParsedConfig) = 10
  BY DEF ParsedConfig, Field, IsDescription, IsFields, Width

LEMMA CurveFields == IsDescription(BondingCurveStruct) /\ Len(BondingCurveStruct) = 6
  BY DEF BondingCurveStruct, Field, IsDescription, IsFields, Width

LEMMA LaunchFields == IsDescription(LaunchArgs)
  BY DEF LaunchArgs, Field, IsDescription, IsFields, Width

LEMMA SwapFields == IsDescription(SwapArgs)
  BY DEF SwapArgs, Field, IsDescription, IsFields, Width

LEMMA ReleaseFields == IsDescription(ReleaseReservesArgs)
  BY DEF ReleaseReservesArgs, Field, IsDescription, IsFields, Width

===============================================================================
