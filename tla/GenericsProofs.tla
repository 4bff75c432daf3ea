--------------------------- MODULE GenericsProofs ---------------------------
(***************************************************************************)
(* What holds of type parameters whatever is in the crate: the table of a   *)
(* definition is followed through the phases it is made in.                 *)
(***************************************************************************)
EXTENDS Generics, FiniteSetTheorems, SequenceTheorems, TLAPS

(* Natural numbers by induction, for a set instead of a formula: what       *)
(* Ascending chooses from is shown to exist along a sequence's length.      *)
LEMMA SetInduction ==
  ASSUME NEW S, 0 \in S, \A n \in Nat : n \in S => n + 1 \in S
  PROVE  \A n \in Nat : n \in S
<1>1. SUFFICES ASSUME NEW T, T = {n \in Nat : n \notin S}, T # {} PROVE FALSE
  OBVIOUS
<1> DEFINE R == {ss \in Nat \X Nat : ss[1] < ss[2]}
<1>2. IsWellFoundedOn(R, Nat)
  BY NatLessThanWellFounded DEF OpToRel
<1> HIDE DEF R
<1>3. PICK x \in T : \A y \in T : ~ (<<y, x>> \in R)
  BY <1>1, <1>2, WFMin
<1>4. x \in Nat /\ x # 0
  BY <1>1
<1>5. <<x - 1, x>> \in R
  BY <1>4 DEF R
<1>6. x - 1 \notin T
  BY <1>3, <1>5
<1>. QED
  BY <1>1, <1>4, <1>6

(* A set of numbers up to n can be put in ascending order.                  *)
Rises(f) == \A j, k \in DOMAIN f : j < k => f[j] < f[k]

LEMMA AscendingExists ==
  ASSUME NEW n \in Nat, NEW S \in SUBSET (1 .. n)
  PROVE  \E f \in [1 .. Cardinality(S) -> S] : Rises(f)
<1> DEFINE Upto == {m \in Nat : \A T \in SUBSET (1 .. m) :
                       \E f \in [1 .. Cardinality(T) -> T] : Rises(f)}
<1>1. 0 \in Upto
  <2>1. \A T \in SUBSET (1 .. 0) : T = {}
    OBVIOUS
  <2>2. Cardinality({}) = 0
    BY FS_EmptySet
  <2>3. [i \in 1 .. 0 |-> 0] \in [1 .. 0 -> {}] /\ Rises([i \in 1 .. 0 |-> 0])
    BY DEF Rises
  <2>. QED
    BY <2>1, <2>2, <2>3
<1>2. ASSUME NEW m \in Nat, m \in Upto
      PROVE  m + 1 \in Upto
  <2>1. SUFFICES ASSUME NEW T \in SUBSET (1 .. (m + 1))
                 PROVE  \E f \in [1 .. Cardinality(T) -> T] : Rises(f)
    OBVIOUS
  <2> DEFINE U == T \ {m + 1}
  <2>2. U \in SUBSET (1 .. m)
    OBVIOUS
  <2>3. PICK f \in [1 .. Cardinality(U) -> U] : Rises(f)
    BY <1>2, <2>2
  <2>4. CASE m + 1 \notin T
    <3>1. U = T
      BY <2>4
    <3>. QED
      BY <2>3, <3>1
  <2>5. CASE m + 1 \in T
    <3>1. IsFiniteSet(T) /\ IsFiniteSet(U)
      <4>1. IsFiniteSet(1 .. (m + 1))
        BY FS_Interval
      <4>2. U \in SUBSET (1 .. (m + 1))
        OBVIOUS
      <4>. QED
        BY <4>1, <4>2, FS_Subset
    <3>2. Cardinality(U) \in Nat /\ Cardinality(T) = Cardinality(U) + 1
      BY <2>5, <3>1, FS_RemoveElement, FS_CardinalityType
    <3> DEFINE c == Cardinality(U)
               g == [i \in 1 .. (c + 1) |-> IF i = c + 1 THEN m + 1 ELSE f[i]]
    <3> HIDE DEF c
    <3>3. f \in [1 .. c -> U] /\ c \in Nat /\ Cardinality(T) = c + 1
      BY <2>3, <3>2 DEF c
    <3>4. ASSUME NEW i \in 1 .. c
          PROVE  f[i] \in U /\ f[i] \in Int /\ f[i] < m + 1
      <4>1. f[i] \in U
        BY <3>3
      <4>2. f[i] \in 1 .. m
        BY <2>2, <4>1
      <4>. QED
        BY <4>1, <4>2
    <3>5. g \in [1 .. (c + 1) -> T]
      <4>1. \A i \in 1 .. (c + 1) : i = c + 1 \/ i \in 1 .. c
        BY <3>3
      <4>. QED
        BY <2>5, <3>4, <4>1
    <3>6. Rises(g)
      <4>1. SUFFICES ASSUME NEW j \in 1 .. (c + 1), NEW k \in 1 .. (c + 1), j < k
                     PROVE  g[j] < g[k]
        BY DEF Rises
      <4>2. j \in 1 .. c
        BY <3>3, <4>1
      <4>3. CASE k = c + 1
        <5>1. g[k] = m + 1 /\ g[j] = f[j]
          BY <3>3, <4>1, <4>2, <4>3
        <5>. QED
          BY <3>4, <4>2, <5>1
      <4>4. CASE k \in 1 .. c
        <5>1. f[j] < f[k]
          BY <2>3, <3>3, <4>1, <4>2, <4>4 DEF Rises
        <5>. QED
          BY <3>3, <4>1, <4>2, <4>4, <5>1
      <4>. QED
        BY <3>3, <4>3, <4>4
    <3>. QED
      BY <3>3, <3>5, <3>6
  <2>. QED
    BY <2>4, <2>5
<1> HIDE DEF Upto
<1>3. n \in Upto
  BY <1>1, <1>2, SetInduction
<1>. QED
  BY <1>3 DEF Upto

(* Ascending lists each number once.                                        *)
LEMMA AscendingLists ==
  ASSUME NEW n \in Nat, NEW S \in SUBSET (1 .. n)
  PROVE  /\ Cardinality(S) \in Nat
         /\ Ascending(S) \in [1 .. Cardinality(S) -> S]
         /\ IsInjective(Ascending(S))
         /\ \A i \in S : \E k \in 1 .. Cardinality(S) : Ascending(S)[k] = i
<1>1. IsFiniteSet(S) /\ Cardinality(S) \in Nat
  <2>1. IsFiniteSet(1 .. n)
    BY FS_Interval
  <2>. QED
    BY <2>1, FS_Subset, FS_CardinalityType
<1>2. Ascending(S) \in [1 .. Cardinality(S) -> S] /\ Rises(Ascending(S))
  BY AscendingExists DEF Ascending, Rises
<1>3. IsInjective(Ascending(S))
  <2>1. SUFFICES ASSUME NEW j \in 1 .. Cardinality(S), NEW k \in 1 .. Cardinality(S),
                        Ascending(S)[j] = Ascending(S)[k]
                 PROVE  j = k
    BY <1>2 DEF IsInjective
  <2>2. Ascending(S)[j] \in S /\ Ascending(S)[k] \in S
    BY <1>2
  <2>3. DOMAIN Ascending(S) = 1 .. Cardinality(S)
    BY <1>2
  <2>4. Ascending(S)[j] \in Int
    <3>1. Ascending(S)[j] \in 1 .. n
      BY <2>2
    <3>. QED
      BY <3>1
  <2>5. ~(j < k) /\ ~(k < j)
    BY <1>2, <2>1, <2>3, <2>4 DEF Rises
  <2>. QED
    BY <1>1, <2>5
<1>4. Cardinality(1 .. Cardinality(S)) = Cardinality(S)
  BY <1>1, FS_Interval
<1>5. Ascending(S) \in Injection(1 .. Cardinality(S), S)
  BY <1>2, <1>3 DEF Injection
<1>6. Ascending(S) \in Surjection(1 .. Cardinality(S), S)
  BY <1>1, <1>4, <1>5, FS_Injection
<1>. QED
  BY <1>1, <1>2, <1>3, <1>6 DEF Surjection

-----------------------------------------------------------------------------
(* The invariant.                                                           *)

(* A definition is being worked on: its parameters are made, and then used. *)
Making == def # NoDef /\ def \notin DOMAIN generics
Using == def # NoDef /\ def \in DOMAIN generics

Parts == {"inputs", "output"}
UseOf(S) == [kind : {"call", "type"}, of : Defs, types : Seq(S)]
NRead == Len(Bounds[def]) - Len(predicates)
NMade == Len(AllParams(def)) - Len(unmade)

TypeInv ==
  /\ def \in Defs \cup {NoDef}
  /\ DOMAIN generics \subseteq Defs

(* The predicates left are the last ones, the parameters left too.          *)
PredicatesInv ==
  Making => /\ predicates \in Seq(BoundsOn(def))
            /\ Len(predicates) <= Len(Bounds[def])
            /\ \A k \in 1 .. Len(predicates) :
                 predicates[k] = Bounds[def][k + NRead]
UnmadeInv ==
  Making => /\ unmade \in Seq(Nat)
            /\ Len(unmade) <= Len(AllParams(def))
            /\ \A k \in 1 .. Len(unmade) : unmade[k] = k + NMade
            /\ predicates # <<>> => NMade = 0

(* What is kept of a predicate is what it said, until the parameter is      *)
(* replaced.                                                                *)
BoundInv ==
  Making => /\ DOMAIN bound = Parts
            /\ \A part \in Parts : \A i \in DOMAIN bound[part] :
                 \E k \in 1 .. NRead :
                   /\ Bounds[def][k].of = i /\ Bounds[def][k].part = part
                   /\ bound[part][i] = Bounds[def][k].types
            /\ \A k \in 1 .. NRead : \A part \in Parts :
                 Bounds[def][k].part = part =>
                   Bounds[def][k].of \in DOMAIN bound[part] \cup DOMAIN table
            /\ DOMAIN bound.inputs \cap DOMAIN table = {}

(* The table has the parameters looked at, but for lifetimes and those      *)
(* still to be replaced.                                                    *)
TableInv ==
  Making => /\ \A i \in DOMAIN table :
                 /\ i \in TypeIndices(def) /\ i <= NMade
                 /\ \/ /\ i \notin Bounded(def)
                       /\ table[i] = Extracted(AllParams(def)[i])
                    \/ /\ i \in Bounded(def)
                       /\ table[i].kind = "replaced"
            /\ \A i \in TypeIndices(def) \ Bounded(def) :
                 i <= NMade => i \in DOMAIN table

(* Entries are over parameters that are listed.                             *)
OverInv ==
  def # NoDef => \A i \in DOMAIN table : table[i].over \subseteq Listed(def)

(* The table is made before it is used, and then for the definition or one  *)
(* of its spec functions.                                                   *)
UsingInv ==
  Using => /\ TableMade
           /\ \/ DOMAIN table = TypeIndices(def)
              \/ \E spec \in ToSet(Specs[def]) :
                   DOMAIN table = DOMAIN AllParams(spec)
UsesInv ==
  def # NoDef =>
    /\ uses \in Seq(UseOf(Types))
    /\ Making => uses = Uses[def]
    /\ Using => \A k \in 1 .. Len(uses) :
                  Mentioned(uses[k].types) \subseteq DOMAIN table
    /\ specs \in Seq(Defs)
    /\ \A k \in 1 .. Len(specs) : specs[k] \in ToSet(Specs[def])

(* Uses are extracted within definitions that are listed, as written.       *)
BaseOf(type) == IF IsUnsupported(type) THEN "untyped" ELSE type.base
EmittedInv ==
  \A e \in emitted :
    /\ e.in \in DOMAIN generics
    /\ \A i \in DOMAIN e.args : e.args[i].over \subseteq Listed(e.in)
    /\ e.use \in UseOf(Types)
    /\ DOMAIN e.args = DOMAIN TypeArguments(e.use)
    /\ Len(e.args) = Cardinality(PassedOn(e.use))
    /\ \A i \in DOMAIN e.args : e.args[i].base = BaseOf(TypeArguments(e.use)[i])

GenericsInv ==
  /\ TypeInv /\ PredicatesInv /\ UnmadeInv /\ BoundInv /\ TableInv /\ OverInv
  /\ UsingInv /\ UsesInv /\ ParametersListed /\ EmittedInv
  /\ SupportedNeverPanics

-----------------------------------------------------------------------------
(* The constants.                                                           *)

(* There are n numbers up to n.                                             *)
LEMMA UptoCardinality ==
  ASSUME NEW n \in Nat
  PROVE  Cardinality(1 .. n) = n
  BY FS_Interval

(* A table with one more entry has the ones it had.                         *)
LEMMA AddKeeps ==
  ASSUME NEW f, NEW i, NEW v, NEW j \in DOMAIN Add(f, i, v), j # i
  PROVE  j \in DOMAIN f /\ Add(f, i, v)[j] = f[j]
  BY DEF Add

(* Parameters of a definition are a sequence, its impl block's first.       *)
LEMMA ParamsType ==
  ASSUME NEW d \in Defs
  PROVE  /\ AllParams(d) \in Seq(Params)
         /\ Len(AllParams(d)) \in Nat
         /\ DOMAIN AllParams(d) = 1 .. Len(AllParams(d))
         /\ IsInjective(AllParams(d))
<1>1. Own[d] \in Seq(Params)
  BY GenericsAssumption
<1>2. Parent[d] # NoDef => Own[Parent[d]] \in Seq(Params)
  BY GenericsAssumption
<1>3. AllParams(d) \in Seq(Params)
  BY <1>1, <1>2 DEF AllParams
<1>. QED
  BY <1>3, LenProperties, GenericsAssumption

(* Indices count from one.                                                  *)
LEMMA TypeIndicesType ==
  ASSUME NEW d \in Defs
  PROVE  /\ TypeIndices(d) \in SUBSET (1 .. Len(AllParams(d)))
         /\ \A i \in TypeIndices(d) : i \in Nat /\ i > 0
  BY ParamsType DEF TypeIndices

(* Predicates are a sequence, each about a parameter that is a type.        *)
LEMMA BoundsType ==
  ASSUME NEW d \in Defs
  PROVE  /\ Bounds[d] \in Seq(BoundsOn(d))
         /\ Len(Bounds[d]) \in Nat
         /\ DOMAIN Bounds[d] = 1 .. Len(Bounds[d])
         /\ \A k \in 1 .. Len(Bounds[d]) :
              /\ Bounds[d][k] \in BoundsOn(d)
              /\ Bounds[d][k].of \in TypeIndices(d)
              /\ Bounds[d][k].part \in Parts
              /\ Bounds[d][k].types \in Seq(TypesOf(d))
<1>1. Bounds[d] \in Seq(BoundsOn(d))
  BY GenericsAssumption
<1>2. ASSUME NEW k \in 1 .. Len(Bounds[d])
      PROVE  Bounds[d][k] \in BoundsOn(d)
  BY <1>1, LenProperties
<1>. QED
  BY <1>1, <1>2, LenProperties DEF BoundsOn, Parts

(* What types of a definition mention is in scope.                          *)
LEMMA MentionedInScope ==
  ASSUME NEW d \in Defs, NEW types \in Seq(TypesOf(d))
  PROVE  Mentioned(types) \subseteq TypeIndices(d)
<1>1. ASSUME NEW i \in DOMAIN types
      PROVE  types[i] \in TypesOf(d)
  BY LenProperties
<1>. QED
  BY <1>1 DEF Mentioned, TypesOf

(* Uses are of types that are in scope.                                     *)
LEMMA UsesType ==
  ASSUME NEW d \in Defs
  PROVE  /\ Uses[d] \in Seq(UseOf(Types))
         /\ \A k \in 1 .. Len(Uses[d]) :
              Mentioned(Uses[d][k].types) \subseteq TypeIndices(d)
<1>1. Uses[d] \in Seq(UsesIn(d)) /\ Len(Uses[d]) \in Nat
      /\ DOMAIN Uses[d] = 1 .. Len(Uses[d])
  BY GenericsAssumption, LenProperties
<1>2. ASSUME NEW k \in 1 .. Len(Uses[d])
      PROVE  /\ Uses[d][k].types \in Seq(TypesOf(d))
             /\ Uses[d][k] \in UseOf(Types)
  <2>1. Uses[d][k] \in UsesIn(d)
    BY <1>1
  <2>2. Uses[d][k].types \in Seq(TypesOf(d))
    BY <2>1 DEF UsesIn
  <2>3. Seq(TypesOf(d)) \subseteq Seq(Types)
    BY DEF TypesOf
  <2>. QED
    BY <2>1, <2>2, <2>3 DEF UsesIn, UseOf
<1>. QED
  BY <1>1, <1>2, MentionedInScope

(* Spec functions are definitions.                                          *)
LEMMA SpecsType ==
  ASSUME NEW d \in Defs
  PROVE  /\ Specs[d] \in Seq(Defs)
         /\ \A k \in 1 .. Len(Specs[d]) : Specs[d][k] \in ToSet(Specs[d])
         /\ ToSet(Specs[d]) \subseteq Defs
<1>1. Specs[d] \in Seq(Defs)
  BY GenericsAssumption
<1>. QED
  BY <1>1, LenProperties DEF ToSet

(* A parameter has a bound if a predicate says what it is called with.      *)
LEMMA BoundedMeans ==
  ASSUME NEW d \in Defs
  PROVE  \A i : i \in Bounded(d) <=>
           \E k \in 1 .. Len(Bounds[d]) :
             Bounds[d][k].of = i /\ Bounds[d][k].part = "inputs"
  BY BoundsType DEF Bounded, ToSet

(* A parameter that is a type and has no bound is listed.                   *)
LEMMA ListedMeans ==
  ASSUME NEW d \in Defs
  PROVE  Listed(d) = {AllParams(d)[i] : i \in TypeIndices(d) \ Bounded(d)}
  BY DEF Listed, TypeIndices

-----------------------------------------------------------------------------
(* The steps.                                                               *)

(* Nothing of a definition is kept when it is finished, and nothing changes *)
(* when an assertion fails but that it did.                                 *)
LEMMA PanicStep ==
  ASSUME GenericsInv, NEW reason, Panic(reason), ~Supported(def)
  PROVE  GenericsInv'
<1> USE DEF GenericsInv, Panic
<1>1. TypeInv' /\ PredicatesInv' /\ UnmadeInv'
  BY DEF TypeInv, PredicatesInv, UnmadeInv, Making, NRead, NMade
<1>2. BoundInv'
  BY DEF BoundInv, Making, NRead
<1>3. TableInv' /\ OverInv'
  BY DEF TableInv, OverInv, Making, NMade
<1>4. UsingInv' /\ UsesInv'
  BY DEF UsingInv, UsesInv, Making, Using, TableMade
<1>5. ParametersListed' /\ EmittedInv'
  BY DEF ParametersListed, EmittedInv
<1>6. SupportedNeverPanics'
  BY DEF SupportedNeverPanics
<1>. QED
  BY <1>1, <1>2, <1>3, <1>4, <1>5, <1>6

LEMMA StutterStep == GenericsInv /\ UNCHANGED vars => GenericsInv'
<1> SUFFICES ASSUME GenericsInv, UNCHANGED vars PROVE GenericsInv'
  OBVIOUS
<1> USE DEF GenericsInv, vars
<1>1. TypeInv' /\ PredicatesInv' /\ UnmadeInv'
  BY DEF TypeInv, PredicatesInv, UnmadeInv, Making, NRead, NMade
<1>2. BoundInv'
  BY DEF BoundInv, Making, NRead
<1>3. TableInv' /\ OverInv'
  BY DEF TableInv, OverInv, Making, NMade
<1>4. UsingInv' /\ UsesInv'
  BY DEF UsingInv, UsesInv, Making, Using, TableMade
<1>5. ParametersListed' /\ EmittedInv' /\ SupportedNeverPanics'
  BY DEF ParametersListed, EmittedInv, SupportedNeverPanics
<1>. QED
  BY <1>1, <1>2, <1>3, <1>4, <1>5

LEMMA InitStep == Init => GenericsInv
<1> SUFFICES ASSUME Init PROVE GenericsInv
  OBVIOUS
<1>1. DOMAIN Empty = {}
  BY DEF Empty
<1>. QED
  BY <1>1 DEF Init, GenericsInv, TypeInv, PredicatesInv, UnmadeInv, BoundInv,
       TableInv, OverInv, UsingInv, UsesInv, ParametersListed, EmittedInv,
       SupportedNeverPanics, Making, Using

LEMMA FinishStep ==
  ASSUME GenericsInv, Finish
  PROVE  GenericsInv'
<1>1. def' = NoDef /\ UNCHANGED <<generics, emitted, panicked>> /\ panicked = "none"
  BY DEF Finish, Running
<1>2. TypeInv' /\ ParametersListed' /\ EmittedInv' /\ SupportedNeverPanics'
  BY <1>1 DEF GenericsInv, TypeInv, ParametersListed, EmittedInv, SupportedNeverPanics
<1>. QED
  BY <1>1, <1>2 DEF GenericsInv, PredicatesInv, UnmadeInv, BoundInv, TableInv,
       OverInv, UsingInv, UsesInv, Making, Using

(* A definition is started with all of its predicates and parameters.       *)
LEMMA StartStep ==
  ASSUME GenericsInv, NEW d \in Defs, Start(d)
  PROVE  GenericsInv'
<1>1. /\ def' = d /\ d \notin DOMAIN generics /\ generics' = generics
      /\ predicates' = Bounds[d]
      /\ unmade' = [i \in DOMAIN AllParams(d) |-> i]
      /\ bound' = NoBounds /\ table' = Empty
      /\ uses' = Uses[d] /\ specs' = Specs[d]
      /\ emitted' = emitted /\ panicked' = panicked /\ panicked = "none"
  BY DEF Start
<1>2. d # NoDef /\ Making' /\ ~Using'
  BY <1>1, GenericsAssumption DEF Making, Using
<1>3. DOMAIN Empty = {} /\ NoBounds = [inputs |-> Empty, output |-> Empty]
  BY DEF Empty, NoBounds
<1>4. NRead' = 0
  BY <1>1, BoundsType DEF NRead
<1>5. unmade' \in Seq(Nat) /\ Len(unmade') = Len(AllParams(d))
  BY <1>1, ParamsType
<1>6. NMade' = 0
  BY <1>1, <1>5, ParamsType DEF NMade
<1>7. TypeInv' /\ ParametersListed' /\ EmittedInv' /\ SupportedNeverPanics'
  BY <1>1 DEF GenericsInv, TypeInv, ParametersListed, EmittedInv, SupportedNeverPanics
<1>8. PredicatesInv'
  BY <1>1, <1>2, <1>4, BoundsType DEF PredicatesInv
<1>9. UnmadeInv'
  BY <1>1, <1>2, <1>5, <1>6, ParamsType DEF UnmadeInv
<1>10. BoundInv'
  <2>1. DOMAIN bound' = Parts /\ \A part \in Parts : DOMAIN bound'[part] = {}
    BY <1>1, <1>3 DEF Parts
  <2>2. DOMAIN bound'.inputs = {}
    BY <1>1, <1>3
  <2>. QED
    BY <1>4, <2>1, <2>2 DEF BoundInv
<1>11. TableInv'
  <2>1. \A i \in TypeIndices(d) : ~(i <= 0)
    BY TypeIndicesType
  <2>. QED
    BY <1>1, <1>3, <1>6, <2>1 DEF TableInv
<1>12. OverInv' /\ UsingInv'
  BY <1>1, <1>2, <1>3 DEF OverInv, UsingInv
<1>13. UsesInv'
  BY <1>1, <1>2, UsesType, SpecsType DEF UsesInv
<1>. QED
  BY <1>7, <1>8, <1>9, <1>10, <1>11, <1>12, <1>13 DEF GenericsInv

(* One predicate is read: if there was one like it, the definition is not   *)
(* supported.                                                               *)
LEMMA ReadBoundStep ==
  ASSUME GenericsInv, ReadBound
  PROVE  GenericsInv'
<1>1. /\ def \in Defs /\ panicked = "none" /\ predicates # <<>> /\ def # NoDef
  BY DEF ReadBound, Running, GenericsInv, TypeInv
<1> DEFINE b == Head(predicates)
           n == NRead + 1
           all == Bounds[def]
<1>2. CASE def \in DOMAIN generics
  BY <1>1, <1>2 DEF GenericsInv, UsingInv, Using, TableMade
<1>3. CASE def \notin DOMAIN generics
  <2>1. Making
    BY <1>1, <1>3 DEF Making
  <2>2. /\ all \in Seq(BoundsOn(def)) /\ Len(all) \in Nat
        /\ \A k \in 1 .. Len(all) :
             all[k].of \in TypeIndices(def) /\ all[k].part \in Parts
    BY <1>1, BoundsType
  <2>3. /\ predicates \in Seq(BoundsOn(def)) /\ Len(predicates) \in Nat
        /\ Len(predicates) <= Len(all) /\ Len(predicates) > 0
        /\ \A k \in 1 .. Len(predicates) : predicates[k] = all[k + NRead]
    BY <1>1, <2>1, LenProperties, EmptySeq DEF GenericsInv, PredicatesInv
  <2>4. NRead \in 0 .. (Len(all) - 1) /\ n \in 1 .. Len(all) /\ b = all[n]
    BY <2>2, <2>3 DEF NRead
  <2>5. NMade = 0 /\ DOMAIN table = {}
    <3>1. NMade = 0
      BY <1>1, <2>1 DEF GenericsInv, UnmadeInv
    <3>2. ASSUME NEW i \in DOMAIN table
          PROVE  FALSE
      <4>1. i \in TypeIndices(def) /\ i <= 0
        BY <2>1, <3>1 DEF GenericsInv, TableInv
      <4>. QED
        BY <1>1, <4>1, TypeIndicesType
    <3>. QED
      BY <3>1, <3>2
  <2>6. b.part \in Parts /\ b.of \in TypeIndices(def)
    BY <2>2, <2>4
  <2>7. CASE b.of \in DOMAIN bound[b.part]
    <3>1. PICK k \in 1 .. NRead : all[k].of = b.of /\ all[k].part = b.part
      BY <2>1, <2>6, <2>7 DEF GenericsInv, BoundInv
    <3>2. k \in DOMAIN all /\ n \in DOMAIN all /\ k # n
      BY <1>1, <2>4, <3>1, BoundsType
    <3>3. ~Supported(def)
      BY <2>4, <3>1, <3>2 DEF Supported
    <3>4. Panic("bound_twice")
      BY <2>7 DEF ReadBound
    <3>. QED
      BY <3>3, <3>4, PanicStep
  <2>8. CASE b.of \notin DOMAIN bound[b.part]
    <3>1. /\ bound' = [bound EXCEPT ![b.part] = Add(@, b.of, b.types)]
          /\ predicates' = Tail(predicates)
          /\ UNCHANGED <<def, unmade, table, uses, specs, generics, emitted, panicked>>
      BY <2>8 DEF ReadBound
    <3>2. /\ predicates' \in Seq(BoundsOn(def))
          /\ Len(predicates') = Len(predicates) - 1
          /\ \A k \in 1 .. Len(predicates') : predicates'[k] = predicates[k + 1]
      BY <1>1, <2>3, <3>1, HeadTailProperties
    <3>3. NRead' = n
      BY <2>2, <2>3, <3>1, <3>2 DEF NRead
    <3>4. Making' /\ ~Using' /\ ~Using
      BY <1>1, <1>3, <3>1 DEF Making, Using
    <3>5. TypeInv' /\ OverInv' /\ ParametersListed' /\ EmittedInv'
          /\ SupportedNeverPanics'
      BY <1>1, <3>1 DEF GenericsInv, TypeInv, OverInv, ParametersListed, EmittedInv,
           SupportedNeverPanics
    <3>6. PredicatesInv'
      <4>1. ASSUME NEW k \in 1 .. Len(predicates')
            PROVE  predicates'[k] = all[k + n]
        <5>1. k + 1 \in 1 .. Len(predicates) /\ k + 1 + NRead = k + n
          BY <2>3, <2>4, <3>2
        <5>. QED
          BY <2>3, <3>2, <5>1
      <4>. QED
        BY <2>3, <3>1, <3>2, <3>3, <4>1 DEF PredicatesInv
    <3>7. UnmadeInv'
      BY <2>1, <2>5, <3>1, <3>4 DEF GenericsInv, UnmadeInv, NMade, Making
    <3>8. TableInv'
      BY <2>1, <3>1, <3>4 DEF GenericsInv, TableInv, NMade, Making
    <3>9. UsingInv' /\ UsesInv'
      BY <1>1, <3>1, <3>4, <2>1 DEF GenericsInv, UsingInv, UsesInv
    <3>10. BoundInv'
      <4>1. DOMAIN bound = Parts
        BY <2>1 DEF GenericsInv, BoundInv
      <4>2. DOMAIN bound' = Parts
        BY <3>1, <4>1
      <4>3. ASSUME NEW part \in Parts
            PROVE  /\ part # b.part => bound'[part] = bound[part]
                   /\ part = b.part => bound'[part] = Add(bound[part], b.of, b.types)
        BY <3>1, <4>1
      <4>4. ASSUME NEW part \in Parts, NEW i \in DOMAIN bound'[part]
            PROVE  \E k \in 1 .. n : /\ all[k].of = i /\ all[k].part = part
                                    /\ bound'[part][i] = all[k].types
        <5>1. CASE part = b.part /\ i = b.of
          <6>1. bound'[part][i] = b.types
            BY <4>3, <5>1 DEF Add
          <6>. QED
            BY <2>4, <5>1, <6>1
        <5>2. CASE ~(part = b.part /\ i = b.of)
          <6>1. i \in DOMAIN bound[part] /\ bound'[part][i] = bound[part][i]
            <7>1. CASE part # b.part
              BY <4>3, <7>1
            <7>2. CASE part = b.part /\ i # b.of
              <8>1. bound'[part] = Add(bound[part], b.of, b.types)
                BY <4>3, <7>2
              <8>2. i \in DOMAIN Add(bound[part], b.of, b.types)
                BY <4>4, <8>1
              <8>. QED
                BY <7>2, <8>1, <8>2, AddKeeps
            <7>. QED
              BY <5>2, <7>1, <7>2
          <6>2. PICK k \in 1 .. NRead : /\ all[k].of = i /\ all[k].part = part
                                       /\ bound[part][i] = all[k].types
            BY <2>1, <6>1 DEF GenericsInv, BoundInv
          <6>3. k \in 1 .. n
            BY <2>4
          <6>. QED
            BY <6>1, <6>2, <6>3
        <5>. QED
          BY <5>1, <5>2
      <4>5. ASSUME NEW k \in 1 .. n, NEW part \in Parts, all[k].part = part
            PROVE  all[k].of \in DOMAIN bound'[part] \cup DOMAIN table'
        <5>1. CASE k = n
          <6>1. part = b.part /\ all[k].of = b.of
            BY <2>4, <4>5, <5>1
          <6>2. bound'[part] = Add(bound[part], b.of, b.types)
            BY <4>3, <6>1
          <6>3. b.of \in DOMAIN Add(bound[part], b.of, b.types)
            BY DEF Add
          <6>. QED
            BY Zenon, <6>1, <6>2, <6>3
        <5>2. CASE k \in 1 .. NRead
          <6>1. all[k].of \in DOMAIN bound[part] \cup DOMAIN table
            BY <2>1, <4>5, <5>2 DEF GenericsInv, BoundInv
          <6>. QED
            BY <3>1, <4>3, <6>1 DEF Add
        <5>. QED
          BY <2>4, <5>1, <5>2
      <4>6. DOMAIN bound'.inputs \cap DOMAIN table' = {}
        BY <2>5, <3>1
      <4>. QED
        BY <3>1, <3>3, <4>2, <4>4, <4>5, <4>6 DEF BoundInv
    <3>. QED
      BY <3>5, <3>6, <3>7, <3>8, <3>9, <3>10 DEF GenericsInv
  <2>. QED
    BY <2>7, <2>8
<1>. QED
  BY <1>2, <1>3

(* Once all predicates are read, the parameters with a bound are those of   *)
(* tparam_to_fun_params and those replaced.                                 *)
LEMMA AllRead ==
  ASSUME GenericsInv, Making, predicates = <<>>
  PROVE  /\ NRead = Len(Bounds[def])
         /\ Bounded(def) \subseteq DOMAIN bound.inputs \cup DOMAIN table
         /\ DOMAIN bound.inputs \subseteq Bounded(def)
         /\ DOMAIN bound.inputs \subseteq TypeIndices(def)
         /\ \A part \in Parts : \A i \in DOMAIN bound[part] :
              bound[part][i] \in Seq(TypesOf(def))
<1>1. def \in Defs
  BY DEF GenericsInv, TypeInv, Making
<1>2. NRead = Len(Bounds[def])
  BY <1>1, BoundsType, EmptySeq DEF NRead
<1>3. bound["inputs"] = bound.inputs /\ "inputs" \in Parts
  BY DEF Parts
<1>4. ASSUME NEW i \in Bounded(def)
      PROVE  i \in DOMAIN bound.inputs \cup DOMAIN table
  <2>1. PICK k \in 1 .. Len(Bounds[def]) :
          Bounds[def][k].of = i /\ Bounds[def][k].part = "inputs"
    BY <1>1, BoundedMeans
  <2>. QED
    BY <1>2, <1>3, <2>1 DEF GenericsInv, BoundInv
<1>5. ASSUME NEW part \in Parts, NEW i \in DOMAIN bound[part]
      PROVE  \E k \in 1 .. Len(Bounds[def]) :
               /\ Bounds[def][k].of = i /\ Bounds[def][k].part = part
               /\ bound[part][i] = Bounds[def][k].types
  BY <1>2 DEF GenericsInv, BoundInv
<1>6. ASSUME NEW i \in DOMAIN bound.inputs
      PROVE  i \in Bounded(def) /\ i \in TypeIndices(def)
  <2>1. PICK k \in 1 .. Len(Bounds[def]) :
          Bounds[def][k].of = i /\ Bounds[def][k].part = "inputs"
    BY <1>3, <1>5
  <2>. QED
    BY <1>1, <2>1, BoundedMeans, BoundsType
<1>7. ASSUME NEW part \in Parts, NEW i \in DOMAIN bound[part]
      PROVE  bound[part][i] \in Seq(TypesOf(def))
  <2>1. PICK k \in 1 .. Len(Bounds[def]) : bound[part][i] = Bounds[def][k].types
    BY <1>5
  <2>. QED
    BY <1>1, <2>1, BoundsType
<1>. QED
  BY <1>2, <1>4, <1>6, <1>7

(* One parameter is looked at.                                              *)
LEMMA MakeParameterStep ==
  ASSUME GenericsInv, MakeParameter
  PROVE  GenericsInv'
<1> DEFINE i == Head(unmade)
           p == AllParams(def)[i]
<1>1. /\ def \in Defs /\ def # NoDef /\ panicked = "none"
      /\ predicates = <<>> /\ unmade # <<>>
      /\ unmade' = Tail(unmade)
      /\ table' = IF p \in Lifetimes \/ i \in DOMAIN bound.inputs
                    THEN table ELSE Add(table, i, Extracted(p))
      /\ UNCHANGED <<def, predicates, bound, uses, specs, generics, emitted, panicked>>
  BY DEF MakeParameter, Running, GenericsInv, TypeInv
<1>2. Making /\ ~Using /\ Making' /\ ~Using'
  BY <1>1 DEF GenericsInv, UsingInv, Using, TableMade, Making
<1>3. /\ unmade \in Seq(Nat) /\ Len(unmade) \in Nat /\ Len(unmade) > 0
      /\ Len(unmade) <= Len(AllParams(def)) /\ Len(AllParams(def)) \in Nat
      /\ \A k \in 1 .. Len(unmade) : unmade[k] = k + NMade
  BY <1>1, <1>2, ParamsType, LenProperties, EmptySeq DEF GenericsInv, UnmadeInv
<1>4. /\ unmade' \in Seq(Nat) /\ Len(unmade') = Len(unmade) - 1
      /\ \A k \in 1 .. Len(unmade') : unmade'[k] = unmade[k + 1]
  BY <1>1, <1>3, HeadTailProperties
<1>5. NMade \in Nat /\ i = NMade + 1 /\ NMade' = i /\ i \in 1 .. Len(AllParams(def))
  BY <1>1, <1>3, <1>4 DEF NMade
<1>6. i \notin DOMAIN table
  BY <1>2, <1>5 DEF GenericsInv, TableInv
<1>7. i \in DOMAIN bound.inputs <=> i \in Bounded(def)
  BY <1>1, <1>2, <1>6, AllRead
<1> HIDE DEF i, p
<1>8. TypeInv' /\ ParametersListed' /\ EmittedInv' /\ SupportedNeverPanics'
  BY <1>1 DEF GenericsInv, TypeInv, ParametersListed, EmittedInv, SupportedNeverPanics
<1>9. PredicatesInv' /\ UsesInv' /\ UsingInv'
  BY <1>1, <1>2 DEF GenericsInv, PredicatesInv, UsesInv, UsingInv, NRead
<1>10. UnmadeInv'
  <2>1. ASSUME NEW k \in 1 .. Len(unmade')
        PROVE  unmade'[k] = k + NMade'
    <3>1. k + 1 \in 1 .. Len(unmade) /\ k + 1 + NMade = k + i
      BY <1>3, <1>4, <1>5
    <3>. QED
      BY <1>3, <1>4, <1>5, <3>1
  <2>. QED
    BY <1>1, <1>3, <1>4, <2>1 DEF UnmadeInv
<1>11. CASE p \in Lifetimes \/ i \in DOMAIN bound.inputs
  <2>1. table' = table
    BY <1>1, <1>11
  <2>2. BoundInv' /\ OverInv'
    BY <1>1, <1>2, <2>1 DEF GenericsInv, BoundInv, OverInv, NRead
  <2>3. i \notin TypeIndices(def) \ Bounded(def)
    BY <1>7, <1>11 DEF TypeIndices, p
  <2>4. TableInv'
    <3>1. ASSUME NEW j \in DOMAIN table
          PROVE  j <= NMade'
      <4>1. j \in TypeIndices(def) /\ j <= NMade
        BY <1>2 DEF GenericsInv, TableInv
      <4>. QED
        BY <1>1, <1>5, <4>1, TypeIndicesType
    <3>2. ASSUME NEW j \in TypeIndices(def) \ Bounded(def), j <= NMade'
          PROVE  j \in DOMAIN table
      <4>1. j \in Nat /\ j # i
        BY <1>1, <2>3, TypeIndicesType
      <4>2. j <= NMade
        BY <1>5, <3>2, <4>1
      <4>. QED
        BY <1>2, <4>2 DEF GenericsInv, TableInv
    <3>. QED
      BY <1>1, <1>2, <2>1, <3>1, <3>2 DEF GenericsInv, TableInv
  <2>. QED
    BY <1>8, <1>9, <1>10, <2>2, <2>4 DEF GenericsInv
<1>12. CASE ~(p \in Lifetimes \/ i \in DOMAIN bound.inputs)
  <2>1. table' = Add(table, i, Extracted(p))
    BY <1>1, <1>12
  <2>2. i \in TypeIndices(def) /\ i \notin Bounded(def) /\ p \in Listed(def)
    <3>1. i \in TypeIndices(def) /\ i \notin Bounded(def)
      BY <1>1, <1>5, <1>7, <1>12, ParamsType DEF TypeIndices, p
    <3>. QED
      BY <1>1, <3>1, ListedMeans DEF p
  <2>3. DOMAIN table' = DOMAIN table \cup {i} /\ table'[i] = Extracted(p)
    BY <2>1 DEF Add
  <2>4. ASSUME NEW j \in DOMAIN table
        PROVE  table'[j] = table[j] /\ j # i
    BY <1>6, <2>1 DEF Add
  <2>5. OverInv'
    <3>1. ASSUME NEW j \in DOMAIN table'
          PROVE  table'[j].over \subseteq Listed(def)
      <4>1. CASE j = i
        BY <2>2, <2>3, <4>1 DEF Extracted
      <4>2. CASE j \in DOMAIN table
        BY <1>1, <2>4, <4>2 DEF GenericsInv, OverInv
      <4>. QED
        BY <2>3, <4>1, <4>2
    <3>. QED
      BY <1>1, <3>1 DEF OverInv
  <2>6. BoundInv'
    <3>1. DOMAIN bound.inputs \cap DOMAIN table' = {}
      BY <1>2, <1>12, <2>3 DEF GenericsInv, BoundInv
    <3>. QED
      BY <1>1, <1>2, <2>3, <3>1 DEF GenericsInv, BoundInv, NRead
  <2>7. TableInv'
    <3>1. ASSUME NEW j \in DOMAIN table'
          PROVE  /\ j \in TypeIndices(def) /\ j <= NMade'
                 /\ \/ j \notin Bounded(def) /\ table'[j] = Extracted(AllParams(def)[j])
                    \/ j \in Bounded(def) /\ table'[j].kind = "replaced"
      <4>1. CASE j = i
        BY <1>5, <2>2, <2>3, <4>1 DEF p
      <4>2. CASE j \in DOMAIN table
        <5>1. j \in TypeIndices(def) /\ j <= NMade
          BY <1>2, <4>2 DEF GenericsInv, TableInv
        <5>2. j <= NMade'
          BY <1>1, <1>5, <5>1, TypeIndicesType
        <5>. QED
          BY <1>2, <2>4, <4>2, <5>1, <5>2 DEF GenericsInv, TableInv
      <4>. QED
        BY <2>3, <4>1, <4>2
    <3>2. ASSUME NEW j \in TypeIndices(def) \ Bounded(def), j <= NMade'
          PROVE  j \in DOMAIN table'
      <4>1. CASE j = i
        BY <2>3, <4>1
      <4>2. CASE j # i
        <5>1. j <= NMade
          BY <1>1, <1>5, <3>2, <4>2, TypeIndicesType
        <5>. QED
          BY <1>2, <2>3, <5>1 DEF GenericsInv, TableInv
      <4>. QED
        BY <4>1, <4>2
    <3>. QED
      BY <1>1, <3>1, <3>2 DEF TableInv
  <2>. QED
    BY <1>8, <1>9, <1>10, <2>5, <2>6, <2>7 DEF GenericsInv
<1>. QED
  BY <1>11, <1>12

(* What a predicate of a supported definition is about is in the table when *)
(* parameters are replaced.                                                 *)
LEMMA SupportedMentioned ==
  ASSUME GenericsInv, Making, predicates = <<>>, unmade = <<>>, Supported(def),
         NEW part \in Parts, NEW i \in DOMAIN bound[part]
  PROVE  Mentioned(bound[part][i]) \subseteq DOMAIN table
<1>1. def \in Defs
  BY DEF GenericsInv, TypeInv, Making
<1>2. PICK k \in 1 .. Len(Bounds[def]) : bound[part][i] = Bounds[def][k].types
  BY AllRead DEF GenericsInv, BoundInv
<1>3. Mentioned(bound[part][i]) \cap Bounded(def) = {}
  BY <1>1, <1>2, BoundsType DEF Supported, ToSet
<1>4. Mentioned(bound[part][i]) \subseteq TypeIndices(def)
  BY <1>1, <1>2, BoundsType, MentionedInScope
<1>5. NMade = Len(AllParams(def))
  BY <1>1, ParamsType, EmptySeq DEF NMade
<1>6. \A j \in TypeIndices(def) : j <= NMade
  BY <1>1, <1>5, TypeIndicesType, ParamsType
<1>. QED
  BY <1>3, <1>4, <1>6 DEF GenericsInv, TableInv

(* One parameter is replaced: this fails for unsupported definitions only.  *)
LEMMA ReplaceParameterStep ==
  ASSUME GenericsInv, ReplaceParameter
  PROVE  GenericsInv'
<1>1. PICK i \in DOMAIN bound.inputs : Replace(i)
  BY DEF ReplaceParameter
<1>2. /\ def \in Defs /\ def # NoDef /\ panicked = "none"
      /\ predicates = <<>> /\ unmade = <<>>
  BY DEF ReplaceParameter, Running, GenericsInv, TypeInv
<1>3. Making /\ ~Using
  BY <1>1, <1>2 DEF GenericsInv, UsingInv, Using, TableMade, Making
<1>4. /\ bound["inputs"] = bound.inputs /\ bound["output"] = bound.output
      /\ "inputs" \in Parts /\ "output" \in Parts
  BY DEF Parts
<1>5. i \in Bounded(def) /\ i \in TypeIndices(def)
  BY <1>2, <1>3, AllRead
<1>6. i \notin DOMAIN table
  BY <1>1, <1>3 DEF GenericsInv, BoundInv
<1> DEFINE inputs == bound.inputs[i]
           output == bound.output[i]
<1>7. CASE ~(Mentioned(inputs) \subseteq DOMAIN table)
  <2>1. ~Supported(def)
    BY <1>1, <1>2, <1>3, <1>4, <1>7, SupportedMentioned
  <2>. QED
    BY <1>1, <1>7, <2>1, PanicStep DEF Replace
<1>8. CASE i \notin DOMAIN bound.output
  <2>1. ASSUME Supported(def)
        PROVE  FALSE
    <3>1. \E b \in ToSet(Bounds[def]) : b.of = i /\ b.part = "output"
      BY <1>5, <2>1 DEF Supported
    <3>2. PICK k \in 1 .. Len(Bounds[def]) :
            Bounds[def][k].of = i /\ Bounds[def][k].part = "output"
      BY <1>2, <3>1, BoundsType DEF ToSet
    <3>3. i \in DOMAIN bound["output"] \cup DOMAIN table
      BY <1>2, <1>3, <1>4, <3>2, AllRead DEF GenericsInv, BoundInv
    <3>. QED
      BY <1>4, <1>6, <1>8, <3>3
  <2>2. \E reason : Panic(reason)
    BY <1>1, <1>8 DEF Replace
  <2>. QED
    BY <2>1, <2>2, PanicStep
<1>9. CASE i \in DOMAIN bound.output /\ ~(Mentioned(output) \subseteq DOMAIN table)
  <2>1. ~Supported(def)
    BY <1>2, <1>3, <1>4, <1>9, SupportedMentioned
  <2>2. \E reason : Panic(reason)
    BY <1>1, <1>9 DEF Replace
  <2>. QED
    BY <2>1, <2>2, PanicStep
<1>10. CASE /\ Mentioned(inputs) \subseteq DOMAIN table
            /\ i \in DOMAIN bound.output
            /\ Mentioned(output) \subseteq DOMAIN table
  <2> DEFINE entry == Replaced(OverAny(Mentioned(inputs) \cup Mentioned(output)))
  <2>1. /\ table' = Add(table, i, entry)
        /\ bound' = [inputs |-> Drop(bound.inputs, i),
                     output |-> Drop(bound.output, i)]
        /\ UNCHANGED <<def, predicates, unmade, uses, specs, generics, emitted,
                       panicked>>
    BY <1>1, <1>6, <1>10 DEF Replace
  <2>2. entry.kind = "replaced" /\ entry.over \subseteq Listed(def)
    <3>1. \A j \in Mentioned(inputs) \cup Mentioned(output) :
            table[j].over \subseteq Listed(def)
      BY <1>2, <1>10 DEF GenericsInv, OverInv
    <3>. QED
      BY <3>1 DEF Replaced, OverAny
  <2> HIDE DEF entry
  <2>3. DOMAIN table' = DOMAIN table \cup {i} /\ table'[i] = entry
    BY <2>1 DEF Add
  <2>4. ASSUME NEW j \in DOMAIN table
        PROVE  table'[j] = table[j]
    BY <1>6, <2>1 DEF Add
  <2>5. Making' /\ ~Using'
    BY <1>3, <2>1 DEF Making, Using
  <2>6. NMade = Len(AllParams(def)) /\ NMade' = NMade /\ NRead' = NRead
    BY <1>2, <2>1, ParamsType, EmptySeq DEF NMade, NRead
  <2>7. TypeInv' /\ ParametersListed' /\ EmittedInv' /\ SupportedNeverPanics'
    BY <1>2, <2>1 DEF GenericsInv, TypeInv, ParametersListed, EmittedInv,
         SupportedNeverPanics
  <2>8. PredicatesInv' /\ UnmadeInv'
    BY <1>3, <2>1, <2>6 DEF GenericsInv, PredicatesInv, UnmadeInv
  <2>9. UsingInv' /\ UsesInv'
    BY <1>2, <1>3, <2>1, <2>5 DEF GenericsInv, UsingInv, UsesInv
  <2>10. OverInv'
    <3>1. ASSUME NEW j \in DOMAIN table'
          PROVE  table'[j].over \subseteq Listed(def)
      BY <1>2, <2>2, <2>3, <2>4 DEF GenericsInv, OverInv
    <3>. QED
      BY <2>1, <3>1 DEF OverInv
  <2>11. TableInv'
    <3>1. i <= NMade
      BY <1>2, <1>5, <2>6, TypeIndicesType, ParamsType
    <3>2. ASSUME NEW j \in DOMAIN table'
          PROVE  /\ j \in TypeIndices(def) /\ j <= NMade
                 /\ \/ j \notin Bounded(def) /\ table'[j] = Extracted(AllParams(def)[j])
                    \/ j \in Bounded(def) /\ table'[j].kind = "replaced"
      <4>1. CASE j = i
        BY <1>5, <2>2, <2>3, <3>1, <4>1
      <4>2. CASE j \in DOMAIN table
        BY <1>3, <2>4, <4>2 DEF GenericsInv, TableInv
      <4>. QED
        BY <2>3, <4>1, <4>2
    <3>. QED
      BY <1>3, <2>1, <2>3, <2>6, <3>2 DEF GenericsInv, TableInv
  <2>12. BoundInv'
    <3>1. DOMAIN bound' = Parts
      BY <2>1 DEF Parts
    <3>2. ASSUME NEW part \in Parts
          PROVE  bound'[part] = Drop(bound[part], i)
      BY <1>4, <2>1 DEF Parts
    <3>3. ASSUME NEW part \in Parts
          PROVE  DOMAIN bound'[part] = DOMAIN bound[part] \ {i}
      BY <3>2 DEF Drop
    <3>4. ASSUME NEW part \in Parts, NEW j \in DOMAIN bound'[part]
          PROVE  j \in DOMAIN bound[part] /\ bound'[part][j] = bound[part][j]
      BY <3>2, <3>3 DEF Drop
    <3>5. ASSUME NEW part \in Parts, NEW j \in DOMAIN bound'[part]
          PROVE  \E k \in 1 .. NRead :
                   /\ Bounds[def][k].of = j /\ Bounds[def][k].part = part
                   /\ bound'[part][j] = Bounds[def][k].types
      BY <1>3, <3>4 DEF GenericsInv, BoundInv
    <3>6. ASSUME NEW k \in 1 .. NRead, NEW part \in Parts, Bounds[def][k].part = part
          PROVE  Bounds[def][k].of \in DOMAIN bound'[part] \cup DOMAIN table'
      <4>1. Bounds[def][k].of \in DOMAIN bound[part] \cup DOMAIN table
        BY <1>3, <3>6 DEF GenericsInv, BoundInv
      <4>. QED
        BY <2>3, <3>3, <4>1
    <3>7. DOMAIN bound'.inputs \cap DOMAIN table' = {}
      <4>1. DOMAIN bound'.inputs = DOMAIN bound.inputs \ {i}
        BY <2>1 DEF Drop
      <4>. QED
        BY <1>3, <2>3, <4>1 DEF GenericsInv, BoundInv
    <3>. QED
      BY <2>1, <2>6, <3>1, <3>5, <3>6, <3>7 DEF BoundInv
  <2>. QED
    BY <2>7, <2>8, <2>9, <2>10, <2>11, <2>12 DEF GenericsInv
<1>. QED
  BY <1>7, <1>8, <1>9, <1>10

(* The parameters are listed, in any order: each that is a type and has no  *)
(* bound once.                                                              *)
LEMMA ListParametersStep ==
  ASSUME GenericsInv, ListParameters
  PROVE  GenericsInv'
<1>1. /\ def \in Defs /\ def # NoDef /\ def \notin DOMAIN generics
      /\ predicates = <<>> /\ unmade = <<>> /\ DOMAIN bound.inputs = {}
      /\ panicked = "none"
      /\ UNCHANGED <<def, predicates, unmade, bound, table, uses, specs, emitted,
                     panicked>>
  BY DEF ListParameters, Running, TableMade, GenericsInv, TypeInv
<1>2. PICK order \in SetToSeqs(Kept) :
        generics' = Add(generics, def,
                        [k \in DOMAIN order |-> table[order[k]].param])
  BY DEF ListParameters
<1>3. Making /\ ~Using
  BY <1>1 DEF Making, Using
<1>4. DOMAIN generics' = DOMAIN generics \cup {def}
  BY <1>2 DEF Add
<1>5. ~Making' /\ Using'
  BY <1>1, <1>4 DEF Making, Using
<1>6. NMade = Len(AllParams(def))
  BY <1>1, ParamsType, EmptySeq DEF NMade
<1>7. DOMAIN table = TypeIndices(def)
  <2>1. \A i \in TypeIndices(def) : i <= NMade
    BY <1>1, <1>6, TypeIndicesType, ParamsType
  <2>2. \A i \in TypeIndices(def) \ Bounded(def) : i \in DOMAIN table
    BY <1>3, <2>1 DEF GenericsInv, TableInv
  <2>3. Bounded(def) \subseteq DOMAIN table
    BY <1>1, <1>3, AllRead
  <2>4. DOMAIN table \subseteq TypeIndices(def)
    BY <1>3 DEF GenericsInv, TableInv
  <2>. QED
    BY <2>2, <2>3, <2>4
<1>8. Kept = TypeIndices(def) \ Bounded(def)
  <2>1. ASSUME NEW i \in DOMAIN table
        PROVE  table[i].kind = "extracted" <=> i \notin Bounded(def)
    BY <1>3 DEF GenericsInv, TableInv, Extracted
  <2>. QED
    BY <1>7, <2>1 DEF Kept
<1>9. ASSUME NEW i \in Kept
      PROVE  table[i].param = AllParams(def)[i]
  BY <1>3, <1>7, <1>8 DEF GenericsInv, TableInv, Extracted
<1> DEFINE params == generics'[def]
           c == Cardinality(Kept)
<1>10. /\ order \in [1 .. c -> Kept] /\ DOMAIN order = 1 .. c
       /\ IsInjective(order)
  BY DEF SetToSeqs, IsInjective
<1>11. \A i \in Kept : \E k \in 1 .. c : order[k] = i
  <2>1. IsFiniteSet(Kept) /\ c \in Nat
    <3>1. Kept \in SUBSET (1 .. Len(AllParams(def)))
      BY <1>1, <1>8, TypeIndicesType
    <3>2. IsFiniteSet(1 .. Len(AllParams(def)))
      BY <1>1, ParamsType, FS_Interval
    <3>. QED
      BY <3>1, <3>2, FS_Subset, FS_CardinalityType
  <2>2. Cardinality(1 .. c) = c
    BY <2>1, FS_Interval
  <2>3. order \in Injection(1 .. c, Kept)
    BY <1>10 DEF Injection
  <2>4. order \in Surjection(1 .. c, Kept)
    BY <2>1, <2>2, <2>3, FS_Injection
  <2>. QED
    BY <2>4 DEF Surjection
<1> HIDE DEF c
<1>12. params = [k \in 1 .. c |-> AllParams(def)[order[k]]]
  <2>1. params = [k \in 1 .. c |-> table[order[k]].param]
    BY <1>2, <1>10 DEF Add
  <2>. QED
    BY <1>9, <1>10, <2>1
<1>13. ASSUME NEW d \in DOMAIN generics
       PROVE  generics'[d] = generics[d] /\ d # def
  BY <1>1, <1>2 DEF Add
<1> HIDE DEF params
<1>14. IsInjective(params) /\ ToSet(params) = Listed(def)
  <2>1. \A k \in 1 .. c : order[k] \in DOMAIN AllParams(def) /\ order[k] \in Kept
    BY <1>8, <1>10 DEF TypeIndices
  <2>2. IsInjective(params)
    BY <1>1, <1>10, <1>12, <2>1, ParamsType DEF IsInjective
  <2>3. ToSet(params) = {AllParams(def)[i] : i \in Kept}
    BY <1>11, <1>12, <2>1 DEF ToSet
  <2>. QED
    BY <1>1, <1>8, <2>2, <2>3, ListedMeans
<1>15. ParametersListed'
  <2>1. ASSUME NEW d \in DOMAIN generics'
        PROVE  IsInjective(generics'[d]) /\ ToSet(generics'[d]) = Listed(d)
    <3>1. CASE d = def
      BY <1>14, <3>1 DEF params
    <3>2. CASE d \in DOMAIN generics
      BY <1>13, <3>2 DEF GenericsInv, ParametersListed
    <3>. QED
      BY <1>4, <3>1, <3>2
  <2>. QED
    BY <2>1 DEF ParametersListed
<1>16. TypeInv' /\ OverInv' /\ SupportedNeverPanics'
  BY <1>1, <1>4 DEF GenericsInv, TypeInv, OverInv, SupportedNeverPanics
<1>17. PredicatesInv' /\ UnmadeInv' /\ BoundInv' /\ TableInv'
  BY <1>5 DEF PredicatesInv, UnmadeInv, BoundInv, TableInv
<1>18. UsingInv'
  BY <1>1, <1>7 DEF UsingInv, TableMade
<1>19. UsesInv'
  BY <1>1, <1>3, <1>5, <1>7, UsesType DEF GenericsInv, UsesInv
<1>20. EmittedInv'
  BY <1>1, <1>4 DEF GenericsInv, EmittedInv
<1>. QED
  BY <1>15, <1>16, <1>17, <1>18, <1>19, <1>20 DEF GenericsInv

(* What is passed on of a use are some of its types, each in its place.     *)
LEMMA TypeArgumentsType ==
  ASSUME NEW use \in UseOf(Types)
  PROVE  /\ Cardinality(PassedOn(use)) \in Nat
         /\ PassedOn(use) \in SUBSET (1 .. Len(use.types))
         /\ DOMAIN TypeArguments(use) = 1 .. Cardinality(PassedOn(use))
         /\ \A k \in 1 .. Cardinality(PassedOn(use)) :
              /\ Ascending(PassedOn(use))[k] \in PassedOn(use)
              /\ TypeArguments(use)[k] = use.types[Ascending(PassedOn(use))[k]]
<1>1. use.types \in Seq(Types) /\ Len(use.types) \in Nat
      /\ DOMAIN use.types = 1 .. Len(use.types)
  BY LenProperties DEF UseOf
<1>2. PassedOn(use) \in SUBSET (1 .. Len(use.types))
  BY <1>1 DEF PassedOn
<1>3. /\ Cardinality(PassedOn(use)) \in Nat
      /\ Ascending(PassedOn(use)) \in [1 .. Cardinality(PassedOn(use)) -> PassedOn(use)]
  BY <1>1, <1>2, AscendingLists
<1>. QED
  BY <1>2, <1>3 DEF TypeArguments

(* Types are extracted with a table that has what they mention.             *)
LEMMA UseTypesStep ==
  ASSUME GenericsInv, UseTypes
  PROVE  GenericsInv'
<1> DEFINE use == Head(uses)
           args == TypeArguments(use)
<1>1. /\ def \in Defs /\ def # NoDef /\ def \in DOMAIN generics
      /\ panicked = "none" /\ uses # <<>>
  BY DEF UseTypes, Running, GenericsInv, TypeInv
<1>2. Using /\ ~Making
  BY <1>1 DEF Using, Making
<1>3. /\ uses \in Seq(UseOf(Types)) /\ Len(uses) \in Nat
      /\ \A k \in 1 .. Len(uses) : Mentioned(uses[k].types) \subseteq DOMAIN table
  BY <1>1, <1>2, LenProperties DEF GenericsInv, UsesInv
<1>4. /\ use \in UseOf(Types) /\ use = uses[1] /\ 1 \in 1 .. Len(uses)
      /\ Tail(uses) \in Seq(UseOf(Types)) /\ Len(Tail(uses)) = Len(uses) - 1
      /\ \A k \in 1 .. Len(Tail(uses)) : Tail(uses)[k] = uses[k + 1]
  BY <1>1, <1>3, HeadTailProperties, EmptySeq
<1> HIDE DEF use
<1>5. ASSUME NEW k \in DOMAIN args
      PROVE  args[k].mentions \subseteq Mentioned(use.types)
  <2>1. PICK i \in PassedOn(use) : args[k] = use.types[i]
    BY <1>4, TypeArgumentsType
  <2>2. i \in DOMAIN use.types
    BY <2>1 DEF PassedOn
  <2>. QED
    BY <2>1, <2>2 DEF Mentioned
<1>6. Mentioned(args) \subseteq DOMAIN table
  <2>1. Mentioned(use.types) \subseteq DOMAIN table
    BY <1>3, <1>4
  <2>. QED
    BY <1>5, <2>1 DEF Mentioned
<1> DEFINE new == [in |-> def, use |-> use, args |-> [i \in DOMAIN args |-> Type(args[i])]]
<1>7. /\ emitted' = emitted \cup {new} /\ uses' = Tail(uses)
      /\ UNCHANGED <<def, predicates, unmade, bound, table, specs, generics, panicked>>
  BY <1>6 DEF UseTypes, use
<1>8. ~Making' /\ Using'
  BY <1>2, <1>7 DEF Making, Using
<1>9. TypeInv' /\ OverInv' /\ ParametersListed' /\ SupportedNeverPanics'
  BY <1>1, <1>7 DEF GenericsInv, TypeInv, OverInv, ParametersListed, SupportedNeverPanics
<1>10. PredicatesInv' /\ UnmadeInv' /\ BoundInv' /\ TableInv'
  BY <1>8 DEF PredicatesInv, UnmadeInv, BoundInv, TableInv
<1>11. UsingInv'
  BY <1>2, <1>7, <1>8 DEF GenericsInv, UsingInv, TableMade
<1>12. UsesInv'
  <2>1. ASSUME NEW k \in 1 .. Len(uses')
        PROVE  Mentioned(uses'[k].types) \subseteq DOMAIN table
    <3>1. k + 1 \in 1 .. Len(uses)
      BY <1>3, <1>4, <1>7
    <3>. QED
      BY <1>3, <1>4, <1>7, <3>1
  <2>. QED
    BY <1>1, <1>4, <1>7, <1>8, <2>1 DEF GenericsInv, UsesInv
<1>13. ASSUME NEW i \in DOMAIN args
       PROVE  /\ Type(args[i]).over \subseteq Listed(def)
              /\ Type(args[i]).base = BaseOf(args[i])
  <2>1. Type(args[i]).base = BaseOf(args[i])
    BY DEF Type, BaseOf
  <2>2. \A j \in args[i].mentions : j \in DOMAIN table
    BY <1>6 DEF Mentioned
  <2>3. OverAny(args[i].mentions) \subseteq Listed(def)
    BY <1>1, <2>2 DEF OverAny, GenericsInv, OverInv
  <2>. QED
    BY <2>1, <2>3 DEF Type
<1>14. EmittedInv'
  <2>1. ASSUME NEW e \in emitted'
        PROVE  /\ e.in \in DOMAIN generics
               /\ \A i \in DOMAIN e.args : e.args[i].over \subseteq Listed(e.in)
               /\ e.use \in UseOf(Types)
               /\ DOMAIN e.args = DOMAIN TypeArguments(e.use)
               /\ Len(e.args) = Cardinality(PassedOn(e.use))
               /\ \A i \in DOMAIN e.args : e.args[i].base = BaseOf(TypeArguments(e.use)[i])
    <3>1. CASE e \in emitted
      BY <3>1 DEF GenericsInv, EmittedInv
    <3>2. CASE e = new
      <4>1. Len(new.args) = Cardinality(PassedOn(use))
        BY <1>4, TypeArgumentsType
      <4>. QED
        BY <1>1, <1>4, <1>13, <3>2, <4>1
    <3>. QED
      BY <1>7, <3>1, <3>2
  <2>. QED
    BY <1>7, <2>1 DEF EmittedInv
<1>. QED
  BY <1>9, <1>10, <1>11, <1>12, <1>14 DEF GenericsInv

(* The table of a supported definition that has spec functions has an entry *)
(* for each parameter.                                                      *)
LEMMA SupportedTable ==
  ASSUME GenericsInv, Using, Supported(def), NEW spec \in ToSet(Specs[def])
  PROVE  DOMAIN table = 1 .. Len(AllParams(def))
<1>1. def \in Defs
  BY DEF GenericsInv, TypeInv, Using
<1>2. ToSet(AllParams(def)) \cap Lifetimes = {}
  BY DEF Supported
<1>3. TypeIndices(def) = 1 .. Len(AllParams(def))
  BY <1>1, <1>2, ParamsType DEF TypeIndices, ToSet
<1>4. ASSUME NEW s \in ToSet(Specs[def])
      PROVE  DOMAIN AllParams(s) = 1 .. Len(AllParams(def))
  <2>1. s \in Defs /\ Len(AllParams(s)) = Len(AllParams(def))
    BY <1>1, SpecsType DEF Supported
  <2>. QED
    BY <2>1, ParamsType
<1>. QED
  BY <1>3, <1>4 DEF GenericsInv, UsingInv

(* A spec function is entered with the table of its function.               *)
LEMMA EnterSpecStep ==
  ASSUME GenericsInv, EnterSpec
  PROVE  GenericsInv'
<1> DEFINE spec == Head(specs)
           params == AllParams(spec)
<1>1. /\ def \in Defs /\ def # NoDef /\ def \in DOMAIN generics
      /\ panicked = "none" /\ specs # <<>>
  BY DEF EnterSpec, Running, GenericsInv, TypeInv
<1>2. Using /\ ~Making
  BY <1>1 DEF Using, Making
<1>3. /\ specs \in Seq(Defs) /\ Len(specs) \in Nat
      /\ \A k \in 1 .. Len(specs) : specs[k] \in ToSet(Specs[def])
  BY <1>1, LenProperties DEF GenericsInv, UsesInv
<1>4. /\ spec = specs[1] /\ 1 \in 1 .. Len(specs)
      /\ Tail(specs) \in Seq(Defs) /\ Len(Tail(specs)) = Len(specs) - 1
      /\ \A k \in 1 .. Len(Tail(specs)) : Tail(specs)[k] = specs[k + 1]
  BY <1>1, <1>3, HeadTailProperties, EmptySeq
<1>5. spec \in ToSet(Specs[def]) /\ spec \in Defs
  BY <1>1, <1>3, <1>4, SpecsType
<1>6. DOMAIN params = 1 .. Len(params) /\ Len(params) \in Nat
  BY <1>5, ParamsType
<1>7. CASE \/ Parent[spec] # Parent[def]
           \/ Len(params) # Cardinality(DOMAIN table)
           \/ ~(DOMAIN params \subseteq DOMAIN table)
  <2>1. ASSUME Supported(def)
        PROVE  FALSE
    <3>1. Parent[spec] = Parent[def] /\ Len(params) = Len(AllParams(def))
      BY <1>5, <2>1 DEF Supported
    <3>2. DOMAIN table = 1 .. Len(params)
      BY <1>2, <1>5, <2>1, <3>1, SupportedTable
    <3>3. Cardinality(1 .. Len(params)) = Len(params)
      BY <1>6, UptoCardinality
    <3>. QED
      BY <1>6, <1>7, <3>1, <3>2, <3>3
  <2>2. \E reason : Panic(reason)
    BY <1>7 DEF EnterSpec
  <2>. QED
    BY <2>1, <2>2, PanicStep
<1>8. CASE /\ Parent[spec] = Parent[def]
           /\ Len(params) = Cardinality(DOMAIN table)
           /\ DOMAIN params \subseteq DOMAIN table
  <2>1. /\ table' = SpecTable(spec) /\ uses' = Uses[spec] /\ specs' = Tail(specs)
        /\ UNCHANGED <<def, predicates, unmade, bound, generics, emitted, panicked>>
    BY <1>8 DEF EnterSpec
  <2>2. DOMAIN table' = DOMAIN params /\ \A i \in DOMAIN table' : table'[i] = table[i]
    BY <2>1 DEF SpecTable
  <2>3. ~Making' /\ Using'
    BY <1>2, <2>1 DEF Making, Using
  <2>4. TypeInv' /\ ParametersListed' /\ EmittedInv' /\ SupportedNeverPanics'
    BY <1>1, <2>1 DEF GenericsInv, TypeInv, ParametersListed, EmittedInv,
         SupportedNeverPanics
  <2>5. PredicatesInv' /\ UnmadeInv' /\ BoundInv' /\ TableInv'
    BY <2>3 DEF PredicatesInv, UnmadeInv, BoundInv, TableInv
  <2>6. OverInv'
    <3>1. \A i \in DOMAIN table' : table'[i].over \subseteq Listed(def)
      BY <1>1, <1>8, <2>2 DEF GenericsInv, OverInv
    <3>. QED
      BY <2>1, <3>1 DEF OverInv
  <2>7. UsingInv'
    <3>1. TableMade'
      BY <1>2, <2>1 DEF GenericsInv, UsingInv, TableMade
    <3>. QED
      BY <1>5, <2>1, <2>2, <3>1 DEF UsingInv
  <2>8. UsesInv'
    <3>1. Uses[spec] \in Seq(UseOf(Types))
      BY <1>5, UsesType
    <3>2. ASSUME NEW k \in 1 .. Len(Uses[spec])
          PROVE  Mentioned(Uses[spec][k].types) \subseteq DOMAIN table'
      <4>1. Mentioned(Uses[spec][k].types) \subseteq TypeIndices(spec)
        BY <1>5, UsesType
      <4>. QED
        BY <2>2, <4>1 DEF TypeIndices
    <3>3. ASSUME NEW k \in 1 .. Len(Tail(specs))
          PROVE  Tail(specs)[k] \in ToSet(Specs[def])
      <4>1. k + 1 \in 1 .. Len(specs)
        BY <1>3, <1>4
      <4>. QED
        BY <1>3, <1>4, <4>1
    <3>. QED
      BY <1>4, <2>1, <2>3, <3>1, <3>2, <3>3 DEF UsesInv
  <2>. QED
    BY <2>4, <2>5, <2>6, <2>7, <2>8 DEF GenericsInv
<1>. QED
  BY <1>7, <1>8

LEMMA GenericsStep == GenericsInv /\ [Next]_vars => GenericsInv'
<1> SUFFICES ASSUME GenericsInv, [Next]_vars PROVE GenericsInv'
  OBVIOUS
<1>1. CASE \E d \in Defs : Start(d)
  BY <1>1, StartStep
<1>2. CASE ReadBound
  BY <1>2, ReadBoundStep
<1>3. CASE MakeParameter
  BY <1>3, MakeParameterStep
<1>4. CASE ReplaceParameter
  BY <1>4, ReplaceParameterStep
<1>5. CASE ListParameters
  BY <1>5, ListParametersStep
<1>6. CASE UseTypes
  BY <1>6, UseTypesStep
<1>7. CASE EnterSpec
  BY <1>7, EnterSpecStep
<1>8. CASE Finish
  BY <1>8, FinishStep
<1>9. CASE UNCHANGED vars
  BY <1>9, StutterStep
<1>. QED
  BY <1>1, <1>2, <1>3, <1>4, <1>5, <1>6, <1>7, <1>8, <1>9 DEF Next

LEMMA GenericsInvariant == Spec => []GenericsInv
<1>1. Init => GenericsInv
  BY InitStep
<1>2. GenericsInv /\ [Next]_vars => GenericsInv'
  BY GenericsStep
<1>. QED
  BY <1>1, <1>2, PTL DEF Spec

-----------------------------------------------------------------------------
(* The theorems.                                                            *)

(* Whatever the bounds and the order of the hash maps, no assertion of      *)
(* extract_generics and extract_spec_fn fails and no parameter is missing   *)
(* for a definition that is supported.                                      *)
THEOREM SupportedGenericsExtracted == Spec => []SupportedNeverPanics
<1>1. GenericsInv => SupportedNeverPanics
  BY DEF GenericsInv
<1>. QED
  BY <1>1, GenericsInvariant, PTL

(* extract_generics lists each type parameter without a bound once.         *)
THEOREM ParametersListedOnce == Spec => []ParametersListed
<1>1. GenericsInv => ParametersListed
  BY DEF GenericsInv
<1>. QED
  BY <1>1, GenericsInvariant, PTL

(* extract_ty makes no type of parameters that the definition does not      *)
(* list, in functions, ADTs and contracts of spec functions.                *)
THEOREM TypesAreClosed == Spec => []TypesClosed
<1>1. GenericsInv => TypesClosed
  BY DEF GenericsInv, EmittedInv, ParametersListed, TypesClosed
<1>. QED
  BY <1>1, GenericsInvariant, PTL

(* If just the closures given for parameters with a bound are removed, what *)
(* is passed on are the arguments of the listed parameters.                 *)
LEMMA PassedOnListed ==
  ASSUME NEW use \in UseOf(Types), OnlyClosuresRemoved(use)
  PROVE  PassedOn(use) =
           {i \in DOMAIN use.types : AllParams(use.of)[i] \in Listed(use.of)}
<1>1. use.of \in Defs
  BY DEF UseOf
<1>2. ASSUME NEW i \in DOMAIN use.types
      PROVE  AllParams(use.of)[i] \in Listed(use.of) <=> i \notin Bounded(use.of)
  <2>1. i \in TypeIndices(use.of)
    BY DEF OnlyClosuresRemoved, TypeIndices, ToSet
  <2>2. ASSUME NEW j \in TypeIndices(use.of), AllParams(use.of)[j] = AllParams(use.of)[i]
        PROVE  j = i
    BY <1>1, <2>1, <2>2, ParamsType DEF IsInjective, TypeIndices
  <2>. QED
    BY <1>1, <2>1, <2>2, ListedMeans
<1>. QED
  BY <1>2 DEF PassedOn, OnlyClosuresRemoved

(* As many types of a kind are passed on as there are to pass on.           *)
LEMMA PassedOnCounted ==
  ASSUME NEW use \in UseOf(Types), NEW base
  PROVE  Cardinality({i \in PassedOn(use) : use.types[i].base = base}) =
           Cardinality({k \in DOMAIN TypeArguments(use) :
                          TypeArguments(use)[k].base = base})
<1> DEFINE P == PassedOn(use)
           c == Cardinality(P)
           asc == Ascending(P)
           A == {k \in DOMAIN TypeArguments(use) : TypeArguments(use)[k].base = base}
           B == {i \in P : use.types[i].base = base}
           f == [k \in A |-> asc[k]]
<1>1. /\ c \in Nat /\ P \in SUBSET (1 .. Len(use.types))
      /\ DOMAIN TypeArguments(use) = 1 .. c
      /\ \A k \in 1 .. c : asc[k] \in P /\ TypeArguments(use)[k] = use.types[asc[k]]
  BY TypeArgumentsType
<1>2. Len(use.types) \in Nat
  BY LenProperties DEF UseOf
<1>3. /\ asc \in [1 .. c -> P] /\ IsInjective(asc)
      /\ \A i \in P : \E k \in 1 .. c : asc[k] = i
  BY <1>1, <1>2, AscendingLists
<1>4. IsFiniteSet(A)
  <2>1. IsFiniteSet(1 .. c) /\ A \in SUBSET (1 .. c)
    BY <1>1, FS_Interval
  <2>. QED
    BY <2>1, FS_Subset
<1> HIDE DEF P, c, asc
<1>5. f \in [A -> B]
  BY <1>1
<1>6. f \in Injection(A, B)
  BY <1>1, <1>3, <1>5 DEF Injection, IsInjective
<1>7. f \in Surjection(A, B)
  BY <1>1, <1>3, <1>5 DEF Surjection
<1>8. ExistsBijection(A, B)
  BY <1>6, <1>7 DEF ExistsBijection, Bijection
<1>. QED
  BY <1>4, <1>8, FS_Bijection DEF P

(* extract_arg_types and extract_ty pass on, for each use, as many types of *)
(* each kind as the program has for the parameters that are listed.         *)
THEOREM ArgumentsPassedOn == Spec => []ArgumentsComplete
<1>1. GenericsInv => ArgumentsComplete
  <2>1. SUFFICES ASSUME GenericsInv, NEW e \in emitted, OnlyClosuresRemoved(e.use)
                 PROVE  LET kept == {i \in DOMAIN e.use.types :
                                       AllParams(e.use.of)[i] \in Listed(e.use.of)}
                            count(base) == Cardinality({i \in kept :
                                             e.use.types[i].base = base})
                        IN  /\ Len(e.args) = Cardinality(kept)
                            /\ \A i \in DOMAIN e.args :
                                 e.args[i].base # "untyped" =>
                                   count(e.args[i].base) =
                                     Cardinality({j \in DOMAIN e.args :
                                       e.args[j].base = e.args[i].base})
    BY DEF ArgumentsComplete
  <2>2. /\ e.use \in UseOf(Types)
        /\ DOMAIN e.args = DOMAIN TypeArguments(e.use)
        /\ Len(e.args) = Cardinality(PassedOn(e.use))
        /\ \A i \in DOMAIN e.args : e.args[i].base = BaseOf(TypeArguments(e.use)[i])
    BY <2>1 DEF GenericsInv, EmittedInv
  <2>3. PassedOn(e.use) = {i \in DOMAIN e.use.types :
                             AllParams(e.use.of)[i] \in Listed(e.use.of)}
    BY <2>1, <2>2, PassedOnListed
  <2>4. ASSUME NEW i \in DOMAIN e.args, e.args[i].base # "untyped"
        PROVE  Cardinality({k \in PassedOn(e.use) : e.use.types[k].base = e.args[i].base})
                 = Cardinality({j \in DOMAIN e.args : e.args[j].base = e.args[i].base})
    <3>1. ASSUME NEW j \in DOMAIN e.args
          PROVE  e.args[j].base = e.args[i].base
                   <=> TypeArguments(e.use)[j].base = e.args[i].base
      BY <2>2, <2>4 DEF BaseOf, IsUnsupported
    <3>2. {j \in DOMAIN e.args : e.args[j].base = e.args[i].base}
            = {j \in DOMAIN TypeArguments(e.use) :
                 TypeArguments(e.use)[j].base = e.args[i].base}
      BY <2>2, <3>1
    <3>3. Cardinality({k \in PassedOn(e.use) : e.use.types[k].base = e.args[i].base})
            = Cardinality({j \in DOMAIN TypeArguments(e.use) :
                 TypeArguments(e.use)[j].base = e.args[i].base})
      BY ONLY <2>2, PassedOnCounted, Zenon
    <3>. QED
      BY <3>2, <3>3
  <2>. QED
    BY <2>2, <2>3, <2>4
<1>. QED
  BY <1>1, GenericsInvariant, PTL
=============================================================================
