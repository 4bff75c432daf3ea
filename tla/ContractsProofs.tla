--------------------------- MODULE ContractsProofs --------------------------
(***************************************************************************)
(* Proofs about Contracts, for any programs and whatever bodies are         *)
(* extracted to: flags get to what they are written for or there is a       *)
(* warning, and in a program without errors every function has the contract *)
(* that is written at it.                                                   *)
(***************************************************************************)
EXTENDS Contracts, FiniteSetTheorems, SequenceTheorems, TLAPS

-----------------------------------------------------------------------------
(* Attributes.                                                              *)
AttrsOf(k) == DOMAIN written[k].attrs
IsCondition(k, i) == Attr(k, i).mac \in SpecTypes /\ Attr(k, i).form # "inert"
Compiled == phase \in {"discover", "extract", "done"}

(* Attributes are marked as their macros leave them: a flag stays with its  *)
(* item and a condition does not.                                           *)
MarkOf(k, i) ==
  /\ attributes[k][i] \in {"macro", "inert", "gone"}
  /\ Attr(k, i).form = "inert" => attributes[k][i] = "inert"
  /\ IsCondition(k, i) => attributes[k][i] # "inert"
  /\ Attr(k, i).mac \notin SpecTypes => attributes[k][i] # "gone"
  /\ Compiled => attributes[k][i] # "macro"
Shapes ==
  /\ WellFormed(written)
  /\ DOMAIN attributes = DOMAIN written
  /\ \A k \in DOMAIN written : DOMAIN attributes[k] = AttrsOf(k)
MarksKept ==
  Compiled \/ (phase = "expand" /\ errors = {}) =>
    \A k \in DOMAIN written : \A i \in AttrsOf(k) : MarkOf(k, i)
PhasesKept ==
  /\ phase \in {"expand", "stopped", "discover", "extract", "done"}
  /\ phase \notin {"extract", "done"} => DOMAIN defs = {}
MarkInv == Shapes /\ MarksKept /\ PhasesKept

-----------------------------------------------------------------------------
(* Spec functions.  One is of a condition of a function, which is expanded. *)
Made == [of : Nat, attr : Nat, expansion : Nat, index : Nat]
IsMade(g) ==
  /\ g \in Made
  /\ g.of \in Functions_
  /\ g.attr \in AttrsOf(g.of)
  /\ IsCondition(g.of, g.attr)
  /\ attributes[g.of][g.attr] = "gone"
  /\ g.index \in DOMAIN Numerals
MadeRight == \A g \in generated : IsMade(g)

(* It is filed for the function it is of, in the place of its type.         *)
FiledRight ==
  /\ DOMAIN specs = DOMAIN written
  /\ \A k \in DOMAIN specs :
       /\ specs[k] \in [SpecTypes -> Seq(Made)]
       /\ \A type \in SpecTypes : \A g \in Range(specs[k][type]) :
            IsMade(g) /\ g.of = k /\ SpecType(g) = type

(* A condition has one, which is found or waits to be, once it is expanded. *)
Waits(k, j) == \E g \in generated : g.of = k /\ g.attr = j
Filed(k, j) == \E g \in Range(specs[k][Attr(k, j).mac]) : g.attr = j
NoneLost ==
  \A k \in DOMAIN written : \A j \in AttrsOf(k) :
    IsCondition(k, j) /\ attributes[k][j] = "gone" => Waits(k, j) \/ Filed(k, j)
NoneTwice ==
  /\ \A g, h \in generated : g.of = h.of /\ g.attr = h.attr => g = h
  /\ \A g \in generated : ~Filed(g.of, g.attr)
  /\ \A k \in DOMAIN specs : \A type \in SpecTypes :
       \A i, j \in DOMAIN specs[k][type] :
         specs[k][type][i].attr = specs[k][type][j].attr => i = j

(* Where order counts, all of a function are of one expansion, and those    *)
(* found are in order and precede those that wait.                          *)
OneExpansion ==
  \A g \in generated : KeepsOrder(g.of) =>
    /\ \A h \in generated : h.of = g.of => h.expansion = g.expansion
    /\ \A j \in AttrsOf(g.of) : IsCondition(g.of, j) => attributes[g.of][j] = "gone"
InOrderFiled ==
  \A k \in DOMAIN specs : KeepsOrder(k) =>
    \A type \in SpecTypes : \A i \in DOMAIN specs[k][type] :
      /\ \A j \in DOMAIN specs[k][type] :
           i < j => specs[k][type][i].attr < specs[k][type][j].attr
      /\ \A g \in generated : g.of = k => specs[k][type][i].attr < g.attr

(* The definition of a function is put together from those filed for it.    *)
FiledTrees(k, type) == Trees(ExtractSpecFns(specs[k][type]))
Assembled(k) ==
  /\ Len(specs[k]["measure"]) <= 1
  /\ defs[k].tree =
       WithContract(FiledTrees(k, "measure"), FiledTrees(k, "pre"), FiledTrees(k, "post"),
                    ExtractBody[written[k].body].tree)
DefsAssembled == \A k \in DOMAIN defs : k \in Functions_ => Assembled(k)

PhaseSpecs ==
  /\ phase \in {"expand", "stopped"} =>
       \A k \in DOMAIN specs : \A type \in SpecTypes : specs[k][type] = <<>>
  /\ phase \in {"extract", "done"} => generated = {}
  /\ phase = "done" => DOMAIN written \subseteq DOMAIN defs

SpecsRight ==
  /\ MadeRight
  /\ FiledRight
  /\ NoneLost
  /\ NoneTwice
  /\ OneExpansion
  /\ InOrderFiled
  /\ DefsAssembled
  /\ PhaseSpecs
SpecsInv == errors = {} => SpecsRight

-----------------------------------------------------------------------------
(* Attributes are marked right: initially ...                               *)
LEMMA InitMark == Init => MarkInv
<1> SUFFICES ASSUME Init PROVE MarkInv
  OBVIOUS
<1>1. WellFormed(written)
  BY ContractsAssumption DEF Init
<1>2. Shapes
  BY <1>1 DEF Init, Shapes, AttrsOf
<1>3. ASSUME NEW k \in DOMAIN written, NEW i \in AttrsOf(k) PROVE MarkOf(k, i)
  <2>1. attributes[k][i] = IF Attr(k, i).form = "inert" THEN "inert" ELSE "macro"
    BY <1>3 DEF Init, AttrsOf
  <2> QED
    BY <2>1 DEF MarkOf, IsCondition, Compiled, Init
<1>4. MarksKept
  BY <1>3 DEF MarksKept
<1>5. PhasesKept
  BY DEF Init, PhasesKept
<1> QED
  BY <1>2, <1>4, <1>5 DEF MarkInv

(* ... and where neither items nor attributes change and no phase is        *)
(* entered in which other marks are expected (FileSpec, Extract).           *)
LEMMA MarksStay ==
  ASSUME MarksKept, written' = written, attributes' = attributes,
         Compiled' \/ (phase' = "expand" /\ errors' = {}) =>
           (Compiled \/ (phase = "expand" /\ errors = {})),
         Compiled' => Compiled
  PROVE  MarksKept'
<1> SUFFICES ASSUME (Compiled \/ (phase = "expand" /\ errors = {}))',
                    NEW k \in DOMAIN written, NEW i \in AttrsOf(k)
             PROVE  MarkOf(k, i)'
  BY DEF MarksKept, AttrsOf
<1>1. MarkOf(k, i)
  BY DEF MarksKept
<1> QED
  BY <1>1 DEF MarkOf, IsCondition, Attr

(* A step of expansion only marks attributes that are still macros: a       *)
(* condition as gone and a flag as inert.                                   *)
LEMMA MarksOnce ==
  ASSUME MarkInv, Expand, errors' = {}, NEW l \in DOMAIN written, NEW j \in AttrsOf(l)
  PROVE  /\ MarkOf(l, j)
         /\ attributes'[l][j] # attributes[l][j] =>
              /\ attributes[l][j] = "macro"
              /\ attributes'[l][j] = IF Attr(l, j).mac \in SpecTypes THEN "gone" ELSE "inert"
<1>1. PICK k \in DOMAIN written : \E i \in Macros(k) :
        IF Attr(k, i).mac \in SpecTypes THEN ExpandSpec(k, i) ELSE RewriteFlag(k, i)
  BY DEF Expand
<1>2. PICK i \in Macros(k) :
        IF Attr(k, i).mac \in SpecTypes THEN ExpandSpec(k, i) ELSE RewriteFlag(k, i)
  BY <1>1
<1>3. i \in AttrsOf(k) /\ attributes[k][i] = "macro" /\ k \in DOMAIN attributes
      /\ DOMAIN attributes[k] = AttrsOf(k)
  BY DEF Macros, Marked, MarkInv, Shapes
<1>4. phase = "expand" /\ errors = {}
  BY <1>2 DEF Expand, ExpandSpec, RewriteFlag
<1>5. MarkOf(l, j)
  BY <1>4 DEF MarkInv, MarksKept
<1>6. CASE l # k
  <2>1. attributes'[l] = attributes[l]
    BY <1>2, <1>6 DEF ExpandSpec, RewriteFlag, MarkInv, Shapes
  <2> QED
    BY <1>5, <2>1
<1>7. CASE l = k /\ Attr(k, i).mac \in SpecTypes
  <2>1. attributes'[k][j] = IF j = i \/ j \in BareSpecs(k) THEN "gone" ELSE attributes[k][j]
    BY <1>2, <1>3, <1>7 DEF ExpandSpec
  <2>2. j = i \/ j \in BareSpecs(k) =>
          attributes[k][j] = "macro" /\ Attr(k, j).mac \in SpecTypes
    BY <1>3, <1>7 DEF BareSpecs, Macros, Marked, IsBareSpec
  <2> QED
    BY <1>5, <1>7, <2>1, <2>2
<1>8. CASE l = k /\ Attr(k, i).mac \notin SpecTypes
  <2>1. attributes'[k][j] = IF j = i THEN "inert" ELSE attributes[k][j]
    BY <1>2, <1>3, <1>8 DEF RewriteFlag
  <2> QED
    BY <1>3, <1>5, <1>8, <2>1
<1> QED
  BY <1>6, <1>7, <1>8

(* So expansion keeps marks right.                                         *)
LEMMA ExpandMark == ASSUME MarkInv, Expand PROVE MarkInv'
<1> USE DEF MarkInv
<1>1. written' = written /\ phase = "expand" /\ phase' = "expand" /\ defs' = defs
  BY DEF Expand
<1>2. DOMAIN attributes' = DOMAIN attributes
      /\ \A l \in DOMAIN written : DOMAIN attributes'[l] = DOMAIN attributes[l]
  <2>1. PICK k \in DOMAIN written : \E i \in Macros(k) : ExpandSpec(k, i) \/ RewriteFlag(k, i)
    BY DEF Expand
  <2>2. PICK i \in Macros(k) : ExpandSpec(k, i) \/ RewriteFlag(k, i)
    BY <2>1
  <2>3. CASE ExpandSpec(k, i)
    BY <2>3 DEF ExpandSpec, Shapes
  <2>4. CASE RewriteFlag(k, i)
    BY <2>4 DEF RewriteFlag, Shapes
  <2> QED
    BY <2>2, <2>3, <2>4
<1>3. Shapes'
  BY <1>1, <1>2 DEF Shapes, AttrsOf
<1>4. PhasesKept'
  BY <1>1 DEF PhasesKept
<1>5. ASSUME errors' = {}, NEW l \in DOMAIN written, NEW j \in AttrsOf(l)
      PROVE  MarkOf(l, j)'
  <2>1. /\ MarkOf(l, j)
        /\ attributes'[l][j] # attributes[l][j] =>
             /\ attributes[l][j] = "macro"
             /\ attributes'[l][j] = IF Attr(l, j).mac \in SpecTypes THEN "gone" ELSE "inert"
    BY <1>5, MarksOnce
  <2>2. Attr(l, j)' = Attr(l, j)
    BY <1>1 DEF Attr
  <2> QED
    BY <1>1, <2>1, <2>2 DEF MarkOf, IsCondition, Compiled
<1>6. MarksKept'
  BY <1>1, <1>5 DEF MarksKept, AttrsOf, Compiled
<1> QED
  BY <1>3, <1>4, <1>6

(* rustc goes on when no macro is left and nothing was reported.            *)
LEMMA CompileMark == ASSUME MarkInv, Compile PROVE MarkInv'
<1> USE DEF MarkInv
<1>1. /\ written' = written /\ attributes' = attributes /\ defs' = defs
      /\ phase = "expand" /\ phase' \in {"discover", "stopped"}
      /\ phase' = "discover" => errors = {}
  BY DEF Compile
<1>2. Shapes'
  BY <1>1 DEF Shapes, AttrsOf
<1>3. PhasesKept'
  BY <1>1 DEF PhasesKept
<1>4. ASSUME phase' = "discover", NEW k \in DOMAIN written, NEW i \in AttrsOf(k)
      PROVE  MarkOf(k, i)'
  <2>1. MarkOf(k, i)
    BY <1>1, <1>4 DEF MarksKept
  <2>2. attributes[k][i] # "macro"
    BY DEF Compile, Macros, Marked, Shapes
  <2> QED
    BY <1>1, <2>1, <2>2 DEF MarkOf, IsCondition, Attr
<1>5. MarksKept'
  BY <1>1, <1>4 DEF MarksKept, AttrsOf, Compiled
<1> QED
  BY <1>2, <1>3, <1>5

(* So attributes are always marked right.                                   *)
LEMMA NextMark == MarkInv /\ [Next]_vars => MarkInv'
<1> SUFFICES ASSUME MarkInv, [Next]_vars PROVE MarkInv'
  OBVIOUS
<1> USE DEF MarkInv
<1>1. CASE Expand
  BY <1>1, ExpandMark
<1>2. CASE Compile
  BY <1>2, CompileMark
<1>3. CASE FileSpec \/ Discovered \/ Extract \/ Extracted \/ UNCHANGED vars
  <2>1. written' = written /\ attributes' = attributes
    BY <1>3 DEF FileSpec, Discovered, Extract, Extracted, vars
  <2>2. Shapes'
    BY <2>1 DEF Shapes, AttrsOf
  <2>3. Compiled' = Compiled
    BY <1>3 DEF FileSpec, Discovered, Extract, Extracted, vars, Compiled
  <2>4. phase' = "expand" /\ errors' = {} => phase = "expand" /\ errors = {}
    BY <1>3 DEF FileSpec, Discovered, Extract, Extracted, vars
  <2>5. MarksKept'
    BY <2>1, <2>3, <2>4, MarksStay
  <2>6. phase' \in {"expand", "stopped", "discover", "extract", "done"}
        /\ (phase' \in {"extract", "done"} \/ (defs' = defs /\ phase \notin {"extract", "done"}))
    BY <1>3 DEF FileSpec, Discovered, Extract, Extracted, vars, PhasesKept
  <2>7. PhasesKept'
    BY <2>6 DEF PhasesKept
  <2> QED
    BY <2>2, <2>5, <2>7
<1> QED
  BY <1>1, <1>2, <1>3 DEF Next

(* Expansion, the checks of rustc, discovery and extraction keep what they  *)
(* take attributes for (rewrite_flag, extract_specs_and_expand).            *)
LEMMA AttributesMarked == Spec => []MarkInv
<1>1. MarkInv /\ [Next]_vars => MarkInv'
  BY NextMark
<1> QED
  BY <1>1, InitMark, PTL DEF Spec

-----------------------------------------------------------------------------
(* Flags.  A name in a list has a first place in it, where SlotFlags gives  *)
(* it its flags.                                                            *)
LEMMA FirstPlace ==
  ASSUME NEW S, NEW s \in Seq(S), NEW x \in Range(s)
  PROVE  \E i \in DOMAIN s : s[i] = x /\ \A j \in 1 .. i - 1 : s[j] # x
<1> DEFINE T == {i \in DOMAIN s : s[i] = x}
           R == {p \in Nat \X Nat : p[1] < p[2]}
<1>1. IsWellFoundedOn(R, Nat)
  BY NatLessThanWellFounded DEF OpToRel
<1>2. T \subseteq Nat /\ T # {}
  BY DEF Range
<1>3. PICK i \in T : \A j \in T : <<j, i>> \notin R
  <2> HIDE DEF T, R
  <2> QED
    BY <1>1, <1>2, WFMin
<1>4. \A j \in 1 .. i - 1 : j \in DOMAIN s /\ <<j, i>> \in R
  BY <1>2
<1> QED
  BY <1>3, <1>4

(* Once macros have run, an item is left with its flags, and with none that *)
(* is not written at it.                                                    *)
LEMMA FlagsLeft ==
  ASSUME MarkInv, Compiled, NEW k \in DOMAIN written
  PROVE  /\ Kept(k) \subseteq Range(written[k].attrs)
         /\ \A a \in Range(written[k].attrs) : a.mac \notin SpecTypes => a \in Kept(k)
<1>1. DOMAIN attributes[k] = AttrsOf(k) /\ \A i \in AttrsOf(k) : MarkOf(k, i)
  BY DEF MarkInv, Shapes, MarksKept
<1>2. \A a \in Kept(k) : \E i \in AttrsOf(k) : a = Attr(k, i)
  BY <1>1 DEF Kept, Marked
<1>3. Kept(k) \subseteq Range(written[k].attrs)
  BY <1>2 DEF Attr, AttrsOf, Range
<1>4. ASSUME NEW i \in AttrsOf(k), Attr(k, i).mac \notin SpecTypes PROVE Attr(k, i) \in Kept(k)
  <2>1. attributes[k][i] = "inert"
    BY <1>1, <1>4 DEF MarkOf, Compiled
  <2> QED
    BY <1>1, <1>4, <2>1 DEF Kept, Marked
<1> QED
  BY <1>3, <1>4 DEF Attr, AttrsOf, Range

(* The arguments of an attribute are tokens, all of them if all are known.  *)
LEMMA ArgumentsAreTokens ==
  ASSUME NEW a, a.tokens \in Seq(STRING)
  PROVE  /\ Arguments(a) \subseteq Range(a.tokens) \ {",", "?"}
         /\ "?" \notin Range(a.tokens) => Arguments(a) = Range(a.tokens) \ {",", "?"}
<1>1. ASSUME NEW j \in DOMAIN a.tokens, \A l \in 1 .. j : a.tokens[l] # "?"
      PROVE  a.tokens[j] # "?" /\ a.tokens[j] \in Range(a.tokens)
  BY <1>1 DEF Range
<1>2. Arguments(a) \subseteq Range(a.tokens) \ {",", "?"}
  BY <1>1 DEF Arguments
<1>3. ASSUME "?" \notin Range(a.tokens), NEW j \in DOMAIN a.tokens
      PROVE  a.tokens[j] \in Arguments(a) \cup {","}
  <2>1. \A l \in 1 .. j : l \in DOMAIN a.tokens
    OBVIOUS
  <2>2. \A l \in 1 .. j : a.tokens[l] # "?"
    BY <1>3, <2>1 DEF Range
  <2> QED
    BY <2>2 DEF Arguments
<1> QED
  BY <1>2, <1>3 DEF Range

(* What WantedFlags expects of an attribute.                                *)
LEMMA FlagWanted ==
  ASSUME NEW k, NEW a \in Range(written[k].attrs), a.mac \notin SpecTypes,
         NEW t \in Targets(a)
  PROVE  <<a.mac, t>> \in WantedFlags(written[k])
BY DEF WantedFlags

(* No flag gets anywhere it is not written for: extract_flags files what    *)
(* the attributes left name, and SlotFlags hands it out by name.            *)
LEMMA FlagsOnlyAsWritten ==
  ASSUME MarkInv, Compiled, NEW k \in DOMAIN written, NEW tree
  PROVE  GivenFlags(Definition(k, tree), written[k].slots) \subseteq WantedFlags(written[k])
<1> DEFINE d == Definition(k, tree)
<1>1. ASSUME NEW a \in KnownFlags(k), NEW t,
             t \in Arguments(a) \/ (t = "fn" /\ a.delim = "empty")
      PROVE  <<a.mac, t>> \in WantedFlags(written[k])
  <2>1. a \in Range(written[k].attrs) /\ a.mac \notin SpecTypes
    BY FlagsLeft DEF KnownFlags, FlagNames, SpecTypes
  <2>2. a.tokens \in Seq(STRING) /\ (a.delim = "delimited" \/ a.tokens = <<>>)
    BY <2>1 DEF MarkInv, Shapes, WellFormed
  <2>3. CASE t \in Arguments(a)
    <3>1. t \in Range(a.tokens) \ {",", "?"}
      BY <2>2, <2>3, ArgumentsAreTokens
    <3>2. a.tokens # <<>>
      <4>1. PICK j \in DOMAIN a.tokens : t = a.tokens[j]
        BY <3>1 DEF Range
      <4>2. Len(a.tokens) # 0
        BY <2>2, <4>1
      <4> QED
        BY <4>2
    <3>3. t \in Targets(a)
      BY <2>2, <3>1, <3>2 DEF Targets
    <3> QED
      BY <2>1, <3>3, FlagWanted
  <2>4. CASE t = "fn" /\ a.delim = "empty"
    BY <2>1, <2>4, FlagWanted DEF Targets
  <2> QED
    BY <1>1, <2>3, <2>4
<1>2. ASSUME NEW f \in d.flags PROVE <<f, "fn">> \in WantedFlags(written[k])
  <2>1. PICK a \in KnownFlags(k) : f = a.mac /\ (a.delim = "empty" \/ "fn" \in Arguments(a))
    BY DEF Definition, CarrierFlags
  <2> QED
    BY <1>1, <2>1
<1>3. ASSUME NEW i \in DOMAIN written[k].slots, NEW f \in d.slots[i]
      PROVE  <<f, written[k].slots[i]>> \in WantedFlags(written[k])
  <2>1. written[k].slots[i] \in DOMAIN FlagsBySymbol(k)
        /\ f \in FlagsBySymbol(k)[written[k].slots[i]]
    BY DEF Definition, SlotFlags
  <2>2. PICK a \in KnownFlags(k) : f = a.mac /\ written[k].slots[i] \in Arguments(a)
    BY <2>1 DEF FlagsBySymbol
  <2> QED
    BY <1>1, <2>2
<1> HIDE DEF d
<1>4. GivenFlags(d, written[k].slots) \subseteq WantedFlags(written[k])
  BY <1>2, <1>3 DEF GivenFlags
<1> QED
  BY <1>4 DEF d

(* Every flag written gets there, where there was no warning.               *)
LEMMA FlagsAllGiven ==
  ASSUME MarkInv, Compiled, NEW k \in DOMAIN written, NEW tree,
         ~FlagsWarn(k), ~UnusedFlags(k)
  PROVE  WantedFlags(written[k]) \subseteq GivenFlags(Definition(k, tree), written[k].slots)
<1> DEFINE d == Definition(k, tree)
<1>1. SUFFICES ASSUME NEW a \in Range(written[k].attrs), a.mac \notin SpecTypes,
                      NEW t \in Targets(a)
               PROVE  <<a.mac, t>> \in GivenFlags(d, written[k].slots)
  BY DEF WantedFlags
<1>2. a \in Kept(k) /\ a \in KnownFlags(k) /\ "?" \notin Range(a.tokens)
  BY <1>1, FlagsLeft DEF FlagsWarn
<1>3. a.tokens \in Seq(STRING)
  BY DEF MarkInv, Shapes, WellFormed
<1>4. a.delim # "empty" => t \in Arguments(a)
  BY <1>2, <1>3, ArgumentsAreTokens DEF Targets
<1>5. CASE t = "fn"
  <2>1. a.mac \in d.flags
    BY <1>2, <1>4, <1>5 DEF Definition, CarrierFlags
  <2> HIDE DEF d
  <2> QED
    BY <1>5, <2>1 DEF GivenFlags
<1>6. CASE t # "fn"
  <2>1. t \in Arguments(a)
    BY <1>4, <1>6 DEF Targets
  <2>2. t \in DOMAIN FlagsBySymbol(k) /\ a.mac \in FlagsBySymbol(k)[t]
    <3>1. t \in UNION {Arguments(b) : b \in KnownFlags(k)}
      BY <1>2, <2>1
    <3>2. a.mac \in {c.mac : c \in {b \in KnownFlags(k) : t \in Arguments(b)}}
      BY <1>2, <2>1
    <3>3. t \in DOMAIN FlagsBySymbol(k)
      BY <1>6, <3>1 DEF FlagsBySymbol
    <3>4. FlagsBySymbol(k)[t] = {c.mac : c \in {b \in KnownFlags(k) : t \in Arguments(b)}}
      BY <3>3 DEF FlagsBySymbol
    <3> QED
      BY <3>2, <3>3, <3>4
  <2>3. t \in Range(written[k].slots)
    BY <2>2 DEF UnusedFlags
  <2>4. written[k].slots \in Seq(STRING)
    BY DEF MarkInv, Shapes, WellFormed
  <2>5. PICK i \in DOMAIN written[k].slots :
          written[k].slots[i] = t /\ \A j \in 1 .. i - 1 : written[k].slots[j] # t
    BY <2>3, <2>4, FirstPlace
  <2>6. a.mac \in d.slots[i]
    BY <2>2, <2>5 DEF Definition, SlotFlags
  <2> HIDE DEF d
  <2> QED
    BY <2>5, <2>6 DEF GivenFlags
<1> QED
  BY <1>5, <1>6

(* FlagsAccounted after a step, of the items, which do not change.          *)
FlagsRight(item, def, warned) ==
  /\ GivenFlags(def, item.slots) \subseteq WantedFlags(item)
  /\ GivenFlags(def, item.slots) = WantedFlags(item) \/ warned

LEMMA FlagsRightNext ==
  ASSUME written' = written,
         \A k \in DOMAIN defs' : FlagsRight(written[k], defs'[k], k \in warnings')
  PROVE  FlagsAccounted'
<1>1. \A k \in DOMAIN defs' : FlagsRight(written'[k], defs'[k], k \in warnings')
  OBVIOUS
<1> QED
  BY <1>1 DEF FlagsAccounted, FlagsRight

(* A definition is made with flags that are accounted for; the others stay. *)
LEMMA DefineFlags ==
  ASSUME MarkInv, Compiled, FlagsAccounted, NEW k \in DOMAIN written, NEW tree,
         Define(k, tree), written' = written
  PROVE  FlagsAccounted'
<1>1. SUFFICES ASSUME NEW l \in DOMAIN defs'
               PROVE  FlagsRight(written[l], defs'[l], l \in warnings')
  BY FlagsRightNext
<1>2. CASE l = k
  <2>1. defs'[l] = Definition(k, tree)
    BY <1>1, <1>2 DEF Define
  <2>2. FlagsWarn(k) \/ UnusedFlags(k) => k \in warnings'
    BY DEF Define
  <2> QED
    BY <1>2, <2>1, <2>2, FlagsOnlyAsWritten, FlagsAllGiven DEF FlagsRight
<1>3. CASE l # k
  <2>1. l \in DOMAIN defs /\ defs'[l] = defs[l] /\ warnings \subseteq warnings'
    BY <1>1, <1>3 DEF Define
  <2> QED
    BY <2>1 DEF FlagsAccounted, FlagsRight
<1> QED
  BY <1>2, <1>3

(* A flag that is written for an item, a parameter or a field gets there or *)
(* there is a warning about the item; and none gets elsewhere (extract_flags*)
(* and report_unused_flags, on what rewrite_flag left).                     *)
THEOREM FlagsKept == Spec => []FlagsAccounted
<1>1. Init => FlagsAccounted
  BY DEF Init, FlagsAccounted
<1>2. ASSUME MarkInv, FlagsAccounted, [Next]_vars PROVE FlagsAccounted'
  <2>1. CASE Extract
    <3>1. PICK k \in DOMAIN written : \E tree : Define(k, tree)
      BY <2>1 DEF Extract, ExtractFunction, ExtractFlagsOfAdt
    <3>2. PICK tree : Define(k, tree)
      BY <3>1
    <3>3. written' = written /\ Compiled
      BY <2>1 DEF Extract, Compiled
    <3> QED
      BY <1>2, <3>2, <3>3, DefineFlags
  <2>2. CASE Expand \/ Compile \/ FileSpec \/ Discovered \/ Extracted \/ UNCHANGED vars
    <3>1. written' = written /\ defs' = defs /\ warnings' = warnings
      BY <2>2 DEF Expand, Compile, FileSpec, Discovered, Extracted, vars
    <3> QED
      BY <1>2, <3>1, FlagsRightNext DEF FlagsAccounted, FlagsRight
  <2> QED
    BY <1>2, <2>1, <2>2 DEF Next
<1> QED
  BY <1>1, <1>2, AttributesMarked, PTL DEF Spec

-----------------------------------------------------------------------------
(* Contracts.  The name of a generated function is read as the type of the  *)
(* specification and the name of the function it is of (generate_fn_name,   *)
(* parse_spec_type_fn_name), ...                                            *)
LEMMA NameParsed ==
  ASSUME MarkInv, NEW g, IsMade(g)
  PROVE  SpecTypeFnName(NameOf(g)) = <<SpecType(g), written[g.of].name>>
<1> DEFINE p == <<"", "", SpecType(g), Numerals[g.index]>>
           name == written[g.of].name
           n == NameOf(g)
<1>1. name \in Seq(STRING) /\ g.index \in DOMAIN Numerals
  BY DEF IsMade, Functions_, MarkInv, Shapes, WellFormed
<1>2. SpecType(g) \in SpecTypes
  BY DEF IsMade, IsCondition, SpecType
<1>3. PICK S : S = {"", SpecType(g), Numerals[g.index]} \cup Range(name)
  OBVIOUS
<1>4. p \in Seq(S) /\ Len(p) = 4
  <2>1. \A x, a, b \in S : <<x, x, a, b>> \in Seq(S) /\ Len(<<x, x, a, b>>) = 4
    OBVIOUS
  <2> QED
    BY <1>3, <2>1
<1>5. n = p \o name
  BY DEF NameOf
<1>6. p[1] = "" /\ p[2] = "" /\ p[3] = SpecType(g) /\ p[4] = Numerals[g.index]
  OBVIOUS
<1> HIDE DEF p, n, name
<1>7. name \in Seq(S)
  <2>1. \A i \in DOMAIN name : name[i] \in Range(name)
    BY DEF Range
  <2>2. DOMAIN name = 1 .. Len(name)
    BY <1>1
  <2>3. Range(name) \subseteq S
    BY <1>3
  <2>4. \A i \in 1 .. Len(name) : name[i] \in S
    BY <2>1, <2>2, <2>3
  <2> QED
    BY <1>1, <2>4
<1>8. /\ n \in Seq(S)
      /\ Len(n) = 4 + Len(name)
      /\ \A i \in 1 .. 4 + Len(name) : n[i] = IF i <= 4 THEN p[i] ELSE name[i - 4]
  <2>1. /\ p \o name \in Seq(S)
        /\ Len(p \o name) = Len(p) + Len(name)
        /\ \A i \in 1 .. Len(p) + Len(name) :
             (p \o name)[i] = IF i <= Len(p) THEN p[i] ELSE name[i - Len(p)]
    BY <1>4, <1>7, ConcatProperties
  <2> QED
    BY <1>4, <1>5, <2>1
<1>9. Len(name) \in Nat
  BY <1>1
<1>10. SubSeq(n, 5, Len(n)) = name
  <2>1. \A i \in 5 .. Len(n) : n[i] \in S
    BY <1>8, <1>9
  <2>2. PICK m : m = Len(n)
    OBVIOUS
  <2>3. m \in Int /\ m = 4 + Len(name)
    BY <1>8, <1>9, <2>2
  <2>4. /\ SubSeq(n, 5, m) \in Seq(S)
        /\ Len(SubSeq(n, 5, m)) = IF 5 <= m THEN m - 5 + 1 ELSE 0
        /\ \A i \in 1 .. m - 5 + 1 : SubSeq(n, 5, m)[i] = n[5 + i - 1]
    BY <2>1, <2>2, <2>3, SubSeqProperties
  <2>5. Len(SubSeq(n, 5, m)) = Len(name)
    BY <1>9, <2>3, <2>4
  <2>6. ASSUME NEW i \in 1 .. Len(name) PROVE SubSeq(n, 5, m)[i] = name[i]
    <3>1. SubSeq(n, 5, m)[i] = n[4 + i]
      BY <1>9, <2>3, <2>4
    <3>2. n[4 + i] = name[i]
      BY <1>8, <1>9
    <3> QED
      BY <3>1, <3>2
  <2> QED
    BY <1>7, <2>2, <2>4, <2>5, <2>6, SeqEqual
<1>11. n[1] = "" /\ n[2] = "" /\ n[3] = SpecType(g) /\ n[4] = Numerals[g.index]
  <2>1. \A i \in 1 .. 4 : n[i] = p[i]
    BY <1>8, <1>9
  <2>2. 1 \in 1 .. 4 /\ 2 \in 1 .. 4 /\ 3 \in 1 .. 4 /\ 4 \in 1 .. 4
    OBVIOUS
  <2>3. n[1] = p[1] /\ n[2] = p[2] /\ n[3] = p[3] /\ n[4] = p[4]
    BY <2>1, <2>2
  <2> QED
    BY <1>6, <2>3
<1>12. n[4] \in Range(Numerals) /\ Len(n) >= 4
  <2>1. n[4] \in Range(Numerals)
    BY <1>1, <1>11 DEF Range
  <2> QED
    BY <1>8, <1>9, <2>1
<1>13. SpecTypeFnName(n) = <<n[3], SubSeq(n, 5, Len(n))>>
  BY <1>2, <1>11, <1>12 DEF SpecTypeFnName
<1> QED
  BY <1>10, <1>11, <1>13 DEF n, name

(* ... and so discovery takes it to that function: the one it is nested in, *)
(* or the one method of that name (visit_item).                             *)
LEMMA OwnerFound ==
  ASSUME MarkInv, NEW g, IsMade(g)
  PROVE  IsSpecFn(g) /\ OwnersOf(g) = {g.of}
<1>1. SpecTypeFnName(NameOf(g)) = <<SpecType(g), written[g.of].name>>
  BY NameParsed
<1>2. IsSpecFn(g)
  BY <1>1 DEF IsSpecFn
<1>3. g.of \in DOMAIN written /\ written[g.of].kind \in {"fn", "method"}
  BY DEF IsMade, Functions_, MarkInv, Shapes, WellFormed
<1>4. CASE written[g.of].kind = "fn"
  BY <1>2, <1>4 DEF OwnersOf, IsNested
<1>5. CASE written[g.of].kind = "method"
  <2>1. OwnersOf(g) =
          {k \in DOMAIN written :
             written[k].kind = "method" /\ written[k].name = written[g.of].name}
    BY <1>1, <1>5 DEF OwnersOf, IsNested
  <2>2. \A k \in DOMAIN written :
          written[k].kind = "method" /\ written[k].name = written[g.of].name => k = g.of
    BY <1>3, <1>5 DEF MarkInv, Shapes, WellFormed
  <2> QED
    BY <1>2, <1>3, <1>5, <2>1, <2>2
<1> QED
  BY <1>3, <1>4, <1>5

(* What an item is written with does not change.                            *)
LEMMA SameWritten ==
  ASSUME written' = written
  PROVE  /\ Functions_' = Functions_
         /\ \A k : AttrsOf(k)' = AttrsOf(k) /\ KeepsOrder(k)' = KeepsOrder(k)
         /\ \A k, i : Attr(k, i)' = Attr(k, i) /\ IsCondition(k, i)' = IsCondition(k, i)
         /\ \A g : SpecType(g)' = SpecType(g)
BY DEF Functions_, AttrsOf, KeepsOrder, Conditions, Attr, IsCondition, SpecType

(* A spec function stays one of an expanded condition.                      *)
LEMMA MadeStays ==
  ASSUME written' = written, NEW g, IsMade(g), attributes'[g.of][g.attr] = "gone"
  PROVE  IsMade(g)'
BY SameWritten DEF IsMade

(* extract_specs_and_expand makes a spec function for the attribute that is *)
(* expanded and for each bare one that is left, and takes them off the item.*)
LEMMA SpecsExpanded ==
  ASSUME MarkInv, Expand, errors' = {}, NEW k \in DOMAIN written, NEW i \in Macros(k),
         Attr(k, i).mac \in SpecTypes, ExpandSpec(k, i)
  PROVE  LET found == SpecsFor(k, i) IN
         /\ k \in Functions_
         /\ generated' = generated \cup Generate(k, i, found)
         /\ \A j \in found :
              /\ j \in AttrsOf(k) /\ IsCondition(k, j)
              /\ attributes[k][j] = "macro" /\ attributes'[k][j] = "gone"
         /\ \A j \in AttrsOf(k) :
              j \notin found => attributes'[k][j] = attributes[k][j]
         /\ \A g \in Generate(k, i, found) :
              /\ g \in Made /\ g.of = k /\ g.attr \in found /\ g.expansion = i
              /\ g.index \in DOMAIN Numerals
         /\ \A j \in found : \E g \in Generate(k, i, found) : g.attr = j
         /\ \A g, h \in Generate(k, i, found) : g.attr = h.attr => g = h
<1> DEFINE found == SpecsFor(k, i)
<1>1. /\ written[k].kind # "adt"
      /\ attributes' = [attributes EXCEPT ![k] =
           [j \in DOMAIN @ |-> IF j = i \/ j \in BareSpecs(k) THEN "gone" ELSE @[j]]]
      /\ generated' = generated \cup Generate(k, i, found)
  BY DEF ExpandSpec
<1>2. DOMAIN attributes = DOMAIN written /\ DOMAIN attributes[k] = AttrsOf(k)
  BY DEF MarkInv, Shapes
<1>3. phase = "expand" /\ errors = {}
  BY DEF Expand, ExpandSpec
<1>4. ASSUME NEW j \in found
      PROVE  /\ j \in AttrsOf(k) /\ IsCondition(k, j) /\ attributes[k][j] = "macro"
             /\ attributes'[k][j] = "gone"
  <2>1. j \in Macros(k) /\ Attr(k, j).mac \in SpecTypes
    BY DEF SpecsFor, BareSpecs, IsBareSpec
  <2>2. j \in AttrsOf(k) /\ attributes[k][j] = "macro"
    BY <1>2, <2>1 DEF Macros, Marked
  <2>3. MarkOf(k, j)
    BY <1>3, <2>2 DEF MarkInv, MarksKept
  <2>4. IsCondition(k, j)
    BY <2>1, <2>2, <2>3 DEF MarkOf, IsCondition
  <2>5. j = i \/ j \in BareSpecs(k)
    BY DEF SpecsFor
  <2>6. attributes'[k][j] = "gone"
    BY <1>1, <1>2, <2>2, <2>5
  <2> QED
    BY <2>2, <2>4, <2>6
<1>5. ASSUME NEW j \in AttrsOf(k), j \notin found PROVE attributes'[k][j] = attributes[k][j]
  <2>1. j # i /\ j \notin BareSpecs(k)
    BY <1>5 DEF SpecsFor
  <2> QED
    BY <1>1, <1>2, <2>1
<1>6. k \in Functions_
  BY <1>1 DEF Functions_
<1>7. /\ k \in Nat /\ Len(written[k].attrs) \in Nat /\ AttrsOf(k) = 1 .. Len(written[k].attrs)
      /\ Len(written[k].attrs) <= Len(Numerals) /\ DOMAIN Numerals = 1 .. Len(Numerals)
      /\ Len(Numerals) \in Nat
  <2>1. written \in Seq(Range(written)) /\ written[k].attrs \in Seq(Range(written[k].attrs))
        /\ Len(written[k].attrs) <= Len(Numerals)
    BY DEF MarkInv, Shapes, WellFormed
  <2>2. Numerals \in Seq(STRING)
    BY ContractsAssumption
  <2> QED
    BY <2>1, <2>2 DEF AttrsOf
<1>8. ASSUME NEW j \in found PROVE Rank(found, j) \in DOMAIN Numerals
  <2> DEFINE upto == {l \in found : l <= j}
  <2>1. PICK n \in Nat : n = Len(written[k].attrs) /\ AttrsOf(k) = 1 .. n
    BY <1>7
  <2>2. upto \subseteq 1 .. n /\ j \in upto
    BY <1>4, <2>1
  <2> HIDE DEF upto
  <2>3. IsFiniteSet(upto) /\ Cardinality(upto) <= n
    <3>1. IsFiniteSet(1 .. n) /\ Cardinality(1 .. n) = n
      BY FS_Interval
    <3> QED
      BY <2>2, <3>1, FS_Subset
  <2>4. Cardinality(upto) \in Nat /\ Cardinality(upto) # 0
    BY <2>2, <2>3, FS_CardinalityType, FS_EmptySet
  <2>5. Cardinality(upto) \in DOMAIN Numerals
    BY <1>7, <2>1, <2>3, <2>4
  <2> QED
    BY <2>5 DEF upto, Rank
<1>15. i \in found
  BY DEF SpecsFor
<1>14. generated' = generated \cup Generate(k, i, found)
  BY <1>1
<1> HIDE DEF found
<1>9. \A g \in Generate(k, i, found) : \E j \in found :
        g = [of |-> k, attr |-> j, expansion |-> i, index |-> Rank(found, j)]
  BY Zenon DEF Generate
<1>10. ASSUME NEW j \in found PROVE \E g \in Generate(k, i, found) : g.attr = j
  <2>1. [of |-> k, attr |-> j, expansion |-> i, index |-> Rank(found, j)]
          \in Generate(k, i, found)
    BY DEF Generate
  <2> QED
    BY <2>1
<1>11. \A g, h \in Generate(k, i, found) : g.attr = h.attr => g = h
  BY DEF Generate
<1>12. i \in Nat /\ found \subseteq Nat /\ DOMAIN Numerals \subseteq Nat
  BY <1>4, <1>7, <1>15
<1>13. ASSUME NEW g \in Generate(k, i, found)
       PROVE  /\ g \in Made /\ g.of = k /\ g.attr \in found /\ g.expansion = i
              /\ g.index \in DOMAIN Numerals
  <2>1. PICK j \in found :
          g = [of |-> k, attr |-> j, expansion |-> i, index |-> Rank(found, j)]
    BY <1>9
  <2>2. Rank(found, j) \in DOMAIN Numerals /\ Rank(found, j) \in Nat /\ j \in Nat
    BY <1>8, <1>12
  <2>3. g \in Made
    BY <1>7, <1>12, <2>1, <2>2 DEF Made
  <2> QED
    BY <2>1, <2>2, <2>3
<1> QED
  BY <1>4, <1>5, <1>6, <1>10, <1>11, <1>13, <1>14 DEF found

(* Expansion files nothing, and takes each condition off its item once.     *)
LEMMA ExpandSpecs ==
  ASSUME MarkInv, SpecsRight, Expand, errors' = {}
  PROVE  SpecsRight'
<1>1. /\ written' = written /\ specs' = specs /\ defs' = defs
      /\ phase = "expand" /\ phase' = "expand"
  BY DEF Expand
<1>2. /\ DOMAIN specs = DOMAIN written
      /\ \A k \in DOMAIN specs : specs[k] \in [SpecTypes -> Seq(Made)]
      /\ \A k \in DOMAIN specs : \A type \in SpecTypes : specs[k][type] = <<>>
  BY <1>1 DEF SpecsRight, FiledRight, PhaseSpecs
<1>3. Range(<<>>) = {}
  BY DEF Range
<1>4. ASSUME NEW k \in DOMAIN written, NEW j \in AttrsOf(k), IsCondition(k, j)
      PROVE  ~Filed(k, j) /\ ~Filed(k, j)'
  <2>1. specs[k][Attr(k, j).mac] = <<>>
    BY <1>2, <1>4 DEF IsCondition
  <2>2. Attr(k, j)' = Attr(k, j)
    BY <1>1 DEF Attr
  <2> QED
    BY <1>1, <1>3, <2>1, <2>2 DEF Filed
<1>5. ASSUME NEW k \in DOMAIN written, NEW j \in AttrsOf(k), attributes[k][j] = "gone"
      PROVE  attributes'[k][j] = "gone"
  BY <1>5, MarksOnce
<1>6. ASSUME NEW g \in generated
      PROVE  /\ g.of \in DOMAIN written /\ g.attr \in AttrsOf(g.of)
             /\ IsCondition(g.of, g.attr) /\ attributes[g.of][g.attr] = "gone" /\ IsMade(g)'
  <2>1. IsMade(g)
    BY DEF SpecsRight, MadeRight
  <2>2. /\ g.of \in DOMAIN written /\ g.attr \in AttrsOf(g.of)
        /\ IsCondition(g.of, g.attr) /\ attributes[g.of][g.attr] = "gone"
    BY <2>1 DEF IsMade, Functions_
  <2> QED
    BY <1>1, <1>5, <2>1, <2>2, MadeStays
<1>7. PICK k \in DOMAIN written : \E i \in Macros(k) :
        IF Attr(k, i).mac \in SpecTypes THEN ExpandSpec(k, i) ELSE RewriteFlag(k, i)
  BY DEF Expand
<1>8. PICK i \in Macros(k) :
        IF Attr(k, i).mac \in SpecTypes THEN ExpandSpec(k, i) ELSE RewriteFlag(k, i)
  BY <1>7
<1>11. FiledRight'
  BY <1>1, <1>2, <1>3 DEF FiledRight
<1>12. InOrderFiled'
  BY <1>1, <1>2 DEF InOrderFiled
<1>13. DefsAssembled' /\ PhaseSpecs'
  BY <1>1, <1>2 DEF DefsAssembled, PhaseSpecs, MarkInv, PhasesKept
<1>9. CASE Attr(k, i).mac \in SpecTypes
  <2> DEFINE found == SpecsFor(k, i)
             new == Generate(k, i, found)
  <2>1. /\ k \in Functions_
        /\ generated' = generated \cup new
        /\ \A j \in found : /\ j \in AttrsOf(k) /\ IsCondition(k, j)
                            /\ attributes[k][j] = "macro" /\ attributes'[k][j] = "gone"
        /\ \A j \in AttrsOf(k) : j \notin found => attributes'[k][j] = attributes[k][j]
        /\ \A g \in new : /\ g \in Made /\ g.of = k /\ g.attr \in found /\ g.expansion = i
                          /\ g.index \in DOMAIN Numerals
        /\ \A j \in found : \E g \in new : g.attr = j
        /\ \A g, h \in new : g.attr = h.attr => g = h
    BY <1>8, <1>9, SpecsExpanded
  <2>2. i \in found /\ \A j \in Macros(k) : IsBareSpec(Attr(k, j)) => j \in found
    BY DEF SpecsFor, BareSpecs
  <2> HIDE DEF found, new
  <2>3. MadeRight'
    <3>1. ASSUME NEW g \in new PROVE IsMade(g)'
      BY <1>1, <2>1, SameWritten DEF IsMade
    <3> QED
      BY <1>6, <2>1, <3>1 DEF MadeRight
  <2>4. NoneLost'
    <3>1. ASSUME NEW l \in DOMAIN written, NEW j \in AttrsOf(l), IsCondition(l, j),
                 attributes'[l][j] = "gone"
          PROVE  Waits(l, j)'
      <4>1. CASE l = k /\ j \in found
        BY <2>1, <4>1 DEF Waits
      <4>2. CASE l # k \/ j \notin found
        <5>1. attributes[l][j] = "gone"
          <6>1. CASE l = k
            BY <2>1, <3>1, <4>2, <6>1
          <6>2. CASE l # k
            BY <1>8, <1>9, <3>1, <6>2 DEF ExpandSpec, MarkInv, Shapes
          <6> QED
            BY <6>1, <6>2
        <5>2. Waits(l, j)
          BY <1>4, <3>1, <5>1 DEF SpecsRight, NoneLost
        <5> QED
          BY <2>1, <5>2 DEF Waits
      <4> QED
        BY <4>1, <4>2
    <3> QED
      BY <1>1, <3>1, SameWritten DEF NoneLost
  <2>5. NoneTwice'
    <3>1. ASSUME NEW g \in generated', NEW h \in generated', g.of = h.of, g.attr = h.attr
          PROVE  g = h
      <4>1. CASE g \in generated /\ h \in generated
        BY <3>1, <4>1 DEF SpecsRight, NoneTwice
      <4>2. CASE g \in new /\ h \in new
        BY <2>1, <3>1, <4>2
      <4>3. CASE g \in generated /\ h \in new
        BY <1>6, <2>1, <3>1, <4>3
      <4>4. CASE h \in generated /\ g \in new
        BY <1>6, <2>1, <3>1, <4>4
      <4> QED
        BY <2>1, <4>1, <4>2, <4>3, <4>4
    <3>2. ASSUME NEW g \in generated' PROVE ~Filed(g.of, g.attr)'
      <4>1. g.of \in DOMAIN written /\ g.attr \in AttrsOf(g.of) /\ IsCondition(g.of, g.attr)
        BY <1>6, <2>1 DEF Functions_
      <4> QED
        BY <1>4, <4>1
    <3> QED
      BY <1>1, <3>1, <3>2 DEF NoneTwice, SpecsRight
  <2>6. OneExpansion'
    <3>1. SUFFICES ASSUME NEW g \in generated', KeepsOrder(g.of)
                   PROVE  /\ \A h \in generated' : h.of = g.of => h.expansion = g.expansion
                          /\ \A j \in AttrsOf(g.of) :
                               IsCondition(g.of, j) => attributes'[g.of][j] = "gone"
      BY <1>1, SameWritten DEF OneExpansion
    <3>2. CASE g.of # k
      <4>1. g \in generated
        BY <2>1, <3>2
      <4>2. /\ \A h \in generated : h.of = g.of => h.expansion = g.expansion
            /\ \A j \in AttrsOf(g.of) :
                 IsCondition(g.of, j) => attributes[g.of][j] = "gone"
        BY <3>1, <4>1 DEF SpecsRight, OneExpansion
      <4> QED
        BY <1>5, <1>6, <2>1, <3>2, <4>1, <4>2
    <3>3. CASE g.of = k
      <4>1. ASSUME NEW h \in generated' , h.of = k PROVE h \in new
        <5>1. SUFFICES ASSUME h \in generated PROVE FALSE
          BY <2>1
        <5>2. \A j \in AttrsOf(k) : IsCondition(k, j) => attributes[k][j] = "gone"
          BY <3>1, <3>3, <4>1, <5>1 DEF SpecsRight, OneExpansion
        <5> QED
          BY <2>1, <2>2, <5>2
      <4>2. ASSUME NEW j \in AttrsOf(k), IsCondition(k, j) PROVE attributes'[k][j] = "gone"
        <5>1. IsBareSpec(Attr(k, j))
          BY <3>1, <3>3, <4>2 DEF KeepsOrder, Conditions, IsCondition, AttrsOf, IsBareSpec
        <5>2. MarkOf(k, j) /\ DOMAIN attributes[k] = AttrsOf(k)
          BY <4>2, MarksOnce DEF MarkInv, Shapes
        <5>3. attributes[k][j] \in {"macro", "gone"}
          BY <4>2, <5>2 DEF MarkOf
        <5>4. attributes[k][j] = "macro" => j \in found
          BY <2>2, <5>1, <5>2 DEF Macros, Marked
        <5> QED
          BY <1>5, <2>1, <5>3, <5>4
      <4> QED
        BY <2>1, <3>3, <4>1, <4>2
    <3> QED
      BY <3>2, <3>3
  <2> QED
    BY <1>11, <1>12, <1>13, <2>3, <2>4, <2>5, <2>6 DEF SpecsRight
<1>10. CASE Attr(k, i).mac \notin SpecTypes
  <2>1. generated' = generated
    BY <1>8, <1>10 DEF RewriteFlag
  <2>2. MadeRight'
    BY <1>6, <2>1 DEF MadeRight
  <2>3. NoneLost'
    <3>1. ASSUME NEW l \in DOMAIN written, NEW j \in AttrsOf(l), IsCondition(l, j),
                 attributes'[l][j] = "gone"
          PROVE  Waits(l, j)'
      <4>1. attributes[l][j] = "gone"
        <5>1. CASE l = k
          BY <1>8, <1>10, <3>1, <5>1 DEF RewriteFlag, MarkInv, Shapes
        <5>2. CASE l # k
          BY <1>8, <1>10, <3>1, <5>2 DEF RewriteFlag, MarkInv, Shapes
        <5> QED
          BY <5>1, <5>2
      <4>2. Waits(l, j)
        BY <1>4, <3>1, <4>1 DEF SpecsRight, NoneLost
      <4> QED
        BY <2>1, <4>2 DEF Waits
    <3> QED
      BY <1>1, <3>1, SameWritten DEF NoneLost
  <2>4. NoneTwice'
    <3>1. ASSUME NEW g \in generated' PROVE ~Filed(g.of, g.attr)'
      BY <1>4, <1>6, <2>1
    <3> QED
      BY <1>1, <2>1, <3>1 DEF NoneTwice, SpecsRight
  <2>5. OneExpansion'
    BY <1>1, <1>5, <1>6, <2>1, SameWritten DEF OneExpansion, SpecsRight
  <2> QED
    BY <1>11, <1>12, <1>13, <2>2, <2>3, <2>4, <2>5 DEF SpecsRight
<1> QED
  BY <1>8, <1>9, <1>10

(* A list with one more element at its end.                                 *)
LEMMA Appended ==
  ASSUME NEW S, NEW s \in Seq(S), NEW x \in S
  PROVE  /\ Append(s, x) \in Seq(S)
         /\ Range(Append(s, x)) = Range(s) \cup {x}
         /\ DOMAIN Append(s, x) = DOMAIN s \cup {Len(s) + 1}
         /\ Append(s, x)[Len(s) + 1] = x
         /\ \A i \in DOMAIN s : Append(s, x)[i] = s[i] /\ i < Len(s) + 1
<1>1. /\ Append(s, x) \in Seq(S)
      /\ DOMAIN Append(s, x) = DOMAIN s \cup {Len(s) + 1}
      /\ Append(s, x)[Len(s) + 1] = x
      /\ \A i \in DOMAIN s : Append(s, x)[i] = s[i] /\ i < Len(s) + 1
  OBVIOUS
<1> DEFINE t == Append(s, x)
           n == Len(s) + 1
<1>2. DOMAIN t = DOMAIN s \cup {n} /\ t[n] = x /\ \A i \in DOMAIN s : t[i] = s[i]
  BY <1>1
<1> HIDE DEF t, n
<1>3. Range(t) = Range(s) \cup {x}
  <2>1. Range(t) \subseteq Range(s) \cup {x}
    BY <1>2 DEF Range
  <2>2. x \in Range(t) /\ Range(s) \subseteq Range(t)
    BY <1>2 DEF Range
  <2> QED
    BY <2>1, <2>2
<1> QED
  BY <1>1, <1>3 DEF t

(* visit_item moves one spec function from those that wait to the list of   *)
(* its type of the function it is of; of a nested one that is the next.     *)
LEMMA SpecFiled ==
  ASSUME MarkInv, SpecsRight, FileSpec
  PROVE  \E g \in generated :
           /\ generated' = generated \ {g}
           /\ DOMAIN specs' = DOMAIN specs
           /\ \A k \in DOMAIN specs : \A type \in SpecTypes :
                specs'[k][type] = IF k = g.of /\ type = SpecType(g)
                                  THEN Append(specs[k][type], g) ELSE specs[k][type]
           /\ \A k \in DOMAIN specs : specs'[k] \in [SpecTypes -> Seq(Made)]
           /\ KeepsOrder(g.of) =>
                \A h \in generated : h.of = g.of => ~StandsBefore(h, g)
<1>1. PICK g \in generated :
        /\ IsNested(g) => \A h \in generated : h.of = g.of => ~StandsBefore(h, g)
        /\ generated' = generated \ {g}
        /\ specs' = [k \in DOMAIN specs |->
                       IF IsSpecFn(g) /\ k \in OwnersOf(g)
                       THEN [specs[k] EXCEPT ![SpecTypeFnName(NameOf(g))[1]] = Append(@, g)]
                       ELSE specs[k]]
  BY DEF FileSpec
<1>2. IsMade(g)
  BY DEF SpecsRight, MadeRight
<1>3. IsSpecFn(g) /\ OwnersOf(g) = {g.of} /\ SpecTypeFnName(NameOf(g))[1] = SpecType(g)
  BY <1>2, OwnerFound, NameParsed
<1>4. \A k \in DOMAIN specs : specs[k] \in [SpecTypes -> Seq(Made)]
  BY DEF SpecsRight, FiledRight
<1>5. g \in Made /\ SpecType(g) \in SpecTypes
  BY <1>2 DEF IsMade, IsCondition, SpecType
<1>6. DOMAIN specs' = DOMAIN specs
  BY <1>1
<1>7. ASSUME NEW k \in DOMAIN specs
      PROVE  specs'[k] = IF k = g.of THEN [specs[k] EXCEPT ![SpecType(g)] = Append(@, g)]
                         ELSE specs[k]
  BY <1>1, <1>3
<1>8. ASSUME NEW k \in DOMAIN specs, NEW type \in SpecTypes
      PROVE  specs'[k][type] = IF k = g.of /\ type = SpecType(g)
                               THEN Append(specs[k][type], g) ELSE specs[k][type]
  BY <1>4, <1>5, <1>7
<1>9. ASSUME NEW k \in DOMAIN specs PROVE specs'[k] \in [SpecTypes -> Seq(Made)]
  <2>1. CASE k = g.of
    <3>1. PICK lists, t, new : lists = specs[k] /\ t = SpecType(g) /\ new = Append(lists[t], g)
      OBVIOUS
    <3>2. lists \in [SpecTypes -> Seq(Made)] /\ t \in SpecTypes
      BY <1>4, <1>5, <3>1
    <3>3. new \in Seq(Made)
      BY <1>5, <3>1, <3>2, Appended
    <3>4. specs'[k] = [lists EXCEPT ![t] = new]
      BY <1>7, <2>1, <3>1
    <3> QED
      BY <3>2, <3>3, <3>4
  <2> QED
    BY <1>4, <1>7, <2>1
<1>10. KeepsOrder(g.of) => IsNested(g)
  BY DEF KeepsOrder, IsNested
<1> QED
  BY <1>1, <1>6, <1>8, <1>9, <1>10

(* Discovery files each where it belongs, and in order where that counts.   *)
LEMMA FileSpecs ==
  ASSUME MarkInv, SpecsRight, FileSpec
  PROVE  SpecsRight'
<1> USE DEF SpecsRight
<1>1. PICK g \in generated :
        /\ generated' = generated \ {g}
        /\ DOMAIN specs' = DOMAIN specs
        /\ \A k \in DOMAIN specs : \A type \in SpecTypes :
             specs'[k][type] = IF k = g.of /\ type = SpecType(g)
                               THEN Append(specs[k][type], g) ELSE specs[k][type]
        /\ \A k \in DOMAIN specs : specs'[k] \in [SpecTypes -> Seq(Made)]
        /\ KeepsOrder(g.of) =>
             \A h \in generated : h.of = g.of => ~StandsBefore(h, g)
  BY SpecFiled
<1>2. /\ written' = written /\ attributes' = attributes /\ defs' = defs
      /\ phase = "discover" /\ phase' = "discover"
  BY DEF FileSpec
<1>3. /\ IsMade(g) /\ g \in Made /\ g.of \in DOMAIN written /\ g.of \in DOMAIN specs
      /\ g.attr \in AttrsOf(g.of) /\ IsCondition(g.of, g.attr)
      /\ SpecType(g) = Attr(g.of, g.attr).mac /\ SpecType(g) \in SpecTypes
  BY DEF MadeRight, IsMade, Functions_, IsCondition, SpecType, FiledRight
<1>4. ASSUME NEW h, IsMade(h) PROVE IsMade(h)'
  <2>1. attributes'[h.of][h.attr] = "gone"
    BY <1>2, <1>4 DEF IsMade
  <2> QED
    BY <1>2, <1>4, <2>1, MadeStays
<1>5. ASSUME NEW k \in DOMAIN specs, NEW type \in SpecTypes
      PROVE  /\ specs[k][type] \in Seq(Made)
             /\ k = g.of /\ type = SpecType(g) =>
                  specs'[k][type] = Append(specs[k][type], g)
             /\ ~(k = g.of /\ type = SpecType(g)) => specs'[k][type] = specs[k][type]
             /\ Range(specs'[k][type]) =
                  Range(specs[k][type]) \cup
                  (IF k = g.of /\ type = SpecType(g) THEN {g} ELSE {})
  <2>1. specs[k][type] \in Seq(Made)
    BY DEF FiledRight
  <2>2. CASE k = g.of /\ type = SpecType(g)
    <3>1. specs'[k][type] = Append(specs[k][type], g)
      BY <1>1, <2>2
    <3>2. Range(Append(specs[k][type], g)) = Range(specs[k][type]) \cup {g}
      BY <1>3, <2>1, Appended
    <3> QED
      BY <2>1, <2>2, <3>1, <3>2
  <2>3. CASE ~(k = g.of /\ type = SpecType(g))
    <3>1. specs'[k][type] = specs[k][type]
      BY <1>1, <2>3
    <3> QED
      BY <2>1, <2>3, <3>1
  <2> QED
    BY <2>2, <2>3
<1>6. MadeRight'
  BY <1>1, <1>4 DEF MadeRight
<1>7. FiledRight'
  <2>1. ASSUME NEW k \in DOMAIN specs, NEW type \in SpecTypes,
               NEW h \in Range(specs'[k][type])
        PROVE  IsMade(h)' /\ h.of = k /\ SpecType(h)' = type
    <3>1. IsMade(h) /\ h.of = k /\ SpecType(h) = type
      <4>1. CASE h \in Range(specs[k][type])
        BY <4>1 DEF FiledRight
      <4>2. CASE k = g.of /\ type = SpecType(g) /\ h = g
        BY <1>3, <4>2
      <4> QED
        BY <1>5, <2>1, <4>1, <4>2
    <3> QED
      BY <1>2, <1>4, <3>1, SameWritten
  <2> QED
    BY <1>1, <1>2, <2>1 DEF FiledRight
<1>8. ASSUME NEW k \in DOMAIN written, NEW j \in AttrsOf(k), IsCondition(k, j)
      PROVE  Filed(k, j)' <=> (Filed(k, j) \/ (k = g.of /\ j = g.attr))
  <2>1. k \in DOMAIN specs /\ Attr(k, j).mac \in SpecTypes /\ Attr(k, j)' = Attr(k, j)
    BY <1>2, <1>8, SameWritten DEF FiledRight, IsCondition
  <2>2. Range(specs'[k][Attr(k, j).mac]) =
          Range(specs[k][Attr(k, j).mac]) \cup
          (IF k = g.of /\ Attr(k, j).mac = SpecType(g) THEN {g} ELSE {})
    BY <1>5, <2>1
  <2>3. Filed(k, j)' <=> \E h \in Range(specs'[k][Attr(k, j).mac]) : h.attr = j
    BY <2>1 DEF Filed
  <2> QED
    BY <1>3, <2>2, <2>3 DEF Filed
<1>9. NoneLost'
  <2>1. ASSUME NEW k \in DOMAIN written, NEW j \in AttrsOf(k), IsCondition(k, j),
               attributes'[k][j] = "gone"
        PROVE  Waits(k, j)' \/ Filed(k, j)'
    <3>1. Waits(k, j) \/ Filed(k, j)
      BY <1>2, <2>1 DEF NoneLost
    <3>2. CASE Filed(k, j)
      BY <1>8, <2>1, <3>2
    <3>3. CASE Waits(k, j)
      <4>1. PICK h \in generated : h.of = k /\ h.attr = j
        BY <3>3 DEF Waits
      <4>2. CASE h = g
        BY <1>8, <2>1, <4>1, <4>2
      <4>3. CASE h # g
        BY <1>1, <4>1, <4>3 DEF Waits
      <4> QED
        BY <4>2, <4>3
    <3> QED
      BY <3>1, <3>2, <3>3
  <2> QED
    BY <1>2, <2>1, SameWritten DEF NoneLost
<1>10. \A h \in generated' : /\ h \in generated /\ h.of \in DOMAIN written
                             /\ h.attr \in AttrsOf(h.of) /\ IsCondition(h.of, h.attr)
                             /\ h \in Made
                             /\ ~(h.of = g.of /\ h.attr = g.attr)
  BY <1>1 DEF MadeRight, IsMade, Functions_, NoneTwice
<1>11. NoneTwice'
  <2>1. ASSUME NEW h \in generated' PROVE ~Filed(h.of, h.attr)'
    BY <1>8, <1>10 DEF NoneTwice
  <2>2. ASSUME NEW k \in DOMAIN specs, NEW type \in SpecTypes,
               NEW i \in DOMAIN specs'[k][type], NEW j \in DOMAIN specs'[k][type],
               specs'[k][type][i].attr = specs'[k][type][j].attr
        PROVE  i = j
    <3>1. CASE ~(k = g.of /\ type = SpecType(g))
      <4>1. specs'[k][type] = specs[k][type]
        BY <1>5, <3>1
      <4> QED
        BY <2>2, <4>1 DEF NoneTwice
    <3>2. CASE k = g.of /\ type = SpecType(g)
      <4>1. PICK old : old = specs[k][type]
        OBVIOUS
      <4>2. old \in Seq(Made) /\ specs'[k][type] = Append(old, g)
        BY <1>5, <3>2, <4>1
      <4>3. \A l \in DOMAIN old : old[l].attr # g.attr
        <5>1. ~Filed(g.of, g.attr)
          BY DEF NoneTwice
        <5>2. \A h \in Range(old) : h.attr # g.attr
          BY <1>3, <3>2, <4>1, <5>1 DEF Filed
        <5> QED
          BY <5>2 DEF Range
      <4>4. \A l, m \in DOMAIN old : old[l].attr = old[m].attr => l = m
        BY <4>1 DEF NoneTwice
      <4>5. /\ DOMAIN Append(old, g) = DOMAIN old \cup {Len(old) + 1}
            /\ Append(old, g)[Len(old) + 1] = g
            /\ \A l \in DOMAIN old : Append(old, g)[l] = old[l]
        BY <1>3, <4>2, Appended
      <4> QED
        BY <2>2, <4>2, <4>3, <4>4, <4>5
    <3> QED
      BY <3>1, <3>2
  <2> QED
    BY <1>1, <2>1, <2>2 DEF NoneTwice
<1>12. OneExpansion'
  <2>1. ASSUME NEW f \in generated', KeepsOrder(f.of)
        PROVE  /\ \A h \in generated' : h.of = f.of => h.expansion = f.expansion
               /\ \A j \in AttrsOf(f.of) :
                    IsCondition(f.of, j) => attributes'[f.of][j] = "gone"
    BY <1>1, <1>2, <2>1 DEF OneExpansion
  <2> QED
    BY <1>2, <2>1, SameWritten DEF OneExpansion
<1>13. InOrderFiled'
  <2>1. ASSUME NEW k \in DOMAIN specs, KeepsOrder(k), NEW type \in SpecTypes,
               NEW i \in DOMAIN specs'[k][type]
        PROVE  /\ \A j \in DOMAIN specs'[k][type] :
                    i < j => specs'[k][type][i].attr < specs'[k][type][j].attr
               /\ \A h \in generated' : h.of = k => specs'[k][type][i].attr < h.attr
    <3>1. CASE ~(k = g.of /\ type = SpecType(g))
      <4>1. specs'[k][type] = specs[k][type]
        BY <1>5, <3>1
      <4> QED
        BY <1>1, <2>1, <4>1 DEF InOrderFiled
    <3>2. CASE k = g.of /\ type = SpecType(g)
      <4>1. PICK old : old = specs[k][type]
        OBVIOUS
      <4>2. old \in Seq(Made) /\ specs'[k][type] = Append(old, g)
        BY <1>5, <3>2, <4>1
      <4>3. \A l, m \in DOMAIN old : l < m => old[l].attr < old[m].attr
        BY <2>1, <4>1 DEF InOrderFiled
      <4>4. \A l \in DOMAIN old : \A h \in generated : h.of = k => old[l].attr < h.attr
        BY <2>1, <4>1 DEF InOrderFiled
      <4>5. /\ DOMAIN Append(old, g) = DOMAIN old \cup {Len(old) + 1}
            /\ Append(old, g)[Len(old) + 1] = g
            /\ \A l \in DOMAIN old : Append(old, g)[l] = old[l] /\ l < Len(old) + 1
        BY <1>3, <4>2, Appended
      <4>6. DOMAIN old \subseteq Nat /\ Len(old) \in Nat
        BY <4>2
      <4>7. ASSUME NEW h \in generated', h.of = k PROVE g.attr < h.attr
        <5>1. ~StandsBefore(h, g) /\ h.expansion = g.expansion
          BY <1>1, <1>10, <2>1, <3>2, <4>7 DEF OneExpansion
        <5>2. h.attr \in Nat /\ g.attr \in Nat /\ h.attr # g.attr
          BY <1>3, <1>10, <3>2, <4>7 DEF Made
        <5> QED
          BY <5>1, <5>2 DEF StandsBefore
      <4>8. ASSUME NEW h \in generated', h.of = k PROVE Append(old, g)[i].attr < h.attr
        BY <1>10, <2>1, <4>2, <4>4, <4>5, <4>7, <4>8
      <4>9. ASSUME NEW j \in DOMAIN Append(old, g), i < j
            PROVE  Append(old, g)[i].attr < Append(old, g)[j].attr
        <5>1. i \in DOMAIN old
          BY <2>1, <4>2, <4>5, <4>6, <4>9
        <5>2. CASE j \in DOMAIN old
          BY <4>3, <4>5, <4>9, <5>1, <5>2
        <5>3. CASE j = Len(old) + 1
          BY <3>2, <4>4, <4>5, <5>1, <5>3
        <5> QED
          BY <4>5, <4>9, <5>2, <5>3
      <4> QED
        BY <4>2, <4>8, <4>9
    <3> QED
      BY <3>1, <3>2
  <2> QED
    BY <1>1, <1>2, <2>1, SameWritten DEF InOrderFiled
<1>14. DefsAssembled' /\ PhaseSpecs'
  BY <1>2 DEF DefsAssembled, PhaseSpecs, MarkInv, PhasesKept
<1> QED
  BY <1>6, <1>7, <1>9, <1>11, <1>12, <1>13, <1>14

(* Where the spec functions are; rustc, extraction and the ends of phases   *)
(* leave them there.                                                        *)
SpecsPlaced ==
  MadeRight /\ FiledRight /\ NoneLost /\ NoneTwice /\ OneExpansion /\ InOrderFiled

(* A step that leaves attributes and spec functions alone keeps that.       *)
LEMMA SpecsStay ==
  ASSUME SpecsPlaced, written' = written, attributes' = attributes,
         generated' = generated, specs' = specs
  PROVE  SpecsPlaced'
<1> USE DEF SpecsPlaced
<1>1. \A g : IsMade(g)' <=> IsMade(g)
  BY SameWritten DEF IsMade
<1>2. MadeRight' /\ FiledRight'
  BY <1>1, SameWritten DEF MadeRight, FiledRight
<1>3. \A k, j : (Filed(k, j)' <=> Filed(k, j)) /\ (Waits(k, j)' <=> Waits(k, j))
  BY SameWritten DEF Filed, Waits
<1>4. NoneLost'
  BY <1>3, SameWritten DEF NoneLost
<1>5. NoneTwice'
  BY <1>3 DEF NoneTwice
<1>6. OneExpansion'
  BY SameWritten DEF OneExpansion
<1>7. InOrderFiled'
  BY SameWritten DEF InOrderFiled
<1> QED
  BY <1>2, <1>4, <1>5, <1>6, <1>7

(* A list of one measure is taken as it is.                                 *)
LEMMA FirstOfOne ==
  ASSUME NEW S, NEW s \in Seq(S), Len(s) <= 1
  PROVE  FirstOnly(s) = s
<1>1. SUFFICES ASSUME s # <<>> PROVE <<s[1]>> = s
  BY DEF FirstOnly
<1>2. Len(s) = 1 /\ s[1] \in S
  BY <1>1
<1>3. <<s[1]>> \in Seq(S) /\ Len(<<s[1]>>) = Len(s) /\ \A i \in 1 .. Len(s) : <<s[1]>>[i] = s[i]
  BY <1>2
<1> QED
  BY <1>3, SeqEqual

(* What is assembled stays so.                                              *)
LEMMA AssembledStays ==
  ASSUME written' = written, specs' = specs, NEW k, Assembled(k), defs'[k] = defs[k]
  PROVE  Assembled(k)'
BY DEF Assembled, FiledTrees, ExtractSpecFns, Attr

(* extract_local_fn puts a function together from the spec functions filed  *)
(* for it; with more than one measure that is reported.                     *)
LEMMA ExtractSpecs ==
  ASSUME MarkInv, SpecsRight, Extract, errors' = {}
  PROVE  SpecsRight'
<1>1. /\ written' = written /\ attributes' = attributes
      /\ generated' = generated /\ specs' = specs
      /\ phase = "extract" /\ phase' = "extract"
  BY DEF Extract
<1>2. SpecsPlaced'
  BY <1>1, SpecsStay DEF SpecsRight, SpecsPlaced
<1>3. PICK k \in DOMAIN written \ DOMAIN defs : ExtractFunction(k) \/ ExtractFlagsOfAdt(k)
  BY DEF Extract
<1>4. PICK tree : Define(k, tree)
  BY <1>3 DEF ExtractFunction, ExtractFlagsOfAdt
<1>5. \A l \in DOMAIN defs : l # k /\ defs'[l] = defs[l]
  BY <1>3, <1>4 DEF Define
<1>6. DOMAIN defs' = DOMAIN defs \cup {k}
  BY <1>4 DEF Define
<1>7. ASSUME k \in Functions_ PROVE Assembled(k)'
  <2>1. ExtractFunction(k)
    BY <1>3, <1>7 DEF ExtractFlagsOfAdt, Functions_
  <2>2. Len(specs[k]["measure"]) <= 1
    <3>1. Len(specs[k]["measure"]) \in Nat
      BY <1>3 DEF SpecsRight, FiledRight, SpecTypes
    <3>2. ~(Len(specs[k]["measure"]) > 1)
      BY <2>1 DEF ExtractFunction
    <3> QED
      BY <3>1, <3>2
  <2>3. FirstOnly(specs[k]["measure"]) = specs[k]["measure"]
    BY <1>3, <2>2, FirstOfOne DEF SpecsRight, FiledRight, SpecTypes
  <2>4. defs'[k].tree =
          WithContract(FiledTrees(k, "measure"), FiledTrees(k, "pre"),
                       FiledTrees(k, "post"), ExtractBody[written[k].body].tree)
    BY <2>1, <2>3 DEF ExtractFunction, Define, Definition, FiledTrees
  <2> QED
    BY <1>1, <2>2, <2>4 DEF Assembled, FiledTrees, ExtractSpecFns, Attr
<1>8. DefsAssembled'
  <2>1. ASSUME NEW l \in DOMAIN defs', l \in Functions_ PROVE Assembled(l)'
    <3>1. CASE l = k
      BY <1>7, <2>1, <3>1
    <3>2. CASE l # k
      <4>1. l \in DOMAIN defs /\ Assembled(l) /\ defs'[l] = defs[l]
        BY <1>5, <1>6, <2>1, <3>2 DEF SpecsRight, DefsAssembled
      <4> QED
        BY <1>1, <4>1, AssembledStays
    <3> QED
      BY <3>1, <3>2
  <2> QED
    BY <1>1, <2>1, SameWritten DEF DefsAssembled
<1>9. PhaseSpecs'
  BY <1>1 DEF PhaseSpecs, SpecsRight
<1> QED
  BY <1>2, <1>8, <1>9 DEF SpecsRight, SpecsPlaced

(* So in a program without errors conditions are where they belong.         *)
LEMMA NextSpecs == MarkInv /\ SpecsInv /\ [Next]_vars => SpecsInv'
<1> SUFFICES ASSUME MarkInv, SpecsInv, [Next]_vars, errors' = {} PROVE SpecsRight'
  BY DEF SpecsInv
<1>1. errors = {}
  BY DEF Next, vars, Expand, ExpandSpec, RewriteFlag, Compile, FileSpec, Discovered,
         Extract, ExtractFunction, ExtractFlagsOfAdt, Extracted
<1>2. SpecsRight
  BY <1>1 DEF SpecsInv
<1>3. CASE Expand
  BY <1>2, <1>3, ExpandSpecs
<1>4. CASE FileSpec
  BY <1>2, <1>4, FileSpecs
<1>5. CASE Extract
  BY <1>2, <1>5, ExtractSpecs
<1>6. CASE Compile \/ Discovered \/ Extracted \/ UNCHANGED vars
  <2>1. /\ written' = written /\ attributes' = attributes
        /\ generated' = generated /\ specs' = specs /\ defs' = defs
    BY <1>6 DEF Compile, Discovered, Extracted, vars
  <2>2. SpecsPlaced'
    BY <1>2, <2>1, SpecsStay DEF SpecsRight, SpecsPlaced
  <2>3. DefsAssembled'
    <3>1. ASSUME NEW k \in DOMAIN defs, k \in Functions_ PROVE Assembled(k)'
      BY <1>2, <2>1, <3>1, AssembledStays DEF SpecsRight, DefsAssembled
    <3> QED
      BY <2>1, <3>1, SameWritten DEF DefsAssembled
  <2>4. PhaseSpecs'
    <3>1. PhaseSpecs
      BY <1>2 DEF SpecsRight
    <3>2. CASE Compile
      BY <1>1, <2>1, <3>1, <3>2 DEF Compile, PhaseSpecs
    <3>3. CASE Discovered
      BY <2>1, <3>1, <3>3 DEF Discovered, PhaseSpecs
    <3>4. CASE Extracted
      BY <1>1, <2>1, <3>1, <3>4 DEF Extracted, PhaseSpecs
    <3>5. CASE UNCHANGED vars
      BY <3>1, <3>5 DEF vars, PhaseSpecs
    <3> QED
      BY <1>6, <3>2, <3>3, <3>4, <3>5
  <2> QED
    BY <2>2, <2>3, <2>4 DEF SpecsRight, SpecsPlaced
<1> QED
  BY <1>3, <1>4, <1>5, <1>6 DEF Next

(* At first nothing is generated, filed or extracted.                       *)
LEMMA InitSpecs == Init => SpecsInv
<1> SUFFICES ASSUME Init PROVE SpecsRight
  BY DEF SpecsInv
<1>1. MarkInv
  BY InitMark
<1>2. \A k \in DOMAIN specs : \A type \in SpecTypes : specs[k][type] = <<>>
  BY DEF Init
<1>3. MadeRight /\ NoneTwice /\ OneExpansion /\ InOrderFiled /\ DefsAssembled /\ PhaseSpecs
  <2>1. generated = {} /\ DOMAIN defs = {} /\ phase = "expand"
    BY DEF Init
  <2> QED
    BY <1>2, <2>1 DEF MadeRight, NoneTwice, OneExpansion, InOrderFiled, DefsAssembled,
                      PhaseSpecs
<1>4. FiledRight
  <2>1. DOMAIN specs = DOMAIN written
        /\ \A k \in DOMAIN specs : specs[k] \in [SpecTypes -> Seq(Made)]
    BY DEF Init
  <2>2. Range(<<>>) = {}
    BY DEF Range
  <2> QED
    BY <1>2, <2>1, <2>2 DEF FiledRight
<1>5. NoneLost
  <2>1. \A k \in DOMAIN written : \A j \in AttrsOf(k) : attributes[k][j] # "gone"
    BY DEF Init, AttrsOf
  <2> QED
    BY <2>1 DEF NoneLost
<1> QED
  BY <1>3, <1>4, <1>5 DEF SpecsRight

-----------------------------------------------------------------------------
(* A list without repetitions of all elements of a set is as long as the set*)
(* is large.                                                                *)
LEMMA ListingLength ==
  ASSUME NEW S, NEW n \in Nat, NEW l \in [1 .. n -> S], IsInjective(l),
         \A x \in S : \E i \in 1 .. n : l[i] = x
  PROVE  Cardinality(S) = n
<1>1. l \in Bijection(1 .. n, S)
  BY DEF Bijection, Injection, Surjection
<1> QED
  BY <1>1, FS_CountingElements DEF ExistsBijection

(* The attributes of the spec functions filed for a function.               *)
AttrsFiled(k, type) == [i \in DOMAIN specs[k][type] |-> specs[k][type][i].attr]

(* In an accepted program they are its conditions of a type, each once, in  *)
(* an order they may end up in.                                             *)
LEMMA ConditionsListed ==
  ASSUME MarkInv, SpecsRight, phase = "done", NEW k \in Functions_, NEW type \in SpecTypes
  PROVE  /\ AttrsFiled(k, type) \in Listings(k, type)
         /\ SpecTrees(k, AttrsFiled(k, type)) = FiledTrees(k, type)
<1>1. k \in DOMAIN written /\ k \in DOMAIN specs
  BY DEF Functions_, SpecsRight, FiledRight
<1>2. PICK s : s = specs[k][type]
  OBVIOUS
<1>3. s \in Seq(Made)
  BY <1>1, <1>2 DEF SpecsRight, FiledRight
<1>4. ASSUME NEW i \in DOMAIN s
      PROVE  s[i] \in Made /\ s[i].of = k /\ s[i].attr \in Conditions(k, type)
  <2>1. PICK g : g = s[i]
    OBVIOUS
  <2>2. g \in Range(s)
    BY <2>1 DEF Range
  <2>3. IsMade(g) /\ g.of = k /\ SpecType(g) = type
    BY <1>1, <1>2, <2>2 DEF SpecsRight, FiledRight
  <2>4. g.attr \in Conditions(k, type)
    BY <2>3 DEF IsMade, IsCondition, AttrsOf, SpecType, Conditions
  <2> QED
    BY <1>3, <2>1, <2>3, <2>4
<1>5. ASSUME NEW j \in Conditions(k, type) PROVE \E i \in DOMAIN s : s[i].attr = j
  <2>1. j \in AttrsOf(k) /\ IsCondition(k, j) /\ Attr(k, j).mac = type
    BY DEF Conditions, AttrsOf, IsCondition
  <2>2. MarkOf(k, j)
    BY <1>1, <2>1 DEF MarkInv, MarksKept, Compiled
  <2>3. attributes[k][j] = "gone"
    BY <2>1, <2>2 DEF MarkOf, Compiled
  <2>4. generated = {}
    BY DEF SpecsRight, PhaseSpecs
  <2>5. Waits(k, j) \/ Filed(k, j)
    BY <1>1, <2>1, <2>3 DEF SpecsRight, NoneLost
  <2>6. \E g \in Range(s) : g.attr = j
    BY <1>2, <2>1, <2>4, <2>5 DEF Waits, Filed
  <2> QED
    BY <2>6 DEF Range
<1>6. \A i, j \in DOMAIN s : s[i].attr = s[j].attr => i = j
  BY <1>1, <1>2 DEF SpecsRight, NoneTwice
<1>7. KeepsOrder(k) => \A i, j \in DOMAIN s : i < j => s[i].attr < s[j].attr
  BY <1>1, <1>2 DEF SpecsRight, InOrderFiled
<1>8. PICK l : l = AttrsFiled(k, type)
  OBVIOUS
<1>9. DOMAIN l = DOMAIN s /\ \A i \in DOMAIN s : l[i] = s[i].attr
  BY <1>2, <1>8 DEF AttrsFiled
<1>10. PICK n \in Nat : DOMAIN s = 1 .. n
  BY <1>3
<1>11. l \in [1 .. n -> Conditions(k, type)]
  <2>1. l = [i \in 1 .. n |-> s[i].attr]
    BY <1>2, <1>8, <1>10 DEF AttrsFiled
  <2> QED
    BY <1>4, <1>10, <2>1
<1>12. IsInjective(l)
  BY <1>6, <1>9 DEF IsInjective
<1>13. \A j \in Conditions(k, type) : \E i \in 1 .. n : l[i] = j
  BY <1>5, <1>9, <1>10
<1>14. Cardinality(Conditions(k, type)) = n
  BY <1>11, <1>12, <1>13, ListingLength
<1>15. KeepsOrder(k) => \A i, j \in DOMAIN l : i < j => l[i] < l[j]
  BY <1>7, <1>9
<1>16. l \in Listings(k, type)
  BY <1>11, <1>12, <1>14, <1>15 DEF Listings
<1>17. SpecTrees(k, l) = FiledTrees(k, type)
  <2>1. FiledTrees(k, type) = [i \in DOMAIN s |-> ExtractBody[SpecBody(Attr(s[i].of, s[i].attr))].tree]
    BY <1>2 DEF FiledTrees, Trees, ExtractSpecFns
  <2>2. SpecTrees(k, l) = [i \in DOMAIN s |-> ExtractBody[SpecBody(Attr(k, l[i]))].tree]
    BY <1>9 DEF SpecTrees
  <2>3. \A i \in DOMAIN s : s[i].of = k /\ l[i] = s[i].attr
    BY <1>4, <1>9
  <2> QED
    BY <2>1, <2>2, <2>3
<1> QED
  BY <1>8, <1>16, <1>17

(* In a program without errors every function is extracted with the         *)
(* contract that is written at it, each of its conditions once and none of  *)
(* another function, however macros, names, nesting and hash maps take it   *)
(* there (generate_fn_with_spec, parse_spec_type_fn_name, visit_item,       *)
(* extract_local_fn).                                                       *)
THEOREM ContractsReachTheirFunctions == Spec => []ContractAssembled
<1>1. MarkInv /\ SpecsInv /\ [Next]_vars => SpecsInv'
  BY NextSpecs
<1>2. ASSUME MarkInv, SpecsInv PROVE ContractAssembled
  <2>1. SUFFICES ASSUME phase = "done", errors = {}, NEW k \in Functions_
                 PROVE  /\ k \in DOMAIN defs
                        /\ \E measures \in Listings(k, "measure"), pres \in Listings(k, "pre"),
                              posts \in Listings(k, "post") :
                             defs[k].tree =
                               WithContract(SpecTrees(k, measures), SpecTrees(k, pres),
                                            SpecTrees(k, posts),
                                            ExtractBody[written[k].body].tree)
    BY DEF ContractAssembled, Accepted
  <2>2. SpecsRight
    BY <1>2, <2>1 DEF SpecsInv
  <2>3. k \in DOMAIN defs
    BY <2>1, <2>2 DEF SpecsRight, PhaseSpecs, Functions_
  <2>4. Assembled(k)
    BY <2>2, <2>3 DEF SpecsRight, DefsAssembled
  <2>5. \A type \in SpecTypes :
          /\ AttrsFiled(k, type) \in Listings(k, type)
          /\ SpecTrees(k, AttrsFiled(k, type)) = FiledTrees(k, type)
    BY <1>2, <2>1, <2>2, ConditionsListed
  <2>6. "measure" \in SpecTypes /\ "pre" \in SpecTypes /\ "post" \in SpecTypes
    BY DEF SpecTypes
  <2>7. defs[k].tree =
          WithContract(SpecTrees(k, AttrsFiled(k, "measure")), SpecTrees(k, AttrsFiled(k, "pre")),
                       SpecTrees(k, AttrsFiled(k, "post")), ExtractBody[written[k].body].tree)
    BY <2>4, <2>5, <2>6 DEF Assembled
  <2> QED
    BY <2>3, <2>5, <2>6, <2>7
<1> QED
  BY <1>1, <1>2, InitSpecs, AttributesMarked, PTL DEF Spec
=============================================================================
