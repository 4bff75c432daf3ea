------------------------------ MODULE Contracts -----------------------------
(***************************************************************************)
(* From an annotated item to its definition: the attribute macros           *)
(* (libstainless_macros/implementation.rs), the names by which extraction   *)
(* recognises what they generated (stainless_extraction/src/spec.rs,        *)
(* krate.rs), flags (flags.rs) and the assembly of a function with its      *)
(* contract and its body (krate.rs: extract_local_fn).                      *)
(*                                                                          *)
(* rustc expands attributes, one macro at a time and the first one first,   *)
(* in which it gets the item with the attributes that are left. Macros and  *)
(* extractor share nothing but names: a name is the sequence of its parts   *)
(* between underscores.                                                     *)
(*                                                                          *)
(* Items are functions and ADTs of one module or of one impl block, and are *)
(* known by their positions, as the attributes of an item are by theirs:    *)
(* what expansion does to an item is to mark its attributes. How a body is  *)
(* extracted is a parameter (Bodies). What generics and the identifiers of  *)
(* variables do is in Generics and in Extraction; associated functions      *)
(* without self fail there and are left out.                                *)
(***************************************************************************)
EXTENDS Integers, Sequences, FiniteSets, Functions, TypedTrees

CONSTANTS
  Programs,        \* set of Seq([name, kind, slots, comma, attrs, body]): a
                   \*   function or a method and its parameters, whether a comma
                   \*   ends them, or an ADT and its fields, variant by variant
  Numerals,        \* the number i in decimal, at i
  ExtractBody      \* [body of a function -> its [tree, log]]

(* Attributes: the macro, how its path is written ("bare", "qualified", or  *)
(* "inert" for clippy::stainless::..), and its arguments, a condition of a  *)
(* spec or the tokens of a flag, delimited. A token is a name or a number,  *)
(* "fn", a comma, or another ("?").                                         *)
SpecTypes == {"pre", "post", "measure"}
FlagNames == {"external", "pure", "mutable", "var", "law"}

(* What rustc accepts as a program, with as many numerals as attributes.    *)
WellFormed(program) ==
  /\ program \in Seq(Range(program))
  /\ \A k \in DOMAIN program :
       /\ program[k].kind \in {"fn", "method", "adt"}
       /\ program[k].name \in Seq(STRING)
       /\ program[k].slots \in Seq(STRING)
       /\ program[k].attrs \in Seq(Range(program[k].attrs))
       /\ Len(program[k].attrs) <= Len(Numerals)
       /\ \A a \in Range(program[k].attrs) :
            /\ a.form \in {"bare", "qualified", "inert"}
            /\ a.tokens \in Seq(STRING)
            /\ a.delim = "delimited" \/ a.tokens = <<>>
       /\ \A l \in DOMAIN program :
            program[k].kind = "method" /\ program[l].kind = "method"
              /\ program[k].name = program[l].name => k = l

ASSUME ContractsAssumption ==
  /\ Numerals \in Seq(STRING)
  /\ \A program \in Programs : WellFormed(program)

VARIABLES
  written,     \* the items of the program
  attributes,  \* [item -> [attribute -> "macro", "inert" or "gone"]]
  generated,   \* spec functions not yet found
  specs,       \* [item -> [type -> Seq of the spec functions filed for it]]
  defs,        \* definitions extracted
  phase,
  errors,      \* what rustc or the extractor reported
  warnings     \* items warned about

vars == <<written, attributes, generated, specs, defs, phase, errors, warnings>>

-----------------------------------------------------------------------------
(* Expansion.                                                               *)
Attr(k, i) == written[k].attrs[i]
Marked(k, mark) == {i \in DOMAIN attributes[k] : attributes[k][i] = mark}
Macros(k) == Marked(k, "macro")

(* TryFrom<&Attribute>: only a path of one segment is recognised.           *)
IsBareSpec(attr) == attr.mac \in SpecTypes /\ attr.form = "bare"
BareSpecs(k) == {i \in Macros(k) : IsBareSpec(Attr(k, i))}

(* try_parse: the attribute being expanded, then the remaining ones.        *)
SpecsFor(k, i) == {i} \cup BareSpecs(k)

(* Conditions and the parameter list with `ret' added must parse.           *)
Parses(k, found) ==
  \A i \in found :
    /\ Attr(k, i).expr # None
    /\ Attr(k, i).mac = "post" => written[k].slots # <<>> /\ ~written[k].comma

(* A generated function: the item and the attribute it is of, the attribute *)
(* in whose expansion it was made, and its index, from 1.                   *)
Rank(found, j) == Cardinality({l \in found : l <= j})
Generate(k, i, found) ==
  {[of |-> k, attr |-> j, expansion |-> i, index |-> Rank(found, j)] : j \in found}

SpecType(g) == Attr(g.of, g.attr).mac
NameOf(g) == <<"", "", SpecType(g), Numerals[g.index]>> \o written[g.of].name

(* Nested in the function, or siblings if it has a self parameter.          *)
IsNested(g) == written[g.of].kind = "fn"
ParamsOf(g) ==
  IF SpecType(g) = "post" THEN Append(written[g.of].slots, "ret")
  ELSE written[g.of].slots

(* generate_fn_with_spec. A measure is a statement, since its type is       *)
(* unknown.                                                                 *)
SpecBody(attr) ==
  Node("Block", "", 0, "",
       IF attr.mac = "measure" THEN <<Node("ExprStmt", "", 0, "", <<attr.expr>>), None>>
       ELSE <<attr.expr>>)

(* extract_specs_and_expand                                                 *)
ExpandSpec(k, i) ==
  LET found == SpecsFor(k, i) IN
  IF written[k].kind # "adt" /\ Parses(k, found)
  THEN /\ attributes' = [attributes EXCEPT ![k] =
            [j \in DOMAIN @ |-> IF j = i \/ j \in BareSpecs(k) THEN "gone" ELSE @[j]]]
       /\ generated' = generated \cup Generate(k, i, found)
       /\ UNCHANGED errors
  ELSE /\ errors' = errors \cup {"syntax"}
       /\ attributes' = [attributes EXCEPT ![k] = [j \in DOMAIN @ |-> "gone"]]
       /\ UNCHANGED generated

(* rewrite_flag: an attribute that rustc leaves alone.                      *)
RewriteFlag(k, i) ==
  /\ attributes' = [attributes EXCEPT ![k][i] = "inert"]
  /\ UNCHANGED <<generated, errors>>

Expand ==
  /\ phase = "expand"
  /\ \E k \in DOMAIN written :
       /\ \A l \in 1 .. k - 1 : Macros(l) = {}
       /\ \E i \in Macros(k) :
            /\ \A j \in Macros(k) : i <= j
            /\ IF Attr(k, i).mac \in SpecTypes THEN ExpandSpec(k, i)
               ELSE RewriteFlag(k, i)
  /\ UNCHANGED <<written, specs, defs, phase, warnings>>

(* rustc's own checks: no name twice in a scope, no parameter twice.        *)
SameScope(g, h) ==
  IF IsNested(g) THEN g.of = h.of ELSE ~IsNested(h)
Clash ==
  \/ \E g, h \in generated : g # h /\ NameOf(g) = NameOf(h) /\ SameScope(g, h)
  \/ \E g \in generated, k \in DOMAIN written :
       ~IsNested(g) /\ written[k].kind = "method" /\ NameOf(g) = written[k].name
  \/ \E g \in generated : ~IsInjective(ParamsOf(g))

Compile ==
  /\ phase = "expand"
  /\ \A k \in DOMAIN written : Macros(k) = {}
  /\ errors' = errors \cup (IF Clash THEN {"names"} ELSE {})
  /\ phase' = IF errors' = {} THEN "discover" ELSE "stopped"
  /\ UNCHANGED <<written, attributes, generated, specs, defs, warnings>>

-----------------------------------------------------------------------------
(* Discovery.                                                               *)

(* parse_spec_type_fn_name: the type and the name, or nothing. An index may *)
(* be empty.                                                                *)
SpecTypeFnName(name) ==
  IF /\ Len(name) >= 4
     /\ name[1] = "" /\ name[2] = ""
     /\ name[3] \in SpecTypes
     /\ name[4] \in {""} \cup Range(Numerals)
  THEN <<name[3], SubSeq(name, 5, Len(name))>>
  ELSE <<>>

(* FnItem::is_spec_fn, of a function that comes from an expansion.          *)
IsSpecFn(g) == SpecTypeFnName(NameOf(g)) # <<>>

(* Mutant: the method whose name the name of the spec function ends with.   *)
OwnersBySuffix(g) ==
  IF IsNested(g) THEN {g.of}
  ELSE {k \in DOMAIN written :
          /\ written[k].kind = "method"
          /\ \E i \in 5 .. Len(NameOf(g)) :
               written[k].name = SubSeq(NameOf(g), i, Len(NameOf(g)))}

(* The parent of a nested function, or the method of the name it has.       *)
OwnersOf(g) ==
  IF IsNested(g) THEN {g.of}
  ELSE {k \in DOMAIN written :
          /\ written[k].kind = "method"
          /\ written[k].name = SpecTypeFnName(NameOf(g))[2]}

(* Functions are spliced in before the statements of the function, those of *)
(* a later expansion thus before those of an earlier one.                   *)
StandsBefore(g, h) ==
  \/ g.expansion > h.expansion
  \/ g.expansion = h.expansion /\ g.attr < h.attr

(* visit_item: functions nested in one are visited in their order, those of *)
(* an impl block in the order of a HashMap.                                 *)
FileSpec ==
  /\ phase = "discover"
  /\ \E g \in generated :
       /\ IsNested(g) => \A h \in generated : h.of = g.of => ~StandsBefore(h, g)
       /\ generated' = generated \ {g}
       /\ specs' = [k \in DOMAIN specs |->
                      IF IsSpecFn(g) /\ k \in OwnersOf(g)
                      THEN [specs[k] EXCEPT ![SpecTypeFnName(NameOf(g))[1]] = Append(@, g)]
                      ELSE specs[k]]
  /\ UNCHANGED <<written, attributes, defs, phase, errors, warnings>>

Discovered ==
  /\ phase = "discover"
  /\ generated = {}
  /\ phase' = "extract"
  /\ UNCHANGED <<written, attributes, generated, specs, defs, errors, warnings>>

-----------------------------------------------------------------------------
(* Flags, of the attributes that an item is left with.                      *)
Kept(k) == {Attr(k, i) : i \in Marked(k, "inert")}
KnownFlags(k) == {a \in Kept(k) : a.mac \in FlagNames /\ a.delim # "other"}

(* Arguments up to the first that is unknown.                               *)
Arguments(attr) ==
  {attr.tokens[i] : i \in {j \in DOMAIN attr.tokens :
                             \A l \in 1 .. j : attr.tokens[l] # "?"}} \ {","}

(* extract_flags: of the item, by name, and whether there was a warning.    *)
CarrierFlags(k) ==
  {a.mac : a \in {b \in KnownFlags(k) : b.delim = "empty" \/ "fn" \in Arguments(b)}}
FlagsBySymbol(k) ==
  [s \in (UNION {Arguments(a) : a \in KnownFlags(k)}) \ {"fn"} |->
     {a.mac : a \in {b \in KnownFlags(k) : s \in Arguments(b)}}]
FlagsWarn(k) ==
  \E a \in Kept(k) : a \notin KnownFlags(k) \/ "?" \in Range(a.tokens)

(* Mutant: each parameter or field keeps what the one before left.          *)
SlotFlagsShifted(slots, by_symbol) ==
  [i \in DOMAIN slots |->
     IF i > 1 /\ slots[i - 1] \in DOMAIN by_symbol THEN by_symbol[slots[i - 1]]
     ELSE {}]

(* populate_def_context and the fields in extract_adt: a name's flags are   *)
(* removed by the first parameter or field that has it.                     *)
SlotFlags(slots, by_symbol) ==
  [i \in DOMAIN slots |->
     IF slots[i] \in DOMAIN by_symbol /\ \A j \in 1 .. i - 1 : slots[j] # slots[i]
     THEN by_symbol[slots[i]] ELSE {}]

(* report_unused_flags                                                      *)
UnusedFlags(k) == ~(DOMAIN FlagsBySymbol(k) \subseteq Range(written[k].slots))

Definition(k, tree) ==
  [name |-> written[k].name, tree |-> tree, flags |-> CarrierFlags(k),
   slots |-> SlotFlags(written[k].slots, FlagsBySymbol(k))]

Define(k, tree) ==
  /\ defs' = [l \in DOMAIN defs \cup {k} |->
                IF l = k THEN Definition(k, tree) ELSE defs[l]]
  /\ warnings' = warnings \cup (IF FlagsWarn(k) \/ UnusedFlags(k) THEN {k} ELSE {})

-----------------------------------------------------------------------------
(* Functions.                                                               *)

(* make_and                                                                 *)
MakeAnd(trees) ==
  CASE Len(trees) = 0 -> NoTree
    [] Len(trees) = 1 -> trees[1]
    [] OTHER -> Node("And", "", 0, "bool", trees)

(* The statement of a measure is the last but one of its block; it becomes  *)
(* the last.                                                                *)
WithMeasure(measures, tree) ==
  IF /\ measures # <<>>
     /\ measures[1].kind = "StBlock"
     /\ measures[1].sub[Len(measures[1].sub)] = UnitLiteral
  THEN Node("Decreases", "", 0, tree.type,
            <<Node("StBlock", "", 0, "",
                   SubSeq(measures[1].sub, 1, Len(measures[1].sub) - 1)), tree>>)
  ELSE tree

WithCondition(class, conditions, tree) ==
  IF conditions = <<>> THEN tree
  ELSE Node(class, "", 0, tree.type, <<MakeAnd(conditions), tree>>)

(* extract_local_fn on the trees of the specs and of the body.              *)
WithContract(measures, pres, posts, tree) ==
  WithCondition("Ensuring", posts,
    WithCondition("Require", pres, WithMeasure(measures, tree)))

(* measure_fns.first()                                                      *)
FirstOnly(fns) == IF fns = <<>> THEN <<>> ELSE <<fns[1]>>

(* extract_spec_fn                                                          *)
ExtractSpecFns(fns) ==
  [i \in DOMAIN fns |-> ExtractBody[SpecBody(Attr(fns[i].of, fns[i].attr))]]

(* One pass of the loop over functions. The first of several measures is    *)
(* taken and the error reported.                                            *)
ExtractFunction(k) ==
  LET body == ExtractBody[written[k].body]
      measures == ExtractSpecFns(FirstOnly(specs[k]["measure"]))
      pres == ExtractSpecFns(specs[k]["pre"])
      posts == ExtractSpecFns(specs[k]["post"])
      tree == WithContract(Trees(measures), Trees(pres), Trees(posts), body.tree)
  IN /\ written[k].kind # "adt"
     /\ Define(k, tree)
     /\ errors' = errors \cup Built(tree, <<body>> \o measures \o pres \o posts).log \cup
                  (IF Len(specs[k]["measure"]) > 1 THEN {"measures"} ELSE {})

(* extract_adt, of which only flags matter here.                            *)
ExtractFlagsOfAdt(k) ==
  /\ written[k].kind = "adt"
  /\ Define(k, None)
  /\ UNCHANGED errors

Extract ==
  /\ phase = "extract"
  /\ "panic" \notin errors
  /\ \E k \in DOMAIN written \ DOMAIN defs : ExtractFunction(k) \/ ExtractFlagsOfAdt(k)
  /\ UNCHANGED <<written, attributes, generated, specs, phase>>

Extracted ==
  /\ phase = "extract"
  /\ DOMAIN written \subseteq DOMAIN defs \/ "panic" \in errors
  /\ phase' = "done"
  /\ UNCHANGED <<written, attributes, generated, specs, defs, errors, warnings>>

Init ==
  /\ written \in Programs
  /\ attributes = [k \in DOMAIN written |->
                     [i \in DOMAIN written[k].attrs |->
                        IF Attr(k, i).form = "inert" THEN "inert" ELSE "macro"]]
  /\ generated = {}
  /\ specs = [k \in DOMAIN written |-> [type \in SpecTypes |-> <<>>]]
  /\ defs = <<>>
  /\ phase = "expand"
  /\ errors = {}
  /\ warnings = {}

Next == Expand \/ Compile \/ FileSpec \/ Discovered \/ Extract \/ Extracted

Spec == Init /\ [][Next]_vars

-----------------------------------------------------------------------------
(* Properties.                                                              *)
Accepted == phase = "done" /\ errors = {}
Functions_ == {k \in DOMAIN written : written[k].kind # "adt"}

(* What is written at an item, and the orders in which it may end up there. *)
(* Conditions of a function have the order in which they are written, on    *)
(* which one may rely for another; those of methods come out of a hash map, *)
(* and attributes with a qualified path are expanded later than others.     *)
Conditions(k, type) ==
  {i \in DOMAIN written[k].attrs : Attr(k, i).mac = type /\ Attr(k, i).form # "inert"}
KeepsOrder(k) ==
  /\ written[k].kind = "fn"
  /\ \A type \in SpecTypes : \A i \in Conditions(k, type) : Attr(k, i).form = "bare"
Listings(k, type) ==
  {s \in [1 .. Cardinality(Conditions(k, type)) -> Conditions(k, type)] :
     /\ IsInjective(s)
     /\ KeepsOrder(k) => \A i, j \in DOMAIN s : i < j => s[i] < s[j]}

SpecTrees(k, listing) ==
  [i \in DOMAIN listing |-> ExtractBody[SpecBody(Attr(k, listing[i]))].tree]

(* In a program without errors every function is extracted with the         *)
(* contract that is written at it, each of its conditions once and none of  *)
(* another function, however macros, names, nesting and hash maps take it   *)
(* there (generate_fn_with_spec, parse_spec_type_fn_name, visit_item,       *)
(* extract_local_fn).                                                       *)
ContractAssembled ==
  Accepted =>
    \A k \in Functions_ :
      /\ k \in DOMAIN defs
      /\ \E measures \in Listings(k, "measure"), pres \in Listings(k, "pre"),
            posts \in Listings(k, "post") :
           defs[k].tree =
             WithContract(SpecTrees(k, measures), SpecTrees(k, pres), SpecTrees(k, posts),
                          ExtractBody[written[k].body].tree)

(* A flag that is written for an item, a parameter or a field gets there or *)
(* there is a warning about the item; and none gets elsewhere (extract_flags*)
(* and report_unused_flags, on what rewrite_flag left).                     *)
Targets(a) == IF a.delim = "empty" THEN {"fn"} ELSE Range(a.tokens) \ {",", "?"}
WantedFlags(item) ==
  UNION {{a.mac} \X Targets(a) : a \in {b \in Range(item.attrs) : b.mac \notin SpecTypes}}
GivenFlags(def, slots) ==
  (def.flags \X {"fn"}) \cup UNION {def.slots[i] \X {slots[i]} : i \in DOMAIN slots}
FlagsAccounted ==
  \A k \in DOMAIN defs :
    LET given == GivenFlags(defs[k], written[k].slots) IN
    /\ given \subseteq WantedFlags(written[k])
    /\ given = WantedFlags(written[k]) \/ k \in warnings
=============================================================================
