------------------------------ MODULE Generics ------------------------------
(***************************************************************************)
(* Type parameters (stainless_extraction/src/ty.rs: extract_generics and    *)
(* extract_ty; expr.rs: extract_arg_types; krate.rs: extract_spec_fn).      *)
(*                                                                          *)
(* A function or an ADT has type parameters, its parent's first, known by   *)
(* their index. One with a bound F: Fn(S) -> T is replaced by the function  *)
(* type, every other is listed as a parameter of the extracted definition.  *)
(* The types met afterwards, in the definition and in its spec functions,   *)
(* are extracted with the table made here, and calls and types pass on type *)
(* arguments by position.                                                   *)
(*                                                                          *)
(* Definitions are taken in any order, since the loops over the crate go    *)
(* through hash maps; the table of each is a local variable, so nesting of  *)
(* one extraction in another does not matter. A type is what it is made of  *)
(* (`base') and the set of the indices of the parameters it mentions.       *)
(***************************************************************************)
EXTENDS Naturals, SequencesExt

CONSTANTS
  Defs,        \* functions and ADTs, local and external, and spec functions
  Params,      \* generic parameters
  NoDef,
  Lifetimes,   \* those that are no types
  Impls,       \* impl blocks
  Own,         \* [Defs \cup Impls -> Seq(Params)], generics_of(d).params
  Parent,      \* [Defs -> Impls \cup {NoDef}], generics_of(d).parent
  Bounds,      \* the Fn* predicates of d itself, in rustc's order: each the
               \*   index it is about, its part and the types of that part
  Uses,        \* the calls, and the ADT types, of d
  Specs        \* [Defs -> Seq(Defs)], the spec functions of d

VARIABLES
  def,         \* the definition being extracted, or NoDef
  predicates,  \* predicates still to be looked at
  unmade,      \* indices of parameters still to be looked at
  bound,       \* tparam_to_fun_params and tparam_to_fun_return
  table,       \* index_to_tparam
  uses,        \* uses of type arguments still to be extracted
  specs,       \* spec functions still to be extracted
  generics,    \* the type parameters of the definitions extracted
  emitted,     \* the uses extracted
  errors,      \* an unsupported tree was reported
  panicked     \* "none", or what failed

local == <<predicates, unmade, bound, table, uses, specs>>
vars == <<def, predicates, unmade, bound, table, uses, specs, generics,
          emitted, errors, panicked>>

-----------------------------------------------------------------------------
(* all_generic_params_of; impl blocks have no parent.                       *)
AllParams(d) == IF Parent[d] = NoDef THEN Own[d] ELSE Own[Parent[d]] \o Own[d]

(* Indices of the parameters of d that are types.                           *)
TypeIndices(d) == {i \in DOMAIN AllParams(d) : AllParams(d)[i] \notin Lifetimes}

Types == [base : STRING, mentions : SUBSET Nat]
TypesOf(d) == {t \in Types : t.mentions \subseteq TypeIndices(d)}
BoundsOn(d) ==
  [of : TypeIndices(d), part : {"inputs", "output"}, types : Seq(TypesOf(d))]
UsesIn(d) == [kind : {"call", "type"}, of : Defs, types : Seq(TypesOf(d))]

(* What rustc guarantees: parameters are distinct, bounds are about type    *)
(* parameters, and types mention those in scope. A spec function's parent   *)
(* and number of parameters are only known once they are looked at.         *)
ASSUME GenericsAssumption ==
  /\ NoDef \notin Defs
  /\ Own \in [Defs \cup Impls -> Seq(Params)]
  /\ Parent \in [Defs -> Impls \cup {NoDef}]
  /\ Specs \in [Defs -> Seq(Defs)]
  /\ \A d \in Defs :
       /\ IsInjective(AllParams(d))
       /\ Bounds[d] \in Seq(BoundsOn(d))
       /\ Uses[d] \in Seq(UsesIn(d))

(* A table's entry: a parameter, or the function type it is replaced by, of *)
(* which only the parameters it is over are kept.                           *)
Extracted(p) == [kind |-> "extracted", param |-> p, over |-> {p}]
Replaced(over) == [kind |-> "replaced", over |-> over]

Add(f, i, v) == [j \in DOMAIN f \cup {i} |-> IF j = i THEN v ELSE f[j]]
Drop(f, i) == [j \in DOMAIN f \ {i} |-> f[j]]
Empty == [i \in {} |-> <<>>]

(* The numbers in S, the least first.                                       *)
Ascending(S) ==
  CHOOSE f \in [1 .. Cardinality(S) -> S] :
    \A j, k \in DOMAIN f : j < k => f[j] < f[k]

NoBounds == [inputs |-> Empty, output |-> Empty]

Mentioned(types) == UNION {types[i].mentions : i \in DOMAIN types}

(* extract_ty: parameters become what the table has for them. Types of      *)
(* closures and of functions are unsupported.                               *)
OverAny(indices) == UNION {table[i].over : i \in indices}
IsUnsupported(type) == type.base \in {"closure", "fn_item"}
Type(type) == [base |-> IF IsUnsupported(type) THEN "untyped" ELSE type.base,
               over |-> IF IsUnsupported(type) THEN {} ELSE OverAny(type.mentions)]

Init ==
  /\ def = NoDef
  /\ predicates = <<>>
  /\ unmade = <<>>
  /\ bound = NoBounds
  /\ table = Empty
  /\ uses = <<>>
  /\ specs = <<>>
  /\ generics = Empty
  /\ emitted = {}
  /\ errors = FALSE
  /\ panicked = "none"

(* An assertion or an `expect' fails: extraction is over.                   *)
Panic(reason) ==
  /\ panicked' = reason
  /\ UNCHANGED <<def, predicates, unmade, bound, table, uses, specs, generics,
                 emitted, errors>>

Running == panicked = "none" /\ def # NoDef

(* extract_generics is called, once for every definition but spec functions.*)
Start(d) ==
  /\ panicked = "none" /\ def = NoDef
  /\ d \notin DOMAIN generics
  /\ \A e \in Defs : d \notin ToSet(Specs[e])
  /\ def' = d
  /\ predicates' = Bounds[d]
  /\ unmade' = [i \in DOMAIN AllParams(d) |-> i]
  /\ bound' = NoBounds
  /\ table' = Empty
  /\ uses' = Uses[d]
  /\ specs' = Specs[d]
  /\ UNCHANGED <<generics, emitted, errors, panicked>>

(* One predicate: F: Fn(inputs), or the type of its output.                 *)
ReadBound ==
  /\ Running /\ predicates # <<>>
  /\ LET b == Head(predicates)
     IN  IF b.of \in DOMAIN bound[b.part]
           THEN Panic("bound_twice")
           ELSE /\ bound' = [bound EXCEPT ![b.part] = Add(@, b.of, b.types)]
                /\ predicates' = Tail(predicates)
                /\ UNCHANGED <<def, unmade, table, uses, specs, generics, emitted,
                               errors, panicked>>

(* One parameter: listed unless it has a bound, or is no type.              *)
MakeParameter ==
  /\ Running /\ predicates = <<>> /\ unmade # <<>>
  /\ LET i == Head(unmade)
         p == AllParams(def)[i]
     IN  /\ errors' = (errors \/ p \in Lifetimes)
         /\ table' = IF p \in Lifetimes \/ i \in DOMAIN bound.inputs
                       THEN table ELSE Add(table, i, Extracted(p))
  /\ unmade' = Tail(unmade)
  /\ UNCHANGED <<def, predicates, bound, uses, specs, generics, emitted, panicked>>

(* A parameter with a bound is replaced by the function type, whose own     *)
(* types are extracted with the table so far.                               *)
Replace(i) ==
  LET inputs == bound.inputs[i]
      output == bound.output[i]
  IN  IF ~(Mentioned(inputs) \subseteq DOMAIN table)
        THEN Panic("missing_type_parameter")
      ELSE IF i \notin DOMAIN bound.output THEN Panic("no_return_type")
      ELSE IF ~(Mentioned(output) \subseteq DOMAIN table)
        THEN Panic("missing_type_parameter")
      ELSE IF i \in DOMAIN table THEN Panic("made_twice")
      ELSE /\ table' = Add(table, i, Replaced(OverAny(Mentioned(inputs) \cup Mentioned(output))))
           /\ bound' = [inputs |-> Drop(bound.inputs, i),
                        output |-> Drop(bound.output, i)]
           /\ UNCHANGED <<def, predicates, unmade, uses, specs, generics, emitted,
                          errors, panicked>>

(* Mutant: one is replaced as soon as its bound is known.                   *)
ReplaceParameterEarly ==
  /\ Running /\ predicates = <<>>
  /\ \E i \in DOMAIN bound.inputs : Replace(i)

(* They come in the order of a HashMap, after all others are made.          *)
ReplaceParameter ==
  /\ Running /\ predicates = <<>> /\ unmade = <<>>
  /\ \E i \in DOMAIN bound.inputs : Replace(i)

TableMade == predicates = <<>> /\ unmade = <<>> /\ DOMAIN bound.inputs = {}

(* Mutant: the parameters of the impl block are not listed.                 *)
KeptOwn ==
  {i \in DOMAIN table : table[i].kind = "extracted"
                         /\ i > Len(AllParams(def)) - Len(Own[def])}

(* The table's values that are parameters,                                  *)
Kept == {i \in DOMAIN table : table[i].kind = "extracted"}

(* are the parameters of the extracted definition, in a HashMap's order.    *)
ListParameters ==
  /\ Running /\ TableMade
  /\ def \notin DOMAIN generics
  /\ \E order \in SetToSeqs(Kept) :
       generics' = Add(generics, def,
                       [k \in DOMAIN order |-> table[order[k]].param])
  /\ UNCHANGED <<def, predicates, unmade, bound, table, uses, specs, emitted,
                 errors, panicked>>

(* Mutant: closures are no longer removed.                                  *)
TypeArgumentsKept(use) == use.types

(* extract_arg_types removes the types of closures; extract_ty passes on    *)
(* all of an ADT type's arguments. (There is no expression for a closure:   *)
(* a call that passes one has an error for it.)                             *)
PassedOn(use) ==
  {i \in DOMAIN use.types : use.kind = "call" => use.types[i].base # "closure"}
TypeArguments(use) ==
  LET order == Ascending(PassedOn(use))
  IN  [k \in DOMAIN order |-> use.types[order[k]]]

UseTypes ==
  /\ Running
  /\ def \in DOMAIN generics
  /\ uses # <<>>
  /\ LET use == Head(uses)
         args == TypeArguments(use)
     IN  IF ~(Mentioned(args) \subseteq DOMAIN table)
           THEN Panic("missing_type_parameter")
           ELSE /\ emitted' = emitted \cup
                     {[in |-> def, use |-> use,
                       args |-> [i \in DOMAIN args |-> Type(args[i])]]}
                /\ errors' = (errors \/ \E i \in DOMAIN use.types :
                                          IsUnsupported(use.types[i]))
                /\ uses' = Tail(uses)
                /\ UNCHANGED <<def, predicates, unmade, bound, table, specs,
                               generics, panicked>>

(* Mutant: a spec function's own parameters are listed.                     *)
SpecTableOwn(spec) ==
  [i \in DOMAIN AllParams(spec) |-> Extracted(AllParams(spec)[i])]

(* extract_spec_fn: the spec function's parameters stand for those of the   *)
(* function at the same index.                                              *)
SpecTable(spec) == [i \in DOMAIN AllParams(spec) |-> table[i]]

EnterSpec ==
  /\ Running
  /\ def \in DOMAIN generics /\ uses = <<>> /\ specs # <<>>
  /\ LET spec == Head(specs)
         params == AllParams(spec)
     IN  IF Parent[spec] # Parent[def] THEN Panic("generics_parent")
         ELSE IF Len(params) # Cardinality(DOMAIN table)
           THEN Panic("type_parameters_mismatch")
         ELSE IF ~(DOMAIN params \subseteq DOMAIN table)
           THEN Panic("missing_type_parameter")
         ELSE /\ table' = SpecTable(spec)
              /\ uses' = Uses[spec]
              /\ specs' = Tail(specs)
              /\ UNCHANGED <<def, predicates, unmade, bound, generics, emitted,
                             errors, panicked>>

(* The definition is built.                                                 *)
Finish ==
  /\ Running
  /\ def \in DOMAIN generics /\ uses = <<>> /\ specs = <<>>
  /\ def' = NoDef
  /\ UNCHANGED <<local, generics, emitted, errors, panicked>>

Next ==
  \/ \E d \in Defs : Start(d)
  \/ ReadBound
  \/ MakeParameter
  \/ ReplaceParameter
  \/ ListParameters
  \/ UseTypes
  \/ EnterSpec
  \/ Finish

Spec == Init /\ [][Next]_vars

-----------------------------------------------------------------------------
(* The indices of d's parameters that have a bound, by the program.         *)
Bounded(d) == {b.of : b \in {c \in ToSet(Bounds[d]) : c.part = "inputs"}}
Listed(d) ==
  {AllParams(d)[i] : i \in {j \in DOMAIN AllParams(d) \ Bounded(d) :
                              AllParams(d)[j] \notin Lifetimes}}

(* The definitions extract_generics was written for: at most one Fn* bound  *)
(* for a parameter, about other types than parameters with such a bound,    *)
(* no lifetimes on a function with spec functions, and those with the same  *)
(* generics.                                                                *)
Supported(d) ==
  /\ \A j, k \in DOMAIN Bounds[d] :
       j # k => <<Bounds[d][j].of, Bounds[d][j].part>>
                  # <<Bounds[d][k].of, Bounds[d][k].part>>
  /\ \A i \in Bounded(d) :
       \E b \in ToSet(Bounds[d]) : b.of = i /\ b.part = "output"
  /\ \A b \in ToSet(Bounds[d]) : Mentioned(b.types) \cap Bounded(d) = {}
  /\ \A spec \in ToSet(Specs[d]) :
       /\ ToSet(AllParams(d)) \cap Lifetimes = {}
       /\ Parent[spec] = Parent[d]
       /\ Len(AllParams(spec)) = Len(AllParams(d))

(* Whatever the order of the hash maps, a supported definition is extracted *)
(* without a failing assertion or a missing parameter.                      *)
SupportedNeverPanics == panicked # "none" => ~Supported(def)

(* An extracted definition lists each of its type parameters once, those of *)
(* its impl block included, and no parameter that has become a function.    *)
ParametersListed ==
  \A d \in DOMAIN generics :
    /\ IsInjective(generics[d])
    /\ ToSet(generics[d]) = Listed(d)

(* Types in a function, and in the contract taken from its spec functions,  *)
(* are about the parameters the extracted function has.                     *)
TypesClosed ==
  \A e \in emitted : \A i \in DOMAIN e.args :
    e.args[i].over \subseteq ToSet(generics[e.in])

(* A use of `of' as the program has it: a type for every parameter, if none *)
(* is a lifetime, and closures for those with a bound.                      *)
OnlyClosuresRemoved(use) ==
  /\ DOMAIN use.types = DOMAIN AllParams(use.of)
  /\ ToSet(AllParams(use.of)) \cap Lifetimes = {}
  /\ \A i \in DOMAIN use.types :
       i \in Bounded(use.of) <=> use.kind = "call" /\ use.types[i].base = "closure"

(* The type arguments of an extracted use are the types that the program    *)
(* has for the parameters the used definition lists. (In which order these  *)
(* are listed is another matter.)                                           *)
ArgumentsComplete ==
  \A e \in emitted :
    OnlyClosuresRemoved(e.use) =>
      LET kept == {i \in DOMAIN e.use.types :
                     AllParams(e.use.of)[i] \in Listed(e.use.of)}
          count(base) == Cardinality({i \in kept : e.use.types[i].base = base})
      IN  /\ Len(e.args) = Cardinality(kept)
          /\ \A i \in DOMAIN e.args :
               e.args[i].base # "untyped" =>
                 count(e.args[i].base) =
                   Cardinality({j \in DOMAIN e.args : e.args[j].base = e.args[i].base})

=============================================================================
