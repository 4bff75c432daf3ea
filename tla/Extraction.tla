---------------------------- MODULE Extraction ----------------------------
(***************************************************************************)
(* Extraction of one crate: process_crate and the traversals below it       *)
(* (stainless_extraction/src/krate.rs, bindings.rs, ty.rs, expr.rs), over   *)
(* the identifier bookkeeping of SymbolMapping.                             *)
(*                                                                          *)
(* The crate is what rustc hands over.  A tree that is only traversed is    *)
(* the sequence of the things the traversal meets, in the order it meets    *)
(* them; the traversal itself is a worklist `todo' of operations, the top   *)
(* of which one action executes, possibly putting further ones before the   *)
(* rest: the worklist is the call stack of the extractor, flattened.        *)
(***************************************************************************)
EXTENDS SymbolMapping, Functions

CONSTANTS
  Crates,        \* the crates that may be extracted
  NoDef,         \* no definition
  ParamNames,    \* "param0", "param1", ...: the parameters of a stub
  RetName        \* "ret"

SpecTypes == {"measure", "pre", "post"}

DefOps == {"reg", "type", "adt", "variant", "field", "sort", "addAdt",
           "call", "enter", "spec", "emit", "stub"}
HirOps == {"bind", "param", "var"}
Op == [op : DefOps, arg : DefIds] \cup [op : HirOps, arg : HirIds]
        \cup [op : {"input"}, arg : Nat \ {0}]
        \cup [op : {"ret", "unsupported"}, arg : {NoDef}]

(* What an expression contains that matters: uses of variables, calls of    *)
(* functions, ADTs constructed, matched or selected from, types mentioned,  *)
(* trees the extractor rejects.                                             *)
BodyOp == [op : {"call", "adt", "type"}, arg : DefIds]
            \cup [op : {"var"}, arg : HirIds]
            \cup [op : {"unsupported"}, arg : {NoDef}]

(* An ADT, a function or the functions of an impl block, or anything else.  *)
Item == [kind : {"adt", "fns", "other"}, defs : SUBSET DefIds]

Crate ==
  [ items     : Seq(Item),                \* in the order of visit_all_item_likes
    external  : SUBSET DefIds,            \* definitions of other crates
    spec_type : [DefIds -> SpecTypes \cup {"none"}],   \* of a spec function
    spec_of   : [DefIds -> DefIds \cup {NoDef}],       \* what it specifies
    parent    : [DefIds -> DefIds \cup {NoDef}],       \* generics_of(d).parent
    tparams   : [DefIds -> Seq(DefIds)],  \* its generic parameters but those with a
                                          \* Fn* bound
    bounds    : [DefIds -> Seq(DefIds)],  \* ADTs in its Fn* bounds
    variants  : [DefIds -> Seq(DefIds)],  \* of an ADT
    fields    : [DefIds -> Seq(DefIds)],  \* of a variant
    types     : [DefIds -> Seq(DefIds)],  \* ADTs in the type of a field or result
    inputs    : [DefIds -> Seq(Seq(DefIds))], \* ... in those of a stub's inputs
    params    : [DefIds -> Seq(HirIds)],  \* parameter patterns of a function
    locals    : [DefIds -> Seq(HirIds)],  \* bindings in its body
    hir_types : [HirIds -> Seq(DefIds)],  \* ADTs in the type of a binding
    complex   : SUBSET HirIds,            \* parameter patterns that are no binding
    mutable   : SUBSET HirIds,            \* bindings by value or reference to mutate
    body      : [DefIds -> Seq(BodyOp)] ]

(* The definitions of a crate, and what rustc guarantees about them.        *)
Listed(c, kind) == UNION {i.defs : i \in {j \in Range(c.items) : j.kind = kind}}
LocalAdts(c) == Listed(c, "adt")
UserFns(c) == {g \in Listed(c, "fns") : c.spec_type[g] = "none"}
SpecFns(c) == Listed(c, "fns") \ UserFns(c)

Fields(c, a) == UNION {Range(c.fields[v]) : v \in Range(c.variants[a])}
Mentions(c, a) ==
  Range(c.bounds[a]) \cup UNION {Range(c.types[x]) : x \in Fields(c, a)}

(* Local definitions that are referred to are items, each of them once;     *)
(* external definitions only know external ones; a type parameter or a      *)
(* field is no ADT, and a variant is one only as the struct itself; a body  *)
(* only uses its own parameters and bindings; a parameter has one pattern.  *)
WellFormed(c) ==
  /\ \A i, j \in DOMAIN c.items : c.items[i].defs \cap c.items[j].defs # {} => i = j
  /\ \A i \in DOMAIN c.items :
       /\ c.items[i].kind = "adt" => \E d \in DefIds : c.items[i].defs = {d}
       /\ c.items[i].defs \cap c.external = {}
  /\ LocalAdts(c) \cap (UserFns(c) \cup SpecFns(c)) = {}
  /\ \A a \in LocalAdts(c) : Mentions(c, a) \subseteq LocalAdts(c) \cup c.external
  /\ \A a \in c.external : Mentions(c, a) \cup Range(c.types[a]) \subseteq c.external
  /\ \A d \in DefIds :
       /\ (Range(c.tparams[d]) \cup Range(c.fields[d])) \cap LocalAdts(c) = {}
       /\ Range(c.variants[d]) \cap LocalAdts(c) \subseteq {d}
  /\ \A g \in UserFns(c) \cup SpecFns(c) :
       /\ Range(c.locals[g]) \cap c.complex = {}
       /\ \A o \in Range(c.body[g]) :
            /\ o.op \in {"adt", "type"} => o.arg \in LocalAdts(c) \cup c.external
            /\ o.op = "call" => o.arg \in UserFns(c) \cup c.external
            /\ o.op = "var" => o.arg \in Range(c.params[g]) \cup Range(c.locals[g])
       /\ Range(c.types[g]) \subseteq LocalAdts(c) \cup c.external
       /\ \A i, j \in DOMAIN c.params[g] : c.params[g][i] = c.params[g][j] => i = j
       /\ \A f \in UserFns(c) \cup SpecFns(c) :
            f # g => (Range(c.params[f]) \cup Range(c.locals[f]))
                       \cap (Range(c.params[g]) \cup Range(c.locals[g])) = {}

ASSUME ExtractionAssumption ==
  /\ NoDef \notin DefIds
  /\ RetName \in Names
  /\ ParamNames \in Seq(Names)
  /\ Crates \subseteq Crate
  /\ \A c \in Crates :
       /\ WellFormed(c)
       /\ \A d \in DefIds : Len(c.inputs[d]) <= Len(ParamNames)

VARIABLES
  crate,           \* the crate being extracted
  phase,           \* "discover", "adts", "functions", "externals", "done"
  items,           \* items the visitor has yet to see
  adt_items,       \* ADTs discovered and not yet extracted
  fn_items,        \* functions discovered and not yet extracted
  specs,           \* function |-> its spec functions, by type, as discovered
  stubs,           \* external functions that still need a stub
  todo,            \* the call stack of the traversal
  dcx,             \* DefContext: binding |-> identifier of its variable
  fd,              \* the function under construction
  adts,            \* sorts extracted: the identifiers of ADTs
  function_refs,   \* functions referred to
  functions,       \* identifier |-> function extracted
  errors,          \* an error was reported to rustc, which aborts later
  panicked         \* the assertion that failed, if any

discovery_vars == <<items, adt_items, fn_items, specs>>
output_vars == <<adts, function_refs, functions>>
vars == <<mapping_vars, crate, phase, discovery_vars, stubs, todo, dcx, fd,
          output_vars, errors, panicked>>

(* A function: with the variables it mentions, each with the binding that   *)
(* stands for it in the body or the spec function it is mentioned in.       *)
FunDef ==
  [ def : DefIds, params : Seq(SymbolId), vars : SUBSET (HirIds \X SymbolId),
    ret : Seq(SymbolId), measure : Seq(DefIds), pre : Seq(DefIds),
    post : Seq(DefIds), extern : BOOLEAN ]

EmptyFd(g, ext) ==
  [ def |-> g, params |-> <<>>, vars |-> {}, ret |-> <<>>, measure |-> <<>>,
    pre |-> <<>>, post |-> <<>>, extern |-> ext ]

Phases == {"discover", "adts", "functions", "externals", "done"}
Panics == {"none", "overflow", "register_def", "register_hir", "add_adt",
           "add_function_ref", "add_function", "complex_pattern",
           "unregistered_variable", "generics_parent", "params_mismatch"}
NoFunction == EmptyFd(NoDef, FALSE)
NoSpecs == [t \in SpecTypes |-> <<>>]

(* The type invariant.                                                      *)
TypeOK ==
  /\ MappingTypeOK
  /\ crate \in Crates
  /\ phase \in Phases
  /\ items \in Seq(Item)
  /\ adt_items \in Seq(DefIds)
  /\ fn_items \in Seq(DefIds)
  /\ specs \in [DefIds -> [SpecTypes -> Seq(DefIds)]]
  /\ stubs \subseteq DefIds
  /\ todo \in Seq(Op)
  /\ DOMAIN dcx \subseteq HirIds
  /\ \A h \in DOMAIN dcx : dcx[h] \in SymbolId
  /\ fd \in FunDef \cup {NoFunction}
  /\ adts \subseteq SymbolId
  /\ function_refs \subseteq DefIds
  /\ DOMAIN functions \subseteq SymbolId
  /\ \A id \in DOMAIN functions : functions[id] \in FunDef
  /\ errors \in BOOLEAN
  /\ panicked \in Panics

Init ==
  /\ MappingInit
  /\ crate \in Crates
  /\ phase = "discover"
  /\ items = crate.items
  /\ adt_items = <<>>
  /\ fn_items = <<>>
  /\ specs = [d \in DefIds |-> NoSpecs]
  /\ stubs = {}
  /\ todo = <<>>
  /\ dcx = [h \in {} |-> h]
  /\ fd = NoFunction
  /\ adts = {}
  /\ function_refs = {}
  /\ functions = [id \in {} |-> id]
  /\ errors = FALSE
  /\ panicked = "none"
----------------------------------------------------------------------------
(* Discovery: ItemVisitor.                                                  *)

IsSpecFn(g) == crate.spec_type[g] # "none"

FileSpecOverwriting(g) ==     \* mutant: insert instead of or_insert + push
  IF IsSpecFn(g) /\ crate.spec_of[g] # NoDef
    THEN [specs EXCEPT ![crate.spec_of[g]] =
            [NoSpecs EXCEPT ![crate.spec_type[g]] = <<g>>]]
    ELSE specs

(* A spec function is filed under the function it specifies; one whose      *)
(* function does not exist is dropped.                                      *)
FileSpec(g) ==
  IF IsSpecFn(g) /\ crate.spec_of[g] # NoDef
    THEN [specs EXCEPT ![crate.spec_of[g]][crate.spec_type[g]] = Append(@, g)]
    ELSE specs

Discover(kind) ==
  /\ phase = "discover"
  /\ items # <<>>
  /\ Head(items).kind = kind
  /\ UNCHANGED <<mapping_vars, crate, phase, stubs, todo, dcx, fd, output_vars, panicked>>

VisitAdt ==
  /\ Discover("adt")
  /\ \E a \in Head(items).defs : adt_items' = Append(adt_items, a)
  /\ items' = Tail(items)
  /\ UNCHANGED <<fn_items, specs, errors>>

(* A function, or one of those of an impl block, which go through a HashMap *)
(* keyed by name and so come out in any order.                              *)
VisitFn ==
  /\ Discover("fns")
  /\ \E g \in Head(items).defs :
       /\ fn_items' = IF IsSpecFn(g) THEN fn_items ELSE Append(fn_items, g)
       /\ specs' = FileSpec(g)
       /\ items' = <<[Head(items) EXCEPT !.defs = @ \ {g}]>> \o Tail(items)
  /\ UNCHANGED <<adt_items, errors>>

VisitedFns ==
  /\ Discover("fns")
  /\ Head(items).defs = {}
  /\ items' = Tail(items)
  /\ UNCHANGED <<adt_items, fn_items, specs, errors>>

(* A trait, a constant, a module...: reported, and discovery goes on.       *)
VisitOther ==
  /\ Discover("other")
  /\ errors' = TRUE
  /\ items' = Tail(items)
  /\ UNCHANGED <<adt_items, fn_items, specs>>

DiscoveryDone ==
  /\ phase = "discover"
  /\ items = <<>>
  /\ phase' = "adts"
  /\ UNCHANGED <<mapping_vars, crate, discovery_vars, stubs, todo, dcx, fd,
                 output_vars, errors, panicked>>

----------------------------------------------------------------------------
(* The traversal: one action per kind of operation on top of the stack.     *)

Ops(kind, args) == [i \in DOMAIN args |-> [op |-> kind, arg |-> args[i]]]
One(kind, arg) == <<[op |-> kind, arg |-> arg]>>

IsRegistered(d) == d \in DOMAIN did_to_stid

(* extract_generics: type parameters, then the Fn* bounds.                  *)
GenericsOps(d) == Ops("reg", crate.tparams[d]) \o Ops("type", crate.bounds[d])

(* extract_adt once its identifier exists: generics, then each variant.     *)
AdtOps(a) ==
  GenericsOps(a) \o Ops("variant", crate.variants[a]) \o One("sort", a)

(* BindingsCollector: extract_binding on the bindings in the parameters,    *)
(* then on those of the body.                                               *)
Collected(g) == Ops("bind", crate.params[g]) \o Ops("bind", crate.locals[g])

(* populate_def_context: the parameters have their turn before that.        *)
BindingOps(g) == Ops("bind", crate.params[g]) \o Collected(g)

(* Does the operation ask for a fresh identifier?                           *)
NeedsId(o) ==
  \/ o.op \in {"reg", "type", "variant", "field", "call", "emit", "stub"}
       /\ ~IsRegistered(o.arg)
  \/ o.op = "adt" /\ (IsRegistered(o.arg) => did_to_stid[o.arg] \notin adts)
  \/ o.op = "bind" /\ o.arg \notin DOMAIN dcx /\ o.arg \notin crate.complex
  \/ o.op \in {"ret", "input"}

SharedParamsAll(s) == crate.params[s]   \* mutant: the result is not popped

(* The parameters of a spec function that stand for those of the function   *)
(* specified: all of them, but for the last of a postcondition.             *)
SharedParams(s) ==
  IF crate.spec_type[s] = "post" /\ crate.params[s] # <<>>
    THEN SubSeq(crate.params[s], 1, Len(crate.params[s]) - 1)
    ELSE crate.params[s]

(* The assertion that fails when operation o is executed, "none" if none.   *)
Failure(o) ==
  CASE NeedsId(o) /\ ~CounterLeft -> "overflow"
    [] o.op = "adt" /\ IsRegistered(o.arg) /\ NeedsId(o) -> "register_def"
    [] o.op = "addAdt" /\ did_to_stid[o.arg] \in adts -> "add_adt"
    [] o.op \in {"call", "emit", "stub"} /\ NeedsId(o) /\ o.arg \in function_refs
         -> "add_function_ref"
    [] o.op \in {"emit", "stub"} /\ IsRegistered(o.arg)
         /\ did_to_stid[o.arg] \in DOMAIN functions -> "add_function"
    [] o.op = "bind" /\ o.arg \notin DOMAIN dcx /\ o.arg \in crate.complex
         -> "complex_pattern"
    [] o.op = "bind" /\ NeedsId(o) /\ o.arg \in DOMAIN hid_to_stid -> "register_hir"
    [] o.op \in {"param", "var"} /\ o.arg \notin DOMAIN dcx -> "unregistered_variable"
    [] o.op = "spec" /\ crate.parent[o.arg] # crate.parent[fd.def] -> "generics_parent"
    [] o.op = "spec" /\ (\/ Len(SharedParams(o.arg)) # Len(fd.params)
                         \/ crate.spec_type[o.arg] = "post" /\ crate.params[o.arg] = <<>>)
         -> "params_mismatch"
    [] OTHER -> "none"

(* Executes the operation on top, of this kind, replacing it by `ops'.      *)
Execute(kind) ==
  /\ todo # <<>>
  /\ Head(todo).op = kind
  /\ Failure(Head(todo)) = "none"
  /\ UNCHANGED <<crate, phase, discovery_vars, stubs, panicked>>

Continue(ops) == todo' = ops \o Tail(todo)

(* A failed assertion (or overflow) unwinds the whole extraction.           *)
Panic ==
  /\ todo # <<>>
  /\ Failure(Head(todo)) # "none"
  /\ panicked' = Failure(Head(todo))
  /\ UNCHANGED <<mapping_vars, crate, phase, discovery_vars, stubs, todo, dcx,
                 fd, output_vars, errors>>

GetOrRegisterAgain(d) ==      \* mutant: registers again what is known
  /\ Advance(StName(d))
  /\ did_to_stid' = Insert(did_to_stid, d, FreshId(StName(d)))
  /\ UNCHANGED <<hid_to_stid, fresh_vars>>

(* get_or_register_def.                                                     *)
GetOrRegister(d) == IF IsRegistered(d) THEN UNCHANGED mapping_vars ELSE RegisterDef(d)

TypeParameter ==
  /\ Execute("reg")
  /\ GetOrRegister(Head(todo).arg)
  /\ Continue(<<>>)
  /\ UNCHANGED <<dcx, fd, output_vars, errors>>

(* Mutants of MentionType: the identifier is made after the traversal; the  *)
(* known case is forgotten.                                                 *)
MentionTypeLate ==
  /\ Execute("type")
  /\ Continue(IF IsRegistered(Head(todo).arg) THEN <<>>
                ELSE AdtOps(Head(todo).arg) \o One("reg", Head(todo).arg))
  /\ UNCHANGED <<mapping_vars, dcx, fd, output_vars, errors>>
MentionTypeNewOnly ==
  /\ Execute("type")
  /\ ~IsRegistered(Head(todo).arg)
  /\ RegisterDef(Head(todo).arg)
  /\ Continue(AdtOps(Head(todo).arg))
  /\ UNCHANGED <<dcx, fd, output_vars, errors>>

(* extract_adt_id: the known identifier, or that of the ADT extracted now;  *)
(* the sort that extraction returns is not kept.                            *)
MentionType ==
  /\ Execute("type")
  /\ GetOrRegister(Head(todo).arg)
  /\ Continue(IF IsRegistered(Head(todo).arg) THEN <<>> ELSE AdtOps(Head(todo).arg))
  /\ UNCHANGED <<dcx, fd, output_vars, errors>>

(* extract_adt: the known sort, or a fresh identifier and the traversal of  *)
(* the definition.  An ADT that has an identifier and no sort fails in      *)
(* register_def.                                                            *)
ExtractAdt ==
  /\ Execute("adt")
  /\ GetOrRegister(Head(todo).arg)
  /\ Continue(IF IsRegistered(Head(todo).arg) THEN <<>> ELSE AdtOps(Head(todo).arg))
  /\ UNCHANGED <<dcx, fd, output_vars, errors>>

Constructor ==
  /\ Execute("variant")
  /\ GetOrRegister(Head(todo).arg)
  /\ Continue(Ops("field", crate.fields[Head(todo).arg]))
  /\ UNCHANGED <<dcx, fd, output_vars, errors>>

Field ==
  /\ Execute("field")
  /\ GetOrRegister(Head(todo).arg)
  /\ Continue(Ops("type", crate.types[Head(todo).arg]))
  /\ UNCHANGED <<dcx, fd, output_vars, errors>>

(* extract_adt returns.                                                     *)
SortBuilt ==
  /\ Execute("sort")
  /\ Continue(<<>>)
  /\ UNCHANGED <<mapping_vars, dcx, fd, output_vars, errors>>

(* add_adt.                                                                 *)
AddAdt ==
  /\ Execute("addAdt")
  /\ adts' = adts \cup {did_to_stid[Head(todo).arg]}
  /\ Continue(<<>>)
  /\ UNCHANGED <<mapping_vars, dcx, fd, function_refs, functions, errors>>
----------------------------------------------------------------------------
(* Functions and their contracts.                                           *)

(* extract_fn_ref.                                                          *)
FnRef(g) ==
  /\ GetOrRegister(g)
  /\ function_refs' = IF IsRegistered(g) THEN function_refs ELSE function_refs \cup {g}

Call ==
  /\ Execute("call")
  /\ FnRef(Head(todo).arg)
  /\ Continue(<<>>)
  /\ UNCHANGED <<dcx, fd, adts, functions, errors>>

(* enter_body of the function itself: a new DefContext, then its bindings,  *)
(* result type, parameters and body.                                        *)
EnterBody ==
  /\ Execute("enter")
  /\ dcx' = [h \in {} |-> h]
  /\ LET g == Head(todo).arg IN
     Continue(BindingOps(g) \o Ops("type", crate.types[g])
                \o Ops("param", crate.params[g]) \o crate.body[g])
  /\ UNCHANGED <<mapping_vars, fd, output_vars, errors>>

(* extract_binding of one already in the context, and of a new one, which   *)
(* is an error if it is mutable, and goes on.                               *)
KnownBinding ==
  /\ Execute("bind")
  /\ Head(todo).arg \in DOMAIN dcx
  /\ Continue(<<>>)
  /\ UNCHANGED <<mapping_vars, dcx, fd, output_vars, errors>>

NewBinding ==
  /\ Execute("bind")
  /\ LET h == Head(todo).arg IN
     /\ h \notin DOMAIN dcx
     /\ RegisterHir(h)
     /\ dcx' = Insert(dcx, h, hid_to_stid'[h])
     /\ errors' = (errors \/ h \in crate.mutable)
     /\ Continue(Ops("type", crate.hir_types[h]))
  /\ UNCHANGED <<fd, output_vars>>

(* fetch_var for the signature, and for a use of a variable.                *)
Parameter ==
  /\ Execute("param")
  /\ fd' = [fd EXCEPT !.params = Append(@, dcx[Head(todo).arg])]
  /\ Continue(<<>>)
  /\ UNCHANGED <<mapping_vars, dcx, output_vars, errors>>

VarRef ==
  /\ Execute("var")
  /\ LET h == Head(todo).arg IN fd' = [fd EXCEPT !.vars = @ \cup {<<h, dcx[h]>>}]
  /\ Continue(<<>>)
  /\ UNCHANGED <<mapping_vars, dcx, output_vars, errors>>

(* unsupported_expr and its kin: reported, and extraction goes on.          *)
Unsupported ==
  /\ Execute("unsupported")
  /\ errors' = TRUE
  /\ Continue(<<>>)
  /\ UNCHANGED <<mapping_vars, dcx, fd, output_vars>>

SharedContextReversed(s) ==   \* mutant: the parameters in the opposite order
  LET shared == SharedParams(s)
      n == Len(shared)
  IN [h \in Range(crate.params[s]) |->
        IF h \notin Range(shared) THEN fd.ret[1]
        ELSE fd.params[n + 1 - CHOOSE i \in DOMAIN shared : shared[i] = h]]

(* The context extract_spec_fn starts from: the parameters of the spec      *)
(* function are the variables of the function specified, and the last one   *)
(* of a postcondition is its result.                                        *)
SharedContext(s) ==
  LET shared == SharedParams(s)
      ret == IF crate.spec_type[s] = "post"
               THEN {crate.params[s][Len(crate.params[s])]} ELSE {}
  IN [h \in {shared[i] : i \in DOMAIN shared} \cup ret |->
        IF h \in ret THEN fd.ret[1]
        ELSE fd.params[CHOOSE i \in DOMAIN shared : shared[i] = h]]

AttachSpec(s) ==
  CASE crate.spec_type[s] = "measure" -> [fd EXCEPT !.measure = Append(@, s)]
    [] crate.spec_type[s] = "pre" -> [fd EXCEPT !.pre = Append(@, s)]
    [] crate.spec_type[s] = "post" -> [fd EXCEPT !.post = Append(@, s)]

(* extract_spec_fn.                                                         *)
ExtractSpec ==
  /\ Execute("spec")
  /\ LET s == Head(todo).arg IN
     /\ dcx' = SharedContext(s)
     /\ fd' = AttachSpec(s)
     /\ Continue(BindingOps(s) \o crate.body[s])
  /\ UNCHANGED <<mapping_vars, output_vars, errors>>

(* The result variable, made whether or not there is a postcondition.       *)
ReturnVar ==
  /\ Execute("ret")
  /\ FreshVar(RetName)
  /\ fd' = [fd EXCEPT !.ret = <<FreshId(RetName)>>]
  /\ Continue(<<>>)
  /\ UNCHANGED <<dcx, output_vars, errors>>

(* The function is wrapped up and added, under the identifier every         *)
(* reference to it uses.                                                    *)
AddFunction(kind) ==
  /\ Execute(kind)
  /\ FnRef(Head(todo).arg)
  /\ functions' = Insert(functions, did_to_stid'[Head(todo).arg], fd)
  /\ fd' = NoFunction
  /\ Continue(<<>>)
  /\ UNCHANGED <<dcx, adts, errors>>

(* One parameter of an external stub.                                       *)
StubInput ==
  /\ Execute("input")
  /\ LET i == Head(todo).arg IN
     /\ FreshVar(ParamNames[i])
     /\ fd' = [fd EXCEPT !.params = Append(@, FreshId(ParamNames[i]))]
     /\ Continue(Ops("type", crate.inputs[fd.def][i]))
  /\ UNCHANGED <<dcx, output_vars, errors>>

----------------------------------------------------------------------------
(* process_crate: the loops over what was discovered.                       *)

Idle(p) == phase = p /\ todo = <<>>

StartAdtOnly ==               \* mutant: the sort is not added
  /\ Idle("adts")
  /\ adt_items # <<>>
  /\ adt_items' = Tail(adt_items)
  /\ todo' = One("adt", Head(adt_items))
  /\ UNCHANGED <<mapping_vars, crate, phase, items, fn_items, specs, stubs,
                 dcx, fd, output_vars, errors, panicked>>
StartAdt ==
  /\ Idle("adts")
  /\ adt_items # <<>>
  /\ adt_items' = Tail(adt_items)
  /\ todo' = One("adt", Head(adt_items)) \o One("addAdt", Head(adt_items))
  /\ UNCHANGED <<mapping_vars, crate, phase, items, fn_items, specs, stubs,
                 dcx, fd, output_vars, errors, panicked>>

AdtsDone ==
  /\ Idle("adts")
  /\ adt_items = <<>>
  /\ phase' = "functions"
  /\ UNCHANGED <<mapping_vars, crate, discovery_vars, stubs, todo, dcx, fd,
                 output_vars, errors, panicked>>

FirstOf(s) == IF s = <<>> THEN <<>> ELSE <<Head(s)>>

(* extract_local_fn: generics, the body, the first measure, the             *)
(* preconditions, the result variable, the postconditions.                  *)
FunctionOps(g) ==
  GenericsOps(g) \o One("enter", g)
    \o Ops("spec", FirstOf(specs[g]["measure"]))
    \o Ops("spec", specs[g]["pre"])
    \o One("ret", NoDef)
    \o Ops("spec", specs[g]["post"])
    \o One("emit", g)

StartFunction ==
  /\ Idle("functions")
  /\ fn_items # <<>>
  /\ LET g == Head(fn_items) IN
     /\ errors' = (errors \/ Len(specs[g]["measure"]) > 1)
     /\ fd' = EmptyFd(g, FALSE)
     /\ todo' = FunctionOps(g)
  /\ fn_items' = Tail(fn_items)
  /\ UNCHANGED <<mapping_vars, crate, phase, items, adt_items, specs, stubs,
                 dcx, output_vars, panicked>>

FunctionsDoneNoStubs ==       \* mutant: the references are forgotten
  /\ Idle("functions")
  /\ fn_items = <<>>
  /\ phase' = "externals"
  /\ stubs' = {}
  /\ UNCHANGED <<mapping_vars, crate, discovery_vars, todo, dcx, fd,
                 output_vars, errors, panicked>>

(* External functions that were referred to get a stub each, in the order   *)
(* of a HashSet.                                                            *)
FunctionsDone ==
  /\ Idle("functions")
  /\ fn_items = <<>>
  /\ phase' = "externals"
  /\ stubs' = function_refs \cap crate.external
  /\ UNCHANGED <<mapping_vars, crate, discovery_vars, todo, dcx, fd,
                 output_vars, errors, panicked>>

(* extract_extern_fn: generics, inputs, result type, no body.               *)
StubOps(g) ==
  GenericsOps(g) \o [i \in DOMAIN crate.inputs[g] |-> [op |-> "input", arg |-> i]]
    \o Ops("type", crate.types[g]) \o One("stub", g)

StartStub ==
  /\ Idle("externals")
  /\ \E g \in stubs :
       /\ stubs' = stubs \ {g}
       /\ fd' = EmptyFd(g, TRUE)
       /\ todo' = StubOps(g)
  /\ UNCHANGED <<mapping_vars, crate, phase, discovery_vars, dcx, output_vars,
                 errors, panicked>>

StubsDone ==
  /\ Idle("externals")
  /\ stubs = {}
  /\ phase' = "done"
  /\ UNCHANGED <<mapping_vars, crate, discovery_vars, stubs, todo, dcx, fd,
                 output_vars, errors, panicked>>

Discovery == VisitAdt \/ VisitFn \/ VisitedFns \/ VisitOther \/ DiscoveryDone
Loops == \/ StartAdt \/ AdtsDone \/ StartFunction \/ FunctionsDone
         \/ StartStub \/ StubsDone
Traversal ==
  \/ TypeParameter \/ MentionType \/ ExtractAdt \/ Constructor \/ Field
  \/ SortBuilt \/ AddAdt \/ Call \/ EnterBody \/ KnownBinding \/ NewBinding
  \/ Parameter \/ VarRef \/ Unsupported \/ ExtractSpec \/ ReturnVar
  \/ AddFunction("emit") \/ AddFunction("stub") \/ StubInput \/ Panic

Next == panicked = "none" /\ (Discovery \/ Loops \/ Traversal)

Spec == Init /\ [][Next]_vars

(* Extraction is one thread of the compiler: it runs on until it is over.   *)
FairSpec == Spec /\ WF_vars(Next)

----------------------------------------------------------------------------
(* Correctness.                                                             *)

Over == phase = "done" \/ panicked # "none"

(* Every ADT defined in the crate mentions only itself, ADTs that come      *)
(* before it in the crate, and ADTs of other crates.                        *)
BackwardTypes(c) ==
  \A i \in DOMAIN c.items : c.items[i].kind = "adt" =>
    \A a \in c.items[i].defs : \A b \in Mentions(c, a) :
      b \in c.external \/ \E j \in 1 .. i : c.items[j].kind = "adt" /\ b \in c.items[j].defs

(* ADTs of other crates are mentioned, never constructed, matched on or     *)
(* selected from.                                                           *)
NoExternalValues(c) ==
  \A g \in UserFns(c) \cup SpecFns(c) : \A o \in Range(c.body[g]) :
    o.op = "adt" => o.arg \notin c.external

(* Spec functions have the generics and the parameters of the function they *)
(* specify, and a result if they are a postcondition; parameters are plain  *)
(* bindings.                                                                *)
MatchingSpecs(c) ==
  \A s \in SpecFns(c) : c.spec_of[s] \in UserFns(c) =>
    /\ c.parent[s] = c.parent[c.spec_of[s]]
    /\ Len(c.params[s]) =
         Len(c.params[c.spec_of[s]]) + IF c.spec_type[s] = "post" THEN 1 ELSE 0
SimpleParams(c) == \A g \in UserFns(c) : Range(c.params[g]) \cap c.complex = {}

Supported(c) ==
  BackwardTypes(c) /\ NoExternalValues(c) /\ MatchingSpecs(c) /\ SimpleParams(c)

(* No assertion of the extractor fails on a crate of the supported shape,   *)
(* in whatever order its items, impl blocks and stubs are gone through.     *)
SupportedNeverPanics == Supported(crate) => panicked \in {"none", "overflow"}

(* extract_adt never re-enters an ADT it is already extracting: recursive   *)
(* and mutually recursive types do not overflow the stack.                  *)
NoReentry ==
  \A i, j \in DOMAIN todo :
    todo[i].op = "sort" /\ todo[i] = todo[j] => i = j

(* The functions of the result are exactly those of the crate that are no   *)
(* specs and stubs of the external ones referred to, each under the         *)
(* identifier its callers use; no call is left dangling.                    *)
FunctionsClosed ==
  phase = "done" =>
    /\ {functions[id].def : id \in DOMAIN functions}
         = UserFns(crate) \cup (function_refs \cap crate.external)
    /\ \A id \in DOMAIN functions :
         /\ id = did_to_stid[functions[id].def]
         /\ functions[id].extern <=> functions[id].def \in crate.external
    /\ \A g \in function_refs : did_to_stid[g] \in DOMAIN functions

(* Every ADT of the crate ends up as a sort under the identifier that       *)
(* mentions of it use.                                                      *)
SortsComplete ==
  phase = "done" => adts = {did_to_stid[a] : a \in LocalAdts(crate)}

(* If no error was reported, every spec function of a function of the crate *)
(* has become part of its contract, once, in the place of its type.         *)
SpecsAttached ==
  phase = "done" /\ ~errors =>
    \A s \in SpecFns(crate) : crate.spec_of[s] \in UserFns(crate) =>
      LET f == functions[did_to_stid[crate.spec_of[s]]]
          place == CASE crate.spec_type[s] = "measure" -> f.measure
                     [] crate.spec_type[s] = "pre" -> f.pre
                     [] crate.spec_type[s] = "post" -> f.post
      IN Cardinality({i \in DOMAIN place : place[i] = s}) = 1

(* The spec functions that have become part of a function.                  *)
OwnSpecs(f) == Range(f.measure) \cup Range(f.pre) \cup Range(f.post)
(* The parameters of a function of the crate are the variables of its       *)
(* parameter patterns, in their order.                                      *)
OwnParameters(f) ==
  /\ DOMAIN f.params = DOMAIN crate.params[f.def]
  /\ \A i \in DOMAIN f.params :
       /\ crate.params[f.def][i] \in DOMAIN hid_to_stid
       /\ f.params[i] = hid_to_stid[crate.params[f.def][i]]

(* What the parameters of a spec function stand for: the parameters in the  *)
(* same position, and the result for the last one of a postcondition.       *)
Shared(c, s, f) ==
  {<<c.params[s][i], f.params[i]>> : i \in DOMAIN c.params[s] \cap DOMAIN f.params}
Returned(c, s, f) == {<<c.params[s][Len(c.params[s])], r>> : r \in Range(f.ret)}

(* What may be mentioned in a function or its contract: its own parameters  *)
(* and bindings and those of its spec functions, under the identifier they  *)
(* were registered with, and what a spec function shares with it.           *)
Bound(f) ==
  Range(crate.params[f.def])
    \cup UNION {Range(crate.locals[g]) : g \in {f.def} \cup OwnSpecs(f)}
Owned(f) == {<<h, hid_to_stid[h]>> : h \in Bound(f) \cap DOMAIN hid_to_stid}
Scope(f) ==
  Owned(f)
    \cup (UNION {Shared(crate, s, f) : s \in OwnSpecs(f)})
    \cup (UNION {Returned(crate, s, f) : s \in Range(f.post)})

(* Contracts talk about the variables of the function they specify: its     *)
(* parameters, each by its position, and its result; and neither they nor   *)
(* the body mention another variable but for their own bindings.            *)
VariablesInScope ==
  \A id \in DOMAIN functions :
    LET f == functions[id]
    IN (~f.extern => OwnParameters(f)) /\ f.vars \subseteq Scope(f)

(* The assertion of register_def: nothing is registered a second time.      *)
RegisteredOnce == panicked # "register_def"

(* The assertion of extract_spec_fn: a spec function has the generics of    *)
(* the function it specifies.                                               *)
SpecGenericsMatch == panicked # "generics_parent"

(* Extraction ends, whatever the types refer to.                            *)
Termination == <>Over

(* All identifiers come from the mapping, used the way it is meant to be.   *)
UsesMapping == MappingSpec
=============================================================================
