-------------------------- MODULE SupportedProofs --------------------------
(***************************************************************************)
(* Proofs about Extraction, for any crates: on a crate of the supported     *)
(* shape no assertion of the extractor fails, whatever the order of items,  *)
(* impl blocks and stubs.                                                   *)
(***************************************************************************)
EXTENDS ExtractionProofs

----------------------------------------------------------------------------
(* Types.  While the ADTs of the crate are extracted, an ADT of the crate   *)
(* is only mentioned when it has an identifier, ...                         *)
Settled(b) == b \in crate.external \/ IsRegistered(b)
FieldSettled(x) ==
  x \notin LocalAdts(crate) /\ \A b \in Range(crate.types[x]) : Settled(b)
VariantSettled(v) ==
  /\ v \in LocalAdts(crate) => IsRegistered(v)
  /\ \A x \in Range(crate.fields[v]) : FieldSettled(x)
TypeOp(o) ==
  /\ o.op \in {"reg", "type", "adt", "variant", "field", "sort", "addAdt"}
  /\ o.op = "reg" => o.arg \notin LocalAdts(crate)
  /\ o.op = "type" => Settled(o.arg)
  /\ o.op = "variant" => VariantSettled(o.arg)
  /\ o.op = "field" => FieldSettled(o.arg)

(* ... and is gone into from the loop over the ADTs found, before it has    *)
(* one, when those it mentions do.                                          *)
AdtReady(a) ==
  /\ a \in LocalAdts(crate) /\ ~IsRegistered(a)
  /\ \A b \in Mentions(crate, a) : Settled(b) \/ b = a
TypesBackward ==
  phase = "adts" =>
    \A i \in DOMAIN todo :
      /\ TypeOp(todo[i])
      /\ todo[i].op = "adt" => i = 1 /\ AdtReady(todo[i].arg)
      /\ todo[i].op = "addAdt" => i = Len(todo)

(* The ADTs yet to be gone into have no identifier, are found once, and     *)
(* mention those before them.                                               *)
AdtsNew ==
  /\ \A a : ToVisit("adt", a) \/ Waiting(adt_items, a) =>
       ~IsRegistered(a) /\ ~Pending("adt", a)
  /\ \A a : ToVisit("adt", a) => ~Waiting(adt_items, a)
  /\ \A i, j \in DOMAIN adt_items : adt_items[i] = adt_items[j] => i = j
Claimed(b) == Settled(b) \/ Pending("adt", b)
ItemsBackward ==
  \A i \in DOMAIN items : items[i].kind = "adt" =>
    \A a \in items[i].defs : \A b \in Mentions(crate, a) :
      \/ Claimed(b) \/ Waiting(adt_items, b)
      \/ \E j \in DOMAIN items : j <= i /\ items[j].kind = "adt" /\ b \in items[j].defs
AdtsBackward ==
  \A i \in DOMAIN adt_items : \A b \in Mentions(crate, adt_items[i]) :
    Claimed(b) \/ \E j \in DOMAIN adt_items : j <= i /\ adt_items[j] = b

(* An ADT is added once; later, ADTs constructed and matched on are sorts.  *)
AdtsOnce == \A a : Pending("addAdt", a) => ~IsSort(a)
ValuesLocal ==
  phase \in {"functions", "externals", "done"} =>
    \A a : Pending("adt", a) => a \in LocalAdts(crate)

AdtsOK == /\ TypesBackward /\ AdtsNew /\ ItemsBackward /\ AdtsBackward
          /\ AdtsOnce /\ ValuesLocal

----------------------------------------------------------------------------
(* Functions.  Each is found once and added once.                           *)
FunctionsOnce ==
  /\ \A i, j \in DOMAIN fn_items : fn_items[i] = fn_items[j] => i = j
  /\ \A g : ToVisit("fns", g) => ~Waiting(fn_items, g)
  /\ \A g : ToVisit("fns", g) \/ Waiting(fn_items, g) =>
       ~Pending("emit", g) /\ ~Added(g)
  /\ \A g : Pending("emit", g) \/ Pending("stub", g) => ~Added(g)
  /\ \A g \in stubs : ~Pending("stub", g) /\ ~Added(g)
  /\ phase \in {"discover", "adts", "functions"} =>
       /\ \A g : ~Pending("stub", g)
       /\ \A id \in DOMAIN functions : ~functions[id].extern

----------------------------------------------------------------------------
(* Bindings.  Those of a function or spec function that was not begun have  *)
(* no identifier; one that is extracted is in the context, or is new.       *)
Own(g) == Range(crate.params[g]) \cup Range(crate.locals[g])
NotBegun(g) ==
  \/ Waiting(fn_items, g) \/ Pending("enter", g) \/ Pending("spec", g)
  \/ g \in SpecFns(crate) /\ Waiting(fn_items, crate.spec_of[g])
BindingNew(h) ==
  /\ h \notin DOMAIN hid_to_stid /\ h \notin crate.complex
  /\ \A g \in UserFns(crate) \cup SpecFns(crate) : NotBegun(g) => h \notin Own(g)
BindingsNew ==
  /\ phase = "discover" => DOMAIN hid_to_stid = {}
  /\ \A g \in UserFns(crate) \cup SpecFns(crate) :
       NotBegun(g) => Own(g) \cap DOMAIN hid_to_stid = {}
  /\ \A h : Pending("bind", h) => h \in DOMAIN dcx \/ BindingNew(h)

(* A variable that is used is in the context, or will be.                   *)
VariablesBound ==
  \A h : Pending("param", h) \/ Pending("var", h) =>
    h \in DOMAIN dcx \/ Pending("bind", h)

(* Spec functions are extracted once, with the function they specify, whose *)
(* body comes first, ...                                                    *)
SpecsApart ==
  /\ \A i, j \in DOMAIN todo :
       /\ todo[i].op \in {"enter", "spec"} /\ todo[i] = todo[j] => i = j
       /\ todo[i].op = "enter" /\ todo[j].op = "spec" => i < j
  /\ \A s : Pending("spec", s) => crate.spec_of[s] = fd.def /\ fd.def \in UserFns(crate)
  /\ \A i \in DOMAIN todo :
       todo[i].op \in {"enter", "spec", "emit"} => ~Waiting(fn_items, fd.def)
  /\ \A g \in DefIds, t \in SpecTypes : \A i \in DOMAIN specs[g][t] :
       crate.spec_of[specs[g][t][i]] = g

(* ... once its parameters are there: those that are not yet are next to    *)
(* each other on the stack.                                                 *)
ParametersAhead ==
  (\E s : Pending("spec", s)) =>
    /\ NonePending({"input"})
    /\ IF Pending("enter", fd.def) THEN fd.params = <<>> /\ NonePending({"param"})
       ELSE \E k \in Int : ParamsFrom(k)

ContractsOK == BindingsNew /\ VariablesBound /\ SpecsApart /\ ParametersAhead

SupportedOK == AdtsOK /\ FunctionsOnce /\ ContractsOK
SupportedInv ==
  AttachInv /\ (Supported(crate) => SupportedOK /\ panicked \in {"none", "overflow"})
----------------------------------------------------------------------------
(* The traversal, but for entering bodies.                                  *)

(* What it puts on the stack: types to go into, no calls and no bindings.   *)
PlainKinds == {"reg", "type", "variant", "field", "sort"}
Plain(ops) == ops \in Seq(Op) /\ \A i \in DOMAIN ops : ops[i].op \in PlainKinds

(* Concatenations of such operations (extract_adt)                          *)
LEMMA PlainConcat ==
  ASSUME NEW s, NEW t, Plain(s), Plain(t)
  PROVE  Plain(s \o t)
<1>1. s \in Seq(Op) /\ t \in Seq(Op)
  BY DEF Plain
<1>2. /\ s \o t \in Seq(Op)
      /\ \A i \in DOMAIN (s \o t) :
           \/ i \in DOMAIN s /\ (s \o t)[i] = s[i]
           \/ i - Len(s) \in DOMAIN t /\ (s \o t)[i] = t[i - Len(s)]
  BY <1>1, ConcatFrom
<1> QED
  BY <1>2 DEF Plain

(* and the operations on several definitions are such operations, ...       *)
LEMMA PlainDefs ==
  ASSUME NEW kind \in PlainKinds, NEW args \in Seq(DefIds)
  PROVE  Plain(Ops(kind, args))
<1>1. kind \in DefOps
  BY DEF PlainKinds, DefOps
<1>2. /\ Ops(kind, args) \in Seq(Op) /\ DOMAIN Ops(kind, args) = DOMAIN args
      /\ \A i \in DOMAIN args : Ops(kind, args)[i].op = kind
  BY <1>1, DefOpsType
<1> QED
  BY <1>2 DEF Plain

(* ... and so are those of extract_generics and extract_adt.                *)
LEMMA PlainAdt ==
  ASSUME crate \in Crates, NEW d \in DefIds
  PROVE  Plain(GenericsOps(d)) /\ Plain(AdtOps(d)) /\ Plain(<<>>)
<1>1. /\ Plain(Ops("reg", crate.tparams[d])) /\ Plain(Ops("type", crate.bounds[d]))
      /\ Plain(Ops("variant", crate.variants[d]))
  BY CrateTypes, PlainDefs DEF PlainKinds
<1>2. Plain(One("sort", d))
  BY OneType DEF Plain, PlainKinds, DefOps
<1>3. Plain(GenericsOps(d))
  BY <1>1, PlainConcat DEF GenericsOps
<1>4. Plain(GenericsOps(d) \o Ops("variant", crate.variants[d]))
  BY <1>1, <1>3, PlainConcat
<1>5. Plain(AdtOps(d))
  BY <1>2, <1>4, PlainConcat DEF AdtOps
<1> QED
  BY <1>3, <1>5 DEF Plain

(* One operation that enters no body.                                       *)
LEMMA TraversalPlain ==
  ASSUME ExtractionInv, Traversal, ~Panic, ~EnterBody, ~ExtractSpec
  PROVE  todo # <<>> /\ \E ops : Plain(ops) /\ Continue(ops)
<1>1. todo # <<>>
  BY DEF Traversal, TypeParameter, MentionType, ExtractAdt, Constructor, Field, SortBuilt,
    AddAdt, Call, KnownBinding, NewBinding, Parameter, VarRef, Unsupported,
    ReturnVar, AddFunction, StubInput, Execute
<1>2. crate \in Crates
  BY DEF ExtractionInv, TypeOK
<1>3. Plain(<<>>)
  BY DEF Plain
<1>4. CASE \/ TypeParameter \/ SortBuilt \/ AddAdt \/ Call \/ KnownBinding
           \/ Parameter \/ VarRef \/ Unsupported \/ ReturnVar
           \/ AddFunction("emit") \/ AddFunction("stub")
  <2>1. Continue(<<>>)
    BY <1>4 DEF TypeParameter, SortBuilt, AddAdt, Call, KnownBinding, Parameter, VarRef,
      Unsupported, ReturnVar, AddFunction
  <2> QED
    BY <1>1, <1>3, <2>1
<1>5. CASE MentionType \/ ExtractAdt
  <2>1. PICK a : a = Head(todo).arg
    OBVIOUS
  <2>2. a \in DefIds /\ Continue(IF IsRegistered(a) THEN <<>> ELSE AdtOps(a))
    BY <1>2, <1>5, <2>1, TopArg DEF MentionType, ExtractAdt, DefOps
  <2>3. Plain(AdtOps(a))
    BY <1>2, <2>2, PlainAdt
  <2> QED
    BY <1>1, <1>3, <2>2, <2>3
<1>6. CASE Constructor
  <2>1. PICK d, ops : d = Head(todo).arg /\ ops = Ops("field", crate.fields[d])
    OBVIOUS
  <2>2. d \in DefIds /\ Continue(ops)
    BY <1>2, <1>6, <2>1, TopArg DEF Constructor, DefOps
  <2>3. Plain(ops)
    BY <1>2, <2>1, <2>2, CrateTypes, PlainDefs DEF PlainKinds
  <2> QED
    BY <1>1, <2>2, <2>3
<1>7. CASE Field
  <2>1. PICK d, ops : d = Head(todo).arg /\ ops = Ops("type", crate.types[d])
    OBVIOUS
  <2>2. d \in DefIds /\ Continue(ops)
    BY <1>2, <1>7, <2>1, TopArg DEF Field, DefOps
  <2>3. Plain(ops)
    BY <1>2, <2>1, <2>2, CrateTypes, PlainDefs DEF PlainKinds
  <2> QED
    BY <1>1, <2>2, <2>3
<1>8. CASE NewBinding
  <2>1. PICK h, ops : h = Head(todo).arg /\ ops = Ops("type", crate.hir_types[h])
    OBVIOUS
  <2>2. h \in HirIds /\ Continue(ops)
    BY <1>2, <1>8, <2>1, TopArg DEF NewBinding, HirOps
  <2>3. Plain(ops)
    BY <1>2, <2>1, <2>2, BindingTypes, PlainDefs DEF PlainKinds
  <2> QED
    BY <1>1, <2>2, <2>3
<1>9. CASE StubInput
  <2>1. PICK i, ops : i = Head(todo).arg /\ ops = Ops("type", crate.inputs[fd.def][i])
    OBVIOUS
  <2>2. Continue(ops) /\ Execute("input") /\ fd \in FunDef
    BY <1>2, <1>9, <2>1, TopArg DEF StubInput, FnOps
  <2>3. i \in DOMAIN crate.inputs[fd.def]
    BY <1>2, <2>1, <2>2, TopOfStack DEF Execute, ExtractionInv, StackOK, InputsInRange
  <2>4. crate.inputs[fd.def] \in Seq(Seq(DefIds))
    BY <1>2, <2>2, CrateTypes, FunDefType
  <2>5. crate.inputs[fd.def][i] \in Seq(DefIds)
    BY <2>3, <2>4, LenProperties
  <2>6. Plain(ops)
    BY <2>1, <2>5, PlainDefs DEF PlainKinds
  <2> QED
    BY <1>1, <2>2, <2>6
<1> QED
  BY <1>4, <1>5, <1>6, <1>7, <1>8, <1>9 DEF Traversal

(* Where the operations on the stack come from, and where they go.          *)
LEMMA PlainMoves ==
  ASSUME ExtractionInv, todo # <<>>, NEW ops, Plain(ops), Continue(ops)
  PROVE  /\ \A kind : kind \notin PlainKinds =>
              \A d : Pending(kind, d)' => Pending(kind, d)
         /\ \A kind, d : Pending(kind, d) =>
              Pending(kind, d)' \/ (Head(todo).op = kind /\ Head(todo).arg = d)
         /\ \A kinds : kinds \cap PlainKinds = {} /\ NonePending(kinds) => NonePending(kinds)'
<1> DEFINE below(i) == i - Len(ops) + 1
<1>1. /\ ops \in Seq(Op) /\ todo \in Seq(Op)
      /\ 1 \in DOMAIN todo /\ Head(todo) = todo[1] /\ DOMAIN todo \subseteq Nat \ {0}
  BY LenProperties, TopOfStack DEF Plain, ExtractionInv, TypeOK
<1>2. /\ \A i \in DOMAIN todo' :
           \/ i \in DOMAIN ops /\ todo'[i] = ops[i]
           \/ below(i) \in DOMAIN todo /\ todo'[i] = todo[below(i)]
      /\ \A j \in DOMAIN todo : j >= 2 => \E i \in DOMAIN todo' : todo'[i] = todo[j]
  <2>1. /\ \A i \in DOMAIN todo' :
              \/ i \in DOMAIN ops /\ todo'[i] = ops[i]
              \/ below(i) \in DOMAIN todo /\ todo'[i] = todo[below(i)]
        /\ \A j \in DOMAIN todo : j >= 2 =>
              /\ j - 1 + Len(ops) \in DOMAIN todo'
              /\ todo'[j - 1 + Len(ops)] = todo[j]
    BY <1>1, Continued
  <2> QED
    BY <2>1
<1>3. \A i \in DOMAIN todo' : todo'[i].op \in PlainKinds \/ \E j \in DOMAIN todo : todo'[i] = todo[j]
  BY <1>2 DEF Plain
<1>4. \A kind : kind \notin PlainKinds => \A d : Pending(kind, d)' => Pending(kind, d)
  BY <1>3 DEF Pending
<1>5. \A kinds : kinds \cap PlainKinds = {} /\ NonePending(kinds) => NonePending(kinds)'
  BY <1>3 DEF NonePending
<1>6. ASSUME NEW kind, NEW d, NEW j \in DOMAIN todo, todo[j].op = kind, todo[j].arg = d
      PROVE  Pending(kind, d)' \/ (Head(todo).op = kind /\ Head(todo).arg = d)
  <2>1. CASE j = 1
    BY <1>1, <1>6, <2>1
  <2>2. CASE j >= 2
    BY <1>2, <1>6, <2>2 DEF Pending
  <2> QED
    BY <1>1, <2>1, <2>2
<1>7. \A kind, d : Pending(kind, d) =>
        Pending(kind, d)' \/ (Head(todo).op = kind /\ Head(todo).arg = d)
  BY <1>6 DEF Pending
<1> QED
  BY <1>4, <1>5, <1>7

----------------------------------------------------------------------------
(* Functions are found once and added once.                                 *)

(* The identifier of a definition stays its own, ...                        *)
LEMMA DefinitionsApartNext ==
  ASSUME UniqueGlobalIds', NEW d \in DOMAIN did_to_stid', NEW e \in DOMAIN did_to_stid',
         did_to_stid'[d] = did_to_stid'[e]
  PROVE  d = e
<1>1. PICK o, p : o = <<"def", d>> /\ p = <<"def", e>>
  OBVIOUS
<1>2. o \in Owners' /\ p \in Owners'
  BY <1>1 DEF Owners
<1>3. IdOf(o)' = did_to_stid'[d] /\ IdOf(p)' = did_to_stid'[e]
  BY <1>1 DEF IdOf
<1>4. o = p
  BY <1>2, <1>3 DEF UniqueGlobalIds
<1> QED
  BY <1>1, <1>4

(* ... so a function is not added by being registered.                      *)
LEMMA AddedBefore ==
  ASSUME CompleteInv, UniqueGlobalIds', DidKept, NEW g,
         g \in DOMAIN did_to_stid', did_to_stid'[g] \in DOMAIN functions
  PROVE  Added(g) /\ functions[did_to_stid[g]].def = g
<1>1. PICK id, d : /\ id = did_to_stid'[g] /\ d = functions[id].def
                   /\ d \in DOMAIN did_to_stid /\ id = did_to_stid[d]
  BY DEF CompleteInv, FunctionsKnown, IsRegistered
<1>2. d \in DOMAIN did_to_stid' /\ did_to_stid'[d] = did_to_stid'[g]
  BY <1>1 DEF DidKept
<1>3. d = g
  BY <1>2, DefinitionsApartNext
<1> QED
  BY <1>1, <1>3 DEF Added, IsRegistered

(* Most operations neither find nor add any.                                *)
LEMMA QuietFunctions ==
  ASSUME CompleteInv, UniqueGlobalIds', DidKept, FunctionsOnce,
         UNCHANGED <<phase, items, fn_items, stubs, functions>>,
         \A g : Pending("emit", g)' => Pending("emit", g),
         \A g : Pending("stub", g)' => Pending("stub", g)
  PROVE  FunctionsOnce'
<1>1. \A g : Added(g)' => Added(g)
  BY AddedBefore DEF Added, IsRegistered
<1>2. /\ \A kind, g : ToVisit(kind, g)' <=> ToVisit(kind, g)
      /\ \A g : Waiting(fn_items, g)' <=> Waiting(fn_items, g)
  BY DEF ToVisit, Waiting
<1> QED
  BY <1>1, <1>2 DEF FunctionsOnce

(* add_function: what it adds was pending, and nothing is pending after it. *)
LEMMA AddFunctionOnce ==
  ASSUME CompleteInv, UniqueGlobalIds', DidKept, FunctionsOnce,
         NEW kind \in {"emit", "stub"}, AddFunction(kind)
  PROVE  FunctionsOnce'
<1>1. PICK g, id : g = Head(todo).arg /\ id = did_to_stid'[g]
  OBVIOUS
<1>2. /\ ExtractionInv /\ Execute(kind) /\ todo # <<>> /\ Head(todo).op = kind
      /\ g \in DefIds /\ crate \in Crates /\ FnRef(g)
      /\ functions' = Insert(functions, id, fd) /\ Continue(<<>>)
      /\ UNCHANGED <<phase, items, fn_items, stubs>>
  BY <1>1, TopArg DEF AddFunction, Execute, CompleteInv, ExtractionInv, TypeOK, DefOps,
    discovery_vars
<1>3. Pending(kind, g)
  BY <1>1, <1>2, TopOfStack DEF Pending
<1>4. \A k, d : ~Pending(k, d)'
  <2>1. Len(todo) = 1
    BY <1>2, TopOfStack DEF ExtractionInv, StackOK, AddedLast
  <2>2. Tail(todo) \in Seq(Op) /\ Len(Tail(todo)) = 0
    BY <1>2, <2>1, HeadTailProperties DEF ExtractionInv, TypeOK
  <2>3. todo' = Tail(todo)
    <3>1. PICK rest : rest = Tail(todo)
      OBVIOUS
    <3>2. rest \in Seq(Op) /\ todo' = <<>> \o rest
      BY <1>2, <2>2, <3>1 DEF Continue
    <3> QED
      BY <3>1, <3>2, ConcatEmptySeq
  <2>4. DOMAIN todo' = {}
    BY <2>2, <2>3
  <2> QED
    BY <2>4 DEF Pending
<1>5. \A d : Added(d)' => Added(d) \/ d = g
  <2>1. ASSUME NEW d, d \in DOMAIN did_to_stid', did_to_stid'[d] \in DOMAIN functions'
        PROVE  Added(d) \/ d = g
    <3>1. CASE did_to_stid'[d] \in DOMAIN functions
      BY <2>1, <3>1, AddedBefore
    <3>2. CASE did_to_stid'[d] = id
      <4>1. g \in DOMAIN did_to_stid'
        BY <1>2, GetOrRegisterStep DEF FnRef
      <4> QED
        BY <1>1, <2>1, <3>2, <4>1, DefinitionsApartNext
    <3> QED
      BY <1>2, <2>1, <3>1, <3>2 DEF Insert
  <2> QED
    BY <2>1 DEF Added, IsRegistered
<1>6. /\ \A k, d : ToVisit(k, d)' <=> ToVisit(k, d)
      /\ \A d : Waiting(fn_items, d)' <=> Waiting(fn_items, d)
  BY <1>2 DEF ToVisit, Waiting
<1>7. /\ \A d : ToVisit("fns", d) \/ Waiting(fn_items, d) => d # g
      /\ g \notin stubs
      /\ phase \in {"discover", "adts", "functions"} => ~fd.extern
  <2>1. CASE kind = "emit"
    <3>1. g \in UserFns(crate) /\ ~fd.extern
      BY <1>3, <2>1 DEF CompleteInv, FunctionsListed
    <3>2. stubs \subseteq crate.external
      BY DEF CompleteInv, FunctionsListed, Stubbed
    <3>3. g \notin stubs
      BY <1>2, <3>1, <3>2, CrateLists
    <3> QED
      BY <1>3, <2>1, <3>1, <3>3 DEF FunctionsOnce
  <2>2. CASE kind = "stub"
    <3>1. phase \notin {"discover", "adts", "functions"} /\ g \notin stubs
      BY <1>3, <2>2 DEF FunctionsOnce
    <3>2. phase \in {"externals", "done"}
      BY <1>2, <3>1 DEF ExtractionInv, TypeOK, Phases
    <3>3. items = <<>> /\ fn_items = <<>>
      BY <3>2 DEF CompleteInv, ItemsKept, FunctionsKept
    <3> QED
      BY <3>1, <3>3 DEF ToVisit, Waiting
  <2> QED
    BY <2>1, <2>2
<1>8. \A i \in DOMAIN functions' : functions'[i] = fd \/ (i \in DOMAIN functions /\ functions'[i] = functions[i])
  BY <1>2 DEF Insert
<1> QED
  BY <1>2, <1>4, <1>5, <1>6, <1>7, <1>8 DEF FunctionsOnce

(* The traversal.                                                           *)
LEMMA TraversalOnce ==
  ASSUME CompleteInv, UniqueGlobalIds', DidKept, FunctionsOnce, Traversal
  PROVE  FunctionsOnce'
<1>1. CASE Panic
  <2>1. UNCHANGED <<phase, items, fn_items, stubs, functions, todo>>
    BY <1>1 DEF Panic, discovery_vars, output_vars
  <2> QED
    BY <2>1, QuietFunctions DEF Pending
<1>2. CASE AddFunction("emit") \/ AddFunction("stub")
  BY <1>2, AddFunctionOnce
<1>3. CASE ~Panic /\ ~AddFunction("emit") /\ ~AddFunction("stub")
  <2>1. PICK ops : todo # <<>> /\ Follows(ops) /\ Continue(ops)
    BY <1>3, TraversalFollows
  <2>2. \A kind \in Rooted : \A d : Pending(kind, d)' => Pending(kind, d)
    BY <2>1, Moves
  <2>3. UNCHANGED <<phase, items, fn_items, stubs, functions>>
    BY <1>3 DEF Traversal, TypeParameter, MentionType, ExtractAdt, Constructor, Field,
      SortBuilt, AddAdt, Call, EnterBody, KnownBinding, NewBinding, Parameter, VarRef,
      Unsupported, ExtractSpec, ReturnVar, StubInput, Execute, discovery_vars, output_vars
  <2> QED
    BY <2>2, <2>3, QuietFunctions DEF Rooted
<1> QED
  BY <1>1, <1>2, <1>3

(* ItemVisitor: a function is struck off the items when it is listed.       *)
LEMMA DiscoveryOnce ==
  ASSUME AttachInv, UniqueGlobalIds', DidKept, FunctionsOnce, Discovery
  PROVE  FunctionsOnce'
<1>1. /\ UNCHANGED <<did_to_stid, stubs, todo, functions>> /\ CompleteInv
      /\ phase = "discover" /\ phase' \in {"discover", "adts"}
  BY DEF Discovery, VisitAdt, VisitFn, VisitedFns, VisitOther, DiscoveryDone, Discover,
    mapping_vars, output_vars, discovery_vars, AttachInv
<1>2. /\ \A kind, g : Pending(kind, g)' <=> Pending(kind, g)
      /\ \A g : Added(g)' <=> Added(g)
      /\ \A kind, g : ~Pending(kind, g)
  <2>1. todo = <<>>
    BY <1>1 DEF CompleteInv, ItemsKept
  <2> QED
    BY <1>1, <2>1 DEF Pending, Added, IsRegistered
<1>3. CASE VisitAdt \/ VisitedFns \/ VisitOther \/ DiscoveryDone
  <2>1. fn_items' = fn_items /\ (items' = items \/ (items # <<>> /\ items' = Tail(items)))
    BY <1>3 DEF VisitAdt, VisitedFns, VisitOther, DiscoveryDone, Discover, discovery_vars
  <2>2. \A g : ToVisit("fns", g)' => ToVisit("fns", g)
    <3>1. CASE items' = items
      BY <3>1 DEF ToVisit
    <3>2. CASE items # <<>> /\ items' = Tail(items)
      <4>1. items \in Seq(Item)
        BY DEF AttachInv, CompleteInv, ExtractionInv, TypeOK
      <4>2. \A i \in DOMAIN Tail(items) : i + 1 \in DOMAIN items /\ Tail(items)[i] = items[i + 1]
        BY <3>2, <4>1, WaitingTail
      <4> QED
        BY <3>2, <4>2 DEF ToVisit
    <3> QED
      BY <2>1, <3>1, <3>2
  <2>3. \A g : Waiting(fn_items, g)' <=> Waiting(fn_items, g)
    BY <2>1 DEF Waiting
  <2> QED
    BY <1>1, <1>2, <2>1, <2>2, <2>3 DEF FunctionsOnce
<1>4. CASE VisitFn
  <2>1. PICK g \in Listed(crate, "fns") :
          /\ fn_items' = IF IsSpecFn(g) THEN fn_items ELSE Append(fn_items, g)
          /\ ToVisit("fns", g) /\ ~ToVisit("fns", g)'
          /\ \A d : d # g => (ToVisit("fns", d)' <=> ToVisit("fns", d))
    BY <1>4, VisitFnItems
  <2>2. ~Waiting(fn_items, g) /\ ~Added(g)
    BY <2>1 DEF FunctionsOnce
  <2>3. PICK old, longer : old = fn_items /\ longer = fn_items'
    OBVIOUS
  <2>4. /\ \A i, j \in DOMAIN longer : longer[i] = longer[j] => i = j
        /\ \A d : Waiting(longer, d) => Waiting(old, d) \/ d = g
    <3>1. CASE longer = old
      BY <2>3, <3>1 DEF FunctionsOnce
    <3>2. CASE longer = Append(old, g)
      <4>1. old \in Seq(DefIds) /\ g \in DefIds
        <5>1. crate \in Crates /\ fn_items \in Seq(DefIds)
          BY DEF AttachInv, CompleteInv, ExtractionInv, TypeOK
        <5> QED
          BY <2>3, <5>1, CrateLists
      <4>2. /\ Len(old) \in Nat /\ DOMAIN old = 1 .. Len(old)
            /\ DOMAIN longer = 1 .. Len(old) + 1 /\ longer[Len(old) + 1] = g
            /\ \A i \in 1 .. Len(old) : longer[i] = old[i]
        BY <3>2, <4>1, AppendProperties, LenProperties
      <4>3. \A i \in DOMAIN old : old[i] # g
        BY <2>2, <2>3 DEF Waiting
      <4>4. \A i, j \in DOMAIN old : old[i] = old[j] => i = j
        BY <2>3 DEF FunctionsOnce
      <4>5. \A i, j \in DOMAIN longer : longer[i] = longer[j] => i = j
        BY <4>2, <4>3, <4>4
      <4>6. \A d : Waiting(longer, d) => Waiting(old, d) \/ d = g
        BY <4>2 DEF Waiting
      <4> QED
        BY <4>5, <4>6
    <3> QED
      BY <2>1, <2>3, <3>1, <3>2
  <2>5. \A d : Waiting(fn_items, d)' => Waiting(fn_items, d) \/ d = g
    BY <2>3, <2>4 DEF Waiting
  <2>6. \A i, j \in DOMAIN fn_items' : fn_items'[i] = fn_items'[j] => i = j
    BY <2>3, <2>4
  <2> QED
    BY <1>1, <1>2, <2>1, <2>2, <2>5, <2>6 DEF FunctionsOnce
<1> QED
  BY <1>3, <1>4 DEF Discovery

(* The rest of a list without repetitions.                                  *)
LEMMA TailApart ==
  ASSUME NEW S, NEW s \in Seq(S), s # <<>>, NEW rest, rest = Tail(s),
         \A i, j \in DOMAIN s : s[i] = s[j] => i = j
  PROVE  /\ rest \in Seq(S) /\ Waiting(s, Head(s))
         /\ \A i, j \in DOMAIN rest : rest[i] = rest[j] => i = j
         /\ \A d : Waiting(rest, d) => Waiting(s, d) /\ d # Head(s)
         /\ \A d : Waiting(s, d) => Waiting(rest, d) \/ d = Head(s)
<1>1. /\ rest \in Seq(S) /\ Len(rest) = Len(s) - 1 /\ Head(s) = s[1]
      /\ \A i \in 1 .. Len(s) - 1 : rest[i] = s[i + 1]
      /\ Len(s) \in Nat \ {0} /\ DOMAIN s = 1 .. Len(s) /\ DOMAIN rest = 1 .. Len(s) - 1
  BY HeadTailProperties, LenProperties
<1>2. \A i \in DOMAIN rest : i + 1 \in DOMAIN s /\ rest[i] = s[i + 1] /\ i + 1 # 1 /\ i \in Nat
  BY <1>1
<1>3. 1 \in DOMAIN s
  BY <1>1
<1>4. \A i, j \in DOMAIN rest : rest[i] = rest[j] => i = j
  BY <1>2
<1>5. \A d : Waiting(rest, d) => Waiting(s, d) /\ d # Head(s)
  BY <1>1, <1>2, <1>3 DEF Waiting
<1>6. \A d : Waiting(s, d) => Waiting(rest, d) \/ d = Head(s)
  BY WaitingTail
<1>7. Waiting(s, Head(s))
  BY <1>1, <1>3 DEF Waiting
<1> QED
  BY <1>1, <1>4, <1>5, <1>6, <1>7

(* The loops: what they take from a list is not in it any more.             *)
LEMMA LoopsOnce ==
  ASSUME CompleteInv, UniqueGlobalIds, FunctionsOnce, Loops
  PROVE  FunctionsOnce'
<1>1. /\ UNCHANGED <<did_to_stid, crate, items, functions, function_refs>> /\ todo = <<>>
      /\ phase \in {"adts", "functions", "externals"}
  BY DEF Loops, StartAdt, AdtsDone, StartFunction, FunctionsDone, StartStub, StubsDone, Idle,
    mapping_vars, output_vars, discovery_vars
<1>2. /\ items = <<>> /\ \A kind, g : ~Pending(kind, g)
      /\ \A g : Added(g)' <=> Added(g)
      /\ \A g : ~ToVisit("fns", g)'
  BY <1>1 DEF CompleteInv, ItemsKept, Pending, Added, IsRegistered, ToVisit
<1>3. CASE StartAdt \/ AdtsDone \/ StubsDone
  <2>1. /\ UNCHANGED <<fn_items, stubs>> /\ phase' \in {"adts", "functions", "done"}
        /\ phase = "adts" \/ phase' = "done"
        /\ todo' = <<>> \/ StartAdt
    BY <1>1, <1>3 DEF StartAdt, AdtsDone, StubsDone, Idle, discovery_vars
  <2>2. \A g : ~Pending("emit", g)' /\ ~Pending("stub", g)'
    <3>1. CASE todo' = <<>>
      BY <3>1 DEF Pending
    <3>2. CASE StartAdt
      <4>1. PICK a, s, t : a = Head(adt_items) /\ s = One("adt", a) /\ t = One("addAdt", a)
        OBVIOUS
      <4>2. a \in DefIds /\ todo' = s \o t
        <5>1. adt_items \in Seq(DefIds) /\ adt_items # <<>>
          BY <3>2 DEF StartAdt, CompleteInv, ExtractionInv, TypeOK
        <5>2. a \in DefIds
          BY <4>1, <5>1, HeadTailProperties
        <5> QED
          BY <3>2, <4>1, <5>2 DEF StartAdt
      <4>3. /\ s \in Seq(Op) /\ DOMAIN s = {1} /\ s[1].op = "adt"
            /\ t \in Seq(Op) /\ DOMAIN t = {1} /\ t[1].op = "addAdt"
        BY <4>1, <4>2, OneType DEF DefOps
      <4>4. \A i \in DOMAIN todo' : \/ i \in DOMAIN s /\ todo'[i] = s[i]
                                    \/ i - Len(s) \in DOMAIN t /\ todo'[i] = t[i - Len(s)]
        <5>1. s \in Seq(Op) /\ t \in Seq(Op)
          BY <4>3
        <5>2. \A i \in DOMAIN (s \o t) :
                 \/ i \in DOMAIN s /\ (s \o t)[i] = s[i]
                 \/ i - Len(s) \in DOMAIN t /\ (s \o t)[i] = t[i - Len(s)]
          BY <5>1, ConcatFrom
        <5> QED
          BY <4>2, <5>2
      <4> QED
        BY <4>3, <4>4 DEF Pending
    <3> QED
      BY <2>1, <3>1, <3>2
  <2>3. \A g : Waiting(fn_items, g)' <=> Waiting(fn_items, g)
    BY <2>1 DEF Waiting
  <2> QED
    BY <1>1, <1>2, <2>1, <2>2, <2>3 DEF FunctionsOnce
<1>4. CASE StartFunction
  <2>1. PICK g, rest, ops : g = Head(fn_items) /\ rest = Tail(fn_items) /\ ops = FunctionOps(g)
    OBVIOUS
  <2>2. /\ fn_items # <<>> /\ fn_items' = rest /\ todo' = ops
        /\ fn_items \in Seq(DefIds) /\ UNCHANGED <<phase, stubs>>
        /\ phase = "functions"
    BY <1>4, <2>1 DEF StartFunction, Idle, CompleteInv, ExtractionInv, TypeOK
  <2>3. g \in DefIds
    BY <2>1, <2>2, HeadTailProperties
  <2>4. /\ \A i, j \in DOMAIN rest : rest[i] = rest[j] => i = j
        /\ \A d : Waiting(rest, d) => Waiting(fn_items, d) /\ d # g
        /\ Waiting(fn_items, g)
    <3>1. \A i, j \in DOMAIN fn_items : fn_items[i] = fn_items[j] => i = j
      BY DEF FunctionsOnce
    <3> QED
      BY <2>1, <2>2, <3>1, TailApart
  <2>5. Begins(ops, g, {"stub"})
    BY <2>1, <2>3, FunctionBegins
  <2>6. /\ \A d : Pending("emit", d)' => d = g
        /\ \A d : ~Pending("stub", d)'
    BY <2>2, <2>5 DEF Pending, Begins
  <2>7. \A d : Waiting(fn_items, d)' <=> Waiting(rest, d)
    BY <2>2 DEF Waiting
  <2>8. \A d : Waiting(fn_items, d)' => d # g /\ ~Added(d)
    BY <2>4, <2>7 DEF FunctionsOnce
  <2>9. ~Added(g) /\ \A d \in stubs' : ~Added(d)
    BY <2>2, <2>4 DEF FunctionsOnce
  <2>10. \A i, j \in DOMAIN fn_items' : fn_items'[i] = fn_items'[j] => i = j
    BY <2>2, <2>4
  <2>11. \A id \in DOMAIN functions' : ~functions'[id].extern
    BY <1>1, <2>2 DEF FunctionsOnce
  <2> QED
    BY <1>2, <2>6, <2>8, <2>9, <2>10, <2>11 DEF FunctionsOnce
<1>5. CASE FunctionsDone
  <2>1. /\ fn_items' = fn_items /\ stubs' = Stubbed /\ phase' = "externals" /\ todo' = <<>>
        /\ phase = "functions"
    BY <1>1, <1>5 DEF FunctionsDone, discovery_vars, Stubbed, Idle
  <2>2. \A kind, g : ~Pending(kind, g)'
    BY <2>1 DEF Pending
  <2>3. \A g \in Stubbed : ~Added(g)
    <3>1. SUFFICES ASSUME NEW g \in Stubbed, Added(g) PROVE FALSE
      OBVIOUS
    <3>2. PICK d, id : /\ id = did_to_stid[g] /\ d = functions[id].def
                       /\ g \in DOMAIN did_to_stid /\ id \in DOMAIN functions
                       /\ d \in DOMAIN did_to_stid /\ id = did_to_stid[d]
      <4>1. g \in DOMAIN did_to_stid /\ did_to_stid[g] \in DOMAIN functions
        BY <3>1 DEF Added, IsRegistered
      <4>2. PICK id : id = did_to_stid[g]
        OBVIOUS
      <4>3. /\ functions[id].def \in DOMAIN did_to_stid
            /\ id = did_to_stid[functions[id].def]
        BY <4>1, <4>2 DEF CompleteInv, FunctionsKnown, IsRegistered
      <4> QED
        BY <4>1, <4>2, <4>3
    <3>3. d = g
      BY <3>2, DefinitionsApart
    <3>4. ~functions[id].extern
      BY <2>1, <3>2 DEF FunctionsOnce
    <3>5. d \in UserFns(crate)
      BY <3>2, <3>4 DEF CompleteInv, FunctionsKnown
    <3>6. crate \in Crates
      BY DEF CompleteInv, ExtractionInv, TypeOK
    <3> QED
      BY <3>1, <3>3, <3>5, <3>6, CrateLists DEF Stubbed
  <2>4. \A d : Waiting(fn_items, d)' <=> Waiting(fn_items, d)
    BY <2>1 DEF Waiting
  <2> QED
    BY <1>2, <2>1, <2>2, <2>3, <2>4 DEF FunctionsOnce
<1>6. CASE StartStub
  <2>1. PICK g, ops : g \in stubs /\ stubs' = stubs \ {g} /\ ops = StubOps(g) /\ todo' = ops
    BY <1>6 DEF StartStub
  <2>2. /\ UNCHANGED <<phase, fn_items>> /\ g \in DefIds
        /\ phase = "externals"
    BY <1>6, <2>1 DEF StartStub, discovery_vars, Idle, CompleteInv, ExtractionInv, TypeOK
  <2>3. Begins(ops, g, {"enter", "spec", "emit"})
    BY <2>1, <2>2, StubBegins
  <2>4. /\ \A d : ~Pending("emit", d)'
        /\ \A d : Pending("stub", d)' => d = g
    BY <2>1, <2>3 DEF Pending, Begins
  <2>5. \A d : Waiting(fn_items, d)' <=> Waiting(fn_items, d)
    BY <2>2 DEF Waiting
  <2> QED
    BY <1>2, <2>1, <2>2, <2>4, <2>5 DEF FunctionsOnce
<1> QED
  BY <1>3, <1>4, <1>5, <1>6 DEF Loops

(* Functions stay found once and added once.                                *)
LEMMA FunctionsOnceStep ==
  ASSUME AttachInv, UniqueGlobalIds, UniqueGlobalIds', DidKept, FunctionsOnce, Next
  PROVE  FunctionsOnce'
<1>1. CompleteInv
  BY DEF AttachInv
<1> QED
  BY <1>1, TraversalOnce, DiscoveryOnce, LoopsOnce DEF Next

----------------------------------------------------------------------------
(* ADTs are mentioned after those they mention.                             *)

(* What is known about ADTs stays known (get_or_register_def).              *)
LEMMA SettledKept ==
  ASSUME DidKept, crate' = crate
  PROVE  /\ \A b : Settled(b) => Settled(b)'
         /\ \A x : FieldSettled(x) => FieldSettled(x)'
         /\ \A v : VariantSettled(v) => VariantSettled(v)'
         /\ \A o : TypeOp(o) => TypeOp(o)'
<1>1. \A b : Settled(b) => Settled(b)'
  BY DEF Settled, DidKept, IsRegistered
<1>2. \A x : FieldSettled(x) => FieldSettled(x)'
  BY <1>1 DEF FieldSettled
<1>3. \A v : VariantSettled(v) => VariantSettled(v)'
  BY <1>2 DEF VariantSettled, DidKept, IsRegistered
<1>4. \A o : TypeOp(o) => TypeOp(o)'
  BY <1>1, <1>2, <1>3 DEF TypeOp
<1> QED
  BY <1>1, <1>2, <1>3, <1>4

(* Operations that may be on the stack then.                                *)
TypesReady(ops) == \A i \in DOMAIN ops : TypeOp(ops[i])

(* Concatenations, ...                                                      *)
LEMMA ReadyConcat ==
  ASSUME NEW s \in Seq(Op), NEW t \in Seq(Op), TypesReady(s)', TypesReady(t)', NEW st, st = s \o t
  PROVE  TypesReady(st)' /\ st \in Seq(Op)
<1>1. /\ s \o t \in Seq(Op)
      /\ \A i \in DOMAIN (s \o t) :
           \/ i \in DOMAIN s /\ (s \o t)[i] = s[i]
           \/ i - Len(s) \in DOMAIN t /\ (s \o t)[i] = t[i - Len(s)]
  BY ConcatFrom
<1> QED
  BY <1>1 DEF TypesReady

(* ... and what extract_adt does: the identifier of the ADT is there before *)
(* its fields are gone into.                                                *)
LEMMA ReadyAdt ==
  ASSUME crate \in Crates, crate' = crate, NEW a \in DefIds,
         a \in LocalAdts(crate) => IsRegistered(a)',
         \A b \in Mentions(crate, a) : Settled(b)',
         NEW ops, ops = AdtOps(a)
  PROVE  TypesReady(ops)'
<1>1. /\ crate.tparams[a] \in Seq(DefIds) /\ crate.bounds[a] \in Seq(DefIds)
      /\ crate.variants[a] \in Seq(DefIds)
  BY CrateTypes
<1>2. WellFormed(crate)
  BY CrateLists
<1>3. \A d \in DefIds : /\ (Range(crate.tparams[d]) \cup Range(crate.fields[d])) \cap LocalAdts(crate) = {}
                        /\ Range(crate.variants[d]) \cap LocalAdts(crate) \subseteq {d}
  BY <1>2 DEF WellFormed
<1>4. PICK params, bounds, variants, sort :
        /\ params = Ops("reg", crate.tparams[a]) /\ bounds = Ops("type", crate.bounds[a])
        /\ variants = Ops("variant", crate.variants[a]) /\ sort = One("sort", a)
  OBVIOUS
<1>5. params \in Seq(Op) /\ TypesReady(params)'
  <2>1. /\ params \in Seq(Op) /\ DOMAIN params = DOMAIN crate.tparams[a]
        /\ \A i \in DOMAIN params : params[i].op = "reg" /\ params[i].arg = crate.tparams[a][i]
    BY <1>1, <1>4, DefOpsType DEF DefOps
  <2>2. \A i \in DOMAIN params : params[i].arg \notin LocalAdts(crate)
    BY <1>3, <2>1 DEF Range
  <2> QED
    BY <2>1, <2>2 DEF TypesReady, TypeOp
<1>6. bounds \in Seq(Op) /\ TypesReady(bounds)'
  <2>1. /\ bounds \in Seq(Op) /\ DOMAIN bounds = DOMAIN crate.bounds[a]
        /\ \A i \in DOMAIN bounds : bounds[i].op = "type" /\ bounds[i].arg = crate.bounds[a][i]
    BY <1>1, <1>4, DefOpsType DEF DefOps
  <2>2. \A i \in DOMAIN bounds : Settled(bounds[i].arg)'
    BY <2>1 DEF Mentions, Range
  <2> QED
    BY <2>1, <2>2 DEF TypesReady, TypeOp
<1>7. variants \in Seq(Op) /\ TypesReady(variants)'
  <2>1. /\ variants \in Seq(Op) /\ DOMAIN variants = DOMAIN crate.variants[a]
        /\ \A i \in DOMAIN variants : variants[i].op = "variant" /\ variants[i].arg = crate.variants[a][i]
    BY <1>1, <1>4, DefOpsType DEF DefOps
  <2>2. ASSUME NEW v \in Range(crate.variants[a]) PROVE VariantSettled(v)'
    <3>1. v \in DefIds
      BY <1>1, LenProperties DEF Range
    <3>2. v \in LocalAdts(crate) => IsRegistered(v)'
      BY <1>3
    <3>3. \A x \in Range(crate.fields[v]) : x \in Fields(crate, a) /\ x \notin LocalAdts(crate)
      BY <1>3, <3>1 DEF Fields
    <3>4. \A x \in Range(crate.fields[v]) : \A b \in Range(crate.types[x]) : Settled(b)'
      BY <3>3 DEF Mentions
    <3> QED
      BY <3>2, <3>3, <3>4 DEF VariantSettled, FieldSettled
  <2>3. \A i \in DOMAIN variants : VariantSettled(variants[i].arg)'
    BY <2>1, <2>2 DEF Range
  <2> QED
    BY <2>1, <2>3 DEF TypesReady, TypeOp
<1>8. sort \in Seq(Op) /\ TypesReady(sort)'
  BY <1>4, OneType DEF TypesReady, TypeOp, DefOps
<1>9. PICK generics, front : generics = params \o bounds /\ front = generics \o variants
  OBVIOUS
<1>10. generics \in Seq(Op) /\ TypesReady(generics)'
  BY <1>5, <1>6, <1>9, ReadyConcat
<1>11. front \in Seq(Op) /\ TypesReady(front)'
  BY <1>7, <1>9, <1>10, ReadyConcat
<1>12. ops = front \o sort
  BY <1>4, <1>9 DEF AdtOps, GenericsOps
<1> QED
  BY <1>8, <1>11, <1>12, ReadyConcat

(* What is said of the stack, a step later.                                 *)
LEMMA TypesNext ==
  ASSUME NEW new, new = todo',
         \A i \in DOMAIN new :
           /\ TypeOp(new[i])'
           /\ new[i].op = "adt" => i = 1 /\ AdtReady(new[i].arg)'
           /\ new[i].op = "addAdt" => i = Len(new)
  PROVE  TypesBackward'
  BY DEF TypesBackward, TypeOp, AdtReady, Settled, VariantSettled, FieldSettled, IsRegistered

(* A step of the traversal that goes into types, or into nothing.           *)
LEMMA TypesContinue ==
  ASSUME CompleteInv, CompleteInv', AdtsOK, DidKept, phase = "adts", todo # <<>>,
         NEW ops, Plain(ops), TypesReady(ops)', Continue(ops),
         UNCHANGED <<crate, phase, items, adt_items>>,
         \A d \in DOMAIN did_to_stid' : d \in LocalAdts(crate) =>
           d \in DOMAIN did_to_stid \/ (Head(todo).op = "adt" /\ d = Head(todo).arg),
         Head(todo).op = "adt" => Head(todo).arg \in DOMAIN did_to_stid'
  PROVE  TypesBackward' /\ AdtsNew' /\ ItemsBackward' /\ AdtsBackward'
<1> DEFINE below(i) == i - Len(ops) + 1
<1>1. /\ ops \in Seq(Op) /\ todo \in Seq(Op) /\ ExtractionInv
      /\ 1 \in DOMAIN todo /\ Head(todo) = todo[1] /\ Len(ops) \in Nat /\ Len(todo) \in Nat
      /\ DOMAIN todo = 1 .. Len(todo)
  BY LenProperties, TopOfStack DEF Plain, CompleteInv, ExtractionInv, TypeOK
<1>2. /\ todo' \in Seq(Op) /\ Len(todo') = Len(ops) + Len(todo) - 1
      /\ \A i \in DOMAIN todo' :
           \/ i \in DOMAIN ops /\ todo'[i] = ops[i]
           \/ below(i) \in DOMAIN todo /\ below(i) >= 2 /\ todo'[i] = todo[below(i)]
  BY <1>1, Continued
<1>3. /\ \A j \in DOMAIN todo : TypeOp(todo[j])
      /\ \A j \in DOMAIN todo : todo[j].op = "adt" => j = 1
      /\ \A j \in DOMAIN todo : todo[j].op = "addAdt" => j = Len(todo)
  BY DEF AdtsOK, TypesBackward
<1>4. ASSUME NEW i \in DOMAIN todo', NEW o, o = todo'[i]
      PROVE  TypeOp(o)' /\ o.op # "adt" /\ (o.op = "addAdt" => i = Len(todo'))
  <2>1. CASE i \in DOMAIN ops /\ o = ops[i]
    <3>1. TypeOp(o)' /\ o.op \in PlainKinds
      BY <2>1 DEF TypesReady, Plain
    <3> QED
      BY <3>1 DEF PlainKinds
  <2>2. CASE below(i) \in DOMAIN todo /\ below(i) >= 2 /\ o = todo[below(i)]
    <3>1. PICK j : j = below(i) /\ o = todo[j]
      BY <2>2
    <3>2. TypeOp(o) /\ o.op # "adt" /\ (o.op = "addAdt" => j = Len(todo))
      BY <1>3, <2>2, <3>1
    <3>3. TypeOp(o)'
      BY <3>2, SettledKept
    <3>4. i \in Nat
      BY <1>2, LenProperties
    <3>5. o.op = "addAdt" => i = Len(todo')
      BY <1>1, <1>2, <3>1, <3>2, <3>4
    <3> QED
      BY <3>2, <3>3, <3>5
  <2> QED
    BY <1>2, <1>4, <2>1, <2>2
<1>5. TypesBackward'
  <2>1. PICK new : new = todo'
    OBVIOUS
  <2>2. ASSUME NEW i \in DOMAIN new
        PROVE  TypeOp(new[i])' /\ new[i].op # "adt" /\ (new[i].op = "addAdt" => i = Len(new))
    <3>1. PICK o : o = new[i]
      OBVIOUS
    <3>2. TypeOp(o)' /\ o.op # "adt" /\ (o.op = "addAdt" => i = Len(new))
      BY <1>4, <2>1, <3>1
    <3> QED
      BY <3>1, <3>2
  <2> QED
    BY <2>1, <2>2, TypesNext
<1>6. items' = <<>> /\ items = <<>> /\ \A a : ~Pending("adt", a)'
  <2>1. \A i \in DOMAIN todo' : todo'[i].op # "adt"
    BY <1>4
  <2> QED
    BY <2>1 DEF CompleteInv, ItemsKept, Pending
<1>7. /\ \A a : Waiting(adt_items, a)' <=> Waiting(adt_items, a)
      /\ \A a : ~ToVisit("adt", a)'
  BY <1>6 DEF Waiting, ToVisit
<1>8. ASSUME NEW a, Waiting(adt_items, a), IsRegistered(a)' PROVE FALSE
  <2>1. ~IsRegistered(a) /\ ~Pending("adt", a) /\ a \in LocalAdts(crate)
    BY <1>8 DEF AdtsOK, AdtsNew, CompleteInv, SortsKept, Waiting
  <2> QED
    BY <1>1, <1>8, <2>1 DEF IsRegistered, Pending
<1>9. \A i, j \in DOMAIN adt_items' : adt_items'[i] = adt_items'[j] => i = j
  BY DEF AdtsOK, AdtsNew
<1>10. AdtsNew'
  BY <1>6, <1>7, <1>8, <1>9 DEF AdtsNew
<1>11. ASSUME NEW b, Claimed(b) PROVE Claimed(b)'
  <2>1. CASE Settled(b)
    BY <2>1, SettledKept DEF Claimed
  <2>2. CASE Pending("adt", b)
    <3>1. Head(todo).op = "adt" /\ Head(todo).arg = b
      BY <1>1, <1>3, <2>2 DEF Pending
    <3> QED
      BY <3>1 DEF Claimed, Settled, IsRegistered
  <2> QED
    BY <1>11, <2>1, <2>2 DEF Claimed
<1>12. AdtsBackward'
  BY <1>11 DEF AdtsBackward, AdtsOK
<1>13. ItemsBackward'
  BY <1>6 DEF ItemsBackward
<1> QED
  BY <1>5, <1>10, <1>12, <1>13

(* What is registered by get_or_register_def.                               *)
LEMMA RegistersOne ==
  ASSUME NEW d, GetOrRegister(d)
  PROVE  DOMAIN did_to_stid' \subseteq DOMAIN did_to_stid \cup {d}
<1>1. CASE IsRegistered(d)
  BY <1>1 DEF GetOrRegister, mapping_vars
<1>2. CASE ~IsRegistered(d)
  BY <1>2 DEF GetOrRegister, RegisterDef, Insert
<1> QED
  BY <1>1, <1>2

(* The operations of extract_adt and below.                                 *)
LEMMA TypesTraversal ==
  ASSUME CompleteInv, DidKept, AdtsOK, phase = "adts", Traversal, ~Panic
  PROVE  \E ops :
    /\ todo # <<>> /\ Plain(ops) /\ TypesReady(ops)' /\ Continue(ops)
    /\ UNCHANGED <<crate, phase, items, adt_items>>
    /\ \A d \in DOMAIN did_to_stid' : d \in LocalAdts(crate) =>
         d \in DOMAIN did_to_stid \/ (Head(todo).op = "adt" /\ d = Head(todo).arg)
    /\ Head(todo).op = "adt" => Head(todo).arg \in DOMAIN did_to_stid'
<1>1. PICK d, o : d = Head(todo).arg /\ o = Head(todo)
  OBVIOUS
<1>2. todo # <<>> /\ ExtractionInv /\ crate \in Crates
  BY DEF Traversal, TypeParameter, MentionType, ExtractAdt, Constructor, Field, SortBuilt,
    AddAdt, Call, EnterBody, KnownBinding, NewBinding, Parameter, VarRef, Unsupported,
    ExtractSpec, ReturnVar, AddFunction, StubInput, Execute, CompleteInv, ExtractionInv, TypeOK
<1>3. TypeOp(o) /\ (o.op = "adt" => AdtReady(d))
  BY <1>1, <1>2, TopOfStack DEF AdtsOK, TypesBackward
<1>4. o.op \in {"reg", "type", "adt", "variant", "field", "sort", "addAdt"}
  BY <1>3 DEF TypeOp
<1>5. \/ TypeParameter \/ MentionType \/ ExtractAdt \/ Constructor \/ Field \/ SortBuilt \/ AddAdt
  BY <1>1, <1>4 DEF Traversal, Call, EnterBody, KnownBinding, NewBinding, Parameter, VarRef,
    Unsupported, ExtractSpec, ReturnVar, AddFunction, StubInput, Execute
<1>6. UNCHANGED <<crate, phase, items, adt_items>>
  BY <1>5 DEF TypeParameter, MentionType, ExtractAdt, Constructor, Field, SortBuilt, AddAdt,
    Execute, discovery_vars
<1>7. d \in DefIds
  BY <1>1, <1>2, <1>4, TopOfStack, OpArgs DEF DefOps
<1>8. Plain(<<>>) /\ TypesReady(<<>>)'
  BY DEF Plain, TypesReady
<1>9. WellFormed(crate)
  BY <1>2, CrateLists
<1>10. CASE TypeParameter
  <2>1. GetOrRegister(d) /\ Continue(<<>>) /\ o.op = "reg"
    BY <1>1, <1>10 DEF TypeParameter, Execute
  <2>2. d \notin LocalAdts(crate)
    BY <1>1, <1>3, <2>1 DEF TypeOp
  <2> QED
    BY <1>1, <1>2, <1>6, <1>8, <2>1, <2>2, RegistersOne
<1>11. CASE SortBuilt \/ AddAdt
  <2>1. UNCHANGED did_to_stid /\ Continue(<<>>) /\ o.op # "adt"
    BY <1>1, <1>11 DEF SortBuilt, AddAdt, Execute, mapping_vars
  <2> QED
    BY <1>1, <1>2, <1>6, <1>8, <2>1
<1>12. CASE MentionType \/ ExtractAdt
  <2>1. PICK ops : ops = IF IsRegistered(d) THEN <<>> ELSE AdtOps(d)
    OBVIOUS
  <2>2. GetOrRegister(d) /\ Continue(ops) /\ o.op \in {"type", "adt"}
    BY <1>1, <1>12, <2>1 DEF MentionType, ExtractAdt, Execute
  <2>3. d \in DOMAIN did_to_stid' /\ DOMAIN did_to_stid' \subseteq DOMAIN did_to_stid \cup {d}
    BY <1>7, <2>2, GetOrRegisterStep, RegistersOne
  <2>4. Plain(ops)
    BY <1>2, <1>7, <1>8, <2>1, PlainAdt
  <2>5. o.op = "type" /\ d \in LocalAdts(crate) => d \in DOMAIN did_to_stid
    <3>1. \A i \in DOMAIN crate.items : crate.items[i].defs \cap crate.external = {}
      BY <1>9 DEF WellFormed
    <3>2. \A a \in LocalAdts(crate) : \E i \in DOMAIN crate.items : a \in crate.items[i].defs
      BY <1>2, CrateLists DEF LocalAdts
    <3>3. LocalAdts(crate) \cap crate.external = {}
      BY <3>1, <3>2
    <3> QED
      BY <1>1, <1>3, <3>3 DEF TypeOp, Settled, IsRegistered
  <2>6. TypesReady(ops)'
    <3>1. CASE IsRegistered(d)
      BY <1>8, <2>1, <3>1
    <3>2. CASE ~IsRegistered(d)
      <4>1. \A b \in Mentions(crate, d) : Settled(b) \/ b = d
        <5>1. CASE o.op = "adt"
          BY <1>3, <5>1 DEF AdtReady
        <5>2. CASE o.op = "type"
          <6>1. d \in crate.external
            BY <1>1, <1>3, <3>2, <5>2 DEF TypeOp, Settled
          <6>2. Mentions(crate, d) \subseteq crate.external
            BY <1>9, <6>1 DEF WellFormed
          <6> QED
            BY <6>2 DEF Settled
        <5> QED
          BY <2>2, <5>1, <5>2
      <4>2. \A b \in Mentions(crate, d) : Settled(b)'
        BY <1>6, <2>3, <4>1, SettledKept DEF Settled, IsRegistered
      <4>3. ops = AdtOps(d)
        BY <2>1, <3>2
      <4> QED
        BY <1>2, <1>6, <1>7, <2>3, <4>2, <4>3, ReadyAdt DEF IsRegistered
    <3> QED
      BY <3>1, <3>2
  <2> QED
    BY <1>1, <1>2, <1>6, <2>2, <2>3, <2>4, <2>5, <2>6
<1>13. CASE Constructor
  <2>1. PICK ops : ops = Ops("field", crate.fields[d])
    OBVIOUS
  <2>2. GetOrRegister(d) /\ Continue(ops) /\ o.op = "variant"
    BY <1>1, <1>13, <2>1 DEF Constructor, Execute
  <2>3. /\ ops \in Seq(Op) /\ Plain(ops) /\ DOMAIN ops = DOMAIN crate.fields[d]
        /\ \A i \in DOMAIN ops : ops[i].op = "field" /\ ops[i].arg = crate.fields[d][i]
    BY <1>2, <1>7, <2>1, CrateTypes, DefOpsType, PlainDefs DEF DefOps, PlainKinds
  <2>4. VariantSettled(d)
    BY <1>1, <1>3, <2>2 DEF TypeOp
  <2>5. \A i \in DOMAIN ops : TypeOp(ops[i])
    BY <2>3, <2>4 DEF VariantSettled, TypeOp, Range
  <2>6. TypesReady(ops)'
    BY <1>6, <2>5, SettledKept DEF TypesReady
  <2>7. d \in LocalAdts(crate) => d \in DOMAIN did_to_stid
    BY <2>4 DEF VariantSettled, IsRegistered
  <2> QED
    BY <1>1, <1>2, <1>6, <2>2, <2>3, <2>6, <2>7, RegistersOne
<1>14. CASE Field
  <2>1. PICK ops : ops = Ops("type", crate.types[d])
    OBVIOUS
  <2>2. GetOrRegister(d) /\ Continue(ops) /\ o.op = "field"
    BY <1>1, <1>14, <2>1 DEF Field, Execute
  <2>3. /\ ops \in Seq(Op) /\ Plain(ops) /\ DOMAIN ops = DOMAIN crate.types[d]
        /\ \A i \in DOMAIN ops : ops[i].op = "type" /\ ops[i].arg = crate.types[d][i]
    BY <1>2, <1>7, <2>1, CrateTypes, DefOpsType, PlainDefs DEF DefOps, PlainKinds
  <2>4. FieldSettled(d)
    BY <1>1, <1>3, <2>2 DEF TypeOp
  <2>5. \A i \in DOMAIN ops : TypeOp(ops[i])
    BY <2>3, <2>4 DEF FieldSettled, TypeOp, Range
  <2>6. TypesReady(ops)'
    BY <1>6, <2>5, SettledKept DEF TypesReady
  <2>7. d \notin LocalAdts(crate)
    BY <2>4 DEF FieldSettled
  <2> QED
    BY <1>1, <1>2, <1>6, <2>2, <2>3, <2>6, <2>7, RegistersOne
<1> QED
  BY <1>5, <1>10, <1>11, <1>12, <1>13, <1>14

(* Once the loop over ADTs is over, nothing is left to be said of types but *)
(* that values are of ADTs of the crate.                                    *)
LEMMA TypesOver ==
  ASSUME CompleteInv', phase' \in {"functions", "externals", "done"}, ValuesLocal'
  PROVE  AdtsOK'
<1>1. items' = <<>> /\ adt_items' = <<>> /\ NonePending({"addAdt"})'
  BY DEF CompleteInv, ItemsKept, SortsKept
<1>2. TypesBackward'
  BY DEF TypesBackward
<1>3. AdtsNew'
  BY <1>1 DEF AdtsNew, ToVisit, Waiting
<1>4. ItemsBackward' /\ AdtsBackward'
  BY <1>1 DEF ItemsBackward, AdtsBackward
<1>5. AdtsOnce'
  BY <1>1 DEF AdtsOnce, NonePending, Pending
<1> QED
  BY <1>2, <1>3, <1>4, <1>5 DEF AdtsOK

(* add_adt is the last thing done for an ADT, and its sort is new.          *)
LEMMA AdtsOnceKept ==
  ASSUME CompleteInv, UniqueGlobalIds', DidKept, AdtsOK, phase = "adts", todo # <<>>,
         crate' = crate, NEW ops, Plain(ops), Continue(ops),
         adts' = adts \/ Head(todo).op = "addAdt"
  PROVE  AdtsOnce'
<1>1. /\ ExtractionInv /\ todo \in Seq(Op) /\ Head(todo) = todo[1] /\ 1 \in DOMAIN todo
  BY TopOfStack DEF CompleteInv, ExtractionInv, TypeOK
<1>2. \A a : Pending("addAdt", a)' => Pending("addAdt", a)
  BY <1>1, PlainMoves DEF PlainKinds
<1>3. CASE adts' = adts
  <2>1. ASSUME NEW a, Pending("addAdt", a), IsSort(a)' PROVE FALSE
    <3>1. PICK b \in LocalAdts(crate) : IsRegistered(b) /\ did_to_stid'[a] = did_to_stid[b]
      BY <1>3, <2>1 DEF CompleteInv, SortsKept, IsSort
    <3>2. b \in DOMAIN did_to_stid' /\ did_to_stid'[b] = did_to_stid[b] /\ a \in DOMAIN did_to_stid'
      BY <2>1, <3>1 DEF DidKept, IsRegistered, IsSort
    <3>3. a = b
      BY <3>1, <3>2, DefinitionsApartNext
    <3>4. IsSort(a)
      BY <1>3, <2>1, <3>1, <3>3 DEF IsSort
    <3> QED
      BY <2>1, <3>4 DEF AdtsOK, AdtsOnce
  <2> QED
    BY <1>2, <2>1 DEF AdtsOnce
<1>4. CASE Head(todo).op = "addAdt"
  <2>1. 1 = Len(todo)
    BY <1>1, <1>4 DEF AdtsOK, TypesBackward
  <2>2. \A i \in DOMAIN todo : i = 1
    BY <1>1, <2>1, LenProperties
  <2>3. ops \in Seq(Op) /\ \A i \in DOMAIN ops : ops[i].op \in PlainKinds
    BY DEF Plain
  <2>4. \A i \in DOMAIN todo' : i \in DOMAIN ops /\ todo'[i] = ops[i]
    <3>1. \A i \in DOMAIN todo' :
            \/ i \in DOMAIN ops /\ todo'[i] = ops[i]
            \/ i - Len(ops) + 1 \in DOMAIN todo /\ i - Len(ops) + 1 >= 2
      BY <1>1, <2>3, Continued
    <3>2. ASSUME NEW k, k >= 2, k \in DOMAIN todo PROVE FALSE
      BY <2>2, <3>2
    <3> QED
      BY <3>1, <3>2
  <2> QED
    BY <2>3, <2>4 DEF AdtsOnce, Pending, PlainKinds
<1> QED
  BY <1>3, <1>4

(* The traversal while the ADTs are extracted.                              *)
LEMMA AdtsTraversal ==
  ASSUME CompleteInv, CompleteInv', UniqueGlobalIds', DidKept, AdtsOK,
         phase = "adts", Traversal
  PROVE  AdtsOK'
<1>1. CASE Panic
  <2>1. UNCHANGED <<crate, phase, items, adt_items, todo, did_to_stid, adts>>
    BY <1>1 DEF Panic, mapping_vars, discovery_vars, output_vars
  <2> QED
    BY <2>1 DEF AdtsOK, TypesBackward, TypeOp, AdtReady, Settled, VariantSettled,
      FieldSettled, IsRegistered, AdtsNew, ToVisit, Waiting, Pending, ItemsBackward,
      AdtsBackward, Claimed, AdtsOnce, IsSort, ValuesLocal
<1>2. CASE ~Panic
  <2>1. PICK ops :
          /\ todo # <<>> /\ Plain(ops) /\ TypesReady(ops)' /\ Continue(ops)
          /\ UNCHANGED <<crate, phase, items, adt_items>>
          /\ \A d \in DOMAIN did_to_stid' : d \in LocalAdts(crate) =>
               d \in DOMAIN did_to_stid \/ (Head(todo).op = "adt" /\ d = Head(todo).arg)
          /\ Head(todo).op = "adt" => Head(todo).arg \in DOMAIN did_to_stid'
    BY <1>2, TypesTraversal
  <2>2. TypesBackward' /\ AdtsNew' /\ ItemsBackward' /\ AdtsBackward'
    BY <2>1, TypesContinue
  <2>3. adts' = adts \/ Head(todo).op = "addAdt"
    BY <1>2 DEF Traversal, TypeParameter, MentionType, ExtractAdt, Constructor, Field,
      SortBuilt, AddAdt, Call, EnterBody, KnownBinding, NewBinding, Parameter, VarRef,
      Unsupported, ExtractSpec, ReturnVar, AddFunction, StubInput, Execute, output_vars
  <2>4. AdtsOnce'
    BY <2>1, <2>3, AdtsOnceKept
  <2>5. ValuesLocal'
    BY <2>1 DEF ValuesLocal
  <2> QED
    BY <2>2, <2>4, <2>5 DEF AdtsOK
<1> QED
  BY <1>1, <1>2

(* While the visitor runs, nothing is on the stack: what is said of ADTs is *)
(* said of the items left and of the list.                                  *)
LEMMA AdtsVisited ==
  ASSUME CompleteInv, CompleteInv', AdtsOK, phase = "discover",
         phase' \in {"discover", "adts"}, UNCHANGED <<did_to_stid, crate, todo>>,
         \A a : ToVisit("adt", a)' \/ Waiting(adt_items, a)' =>
           ToVisit("adt", a) \/ Waiting(adt_items, a),
         \A a : ToVisit("adt", a)' => ~Waiting(adt_items, a)',
         \A i, j \in DOMAIN adt_items' : adt_items'[i] = adt_items'[j] => i = j,
         ItemsBackward', AdtsBackward'
  PROVE  AdtsOK'
<1>1. todo = <<>> /\ todo' = <<>>
  BY DEF CompleteInv, ItemsKept
<1>2. \A kind, d : ~Pending(kind, d)'
  BY <1>1 DEF Pending
<1>3. TypesBackward' /\ AdtsOnce' /\ ValuesLocal'
  BY <1>1, <1>2 DEF TypesBackward, AdtsOnce, ValuesLocal
<1>4. AdtsNew'
  BY <1>2 DEF AdtsNew, AdtsOK, IsRegistered
<1> QED
  BY <1>3, <1>4 DEF AdtsOK

(* ItemVisitor: the ADT visited goes to the end of the list.                *)
LEMMA VisitAdtBackward ==
  ASSUME AttachInv, CompleteInv', AdtsOK, VisitAdt
  PROVE  AdtsOK'
<1>1. /\ CompleteInv /\ items \in Seq(Item) /\ adt_items \in Seq(DefIds) /\ crate \in Crates
      /\ items # <<>> /\ items' = Tail(items) /\ Head(items).kind = "adt"
      /\ phase = "discover" /\ phase' = "discover" /\ UNCHANGED <<did_to_stid, crate, todo>>
  BY DEF VisitAdt, Discover, AttachInv, CompleteInv, ExtractionInv, TypeOK, mapping_vars
<1>2. PICK left, list, more : left = items' /\ list = adt_items /\ more = adt_items'
  OBVIOUS
<1>3. /\ 1 \in DOMAIN items /\ Head(items) = items[1]
      /\ \A i \in DOMAIN left : i + 1 \in DOMAIN items /\ left[i] = items[i + 1] /\ i \in Nat \ {0}
      /\ \A i \in DOMAIN items : i = 1 \/ (i - 1 \in DOMAIN left /\ left[i - 1] = items[i])
  <2>1. PICK n \in Nat : n = Len(items) /\ n # 0 /\ DOMAIN items = 1 .. n
    BY <1>1, LenProperties, EmptySeq
  <2>2. /\ Head(items) = items[1] /\ left \in Seq(Item) /\ Len(left) = n - 1
        /\ \A i \in 1 .. n - 1 : left[i] = items[i + 1]
    BY <1>1, <1>2, <2>1, HeadTailProperties
  <2>3. DOMAIN left = 1 .. n - 1
    BY <2>2, LenProperties
  <2> QED
    BY <2>1, <2>2, <2>3
<1>4. PICK a \in LocalAdts(crate) : items[1].defs = {a} /\ items[1].kind = "adt" /\ more = Append(list, a)
  <2>1. PICK d \in LocalAdts(crate) : items[1].defs = {d}
    BY <1>1, <1>3 DEF CompleteInv, ItemsKept
  <2>2. more = Append(list, d)
    BY <1>2, <1>3, <2>1 DEF VisitAdt
  <2> QED
    BY <1>1, <1>3, <2>1, <2>2
<1>5. a \in DefIds
  BY <1>1, CrateLists
<1>6. PICK n \in Nat : /\ n = Len(list) /\ DOMAIN list = 1 .. n /\ DOMAIN more = 1 .. n + 1
                       /\ more[n + 1] = a /\ \A i \in 1 .. n : more[i] = list[i]
  BY <1>1, <1>2, <1>4, <1>5, AppendProperties, LenProperties
<1>7. ToVisit("adt", a) /\ \A i \in DOMAIN items : a \in items[i].defs => i = 1
  BY <1>3, <1>4 DEF ToVisit, AttachInv, ItemsApart
<1>8. /\ ~Waiting(list, a) /\ \A x : ToVisit("adt", x) => ~Waiting(list, x)
      /\ \A i, j \in DOMAIN list : list[i] = list[j] => i = j
  BY <1>2, <1>7 DEF AdtsOK, AdtsNew
<1>9. \A x : ToVisit("adt", x)' => ToVisit("adt", x) /\ x # a
  <2>1. ASSUME NEW x, NEW i \in DOMAIN left, left[i].kind = "adt", x \in left[i].defs
        PROVE  ToVisit("adt", x) /\ x # a
    BY <1>3, <1>7, <2>1 DEF ToVisit
  <2> QED
    BY <1>2, <2>1 DEF ToVisit
<1>10. /\ \A x : Waiting(more, x) <=> Waiting(list, x) \/ x = a
       /\ \A x : Waiting(more, x) <=> Waiting(adt_items, x)'
       /\ \A x : Waiting(list, x) <=> Waiting(adt_items, x)
  BY <1>2, <1>6 DEF Waiting
<1>11. \A i, j \in DOMAIN more : more[i] = more[j] => i = j
  <2>1. \A i \in DOMAIN list : list[i] # a
    BY <1>8 DEF Waiting
  <2> QED
    BY <1>6, <1>8, <2>1
<1>12. \A b : Claimed(b) => Claimed(b)'
  BY <1>1 DEF Claimed, Settled, IsRegistered, Pending
<1>13. \A x : Mentions(crate, x)' = Mentions(crate, x)
  BY <1>1 DEF Mentions, Fields
<1>14. ItemsBackward'
  <2>1. ASSUME NEW i \in DOMAIN left, left[i].kind = "adt", NEW x \in left[i].defs,
               NEW b \in Mentions(crate, x)
        PROVE  \/ Claimed(b) \/ Waiting(more, b)
               \/ \E j \in DOMAIN left : j <= i /\ left[j].kind = "adt" /\ b \in left[j].defs
    <3>1. \/ Claimed(b) \/ Waiting(list, b)
          \/ \E j \in DOMAIN items : j <= i + 1 /\ items[j].kind = "adt" /\ b \in items[j].defs
      BY <1>2, <1>3, <2>1 DEF AdtsOK, ItemsBackward
    <3>2. CASE Claimed(b) \/ Waiting(list, b)
      BY <1>10, <3>2
    <3>3. ASSUME NEW j \in DOMAIN items, j <= i + 1, items[j].kind = "adt", b \in items[j].defs
          PROVE  Waiting(more, b) \/ \E k \in DOMAIN left : k <= i /\ left[k].kind = "adt" /\ b \in left[k].defs
      <4>1. CASE j = 1
        BY <1>4, <1>10, <3>3, <4>1
      <4>2. CASE j # 1
        <5>1. j - 1 \in DOMAIN left /\ left[j - 1] = items[j] /\ j - 1 <= i
          BY <1>1, <1>3, <3>3, <4>2, LenProperties
        <5> QED
          BY <3>3, <5>1
      <4> QED
        BY <4>1, <4>2
    <3> QED
      BY <3>1, <3>2, <3>3
  <2>2. \A i \in DOMAIN left : left[i].kind = "adt" =>
          \A x \in left[i].defs : \A b \in Mentions(crate, x) :
            \/ Claimed(b)' \/ Waiting(adt_items, b)'
            \/ \E j \in DOMAIN left : j <= i /\ left[j].kind = "adt" /\ b \in left[j].defs
    BY <1>10, <1>12, <2>1
  <2> QED
    BY <1>2, <1>13, <2>2 DEF ItemsBackward
<1>15. AdtsBackward'
  <2>1. ASSUME NEW i \in DOMAIN more, NEW b \in Mentions(crate, more[i])
        PROVE  Claimed(b) \/ \E j \in DOMAIN more : j <= i /\ more[j] = b
    <3>1. CASE i \in DOMAIN list
      <4>1. Claimed(b) \/ \E j \in DOMAIN list : j <= i /\ list[j] = b
        BY <1>2, <1>6, <2>1, <3>1 DEF AdtsOK, AdtsBackward
      <4> QED
        BY <1>6, <4>1
    <3>2. CASE i = n + 1
      <4>1. \/ Claimed(b) \/ Waiting(list, b)
            \/ \E j \in DOMAIN items : j <= 1 /\ items[j].kind = "adt" /\ b \in items[j].defs
        BY <1>2, <1>3, <1>4, <1>6, <2>1, <3>2 DEF AdtsOK, ItemsBackward
      <4>2. CASE Waiting(list, b)
        BY <1>6, <3>2, <4>2 DEF Waiting
      <4>3. ASSUME NEW j \in DOMAIN items, j <= 1, b \in items[j].defs PROVE b = a
        BY <1>1, <1>4, <4>3, LenProperties
      <4> QED
        BY <1>6, <3>2, <4>1, <4>2, <4>3
    <3> QED
      BY <1>6, <3>1, <3>2
  <2>2. \A i \in DOMAIN more : \A b \in Mentions(crate, more[i]) :
          Claimed(b)' \/ \E j \in DOMAIN more : j <= i /\ more[j] = b
    BY <1>12, <2>1
  <2> QED
    BY <1>2, <1>13, <2>2 DEF AdtsBackward
<1>16. /\ \A x : ToVisit("adt", x)' \/ Waiting(adt_items, x)' =>
            ToVisit("adt", x) \/ Waiting(adt_items, x)
       /\ \A x : ToVisit("adt", x)' => ~Waiting(adt_items, x)'
  BY <1>7, <1>8, <1>9, <1>10
<1>17. \A i, j \in DOMAIN adt_items' : adt_items'[i] = adt_items'[j] => i = j
  BY <1>2, <1>11
<1> QED
  BY <1>1, <1>14, <1>15, <1>16, <1>17, AdtsVisited

(* ... and nothing else changes what is said of ADTs.                       *)
LEMMA AdtsDiscovery ==
  ASSUME AttachInv, CompleteInv', AdtsOK, Discovery
  PROVE  AdtsOK'
<1>1. CASE VisitAdt
  BY <1>1, VisitAdtBackward
<1>2. CASE VisitFn \/ VisitedFns \/ VisitOther \/ DiscoveryDone
  <2>1. /\ CompleteInv /\ items \in Seq(Item) /\ phase = "discover" /\ phase' \in {"discover", "adts"}
        /\ UNCHANGED <<did_to_stid, crate, todo, adt_items>>
    BY <1>2 DEF VisitFn, VisitedFns, VisitOther, DiscoveryDone, Discover, AttachInv, CompleteInv,
      ExtractionInv, TypeOK, mapping_vars, discovery_vars
  <2>2. PICK left : left = items'
    OBVIOUS
  <2>3. \/ /\ DOMAIN left = DOMAIN items
           /\ \A i \in DOMAIN items :
                left[i] = items[i] \/ (items[i].kind = "fns" /\ left[i].kind = "fns")
        \/ items # <<>> /\ left = Tail(items) /\ Head(items).kind # "adt"
    <3>1. CASE VisitFn
      BY <2>2, <3>1, VisitFnItems
    <3>2. CASE VisitedFns \/ VisitOther
      BY <2>2, <3>2 DEF VisitedFns, VisitOther, Discover
    <3>3. CASE DiscoveryDone
      BY <2>2, <3>3 DEF DiscoveryDone, discovery_vars
    <3> QED
      BY <1>2, <3>1, <3>2, <3>3
  <2>4. PICK shift \in {0, 1} :
          /\ \A i \in DOMAIN left : left[i].kind = "adt" =>
               i + shift \in DOMAIN items /\ left[i] = items[i + shift] /\ i \in Int
          /\ \A i \in DOMAIN items : items[i].kind = "adt" =>
               i - shift \in DOMAIN left /\ left[i - shift] = items[i] /\ i \in Int
    <3>1. CASE /\ DOMAIN left = DOMAIN items
               /\ \A i \in DOMAIN items :
                    left[i] = items[i] \/ (items[i].kind = "fns" /\ left[i].kind = "fns")
      <4>1. \A i \in DOMAIN items : i \in Int /\ i + 0 = i /\ i - 0 = i
        BY <2>1, LenProperties
      <4>2. /\ \A i \in DOMAIN left : left[i].kind = "adt" =>
                 i + 0 \in DOMAIN items /\ left[i] = items[i + 0] /\ i \in Int
            /\ \A i \in DOMAIN items : items[i].kind = "adt" =>
                 i - 0 \in DOMAIN left /\ left[i - 0] = items[i] /\ i \in Int
        BY <3>1, <4>1
      <4> QED
        BY <4>2
    <3>2. CASE items # <<>> /\ left = Tail(items) /\ Head(items).kind # "adt"
      <4>1. PICK n \in Nat : n = Len(items) /\ n # 0 /\ DOMAIN items = 1 .. n
        BY <2>1, <3>2, LenProperties, EmptySeq
      <4>2. /\ Head(items) = items[1] /\ left \in Seq(Item) /\ Len(left) = n - 1
            /\ \A i \in 1 .. n - 1 : left[i] = items[i + 1]
        BY <2>1, <3>2, <4>1, HeadTailProperties
      <4>3. DOMAIN left = 1 .. n - 1
        BY <4>2, LenProperties
      <4>4. \A i \in DOMAIN left : i + 1 \in DOMAIN items /\ left[i] = items[i + 1] /\ i \in Int
        BY <4>1, <4>2, <4>3
      <4>5. \A i \in DOMAIN items : items[i].kind = "adt" =>
              i - 1 \in DOMAIN left /\ left[i - 1] = items[i] /\ i \in Int
        BY <3>2, <4>1, <4>2, <4>3
      <4> QED
        BY <4>4, <4>5
    <3> QED
      BY <2>3, <3>1, <3>2
  <2>5. /\ \A a : ToVisit("adt", a)' => ToVisit("adt", a)
        /\ \A a : Waiting(adt_items, a)' <=> Waiting(adt_items, a)
    BY <2>1, <2>2, <2>4 DEF ToVisit, Waiting
  <2>6. \A a : ToVisit("adt", a)' => ~Waiting(adt_items, a)'
    BY <2>5 DEF AdtsOK, AdtsNew
  <2>7. \A i, j \in DOMAIN adt_items' : adt_items'[i] = adt_items'[j] => i = j
    BY <2>1 DEF AdtsOK, AdtsNew
  <2>8. /\ \A b : Claimed(b)' <=> Claimed(b)
        /\ \A x : Mentions(crate, x)' = Mentions(crate, x)
    BY <2>1 DEF Claimed, Settled, IsRegistered, Pending, Mentions, Fields
  <2>9. AdtsBackward'
    BY <2>1, <2>8 DEF AdtsOK, AdtsBackward
  <2>10. ItemsBackward'
    <3>1. ASSUME NEW i \in DOMAIN left, left[i].kind = "adt", NEW x \in left[i].defs,
                 NEW b \in Mentions(crate, x)
          PROVE  \/ Claimed(b) \/ Waiting(adt_items, b)
                 \/ \E j \in DOMAIN left : j <= i /\ left[j].kind = "adt" /\ b \in left[j].defs
      <4>1. \/ Claimed(b) \/ Waiting(adt_items, b)
            \/ \E j \in DOMAIN items : j <= i + shift /\ items[j].kind = "adt" /\ b \in items[j].defs
        BY <2>4, <3>1 DEF AdtsOK, ItemsBackward
      <4>2. ASSUME NEW j \in DOMAIN items, j <= i + shift, items[j].kind = "adt", b \in items[j].defs
            PROVE  \E k \in DOMAIN left : k <= i /\ left[k].kind = "adt" /\ b \in left[k].defs
        <5>1. /\ j - shift \in DOMAIN left /\ left[j - shift] = items[j] /\ j - shift <= i
          BY <2>4, <3>1, <4>2
        <5> QED
          BY <4>2, <5>1
      <4> QED
        BY <4>1, <4>2
    <3>2. \A i \in DOMAIN left : left[i].kind = "adt" =>
            \A x \in left[i].defs : \A b \in Mentions(crate, x) :
              \/ Claimed(b)' \/ Waiting(adt_items, b)'
              \/ \E j \in DOMAIN left : j <= i /\ left[j].kind = "adt" /\ b \in left[j].defs
      BY <2>5, <2>8, <3>1
    <3> QED
      BY <2>2, <2>8, <3>2 DEF ItemsBackward
  <2> QED
    BY <2>1, <2>5, <2>6, <2>7, <2>9, <2>10, AdtsVisited
<1> QED
  BY <1>1, <1>2 DEF Discovery

(* The loop over ADTs: the one taken only mentions itself and ADTs that     *)
(* have their identifiers.                                                  *)
LEMMA StartAdtBackward ==
  ASSUME CompleteInv, CompleteInv', AdtsOK, StartAdt
  PROVE  AdtsOK'
<1>1. PICK a, rest, new : /\ a = Head(adt_items) /\ rest = Tail(adt_items)
                          /\ new = One("adt", a) \o One("addAdt", a)
  OBVIOUS
<1>2. /\ phase = "adts" /\ todo = <<>> /\ adt_items # <<>> /\ adt_items \in Seq(DefIds)
      /\ adt_items' = rest /\ todo' = new /\ items = <<>>
      /\ UNCHANGED <<crate, phase, items, did_to_stid, adts>>
  BY <1>1 DEF StartAdt, Idle, CompleteInv, ExtractionInv, TypeOK, ItemsKept, mapping_vars,
    output_vars
<1>3. /\ rest \in Seq(DefIds) /\ Waiting(adt_items, a)
      /\ \A i, j \in DOMAIN rest : rest[i] = rest[j] => i = j
      /\ \A d : Waiting(rest, d) => Waiting(adt_items, d) /\ d # a
  <2>1. \A i, j \in DOMAIN adt_items : adt_items[i] = adt_items[j] => i = j
    BY DEF AdtsOK, AdtsNew
  <2> QED
    BY <1>1, <1>2, <2>1, TailApart
<1>4. /\ Len(adt_items) \in Nat \ {0} /\ DOMAIN adt_items = 1 .. Len(adt_items)
      /\ a = adt_items[1] /\ DOMAIN rest = 1 .. Len(adt_items) - 1
      /\ \A i \in 1 .. Len(adt_items) - 1 : rest[i] = adt_items[i + 1]
  <2>1. /\ Len(adt_items) \in Nat \ {0} /\ DOMAIN adt_items = 1 .. Len(adt_items)
    BY <1>2, LenProperties, EmptySeq
  <2>2. /\ a = adt_items[1] /\ rest \in Seq(DefIds) /\ Len(rest) = Len(adt_items) - 1
        /\ \A i \in 1 .. Len(adt_items) - 1 : rest[i] = adt_items[i + 1]
    BY <1>1, <1>2, HeadTailProperties
  <2> QED
    BY <2>1, <2>2, LenProperties
<1>5. a \in DefIds /\ a \in LocalAdts(crate) /\ ~IsRegistered(a)
  BY <1>2, <1>3, <1>4, LenProperties DEF CompleteInv, SortsKept, AdtsOK, AdtsNew
<1>6. \A kind, d : ~Pending(kind, d)
  BY <1>2 DEF Pending
<1>7. \A b \in Mentions(crate, a) : Settled(b) \/ b = a
  <2>1. ASSUME NEW b \in Mentions(crate, a)
        PROVE  Claimed(b) \/ \E j \in DOMAIN adt_items : j <= 1 /\ adt_items[j] = b
    BY <1>4 DEF AdtsOK, AdtsBackward
  <2> QED
    BY <1>4, <1>6, <2>1 DEF Claimed
<1>8. /\ new \in Seq(Op) /\ Len(new) = 2 /\ DOMAIN new = {1, 2}
      /\ new[1].op = "adt" /\ new[1].arg = a /\ new[2].op = "addAdt" /\ new[2].arg = a
  <2>1. PICK s, t : s = One("adt", a) /\ t = One("addAdt", a)
    OBVIOUS
  <2>2. /\ s \in Seq(Op) /\ Len(s) = 1 /\ DOMAIN s = {1} /\ s[1].op = "adt" /\ s[1].arg = a
        /\ t \in Seq(Op) /\ Len(t) = 1 /\ DOMAIN t = {1} /\ t[1].op = "addAdt" /\ t[1].arg = a
    BY <1>5, <2>1, OneType DEF DefOps
  <2>3. new = s \o t
    BY <1>1, <2>1
  <2>4. /\ new \in Seq(Op) /\ Len(new) = Len(s) + Len(t)
        /\ \A i \in DOMAIN s : i \in DOMAIN new /\ new[i] = s[i]
        /\ \A i \in DOMAIN t : Len(s) + i \in DOMAIN new /\ new[Len(s) + i] = t[i]
    <3>1. s \in Seq(Op) /\ t \in Seq(Op)
      BY <2>2
    <3>2. /\ s \o t \in Seq(Op) /\ Len(s \o t) = Len(s) + Len(t)
          /\ \A i \in DOMAIN s : i \in DOMAIN (s \o t) /\ (s \o t)[i] = s[i]
          /\ \A i \in DOMAIN t : Len(s) + i \in DOMAIN (s \o t) /\ (s \o t)[Len(s) + i] = t[i]
      BY <3>1, ConcatFrom
    <3> QED
      BY <2>3, <3>2
  <2>5. Len(new) = 2 /\ DOMAIN new = {1, 2}
    BY <2>2, <2>4, LenProperties
  <2> QED
    BY <2>2, <2>4, <2>5
<1>9. TypesBackward'
  <2>1. AdtReady(a)'
    BY <1>2, <1>5, <1>7 DEF AdtReady, Settled, IsRegistered
  <2>2. ASSUME NEW i \in DOMAIN new
        PROVE  /\ TypeOp(new[i])' /\ (new[i].op = "adt" => i = 1 /\ AdtReady(new[i].arg)')
               /\ new[i].op = "addAdt" => i = Len(new)
    <3>1. PICK o : o = new[i]
      OBVIOUS
    <3>2. o.op \in {"adt", "addAdt"} /\ o.arg = a
      BY <1>8, <2>2, <3>1
    <3>3. TypeOp(o)'
      BY <3>2 DEF TypeOp
    <3> QED
      BY <1>8, <2>1, <2>2, <3>1, <3>2, <3>3
  <2> QED
    BY <1>2, <2>2, TypesNext
<1>10. /\ \A b : Pending("adt", b)' <=> b = a
       /\ \A b : Pending("addAdt", b)' => b = a
  BY <1>2, <1>8 DEF Pending
<1>11. /\ \A b : Waiting(adt_items, b)' <=> Waiting(rest, b)
       /\ \A b : ~ToVisit("adt", b)'
  BY <1>2 DEF Waiting, ToVisit
<1>12. AdtsNew'
  <2>1. \A i, j \in DOMAIN adt_items' : adt_items'[i] = adt_items'[j] => i = j
    BY <1>2, <1>3
  <2>2. \A b : Waiting(rest, b) => ~IsRegistered(b) /\ b # a
    BY <1>3 DEF AdtsOK, AdtsNew
  <2> QED
    BY <1>2, <1>10, <1>11, <2>1, <2>2 DEF AdtsNew, IsRegistered
<1>13. \A b : Settled(b) \/ b = a => Claimed(b)'
  BY <1>2, <1>10 DEF Claimed, Settled, IsRegistered
<1>14. AdtsBackward'
  <2>1. ASSUME NEW i \in DOMAIN rest, NEW b \in Mentions(crate, rest[i])
        PROVE  Claimed(b)' \/ \E j \in DOMAIN rest : j <= i /\ rest[j] = b
    <3>1. i + 1 \in DOMAIN adt_items /\ rest[i] = adt_items[i + 1] /\ i \in Nat
      BY <1>4
    <3>2. Claimed(b) \/ \E j \in DOMAIN adt_items : j <= i + 1 /\ adt_items[j] = b
      BY <2>1, <3>1 DEF AdtsOK, AdtsBackward
    <3>3. ASSUME NEW j \in DOMAIN adt_items, j <= i + 1, adt_items[j] = b
          PROVE  b = a \/ \E k \in DOMAIN rest : k <= i /\ rest[k] = b
      <4>1. CASE j = 1
        BY <1>4, <3>3, <4>1
      <4>2. CASE j # 1
        <5>1. j - 1 \in DOMAIN rest /\ rest[j - 1] = b /\ j - 1 <= i
          BY <1>4, <3>1, <3>3, <4>2
        <5> QED
          BY <5>1
      <4> QED
        BY <4>1, <4>2
    <3> QED
      BY <1>6, <1>13, <3>2, <3>3 DEF Claimed
  <2>2. \A x : Mentions(crate, x)' = Mentions(crate, x)
    BY <1>2 DEF Mentions, Fields
  <2> QED
    BY <1>2, <2>1, <2>2 DEF AdtsBackward
<1>15. ItemsBackward' /\ ValuesLocal'
  BY <1>2 DEF ItemsBackward, ValuesLocal
<1>16. AdtsOnce'
  BY <1>2, <1>5, <1>10 DEF AdtsOnce, IsSort, IsRegistered
<1> QED
  BY <1>9, <1>12, <1>14, <1>15, <1>16 DEF AdtsOK

----------------------------------------------------------------------------
(* The stacks of functions and of stubs: they start with no values, no      *)
(* bindings and no variables, and have what is to be extracted in parts,    *)
(* each of which has a spec function once.                                  *)
Part(o) == IF o.op = "spec" THEN crate.spec_type[o.arg] ELSE o.op
Stage(ops, g, parts) ==
  /\ ops \in Seq(Op)
  /\ \A i \in DOMAIN ops :
       /\ ops[i].op \notin {"adt", "bind", "param", "var"}
       /\ ops[i].op = "spec" => crate.spec_of[ops[i].arg] = g
       /\ ops[i].op \in {"enter", "spec", "input"} => Part(ops[i]) \in parts
  /\ \A i, j \in DOMAIN ops :
       /\ ops[i].op \in {"enter", "spec"} /\ ops[i] = ops[j] => i = j
       /\ ops[i].op = "enter" /\ ops[j].op = "spec" => i < j

(* One part after another, ...                                              *)
LEMMA StageConcat ==
  ASSUME NEW g, NEW P, NEW Q, P \cap Q = {}, "enter" \in Q => P = {}, NEW s, NEW t,
         Stage(s, g, P), Stage(t, g, Q), NEW st, st = s \o t
  PROVE  Stage(st, g, P \cup Q)
<1>1. s \in Seq(Op) /\ t \in Seq(Op)
  BY DEF Stage
<1>2. /\ st \in Seq(Op) /\ Len(s) \in Nat /\ DOMAIN st \subseteq Nat
      /\ \A i \in DOMAIN st :
           \/ i \in DOMAIN s /\ st[i] = s[i]
           \/ i - Len(s) \in DOMAIN t /\ st[i] = t[i - Len(s)]
  BY <1>1, ConcatFrom, LenProperties
<1>3. \A i \in DOMAIN st :
        /\ st[i].op \notin {"adt", "bind", "param", "var"}
        /\ st[i].op = "spec" => crate.spec_of[st[i].arg] = g
        /\ st[i].op \in {"enter", "spec", "input"} => Part(st[i]) \in P \cup Q
  BY <1>2 DEF Stage
<1>4. ASSUME NEW i \in DOMAIN st, NEW j \in DOMAIN st, st[i].op \in {"enter", "spec"}, st[i] = st[j]
      PROVE  i = j
  <2>1. PICK k, l : k = i - Len(s) /\ l = j - Len(s)
    OBVIOUS
  <2>2. /\ (i \in DOMAIN s /\ st[i] = s[i]) \/ (k \in DOMAIN t /\ st[i] = t[k])
        /\ (j \in DOMAIN s /\ st[j] = s[j]) \/ (l \in DOMAIN t /\ st[j] = t[l])
    BY <1>2, <2>1
  <2>3. CASE i \in DOMAIN s /\ st[i] = s[i] /\ j \in DOMAIN s /\ st[j] = s[j]
    BY <1>4, <2>3 DEF Stage
  <2>4. CASE k \in DOMAIN t /\ st[i] = t[k] /\ l \in DOMAIN t /\ st[j] = t[l]
    <3>1. k = l
      BY <1>4, <2>4 DEF Stage
    <3> QED
      BY <1>2, <2>1, <3>1
  <2>5. CASE i \in DOMAIN s /\ st[i] = s[i] /\ l \in DOMAIN t /\ st[j] = t[l]
    <3>1. s[i].op \in {"enter", "spec"} /\ t[l].op \in {"enter", "spec"}
      BY <1>4, <2>5
    <3>2. Part(s[i]) \in P /\ Part(t[l]) \in Q
      BY <2>5, <3>1 DEF Stage
    <3>3. Part(st[i]) \in P /\ Part(st[j]) \in Q
      BY <2>5, <3>2
    <3> QED
      BY <1>4, <3>3
  <2>6. CASE k \in DOMAIN t /\ st[i] = t[k] /\ j \in DOMAIN s /\ st[j] = s[j]
    <3>1. t[k].op \in {"enter", "spec"} /\ s[j].op \in {"enter", "spec"}
      BY <1>4, <2>6
    <3>2. Part(t[k]) \in Q /\ Part(s[j]) \in P
      BY <2>6, <3>1 DEF Stage
    <3>3. Part(st[i]) \in Q /\ Part(st[j]) \in P
      BY <2>6, <3>2
    <3> QED
      BY <1>4, <3>3
  <2> QED
    BY <2>2, <2>3, <2>4, <2>5, <2>6
<1>5. ASSUME NEW i \in DOMAIN st, NEW j \in DOMAIN st, st[i].op = "enter", st[j].op = "spec"
      PROVE  i < j
  <2>1. PICK k, l, m : k = i - Len(s) /\ l = j - Len(s) /\ m = Len(s)
    OBVIOUS
  <2>2. /\ (i \in DOMAIN s /\ st[i] = s[i]) \/ (k \in DOMAIN t /\ st[i] = t[k])
        /\ (j \in DOMAIN s /\ st[j] = s[j]) \/ (l \in DOMAIN t /\ st[j] = t[l])
        /\ i \in Nat /\ j \in Nat /\ m \in Nat
    BY <1>2, <2>1
  <2>3. DOMAIN s = 1 .. m /\ DOMAIN t = 1 .. Len(t) /\ Len(t) \in Nat
    BY <1>1, <2>1, LenProperties
  <2>4. CASE i \in DOMAIN s /\ st[i] = s[i] /\ j \in DOMAIN s /\ st[j] = s[j]
    BY <1>5, <2>4 DEF Stage
  <2>5. CASE k \in DOMAIN t /\ st[i] = t[k] /\ l \in DOMAIN t /\ st[j] = t[l]
    <3>1. k < l
      BY <1>5, <2>5 DEF Stage
    <3> QED
      BY <2>1, <2>2, <3>1
  <2>6. CASE i \in DOMAIN s /\ l \in DOMAIN t
    BY <2>1, <2>2, <2>3, <2>6
  <2>7. CASE k \in DOMAIN t /\ st[i] = t[k] /\ j \in DOMAIN s /\ st[j] = s[j]
    <3>1. Part(t[k]) \in Q /\ Part(s[j]) \in P
      BY <1>5, <2>7 DEF Stage
    <3>2. Part(t[k]) = "enter"
      BY <1>5, <2>7 DEF Part
    <3> QED
      BY <3>1, <3>2
  <2> QED
    BY <2>2, <2>4, <2>5, <2>6, <2>7
<1>6. \A i, j \in DOMAIN st : st[i].op = "enter" /\ st[j].op = "spec" => i < j
  BY <1>5
<1>7. \A i, j \in DOMAIN st : st[i].op \in {"enter", "spec"} /\ st[i] = st[j] => i = j
  BY <1>4
<1> QED
  BY <1>2, <1>3, <1>6, <1>7 DEF Stage

(* ... operations on types, ...                                             *)
LEMMA StageTypes ==
  ASSUME NEW g, NEW kind \in {"reg", "type"}, NEW args \in Seq(DefIds), NEW ops, ops = Ops(kind, args)
  PROVE  Stage(ops, g, {})
<1>1. /\ ops \in Seq(Op) /\ \A i \in DOMAIN ops : ops[i].op = kind
  BY DefOpsType DEF DefOps
<1> QED
  BY <1>1 DEF Stage

(* ... one that ends or begins a part, ...                                  *)
LEMMA StageOne ==
  ASSUME NEW g, NEW kind \in {"enter", "emit", "stub"}, NEW d \in DefIds,
         NEW ops, ops = One(kind, d)
  PROVE  Stage(ops, g, {kind})
<1>1. /\ ops \in Seq(Op) /\ DOMAIN ops = {1} /\ ops[1].op = kind
  BY OneType DEF DefOps
<1> QED
  BY <1>1 DEF Stage, Part

(* ... the inputs of a stub, ...                                            *)
LEMMA StageInputs ==
  ASSUME NEW g, NEW ops \in Seq(Op), \A i \in DOMAIN ops : ops[i].op = "input"
  PROVE  Stage(ops, g, {"input"})
  BY DEF Stage, Part

(* ... and the spec functions filed in one place.                           *)
LEMMA StageSpecs ==
  ASSUME NEW g, NEW t, NEW args \in Seq(DefIds), NEW ops, ops = Ops("spec", args),
         \A i \in DOMAIN args : crate.spec_of[args[i]] = g /\ crate.spec_type[args[i]] = t,
         \A i, j \in DOMAIN args : args[i] = args[j] => i = j
  PROVE  Stage(ops, g, {t})
<1>1. /\ ops \in Seq(Op) /\ DOMAIN ops = DOMAIN args
      /\ \A i \in DOMAIN ops : ops[i].op = "spec" /\ ops[i].arg = args[i]
  BY DefOpsType DEF DefOps
<1>2. \A i, j \in DOMAIN ops : ops[i] = ops[j] => i = j
  BY <1>1
<1> QED
  BY <1>1, <1>2 DEF Stage, Part

(* The operations of a function: each spec function filed under it once.    *)
LEMMA FunctionStage ==
  ASSUME AttachInv, SpecsApart, items = <<>>, NEW g \in UserFns(crate), NEW ops, ops = FunctionOps(g)
  PROVE  Stage(ops, g, {"enter", "measure", "pre", "ret", "post", "emit"})
<1>1. /\ CompleteInv /\ crate \in Crates /\ g \in DefIds
  BY CrateLists DEF AttachInv, CompleteInv, ExtractionInv, TypeOK
<1>2. ASSUME NEW t \in SpecTypes
      PROVE  /\ specs[g][t] \in Seq(DefIds)
             /\ \A i \in DOMAIN specs[g][t] :
                  crate.spec_of[specs[g][t][i]] = g /\ crate.spec_type[specs[g][t][i]] = t
             /\ \A i, j \in DOMAIN specs[g][t] : specs[g][t][i] = specs[g][t][j] => i = j
  <2>1. specs[g][t] \in Seq(DefIds)
    BY <1>1 DEF CompleteInv, ExtractionInv, TypeOK
  <2>2. \A i \in DOMAIN specs[g][t] :
          crate.spec_of[specs[g][t][i]] = g /\ crate.spec_type[specs[g][t][i]] = t
    BY <1>1 DEF CompleteInv, ExtractionInv, StackOK, SpecsByType, SpecsApart
  <2>3. ASSUME NEW i \in DOMAIN specs[g][t], NEW j \in DOMAIN specs[g][t],
               specs[g][t][i] = specs[g][t][j]
        PROVE  i = j
    <3>1. PICK s, list : s = specs[g][t][i] /\ list = specs[g][t]
      OBVIOUS
    <3>2. s \in SpecFns(crate)
      BY <1>1, <3>1 DEF CompleteInv, FunctionsListed
    <3>3. s \in Subjects /\ FiledFor(s) = list
      BY <2>2, <3>1, <3>2 DEF Subjects, FiledFor
    <3>4. ~ToVisit("fns", s)
      BY DEF ToVisit
    <3>5. Once(list, s)
      BY <3>3, <3>4 DEF AttachInv, Filed
    <3>6. list[i] = s /\ list[j] = s /\ i \in DOMAIN list /\ j \in DOMAIN list
      BY <2>3, <3>1
    <3> QED
      BY <3>5, <3>6 DEF Once
  <2> QED
    BY <2>1, <2>2, <2>3
<1>3. PICK regs, bounds, enter, first, m, p, ret, q, last :
        /\ regs = Ops("reg", crate.tparams[g]) /\ bounds = Ops("type", crate.bounds[g])
        /\ enter = One("enter", g)
        /\ first = FirstOf(specs[g]["measure"]) /\ m = Ops("spec", first)
        /\ p = Ops("spec", specs[g]["pre"]) /\ ret = One("ret", NoDef)
        /\ q = Ops("spec", specs[g]["post"]) /\ last = One("emit", g)
  OBVIOUS
<1>4. Stage(regs, g, {}) /\ Stage(bounds, g, {})
  BY <1>1, <1>3, CrateTypes, StageTypes
<1>5. Stage(enter, g, {"enter"}) /\ Stage(last, g, {"emit"})
  BY <1>1, <1>3, StageOne
<1>6. Stage(m, g, {"measure"})
  <2>1. PICK list : list = specs[g]["measure"]
    OBVIOUS
  <2>2. /\ list \in Seq(DefIds)
        /\ \A i \in DOMAIN list : crate.spec_of[list[i]] = g /\ crate.spec_type[list[i]] = "measure"
    BY <1>2, <2>1 DEF SpecTypes
  <2>3. /\ first \in Seq(DefIds)
        /\ \A i \in DOMAIN first : crate.spec_of[first[i]] = g /\ crate.spec_type[first[i]] = "measure"
        /\ \A i, j \in DOMAIN first : first[i] = first[j] => i = j
    <3>1. CASE list = <<>>
      BY <1>3, <2>1, <3>1 DEF FirstOf
    <3>2. CASE list # <<>>
      <4>1. 1 \in DOMAIN list /\ Head(list) = list[1] /\ Head(list) \in DefIds
        BY <2>2, <3>2, WaitingTail, HeadTailProperties
      <4>2. first = <<list[1]>>
        BY <1>3, <2>1, <3>2, <4>1 DEF FirstOf
      <4> QED
        BY <2>2, <4>1, <4>2
    <3> QED
      BY <3>1, <3>2
  <2> QED
    BY <1>3, <2>3, StageSpecs
<1>7. Stage(p, g, {"pre"}) /\ Stage(q, g, {"post"})
  <2>1. \A t \in SpecTypes : \A args : args = Ops("spec", specs[g][t]) => Stage(args, g, {t})
    BY <1>2, StageSpecs
  <2> QED
    BY <1>3, <2>1 DEF SpecTypes
<1>8. Stage(ret, g, {"ret"})
  BY <1>3, OneRet DEF Stage
<1>9. PICK generics, begun, measured, required, returned, ensured :
        /\ generics = regs \o bounds /\ begun = generics \o enter /\ measured = begun \o m
        /\ required = measured \o p /\ returned = required \o ret /\ ensured = returned \o q
  OBVIOUS
<1>10. Stage(generics, g, {} \cup {})
  BY <1>4, <1>9, StageConcat
<1>11. Stage(generics, g, {})
  BY <1>10, Zenon
<1>12. Stage(begun, g, {} \cup {"enter"})
  BY <1>5, <1>9, <1>11, StageConcat
<1>13. Stage(begun, g, {"enter"})
  <2>1. {} \cup {"enter"} = {"enter"}
    OBVIOUS
  <2> QED
    BY <1>12, <2>1, Zenon
<1>14. Stage(measured, g, {"enter"} \cup {"measure"})
  BY <1>6, <1>9, <1>13, StageConcat
<1>15. Stage(measured, g, {"enter", "measure"})
  <2>1. {"enter"} \cup {"measure"} = {"enter", "measure"}
    OBVIOUS
  <2> QED
    BY <1>14, <2>1, Zenon
<1>16. Stage(required, g, {"enter", "measure"} \cup {"pre"})
  BY <1>7, <1>9, <1>15, StageConcat
<1>17. Stage(required, g, {"enter", "measure", "pre"})
  <2>1. {"enter", "measure"} \cup {"pre"} = {"enter", "measure", "pre"}
    OBVIOUS
  <2> QED
    BY <1>16, <2>1, Zenon
<1>18. Stage(returned, g, {"enter", "measure", "pre"} \cup {"ret"})
  BY <1>8, <1>9, <1>17, StageConcat
<1>19. Stage(returned, g, {"enter", "measure", "pre", "ret"})
  <2>1. {"enter", "measure", "pre"} \cup {"ret"} = {"enter", "measure", "pre", "ret"}
    OBVIOUS
  <2> QED
    BY <1>18, <2>1, Zenon
<1>20. Stage(ensured, g, {"enter", "measure", "pre", "ret"} \cup {"post"})
  BY <1>7, <1>9, <1>19, StageConcat
<1>21. Stage(ensured, g, {"enter", "measure", "pre", "ret", "post"})
  <2>1. {"enter", "measure", "pre", "ret"} \cup {"post"} = {"enter", "measure", "pre", "ret", "post"}
    OBVIOUS
  <2> QED
    BY <1>20, <2>1, Zenon
<1>22. ops = ensured \o last
  BY <1>3, <1>9 DEF FunctionOps, GenericsOps
<1>23. Stage(ops, g, {"enter", "measure", "pre", "ret", "post"} \cup {"emit"})
  BY <1>5, <1>21, <1>22, StageConcat
<1> QED
  BY <1>23 DEF Stage

(* The operations of a stub.                                                *)
LEMMA StubStage ==
  ASSUME crate \in Crates, NEW g \in DefIds, NEW ops, ops = StubOps(g)
  PROVE  Stage(ops, g, {"input", "stub"})
<1>1. PICK regs, bounds, inputs, results, last :
        /\ regs = Ops("reg", crate.tparams[g]) /\ bounds = Ops("type", crate.bounds[g])
        /\ inputs = [i \in DOMAIN crate.inputs[g] |-> [op |-> "input", arg |-> i]]
        /\ results = Ops("type", crate.types[g]) /\ last = One("stub", g)
  OBVIOUS
<1>2. Stage(regs, g, {}) /\ Stage(bounds, g, {}) /\ Stage(results, g, {})
  BY <1>1, CrateTypes, StageTypes
<1>3. Stage(last, g, {"stub"})
  BY <1>1, StageOne
<1>4. Stage(inputs, g, {"input"})
  <2>1. DOMAIN crate.inputs[g] = 1 .. Len(crate.inputs[g]) /\ Len(crate.inputs[g]) \in Nat
    BY CrateTypes, LenProperties
  <2>2. /\ inputs \in Seq(Op) /\ \A i \in DOMAIN inputs : inputs[i].op = "input"
    BY <1>1, <2>1 DEF Op
  <2> QED
    BY <2>2, StageInputs
<1>5. PICK generics, begun, front :
        generics = regs \o bounds /\ begun = generics \o inputs /\ front = begun \o results
  OBVIOUS
<1>6. Stage(generics, g, {} \cup {})
  BY <1>2, <1>5, StageConcat
<1>7. Stage(generics, g, {})
  BY <1>6, Zenon
<1>8. Stage(begun, g, {} \cup {"input"})
  BY <1>4, <1>5, <1>7, StageConcat
<1>9. Stage(front, g, ({} \cup {"input"}) \cup {})
  BY <1>2, <1>5, <1>8, StageConcat
<1>10. ops = front \o last
  BY <1>1, <1>5 DEF StubOps, GenericsOps
<1>11. Stage(ops, g, (({} \cup {"input"}) \cup {}) \cup {"stub"})
  BY <1>3, <1>9, <1>10, StageConcat
<1> QED
  BY <1>11 DEF Stage

----------------------------------------------------------------------------
(* Values of ADTs: those of bodies, which are of ADTs of the crate.         *)

(* What a body puts on the stack.                                           *)
LEMMA BodyValues ==
  ASSUME crate \in Crates, NoExternalValues(crate), NEW g \in UserFns(crate) \cup SpecFns(crate),
         NEW i \in DOMAIN crate.body[g], crate.body[g][i].op = "adt"
  PROVE  crate.body[g][i].arg \in LocalAdts(crate)
<1>1. PICK o \in Range(crate.body[g]) : o = crate.body[g][i]
  BY DEF Range
<1>2. WellFormed(crate)
  BY CrateLists
<1>3. o.arg \in LocalAdts(crate) \cup crate.external
  BY <1>1, <1>2 DEF WellFormed
<1>4. o.arg \notin crate.external
  BY <1>1 DEF NoExternalValues
<1> QED
  BY <1>1, <1>3, <1>4

(* Entering a body, of a function or of a spec function: its bindings and   *)
(* the types and parameters, then what it contains.                         *)
LEMMA EnteredBody ==
  ASSUME CompleteInv, Traversal, EnterBody \/ ExtractSpec
  PROVE  \E g, front :
           /\ g \in UserFns(crate) \cup SpecFns(crate)
           /\ g = Head(todo).arg /\ g \in DefIds /\ crate \in Crates /\ todo # <<>>
           /\ front = (IF Head(todo).op = "enter"
                         THEN BindingOps(g) \o Ops("type", crate.types[g]) \o Ops("param", crate.params[g])
                         ELSE BindingOps(g))
           /\ front \in Seq(Op) /\ crate.body[g] \in Seq(Op)
           /\ \A i \in DOMAIN front : front[i].op \in {"bind", "type", "param"}
           /\ Continue(front \o crate.body[g])
<1>1. PICK g : g = Head(todo).arg
  OBVIOUS
<1>2. todo # <<>> /\ crate \in Crates /\ ExtractionInv /\ Head(todo) = todo[1] /\ 1 \in DOMAIN todo
  BY TopOfStack DEF EnterBody, ExtractSpec, Execute, CompleteInv, ExtractionInv, TypeOK
<1>3. g \in UserFns(crate) \cup SpecFns(crate)
  BY <1>1, <1>2 DEF EnterBody, ExtractSpec, Execute, CompleteInv, FunctionsListed, Pending
<1>4. g \in DefIds
  BY <1>2, <1>3, CrateLists
<1>5. PICK binds, types, params, body :
        /\ binds = BindingOps(g) /\ types = Ops("type", crate.types[g])
        /\ params = Ops("param", crate.params[g]) /\ body = crate.body[g]
  OBVIOUS
<1>6. /\ binds \in Seq(Op) /\ \A i \in DOMAIN binds : binds[i].op = "bind"
      /\ types \in Seq(Op) /\ \A i \in DOMAIN types : types[i].op = "type"
      /\ params \in Seq(Op) /\ \A i \in DOMAIN params : params[i].op = "param"
      /\ body \in Seq(Op)
  BY <1>2, <1>4, <1>5, BindingOpsAre, BodyOpsAre, CrateTypes, DefOpsType, HirOpsType DEF DefOps, HirOps
<1>7. PICK typed, front : typed = binds \o types /\ front = typed \o params
  OBVIOUS
<1>8. /\ typed \in Seq(Op)
      /\ \A i \in DOMAIN typed : \/ i \in DOMAIN binds /\ typed[i] = binds[i]
                                 \/ i - Len(binds) \in DOMAIN types /\ typed[i] = types[i - Len(binds)]
  BY <1>6, <1>7, ConcatFrom
<1>9. /\ front \in Seq(Op)
      /\ \A i \in DOMAIN front : \/ i \in DOMAIN typed /\ front[i] = typed[i]
                                 \/ i - Len(typed) \in DOMAIN params /\ front[i] = params[i - Len(typed)]
  BY <1>6, <1>7, <1>8, ConcatFrom
<1>10. \A i \in DOMAIN front : front[i].op \in {"bind", "type", "param"}
  <2>1. \A i \in DOMAIN typed : typed[i].op \in {"bind", "type"}
    BY <1>6, <1>8
  <2> QED
    BY <1>6, <1>9, <2>1
<1>11. CASE Head(todo).op = "enter"
  <2>1. Continue(BindingOps(g) \o Ops("type", crate.types[g])
                   \o Ops("param", crate.params[g]) \o crate.body[g])
    BY <1>1, <1>11 DEF EnterBody, ExtractSpec, Execute
  <2>2. Continue(front \o body)
    BY <1>5, <1>7, <2>1
  <2>3. front = BindingOps(g) \o Ops("type", crate.types[g]) \o Ops("param", crate.params[g])
    BY <1>5, <1>7
  <2>4. /\ front = (IF Head(todo).op = "enter"
                      THEN BindingOps(g) \o Ops("type", crate.types[g]) \o Ops("param", crate.params[g])
                      ELSE BindingOps(g))
        /\ crate.body[g] \in Seq(Op) /\ Continue(front \o crate.body[g])
    BY <1>5, <1>6, <1>11, <2>2, <2>3
  <2> QED
    BY <1>1, <1>2, <1>3, <1>4, <1>9, <1>10, <2>4
<1>12. CASE Head(todo).op # "enter"
  <2>1. Continue(BindingOps(g) \o crate.body[g])
    BY <1>1, <1>12 DEF EnterBody, ExtractSpec, Execute
  <2> QED
    BY <1>1, <1>2, <1>3, <1>4, <1>5, <1>6, <1>12, <2>1
<1> QED
  BY <1>11, <1>12

(* One step once the ADTs are extracted.                                    *)
LEMMA ValuesKept ==
  ASSUME AttachInv, CompleteInv', AdtsOK, SpecsApart, NoExternalValues(crate), Next,
         phase' \in {"functions", "externals", "done"}
  PROVE  ValuesLocal'
<1>1. CompleteInv /\ ExtractionInv /\ crate \in Crates /\ crate' = crate
  BY DEF AttachInv, CompleteInv, ExtractionInv, TypeOK, Next, Discovery, VisitAdt, VisitFn,
    VisitedFns, VisitOther, DiscoveryDone, Discover, Loops, StartAdt, AdtsDone, StartFunction,
    FunctionsDone, StartStub, StubsDone, Traversal, TypeParameter, MentionType, ExtractAdt,
    Constructor, Field, SortBuilt, AddAdt, Call, EnterBody, KnownBinding, NewBinding,
    Parameter, VarRef, Unsupported, ExtractSpec, ReturnVar, AddFunction, StubInput, Execute,
    Panic
<1>2. CASE Discovery \/ StartAdt
  <2>1. phase' \in {"discover", "adts"}
    BY <1>2 DEF Discovery, VisitAdt, VisitFn, VisitedFns, VisitOther, DiscoveryDone, Discover,
      StartAdt, Idle
  <2> QED
    BY <2>1
<1>3. CASE AdtsDone \/ FunctionsDone \/ StubsDone
  <2>1. todo' = <<>>
    BY <1>3 DEF AdtsDone, FunctionsDone, StubsDone, Idle
  <2> QED
    BY <2>1 DEF ValuesLocal, Pending
<1>4. CASE StartFunction \/ StartStub
  <2>1. PICK g, parts : g \in DefIds /\ Stage(todo', g, parts)
    <3>1. CASE StartFunction
      <4>1. PICK g, ops : g = Head(fn_items) /\ ops = FunctionOps(g)
        OBVIOUS
      <4>2. todo' = ops /\ items = <<>> /\ fn_items # <<>> /\ fn_items \in Seq(DefIds)
        BY <1>1, <3>1, <4>1 DEF StartFunction, Idle, CompleteInv, ItemsKept, ExtractionInv, TypeOK
      <4>3. g \in DefIds /\ g \in UserFns(crate)
        BY <1>1, <4>1, <4>2, WaitingTail, HeadTailProperties DEF CompleteInv, FunctionsListed
      <4> QED
        BY <4>1, <4>2, <4>3, FunctionStage
    <3>2. CASE StartStub
      <4>1. PICK g \in stubs : todo' = StubOps(g)
        BY <3>2 DEF StartStub
      <4>2. g \in DefIds
        BY <1>1 DEF ExtractionInv, TypeOK
      <4> QED
        BY <1>1, <4>1, <4>2, StubStage
    <3> QED
      BY <1>4, <3>1, <3>2
  <2> QED
    BY <2>1 DEF Stage, ValuesLocal, Pending
<1>5. CASE Traversal
  <2>1. phase \in {"functions", "externals", "done"} \/ Panic
    BY <1>5 DEF Traversal, TypeParameter, MentionType, ExtractAdt, Constructor, Field,
      SortBuilt, AddAdt, Call, EnterBody, KnownBinding, NewBinding, Parameter, VarRef,
      Unsupported, ExtractSpec, ReturnVar, AddFunction, StubInput, Execute
  <2>2. phase \in {"functions", "externals", "done"}
    BY <2>1 DEF Panic
  <2>3. \A a : Pending("adt", a) => a \in LocalAdts(crate)
    BY <2>2 DEF AdtsOK, ValuesLocal
  <2>4. CASE Panic
    BY <1>1, <2>3, <2>4 DEF Panic, ValuesLocal, Pending
  <2>5. CASE ~Panic /\ ~EnterBody /\ ~ExtractSpec
    <3>1. PICK ops : todo # <<>> /\ Plain(ops) /\ Continue(ops)
      BY <1>1, <1>5, <2>5, TraversalPlain
    <3>2. \A a : Pending("adt", a)' => Pending("adt", a)
      BY <1>1, <3>1, PlainMoves DEF PlainKinds
    <3> QED
      BY <1>1, <2>3, <3>2 DEF ValuesLocal
  <2>6. CASE EnterBody \/ ExtractSpec
    <3>1. PICK g, front, body :
            /\ g \in UserFns(crate) \cup SpecFns(crate)
            /\ todo # <<>> /\ front \in Seq(Op) /\ body \in Seq(Op) /\ body = crate.body[g]
            /\ \A i \in DOMAIN front : front[i].op \in {"bind", "type", "param"}
            /\ Continue(front \o body)
      <4>1. PICK g, front :
              /\ g \in UserFns(crate) \cup SpecFns(crate)
              /\ todo # <<>> /\ front \in Seq(Op) /\ crate.body[g] \in Seq(Op)
              /\ \A i \in DOMAIN front : front[i].op \in {"bind", "type", "param"}
              /\ Continue(front \o crate.body[g])
        BY <1>1, <1>5, <2>6, EnteredBody
      <4> QED
        BY <4>1
    <3>2. PICK ops : ops = front \o body
      OBVIOUS
    <3>3. /\ ops \in Seq(Op)
          /\ \A i \in DOMAIN ops : \/ i \in DOMAIN front /\ ops[i] = front[i]
                                   \/ i - Len(front) \in DOMAIN body /\ ops[i] = body[i - Len(front)]
      BY <3>1, <3>2, ConcatFrom
    <3>4. \A i \in DOMAIN body : body[i].op = "adt" => body[i].arg \in LocalAdts(crate)
      BY <1>1, <3>1, BodyValues
    <3>5. \A i \in DOMAIN ops : ops[i].op = "adt" => ops[i].arg \in LocalAdts(crate)
      BY <3>1, <3>3, <3>4
    <3>6. todo \in Seq(Op) /\ Continue(ops)
      BY <1>1, <3>1, <3>2 DEF ExtractionInv, TypeOK
    <3>7. \A i \in DOMAIN todo' : \/ i \in DOMAIN ops /\ todo'[i] = ops[i]
                                  \/ \E j \in DOMAIN todo : todo'[i] = todo[j]
      BY <3>1, <3>3, <3>6, Continued
    <3>8. \A a : Pending("adt", a)' => a \in LocalAdts(crate)
      BY <2>3, <3>5, <3>7 DEF Pending
    <3> QED
      BY <1>1, <3>8 DEF ValuesLocal
  <2> QED
    BY <2>4, <2>5, <2>6
<1> QED
  BY <1>2, <1>3, <1>4, <1>5 DEF Next, Loops

(* What is said of ADTs is kept by every step.                              *)
LEMMA AdtsStep ==
  ASSUME AttachInv, CompleteInv', UniqueGlobalIds', DidKept, AdtsOK, SpecsApart,
         NoExternalValues(crate), Next
  PROVE  AdtsOK'
<1>1. CompleteInv
  BY DEF AttachInv
<1>2. CASE phase' \in {"functions", "externals", "done"}
  BY <1>1, <1>2, ValuesKept, TypesOver
<1>3. CASE phase' \in {"discover", "adts"}
  <2>1. CASE Discovery
    BY <2>1, AdtsDiscovery
  <2>2. CASE Loops
    <3>1. StartAdt
      BY <1>3, <2>2 DEF Loops, AdtsDone, StartFunction, FunctionsDone, StartStub, StubsDone, Idle
    <3> QED
      BY <1>1, <3>1, StartAdtBackward
  <2>3. CASE Traversal
    <3>1. todo # <<>> /\ phase \in {"discover", "adts"}
      BY <1>3, <2>3 DEF Traversal, TypeParameter, MentionType, ExtractAdt, Constructor, Field,
        SortBuilt, AddAdt, Call, EnterBody, KnownBinding, NewBinding, Parameter, VarRef,
        Unsupported, ExtractSpec, ReturnVar, AddFunction, StubInput, Execute, Panic
    <3>2. phase = "adts"
      BY <1>1, <3>1 DEF CompleteInv, ItemsKept
    <3> QED
      BY <1>1, <2>3, <3>2, AdtsTraversal
  <2> QED
    BY <2>1, <2>2, <2>3 DEF Next
<1>4. phase' \in Phases
  BY DEF CompleteInv, ExtractionInv, TypeOK
<1> QED
  BY <1>2, <1>3, <1>4 DEF Phases

(* It holds of the crate the visitor starts on: a crate in which types are  *)
(* declared before they are mentioned.                                      *)
LEMMA AdtsInit ==
  ASSUME Init, BackwardTypes(crate)
  PROVE  AdtsOK
<1>1. /\ items = crate.items /\ adt_items = <<>> /\ todo = <<>> /\ phase = "discover"
      /\ crate \in Crates /\ DOMAIN did_to_stid = {}
  BY DEF Init, MappingInit
<1>2. \A kind, d : ~Pending(kind, d)
  BY <1>1 DEF Pending
<1>3. \A d : ~IsRegistered(d) /\ ~Waiting(adt_items, d)
  BY <1>1 DEF IsRegistered, Waiting
<1>4. TypesBackward /\ AdtsOnce /\ ValuesLocal
  BY <1>1, <1>2 DEF TypesBackward, AdtsOnce, ValuesLocal
<1>5. AdtsNew
  BY <1>1, <1>2, <1>3 DEF AdtsNew
<1>6. AdtsBackward
  BY <1>1 DEF AdtsBackward
<1>7. crate.items \in Seq(Item)
  <2>1. crate \in Crate
    BY <1>1, ExtractionAssumption
  <2> QED
    BY <2>1 DEF Crate
<1>8. ItemsBackward
  <2>1. ASSUME NEW i \in DOMAIN items, items[i].kind = "adt", NEW a \in items[i].defs,
               NEW b \in Mentions(crate, a)
        PROVE  Claimed(b) \/ \E j \in DOMAIN items : j <= i /\ items[j].kind = "adt" /\ b \in items[j].defs
    <3>1. b \in crate.external \/ \E j \in 1 .. i : items[j].kind = "adt" /\ b \in items[j].defs
      BY <1>1, <2>1 DEF BackwardTypes
    <3>2. \A j \in 1 .. i : j \in DOMAIN items /\ j <= i
      BY <1>1, <1>7, LenProperties
    <3> QED
      BY <3>1, <3>2 DEF Claimed, Settled
  <2> QED
    BY <2>1 DEF ItemsBackward
<1> QED
  BY <1>4, <1>5, <1>6, <1>8 DEF AdtsOK

----------------------------------------------------------------------------
(* Contracts: bindings, variables and parameters.                           *)

(* What a stack has.                                                        *)
Has(ops, kind, d) == \E i \in DOMAIN ops : ops[i].op = kind /\ ops[i].arg = d

(* Stacks put together have what their parts have.                          *)
LEMMA HasConcat ==
  ASSUME NEW s \in Seq(Op), NEW t \in Seq(Op), NEW st, st = s \o t,
         NEW kind, NEW d, Has(s, kind, d) \/ Has(t, kind, d)
  PROVE  st \in Seq(Op) /\ Has(st, kind, d)
<1>1. /\ s \o t \in Seq(Op)
      /\ \A i \in DOMAIN s : i \in DOMAIN (s \o t) /\ (s \o t)[i] = s[i]
      /\ \A i \in DOMAIN t : Len(s) + i \in DOMAIN (s \o t) /\ (s \o t)[Len(s) + i] = t[i]
  BY ConcatFrom
<1>2. /\ \A j \in DOMAIN s : \E i \in DOMAIN st : st[i] = s[j]
      /\ \A j \in DOMAIN t : \E i \in DOMAIN st : st[i] = t[j]
  BY <1>1
<1> QED
  BY <1>1, <1>2 DEF Has

(* populate_def_context goes through all parameters and bindings.           *)
LEMMA BindingOpsHave ==
  ASSUME crate \in Crates, NEW g \in DefIds, NEW h \in Own(g)
  PROVE  Has(BindingOps(g), "bind", h)
<1>1. PICK params, locals, collected, all :
        /\ params = Ops("bind", crate.params[g]) /\ locals = Ops("bind", crate.locals[g])
        /\ collected = params \o locals /\ all = params \o collected
  OBVIOUS
<1>2. /\ params \in Seq(Op) /\ DOMAIN params = DOMAIN crate.params[g]
      /\ \A i \in DOMAIN params : params[i].op = "bind" /\ params[i].arg = crate.params[g][i]
  BY <1>1, CrateTypes, HirOpsType DEF HirOps
<1>3. /\ locals \in Seq(Op) /\ DOMAIN locals = DOMAIN crate.locals[g]
      /\ \A i \in DOMAIN locals : locals[i].op = "bind" /\ locals[i].arg = crate.locals[g][i]
  BY <1>1, CrateTypes, HirOpsType DEF HirOps
<1>4. Has(params, "bind", h) \/ Has(locals, "bind", h)
  BY <1>2, <1>3 DEF Own, Range, Has
<1>5. collected \in Seq(Op)
  BY <1>1, <1>2, <1>3, ConcatFrom
<1>6. Has(locals, "bind", h) => Has(collected, "bind", h)
  BY <1>1, <1>2, <1>3, HasConcat
<1>7. Has(params, "bind", h) \/ Has(collected, "bind", h)
  BY <1>4, <1>6
<1>8. Has(all, "bind", h)
  BY <1>1, <1>2, <1>5, <1>7, HasConcat
<1>9. all = BindingOps(g)
  BY <1>1 DEF BindingOps, Collected
<1> QED
  BY <1>8, <1>9

(* extract_local_fn enters the function's body.                             *)
LEMMA FunctionEnters ==
  ASSUME CompleteInv, NEW g \in DefIds, NEW ops, ops = FunctionOps(g)
  PROVE  Has(ops, "enter", g)
<1>1. \E n : EnterAt(ops, n)
  BY FunctionShape DEF CompleteInv
<1>2. \A i \in DOMAIN ops : ops[i].op = "enter" => ops[i].arg = g
  BY FunctionBegins DEF Begins
<1> QED
  BY <1>1, <1>2 DEF EnterAt, Has

(* What is said of the stack's order is kept when the operation on top is   *)
(* replaced by types.                                                       *)
LEMMA ApartKept ==
  ASSUME ExtractionInv, SpecsApart, todo # <<>>, NEW ops \in Seq(Op), Continue(ops),
         \A i \in DOMAIN ops : ops[i].op \notin {"enter", "spec", "emit"},
         UNCHANGED <<crate, fn_items, specs>>, fd'.def = fd.def
  PROVE  SpecsApart'
<1> DEFINE below(i) == i - Len(ops) + 1
<1>1. todo \in Seq(Op) /\ Len(ops) \in Nat /\ \A i \in DOMAIN todo' : i \in Nat
  <2>1. todo \in Seq(Op) /\ Len(ops) \in Nat
    BY LenProperties DEF ExtractionInv, TypeOK
  <2>2. todo' \in Seq(Op)
    BY <2>1, Continued
  <2> QED
    BY <2>1, <2>2, LenProperties
<1>2. \A i \in DOMAIN todo' : todo'[i].op \in {"enter", "spec", "emit"} =>
        below(i) \in DOMAIN todo /\ todo'[i] = todo[below(i)]
  <2>1. \A i \in DOMAIN todo' :
          \/ i \in DOMAIN ops /\ todo'[i] = ops[i]
          \/ below(i) \in DOMAIN todo /\ todo'[i] = todo[below(i)]
    BY <1>1, Continued
  <2> QED
    BY <2>1
<1>3. ASSUME NEW i \in DOMAIN todo', NEW j \in DOMAIN todo', todo'[i].op \in {"enter", "spec"},
             todo'[i] = todo'[j]
      PROVE  i = j
  <2>1. PICK k, l : k = below(i) /\ l = below(j)
    OBVIOUS
  <2>2. k \in DOMAIN todo /\ l \in DOMAIN todo /\ todo[k] = todo[l] /\ todo[k].op \in {"enter", "spec"}
    BY <1>2, <1>3, <2>1
  <2>3. k = l
    BY <2>2 DEF SpecsApart
  <2> QED
    BY <1>1, <2>1, <2>3
<1>4. ASSUME NEW i \in DOMAIN todo', NEW j \in DOMAIN todo', todo'[i].op = "enter", todo'[j].op = "spec"
      PROVE  i < j
  <2>1. PICK k, l : k = below(i) /\ l = below(j)
    OBVIOUS
  <2>2. k \in DOMAIN todo /\ l \in DOMAIN todo /\ todo[k].op = "enter" /\ todo[l].op = "spec"
    BY <1>2, <1>4, <2>1
  <2>3. k < l
    BY <2>2 DEF SpecsApart
  <2> QED
    BY <1>1, <2>1, <2>3
<1>5. \A s : Pending("spec", s)' => Pending("spec", s)
  BY <1>2 DEF Pending
<1>6. \A s : Pending("spec", s)' => crate'.spec_of[s] = fd'.def /\ fd'.def \in UserFns(crate')
  BY <1>5 DEF SpecsApart
<1>7. \A i \in DOMAIN todo' : todo'[i].op \in {"enter", "spec", "emit"} => ~Waiting(fn_items', fd'.def)
  <2>1. ASSUME NEW i \in DOMAIN todo', todo'[i].op \in {"enter", "spec", "emit"}
        PROVE  ~Waiting(fn_items, fd.def)
    BY <1>2, <2>1 DEF SpecsApart
  <2> QED
    BY <2>1 DEF Waiting
<1>8. \A g \in DefIds, t \in SpecTypes : \A i \in DOMAIN specs'[g][t] :
        crate'.spec_of[specs'[g][t][i]] = g
  BY DEF SpecsApart
<1> QED
  BY <1>3, <1>4, <1>6, <1>7, <1>8 DEF SpecsApart, Waiting

(* Most operations of the traversal add to the context at most.             *)
LEMMA ContractsPlain ==
  ASSUME CompleteInv, ContractsOK, todo # <<>>, NEW ops, Plain(ops), Continue(ops),
         UNCHANGED <<crate, phase, fn_items, specs>>, fd'.def = fd.def,
         Head(todo).op \notin {"enter", "spec"},
         DOMAIN dcx \subseteq DOMAIN dcx',
         Head(todo).op = "bind" => Head(todo).arg \in DOMAIN dcx',
         \A h \in DOMAIN hid_to_stid' : h \notin DOMAIN hid_to_stid =>
           Head(todo).op = "bind" /\ h = Head(todo).arg /\ h \notin DOMAIN dcx,
         \/ Head(todo).op = "input"
         \/ Head(todo).op = "param" /\ Len(fd'.params) = Len(fd.params) + 1
         \/ Head(todo).op # "param" /\ fd'.params = fd.params
  PROVE  ContractsOK'
<1>1. /\ ExtractionInv /\ crate \in Crates /\ todo \in Seq(Op) /\ ops \in Seq(Op)
      /\ Head(todo) = todo[1] /\ 1 \in DOMAIN todo
      /\ \A i \in DOMAIN ops : ops[i].op \in PlainKinds
  BY TopOfStack DEF CompleteInv, ExtractionInv, TypeOK, Plain
<1>2. /\ \A kind : kind \notin PlainKinds => \A d : Pending(kind, d)' => Pending(kind, d)
      /\ \A kind, d : Pending(kind, d) =>
           Pending(kind, d)' \/ (Head(todo).op = kind /\ Head(todo).arg = d)
      /\ \A kinds : kinds \cap PlainKinds = {} /\ NonePending(kinds) => NonePending(kinds)'
  BY <1>1, PlainMoves
<1>3. /\ \A d : Pending("bind", d)' => Pending("bind", d)
      /\ \A d : Pending("enter", d)' => Pending("enter", d)
      /\ \A d : Pending("spec", d)' => Pending("spec", d)
      /\ \A d : Pending("param", d)' => Pending("param", d)
      /\ \A d : Pending("var", d)' => Pending("var", d)
  BY <1>2 DEF PlainKinds
<1>4. \A g : NotBegun(g)' => NotBegun(g)
  BY <1>3 DEF NotBegun, Waiting
<1>5. \A h \in DOMAIN hid_to_stid' : h \notin DOMAIN hid_to_stid => BindingNew(h)
  <2>1. ASSUME NEW h \in DOMAIN hid_to_stid', h \notin DOMAIN hid_to_stid PROVE BindingNew(h)
    <3>1. Pending("bind", h) /\ h \notin DOMAIN dcx
      BY <1>1, <2>1 DEF Pending
    <3> QED
      BY <3>1 DEF ContractsOK, BindingsNew
  <2> QED
    BY <2>1
<1>6. BindingsNew'
  <2>1. phase' # "discover"
    BY DEF CompleteInv, ItemsKept
  <2>2. ASSUME NEW g \in UserFns(crate) \cup SpecFns(crate), NotBegun(g)'
        PROVE  Own(g) \cap DOMAIN hid_to_stid' = {}
    <3>1. NotBegun(g)
      BY <1>4, <2>2
    <3>2. Own(g) \cap DOMAIN hid_to_stid = {}
      BY <3>1 DEF ContractsOK, BindingsNew
    <3>3. \A h \in DOMAIN hid_to_stid' : h \notin DOMAIN hid_to_stid => h \notin Own(g)
      BY <1>5, <3>1 DEF BindingNew
    <3> QED
      BY <3>2, <3>3
  <2>3. ASSUME NEW h, Pending("bind", h)', h \notin DOMAIN dcx'
        PROVE  BindingNew(h)'
    <3>1. h \notin DOMAIN dcx /\ Pending("bind", h)
      BY <1>3, <2>3
    <3>2. BindingNew(h)
      BY <3>1 DEF ContractsOK, BindingsNew
    <3>3. h \notin DOMAIN hid_to_stid'
      BY <2>3, <3>2 DEF BindingNew
    <3>4. \A g \in UserFns(crate) \cup SpecFns(crate) : NotBegun(g)' => h \notin Own(g)
      BY <1>4, <3>2 DEF BindingNew
    <3>5. h \notin crate.complex
      BY <3>2 DEF BindingNew
    <3> QED
      BY <3>3, <3>4, <3>5 DEF BindingNew, Own
  <2>4. \A g \in UserFns(crate') \cup SpecFns(crate') : NotBegun(g)' => Own(g)' \cap DOMAIN hid_to_stid' = {}
    BY <2>2 DEF Own
  <2>5. \A h : Pending("bind", h)' => h \in DOMAIN dcx' \/ BindingNew(h)'
    BY <2>3
  <2> QED
    BY <2>1, <2>4, <2>5 DEF BindingsNew
<1>7. VariablesBound'
  <2>1. ASSUME NEW h, Pending("param", h)' \/ Pending("var", h)'
        PROVE  h \in DOMAIN dcx' \/ Pending("bind", h)'
    <3>1. h \in DOMAIN dcx \/ Pending("bind", h)
      BY <1>3, <2>1 DEF ContractsOK, VariablesBound
    <3> QED
      BY <1>2, <3>1
  <2> QED
    BY <2>1 DEF VariablesBound
<1>8. SpecsApart'
  BY <1>1, ApartKept DEF ContractsOK, PlainKinds
<1>9. ParametersAhead'
  <2>1. ASSUME NEW s, Pending("spec", s)'
        PROVE  /\ NonePending({"input"})'
               /\ Pending("enter", fd.def)' => fd'.params = <<>> /\ NonePending({"param"})'
               /\ ~Pending("enter", fd.def)' => \E k \in Int : ParamsFrom(k)'
    <3>1. Pending("spec", s)
      BY <1>3, <2>1
    <3>2. NonePending({"input"}) /\ Head(todo).op # "input"
      BY <1>1, <3>1 DEF ContractsOK, ParametersAhead, NonePending
    <3>3. NonePending({"input"})'
      BY <1>2, <3>2 DEF PlainKinds
    <3>4. Pending("enter", fd.def)' <=> Pending("enter", fd.def)
      BY <1>2, <1>3
    <3>5. ASSUME Pending("enter", fd.def) PROVE fd'.params = <<>> /\ NonePending({"param"})'
      <4>1. fd.params = <<>> /\ NonePending({"param"}) /\ Head(todo).op # "param"
        BY <1>1, <3>1, <3>5 DEF ContractsOK, ParametersAhead, NonePending
      <4>2. NonePending({"param"})'
        BY <1>2, <4>1 DEF PlainKinds
      <4> QED
        BY <3>2, <4>1, <4>2
    <3>6. ASSUME ~Pending("enter", fd.def) PROVE \E k \in Int : ParamsFrom(k)'
      <4>1. PICK k \in Int : ParamsFrom(k)
        BY <3>1, <3>6 DEF ContractsOK, ParametersAhead
      <4>2. fd \in FunDef
        BY <1>1, <3>1 DEF Pending, ExtractionInv, StackOK, InFunction, FnOps
      <4>3. Len(fd.params) \in Nat /\ Len(crate.params[fd.def]) \in Nat
        <5>1. fd.params \in Seq(SymbolId) /\ fd.def \in DefIds
          BY <4>2, FunDefType
        <5>2. crate.params[fd.def] \in Seq(HirIds)
          BY <1>1, <5>1, CrateTypes
        <5> QED
          BY <5>1, <5>2, LenProperties
      <4>4. \/ Head(todo).op # "param" /\ fd'.params = fd.params
            \/ Head(todo).op = "param" /\ Len(fd'.params) = Len(fd.params) + 1
        BY <3>2
      <4>5. \A i \in DOMAIN ops : ops[i].op # "param"
        BY <1>1 DEF PlainKinds
      <4> QED
        BY <1>1, <4>1, <4>3, <4>4, <4>5, ParamsShift
    <3> QED
      BY <3>3, <3>4, <3>5, <3>6
  <2>2. (\E s : Pending("spec", s)') =>
           /\ NonePending({"input"})'
           /\ Pending("enter", fd.def)' => fd'.params = <<>> /\ NonePending({"param"})'
           /\ ~Pending("enter", fd.def)' => \E k \in Int : ParamsFrom(k)'
    BY <2>1
  <2> QED
    BY <2>2 DEF ParametersAhead
<1> QED
  BY <1>6, <1>7, <1>8, <1>9 DEF ContractsOK

(* Operations are what they are.                                            *)
LEMMA OpsEqual ==
  ASSUME NEW o \in Op, NEW p \in Op, o.op = p.op, o.arg = p.arg
  PROVE  o = p
  BY DEF Op

(* A body is entered when nothing of the former context is left.            *)
LEMMA NoContext ==
  ASSUME ExtractionInv, todo # <<>>, Ordered(todo), Head(todo).op \in {"enter", "spec"}
  PROVE  NonePending(Contextual)
<1>1. Head(todo) = todo[1] /\ 1 \in DOMAIN todo /\ \A i \in DOMAIN todo : i \in Nat \ {0}
  BY TopOfStack, LenProperties DEF ExtractionInv, TypeOK
<1>2. \A i \in DOMAIN todo : ~Earlier(todo[i].op, todo[1].op)
  BY <1>1 DEF Ordered
<1> QED
  BY <1>1, <1>2 DEF NonePending, Contextual, Earlier

(* What entering a body puts on the stack: its own bindings, all of them,   *)
(* before its own parameters and uses of variables.                         *)
EntersBody(ops, g) ==
  /\ ops \in Seq(Op)
  /\ \A i \in DOMAIN ops :
       /\ ops[i].op \notin {"enter", "spec", "emit", "input"}
       /\ ops[i].op \in Contextual => ops[i].arg \in Own(g)
  /\ \A h \in Own(g) : Has(ops, "bind", h)

(* What comes before the body: bindings, types and parameters.              *)
Front(front, g) ==
  /\ front \in Seq(Op)
  /\ \A i \in DOMAIN front :
       /\ front[i].op \in {"bind", "type", "param"}
       /\ front[i].op \in Contextual => front[i].arg \in Own(g)
  /\ \A h \in Own(g) : Has(front, "bind", h)
(* The parameters are there, and nowhere in the body.                       *)
ParametersIn(front, ops) ==
  /\ \A i \in DOMAIN ops : ops[i].op = "param" => i \in DOMAIN front /\ ops[i] = front[i]
  /\ \A i \in DOMAIN front : i \in DOMAIN ops /\ ops[i] = front[i]

(* With them a body is entered (extract_body).                              *)
LEMMA EntersOwn ==
  ASSUME crate \in Crates, NEW g \in UserFns(crate) \cup SpecFns(crate),
         NEW front, Front(front, g), NEW ops, ops = front \o crate.body[g]
  PROVE  EntersBody(ops, g) /\ ParametersIn(front, ops)
<1>1. PICK body : body = crate.body[g]
  OBVIOUS
<1>a. /\ front \in Seq(Op)
      /\ \A i \in DOMAIN front : /\ front[i].op \in {"bind", "type", "param"}
                                 /\ front[i].op \in Contextual => front[i].arg \in Own(g)
      /\ \A h \in Own(g) : Has(front, "bind", h)
  BY DEF Front
<1>2. g \in DefIds /\ WellFormed(crate)
  BY CrateLists
<1>3. body \in Seq(Op) /\ Lacks(body, {"bind", "param", "enter", "spec", "ret"})
  BY <1>1, <1>2, BodyOpsAre
<1>4. /\ ops \in Seq(Op)
      /\ \A i \in DOMAIN ops : \/ i \in DOMAIN front /\ ops[i] = front[i]
                               \/ i - Len(front) \in DOMAIN body /\ ops[i] = body[i - Len(front)]
      /\ \A i \in DOMAIN front : i \in DOMAIN ops /\ ops[i] = front[i]
  BY <1>1, <1>3, <1>a, ConcatFrom
<1>5. ASSUME NEW i \in DOMAIN body
      PROVE  /\ body[i].op \notin {"bind", "param", "enter", "spec", "emit", "input"}
             /\ body[i].op = "var" => body[i].arg \in Own(g)
  <2>1. PICK o \in Range(body) : o = body[i]
    BY DEF Range
  <2>2. o.op = "var" => o.arg \in Range(crate.params[g]) \cup Range(crate.locals[g])
    BY <1>1, <1>2, <2>1 DEF WellFormed
  <2>3. body[i] \in BodyOp
    BY <1>1, <1>2, CrateTypes, LenProperties
  <2>4. body[i].op \in {"call", "adt", "type", "var", "unsupported"}
    BY <2>3 DEF BodyOp
  <2> QED
    BY <2>1, <2>2, <2>4 DEF Own
<1>6. \A i \in DOMAIN ops :
        /\ ops[i].op \notin {"enter", "spec", "emit", "input"}
        /\ ops[i].op \in Contextual => ops[i].arg \in Own(g)
  BY <1>4, <1>5, <1>a DEF Contextual
<1>7. \A i \in DOMAIN ops : ops[i].op = "param" => i \in DOMAIN front /\ ops[i] = front[i]
  BY <1>4, <1>5
<1>8. \A h \in Own(g) : Has(ops, "bind", h)
  BY <1>4, <1>a DEF Has
<1> QED
  BY <1>4, <1>6, <1>7, <1>8 DEF EntersBody, ParametersIn

(* enter_body, of a function or of a spec function: its bindings are new,   *)
(* or stand for variables of the function specified.                        *)
LEMMA BodyContracts ==
  ASSUME CompleteInv, CompleteInv', ContractsOK, Ordered(todo), OwnBody,
         todo # <<>>, Head(todo).op \in {"enter", "spec"},
         NEW g, g = Head(todo).arg, NEW ops, EntersBody(ops, g), Continue(ops),
         UNCHANGED <<crate, phase, fn_items, specs, hid_to_stid>>, fd'.def = fd.def,
         \A h \in Own(g) : h \in DOMAIN dcx' \/ h \notin crate.complex
  PROVE  BindingsNew' /\ VariablesBound' /\ SpecsApart'
<1> DEFINE below(i) == i - Len(ops) + 1
<1>1. /\ ExtractionInv /\ crate \in Crates /\ todo \in Seq(Op) /\ ops \in Seq(Op)
      /\ Head(todo) = todo[1] /\ 1 \in DOMAIN todo /\ todo[1] \in Op
  BY TopOfStack DEF CompleteInv, ExtractionInv, TypeOK, EntersBody
<1>2. NonePending(Contextual)
  BY <1>1, NoContext
<1>3. /\ \A i \in DOMAIN todo' :
           \/ i \in DOMAIN ops /\ todo'[i] = ops[i]
           \/ below(i) \in DOMAIN todo /\ below(i) >= 2 /\ todo'[i] = todo[below(i)]
      /\ \A i \in DOMAIN ops : i \in DOMAIN todo' /\ todo'[i] = ops[i]
  <2>1. /\ \A i \in DOMAIN todo' :
             \/ i \in DOMAIN ops /\ todo'[i] = ops[i]
             \/ below(i) \in DOMAIN todo /\ below(i) >= 2 /\ todo'[i] = todo[below(i)]
    BY <1>1, Continued
  <2>2. \A i \in DOMAIN ops : i \in DOMAIN todo' /\ todo'[i] = ops[i]
    <3>1. PICK rest : rest = Tail(todo)
      OBVIOUS
    <3>2. rest \in Seq(Op) /\ todo' = ops \o rest
      BY <1>1, <3>1, HeadTailProperties DEF Continue
    <3> QED
      BY <1>1, <3>2, ConcatFrom
  <2> QED
    BY <2>1, <2>2
<1>4. WellFormed(crate)
  BY <1>1, CrateLists
<1>5. \A f, h \in UserFns(crate) \cup SpecFns(crate) : f # h => Own(f) \cap Own(h) = {}
  BY <1>4 DEF WellFormed, Own
<1>6. SpecsApart'
  BY <1>1, ApartKept DEF ContractsOK, EntersBody
<1>7. /\ g \in UserFns(crate) \cup SpecFns(crate) /\ NotBegun(g)
      /\ Head(todo).op = "enter" => g \in UserFns(crate) /\ g = fd.def
      /\ Head(todo).op = "spec" => g \in SpecFns(crate) /\ crate.spec_of[g] = fd.def
      /\ ~Waiting(fn_items, fd.def)
  <2>1. Pending(Head(todo).op, g)
    BY <1>1 DEF Pending
  <2>2. Head(todo).op = "enter" => g \in UserFns(crate) /\ g = fd.def
    BY <1>1, <2>1 DEF CompleteInv, FunctionsListed, OwnBody
  <2>3. Head(todo).op = "spec" => g \in SpecFns(crate) /\ crate.spec_of[g] = fd.def
    BY <2>1 DEF CompleteInv, FunctionsListed, ContractsOK, SpecsApart
  <2>4. ~Waiting(fn_items, fd.def)
    BY <1>1 DEF ContractsOK, SpecsApart
  <2> QED
    BY <2>1, <2>2, <2>3, <2>4 DEF NotBegun
<1>8. \A f : NotBegun(f)' => NotBegun(f)
  <2>1. /\ \A d : Pending("enter", d)' => Pending("enter", d)
        /\ \A d : Pending("spec", d)' => Pending("spec", d)
    BY <1>3 DEF Pending, EntersBody
  <2> QED
    BY <2>1 DEF NotBegun, Waiting
<1>9. ~NotBegun(g)'
  <2>1. UserFns(crate) \cap SpecFns(crate) = {}
    BY DEF SpecFns
  <2>2. ~Waiting(fn_items', g)
    <3>1. CASE Head(todo).op = "enter"
      BY <1>7, <3>1 DEF Waiting
    <3>2. CASE Head(todo).op = "spec"
      BY <1>7, <2>1, <3>2 DEF Waiting, CompleteInv, FunctionsListed
    <3> QED
      BY <3>1, <3>2
  <2>3. ASSUME NEW kind \in {"enter", "spec"}, Pending(kind, g)' PROVE FALSE
    <3>1. kind = Head(todo).op
      <4>1. /\ kind = "enter" => g \in UserFns(crate)
            /\ kind = "spec" => g \in SpecFns(crate)
        BY <2>3 DEF CompleteInv, FunctionsListed
      <4> QED
        BY <1>7, <2>1, <4>1
    <3>2. PICK j \in DOMAIN todo : j >= 2 /\ todo[j].op = kind /\ todo[j].arg = g
      BY <1>3, <2>3 DEF Pending, EntersBody
    <3>3. todo[j] \in Op
      BY <1>1, LenProperties
    <3>4. todo[j] = todo[1]
      BY <1>1, <3>1, <3>2, <3>3, OpsEqual
    <3>5. j = 1
      BY <1>1, <3>2, <3>4 DEF ContractsOK, SpecsApart
    <3> QED
      BY <3>2, <3>5
  <2>4. ~(g \in SpecFns(crate) /\ Waiting(fn_items', crate.spec_of[g]))
    BY <1>7, <2>1 DEF Waiting
  <2>5. UNCHANGED <<crate, fn_items>>
    OBVIOUS
  <2> QED
    BY <2>2, <2>3, <2>4, <2>5 DEF NotBegun
<1>10. Own(g) \cap DOMAIN hid_to_stid = {}
  BY <1>7 DEF ContractsOK, BindingsNew
<1>11. \A h : Pending("bind", h)' => h \in Own(g)
  BY <1>2, <1>3 DEF Pending, NonePending, Contextual, EntersBody
<1>12. BindingsNew'
  <2>1. phase' # "discover"
    BY DEF CompleteInv, ItemsKept
  <2>2. \A f \in UserFns(crate') \cup SpecFns(crate') : NotBegun(f)' => Own(f)' \cap DOMAIN hid_to_stid' = {}
    <3>1. \A f \in UserFns(crate) \cup SpecFns(crate) : NotBegun(f) => Own(f) \cap DOMAIN hid_to_stid = {}
      BY DEF ContractsOK, BindingsNew
    <3> QED
      BY <1>8, <3>1 DEF Own
  <2>3. ASSUME NEW h \in Own(g), h \notin DOMAIN dcx' PROVE BindingNew(h)'
    <3>1. h \notin DOMAIN hid_to_stid' /\ h \notin crate'.complex
      BY <1>10, <2>3
    <3>2. \A f \in UserFns(crate) \cup SpecFns(crate) : NotBegun(f)' => h \notin Own(f)
      BY <1>5, <1>7, <1>9
    <3> QED
      BY <3>1, <3>2 DEF BindingNew, Own
  <2>4. \A h : Pending("bind", h)' => h \in DOMAIN dcx' \/ BindingNew(h)'
    BY <1>11, <2>3
  <2> QED
    BY <2>1, <2>2, <2>4 DEF BindingsNew
<1>13. VariablesBound'
  <2>1. \A h : Pending("param", h)' \/ Pending("var", h)' => h \in Own(g)
    BY <1>2, <1>3 DEF Pending, NonePending, Contextual, EntersBody
  <2>2. \A h \in Own(g) : Pending("bind", h)'
    BY <1>3 DEF Pending, EntersBody, Has
  <2> QED
    BY <2>1, <2>2 DEF VariablesBound
<1> QED
  BY <1>6, <1>12, <1>13

(* The body of the function: its parameters are next to each other before   *)
(* what it contains.                                                        *)
LEMMA EnterBodyContracts ==
  ASSUME CompleteInv, CompleteInv', ContractsOK, Ordered(todo), OwnBody,
         SimpleParams(crate), EnterBody
  PROVE  ContractsOK'
<1>1. PICK g : g = Head(todo).arg
  OBVIOUS
<1>2. PICK b, t, p, bt, front, ops :
        /\ b = BindingOps(g) /\ t = Ops("type", crate.types[g])
        /\ p = Ops("param", crate.params[g])
        /\ bt = b \o t /\ front = bt \o p /\ ops = front \o crate.body[g]
  OBVIOUS
<1>3. /\ ExtractionInv /\ crate \in Crates /\ todo \in Seq(Op) /\ todo # <<>>
      /\ Head(todo).op = "enter" /\ g \in DefIds /\ fd \in FunDef
      /\ Head(todo) = todo[1] /\ 1 \in DOMAIN todo /\ todo[1] \in Op
  <2>1. ExtractionInv /\ crate \in Crates /\ todo \in Seq(Op)
    BY DEF CompleteInv, ExtractionInv, TypeOK
  <2>2. todo # <<>> /\ Head(todo).op = "enter" /\ g \in DefIds /\ fd \in FunDef
    BY <1>1, <2>1, TopArg DEF EnterBody, DefOps, FnOps
  <2> QED
    BY <2>1, <2>2, TopOfStack
<1>4. /\ UNCHANGED <<crate, phase, fn_items, specs, hid_to_stid>> /\ fd' = fd /\ Continue(ops)
  BY <1>1, <1>2 DEF EnterBody, Execute, discovery_vars, mapping_vars
<1>5. Pending("enter", g) /\ g \in UserFns(crate) /\ g = fd.def
  BY <1>1, <1>3 DEF Pending, CompleteInv, FunctionsListed, OwnBody
<1>6. WellFormed(crate) /\ crate.params[g] \in Seq(HirIds) /\ crate.types[g] \in Seq(DefIds)
  BY <1>3, CrateLists, CrateTypes
<1>7. /\ b \in Seq(Op) /\ \A i \in DOMAIN b : b[i].op = "bind" /\ b[i].arg \in Own(g)
  BY <1>2, <1>3, BindingOpsAre DEF Own
<1>8. /\ t \in Seq(Op) /\ \A i \in DOMAIN t : t[i].op = "type"
  BY <1>2, <1>6, DefOpsType DEF DefOps
<1>9. /\ p \in Seq(Op) /\ DOMAIN p = DOMAIN crate.params[g]
      /\ \A i \in DOMAIN p : p[i].op = "param" /\ p[i].arg \in Own(g)
  <2>1. /\ p \in Seq(Op) /\ DOMAIN p = DOMAIN crate.params[g]
        /\ \A i \in DOMAIN p : p[i].op = "param" /\ p[i].arg = crate.params[g][i]
    BY <1>2, <1>6, HirOpsType DEF HirOps
  <2> QED
    BY <2>1 DEF Own, Range
<1>10. /\ bt \in Seq(Op) /\ \A i \in DOMAIN bt : /\ bt[i].op \in {"bind", "type"}
                                                 /\ bt[i].op = "bind" => bt[i].arg \in Own(g)
  <2>1. /\ bt \in Seq(Op)
        /\ \A i \in DOMAIN bt : \/ i \in DOMAIN b /\ bt[i] = b[i]
                                \/ i - Len(b) \in DOMAIN t /\ bt[i] = t[i - Len(b)]
    BY <1>2, <1>7, <1>8, ConcatFrom
  <2> QED
    BY <1>7, <1>8, <2>1
<1>11. /\ front \in Seq(Op)
       /\ \A i \in DOMAIN front : \/ i \in DOMAIN bt /\ front[i] = bt[i]
                                  \/ i - Len(bt) \in DOMAIN p /\ front[i] = p[i - Len(bt)]
       /\ \A i \in DOMAIN p : Len(bt) + i \in DOMAIN front /\ front[Len(bt) + i] = p[i]
  <2>1. front = bt \o p /\ bt \in Seq(Op) /\ p \in Seq(Op)
    BY <1>2, <1>9, <1>10
  <2> QED
    BY <2>1, ConcatFrom
<1>12. \A i \in DOMAIN front : /\ front[i].op \in {"bind", "type", "param"}
                               /\ front[i].op \in Contextual => front[i].arg \in Own(g)
  BY <1>9, <1>10, <1>11 DEF Contextual
<1>13. \A h \in Own(g) : Has(front, "bind", h)
  <2>1. ASSUME NEW h \in Own(g) PROVE Has(front, "bind", h)
    <3>1. Has(b, "bind", h)
      BY <1>2, <1>3, BindingOpsHave
    <3>2. Has(bt, "bind", h)
      BY <1>2, <1>7, <1>8, <3>1, HasConcat
    <3> QED
      BY <1>2, <1>9, <1>10, <3>2, HasConcat
  <2> QED
    BY <2>1
<1>14. g \in UserFns(crate) \cup SpecFns(crate)
  BY <1>5
<1>15. /\ EntersBody(ops, g)
       /\ \A i \in DOMAIN ops : ops[i].op = "param" => i \in DOMAIN front /\ ops[i] = front[i]
       /\ \A i \in DOMAIN front : i \in DOMAIN ops /\ ops[i] = front[i]
  <2>1. ops = front \o crate.body[g]
    BY <1>2
  <2>2. Front(front, g)
    BY <1>11, <1>12, <1>13 DEF Front
  <2>3. crate \in Crates
    BY <1>3
  <2>4. EntersBody(ops, g) /\ ParametersIn(front, ops)
    BY <1>14, <2>1, <2>2, <2>3, EntersOwn
  <2> QED
    BY <2>4 DEF ParametersIn
<1>16. \A h \in Own(g) : h \notin crate.complex
  BY <1>5, <1>6, <1>14 DEF SimpleParams, WellFormed, Own
<1>17. BindingsNew' /\ VariablesBound' /\ SpecsApart'
  BY <1>1, <1>3, <1>4, <1>15, <1>16, BodyContracts
<1>18. ParametersAhead'
  <2>1. ops \in Seq(Op)
    BY <1>15 DEF EntersBody
  <2>2. NonePending(Contextual)
    BY <1>3, NoContext
  <2>3. PICK c \in Nat : c = Len(ops)
    BY <2>1, LenProperties
  <2>4. \A i \in DOMAIN todo' :
           \/ i \in DOMAIN ops /\ todo'[i] = ops[i]
           \/ i - c + 1 \in DOMAIN todo /\ i - c + 1 >= 2 /\ todo'[i] = todo[i - c + 1]
    BY <1>3, <1>4, <2>1, <2>3, Continued
  <2>5. \A i \in DOMAIN ops : i \in DOMAIN todo' /\ todo'[i] = ops[i]
    <3>1. PICK rest : rest = Tail(todo)
      OBVIOUS
    <3>2. rest \in Seq(Op) /\ todo' = ops \o rest
      BY <1>3, <1>4, <3>1, HeadTailProperties DEF Continue
    <3> QED
      BY <2>1, <3>2, ConcatFrom
  <2>6. \A s : Pending("spec", s)' => Pending("spec", s)
    BY <1>15, <2>4 DEF Pending, EntersBody
  <2>7. ~Pending("enter", fd.def)'
    <3>1. ASSUME Pending("enter", fd.def)' PROVE FALSE
      <4>1. PICK j \in DOMAIN todo : j >= 2 /\ todo[j].op = "enter" /\ todo[j].arg = g
        BY <1>4, <1>5, <1>15, <2>4, <3>1 DEF Pending, EntersBody
      <4>2. todo[j] \in Op
        BY <1>3, LenProperties
      <4>3. todo[j] = todo[1]
        BY <1>1, <1>3, <4>1, <4>2, OpsEqual
      <4>4. j = 1
        BY <1>3, <4>1, <4>3 DEF ContractsOK, SpecsApart
      <4> QED
        BY <4>1, <4>4
    <3> QED
      BY <3>1
  <2>8. ASSUME NEW s, Pending("spec", s)'
        PROVE  NonePending({"input"})' /\ \E k \in Int : ParamsFrom(k)'
    <3>1. NonePending({"input"}) /\ fd.params = <<>>
      BY <1>5, <2>6, <2>8 DEF ContractsOK, ParametersAhead
    <3>2. NonePending({"input"})'
      BY <1>15, <2>4, <3>1 DEF NonePending, EntersBody
    <3>3. PICK k \in Nat : k = Len(bt)
      BY <1>10, LenProperties
    <3>4. PICK m \in Nat : m = Len(crate.params[g]) /\ DOMAIN p = 1 .. m
      BY <1>6, <1>9, LenProperties
    <3>5. \A i \in Int : IsParam(i)' <=> i - k \in 1 .. m
      <4>1. ASSUME NEW i \in Int, IsParam(i)' PROVE i - k \in 1 .. m
        <5>1. i \in DOMAIN todo' /\ todo'[i].op = "param"
          BY <4>1 DEF IsParam
        <5>2. i \in DOMAIN ops /\ ops[i].op = "param"
          BY <2>2, <2>4, <5>1 DEF NonePending, Contextual
        <5>3. i \in DOMAIN front /\ front[i].op = "param"
          BY <1>15, <5>2
        <5> QED
          BY <1>10, <1>11, <3>3, <3>4, <5>3
      <4>2. ASSUME NEW i \in Int, i - k \in 1 .. m PROVE IsParam(i)'
        <5>1. PICK j \in DOMAIN p : j = i - k
          BY <3>4, <4>2
        <5>2. k + j = i
          BY <5>1, <4>2
        <5>3. i \in DOMAIN front /\ front[i].op = "param"
          BY <1>9, <1>11, <3>3, <5>1, <5>2
        <5>4. i \in DOMAIN todo' /\ todo'[i].op = "param"
          BY <1>15, <2>5, <5>3
        <5> QED
          BY <5>4 DEF IsParam
      <4> QED
        BY <4>1, <4>2
    <3>6. /\ Len(fd'.params) = 0 /\ Len(crate'.params[fd'.def]) = m
      BY <1>4, <1>5, <3>1, <3>4
    <3>7. ParamsFrom(k)'
      BY <3>5, <3>6 DEF ParamsFrom
    <3> QED
      BY <3>2, <3>7
  <2> QED
    BY <2>7, <2>8 DEF ParametersAhead
<1> QED
  BY <1>17, <1>18 DEF ContractsOK

(* A contract entered: the parameters of a spec function stand for those of *)
(* its function, and the other bindings are its own.                        *)
LEMMA ExtractSpecContracts ==
  ASSUME CompleteInv, CompleteInv', ContractsOK, Ordered(todo), OwnBody, ExtractSpec
  PROVE  ContractsOK'
<1>1. PICK s, front, ops :
        s = Head(todo).arg /\ front = BindingOps(s) /\ ops = front \o crate.body[s]
  OBVIOUS
<1>2. /\ ExtractionInv /\ crate \in Crates /\ todo \in Seq(Op) /\ todo # <<>>
      /\ Head(todo).op = "spec" /\ s \in DefIds /\ fd \in FunDef
      /\ Head(todo) = todo[1] /\ 1 \in DOMAIN todo /\ todo[1] \in Op
  <2>1. ExtractionInv /\ crate \in Crates /\ todo \in Seq(Op)
    BY DEF CompleteInv, ExtractionInv, TypeOK
  <2>2. todo # <<>> /\ Head(todo).op = "spec" /\ s \in DefIds /\ fd \in FunDef
    BY <1>1, <2>1, TopArg DEF ExtractSpec, DefOps, FnOps
  <2> QED
    BY <2>1, <2>2, TopOfStack
<1>3. /\ UNCHANGED <<crate, phase, fn_items, specs, hid_to_stid>> /\ Continue(ops)
      /\ dcx' = SharedContext(s) /\ fd' = AttachSpec(s)
      /\ Failure(Head(todo)) = "none"
  BY <1>1 DEF ExtractSpec, Execute, discovery_vars, mapping_vars
<1>4. Pending("spec", s) /\ s \in SpecFns(crate) /\ WellFormed(crate)
  BY <1>1, <1>2, CrateLists DEF Pending, CompleteInv, FunctionsListed
<1>5. s \in UserFns(crate) \cup SpecFns(crate) /\ crate.spec_type[s] \in SpecTypes
  BY <1>1, <1>2, <1>4 DEF ExtractionInv, StackOK, SpecsByType
<1>6. fd'.def = fd.def /\ fd'.params = fd.params
  <2>1. fd'.def = fd.def
    BY <1>2, <1>3, <1>5, AttachSpecType
  <2>2. AttachSpec(s).params = fd.params
    BY <1>2, <1>5 DEF AttachSpec, FunDef, SpecTypes
  <2> QED
    BY <1>3, <2>1, <2>2
<1>7. Range(crate.params[s]) \subseteq DOMAIN dcx'
  <2>1. /\ Len(SharedParams(s)) = Len(fd.params)
        /\ crate.spec_type[s] = "post" => crate.params[s] # <<>>
    BY <1>1, <1>2, <1>3, FailureCases
  <2>2. crate.spec_type[s] = "post" => fd.ret # <<>>
    <3>1. ~\E j \in 1 .. 1 - 1 : todo[j].op = "ret"
      OBVIOUS
    <3> QED
      BY <1>1, <1>2, <3>1 DEF ExtractionInv, StackOK, ResultFirst
  <2> QED
    BY <1>2, <1>3, <2>1, <2>2, SharedScope
<1>8. \A h \in Own(s) : h \in DOMAIN dcx' \/ h \notin crate.complex
  BY <1>4, <1>5, <1>7 DEF Own, WellFormed
<1>9. Front(front, s)
  <2>1. /\ front \in Seq(Op)
        /\ \A i \in DOMAIN front : front[i].op = "bind" /\ front[i].arg \in Own(s)
    BY <1>1, <1>2, BindingOpsAre DEF Own
  <2>2. \A h \in Own(s) : Has(front, "bind", h)
    BY <1>1, <1>2, BindingOpsHave
  <2> QED
    BY <2>1, <2>2 DEF Front
<1>10. EntersBody(ops, s) /\ ParametersIn(front, ops)
  <2>1. ops = front \o crate.body[s] /\ crate \in Crates
    BY <1>1, <1>2
  <2> QED
    BY <1>5, <1>9, <2>1, EntersOwn
<1>11. BindingsNew' /\ VariablesBound' /\ SpecsApart'
  BY <1>1, <1>2, <1>3, <1>6, <1>8, <1>10, BodyContracts
<1>12. ParametersAhead'
  <2>1. ops \in Seq(Op) /\ \A i \in DOMAIN ops : ops[i].op \notin {"param", "input", "enter"}
    <3>1. \A i \in DOMAIN front : front[i].op = "bind"
      BY <1>1, <1>2, BindingOpsAre
    <3> QED
      BY <1>10, <3>1 DEF EntersBody, ParametersIn
  <2>2. \A i \in DOMAIN todo : todo[i].op # "enter"
    <3>1. \A i \in DOMAIN todo : i >= 1
      BY <1>2, LenProperties
    <3> QED
      BY <1>2, <3>1 DEF ContractsOK, SpecsApart
  <2>3. NonePending({"input"}) /\ \E k \in Int : ParamsFrom(k)
    BY <1>4, <2>2 DEF ContractsOK, ParametersAhead, Pending
  <2>4. \A i \in DOMAIN todo' :
           \/ i \in DOMAIN ops /\ todo'[i] = ops[i]
           \/ \E j \in DOMAIN todo : todo'[i] = todo[j]
    BY <1>2, <1>3, <2>1, Continued
  <2>5. NonePending({"input"})' /\ ~Pending("enter", fd.def)'
    BY <2>1, <2>2, <2>3, <2>4 DEF NonePending, Pending
  <2>6. PICK k \in Int : ParamsFrom(k)
    BY <2>3
  <2>7. Len(fd.params) \in Nat /\ Len(crate.params[fd.def]) \in Nat
    <3>1. fd.params \in Seq(SymbolId) /\ fd.def \in DefIds
      BY <1>2, FunDefType
    <3>2. crate.params[fd.def] \in Seq(HirIds)
      BY <1>2, <3>1, CrateTypes
    <3> QED
      BY <3>1, <3>2, LenProperties
  <2>8. \E l \in Int : ParamsFrom(l)'
    BY <1>2, <1>3, <1>6, <2>1, <2>6, <2>7, ParamsShift
  <2> QED
    BY <2>5, <2>8 DEF ParametersAhead
<1> QED
  BY <1>11, <1>12 DEF ContractsOK

(* What changes nothing that is said of contracts, ...                      *)
LEMMA ContractsUnchanged ==
  ASSUME ContractsOK, UNCHANGED <<crate, phase, todo, fd, dcx, hid_to_stid, fn_items, specs>>
  PROVE  ContractsOK'
<1>1. \A k, d : Pending(k, d)' <=> Pending(k, d)
  BY DEF Pending
<1>2. /\ \A g : NotBegun(g)' <=> NotBegun(g)
      /\ \A h : BindingNew(h)' <=> BindingNew(h)
  BY <1>1 DEF NotBegun, BindingNew, Waiting, Own
<1>3. BindingsNew'
  BY <1>1, <1>2 DEF ContractsOK, BindingsNew, Own
<1>4. VariablesBound'
  BY <1>1 DEF ContractsOK, VariablesBound
<1>5. SpecsApart'
  <2>1. \A s : Pending("spec", s)' => crate'.spec_of[s] = fd'.def /\ fd'.def \in UserFns(crate')
    BY <1>1 DEF ContractsOK, SpecsApart
  <2> QED
    BY <2>1 DEF ContractsOK, SpecsApart, Waiting
<1>6. ParametersAhead'
  <2>1. NonePending({"input"})' <=> NonePending({"input"})
    BY DEF NonePending
  <2>2. NonePending({"param"})' <=> NonePending({"param"})
    BY DEF NonePending
  <2>3. Pending("enter", fd.def)' <=> Pending("enter", fd.def)
    BY DEF Pending
  <2>4. \A k \in Int : ParamsFrom(k)' <=> ParamsFrom(k)
    BY DEF ParamsFrom, IsParam
  <2> QED
    BY <1>1, <2>1, <2>2, <2>3, <2>4 DEF ContractsOK, ParametersAhead
<1> QED
  BY <1>3, <1>4, <1>5, <1>6 DEF ContractsOK

(* ... and what leaves no contract on the stack.                            *)
LEMMA ContractsOver ==
  ASSUME ContractsOK, UNCHANGED <<crate, hid_to_stid, specs>>, phase' # "discover",
         \A g : Waiting(fn_items, g)' => Waiting(fn_items, g),
         \A i \in DOMAIN todo' : todo'[i].op \notin Contextual \cup {"enter", "spec", "emit"}
  PROVE  ContractsOK'
<1>1. \A k \in Contextual \cup {"enter", "spec", "emit"} : \A d : ~Pending(k, d)'
  BY DEF Pending
<1>2. \A k \in {"bind", "param", "var", "enter", "spec", "emit"} : \A d : ~Pending(k, d)'
  BY <1>1 DEF Contextual
<1>3. \A g : NotBegun(g)' => NotBegun(g)
  BY <1>2 DEF NotBegun, Waiting
<1>4. BindingsNew'
  <2>1. \A g \in UserFns(crate) \cup SpecFns(crate) :
          NotBegun(g) => Own(g) \cap DOMAIN hid_to_stid = {}
    BY DEF ContractsOK, BindingsNew
  <2>2. \A g \in UserFns(crate') \cup SpecFns(crate') :
          NotBegun(g)' => Own(g)' \cap DOMAIN hid_to_stid' = {}
    BY <1>3, <2>1 DEF Own
  <2> QED
    BY <1>2, <2>2 DEF BindingsNew
<1>5. VariablesBound'
  BY <1>2 DEF VariablesBound
<1>6. SpecsApart'
  <2>1. \A i \in DOMAIN todo' : todo'[i].op \notin {"enter", "spec", "emit"}
    OBVIOUS
  <2>2. \A g \in DefIds, t \in SpecTypes : \A i \in DOMAIN specs'[g][t] :
          crate'.spec_of[specs'[g][t][i]] = g
    BY DEF ContractsOK, SpecsApart
  <2> QED
    BY <1>2, <2>1, <2>2 DEF SpecsApart
<1>7. ParametersAhead'
  BY <1>2 DEF ParametersAhead
<1> QED
  BY <1>4, <1>5, <1>6, <1>7 DEF ContractsOK

(* add_function empties the stack.                                          *)
LEMMA AddFunctionContracts ==
  ASSUME CompleteInv, ContractsOK, NEW kind \in {"emit", "stub"}, AddFunction(kind)
  PROVE  ContractsOK'
<1>1. /\ ExtractionInv /\ todo # <<>> /\ Head(todo).op = kind /\ Continue(<<>>)
      /\ UNCHANGED <<crate, phase, fn_items, specs, hid_to_stid>>
  BY DEF AddFunction, Execute, CompleteInv, discovery_vars, FnRef, GetOrRegister,
    mapping_vars, RegisterDef
<1>2. DOMAIN todo' = {}
  <2>1. Len(todo) = 1
    BY <1>1, TopOfStack DEF ExtractionInv, StackOK, AddedLast
  <2>2. Tail(todo) \in Seq(Op) /\ Len(Tail(todo)) = 0
    BY <1>1, <2>1, HeadTailProperties DEF ExtractionInv, TypeOK
  <2>3. PICK rest : rest = Tail(todo)
    OBVIOUS
  <2>4. rest \in Seq(Op) /\ todo' = <<>> \o rest
    BY <1>1, <2>2, <2>3 DEF Continue
  <2>5. todo' = Tail(todo)
    BY <2>3, <2>4, ConcatEmptySeq
  <2> QED
    BY <2>2, <2>5
<1>3. phase' # "discover"
  BY <1>1 DEF CompleteInv, ItemsKept
<1>4. \A g : Waiting(fn_items, g)' => Waiting(fn_items, g)
  BY <1>1 DEF Waiting
<1> QED
  BY <1>1, <1>2, <1>3, <1>4, ContractsOver

(* What the operations that enter no body do to the context: bindings come  *)
(* to be known, and parameters are added one by one.                        *)
LEMMA PlainContext ==
  ASSUME CompleteInv, Traversal, ~Panic, ~EnterBody, ~ExtractSpec,
         ~AddFunction("emit"), ~AddFunction("stub")
  PROVE  /\ UNCHANGED <<crate, phase, fn_items, specs>> /\ fd'.def = fd.def
         /\ Head(todo).op \notin {"enter", "spec"}
         /\ DOMAIN dcx \subseteq DOMAIN dcx'
         /\ Head(todo).op = "bind" => Head(todo).arg \in DOMAIN dcx'
         /\ \A h \in DOMAIN hid_to_stid' : h \notin DOMAIN hid_to_stid =>
              Head(todo).op = "bind" /\ h = Head(todo).arg /\ h \notin DOMAIN dcx
         /\ \/ Head(todo).op = "input"
            \/ Head(todo).op = "param" /\ Len(fd'.params) = Len(fd.params) + 1
            \/ Head(todo).op # "param" /\ fd'.params = fd.params
<1>1. ExtractionInv
  BY DEF CompleteInv
<1>2. ASSUME NEW d, GetOrRegister(d) PROVE hid_to_stid' = hid_to_stid
  BY <1>2 DEF GetOrRegister, RegisterDef, mapping_vars
<1>3. CASE TypeParameter
  BY <1>2, <1>3 DEF TypeParameter, Execute, discovery_vars
<1>4. CASE MentionType
  BY <1>2, <1>4 DEF MentionType, Execute, discovery_vars
<1>5. CASE ExtractAdt
  BY <1>2, <1>5 DEF ExtractAdt, Execute, discovery_vars
<1>6. CASE Constructor
  BY <1>2, <1>6 DEF Constructor, Execute, discovery_vars
<1>7. CASE Field
  BY <1>2, <1>7 DEF Field, Execute, discovery_vars
<1>8. CASE SortBuilt
  BY <1>8 DEF SortBuilt, Execute, discovery_vars, mapping_vars
<1>9. CASE AddAdt
  BY <1>9 DEF AddAdt, Execute, discovery_vars, mapping_vars
<1>10. CASE Call
  BY <1>2, <1>10 DEF Call, FnRef, Execute, discovery_vars
<1>11. CASE KnownBinding
  BY <1>11 DEF KnownBinding, Execute, discovery_vars, mapping_vars
<1>12. CASE NewBinding
  <2>1. PICK h : h = Head(todo).arg
    OBVIOUS
  <2>2. /\ Execute("bind") /\ h \notin DOMAIN dcx /\ RegisterHir(h)
        /\ dcx' = Insert(dcx, h, hid_to_stid'[h]) /\ fd' = fd
    BY <1>12, <2>1 DEF NewBinding
  <2>3. DOMAIN dcx' = DOMAIN dcx \cup {h} /\ DOMAIN hid_to_stid' = DOMAIN hid_to_stid \cup {h}
    BY <2>2 DEF Insert, RegisterHir
  <2> QED
    BY <2>1, <2>2, <2>3 DEF Execute, discovery_vars
<1>13. CASE Parameter
  <2>1. /\ Execute("param") /\ fd' = [fd EXCEPT !.params = Append(@, dcx[Head(todo).arg])]
        /\ UNCHANGED <<dcx, hid_to_stid>>
    BY <1>13 DEF Parameter, mapping_vars
  <2>2. fd \in FunDef /\ Head(todo).op = "param" /\ dcx[Head(todo).arg] \in SymbolId
    <3>1. fd \in FunDef /\ Head(todo).op = "param"
      BY <1>1, <2>1, TopArg DEF FnOps
    <3>2. Head(todo).arg \in DOMAIN dcx
      BY <2>1, <3>1, FailureCases DEF Execute
    <3> QED
      BY <1>1, <3>1, <3>2 DEF ExtractionInv, TypeOK
  <2>3. fd.params \in Seq(SymbolId)
    BY <2>2, FunDefType
  <2>4. fd'.params = Append(fd.params, dcx[Head(todo).arg]) /\ fd'.def = fd.def
    BY <2>1, <2>2 DEF FunDef
  <2>5. Len(fd'.params) = Len(fd.params) + 1
    BY <2>2, <2>3, <2>4, AppendProperties
  <2> QED
    BY <2>1, <2>2, <2>4, <2>5 DEF Execute, discovery_vars
<1>14. CASE VarRef
  <2>1. fd \in FunDef
    BY <1>1, <1>14, TopArg DEF VarRef, FnOps
  <2>2. fd'.params = fd.params /\ fd'.def = fd.def
    BY <1>14, <2>1 DEF VarRef, FunDef
  <2> QED
    BY <1>14, <2>2 DEF VarRef, Execute, discovery_vars, mapping_vars
<1>15. CASE Unsupported
  BY <1>15 DEF Unsupported, Execute, discovery_vars, mapping_vars
<1>16. CASE ReturnVar
  <2>1. fd \in FunDef
    BY <1>1, <1>16, TopArg DEF ReturnVar, FnOps
  <2>2. fd'.params = fd.params /\ fd'.def = fd.def
    BY <1>16, <2>1 DEF ReturnVar, FunDef
  <2> QED
    BY <1>16, <2>2 DEF ReturnVar, FreshVar, Execute, discovery_vars
<1>17. CASE StubInput
  <2>1. fd \in FunDef
    BY <1>1, <1>17, TopArg DEF StubInput, FnOps
  <2>2. fd'.def = fd.def
    BY <1>17, <2>1 DEF StubInput, FunDef
  <2> QED
    BY <1>17, <2>2 DEF StubInput, FreshVar, Execute, discovery_vars
<1> QED
  BY <1>3, <1>4, <1>5, <1>6, <1>7, <1>8, <1>9, <1>10, <1>11, <1>12, <1>13, <1>14, <1>15,
    <1>16, <1>17 DEF Traversal

(* The traversal keeps what is said of contracts.                           *)
LEMMA ContractsTraversal ==
  ASSUME CompleteInv, CompleteInv', ContractsOK, Ordered(todo), OwnBody,
         SimpleParams(crate), Traversal
  PROVE  ContractsOK'
<1>1. CASE Panic
  BY <1>1, ContractsUnchanged DEF Panic, mapping_vars, discovery_vars
<1>2. CASE EnterBody
  BY <1>2, EnterBodyContracts
<1>3. CASE ExtractSpec
  BY <1>3, ExtractSpecContracts
<1>4. CASE AddFunction("emit") \/ AddFunction("stub")
  BY <1>4, AddFunctionContracts
<1>5. CASE ~Panic /\ ~EnterBody /\ ~ExtractSpec /\ ~AddFunction("emit") /\ ~AddFunction("stub")
  <2>1. PICK ops : todo # <<>> /\ Plain(ops) /\ Continue(ops)
    BY <1>5, TraversalPlain DEF CompleteInv
  <2>2. /\ UNCHANGED <<crate, phase, fn_items, specs>> /\ fd'.def = fd.def
        /\ Head(todo).op \notin {"enter", "spec"}
        /\ DOMAIN dcx \subseteq DOMAIN dcx'
        /\ Head(todo).op = "bind" => Head(todo).arg \in DOMAIN dcx'
        /\ \A h \in DOMAIN hid_to_stid' : h \notin DOMAIN hid_to_stid =>
             Head(todo).op = "bind" /\ h = Head(todo).arg /\ h \notin DOMAIN dcx
        /\ \/ Head(todo).op = "input"
           \/ Head(todo).op = "param" /\ Len(fd'.params) = Len(fd.params) + 1
           \/ Head(todo).op # "param" /\ fd'.params = fd.params
    BY <1>5, PlainContext
  <2> QED
    BY <2>1, <2>2, ContractsPlain
<1> QED
  BY <1>1, <1>2, <1>3, <1>4, <1>5

(* The loop over the functions: the spec functions on the stack are those   *)
(* filed under the function taken.                                          *)
LEMMA StartFunctionContracts ==
  ASSUME AttachInv, CompleteInv', FunctionsOnce, ContractsOK, StartFunction
  PROVE  ContractsOK'
<1>1. PICK g, ops, rest : g = Head(fn_items) /\ ops = FunctionOps(g) /\ rest = Tail(fn_items)
  OBVIOUS
<1>2. /\ phase = "functions" /\ fn_items # <<>> /\ fn_items' = rest
      /\ UNCHANGED <<crate, phase, specs, hid_to_stid, dcx>>
      /\ fd' = EmptyFd(g, FALSE) /\ todo' = ops
  BY <1>1 DEF StartFunction, Idle, mapping_vars
<1>3. /\ fn_items \in Seq(DefIds) /\ crate \in Crates /\ items = <<>> /\ CompleteInv
  BY <1>2 DEF AttachInv, CompleteInv, ExtractionInv, TypeOK, ItemsKept
<1>4. /\ Waiting(fn_items, g)
      /\ \A d : Waiting(rest, d) => Waiting(fn_items, d) /\ d # g
  BY <1>1, <1>2, <1>3, TailApart DEF FunctionsOnce
<1>5. g \in UserFns(crate) /\ g \in DefIds
  BY <1>3, <1>4, CrateLists DEF Waiting, CompleteInv, FunctionsListed
<1>6. Stage(ops, g, {"enter", "measure", "pre", "ret", "post", "emit"})
  BY <1>1, <1>3, <1>5, FunctionStage DEF ContractsOK
<1>7. /\ \A i \in DOMAIN ops :
           /\ ops[i].op \notin {"adt", "bind", "param", "var", "input"}
           /\ ops[i].op = "spec" => crate.spec_of[ops[i].arg] = g
      /\ \A i, j \in DOMAIN ops :
           /\ ops[i].op \in {"enter", "spec"} /\ ops[i] = ops[j] => i = j
           /\ ops[i].op = "enter" /\ ops[j].op = "spec" => i < j
  BY <1>6 DEF Stage, Part
<1>8. Has(ops, "enter", g)
  BY <1>1, <1>3, <1>5, FunctionEnters
<1>9. \A i \in DOMAIN ops : ops[i].op = "enter" => ops[i].arg = g
  BY <1>1, <1>3, <1>5, FunctionBegins DEF Begins
<1>10. fd'.def = g /\ fd'.params = <<>>
  BY <1>2 DEF EmptyFd
<1>11. \A k \in {"bind", "param", "var", "input"} : \A d : ~Pending(k, d)'
  BY <1>2, <1>7 DEF Pending
<1>12. /\ \A d : Pending("enter", d)' => d = g
       /\ \A s : Pending("spec", s)' => crate.spec_of[s] = g /\ s \in SpecFns(crate)
  <2>1. \A s : Pending("spec", s)' => s \in SpecFns(crate)
    BY <1>2 DEF CompleteInv, FunctionsListed
  <2> QED
    BY <1>2, <1>7, <1>9, <2>1 DEF Pending
<1>13. \A f : NotBegun(f)' => NotBegun(f)
  <2>1. \A d : Waiting(fn_items', d) => Waiting(fn_items, d)
    BY <1>2, <1>4
  <2>2. UNCHANGED crate
    BY <1>2
  <2> QED
    BY <1>4, <1>12, <2>1, <2>2 DEF NotBegun
<1>14. BindingsNew'
  <2>1. \A f \in UserFns(crate) \cup SpecFns(crate) :
          NotBegun(f) => Own(f) \cap DOMAIN hid_to_stid = {}
    BY DEF ContractsOK, BindingsNew
  <2>2. \A f \in UserFns(crate') \cup SpecFns(crate') :
          NotBegun(f)' => Own(f)' \cap DOMAIN hid_to_stid' = {}
    BY <1>2, <1>13, <2>1 DEF Own
  <2>3. phase' # "discover"
    BY <1>2
  <2> QED
    BY <1>11, <2>2, <2>3 DEF BindingsNew
<1>15. VariablesBound'
  BY <1>11 DEF VariablesBound
<1>16. SpecsApart'
  <2>1. \A i, j \in DOMAIN todo' :
          /\ todo'[i].op \in {"enter", "spec"} /\ todo'[i] = todo'[j] => i = j
          /\ todo'[i].op = "enter" /\ todo'[j].op = "spec" => i < j
    BY <1>2, <1>7
  <2>2. \A s : Pending("spec", s)' => crate'.spec_of[s] = fd'.def /\ fd'.def \in UserFns(crate')
    BY <1>2, <1>5, <1>10, <1>12
  <2>3. ~Waiting(fn_items', fd'.def)
    BY <1>2, <1>4, <1>10
  <2>4. \A f \in DefIds, t \in SpecTypes : \A i \in DOMAIN specs'[f][t] :
          crate'.spec_of[specs'[f][t][i]] = f
    BY <1>2 DEF ContractsOK, SpecsApart
  <2> QED
    BY <2>1, <2>2, <2>3, <2>4 DEF SpecsApart
<1>17. ParametersAhead'
  <2>1. NonePending({"input"})' /\ NonePending({"param"})'
    BY <1>2, <1>7 DEF NonePending
  <2>2. Pending("enter", fd.def)'
    BY <1>2, <1>8, <1>10 DEF Pending, Has
  <2> QED
    BY <1>10, <2>1, <2>2 DEF ParametersAhead
<1> QED
  BY <1>14, <1>15, <1>16, <1>17 DEF ContractsOK

(* The loops of process_crate.                                              *)
LEMMA ContractsLoops ==
  ASSUME AttachInv, CompleteInv', FunctionsOnce, ContractsOK, Loops
  PROVE  ContractsOK'
<1>1. CompleteInv /\ crate \in Crates
  BY DEF AttachInv, CompleteInv, ExtractionInv, TypeOK
<1>2. CASE StartAdt
  <2>1. PICK a, x, y : /\ a = Head(adt_items) /\ x = One("adt", a) /\ y = One("addAdt", a)
                       /\ todo' = x \o y
    BY <1>2 DEF StartAdt
  <2>2. a \in DefIds
    <3>1. adt_items \in Seq(DefIds) /\ adt_items # <<>>
      BY <1>1, <1>2 DEF StartAdt, CompleteInv, ExtractionInv, TypeOK
    <3> QED
      BY <2>1, <3>1, HeadTailProperties
  <2>3. /\ x \in Seq(Op) /\ \A i \in DOMAIN x : x[i].op = "adt"
        /\ y \in Seq(Op) /\ \A i \in DOMAIN y : y[i].op = "addAdt"
    BY <2>1, <2>2, OneType DEF DefOps
  <2>4. \A i \in DOMAIN todo' : todo'[i].op \in {"adt", "addAdt"}
    BY <2>1, <2>3, ConcatFrom
  <2>5. UNCHANGED <<crate, hid_to_stid, specs, fn_items>> /\ phase' # "discover"
    BY <1>2 DEF StartAdt, Idle, mapping_vars
  <2>6. \A g : Waiting(fn_items, g)' => Waiting(fn_items, g)
    BY <2>5 DEF Waiting
  <2>7. \A i \in DOMAIN todo' : todo'[i].op \notin Contextual \cup {"enter", "spec", "emit"}
    BY <2>4 DEF Contextual
  <2> QED
    BY <2>5, <2>6, <2>7, ContractsOver
<1>3. CASE AdtsDone \/ FunctionsDone \/ StubsDone
  <2>1. /\ UNCHANGED <<crate, hid_to_stid, specs, fn_items>> /\ phase' # "discover"
        /\ todo' = <<>>
    BY <1>3 DEF AdtsDone, FunctionsDone, StubsDone, Idle, mapping_vars, discovery_vars
  <2>2. \A g : Waiting(fn_items, g)' => Waiting(fn_items, g)
    BY <2>1 DEF Waiting
  <2>3. \A i \in DOMAIN todo' : todo'[i].op \notin Contextual \cup {"enter", "spec", "emit"}
    BY <2>1
  <2> QED
    BY <2>1, <2>2, <2>3, ContractsOver
<1>4. CASE StartFunction
  BY <1>4, StartFunctionContracts
<1>5. CASE StartStub
  <2>1. PICK g, ops : g \in stubs /\ ops = StubOps(g) /\ todo' = ops
    BY <1>5 DEF StartStub
  <2>2. g \in DefIds
    BY <1>1, <2>1 DEF CompleteInv, ExtractionInv, TypeOK
  <2>3. \A i \in DOMAIN ops : ops[i].op \notin {"adt", "bind", "param", "var"}
    BY <1>1, <2>1, <2>2, StubStage DEF Stage
  <2>4. \A i \in DOMAIN ops : ops[i].op \notin {"enter", "spec", "emit"}
    BY <1>1, <2>1, <2>2, StubBegins DEF Begins
  <2>5. UNCHANGED <<crate, hid_to_stid, specs, fn_items>> /\ phase' # "discover"
    BY <1>5 DEF StartStub, Idle, mapping_vars, discovery_vars
  <2>6. \A d : Waiting(fn_items, d)' => Waiting(fn_items, d)
    BY <2>5 DEF Waiting
  <2>7. \A i \in DOMAIN todo' : todo'[i].op \notin Contextual \cup {"enter", "spec", "emit"}
    BY <2>1, <2>3, <2>4 DEF Contextual
  <2> QED
    BY <2>5, <2>6, <2>7, ContractsOver
<1> QED
  BY <1>2, <1>3, <1>4, <1>5 DEF Loops

(* Discovery: nothing is bound yet, ...                                     *)
LEMMA ContractsVisited ==
  ASSUME CompleteInv, CompleteInv', ContractsOK, phase = "discover",
         UNCHANGED <<crate, hid_to_stid, todo>>,
         \A g \in DefIds, t \in SpecTypes : \A i \in DOMAIN specs'[g][t] :
           crate.spec_of[specs'[g][t][i]] = g
  PROVE  ContractsOK'
<1>1. DOMAIN hid_to_stid' = {} /\ todo' = <<>>
  BY DEF CompleteInv, ItemsKept, ContractsOK, BindingsNew
<1>2. \A k, d : ~Pending(k, d)'
  BY <1>1 DEF Pending
<1>3. BindingsNew'
  BY <1>1, <1>2 DEF BindingsNew
<1>4. VariablesBound'
  BY <1>2 DEF VariablesBound
<1>5. SpecsApart'
  BY <1>1, <1>2 DEF SpecsApart
<1>6. ParametersAhead'
  BY <1>2 DEF ParametersAhead
<1> QED
  BY <1>3, <1>4, <1>5, <1>6 DEF ContractsOK

(* ... and a spec function is filed under the function it specifies.        *)
LEMMA FileSpecUnder ==
  ASSUME ExtractionInv, SpecsApart, NEW g \in DefIds
  PROVE  \A f \in DefIds, t \in SpecTypes : \A i \in DOMAIN FileSpec(g)[f][t] :
           crate.spec_of[FileSpec(g)[f][t][i]] = f
<1>1. /\ specs \in [DefIds -> [SpecTypes -> Seq(DefIds)]] /\ crate \in Crates
      /\ \A f \in DefIds, t \in SpecTypes : \A i \in DOMAIN specs[f][t] :
           crate.spec_of[specs[f][t][i]] = f
  BY DEF ExtractionInv, TypeOK, SpecsApart
<1>2. CASE ~(IsSpecFn(g) /\ crate.spec_of[g] # NoDef)
  BY <1>1, <1>2 DEF FileSpec
<1>3. CASE IsSpecFn(g) /\ crate.spec_of[g] # NoDef
  <2>1. PICK f, t, old, ss : /\ f = crate.spec_of[g] /\ t = crate.spec_type[g]
                             /\ old = specs[f][t] /\ ss = Append(old, g)
    OBVIOUS
  <2>2. f \in DefIds /\ t \in SpecTypes
    BY <1>1, <1>3, <2>1, CrateTypes DEF IsSpecFn
  <2>3. old \in Seq(DefIds)
    BY <1>1, <2>1, <2>2
  <2>4. \A i \in DOMAIN ss : crate.spec_of[ss[i]] = f
    <3>1. \A i \in DOMAIN ss : (i \in DOMAIN old /\ ss[i] = old[i]) \/ ss[i] = g
      <4>1. old \in Seq(DefIds) /\ ss = Append(old, g)
        BY <2>1, <2>3
      <4> QED
        BY <4>1, WaitingAppend
    <3>2. \A i \in DOMAIN old : crate.spec_of[old[i]] = f
      <4>1. old = specs[f][t]
        BY <2>1
      <4>2. \A i \in DOMAIN specs[f][t] : crate.spec_of[specs[f][t][i]] = f
        BY <1>1, <2>2
      <4> QED
        BY <4>1, <4>2
    <3>3. crate.spec_of[g] = f
      BY <2>1
    <3> QED
      BY <3>1, <3>2, <3>3
  <2>5. FileSpec(g) = [specs EXCEPT ![f][t] = ss]
    BY <1>3, <2>1 DEF FileSpec
  <2>6. /\ FileSpec(g)[f][t] = ss
        /\ \A e \in DefIds, u \in SpecTypes :
             e # f \/ u # t => FileSpec(g)[e][u] = specs[e][u]
    BY <1>1, <2>2, <2>5
  <2>7. ASSUME NEW e \in DefIds, NEW u \in SpecTypes, NEW i \in DOMAIN FileSpec(g)[e][u]
        PROVE  crate.spec_of[FileSpec(g)[e][u][i]] = e
    <3>1. CASE e = f /\ u = t
      BY <2>4, <2>6, <3>1
    <3>2. CASE e # f \/ u # t
      <4>1. FileSpec(g)[e][u] = specs[e][u]
        BY <2>6, <3>2
      <4> QED
        BY <1>1, <4>1
    <3> QED
      BY <3>1, <3>2
  <2> QED
    BY <2>7
<1> QED
  BY <1>2, <1>3

(* The visitor as a whole.                                                  *)
LEMMA ContractsDiscovery ==
  ASSUME AttachInv, CompleteInv', ContractsOK, Discovery
  PROVE  ContractsOK'
<1>1. /\ CompleteInv /\ ExtractionInv /\ crate \in Crates /\ phase = "discover"
      /\ UNCHANGED <<crate, hid_to_stid, todo>>
  BY DEF AttachInv, CompleteInv, ExtractionInv, TypeOK, Discovery, VisitAdt, VisitFn, VisitedFns,
    VisitOther, DiscoveryDone, Discover, mapping_vars
<1>2. \A g \in DefIds, t \in SpecTypes : \A i \in DOMAIN specs[g][t] :
        crate.spec_of[specs[g][t][i]] = g
  BY DEF ContractsOK, SpecsApart
<1>3. \A g \in DefIds, t \in SpecTypes : \A i \in DOMAIN specs'[g][t] :
        crate.spec_of[specs'[g][t][i]] = g
  <2>1. CASE VisitFn
    <3>1. PICK d \in Listed(crate, "fns") : specs' = FileSpec(d)
      BY <2>1, VisitFnItems
    <3>2. d \in DefIds
      BY <1>1, <3>1, CrateLists
    <3> QED
      BY <1>1, <3>1, <3>2, FileSpecUnder DEF ContractsOK
  <2>2. CASE VisitAdt \/ VisitedFns \/ VisitOther \/ DiscoveryDone
    <3>1. specs' = specs
      BY <2>2 DEF VisitAdt, VisitedFns, VisitOther, DiscoveryDone, discovery_vars
    <3> QED
      BY <1>2, <3>1
  <2> QED
    BY <2>1, <2>2 DEF Discovery
<1> QED
  BY <1>1, <1>3, ContractsVisited

(* It holds when the visitor starts.                                        *)
LEMMA ContractsInit ==
  ASSUME Init
  PROVE  ContractsOK /\ FunctionsOnce
<1>1. /\ todo = <<>> /\ fn_items = <<>> /\ stubs = {} /\ DOMAIN hid_to_stid = {}
      /\ DOMAIN functions = {} /\ specs = [d \in DefIds |-> NoSpecs] /\ phase = "discover"
  BY DEF Init, MappingInit
<1>2. \A k, d : ~Pending(k, d)
  BY <1>1 DEF Pending
<1>3. \A g \in DefIds, t \in SpecTypes : DOMAIN specs[g][t] = {}
  BY <1>1 DEF NoSpecs
<1>4. BindingsNew
  BY <1>1, <1>2 DEF BindingsNew
<1>5. VariablesBound
  BY <1>2 DEF VariablesBound
<1>6. SpecsApart
  BY <1>1, <1>2, <1>3 DEF SpecsApart
<1>7. ParametersAhead
  BY <1>2 DEF ParametersAhead
<1>8. \A g : ~Waiting(fn_items, g) /\ ~Added(g)
  BY <1>1 DEF Waiting, Added
<1>9. FunctionsOnce
  BY <1>1, <1>2, <1>8 DEF FunctionsOnce
<1> QED
  BY <1>4, <1>5, <1>6, <1>7, <1>9 DEF ContractsOK
----------------------------------------------------------------------------
(* No assertion fails.                                                      *)
(* When a spec function is extracted, all parameters of the function it     *)
(* specifies are there.                                                     *)
LEMMA ParametersThere ==
  ASSUME ExtractionInv, ContractsOK, Ordered(todo), todo # <<>>, Head(todo).op = "spec"
  PROVE  Len(fd.params) = Len(crate.params[fd.def])
<1>1. /\ crate \in Crates /\ fd \in FunDef /\ Head(todo) = todo[1] /\ 1 \in DOMAIN todo
      /\ \A i \in DOMAIN todo : i >= 1
  BY TopOfStack, LenProperties
    DEF ExtractionInv, TypeOK, StackOK, InFunction, FnOps
<1>2. PICK n, m \in Nat : n = Len(fd.params) /\ m = Len(crate.params[fd.def])
  <2>1. fd.params \in Seq(SymbolId) /\ fd.def \in DefIds
    BY <1>1, FunDefType
  <2>2. crate.params[fd.def] \in Seq(HirIds)
    BY <1>1, <2>1, CrateTypes
  <2> QED
    BY <2>1, <2>2, LenProperties
<1>3. Pending("spec", Head(todo).arg)
  BY <1>1 DEF Pending
<1>4. ~Pending("enter", fd.def)
  <2>1. \A i \in DOMAIN todo : todo[i].op = "enter" => i < 1
    BY <1>1 DEF ContractsOK, SpecsApart
  <2> QED
    BY <1>1, <2>1, LenProperties DEF Pending, ExtractionInv, TypeOK
<1>5. PICK k \in Int : ParamsFrom(k)
  BY <1>3, <1>4 DEF ContractsOK, ParametersAhead
<1>6. \A i : ~IsParam(i)
  <2>1. NonePending(Contextual)
    BY <1>1, NoContext
  <2> QED
    BY <2>1 DEF NonePending, Contextual, IsParam
<1>7. n <= m /\ \A i \in Int : i - k \notin n + 1 .. m
  BY <1>2, <1>5, <1>6 DEF ParamsFrom
<1>8. n = m
  <2>1. ASSUME n < m PROVE FALSE
    <3>1. PICK i \in Int : i = k + n + 1
      OBVIOUS
    <3>2. i - k = n + 1 /\ n + 1 \in n + 1 .. m
      BY <2>1, <3>1
    <3> QED
      BY <1>7, <3>2
  <2> QED
    BY <1>7, <2>1
<1> QED
  BY <1>2, <1>8

(* So those the spec function shares are as many.                           *)
LEMMA SharedThere ==
  ASSUME ExtractionInv, ContractsOK, Ordered(todo), todo # <<>>, Head(todo).op = "spec",
         NEW s, s = Head(todo).arg, s \in SpecFns(crate), MatchingSpecs(crate)
  PROVE  /\ crate.parent[s] = crate.parent[fd.def]
         /\ Len(SharedParams(s)) = Len(fd.params)
         /\ crate.spec_type[s] = "post" => crate.params[s] # <<>>
<1>1. Pending("spec", s) /\ crate \in Crates /\ fd \in FunDef
  BY TopOfStack DEF Pending, ExtractionInv, TypeOK, StackOK, InFunction, FnOps
<1>2. crate.spec_of[s] = fd.def /\ fd.def \in UserFns(crate)
  BY <1>1 DEF ContractsOK, SpecsApart
<1>3. /\ crate.parent[s] = crate.parent[fd.def]
      /\ Len(crate.params[s]) =
           Len(crate.params[fd.def]) + IF crate.spec_type[s] = "post" THEN 1 ELSE 0
  BY <1>2 DEF MatchingSpecs
<1>4. Len(fd.params) = Len(crate.params[fd.def])
  BY ParametersThere
<1>5. PICK ps \in Seq(HirIds), n \in Nat : ps = crate.params[s] /\ n = Len(fd.params)
  <2>1. s \in DefIds
    BY <1>1, CrateLists
  <2>2. fd.params \in Seq(SymbolId)
    BY <1>1, FunDefType
  <2> QED
    BY <1>1, <2>1, <2>2, CrateTypes, LenProperties
<1>6. CASE crate.spec_type[s] = "post"
  <2>1. Len(ps) = n + 1
    BY <1>3, <1>4, <1>5, <1>6
  <2>2. ps # <<>>
    BY <1>5, <2>1
  <2>3. SharedParams(s) = SubSeq(ps, 1, n)
    BY <1>5, <1>6, <2>1, <2>2 DEF SharedParams
  <2>4. Len(SubSeq(ps, 1, n)) = n
    BY <1>5, <2>1
  <2> QED
    BY <1>3, <1>5, <2>2, <2>3, <2>4
<1>7. CASE crate.spec_type[s] # "post"
  BY <1>3, <1>4, <1>5, <1>7 DEF SharedParams
<1> QED
  BY <1>6, <1>7

(* The operation on top of the stack can be executed, but for the counter.  *)
LEMMA NeverFails ==
  ASSUME AttachInv, ScopeInv, Supported(crate), SupportedOK, todo # <<>>
  PROVE  Failure(Head(todo)) \in {"none", "overflow"}
<1>1. PICK o : o = Head(todo)
  OBVIOUS
<1>2. /\ CompleteInv /\ ExtractionInv /\ Ordered(todo) /\ ContractsOK
      /\ FunctionsOnce /\ AdtsOK
      /\ crate \in Crates /\ phase \in Phases /\ Head(todo) = todo[1] /\ 1 \in DOMAIN todo
      /\ \A i \in DOMAIN todo : i >= 1
  BY TopOfStack, LenProperties
    DEF AttachInv, CompleteInv, ExtractionInv, TypeOK, ScopeInv, SupportedOK
<1>3. Pending(o.op, o.arg)
  BY <1>1, <1>2 DEF Pending
<1>4. ~(o.op = "adt" /\ IsRegistered(o.arg) /\ NeedsId(o))
  <2>1. CASE phase = "adts"
    BY <1>1, <1>2, <2>1 DEF AdtsOK, TypesBackward, AdtReady
  <2>2. CASE phase \in {"functions", "externals", "done"}
    <3>1. ASSUME o.op = "adt" PROVE did_to_stid[o.arg] \in adts
      <4>1. o.arg \in LocalAdts(crate)
        BY <1>2, <1>3, <2>2, <3>1 DEF AdtsOK, ValuesLocal
      <4>2. items = <<>> /\ adt_items = <<>> /\ ~Pending("addAdt", o.arg)
        BY <1>2, <2>2 DEF CompleteInv, ItemsKept, SortsKept, NonePending, Pending
      <4>3. ~ToVisit("adt", o.arg) /\ ~Waiting(adt_items, o.arg)
        BY <4>2 DEF ToVisit, Waiting
      <4>4. IsSort(o.arg)
        BY <1>2, <4>1, <4>2, <4>3 DEF CompleteInv, SortsKept
      <4> QED
        BY <4>4 DEF IsSort
    <3> QED
      BY <3>1 DEF NeedsId
  <2> QED
    BY <1>2, <2>1, <2>2 DEF Phases, CompleteInv, ItemsKept
<1>5. ~(o.op = "addAdt" /\ did_to_stid[o.arg] \in adts)
  <2>1. ASSUME o.op = "addAdt" PROVE did_to_stid[o.arg] \notin adts
    <3>1. ~IsSort(o.arg)
      BY <1>2, <1>3, <2>1 DEF AdtsOK, AdtsOnce
    <3>2. IsRegistered(o.arg)
      BY <1>1, <1>2, <2>1 DEF ExtractionInv, StackOK, SortPending
    <3> QED
      BY <3>1, <3>2 DEF IsSort
  <2> QED
    BY <2>1
<1>6. ~(o.op \in {"call", "emit", "stub"} /\ NeedsId(o) /\ o.arg \in function_refs)
  <2>1. o.arg \in function_refs => IsRegistered(o.arg)
    BY <1>2 DEF CompleteInv, FunctionsKnown
  <2> QED
    BY <2>1 DEF NeedsId
<1>7. ~(o.op \in {"emit", "stub"} /\ IsRegistered(o.arg) /\ did_to_stid[o.arg] \in DOMAIN functions)
  BY <1>2, <1>3 DEF FunctionsOnce, Added
<1>8. o.op = "bind" /\ o.arg \notin DOMAIN dcx =>
        o.arg \notin crate.complex /\ o.arg \notin DOMAIN hid_to_stid
  BY <1>2, <1>3 DEF ContractsOK, BindingsNew, BindingNew
<1>9. ~(o.op = "bind" /\ NeedsId(o) /\ o.arg \in DOMAIN hid_to_stid)
  BY <1>8 DEF NeedsId
<1>10. ~(o.op \in {"param", "var"} /\ o.arg \notin DOMAIN dcx)
  <2>1. ASSUME o.op \in {"param", "var"}, Pending("bind", o.arg) PROVE FALSE
    <3>1. PICK i \in DOMAIN todo : todo[i].op = "bind"
      BY <2>1 DEF Pending
    <3>2. Earlier(todo[i].op, todo[1].op)
      BY <1>1, <1>2, <2>1, <3>1 DEF Earlier
    <3>3. i < 1 /\ i \in Nat \ {0}
      BY <1>2, <3>1, <3>2, LenProperties DEF Ordered, ExtractionInv, TypeOK
    <3> QED
      BY <3>3
  <2> QED
    BY <1>2, <1>3, <2>1 DEF ContractsOK, VariablesBound
<1>11. o.op = "spec" =>
         /\ crate.parent[o.arg] = crate.parent[fd.def]
         /\ Len(SharedParams(o.arg)) = Len(fd.params)
         /\ ~(crate.spec_type[o.arg] = "post" /\ crate.params[o.arg] = <<>>)
  <2>1. ASSUME o.op = "spec" PROVE o.arg \in SpecFns(crate) /\ MatchingSpecs(crate)
    BY <1>2, <1>3, <2>1 DEF CompleteInv, FunctionsListed, Supported
  <2> QED
    BY <1>1, <1>2, <2>1, SharedThere
<1>12. Failure(o) \in {"none", "overflow"}
  BY <1>4, <1>5, <1>6, <1>7, <1>8, <1>9, <1>10, <1>11 DEF Failure
<1> QED
  BY <1>1, <1>12

(* What is said of ADTs only depends on the variables named.                *)
LEMMA AdtsUnchanged ==
  ASSUME AdtsOK, UNCHANGED <<crate, phase, items, adt_items, todo, did_to_stid, adts>>
  PROVE  AdtsOK'
<1>1. /\ \A k, d : Pending(k, d)' <=> Pending(k, d)
      /\ \A k, d : ToVisit(k, d)' <=> ToVisit(k, d)
      /\ \A d : Waiting(adt_items, d)' <=> Waiting(adt_items, d)
      /\ \A d : IsSort(d)' <=> IsSort(d)
      /\ \A d : IsRegistered(d)' <=> IsRegistered(d)
      /\ \A d : Settled(d)' <=> Settled(d)
  BY DEF Pending, ToVisit, Waiting, IsSort, IsRegistered, Settled
<1>2. /\ \A d : Claimed(d)' <=> Claimed(d)
      /\ \A d : AdtReady(d)' <=> AdtReady(d)
      /\ \A o : TypeOp(o) => TypeOp(o)'
  <2>1. DidKept
    BY DEF DidKept
  <2>2. \A o : TypeOp(o) => TypeOp(o)'
    BY <2>1, SettledKept
  <2> QED
    BY <1>1, <2>2 DEF Claimed, AdtReady
<1>3. TypesBackward'
  BY <1>2 DEF AdtsOK, TypesBackward
<1>4. AdtsNew'
  BY <1>1 DEF AdtsOK, AdtsNew
<1>5. ItemsBackward'
  BY <1>1, <1>2 DEF AdtsOK, ItemsBackward
<1>6. AdtsBackward'
  BY <1>2 DEF AdtsOK, AdtsBackward
<1>7. AdtsOnce' /\ ValuesLocal'
  BY <1>1 DEF AdtsOK, AdtsOnce, ValuesLocal
<1> QED
  BY <1>3, <1>4, <1>5, <1>6, <1>7 DEF AdtsOK

(* The shape that is supported stays so, and so does what is said of it.    *)
LEMMA SupportedStep ==
  ASSUME SupportedInv, ScopeInv, UniqueGlobalIds, UniqueGlobalIds', [Next]_vars
  PROVE  SupportedInv'
<1>1. AttachInv /\ AttachInv' /\ CompleteInv' /\ ExtractionInv
  BY AttachStep DEF SupportedInv, AttachInv, CompleteInv
<1>2. DidKept
  BY <1>1, ExtractionNext, DidGrows
<1>3. crate' = crate
  BY DEF Next, vars, Discovery, VisitAdt, VisitFn, VisitedFns, VisitOther, DiscoveryDone,
    Discover, Loops, StartAdt, AdtsDone, StartFunction, FunctionsDone, StartStub, StubsDone,
    Traversal, TypeParameter, MentionType, ExtractAdt, Constructor, Field, SortBuilt,
    AddAdt, Call, EnterBody, KnownBinding, NewBinding, Parameter, VarRef, Unsupported,
    ExtractSpec, ReturnVar, AddFunction, StubInput, Execute, Panic
<1>4. ASSUME Supported(crate)
      PROVE  SupportedOK' /\ panicked' \in {"none", "overflow"}
  <2>1. /\ SupportedOK /\ AdtsOK /\ FunctionsOnce /\ ContractsOK /\ SpecsApart
        /\ panicked \in {"none", "overflow"}
    BY <1>4 DEF SupportedInv, SupportedOK, ContractsOK
  <2>2. NoExternalValues(crate) /\ SimpleParams(crate)
    BY <1>4 DEF Supported
  <2>3. CASE UNCHANGED vars
    <3>1. UNCHANGED <<crate, phase, items, adt_items, fn_items, specs, stubs, todo, dcx, fd,
                      did_to_stid, hid_to_stid, adts, functions, panicked>>
      BY <2>3 DEF vars, mapping_vars, discovery_vars, output_vars
    <3>2. AdtsOK'
      BY <2>1, <3>1, AdtsUnchanged
    <3>3. FunctionsOnce'
      <4>1. \A k, g : Pending(k, g)' => Pending(k, g)
        BY <3>1 DEF Pending
      <4>2. CompleteInv
        BY <1>1 DEF AttachInv
      <4> QED
        BY <1>2, <2>1, <3>1, <4>1, <4>2, QuietFunctions
    <3>4. ContractsOK'
      BY <2>1, <3>1, ContractsUnchanged
    <3> QED
      BY <2>1, <3>1, <3>2, <3>3, <3>4 DEF SupportedOK
  <2>4. CASE Next
    <3>1. AdtsOK'
      BY <1>1, <1>2, <2>1, <2>2, <2>4, AdtsStep
    <3>2. FunctionsOnce'
      BY <1>1, <1>2, <2>1, <2>4, FunctionsOnceStep
    <3>3. ContractsOK'
      <4>1. CompleteInv /\ Ordered(todo) /\ OwnBody
        BY <1>1 DEF AttachInv, ScopeInv
      <4>2. CASE Discovery
        BY <1>1, <2>1, <4>2, ContractsDiscovery
      <4>3. CASE Loops
        BY <1>1, <2>1, <4>3, ContractsLoops
      <4>4. CASE Traversal
        BY <1>1, <2>1, <2>2, <4>1, <4>4, ContractsTraversal
      <4> QED
        BY <2>4, <4>2, <4>3, <4>4 DEF Next
    <3>4. panicked' \in {"none", "overflow"}
      <4>1. CASE Panic
        <5>1. todo # <<>> /\ panicked' = Failure(Head(todo))
          BY <4>1 DEF Panic
        <5> QED
          BY <1>1, <1>4, <2>1, <5>1, NeverFails
      <4>2. CASE ~Panic
        <5>1. panicked' = panicked
          BY <2>4, <4>2
            DEF Next, Discovery, VisitAdt, VisitFn, VisitedFns, VisitOther, DiscoveryDone,
              Discover, Loops, StartAdt, AdtsDone, StartFunction, FunctionsDone, StartStub,
              StubsDone, Traversal, TypeParameter, MentionType, ExtractAdt, Constructor, Field,
              SortBuilt, AddAdt, Call, EnterBody, KnownBinding, NewBinding, Parameter, VarRef,
              Unsupported, ExtractSpec, ReturnVar, AddFunction, StubInput, Execute
        <5> QED
          BY <2>1, <5>1
      <4> QED
        BY <4>1, <4>2
    <3> QED
      BY <3>1, <3>2, <3>3, <3>4 DEF SupportedOK
  <2> QED
    BY <2>3, <2>4
<1>5. Supported(crate)' => Supported(crate)
  BY <1>3
<1> QED
  BY <1>1, <1>4, <1>5 DEF SupportedInv

(* extract_adt, extract_fn_ref, add_adt, add_function, extract_binding,     *)
(* fetch_var, extract_spec_fn: on a crate of the supported shape none of    *)
(* their assertions fails, in whatever order the crate is gone through.     *)
THEOREM SupportedExtracted == Spec => []SupportedNeverPanics
<1>1. Init => SupportedInv
  <2> SUFFICES ASSUME Init PROVE SupportedInv
    OBVIOUS
  <2>1. AttachInv /\ panicked = "none"
    BY AttachInit DEF Init
  <2>2. Supported(crate) => SupportedOK
    BY AdtsInit, ContractsInit DEF Supported, SupportedOK
  <2> QED
    BY <2>1, <2>2 DEF SupportedInv
<1>2. SupportedInv /\ ScopeInv /\ UniqueGlobalIds /\ UniqueGlobalIds' /\ [Next]_vars
        => SupportedInv'
  BY SupportedStep
<1>3. SupportedInv => SupportedNeverPanics
  BY DEF SupportedInv, SupportedNeverPanics
<1> QED
  BY <1>1, <1>2, <1>3, ScopeInvariant, ExtractedIdsUnique, PTL DEF Spec
=============================================================================
