-------------------------- MODULE ExtractionProofs --------------------------
(***************************************************************************)
(* Proofs about SymbolMapping, for any definitions, bindings and names:     *)
(* identifiers are unique in both senses, and the mapping implements the    *)
(* abstract SymbolTable in both senses. Then about Extraction, for any      *)
(* crates: the type invariant, and that the traversal only touches the      *)
(* identifier mapping through register_def, register_hir and fresh_id, so   *)
(* that everything proved of SymbolMapping holds of the identifiers of an   *)
(* extracted program; that the traversal of types enters no ADT twice,      *)
(* whatever the types refer to; that what a function and its contract       *)
(* mention is in scope; and that what is found of a crate is all extracted. *)
(***************************************************************************)
EXTENDS Extraction, FiniteSetTheorems, SequenceTheorems, TLAPS

(* The owner o is given the next identifier of name n, the others keep      *)
(* theirs: what every operation of the mapping amounts to.                  *)
Issues(o, n) ==
  /\ n \in Names
  /\ o \notin Owners
  /\ Owners' = Owners \cup {o}
  /\ IdOf(o)' = FreshId(n)
  /\ \A p \in Owners : IdOf(p)' = IdOf(p)
  /\ Advance(n)

(* The inductive invariant: every identifier in use is below both counters. *)
Below ==
  \A o \in Owners :
    /\ IdOf(o) \in SymbolId
    /\ IdOf(o).globalId < global_id_counter
    /\ IdOf(o).id < local_id_counter[IdOf(o).name]

VarsCounted == Len(fresh_vars) <= global_id_counter

MappingInv ==
  MappingTypeOK /\ Below /\ UniqueGlobalIds /\ UniqueNamedIds /\ VarsCounted

(* register_def registers under a name of Names, converted if need be.      *)
LEMMA StNameType == ASSUME NEW d \in DefIds PROVE StName(d) \in Names
  BY MappingAssumption DEF StName, MappingAssumption

(* The type invariant holds in the empty mapping...                         *)
LEMMA MappingInitType == MappingInit => MappingTypeOK
  BY DEF MappingInit, MappingTypeOK, SymbolId

(* ... and fresh_id returns an identifier.                                  *)
LEMMA FreshIdType ==
  ASSUME MappingTypeOK, NEW n \in Names PROVE FreshId(n) \in SymbolId
  BY DEF MappingTypeOK, FreshId, SymbolId

(* Advancing the counters keeps their types.                                *)
LEMMA AdvanceType ==
  ASSUME MappingTypeOK, NEW n \in Names, Advance(n)
  PROVE  /\ global_id_counter' = global_id_counter + 1
         /\ global_id_counter' \in Nat
         /\ local_id_counter' \in [Names -> Nat]
         /\ local_id_counter'[n] = local_id_counter[n] + 1
         /\ \A m \in Names \ {n} : local_id_counter'[m] = local_id_counter[m]
  BY DEF MappingTypeOK, Advance

(* Registration of a definition: type, and what it amounts to.              *)
LEMMA RegisterDefStep ==
  ASSUME MappingTypeOK, NEW d \in DefIds, RegisterDef(d)
  PROVE  MappingTypeOK' /\ Issues(<<"def", d>>, StName(d))
<1> DEFINE n == StName(d)  o == <<"def", d>>
<1>1. n \in Names
  BY StNameType
<1>2. FreshId(n) \in SymbolId
  BY <1>1, FreshIdType
<1>3. Advance(n) /\ d \notin DOMAIN did_to_stid
  BY DEF RegisterDef
<1>4. /\ did_to_stid' = Insert(did_to_stid, d, FreshId(n))
      /\ hid_to_stid' = hid_to_stid /\ fresh_vars' = fresh_vars
  BY DEF RegisterDef
<1>5. /\ DOMAIN did_to_stid' = DOMAIN did_to_stid \cup {d}
      /\ did_to_stid'[d] = FreshId(n)
      /\ \A e \in DOMAIN did_to_stid : did_to_stid'[e] = did_to_stid[e]
  BY <1>3, <1>4 DEF Insert
<1>6. MappingTypeOK'
  BY <1>1, <1>2, <1>3, <1>4, <1>5, AdvanceType DEF MappingTypeOK
<1>7. o \notin Owners
  BY <1>3 DEF Owners
<1>8. Owners' = Owners \cup {o}
  BY <1>4, <1>5 DEF Owners
<1>9. IdOf(o)' = FreshId(n)
  BY <1>5 DEF IdOf
<1>10. \A p \in Owners : IdOf(p)' = IdOf(p)
  BY <1>4, <1>5 DEF Owners, IdOf
<1> QED
  BY <1>1, <1>3, <1>6, <1>7, <1>8, <1>9, <1>10 DEF Issues

(* Registration of a binding, likewise.                                     *)
LEMMA RegisterHirStep ==
  ASSUME MappingTypeOK, NEW h \in HirIds, RegisterHir(h)
  PROVE  MappingTypeOK' /\ Issues(<<"hir", h>>, HirName[h])
<1> DEFINE n == HirName[h]  o == <<"hir", h>>
<1>1. n \in Names
  BY MappingAssumption DEF MappingAssumption
<1>2. FreshId(n) \in SymbolId
  BY <1>1, FreshIdType
<1>3. Advance(n) /\ h \notin DOMAIN hid_to_stid
  BY DEF RegisterHir
<1>4. /\ hid_to_stid' = Insert(hid_to_stid, h, FreshId(n))
      /\ did_to_stid' = did_to_stid /\ fresh_vars' = fresh_vars
  BY DEF RegisterHir
<1>5. /\ DOMAIN hid_to_stid' = DOMAIN hid_to_stid \cup {h}
      /\ hid_to_stid'[h] = FreshId(n)
      /\ \A e \in DOMAIN hid_to_stid : hid_to_stid'[e] = hid_to_stid[e]
  BY <1>3, <1>4 DEF Insert
<1>6. MappingTypeOK'
  BY <1>1, <1>2, <1>3, <1>4, <1>5, AdvanceType DEF MappingTypeOK
<1>7. o \notin Owners
  BY <1>3 DEF Owners
<1>8. Owners' = Owners \cup {o}
  BY <1>4, <1>5 DEF Owners
<1>9. IdOf(o)' = FreshId(n)
  BY <1>5 DEF IdOf
<1>10. \A p \in Owners : IdOf(p)' = IdOf(p)
  BY <1>4, <1>5 DEF Owners, IdOf
<1> QED
  BY <1>1, <1>3, <1>6, <1>7, <1>8, <1>9, <1>10 DEF Issues

(* A made-up variable, likewise: its owner is its place in fresh_vars.      *)
LEMMA FreshVarStep ==
  ASSUME MappingTypeOK, NEW n \in Names, FreshVar(n),
         NEW k \in Nat, k = Len(fresh_vars) + 1
  PROVE  MappingTypeOK' /\ Issues(<<"var", k>>, n)
<1> DEFINE o == <<"var", k>>
<1>1. FreshId(n) \in SymbolId
  BY FreshIdType
<1>2. /\ Advance(n)
      /\ fresh_vars' = Append(fresh_vars, FreshId(n))
      /\ did_to_stid' = did_to_stid /\ hid_to_stid' = hid_to_stid
  BY DEF FreshVar
<1>3. fresh_vars \in Seq(SymbolId)
  BY DEF MappingTypeOK
<1>4. /\ fresh_vars' \in Seq(SymbolId)
      /\ DOMAIN fresh_vars' = DOMAIN fresh_vars \cup {k}
      /\ k \notin DOMAIN fresh_vars
      /\ fresh_vars'[k] = FreshId(n)
      /\ \A i \in DOMAIN fresh_vars : fresh_vars'[i] = fresh_vars[i]
  BY <1>1, <1>2, <1>3
<1>5. MappingTypeOK'
  BY <1>2, <1>4, AdvanceType DEF MappingTypeOK
<1>6. o \notin Owners
  BY <1>4 DEF Owners
<1>7. Owners' = Owners \cup {o}
  BY <1>2, <1>4 DEF Owners
<1>8. IdOf(o)' = FreshId(n)
  BY <1>4 DEF IdOf
<1>9. \A p \in Owners : IdOf(p)' = IdOf(p)
  BY <1>2, <1>4 DEF Owners, IdOf
<1> QED
  BY <1>2, <1>5, <1>6, <1>7, <1>8, <1>9 DEF Issues

(* Issuing an identifier above all those in use keeps them unique.          *)
LEMMA IssuesKeepsUnique ==
  ASSUME MappingTypeOK, Below, UniqueGlobalIds, UniqueNamedIds,
         NEW o, NEW n, Issues(o, n)
  PROVE  Below' /\ UniqueGlobalIds' /\ UniqueNamedIds'
<1> DEFINE g == global_id_counter  l == local_id_counter
<1>1. /\ n \in Names /\ g \in Nat /\ l \in [Names -> Nat]
      /\ g' = g + 1 /\ l' \in [Names -> Nat] /\ l'[n] = l[n] + 1
      /\ \A m \in Names \ {n} : l'[m] = l[m]
  BY AdvanceType DEF Issues, MappingTypeOK
<1>2. /\ IdOf(o)' \in SymbolId /\ IdOf(o)'.globalId = g
      /\ IdOf(o)'.name = n /\ IdOf(o)'.id = l[n]
  BY FreshIdType DEF Issues, FreshId
<1>3. \A p \in Owners :
        /\ IdOf(p)' \in SymbolId /\ IdOf(p)' = IdOf(p)
        /\ IdOf(p).name \in Names /\ IdOf(p).globalId \in Nat /\ IdOf(p).id \in Nat
        /\ IdOf(p).globalId < g /\ IdOf(p).id < l[IdOf(p).name]
  BY DEF Issues, Below, SymbolId
<1>4. Owners' = Owners \cup {o}
  BY DEF Issues
<1>5. Below'
  <2> SUFFICES ASSUME NEW p \in Owners'
               PROVE  /\ IdOf(p)' \in SymbolId
                      /\ IdOf(p)'.globalId < g'
                      /\ IdOf(p)'.id < l'[IdOf(p)'.name]
    BY DEF Below
  <2>1. CASE p = o
    BY <1>1, <1>2, <2>1
  <2>2. CASE p \in Owners
    BY <1>1, <1>3, <2>2
  <2> QED
    BY <1>4, <2>1, <2>2
<1>6. \A p \in Owners : IdOf(p)'.globalId # IdOf(o)'.globalId
  BY <1>1, <1>2, <1>3
<1>7. \A p \in Owners : IdOf(p)'.name = n => IdOf(p)'.id # l[n]
  BY <1>1, <1>2, <1>3
<1>8. UniqueGlobalIds'
  BY <1>3, <1>4, <1>6 DEF UniqueGlobalIds
<1>9. UniqueNamedIds'
  BY <1>2, <1>3, <1>4, <1>7 DEF UniqueNamedIds
<1> QED
  BY <1>5, <1>8, <1>9

(* Every operation of the mapping issues one identifier.                    *)
LEMMA MappingNextIssues ==
  ASSUME MappingTypeOK, MappingNext
  PROVE  MappingTypeOK' /\ \E o, n : Issues(o, n)
<1>1. CASE \E d \in DefIds : RegisterDef(d)
  BY <1>1, RegisterDefStep
<1>2. CASE \E h \in HirIds : RegisterHir(h)
  BY <1>2, RegisterHirStep
<1>3. CASE \E n \in Names : FreshVar(n)
  <2>1. PICK k \in Nat : k = Len(fresh_vars) + 1
    BY DEF MappingTypeOK
  <2> QED
    BY <1>3, <2>1, FreshVarStep
<1> QED
  BY <1>1, <1>2, <1>3 DEF MappingNext

(* The number of made-up variables stays below the global counter.          *)
LEMMA VarsCountedStep ==
  ASSUME MappingTypeOK, VarsCounted, MappingNext
  PROVE  VarsCounted'
<1>1. global_id_counter' = global_id_counter + 1 /\ global_id_counter \in Nat
  BY DEF MappingTypeOK, MappingNext, RegisterDef, RegisterHir, FreshVar, Advance
<1>2. /\ Len(fresh_vars) \in Nat
      /\ Len(fresh_vars') = Len(fresh_vars) \/ Len(fresh_vars') = Len(fresh_vars) + 1
  BY DEF MappingTypeOK, MappingNext, RegisterDef, RegisterHir, FreshVar
<1> QED
  BY <1>1, <1>2 DEF VarsCounted

(* The invariant holds in the empty mapping, ...                            *)
LEMMA MappingInitInv == MappingInit => MappingInv
<1> SUFFICES ASSUME MappingInit PROVE MappingInv
  OBVIOUS
<1>1. Owners = {}
  BY DEF MappingInit, Owners
<1> QED
  BY <1>1, MappingInitType
  DEF MappingInit, MappingInv, Below, UniqueGlobalIds, UniqueNamedIds, VarsCounted

(* ... and every operation keeps it.                                        *)
LEMMA MappingInvStep == MappingInv /\ [MappingNext]_mapping_vars => MappingInv'
<1> SUFFICES ASSUME MappingInv, [MappingNext]_mapping_vars PROVE MappingInv'
  OBVIOUS
<1>1. CASE MappingNext
  BY <1>1, MappingNextIssues, IssuesKeepsUnique, VarsCountedStep DEF MappingInv
<1>2. CASE UNCHANGED mapping_vars
  BY <1>2 DEF mapping_vars, MappingInv, MappingTypeOK, Below, UniqueGlobalIds,
    UniqueNamedIds, VarsCounted, Owners, IdOf
<1> QED
  BY <1>1, <1>2

(* Identifiers are typed, and unique by globalId and by name and per-name   *)
(* id, in any mapping reached by register_def, register_hir and fresh_id.   *)
THEOREM MappingCorrect ==
  MappingSpec => [](MappingTypeOK /\ UniqueGlobalIds /\ UniqueNamedIds)
<1>1. MappingInv => MappingTypeOK /\ UniqueGlobalIds /\ UniqueNamedIds
  BY DEF MappingInv
<1> QED
  BY <1>1, MappingInitInv, MappingInvStep, PTL DEF MappingSpec

----------------------------------------------------------------------------
(* Refinement of SymbolTable.                                               *)

(* Issuing an identifier is a registration in the abstract table.           *)
LEMMA IssuesRegisters ==
  ASSUME MappingInv, NEW o, NEW n, Issues(o, n)
  PROVE  ByGlobalId!Register(o) /\ ByName!Register(o)
<1> DEFINE g == [p \in Owners |-> IdOf(p).globalId]
           s == [p \in Owners |-> <<IdOf(p).name, IdOf(p).id>>]
<1>1. /\ o \notin Owners /\ Owners' = Owners \cup {o}
      /\ \A p \in Owners : IdOf(p)' = IdOf(p)
  BY DEF Issues
<1>2. /\ \A p \in Owners : IdOf(p).globalId # IdOf(o)'.globalId
      /\ \A p \in Owners : IdOf(p).name = IdOf(o)'.name => IdOf(p).id # IdOf(o)'.id
  BY <1>1, IssuesKeepsUnique DEF MappingInv, UniqueGlobalIds, UniqueNamedIds
<1>3. /\ DOMAIN g = Owners /\ DOMAIN g' = Owners'
      /\ DOMAIN s = Owners /\ DOMAIN s' = Owners'
  OBVIOUS
<1>4. \A p \in Owners : g'[p] = g[p] /\ g'[o] # g[p]
  BY <1>1, <1>2
<1>5. \A p \in Owners : s'[p] = s[p] /\ s'[o] # s[p]
  BY <1>1, <1>2
<1>6. ByGlobalId!Register(o)
  BY <1>1, <1>3, <1>4 DEF ByGlobalId!Register
<1>7. ByName!Register(o)
  BY <1>1, <1>3, <1>5 DEF ByName!Register
<1> QED
  BY <1>6, <1>7

(* The owner is one of the possible ones.                                   *)
LEMMA MappingNextRegisters ==
  ASSUME MappingInv, MappingNext
  PROVE  \E o \in PossibleOwners, n \in Names : Issues(o, n)
<1>1. CASE \E d \in DefIds : RegisterDef(d)
  <2>1. PICK d \in DefIds : RegisterDef(d)
    BY <1>1
  <2>2. Issues(<<"def", d>>, StName(d)) /\ <<"def", d>> \in PossibleOwners
    BY <2>1, RegisterDefStep DEF MappingInv, PossibleOwners
  <2> QED
    BY <2>2, StNameType
<1>2. CASE \E h \in HirIds : RegisterHir(h)
  <2>1. PICK h \in HirIds : RegisterHir(h)
    BY <1>2
  <2>2. Issues(<<"hir", h>>, HirName[h]) /\ <<"hir", h>> \in PossibleOwners
    BY <2>1, RegisterHirStep DEF MappingInv, PossibleOwners
  <2> QED
    BY <2>2, MappingAssumption DEF MappingAssumption
<1>3. CASE \E n \in Names : FreshVar(n)
  <2>1. PICK n \in Names : FreshVar(n)
    BY <1>3
  <2>2. PICK k \in Nat : k = Len(fresh_vars) + 1
    BY DEF MappingInv, MappingTypeOK
  <2>3. Issues(<<"var", k>>, n)
    BY <2>1, <2>2, FreshVarStep DEF MappingInv
  <2>4. k \in 1 .. MaxCounter
    BY <2>1, <2>2, MappingAssumption
    DEF MappingInv, MappingTypeOK, VarsCounted, FreshVar, Advance, CounterLeft,
        MappingAssumption
  <2> QED
    BY <2>3, <2>4 DEF PossibleOwners
<1> QED
  BY <1>1, <1>2, <1>3 DEF MappingNext

(* A step of the mapping is a step of both abstract tables.                 *)
LEMMA MappingStepRefines ==
  ASSUME MappingInv, [MappingNext]_mapping_vars
  PROVE  /\ [ByGlobalId!Next]_([o \in Owners |-> IdOf(o).globalId])
         /\ [ByName!Next]_([o \in Owners |-> <<IdOf(o).name, IdOf(o).id>>])
<1>1. CASE MappingNext
  BY <1>1, MappingNextRegisters, IssuesRegisters DEF ByGlobalId!Next, ByName!Next
<1>2. CASE UNCHANGED mapping_vars
  BY <1>2 DEF mapping_vars, Owners, IdOf
<1> QED
  BY <1>1, <1>2

(* The mapping implements the abstract table, by globalId...                *)
THEOREM MappingImplementsByGlobalId == MappingSpec => ImplementsByGlobalId
<1>1. MappingInit => ByGlobalId!Init
  BY DEF MappingInit, ByGlobalId!Init, Owners
<1>2. MappingInv /\ [MappingNext]_mapping_vars =>
        [ByGlobalId!Next]_([o \in Owners |-> IdOf(o).globalId])
  BY MappingStepRefines
<1> QED
  BY <1>1, <1>2, MappingInitInv, MappingInvStep, PTL
  DEF MappingSpec, ImplementsByGlobalId, ByGlobalId!Spec

(* ... and by name: each owner is given one identifier, once and for all,   *)
(* that no other owner has.                                                 *)
THEOREM MappingImplementsByName == MappingSpec => ImplementsByName
<1>1. MappingInit => ByName!Init
  BY DEF MappingInit, ByName!Init, Owners
<1>2. MappingInv /\ [MappingNext]_mapping_vars =>
        [ByName!Next]_([o \in Owners |-> <<IdOf(o).name, IdOf(o).id>>])
  BY MappingStepRefines
<1> QED
  BY <1>1, <1>2, MappingInitInv, MappingInvStep, PTL
  DEF MappingSpec, ImplementsByName, ByName!Spec

-----------------------------------------------------------------------------
(* Extraction.                                                              *)

(* What the call stack looks like.  A function is under construction while  *)
(* operations that work on it are pending ...                               *)
FnOps == {"enter", "param", "var", "spec", "ret", "emit", "stub", "input"}
InFunction ==
  \A i \in DOMAIN todo : todo[i].op \in FnOps => fd \in FunDef

(* ... and adding it is the last thing done.                                *)
AddedLast ==
  \A i \in DOMAIN todo : todo[i].op \in {"emit", "stub"} => i = Len(todo)

(* Spec functions are filed, and later run, under their own type.           *)
SpecsByType ==
  /\ \A g \in DefIds, t \in SpecTypes : \A i \in DOMAIN specs[g][t] :
       crate.spec_type[specs[g][t][i]] = t
  /\ \A i \in DOMAIN todo :
       todo[i].op = "spec" => crate.spec_type[todo[i].arg] \in SpecTypes

(* The result variable is there when a postcondition is extracted.          *)
ResultFirst ==
  \A i \in DOMAIN todo :
    todo[i].op = "spec" /\ crate.spec_type[todo[i].arg] = "post" =>
      fd.ret # <<>> \/ \E j \in 1 .. i - 1 : todo[j].op = "ret"

(* The inputs of a stub are those of the function under construction.       *)
InputsInRange ==
  \A i \in DOMAIN todo :
    todo[i].op = "input" => todo[i].arg \in DOMAIN crate.inputs[fd.def]

(* The sort that add_adt adds has an identifier, or extract_adt gives it    *)
(* one before.                                                              *)
SortPending ==
  \A i \in DOMAIN todo :
    todo[i].op = "addAdt" =>
      \/ IsRegistered(todo[i].arg)
      \/ \E j \in 1 .. i - 1 : todo[j].op = "adt" /\ todo[j].arg = todo[i].arg

StackOK ==
  InFunction /\ AddedLast /\ SpecsByType /\ ResultFirst /\ InputsInRange /\ SortPending

ExtractionInv == TypeOK /\ StackOK

----------------------------------------------------------------------------
(* Sequences of operations.                                                 *)

(* Where an element of a concatenation comes from.                          *)
LEMMA ConcatFrom ==
  ASSUME NEW S, NEW s \in Seq(S), NEW t \in Seq(S)
  PROVE  /\ s \o t \in Seq(S)
         /\ Len(s \o t) = Len(s) + Len(t)
         /\ \A i \in DOMAIN (s \o t) :
              \/ i \in DOMAIN s /\ (s \o t)[i] = s[i]
              \/ i - Len(s) \in DOMAIN t /\ (s \o t)[i] = t[i - Len(s)]
         /\ \A i \in DOMAIN s : i \in DOMAIN (s \o t) /\ (s \o t)[i] = s[i]
         /\ \A i \in DOMAIN t :
              Len(s) + i \in DOMAIN (s \o t) /\ (s \o t)[Len(s) + i] = t[i]
  BY ConcatProperties, LenProperties

(* The arguments of operations.                                             *)
LEMMA OpArgs ==
  ASSUME NEW o \in Op
  PROVE  /\ o.op \in DefOps => o.arg \in DefIds
         /\ o.op \in HirOps => o.arg \in HirIds
         /\ o.op = "input" => o.arg \in Nat \ {0}
  BY DEF Op, DefOps, HirOps

(* A sequence of operations of one kind.                                    *)
LEMMA DefOpsType ==
  ASSUME NEW kind \in DefOps, NEW args \in Seq(DefIds)
  PROVE  /\ Ops(kind, args) \in Seq(Op)
         /\ DOMAIN Ops(kind, args) = DOMAIN args
         /\ \A i \in DOMAIN args :
              Ops(kind, args)[i].op = kind /\ Ops(kind, args)[i].arg = args[i]
<1>1. \A i \in 1 .. Len(args) : [op |-> kind, arg |-> args[i]] \in Op
  BY DEF Op
<1> QED
  BY <1>1, LenProperties DEF Ops

(* The same, of operations on bindings.                                     *)
LEMMA HirOpsType ==
  ASSUME NEW kind \in HirOps, NEW args \in Seq(HirIds)
  PROVE  /\ Ops(kind, args) \in Seq(Op)
         /\ DOMAIN Ops(kind, args) = DOMAIN args
         /\ \A i \in DOMAIN args :
              Ops(kind, args)[i].op = kind /\ Ops(kind, args)[i].arg = args[i]
<1>1. \A i \in 1 .. Len(args) : [op |-> kind, arg |-> args[i]] \in Op
  BY DEF Op
<1> QED
  BY <1>1, LenProperties DEF Ops

(* A single operation on a definition, ...                                  *)
LEMMA OneType ==
  ASSUME NEW kind \in DefOps, NEW d \in DefIds
  PROVE  /\ One(kind, d) \in Seq(Op)
         /\ Len(One(kind, d)) = 1 /\ DOMAIN One(kind, d) = {1}
         /\ One(kind, d)[1].op = kind /\ One(kind, d)[1].arg = d
<1>1. [op |-> kind, arg |-> d] \in Op
  BY DEF Op
<1> QED
  BY <1>1 DEF One

(* ... and the one that makes the result variable.                          *)
LEMMA OneRet ==
  /\ One("ret", NoDef) \in Seq(Op)
  /\ Len(One("ret", NoDef)) = 1 /\ DOMAIN One("ret", NoDef) = {1}
  /\ One("ret", NoDef)[1].op = "ret"
<1>1. [op |-> "ret", arg |-> NoDef] \in Op
  BY DEF Op
<1> QED
  BY <1>1 DEF One

(* What the crate is made of.                                               *)
LEMMA CrateTypes ==
  ASSUME crate \in Crates, NEW d \in DefIds
  PROVE  /\ crate.items \in Seq(Item)
         /\ crate.external \in SUBSET DefIds
         /\ crate.spec_type[d] \in SpecTypes \cup {"none"}
         /\ crate.spec_of[d] \in DefIds \cup {NoDef}
         /\ crate.tparams[d] \in Seq(DefIds) /\ crate.bounds[d] \in Seq(DefIds)
         /\ crate.variants[d] \in Seq(DefIds) /\ crate.fields[d] \in Seq(DefIds)
         /\ crate.types[d] \in Seq(DefIds) /\ crate.inputs[d] \in Seq(Seq(DefIds))
         /\ Len(crate.inputs[d]) <= Len(ParamNames)
         /\ crate.params[d] \in Seq(HirIds) /\ crate.locals[d] \in Seq(HirIds)
         /\ crate.body[d] \in Seq(BodyOp)
  BY ExtractionAssumption DEF ExtractionAssumption, Crate

(* The types of a binding.                                                  *)
LEMMA BindingTypes ==
  ASSUME crate \in Crates, NEW h \in HirIds
  PROVE  crate.hir_types[h] \in Seq(DefIds)
  BY ExtractionAssumption DEF ExtractionAssumption, Crate

----------------------------------------------------------------------------
(* What an operation puts before the rest: nothing that belongs to a        *)
(* function under construction unless it does so itself.                    *)
Rooted == {"addAdt", "enter", "spec", "ret", "input", "emit", "stub"}
Pushed(ops) == ops \in Seq(Op) /\ \A i \in DOMAIN ops : ops[i].op \notin Rooted
Outside(ops) == \A i \in DOMAIN ops : ops[i].op \notin FnOps

(* Concatenations of such sequences are such sequences.                     *)
LEMMA PushedConcat ==
  ASSUME NEW s, NEW t, Pushed(s), Pushed(t)
  PROVE  /\ Pushed(s \o t)
         /\ Outside(s) /\ Outside(t) => Outside(s \o t)
<1>1. s \in Seq(Op) /\ t \in Seq(Op)
  BY DEF Pushed
<1>2. /\ s \o t \in Seq(Op)
      /\ \A i \in DOMAIN (s \o t) :
              \/ i \in DOMAIN s /\ (s \o t)[i] = s[i]
              \/ i - Len(s) \in DOMAIN t /\ (s \o t)[i] = t[i - Len(s)]
  BY <1>1, ConcatFrom
<1> QED
  BY <1>2 DEF Pushed, Outside

(* The sequences the traversal pushes.                                      *)
LEMMA PushedEmpty == Pushed(<<>>) /\ Outside(<<>>)
  BY DEF Pushed, Outside

(* Registrations, mentions of types, variants and fields, ...               *)
LEMMA PushedDefs ==
  ASSUME NEW kind \in {"reg", "type", "variant", "field"}, NEW args \in Seq(DefIds)
  PROVE  Pushed(Ops(kind, args)) /\ Outside(Ops(kind, args))
  BY DefOpsType DEF Pushed, Outside, Rooted, FnOps, DefOps

(* ... bindings, parameters and uses of variables, ...                      *)
LEMMA PushedHirs ==
  ASSUME NEW kind \in HirOps, NEW args \in Seq(HirIds)
  PROVE  Pushed(Ops(kind, args))
  BY HirOpsType DEF Pushed, Rooted, HirOps

(* ... the end of extract_adt, ...                                          *)
LEMMA PushedSort ==
  ASSUME NEW d \in DefIds
  PROVE  Pushed(One("sort", d)) /\ Outside(One("sort", d))
<1>1. "sort" \in DefOps
  BY DEF DefOps
<1> QED
  BY <1>1, OneType DEF Pushed, Outside, Rooted, FnOps

(* ... the body of a function, ...                                          *)
LEMMA PushedBody ==
  ASSUME NEW ops \in Seq(BodyOp)
  PROVE  Pushed(ops)
<1>1. BodyOp \subseteq Op
  BY DEF BodyOp, Op, DefOps, HirOps
<1>2. ops \in Seq(Op)
  BY <1>1, SeqMonotonic
<1>3. \A i \in DOMAIN ops : ops[i] \in BodyOp
  BY LenProperties
<1>4. \A o \in BodyOp : o.op \notin Rooted
  BY DEF BodyOp, Rooted
<1> QED
  BY <1>2, <1>3, <1>4 DEF Pushed

(* ... what extract_generics does, ...                                      *)
LEMMA PushedGenerics ==
  ASSUME crate \in Crates, NEW d \in DefIds
  PROVE  Pushed(GenericsOps(d)) /\ Outside(GenericsOps(d))
<1>1. crate.tparams[d] \in Seq(DefIds) /\ crate.bounds[d] \in Seq(DefIds)
  BY CrateTypes
<1> QED
  BY <1>1, PushedDefs, PushedConcat DEF GenericsOps

(* ... what extract_adt does, ...                                           *)
LEMMA PushedAdt ==
  ASSUME crate \in Crates, NEW d \in DefIds
  PROVE  Pushed(AdtOps(d)) /\ Outside(AdtOps(d))
<1>1. crate.variants[d] \in Seq(DefIds)
  BY CrateTypes
<1>2. Pushed(Ops("variant", crate.variants[d])) /\ Outside(Ops("variant", crate.variants[d]))
  BY <1>1, PushedDefs
<1> QED
  BY <1>2, PushedGenerics, PushedSort, PushedConcat DEF AdtOps

(* ... and what populate_def_context does.                                  *)
LEMMA PushedBindings ==
  ASSUME crate \in Crates, NEW d \in DefIds
  PROVE  Pushed(BindingOps(d))
<1>1. crate.params[d] \in Seq(HirIds) /\ crate.locals[d] \in Seq(HirIds)
  BY CrateTypes
<1>2. "bind" \in HirOps
  BY DEF HirOps
<1> QED
  BY <1>1, <1>2, PushedHirs, PushedConcat DEF BindingOps, Collected

(* The top of the stack is replaced by operations of that sort: the stack   *)
(* is as it should be.                                                      *)
LEMMA ContinueStep ==
  ASSUME ExtractionInv, todo # <<>>, NEW ops, Pushed(ops), Continue(ops),
         UNCHANGED <<crate, specs>>,
         Outside(ops) \/ Head(todo).op \in FnOps,
         fd \in FunDef => /\ fd' \in FunDef /\ fd'.def = fd.def
                          /\ fd.ret # <<>> => fd'.ret # <<>>,
         DOMAIN did_to_stid \subseteq DOMAIN did_to_stid',
         Head(todo).op = "adt" => Head(todo).arg \in DOMAIN did_to_stid',
         Head(todo).op = "ret" => fd'.ret # <<>>
  PROVE  todo' \in Seq(Op) /\ StackOK'
<1>0. PICK k \in Nat : k = Len(ops)
  BY LenProperties DEF Pushed
<1>1. /\ todo \in Seq(Op) /\ ops \in Seq(Op) /\ Tail(todo) \in Seq(Op)
      /\ Len(todo) \in Nat \ {0} /\ k \in Nat /\ k = Len(ops)
      /\ DOMAIN todo = 1 .. Len(todo) /\ DOMAIN ops = 1 .. k
      /\ Head(todo) = todo[1]
      /\ Len(Tail(todo)) = Len(todo) - 1
      /\ \A i \in 1 .. Len(todo) - 1 : Tail(todo)[i] = todo[i + 1]
  BY <1>0, HeadTailProperties, LenProperties DEF ExtractionInv, TypeOK, Pushed
<1>2. /\ todo' \in Seq(Op)
      /\ DOMAIN todo' = 1 .. k + Len(todo) - 1
      /\ Len(todo') = k + Len(todo) - 1
      /\ \A i \in 1 .. k : todo'[i] = ops[i]
      /\ \A i \in k + 1 .. k + Len(todo) - 1 : todo'[i] = Tail(todo)[i - k]
  BY <1>1, ConcatProperties DEF Continue
<1>3. \A m \in 2 .. Len(todo) : k + m - 1 \in DOMAIN todo' /\ todo'[k + m - 1] = todo[m]
  <2> SUFFICES ASSUME NEW m \in 2 .. Len(todo)
               PROVE  k + m - 1 \in DOMAIN todo' /\ todo'[k + m - 1] = todo[m]
    OBVIOUS
  <2>1. PICK i \in k + 1 .. k + Len(todo) - 1 : i = k + m - 1
    <3>1. k + m - 1 \in k + 1 .. k + Len(todo) - 1
      BY <1>1
    <3> QED
      BY <3>1
  <2>2. PICK n \in 1 .. Len(todo) - 1 : n = m - 1
    <3>1. m - 1 \in 1 .. Len(todo) - 1
      BY <1>1
    <3> QED
      BY <3>1
  <2>3. i - k = n /\ n + 1 = m /\ i \in DOMAIN todo'
    BY <1>1, <1>2, <2>1, <2>2
  <2>4. todo'[i] = Tail(todo)[n] /\ Tail(todo)[n] = todo[m]
    BY <1>1, <1>2, <2>3
  <2> QED
    BY <2>1, <2>3, <2>4
<1>4. ASSUME NEW i \in DOMAIN todo'
      PROVE  \/ i \in DOMAIN ops /\ todo'[i] = ops[i]
             \/ \E m \in 2 .. Len(todo) : i = k + m - 1 /\ todo'[i] = todo[m]
  <2>1. CASE i \in 1 .. k
    BY <1>1, <1>2, <2>1
  <2>2. CASE i \in k + 1 .. k + Len(todo) - 1
    <3>1. PICK m \in 2 .. Len(todo) : m = i - k + 1
      BY <1>1, <2>2
    <3>2. i = k + m - 1
      BY <1>1, <2>2, <3>1
    <3> QED
      BY <1>3, <3>2
  <2> QED
    BY <1>1, <1>2, <2>1, <2>2
<1>5. ASSUME NEW i \in DOMAIN todo', todo'[i].op \in Rooted
      PROVE  \E m \in 2 .. Len(todo) : i = k + m - 1 /\ todo'[i] = todo[m]
  BY <1>4, <1>5 DEF Pushed
<1>6. InFunction'
  <2> SUFFICES ASSUME NEW i \in DOMAIN todo', todo'[i].op \in FnOps
               PROVE  fd' \in FunDef
    BY DEF InFunction, FnOps
  <2>1. \E j \in DOMAIN todo : todo[j].op \in FnOps
    BY <1>1, <1>4 DEF Outside
  <2> QED
    BY <2>1 DEF ExtractionInv, StackOK, InFunction
<1>7. AddedLast'
  <2> SUFFICES ASSUME NEW i \in DOMAIN todo', todo'[i].op \in {"emit", "stub"}
               PROVE  i = Len(todo')
    BY DEF AddedLast
  <2>1. PICK m \in 2 .. Len(todo) : i = k + m - 1 /\ todo'[i] = todo[m]
    BY <1>5 DEF Rooted
  <2>2. m = Len(todo)
    <3>1. m \in DOMAIN todo /\ todo[m].op \in {"emit", "stub"}
      BY <1>1, <2>1
    <3> QED
      BY <3>1 DEF ExtractionInv, StackOK, AddedLast
  <2> QED
    BY <1>1, <1>2, <2>1, <2>2
<1>8. SpecsByType'
  <2>1. ASSUME NEW i \in DOMAIN todo', todo'[i].op = "spec"
        PROVE  crate.spec_type[todo'[i].arg] \in SpecTypes
    <3>1. PICK m \in 2 .. Len(todo) : todo'[i] = todo[m]
      BY <1>5, <2>1 DEF Rooted
    <3> QED
      BY <1>1, <2>1, <3>1 DEF ExtractionInv, StackOK, SpecsByType
  <2> QED
    BY <2>1 DEF ExtractionInv, StackOK, SpecsByType
<1>9. ResultFirst'
  <2> SUFFICES ASSUME NEW i \in DOMAIN todo', todo'[i].op = "spec",
                      crate.spec_type[todo'[i].arg] = "post"
               PROVE  fd'.ret # <<>> \/ \E j \in 1 .. i - 1 : todo'[j].op = "ret"
    BY DEF ResultFirst
  <2>1. PICK m \in 2 .. Len(todo) : i = k + m - 1 /\ todo'[i] = todo[m]
    BY <1>5 DEF Rooted
  <2>2. fd \in FunDef
    BY <1>1, <2>1 DEF ExtractionInv, StackOK, InFunction, FnOps
  <2>3. CASE fd.ret # <<>>
    BY <2>2, <2>3
  <2>4. CASE \E j \in 1 .. m - 1 : todo[j].op = "ret"
    <3>1. PICK j \in 1 .. m - 1 : todo[j].op = "ret"
      BY <2>4
    <3>2. CASE j = 1
      BY <1>1, <3>1, <3>2
    <3>3. CASE j \in 2 .. Len(todo)
      <4>1. k + j - 1 \in 1 .. i - 1
        BY <1>1, <2>1, <3>1, <3>3
      <4> QED
        BY <1>3, <3>1, <3>3, <4>1
    <3> QED
      BY <1>1, <3>1, <3>2, <3>3
  <2> QED
    BY <1>1, <2>1, <2>3, <2>4 DEF ExtractionInv, StackOK, ResultFirst
<1>10. InputsInRange'
  <2> SUFFICES ASSUME NEW i \in DOMAIN todo', todo'[i].op = "input"
               PROVE  todo'[i].arg \in DOMAIN crate.inputs[fd'.def]
    BY DEF InputsInRange
  <2>1. PICK m \in DOMAIN todo : todo'[i] = todo[m]
    BY <1>1, <1>5 DEF Rooted
  <2> QED
    BY <2>1 DEF ExtractionInv, StackOK, InFunction, FnOps, InputsInRange
<1>11. SortPending'
  <2> SUFFICES ASSUME NEW i \in DOMAIN todo', todo'[i].op = "addAdt"
               PROVE  \/ todo'[i].arg \in DOMAIN did_to_stid'
                      \/ \E j \in 1 .. i - 1 :
                           todo'[j].op = "adt" /\ todo'[j].arg = todo'[i].arg
    BY DEF SortPending, IsRegistered
  <2>1. PICK m \in 2 .. Len(todo) : i = k + m - 1 /\ todo'[i] = todo[m]
    BY <1>5 DEF Rooted
  <2>2. CASE IsRegistered(todo[m].arg)
    BY <2>1, <2>2 DEF IsRegistered
  <2>3. CASE \E j \in 1 .. m - 1 : todo[j].op = "adt" /\ todo[j].arg = todo[m].arg
    <3>1. PICK j \in 1 .. m - 1 : todo[j].op = "adt" /\ todo[j].arg = todo[m].arg
      BY <2>3
    <3>2. CASE j = 1
      BY <1>1, <2>1, <3>1, <3>2
    <3>3. CASE j \in 2 .. Len(todo)
      <4>1. k + j - 1 \in 1 .. i - 1
        BY <1>1, <2>1, <3>1, <3>3
      <4> QED
        BY <1>3, <2>1, <3>1, <3>3, <4>1
    <3> QED
      BY <1>1, <3>1, <3>2, <3>3
  <2> QED
    BY <1>1, <2>1, <2>2, <2>3 DEF ExtractionInv, StackOK, SortPending
<1> QED
  BY <1>2, <1>6, <1>7, <1>8, <1>9, <1>10, <1>11 DEF StackOK

----------------------------------------------------------------------------
(* The mapping, as the traversal uses it.                                   *)

(* A step of the mapping keeps it typed and forgets no definition.          *)
LEMMA MappingGrows ==
  ASSUME MappingTypeOK, [MappingNext]_mapping_vars
  PROVE  MappingTypeOK' /\ DOMAIN did_to_stid \subseteq DOMAIN did_to_stid'
<1>1. CASE MappingNext
  <2>1. DOMAIN did_to_stid \subseteq DOMAIN did_to_stid'
    BY <1>1 DEF MappingNext, RegisterDef, RegisterHir, FreshVar, Insert
  <2> QED
    BY <1>1, <2>1, MappingNextIssues
<1>2. CASE UNCHANGED mapping_vars
  BY <1>2 DEF mapping_vars, MappingTypeOK
<1> QED
  BY <1>1, <1>2

(* get_or_register_def is a step of the mapping, after which d is known.    *)
LEMMA GetOrRegisterStep ==
  ASSUME NEW d \in DefIds, GetOrRegister(d)
  PROVE  [MappingNext]_mapping_vars /\ d \in DOMAIN did_to_stid'
<1>1. CASE IsRegistered(d)
  BY <1>1 DEF GetOrRegister, IsRegistered, mapping_vars
<1>2. CASE ~IsRegistered(d)
  BY <1>2 DEF GetOrRegister, IsRegistered, MappingNext, RegisterDef, Insert
<1> QED
  BY <1>1, <1>2

(* What the absence of a failed assertion says.                             *)
LEMMA FailureCases ==
  ASSUME NEW o, Failure(o) = "none"
  PROVE  /\ o.op \in {"param", "var"} => o.arg \in DOMAIN dcx
         /\ o.op = "spec" =>
              /\ Len(SharedParams(o.arg)) = Len(fd.params)
              /\ crate.spec_type[o.arg] = "post" => crate.params[o.arg] # <<>>
  BY DEF Failure

(* What the type invariant says of what the traversal works on.             *)
WorkOK ==
  /\ DOMAIN dcx \subseteq HirIds
  /\ \A h \in DOMAIN dcx : dcx[h] \in SymbolId
  /\ fd \in FunDef \cup {NoFunction}
  /\ adts \subseteq SymbolId
  /\ function_refs \subseteq DefIds
  /\ DOMAIN functions \subseteq SymbolId
  /\ \A id \in DOMAIN functions : functions[id] \in FunDef
  /\ errors \in BOOLEAN

(* The top of the stack is an operation.                                    *)
LEMMA TopOfStack ==
  ASSUME ExtractionInv, todo # <<>>
  PROVE  Head(todo) \in Op /\ Head(todo) = todo[1] /\ 1 \in DOMAIN todo
  BY HeadTailProperties, LenProperties DEF ExtractionInv, TypeOK

(* What the operation on top works on, when it is executed.                 *)
LEMMA TopArg ==
  ASSUME ExtractionInv, NEW kind, Execute(kind)
  PROVE  /\ todo # <<>> /\ Head(todo).op = kind
         /\ kind \in DefOps => Head(todo).arg \in DefIds
         /\ kind \in HirOps => Head(todo).arg \in HirIds
         /\ kind = "input" => Head(todo).arg \in Nat \ {0}
         /\ kind \in FnOps => fd \in FunDef
<1>1. todo # <<>> /\ Head(todo).op = kind
  BY DEF Execute
<1> QED
  BY <1>1, TopOfStack, OpArgs DEF ExtractionInv, StackOK, InFunction

(* An operation of the traversal keeps the invariant if what it does to the *)
(* mapping, to the function under construction and to the output is typed.  *)
LEMMA ExecuteStep ==
  ASSUME ExtractionInv, NEW kind, Execute(kind), NEW ops, Pushed(ops), Continue(ops),
         [MappingNext]_mapping_vars, WorkOK',
         Outside(ops) \/ kind \in FnOps,
         fd \in FunDef => /\ fd' \in FunDef /\ fd'.def = fd.def
                          /\ fd.ret # <<>> => fd'.ret # <<>>,
         kind = "adt" => Head(todo).arg \in DOMAIN did_to_stid',
         kind = "ret" => fd'.ret # <<>>
  PROVE  ExtractionInv'
<1>1. /\ todo # <<>> /\ Head(todo).op = kind
      /\ UNCHANGED <<crate, phase, items, adt_items, fn_items, specs, stubs, panicked>>
  BY DEF Execute, discovery_vars
<1>2. MappingTypeOK' /\ DOMAIN did_to_stid \subseteq DOMAIN did_to_stid'
  BY MappingGrows DEF ExtractionInv, TypeOK
<1>3. todo' \in Seq(Op) /\ StackOK'
  BY <1>1, <1>2, ContinueStep
<1> QED
  BY <1>1, <1>2, <1>3 DEF ExtractionInv, TypeOK, WorkOK

(* Operations that only register and push operations outside of functions.  *)
LEMMA PlainStep ==
  ASSUME ExtractionInv, NEW kind, Execute(kind), NEW ops, Pushed(ops), Outside(ops),
         Continue(ops), [MappingNext]_mapping_vars,
         UNCHANGED <<dcx, fd, adts, functions>>,
         function_refs' \subseteq DefIds, errors' \in BOOLEAN,
         kind # "ret",
         kind = "adt" => Head(todo).arg \in DOMAIN did_to_stid'
  PROVE  ExtractionInv'
<1>1. WorkOK'
  BY DEF WorkOK, ExtractionInv, TypeOK
<1> QED
  BY <1>1, ExecuteStep

----------------------------------------------------------------------------
(* One lemma per operation of the traversal: it keeps the invariant, and it *)
(* is a step of the mapping or leaves it alone.                             *)

(* A type parameter is registered.                                          *)
LEMMA TypeParameterStep ==
  ASSUME ExtractionInv, TypeParameter
  PROVE  ExtractionInv' /\ [MappingNext]_mapping_vars
<1>1. Execute("reg") /\ Head(todo).arg \in DefIds
  BY TopArg DEF TypeParameter, DefOps
<1>2. [MappingNext]_mapping_vars /\ Head(todo).arg \in DOMAIN did_to_stid'
  BY <1>1, GetOrRegisterStep DEF TypeParameter
<1>3. UNCHANGED <<dcx, fd, adts, function_refs, functions, errors>>
  BY DEF TypeParameter, output_vars
<1>4. function_refs' \subseteq DefIds /\ errors' \in BOOLEAN
  BY <1>3 DEF ExtractionInv, TypeOK
<1> QED
  BY <1>1, <1>2, <1>3, <1>4, PushedEmpty, PlainStep DEF TypeParameter

(* extract_adt_id.                                                          *)
LEMMA MentionTypeStep ==
  ASSUME ExtractionInv, MentionType
  PROVE  ExtractionInv' /\ [MappingNext]_mapping_vars
<1>1. Execute("type") /\ Head(todo).arg \in DefIds
  BY TopArg DEF MentionType, DefOps
<1>2. [MappingNext]_mapping_vars /\ Head(todo).arg \in DOMAIN did_to_stid'
  BY <1>1, GetOrRegisterStep DEF MentionType
<1>3. UNCHANGED <<dcx, fd, adts, function_refs, functions, errors>>
  BY DEF MentionType, output_vars
<1>4. function_refs' \subseteq DefIds /\ errors' \in BOOLEAN
  BY <1>3 DEF ExtractionInv, TypeOK
<1>5. CASE IsRegistered(Head(todo).arg)
  <2>1. Continue(<<>>)
    BY <1>5 DEF MentionType
  <2> QED
    BY <1>1, <1>2, <1>3, <1>4, <2>1, PushedEmpty, PlainStep
<1>6. CASE ~IsRegistered(Head(todo).arg)
  <2>1. Continue(AdtOps(Head(todo).arg))
    BY <1>6 DEF MentionType
  <2>2. Pushed(AdtOps(Head(todo).arg)) /\ Outside(AdtOps(Head(todo).arg))
    BY <1>1, PushedAdt DEF ExtractionInv, TypeOK
  <2> QED
    BY <1>1, <1>2, <1>3, <1>4, <2>1, <2>2, PlainStep
<1> QED
  BY <1>5, <1>6

(* extract_adt.                                                             *)
LEMMA ExtractAdtStep ==
  ASSUME ExtractionInv, ExtractAdt
  PROVE  ExtractionInv' /\ [MappingNext]_mapping_vars
<1>1. Execute("adt") /\ Head(todo).arg \in DefIds
  BY TopArg DEF ExtractAdt, DefOps
<1>2. [MappingNext]_mapping_vars /\ Head(todo).arg \in DOMAIN did_to_stid'
  BY <1>1, GetOrRegisterStep DEF ExtractAdt
<1>3. UNCHANGED <<dcx, fd, adts, function_refs, functions, errors>>
  BY DEF ExtractAdt, output_vars
<1>4. function_refs' \subseteq DefIds /\ errors' \in BOOLEAN
  BY <1>3 DEF ExtractionInv, TypeOK
<1>5. CASE IsRegistered(Head(todo).arg)
  <2>1. Continue(<<>>)
    BY <1>5 DEF ExtractAdt
  <2> QED
    BY <1>1, <1>2, <1>3, <1>4, <2>1, PushedEmpty, PlainStep
<1>6. CASE ~IsRegistered(Head(todo).arg)
  <2>1. Continue(AdtOps(Head(todo).arg))
    BY <1>6 DEF ExtractAdt
  <2>2. Pushed(AdtOps(Head(todo).arg)) /\ Outside(AdtOps(Head(todo).arg))
    BY <1>1, PushedAdt DEF ExtractionInv, TypeOK
  <2> QED
    BY <1>1, <1>2, <1>3, <1>4, <2>1, <2>2, PlainStep
<1> QED
  BY <1>5, <1>6

(* A variant of an ADT.                                                     *)
LEMMA ConstructorStep ==
  ASSUME ExtractionInv, Constructor
  PROVE  ExtractionInv' /\ [MappingNext]_mapping_vars
<1>1. Execute("variant") /\ Head(todo).arg \in DefIds
  BY TopArg DEF Constructor, DefOps
<1>2. [MappingNext]_mapping_vars /\ Head(todo).arg \in DOMAIN did_to_stid'
  BY <1>1, GetOrRegisterStep DEF Constructor
<1>3. UNCHANGED <<dcx, fd, adts, function_refs, functions, errors>>
  BY DEF Constructor, output_vars
<1>4. function_refs' \subseteq DefIds /\ errors' \in BOOLEAN
  BY <1>3 DEF ExtractionInv, TypeOK
<1>5. /\ Pushed(Ops("field", crate.fields[Head(todo).arg]))
      /\ Outside(Ops("field", crate.fields[Head(todo).arg]))
  BY <1>1, CrateTypes, PushedDefs DEF ExtractionInv, TypeOK
<1> QED
  BY <1>1, <1>2, <1>3, <1>4, <1>5, PlainStep DEF Constructor

(* A field of a variant.                                                    *)
LEMMA FieldStep ==
  ASSUME ExtractionInv, Field
  PROVE  ExtractionInv' /\ [MappingNext]_mapping_vars
<1>1. Execute("field") /\ Head(todo).arg \in DefIds
  BY TopArg DEF Field, DefOps
<1>2. [MappingNext]_mapping_vars /\ Head(todo).arg \in DOMAIN did_to_stid'
  BY <1>1, GetOrRegisterStep DEF Field
<1>3. UNCHANGED <<dcx, fd, adts, function_refs, functions, errors>>
  BY DEF Field, output_vars
<1>4. function_refs' \subseteq DefIds /\ errors' \in BOOLEAN
  BY <1>3 DEF ExtractionInv, TypeOK
<1>5. /\ Pushed(Ops("type", crate.types[Head(todo).arg]))
      /\ Outside(Ops("type", crate.types[Head(todo).arg]))
  BY <1>1, CrateTypes, PushedDefs DEF ExtractionInv, TypeOK
<1> QED
  BY <1>1, <1>2, <1>3, <1>4, <1>5, PlainStep DEF Field

(* The end of extract_adt.                                                  *)
LEMMA SortBuiltStep ==
  ASSUME ExtractionInv, SortBuilt
  PROVE  ExtractionInv' /\ [MappingNext]_mapping_vars
<1>1. Execute("sort") /\ Continue(<<>>)
  BY DEF SortBuilt
<1>2. UNCHANGED mapping_vars /\ UNCHANGED <<dcx, fd, adts, function_refs, functions>>
  BY DEF SortBuilt, output_vars
<1>3. function_refs' \subseteq DefIds /\ errors' \in BOOLEAN
  BY <1>2 DEF SortBuilt, ExtractionInv, TypeOK
<1> QED
  BY <1>1, <1>2, <1>3, PushedEmpty, PlainStep

(* extract_binding of a binding in the context.                             *)
LEMMA KnownBindingStep ==
  ASSUME ExtractionInv, KnownBinding
  PROVE  ExtractionInv' /\ [MappingNext]_mapping_vars
<1>1. Execute("bind") /\ Continue(<<>>)
  BY DEF KnownBinding
<1>2. UNCHANGED mapping_vars /\ UNCHANGED <<dcx, fd, adts, function_refs, functions>>
  BY DEF KnownBinding, output_vars
<1>3. function_refs' \subseteq DefIds /\ errors' \in BOOLEAN
  BY <1>2 DEF KnownBinding, ExtractionInv, TypeOK
<1> QED
  BY <1>1, <1>2, <1>3, PushedEmpty, PlainStep

(* A rejected expression.                                                   *)
LEMMA UnsupportedStep ==
  ASSUME ExtractionInv, Unsupported
  PROVE  ExtractionInv' /\ [MappingNext]_mapping_vars
<1>1. Execute("unsupported") /\ Continue(<<>>)
  BY DEF Unsupported
<1>2. UNCHANGED mapping_vars /\ UNCHANGED <<dcx, fd, adts, function_refs, functions>>
  BY DEF Unsupported, output_vars
<1>3. function_refs' \subseteq DefIds /\ errors' \in BOOLEAN
  BY <1>2 DEF Unsupported, ExtractionInv, TypeOK
<1> QED
  BY <1>1, <1>2, <1>3, PushedEmpty, PlainStep

(* add_adt: the sort has an identifier by now.                              *)
LEMMA AddAdtStep ==
  ASSUME ExtractionInv, AddAdt
  PROVE  ExtractionInv' /\ [MappingNext]_mapping_vars
<1>1. Execute("addAdt") /\ Continue(<<>>) /\ Head(todo).arg \in DefIds
  BY TopArg DEF AddAdt, DefOps
<1>2. /\ UNCHANGED mapping_vars
      /\ UNCHANGED <<dcx, fd, function_refs, functions, errors>>
  BY DEF AddAdt
<1>3. IsRegistered(Head(todo).arg)
  <2>1. 1 \in DOMAIN todo /\ todo[1] = Head(todo) /\ Head(todo).op = "addAdt"
    BY <1>1, TopOfStack DEF Execute
  <2> QED
    BY <2>1 DEF ExtractionInv, StackOK, SortPending
<1>4. adts' \subseteq SymbolId
  BY <1>3 DEF AddAdt, IsRegistered, ExtractionInv, TypeOK, MappingTypeOK
<1>5. WorkOK'
  BY <1>2, <1>4 DEF WorkOK, ExtractionInv, TypeOK
<1> QED
  BY <1>1, <1>2, <1>5, PushedEmpty, ExecuteStep

(* A reference to a function.                                               *)
LEMMA FnRefStep ==
  ASSUME ExtractionInv, NEW g \in DefIds, FnRef(g)
  PROVE  /\ [MappingNext]_mapping_vars /\ g \in DOMAIN did_to_stid'
         /\ function_refs' \subseteq DefIds
  BY GetOrRegisterStep DEF FnRef, ExtractionInv, TypeOK

(* A call of a function.                                                    *)
LEMMA CallStep ==
  ASSUME ExtractionInv, Call
  PROVE  ExtractionInv' /\ [MappingNext]_mapping_vars
<1>1. Execute("call") /\ Continue(<<>>) /\ Head(todo).arg \in DefIds
  BY TopArg DEF Call, DefOps
<1>2. [MappingNext]_mapping_vars /\ function_refs' \subseteq DefIds
  BY <1>1, FnRefStep DEF Call
<1>3. UNCHANGED <<dcx, fd, adts, functions>> /\ errors' \in BOOLEAN
  BY DEF Call, ExtractionInv, TypeOK
<1> QED
  BY <1>1, <1>2, <1>3, PushedEmpty, PlainStep

(* enter_body of a function.                                                *)
LEMMA EnterBodyStep ==
  ASSUME ExtractionInv, EnterBody
  PROVE  ExtractionInv' /\ [MappingNext]_mapping_vars
<1> DEFINE g == Head(todo).arg
           ops == BindingOps(g) \o Ops("type", crate.types[g])
                    \o Ops("param", crate.params[g]) \o crate.body[g]
<1>1. Execute("enter") /\ Continue(ops) /\ g \in DefIds
  BY TopArg DEF EnterBody, DefOps
<1>2. Pushed(ops)
  <2>1. /\ crate.types[g] \in Seq(DefIds) /\ crate.params[g] \in Seq(HirIds)
        /\ crate.body[g] \in Seq(BodyOp) /\ "param" \in HirOps
    BY <1>1, CrateTypes DEF ExtractionInv, TypeOK, HirOps
  <2>2. /\ Pushed(BindingOps(g)) /\ Pushed(Ops("type", crate.types[g]))
        /\ Pushed(Ops("param", crate.params[g])) /\ Pushed(crate.body[g])
    BY <1>1, <2>1, PushedBindings, PushedDefs, PushedHirs, PushedBody
    DEF ExtractionInv, TypeOK
  <2>3. Pushed(BindingOps(g) \o Ops("type", crate.types[g]))
    BY <2>2, PushedConcat
  <2>4. Pushed(BindingOps(g) \o Ops("type", crate.types[g]) \o Ops("param", crate.params[g]))
    BY <2>2, <2>3, PushedConcat
  <2> QED
    BY <2>2, <2>4, PushedConcat
<1>3. UNCHANGED mapping_vars /\ UNCHANGED <<fd, adts, function_refs, functions, errors>>
  BY DEF EnterBody, output_vars
<1>4. WorkOK'
  BY <1>3 DEF EnterBody, WorkOK, ExtractionInv, TypeOK
<1> HIDE DEF ops
<1> QED
  BY <1>1, <1>2, <1>3, <1>4, ExecuteStep DEF FnOps

(* extract_binding of a new one.                                            *)
LEMMA NewBindingStep ==
  ASSUME ExtractionInv, NewBinding
  PROVE  ExtractionInv' /\ [MappingNext]_mapping_vars
<1> DEFINE h == Head(todo).arg
<1>1. /\ Execute("bind") /\ Continue(Ops("type", crate.hir_types[h])) /\ h \in HirIds
      /\ RegisterHir(h) /\ dcx' = Insert(dcx, h, hid_to_stid'[h])
  BY TopArg DEF NewBinding, HirOps
<1>2. MappingNext
  BY <1>1 DEF MappingNext
<1>3. MappingTypeOK'
  BY <1>2, MappingNextIssues DEF ExtractionInv, TypeOK
<1>4. /\ Pushed(Ops("type", crate.hir_types[h]))
      /\ Outside(Ops("type", crate.hir_types[h]))
  BY <1>1, BindingTypes, PushedDefs DEF ExtractionInv, TypeOK
<1>5. hid_to_stid'[h] \in SymbolId
  <2>1. h \in DOMAIN hid_to_stid'
    BY <1>1 DEF RegisterHir, Insert
  <2> QED
    BY <1>3, <2>1 DEF MappingTypeOK
<1>6. DOMAIN dcx' \subseteq HirIds /\ \A i \in DOMAIN dcx' : dcx'[i] \in SymbolId
  BY <1>1, <1>5 DEF Insert, ExtractionInv, TypeOK
<1>7. UNCHANGED <<fd, adts, function_refs, functions>> /\ errors' \in BOOLEAN
  BY DEF NewBinding, output_vars, ExtractionInv, TypeOK
<1>8. WorkOK'
  BY <1>6, <1>7 DEF WorkOK, ExtractionInv, TypeOK
<1> QED
  BY <1>1, <1>2, <1>4, <1>7, <1>8, ExecuteStep

(* The function under construction stays one when a component is replaced.  *)
LEMMA FunDefType ==
  ASSUME NEW f \in FunDef
  PROVE  /\ \A p \in Seq(SymbolId) :
              [f EXCEPT !.params = p] \in FunDef /\ [f EXCEPT !.ret = p] \in FunDef
         /\ \A v \in SUBSET (HirIds \X SymbolId) : [f EXCEPT !.vars = v] \in FunDef
         /\ \A s \in Seq(DefIds) :
              /\ [f EXCEPT !.measure = s] \in FunDef
              /\ [f EXCEPT !.pre = s] \in FunDef /\ [f EXCEPT !.post = s] \in FunDef
         /\ f.params \in Seq(SymbolId) /\ f.ret \in Seq(SymbolId)
         /\ f.vars \in SUBSET (HirIds \X SymbolId) /\ f.def \in DefIds
         /\ f.measure \in Seq(DefIds) /\ f.pre \in Seq(DefIds) /\ f.post \in Seq(DefIds)
  BY DEF FunDef

(* fetch_var of a parameter.                                                *)
LEMMA ParameterStep ==
  ASSUME ExtractionInv, Parameter
  PROVE  ExtractionInv' /\ [MappingNext]_mapping_vars
<1> DEFINE v == dcx[Head(todo).arg]
<1>1. /\ Execute("param") /\ Continue(<<>>) /\ fd \in FunDef
      /\ Head(todo).arg \in DOMAIN dcx
  BY TopArg, FailureCases DEF Parameter, Execute, FnOps
<1>2. UNCHANGED mapping_vars /\ UNCHANGED <<dcx, adts, function_refs, functions, errors>>
  BY DEF Parameter, output_vars
<1>3. fd' = [fd EXCEPT !.params = Append(fd.params, v)] /\ v \in SymbolId
  BY <1>1 DEF Parameter, ExtractionInv, TypeOK
<1>4. Append(fd.params, v) \in Seq(SymbolId)
  BY <1>1, <1>3, FunDefType
<1>5. fd' \in FunDef /\ fd'.def = fd.def /\ fd'.ret = fd.ret
  BY <1>1, <1>3, <1>4, FunDefType DEF FunDef
<1>6. WorkOK'
  BY <1>2, <1>5 DEF WorkOK, ExtractionInv, TypeOK
<1> QED
  BY <1>1, <1>2, <1>5, <1>6, PushedEmpty, ExecuteStep DEF FnOps

(* fetch_var of a variable in use.                                          *)
LEMMA VarRefStep ==
  ASSUME ExtractionInv, VarRef
  PROVE  ExtractionInv' /\ [MappingNext]_mapping_vars
<1> DEFINE v == <<Head(todo).arg, dcx[Head(todo).arg]>>
<1>1. /\ Execute("var") /\ Continue(<<>>) /\ fd \in FunDef
      /\ Head(todo).arg \in DOMAIN dcx
  BY TopArg, FailureCases DEF VarRef, Execute, FnOps
<1>2. UNCHANGED mapping_vars /\ UNCHANGED <<dcx, adts, function_refs, functions, errors>>
  BY DEF VarRef, output_vars
<1>3. fd' = [fd EXCEPT !.vars = fd.vars \cup {v}] /\ v \in HirIds \X SymbolId
  BY <1>1 DEF VarRef, ExtractionInv, TypeOK
<1>4. fd.vars \cup {v} \in SUBSET (HirIds \X SymbolId)
  BY <1>1, <1>3, FunDefType
<1>5. fd' \in FunDef /\ fd'.def = fd.def /\ fd'.ret = fd.ret
  BY <1>1, <1>3, <1>4, FunDefType DEF FunDef
<1>6. WorkOK'
  BY <1>2, <1>5 DEF WorkOK, ExtractionInv, TypeOK
<1> QED
  BY <1>1, <1>2, <1>5, <1>6, PushedEmpty, ExecuteStep DEF FnOps

(* The parameters a spec function shares with its function.                 *)
LEMMA SharedParamsType ==
  ASSUME crate \in Crates, NEW s \in DefIds
  PROVE  SharedParams(s) \in Seq(HirIds)
<1>1. crate.params[s] \in Seq(HirIds)
  BY CrateTypes
<1>2. CASE crate.params[s] # <<>>
  <2>1. /\ Len(crate.params[s]) \in Nat
        /\ \A i \in 1 .. Len(crate.params[s]) - 1 : crate.params[s][i] \in HirIds
    BY <1>1, LenProperties
  <2>2. SubSeq(crate.params[s], 1, Len(crate.params[s]) - 1) \in Seq(HirIds)
    BY <2>1, SubSeqProperties
  <2> QED
    BY <1>1, <2>2 DEF SharedParams
<1> QED
  BY <1>1, <1>2 DEF SharedParams

(* The context of a spec function binds its parameters to identifiers.      *)
LEMMA SharedContextType ==
  ASSUME crate \in Crates, fd \in FunDef, NEW s \in DefIds,
         Len(SharedParams(s)) = Len(fd.params),
         crate.spec_type[s] = "post" => crate.params[s] # <<>> /\ fd.ret # <<>>
  PROVE  /\ DOMAIN SharedContext(s) \subseteq HirIds
         /\ \A h \in DOMAIN SharedContext(s) : SharedContext(s)[h] \in SymbolId
<1> DEFINE shared == SharedParams(s)
           last == crate.params[s][Len(crate.params[s])]
           ret == IF crate.spec_type[s] = "post" THEN {last} ELSE {}
           named == {shared[i] : i \in DOMAIN shared}
           var(h) == IF h \in ret THEN fd.ret[1]
                     ELSE fd.params[CHOOSE i \in DOMAIN shared : shared[i] = h]
<1>1. shared \in Seq(HirIds) /\ DOMAIN shared = 1 .. Len(fd.params)
  BY SharedParamsType, LenProperties
<1>2. named \subseteq HirIds
  BY <1>1, LenProperties
<1>3. ret \subseteq HirIds
  <2>1. CASE crate.spec_type[s] = "post"
    <3>1. crate.params[s] \in Seq(HirIds) /\ crate.params[s] # <<>>
      BY <2>1, CrateTypes
    <3>2. Len(crate.params[s]) \in 1 .. Len(crate.params[s])
      BY <3>1, EmptySeq
    <3> QED
      BY <3>1, <3>2, ElementOfSeq
  <2> QED
    BY <2>1
<1>4. /\ fd.params \in Seq(SymbolId) /\ fd.ret \in Seq(SymbolId)
  BY FunDefType
<1>5. ASSUME NEW h \in named \cup ret PROVE var(h) \in SymbolId
  <2>1. CASE h \in ret
    <3>1. fd.ret # <<>> /\ 1 \in 1 .. Len(fd.ret)
      BY <1>4, <2>1, EmptySeq
    <3> QED
      BY <1>4, <2>1, <3>1, ElementOfSeq
  <2>2. CASE h \notin ret
    <3>1. \E i \in DOMAIN shared : shared[i] = h
      BY <1>5, <2>2
    <3>2. (CHOOSE i \in DOMAIN shared : shared[i] = h) \in 1 .. Len(fd.params)
      BY <1>1, <3>1
    <3>3. fd.params[CHOOSE i \in DOMAIN shared : shared[i] = h] \in SymbolId
      BY <1>4, <3>2, ElementOfSeq
    <3> QED
      BY <2>2, <3>3
  <2> QED
    BY <2>1, <2>2
<1>6. SharedContext(s) = [h \in named \cup ret |-> var(h)]
  BY DEF SharedContext
<1> HIDE DEF named, ret, var
<1> QED
  BY <1>2, <1>3, <1>5, <1>6

(* A function stays one when a spec function is attached.                   *)
LEMMA AttachSpecType ==
  ASSUME fd \in FunDef, NEW s \in DefIds, crate.spec_type[s] \in SpecTypes
  PROVE  AttachSpec(s) \in FunDef /\ AttachSpec(s).def = fd.def /\ AttachSpec(s).ret = fd.ret
<1>1. /\ Append(fd.measure, s) \in Seq(DefIds) /\ Append(fd.pre, s) \in Seq(DefIds)
      /\ Append(fd.post, s) \in Seq(DefIds)
  BY FunDefType
<1>2. CASE crate.spec_type[s] = "measure"
  <2>1. AttachSpec(s) = [fd EXCEPT !.measure = Append(fd.measure, s)]
    BY <1>2 DEF AttachSpec
  <2>2. AttachSpec(s) \in FunDef
    BY <1>1, <2>1, FunDefType
  <2>3. AttachSpec(s).def = fd.def /\ AttachSpec(s).ret = fd.ret
    BY <2>1 DEF FunDef
  <2> QED
    BY <2>2, <2>3
<1>3. CASE crate.spec_type[s] = "pre"
  <2>1. AttachSpec(s) = [fd EXCEPT !.pre = Append(fd.pre, s)]
    BY <1>3 DEF AttachSpec
  <2>2. AttachSpec(s) \in FunDef
    BY <1>1, <2>1, FunDefType
  <2>3. AttachSpec(s).def = fd.def /\ AttachSpec(s).ret = fd.ret
    BY <2>1 DEF FunDef
  <2> QED
    BY <2>2, <2>3
<1>4. CASE crate.spec_type[s] = "post"
  <2>1. AttachSpec(s) = [fd EXCEPT !.post = Append(fd.post, s)]
    BY <1>4 DEF AttachSpec
  <2>2. AttachSpec(s) \in FunDef
    BY <1>1, <2>1, FunDefType
  <2>3. AttachSpec(s).def = fd.def /\ AttachSpec(s).ret = fd.ret
    BY <2>1 DEF FunDef
  <2> QED
    BY <2>2, <2>3
<1> QED
  BY <1>2, <1>3, <1>4 DEF SpecTypes

(* extract_spec_fn.                                                         *)
LEMMA ExtractSpecStep ==
  ASSUME ExtractionInv, ExtractSpec
  PROVE  ExtractionInv' /\ [MappingNext]_mapping_vars
<1> DEFINE s == Head(todo).arg
<1>1. /\ Execute("spec") /\ Continue(BindingOps(s) \o crate.body[s]) /\ fd \in FunDef
      /\ s \in DefIds /\ Len(SharedParams(s)) = Len(fd.params)
      /\ crate.spec_type[s] = "post" => crate.params[s] # <<>>
      /\ dcx' = SharedContext(s) /\ fd' = AttachSpec(s)
  BY TopArg, FailureCases DEF ExtractSpec, Execute, FnOps, DefOps
<1>2. 1 \in DOMAIN todo /\ todo[1].arg = s /\ todo[1].op = "spec"
  BY <1>1, TopOfStack DEF Execute
<1>3. crate.spec_type[s] \in SpecTypes /\ (crate.spec_type[s] = "post" => fd.ret # <<>>)
  BY <1>2 DEF ExtractionInv, StackOK, SpecsByType, ResultFirst
<1>4. crate \in Crates
  BY DEF ExtractionInv, TypeOK
<1>5. fd' \in FunDef /\ fd'.def = fd.def /\ fd'.ret = fd.ret
  BY <1>1, <1>3, AttachSpecType
<1>6. DOMAIN dcx' \subseteq HirIds /\ \A h \in DOMAIN dcx' : dcx'[h] \in SymbolId
  BY <1>1, <1>3, <1>4, SharedContextType
<1>7. UNCHANGED mapping_vars /\ UNCHANGED <<adts, function_refs, functions, errors>>
  BY DEF ExtractSpec, output_vars
<1>8. WorkOK'
  BY <1>5, <1>6, <1>7 DEF WorkOK, ExtractionInv, TypeOK
<1>9. Pushed(BindingOps(s) \o crate.body[s])
  <2>1. crate.body[s] \in Seq(BodyOp)
    BY <1>1, <1>4, CrateTypes
  <2> QED
    BY <1>1, <1>4, <2>1, PushedBindings, PushedBody, PushedConcat
<1> QED
  BY <1>1, <1>5, <1>7, <1>8, <1>9, ExecuteStep DEF FnOps

(* A made-up variable is typed.                                             *)
LEMMA FreshVarType ==
  ASSUME ExtractionInv, NEW n \in Names, FreshVar(n)
  PROVE  FreshId(n) \in SymbolId /\ [MappingNext]_mapping_vars
  BY FreshIdType DEF ExtractionInv, TypeOK, MappingNext

(* The result variable.                                                     *)
LEMMA ReturnVarStep ==
  ASSUME ExtractionInv, ReturnVar
  PROVE  ExtractionInv' /\ [MappingNext]_mapping_vars
<1>1. Execute("ret") /\ Continue(<<>>) /\ fd \in FunDef
  BY TopArg DEF ReturnVar, FnOps
<1>2. FreshId(RetName) \in SymbolId /\ [MappingNext]_mapping_vars
  BY FreshVarType, ExtractionAssumption DEF ReturnVar, ExtractionAssumption
<1>3. fd' = [fd EXCEPT !.ret = <<FreshId(RetName)>>]
  BY DEF ReturnVar
<1>4. <<FreshId(RetName)>> \in Seq(SymbolId) /\ <<FreshId(RetName)>> # <<>>
  BY <1>2
<1>5. fd' \in FunDef /\ fd'.def = fd.def /\ fd'.ret = <<FreshId(RetName)>>
  BY <1>1, <1>3, <1>4, FunDefType DEF FunDef
<1>6. UNCHANGED <<dcx, adts, function_refs, functions, errors>>
  BY DEF ReturnVar, output_vars
<1>7. WorkOK'
  BY <1>5, <1>6 DEF WorkOK, ExtractionInv, TypeOK
<1> QED
  BY <1>1, <1>2, <1>4, <1>5, <1>7, PushedEmpty, ExecuteStep DEF FnOps

(* An input of a stub.                                                      *)
LEMMA StubInputStep ==
  ASSUME ExtractionInv, StubInput
  PROVE  ExtractionInv' /\ [MappingNext]_mapping_vars
<1> DEFINE i == Head(todo).arg
           inputs == crate.inputs[fd.def]
<1>1. /\ Execute("input") /\ fd \in FunDef
      /\ FreshVar(ParamNames[i])
      /\ fd' = [fd EXCEPT !.params = Append(fd.params, FreshId(ParamNames[i]))]
      /\ Continue(Ops("type", inputs[i]))
  BY TopArg DEF StubInput, FnOps
<1>2. i \in DOMAIN inputs
  BY <1>1, TopOfStack DEF Execute, ExtractionInv, StackOK, InputsInRange
<1>3. /\ inputs \in Seq(Seq(DefIds)) /\ Len(inputs) <= Len(ParamNames)
      /\ fd.def \in DefIds
  BY <1>1, FunDefType, CrateTypes DEF ExtractionInv, TypeOK
<1>4. i \in 1 .. Len(inputs) /\ Len(inputs) \in Nat /\ inputs[i] \in Seq(DefIds)
  BY <1>2, <1>3, LenProperties
<1>5. ParamNames[i] \in Names
  <2>1. ParamNames \in Seq(Names) /\ Len(ParamNames) \in Nat
    BY ExtractionAssumption, LenProperties DEF ExtractionAssumption
  <2>2. i \in 1 .. Len(ParamNames)
    BY <1>3, <1>4, <2>1
  <2> QED
    BY <2>1, <2>2, ElementOfSeq
<1>6. FreshId(ParamNames[i]) \in SymbolId /\ [MappingNext]_mapping_vars
  BY <1>1, <1>5, FreshVarType
<1>7. Append(fd.params, FreshId(ParamNames[i])) \in Seq(SymbolId)
  BY <1>1, <1>6, FunDefType
<1>8. fd' \in FunDef /\ fd'.def = fd.def /\ fd'.ret = fd.ret
  BY <1>1, <1>7, FunDefType DEF FunDef
<1>9. UNCHANGED <<dcx, adts, function_refs, functions, errors>>
  BY DEF StubInput, output_vars
<1>10. WorkOK'
  BY <1>8, <1>9 DEF WorkOK, ExtractionInv, TypeOK
<1>11. Pushed(Ops("type", inputs[i]))
  BY <1>4, PushedDefs
<1> HIDE DEF inputs
<1> QED
  BY SMTT(30), <1>1, <1>6, <1>8, <1>10, <1>11, ExecuteStep DEF FnOps

(* Adding a function empties the stack.                                     *)
LEMMA AddFunctionStep ==
  ASSUME ExtractionInv, NEW kind \in {"emit", "stub"}, AddFunction(kind)
  PROVE  ExtractionInv' /\ [MappingNext]_mapping_vars
<1> DEFINE g == Head(todo).arg
<1>1. /\ Execute(kind) /\ fd \in FunDef /\ g \in DefIds /\ FnRef(g)
      /\ functions' = Insert(functions, did_to_stid'[g], fd)
  BY TopArg DEF AddFunction, FnOps, DefOps
<1>2. /\ [MappingNext]_mapping_vars /\ g \in DOMAIN did_to_stid'
      /\ function_refs' \subseteq DefIds
  BY <1>1, FnRefStep
<1>3. MappingTypeOK'
  BY <1>2, MappingGrows DEF ExtractionInv, TypeOK
<1>4. did_to_stid'[g] \in SymbolId
  BY <1>2, <1>3 DEF MappingTypeOK
<1>5. DOMAIN functions' \subseteq SymbolId /\ \A id \in DOMAIN functions' : functions'[id] \in FunDef
  BY <1>1, <1>4 DEF Insert, ExtractionInv, TypeOK
<1>6. fd' = NoFunction /\ UNCHANGED <<dcx, adts, errors>>
  BY DEF AddFunction
<1>7. todo' = <<>>
  <2>1. 1 \in DOMAIN todo /\ todo[1].op = kind /\ todo # <<>> /\ todo \in Seq(Op)
    BY <1>1, TopOfStack DEF Execute, ExtractionInv, TypeOK
  <2>2. Len(todo) = 1
    BY <2>1 DEF ExtractionInv, StackOK, AddedLast
  <2>3. Tail(todo) \in Seq(Op) /\ Len(Tail(todo)) = 0
    BY <2>1, <2>2, HeadTailProperties
  <2>4. Tail(todo) = <<>>
    BY <2>3, EmptySeq
  <2> QED
    BY <2>4 DEF AddFunction, Continue
<1>8. UNCHANGED <<crate, phase, items, adt_items, fn_items, specs, stubs, panicked>>
  BY <1>1 DEF Execute, discovery_vars
<1>9. TypeOK'
  BY <1>2, <1>3, <1>5, <1>6, <1>7, <1>8 DEF ExtractionInv, TypeOK
<1>10. StackOK'
  BY <1>7, <1>8
  DEF ExtractionInv, StackOK, InFunction, AddedLast, SpecsByType, ResultFirst,
      InputsInRange, SortPending
<1> QED
  BY <1>2, <1>9, <1>10 DEF ExtractionInv

(* Nothing changes but panicked.                                            *)
LEMMA PanicStep ==
  ASSUME ExtractionInv, Panic
  PROVE  ExtractionInv' /\ [MappingNext]_mapping_vars
<1>1. panicked' \in Panics
  BY DEF Panic, Failure, Panics
<1>2. UNCHANGED <<mapping_vars, crate, phase, discovery_vars, stubs, todo, dcx, fd,
                  output_vars, errors>>
  BY DEF Panic
<1> QED
  BY <1>1, <1>2 DEF mapping_vars, discovery_vars, output_vars, ExtractionInv, TypeOK,
    MappingTypeOK, StackOK, InFunction, AddedLast, SpecsByType, ResultFirst,
    InputsInRange, SortPending, IsRegistered

(* The traversal as a whole.                                                *)
LEMMA TraversalStep ==
  ASSUME ExtractionInv, Traversal
  PROVE  ExtractionInv' /\ [MappingNext]_mapping_vars
  BY TypeParameterStep, MentionTypeStep, ExtractAdtStep, ConstructorStep, FieldStep,
     SortBuiltStep, AddAdtStep, CallStep, EnterBodyStep, KnownBindingStep,
     NewBindingStep, ParameterStep, VarRefStep, UnsupportedStep, ExtractSpecStep,
     ReturnVarStep, AddFunctionStep, StubInputStep, PanicStep
  DEF Traversal

----------------------------------------------------------------------------
(* The loops of process_crate.                                              *)

(* An empty stack is as it should be.                                       *)
LEMMA EmptyStack ==
  ASSUME ExtractionInv, todo' = <<>>, UNCHANGED <<crate, specs>>
  PROVE  StackOK'
  BY DEF ExtractionInv, StackOK, InFunction, AddedLast, SpecsByType, ResultFirst,
    InputsInRange, SortPending

(* The loops that end: only the phase and the stubs change.                 *)
LEMMA LoopEnds ==
  ASSUME ExtractionInv, AdtsDone \/ FunctionsDone \/ StubsDone
  PROVE  ExtractionInv' /\ UNCHANGED mapping_vars
<1>1. /\ UNCHANGED <<mapping_vars, crate, discovery_vars, todo, dcx, fd, output_vars,
                     errors, panicked>>
      /\ todo = <<>>
  BY DEF AdtsDone, FunctionsDone, StubsDone, Idle
<1>2. phase' \in Phases /\ stubs' \subseteq DefIds
  BY DEF AdtsDone, FunctionsDone, StubsDone, Phases, ExtractionInv, TypeOK
<1>3. StackOK'
  BY <1>1, EmptyStack DEF discovery_vars
<1> QED
  BY <1>1, <1>2, <1>3
  DEF mapping_vars, discovery_vars, output_vars, ExtractionInv, TypeOK, MappingTypeOK

(* The loop over the ADTs.                                                  *)
LEMMA StartAdtStep ==
  ASSUME ExtractionInv, StartAdt
  PROVE  ExtractionInv' /\ UNCHANGED mapping_vars
<1> DEFINE a == Head(adt_items)
           ops == One("adt", a) \o One("addAdt", a)
<1>1. /\ UNCHANGED <<mapping_vars, crate, phase, items, fn_items, specs, stubs, dcx, fd,
                     output_vars, errors, panicked>>
      /\ todo' = ops
  BY DEF StartAdt
<1>2. a \in DefIds /\ adt_items' \in Seq(DefIds)
  BY HeadTailProperties DEF StartAdt, ExtractionInv, TypeOK
<1>3. /\ ops \in Seq(Op) /\ DOMAIN ops = {1, 2}
      /\ ops[1].op = "adt" /\ ops[1].arg = a /\ ops[2].op = "addAdt" /\ ops[2].arg = a
  <2>1. "adt" \in DefOps /\ "addAdt" \in DefOps
    BY DEF DefOps
  <2>2. PICK s, t : s = One("adt", a) /\ t = One("addAdt", a)
    OBVIOUS
  <2>3. /\ s \in Seq(Op) /\ Len(s) = 1 /\ DOMAIN s = {1} /\ s[1].op = "adt" /\ s[1].arg = a
        /\ t \in Seq(Op) /\ Len(t) = 1 /\ DOMAIN t = {1} /\ t[1].op = "addAdt" /\ t[1].arg = a
    BY <1>2, <2>1, <2>2, OneType
  <2>4. s \o t \in Seq(Op) /\ Len(s \o t) = 2 /\ (s \o t)[1] = s[1] /\ (s \o t)[2] = t[1]
    <3>1. /\ s \o t \in Seq(Op) /\ Len(s \o t) = Len(s) + Len(t)
          /\ \A i \in DOMAIN s : (s \o t)[i] = s[i]
          /\ \A i \in DOMAIN t : (s \o t)[Len(s) + i] = t[i]
      BY <2>3, ConcatFrom
    <3> QED
      BY <2>3, <3>1
  <2>5. DOMAIN (s \o t) = 1 .. 2
    BY <2>4, LenProperties
  <2> QED
    BY <2>2, <2>3, <2>4, <2>5
<1>4. StackOK'
  <2> HIDE DEF ops
  <2>1. InFunction' /\ AddedLast' /\ ResultFirst' /\ InputsInRange'
    BY <1>1, <1>3 DEF InFunction, AddedLast, ResultFirst, InputsInRange, FnOps
  <2>2. SpecsByType'
    BY <1>1, <1>3 DEF SpecsByType, ExtractionInv, StackOK
  <2>3. SortPending'
    <3>1. 1 \in 1 .. 2 - 1
      OBVIOUS
    <3> QED
      BY <1>1, <1>3, <3>1 DEF SortPending
  <2> QED
    BY <2>1, <2>2, <2>3 DEF StackOK
<1> HIDE DEF ops
<1> QED
  BY <1>1, <1>2, <1>3, <1>4
  DEF mapping_vars, output_vars, ExtractionInv, TypeOK, MappingTypeOK

(* The parts of the stack of a function: before the result variable no      *)
(* postcondition, and nothing that ends the function before the end.        *)
Inner(ops) ==
  /\ ops \in Seq(Op)
  /\ \A i \in DOMAIN ops :
       /\ ops[i].op \notin {"emit", "stub", "addAdt"}
       /\ ops[i].op = "spec" => crate.spec_type[ops[i].arg] \in SpecTypes
Early(ops) ==
  \A i \in DOMAIN ops : ops[i].op = "spec" => crate.spec_type[ops[i].arg] # "post"
NoInput(ops) == \A i \in DOMAIN ops : ops[i].op # "input"

(* Concatenations of such parts are such parts.                             *)
LEMMA InnerConcat ==
  ASSUME NEW s, NEW t, Inner(s), Inner(t)
  PROVE  /\ Inner(s \o t)
         /\ Early(s) /\ Early(t) => Early(s \o t)
         /\ NoInput(s) /\ NoInput(t) => NoInput(s \o t)
<1>1. s \in Seq(Op) /\ t \in Seq(Op)
  BY DEF Inner
<1>2. /\ s \o t \in Seq(Op)
      /\ \A i \in DOMAIN (s \o t) :
              \/ i \in DOMAIN s /\ (s \o t)[i] = s[i]
              \/ i - Len(s) \in DOMAIN t /\ (s \o t)[i] = t[i - Len(s)]
  BY <1>1, ConcatFrom
<1>3. Inner(s \o t)
  BY <1>2 DEF Inner
<1>4. Early(s) /\ Early(t) => Early(s \o t)
  BY <1>2 DEF Early
<1>5. NoInput(s) /\ NoInput(t) => NoInput(s \o t)
  BY <1>2 DEF NoInput
<1> QED
  BY <1>3, <1>4, <1>5

(* What is pushed is of that kind, and so are the operations below.         *)
LEMMA InnerPushed ==
  ASSUME NEW ops, Pushed(ops)
  PROVE  Inner(ops) /\ Early(ops) /\ NoInput(ops)
  BY DEF Pushed, Rooted, Inner, Early, NoInput

(* The spec functions of one type, ...                                      *)
LEMMA InnerSpecs ==
  ASSUME NEW type \in SpecTypes, NEW ss \in Seq(DefIds),
         \A i \in DOMAIN ss : crate.spec_type[ss[i]] = type
  PROVE  /\ Inner(Ops("spec", ss)) /\ NoInput(Ops("spec", ss))
         /\ type # "post" => Early(Ops("spec", ss))
<1>1. "spec" \in DefOps
  BY DEF DefOps
<1> QED
  BY <1>1, DefOpsType DEF Inner, Early, NoInput

(* ... the function's own body, ...                                         *)
LEMMA InnerEnter ==
  ASSUME NEW g \in DefIds
  PROVE  Inner(One("enter", g)) /\ Early(One("enter", g)) /\ NoInput(One("enter", g))
<1>1. "enter" \in DefOps
  BY DEF DefOps
<1> QED
  BY <1>1, OneType DEF Inner, Early, NoInput

(* ... and the result variable.                                             *)
LEMMA InnerRet ==
  Inner(One("ret", NoDef)) /\ Early(One("ret", NoDef)) /\ NoInput(One("ret", NoDef))
  BY OneRet DEF Inner, Early, NoInput

(* A stack made of such a part and of the operation that adds the function. *)
LEMMA FunctionStack ==
  ASSUME ExtractionInv, NEW body, Inner(body), NEW kind \in {"emit", "stub"},
         NEW g \in DefIds, todo' = body \o One(kind, g),
         UNCHANGED <<crate, specs>>, fd' \in FunDef,
         \A i \in DOMAIN body : body[i].op = "input" =>
           body[i].arg \in DOMAIN crate.inputs[fd'.def],
         \A i \in DOMAIN body :
           body[i].op = "spec" /\ crate.spec_type[body[i].arg] = "post" =>
             \E j \in 1 .. i - 1 : j \in DOMAIN body /\ body[j].op = "ret"
  PROVE  todo' \in Seq(Op) /\ StackOK'
<1>0. PICK last : last = One(kind, g)
  OBVIOUS
<1>1. body \in Seq(Op) /\ kind \in DefOps
  BY DEF Inner, DefOps
<1>2. last \in Seq(Op) /\ DOMAIN last = {1} /\ last[1].op = kind /\ Len(last) = 1
  BY <1>0, <1>1, OneType
<1>3. /\ todo' \in Seq(Op) /\ Len(todo') = Len(body) + 1 /\ Len(body) \in Nat
      /\ DOMAIN todo' = 1 .. Len(body) + 1 /\ DOMAIN body = 1 .. Len(body)
      /\ \A i \in DOMAIN body : i \in DOMAIN todo' /\ todo'[i] = body[i]
  <2>1. todo' = body \o last
    BY <1>0
  <2>2. /\ todo' \in Seq(Op) /\ Len(todo') = Len(body) + 1
        /\ \A i \in DOMAIN body : i \in DOMAIN todo' /\ todo'[i] = body[i]
    <3>1. /\ body \o last \in Seq(Op) /\ Len(body \o last) = Len(body) + Len(last)
          /\ \A i \in DOMAIN body :
               i \in DOMAIN (body \o last) /\ (body \o last)[i] = body[i]
      <4>1. last \in Seq(Op)
        BY <1>2
      <4> QED
        BY <1>1, <4>1, ConcatFrom
    <3>2. Len(body \o last) = Len(body) + 1
      BY <1>2, <3>1
    <3> QED
      BY <2>1, <3>1, <3>2, Zenon
  <2>3. /\ Len(body) \in Nat /\ DOMAIN body = 1 .. Len(body)
        /\ DOMAIN todo' = 1 .. Len(todo')
    BY <1>1, <2>2, LenProperties
  <2> QED
    BY <2>2, <2>3
<1>4. ASSUME NEW i \in DOMAIN todo'
      PROVE  \/ i \in DOMAIN body /\ todo'[i] = body[i]
             \/ i = Len(todo') /\ todo'[i].op = kind
  <2>1. todo' = body \o last
    BY <1>0
  <2>2. CASE i \in 1 .. Len(body)
    BY <1>3, <2>2
  <2>3. CASE i = Len(body) + 1
    BY <1>1, <1>2, <1>3, <2>1, <2>3, ConcatFrom
  <2> QED
    BY <1>3, <2>2, <2>3
<1>5. InFunction'
  BY DEF InFunction
<1>6. AddedLast'
  BY <1>4 DEF AddedLast, Inner
<1>7. SpecsByType'
  BY <1>4 DEF SpecsByType, Inner, ExtractionInv, StackOK
<1>8. ResultFirst'
  <2> SUFFICES ASSUME NEW i \in DOMAIN todo', todo'[i].op = "spec",
                      crate.spec_type[todo'[i].arg] = "post"
               PROVE  \E j \in 1 .. i - 1 : todo'[j].op = "ret"
    BY DEF ResultFirst
  <2>1. i \in DOMAIN body /\ todo'[i] = body[i]
    BY <1>4
  <2>2. PICK j \in 1 .. i - 1 : j \in DOMAIN body /\ body[j].op = "ret"
    BY <2>1
  <2> QED
    BY <1>3, <2>2
<1>9. InputsInRange'
  BY <1>4 DEF InputsInRange
<1>10. SortPending'
  BY <1>4 DEF SortPending, Inner
<1> QED
  BY <1>3, <1>5, <1>6, <1>7, <1>8, <1>9, <1>10 DEF StackOK

(* The operations of a function, without the last.                          *)
LEMMA FunctionBody ==
  ASSUME ExtractionInv, NEW g \in DefIds
  PROVE  \E body :
           /\ FunctionOps(g) = body \o One("emit", g)
           /\ Inner(body) /\ NoInput(body)
           /\ \A i \in DOMAIN body :
                body[i].op = "spec" /\ crate.spec_type[body[i].arg] = "post" =>
                  \E j \in 1 .. i - 1 : j \in DOMAIN body /\ body[j].op = "ret"
<1>1. PICK m, p, q : /\ m = Ops("spec", FirstOf(specs[g]["measure"]))
                     /\ p = Ops("spec", specs[g]["pre"])
                     /\ q = Ops("spec", specs[g]["post"])
  OBVIOUS
<1>2. PICK gen, enter, ret :
        gen = GenericsOps(g) /\ enter = One("enter", g) /\ ret = One("ret", NoDef)
  OBVIOUS
<1>3. /\ Inner(gen) /\ Early(gen) /\ NoInput(gen)
      /\ Inner(enter) /\ Early(enter) /\ NoInput(enter)
      /\ Inner(ret) /\ NoInput(ret)
  BY <1>2, PushedGenerics, InnerPushed, InnerEnter, InnerRet DEF ExtractionInv, TypeOK
<1>4. /\ Inner(m) /\ Early(m) /\ NoInput(m)
      /\ Inner(p) /\ Early(p) /\ NoInput(p)
      /\ Inner(q) /\ NoInput(q)
  <2>1. /\ "measure" \in SpecTypes /\ "pre" \in SpecTypes /\ "post" \in SpecTypes
        /\ specs[g]["measure"] \in Seq(DefIds) /\ specs[g]["pre"] \in Seq(DefIds)
        /\ specs[g]["post"] \in Seq(DefIds)
    BY DEF SpecTypes, ExtractionInv, TypeOK
  <2>2. /\ \A i \in DOMAIN specs[g]["measure"] :
             crate.spec_type[specs[g]["measure"][i]] = "measure"
        /\ \A i \in DOMAIN specs[g]["pre"] : crate.spec_type[specs[g]["pre"][i]] = "pre"
        /\ \A i \in DOMAIN specs[g]["post"] : crate.spec_type[specs[g]["post"][i]] = "post"
    BY <2>1 DEF ExtractionInv, StackOK, SpecsByType
  <2>3. PICK f : f = FirstOf(specs[g]["measure"])
    OBVIOUS
  <2>4. f \in Seq(DefIds) /\ \A i \in DOMAIN f : crate.spec_type[f[i]] = "measure"
    <3>1. CASE specs[g]["measure"] = <<>>
      BY <2>3, <3>1 DEF FirstOf
    <3>2. CASE specs[g]["measure"] # <<>>
      <4>1. /\ Head(specs[g]["measure"]) \in DefIds
            /\ crate.spec_type[Head(specs[g]["measure"])] = "measure"
        BY <2>1, <2>2, <3>2
      <4>2. f = <<Head(specs[g]["measure"])>>
        BY <2>3, <3>2 DEF FirstOf
      <4> QED
        BY <4>1, <4>2
    <3> QED
      BY <3>1, <3>2
  <2>5. Inner(m) /\ Early(m) /\ NoInput(m)
    BY <1>1, <2>1, <2>3, <2>4, InnerSpecs
  <2>6. Inner(p) /\ Early(p) /\ NoInput(p)
    BY <1>1, <2>1, <2>2, InnerSpecs
  <2>7. Inner(q) /\ NoInput(q)
    BY <1>1, <2>1, <2>2, InnerSpecs
  <2> QED
    BY <2>5, <2>6, <2>7
<1>5. PICK front : front = gen \o enter \o m \o p
  OBVIOUS
<1>6. Inner(front) /\ Early(front) /\ NoInput(front)
  <2>1. Inner(gen \o enter) /\ Early(gen \o enter) /\ NoInput(gen \o enter)
    BY <1>3, InnerConcat
  <2>2. Inner(gen \o enter \o m) /\ Early(gen \o enter \o m) /\ NoInput(gen \o enter \o m)
    BY <1>4, <2>1, InnerConcat
  <2> QED
    BY <1>4, <1>5, <2>2, InnerConcat
<1>7. PICK half, body : half = front \o ret /\ body = half \o q
  OBVIOUS
<1>8. Inner(half) /\ NoInput(half) /\ Inner(body) /\ NoInput(body)
  BY <1>3, <1>4, <1>6, <1>7, InnerConcat
<1>9. FunctionOps(g) = body \o One("emit", g)
  BY <1>1, <1>2, <1>5, <1>7 DEF FunctionOps
<1>10. ASSUME NEW i \in DOMAIN body, body[i].op = "spec",
              crate.spec_type[body[i].arg] = "post"
       PROVE  \E j \in 1 .. i - 1 : j \in DOMAIN body /\ body[j].op = "ret"
  <2>1. /\ front \in Seq(Op) /\ half \in Seq(Op) /\ q \in Seq(Op) /\ body \in Seq(Op)
        /\ ret \in Seq(Op) /\ DOMAIN ret = {1} /\ ret[1].op = "ret" /\ Len(ret) = 1
    BY <1>2, <1>3, <1>4, <1>6, <1>8, OneRet DEF Inner
  <2>2. /\ Len(half) = Len(front) + 1 /\ half[Len(front) + 1].op = "ret"
        /\ \A k \in DOMAIN half :
             \/ k \in DOMAIN front /\ half[k] = front[k]
             \/ k = Len(front) + 1
    <3>1. /\ Len(half) = Len(front) + Len(ret)
          /\ \A k \in DOMAIN half :
               \/ k \in DOMAIN front /\ half[k] = front[k]
               \/ k - Len(front) \in DOMAIN ret /\ half[k] = ret[k - Len(front)]
          /\ \A k \in DOMAIN ret : half[Len(front) + k] = ret[k]
      <4>1. front \in Seq(Op) /\ ret \in Seq(Op)
        BY <2>1
      <4> QED
        BY <1>7, <4>1, ConcatFrom
    <3>2. DOMAIN half = 1 .. Len(half) /\ Len(front) \in Nat
      BY <2>1, LenProperties
    <3>3. ASSUME NEW k \in DOMAIN half
          PROVE  (k \in DOMAIN front /\ half[k] = front[k]) \/ k = Len(front) + 1
      <4>1. CASE k - Len(front) \in DOMAIN ret
        BY <2>1, <3>2, <4>1
      <4> QED
        BY <3>1, <4>1
    <3>4. half[Len(front) + 1] = ret[1]
      BY <2>1, <3>1
    <3> QED
      BY <2>1, <3>1, <3>3, <3>4
  <2>3. /\ \A k \in DOMAIN body : (k \in DOMAIN half /\ body[k] = half[k])
                                 \/ k - Len(half) \in DOMAIN q
        /\ \A k \in DOMAIN half : k \in DOMAIN body /\ body[k] = half[k]
    BY <1>7, <2>1, ConcatFrom
  <2>4. /\ Len(front) \in Nat /\ DOMAIN half = 1 .. Len(half) /\ DOMAIN q = 1 .. Len(q)
        /\ Len(q) \in Nat /\ DOMAIN body = 1 .. Len(body) /\ Len(body) \in Nat
    BY <2>1, LenProperties
  <2>5. i \notin DOMAIN half
    <3> SUFFICES ASSUME i \in DOMAIN half PROVE FALSE
      OBVIOUS
    <3>1. half[i].op = "spec" /\ crate.spec_type[half[i].arg] = "post"
      BY <1>10, <2>3
    <3>2. i \in DOMAIN front /\ half[i] = front[i]
      BY <2>2, <3>1
    <3> QED
      BY <1>6, <3>1, <3>2 DEF Early
  <2>6. Len(front) + 1 \in 1 .. i - 1 /\ Len(front) + 1 \in DOMAIN half
    BY <2>2, <2>4, <2>5
  <2> QED
    BY <2>2, <2>3, <2>6
<1> QED
  BY <1>8, <1>9, <1>10

(* The loop over the functions.                                             *)
LEMMA StartFunctionStep ==
  ASSUME ExtractionInv, StartFunction
  PROVE  ExtractionInv' /\ UNCHANGED mapping_vars
<1>1. PICK g : g = Head(fn_items)
  OBVIOUS
<1>2. /\ UNCHANGED <<mapping_vars, crate, phase, items, adt_items, specs, stubs, dcx,
                     output_vars, panicked>>
      /\ todo' = FunctionOps(g) /\ fd' = EmptyFd(g, FALSE) /\ errors' \in BOOLEAN
  BY <1>1 DEF StartFunction, ExtractionInv, TypeOK
<1>3. g \in DefIds /\ fn_items' \in Seq(DefIds)
  BY <1>1, HeadTailProperties DEF StartFunction, ExtractionInv, TypeOK
<1>4. fd' \in FunDef
  BY <1>2, <1>3 DEF EmptyFd, FunDef
<1>5. PICK body :
        /\ FunctionOps(g) = body \o One("emit", g)
        /\ Inner(body) /\ NoInput(body)
        /\ \A i \in DOMAIN body :
             body[i].op = "spec" /\ crate.spec_type[body[i].arg] = "post" =>
               \E j \in 1 .. i - 1 : j \in DOMAIN body /\ body[j].op = "ret"
  BY <1>3, FunctionBody
<1>6. todo' \in Seq(Op) /\ StackOK'
  BY <1>2, <1>3, <1>4, <1>5, FunctionStack DEF NoInput
<1> QED
  BY <1>2, <1>3, <1>4, <1>6
  DEF mapping_vars, output_vars, ExtractionInv, TypeOK, MappingTypeOK

(* The operations of a stub, without the last: its inputs are those of the  *)
(* function.                                                                *)
InputsOf(g, ops) ==
  \A i \in DOMAIN ops : ops[i].op = "input" => ops[i].arg \in DOMAIN crate.inputs[g]

(* A stub has no spec functions.                                            *)
LEMMA StubBody ==
  ASSUME ExtractionInv, NEW g \in DefIds
  PROVE  \E body :
           /\ StubOps(g) = body \o One("stub", g)
           /\ Inner(body) /\ Early(body) /\ InputsOf(g, body)
<1>1. PICK gen, inputs, result :
        /\ gen = GenericsOps(g)
        /\ inputs = [i \in DOMAIN crate.inputs[g] |-> [op |-> "input", arg |-> i]]
        /\ result = Ops("type", crate.types[g])
  OBVIOUS
<1>2. crate \in Crates
  BY DEF ExtractionInv, TypeOK
<1>3. /\ Inner(gen) /\ Early(gen) /\ NoInput(gen)
      /\ Inner(result) /\ Early(result) /\ NoInput(result)
  <2>1. Pushed(gen) /\ Pushed(result)
    BY <1>1, <1>2, PushedGenerics, PushedDefs, CrateTypes
  <2> QED
    BY <2>1, InnerPushed
<1>4. Inner(inputs) /\ Early(inputs) /\ InputsOf(g, inputs)
  <2>1. crate.inputs[g] \in Seq(Seq(DefIds))
    BY <1>2, CrateTypes
  <2>2. Len(crate.inputs[g]) \in Nat /\ DOMAIN crate.inputs[g] = 1 .. Len(crate.inputs[g])
    BY <2>1, LenProperties
  <2>3. \A i \in 1 .. Len(crate.inputs[g]) : [op |-> "input", arg |-> i] \in Op
    BY <2>2 DEF Op
  <2>4. inputs \in Seq(Op) /\ DOMAIN inputs = DOMAIN crate.inputs[g]
    BY <1>1, <2>2, <2>3
  <2>5. \A i \in DOMAIN inputs : inputs[i].op = "input" /\ inputs[i].arg = i
    BY <1>1, <2>4
  <2> QED
    BY <2>4, <2>5 DEF Inner, Early, InputsOf
<1>5. PICK front, body : front = gen \o inputs /\ body = front \o result
  OBVIOUS
<1>6. Inner(front) /\ Early(front) /\ Inner(body) /\ Early(body)
  BY <1>3, <1>4, <1>5, InnerConcat
<1>7. InputsOf(g, front)
  <2>1. gen \in Seq(Op) /\ inputs \in Seq(Op)
    BY <1>3, <1>4 DEF Inner
  <2>2. \A i \in DOMAIN front :
          \/ i \in DOMAIN gen /\ front[i] = gen[i]
          \/ i - Len(gen) \in DOMAIN inputs /\ front[i] = inputs[i - Len(gen)]
    BY <1>5, <2>1, ConcatFrom
  <2> QED
    BY <1>3, <1>4, <2>2 DEF InputsOf, NoInput
<1>8. InputsOf(g, body)
  <2>1. front \in Seq(Op) /\ result \in Seq(Op)
    BY <1>3, <1>6 DEF Inner
  <2>2. \A i \in DOMAIN body :
          \/ i \in DOMAIN front /\ body[i] = front[i]
          \/ i - Len(front) \in DOMAIN result /\ body[i] = result[i - Len(front)]
    BY <1>5, <2>1, ConcatFrom
  <2> QED
    BY <1>3, <1>7, <2>2 DEF InputsOf, NoInput
<1>9. StubOps(g) = body \o One("stub", g)
  BY <1>1, <1>5 DEF StubOps
<1> QED
  BY <1>6, <1>8, <1>9

(* The loop over the external functions.                                    *)
LEMMA StartStubStep ==
  ASSUME ExtractionInv, StartStub
  PROVE  ExtractionInv' /\ UNCHANGED mapping_vars
<1>1. PICK g \in stubs :
        stubs' = stubs \ {g} /\ fd' = EmptyFd(g, TRUE) /\ todo' = StubOps(g)
  BY DEF StartStub
<1>2. UNCHANGED <<mapping_vars, crate, phase, discovery_vars, dcx, output_vars, errors,
                  panicked>>
  BY DEF StartStub
<1>3. g \in DefIds /\ stubs' \subseteq DefIds
  BY <1>1 DEF ExtractionInv, TypeOK
<1>4. fd' \in FunDef /\ fd'.def = g
  BY <1>1, <1>3 DEF EmptyFd, FunDef
<1>5. PICK body : /\ StubOps(g) = body \o One("stub", g)
                  /\ Inner(body) /\ Early(body) /\ InputsOf(g, body)
  BY <1>3, StubBody
<1>6. todo' \in Seq(Op) /\ StackOK'
  BY <1>1, <1>2, <1>3, <1>4, <1>5, FunctionStack DEF InputsOf, Early, discovery_vars
<1> QED
  BY <1>2, <1>3, <1>4, <1>6
  DEF mapping_vars, discovery_vars, output_vars, ExtractionInv, TypeOK, MappingTypeOK

(* The loops as a whole.                                                    *)
LEMMA LoopsStep ==
  ASSUME ExtractionInv, Loops
  PROVE  ExtractionInv' /\ UNCHANGED mapping_vars
  BY LoopEnds, StartAdtStep, StartFunctionStep, StartStubStep DEF Loops

----------------------------------------------------------------------------
(* Discovery.                                                               *)

(* A spec function is filed under its type.                                 *)
LEMMA FileSpecType ==
  ASSUME ExtractionInv, NEW g \in DefIds
  PROVE  /\ FileSpec(g) \in [DefIds -> [SpecTypes -> Seq(DefIds)]]
         /\ \A f \in DefIds, t \in SpecTypes : \A i \in DOMAIN FileSpec(g)[f][t] :
              crate.spec_type[FileSpec(g)[f][t][i]] = t
<1>1. /\ specs \in [DefIds -> [SpecTypes -> Seq(DefIds)]] /\ crate \in Crates
      /\ \A f \in DefIds, t \in SpecTypes : \A i \in DOMAIN specs[f][t] :
           crate.spec_type[specs[f][t][i]] = t
  BY DEF ExtractionInv, TypeOK, StackOK, SpecsByType
<1>2. CASE ~(IsSpecFn(g) /\ crate.spec_of[g] # NoDef)
  BY <1>1, <1>2 DEF FileSpec
<1>3. CASE IsSpecFn(g) /\ crate.spec_of[g] # NoDef
  <2>1. PICK f, t : f = crate.spec_of[g] /\ t = crate.spec_type[g]
    OBVIOUS
  <2>2. f \in DefIds /\ t \in SpecTypes
    BY <1>1, <1>3, <2>1, CrateTypes DEF IsSpecFn
  <2>3. PICK old, ss : old = specs[f][t] /\ ss = Append(old, g)
    OBVIOUS
  <2>4. ss \in Seq(DefIds) /\ \A i \in DOMAIN ss : crate.spec_type[ss[i]] = t
    <3>1. old \in Seq(DefIds)
      BY <1>1, <2>2, <2>3
    <3>2. ss \in Seq(DefIds) /\ Len(ss) = Len(old) + 1
      BY <2>3, <3>1
    <3>3. ASSUME NEW i \in DOMAIN ss PROVE crate.spec_type[ss[i]] = t
      <4>1. i \in 1 .. Len(old) + 1 /\ Len(old) \in Nat /\ DOMAIN old = 1 .. Len(old)
        BY <3>1, <3>2, LenProperties
      <4>2. CASE i = Len(old) + 1
        <5>1. ss[i] = g
          BY <2>3, <3>1, <4>2
        <5> QED
          BY <2>1, <5>1
      <4>3. CASE i \in DOMAIN old
        <5>1. ss[i] = old[i]
          BY <2>3, <3>1, <4>1, <4>3
        <5> QED
          BY <1>1, <2>2, <2>3, <4>3, <5>1
      <4> QED
        BY <4>1, <4>2, <4>3
    <3> QED
      BY <3>2, <3>3
  <2>5. FileSpec(g) = [specs EXCEPT ![f][t] = ss]
    BY <1>3, <2>1, <2>3 DEF FileSpec
  <2>6. /\ FileSpec(g) \in [DefIds -> [SpecTypes -> Seq(DefIds)]]
        /\ FileSpec(g)[f][t] = ss
        /\ \A e \in DefIds, u \in SpecTypes :
             e # f \/ u # t => FileSpec(g)[e][u] = specs[e][u]
    BY <1>1, <2>2, <2>4, <2>5
  <2>7. ASSUME NEW e \in DefIds, NEW u \in SpecTypes, NEW i \in DOMAIN FileSpec(g)[e][u]
        PROVE  crate.spec_type[FileSpec(g)[e][u][i]] = u
    <3>1. CASE e = f /\ u = t
      BY <2>4, <2>6, <3>1
    <3>2. CASE e # f \/ u # t
      <4>1. FileSpec(g)[e][u] = specs[e][u]
        BY <2>6, <3>2
      <4> QED
        BY <1>1, <4>1
    <3> QED
      BY <3>1, <3>2
  <2> QED
    BY <2>6, <2>7
<1> QED
  BY <1>2, <1>3

(* What discovery leaves alone.                                             *)
LEMMA DiscoveryStep ==
  ASSUME ExtractionInv, Discovery
  PROVE  ExtractionInv' /\ UNCHANGED mapping_vars
<1>1. /\ UNCHANGED <<mapping_vars, crate, stubs, todo, dcx, fd, output_vars, panicked>>
      /\ phase' \in Phases /\ errors' \in BOOLEAN
  BY DEF Discovery, VisitAdt, VisitFn, VisitedFns, VisitOther, DiscoveryDone, Discover,
    Phases, ExtractionInv, TypeOK
<1>2. items \in Seq(Item) /\ adt_items \in Seq(DefIds) /\ fn_items \in Seq(DefIds)
  BY DEF ExtractionInv, TypeOK
<1>3. items # <<>> => /\ Head(items) \in Item /\ Tail(items) \in Seq(Item)
                      /\ Head(items).defs \subseteq DefIds
  <2>1. items # <<>> => Head(items) \in Item /\ Tail(items) \in Seq(Item)
    BY <1>2, HeadTailProperties
  <2>2. \A item \in Item : item.defs \subseteq DefIds
    BY DEF Item
  <2> QED
    BY <2>1, <2>2
<1>4. /\ items' \in Seq(Item) /\ adt_items' \in Seq(DefIds) /\ fn_items' \in Seq(DefIds)
      /\ specs' = specs \/ \E g \in DefIds : specs' = FileSpec(g)
  <2>1. CASE VisitAdt
    <3>1. PICK a \in Head(items).defs :
            /\ adt_items' = Append(adt_items, a) /\ items' = Tail(items) /\ items # <<>>
            /\ fn_items' = fn_items /\ specs' = specs
      BY <2>1 DEF VisitAdt, Discover
    <3> QED
      BY <1>2, <1>3, <3>1
  <2>2. CASE VisitFn
    <3>1. PICK g \in Head(items).defs :
            /\ fn_items' = IF IsSpecFn(g) THEN fn_items ELSE Append(fn_items, g)
            /\ specs' = FileSpec(g)
            /\ items' = <<[Head(items) EXCEPT !.defs = Head(items).defs \ {g}]>> \o Tail(items)
            /\ adt_items' = adt_items /\ items # <<>>
      BY <2>2 DEF VisitFn, Discover
    <3>2. g \in DefIds
      BY <1>3, <3>1
    <3>3. PICK item : item = [Head(items) EXCEPT !.defs = Head(items).defs \ {g}]
      OBVIOUS
    <3>4. item \in Item
      BY <1>3, <3>1, <3>3 DEF Item
    <3>5. <<item>> \in Seq(Item) /\ items' = <<item>> \o Tail(items)
      BY <3>1, <3>3, <3>4
    <3>6. items' \in Seq(Item)
      BY <1>3, <3>1, <3>5, ConcatProperties
    <3>7. fn_items' \in Seq(DefIds)
      BY <1>2, <3>1, <3>2
    <3> QED
      BY <1>2, <3>1, <3>2, <3>6, <3>7
  <2>3. CASE VisitedFns \/ VisitOther
    <3>1. /\ items' = Tail(items) /\ items # <<>>
          /\ adt_items' = adt_items /\ fn_items' = fn_items /\ specs' = specs
      BY <2>3 DEF VisitedFns, VisitOther, Discover
    <3> QED
      BY <1>2, <1>3, <3>1
  <2>4. CASE DiscoveryDone
    BY <1>2, <2>4 DEF DiscoveryDone, discovery_vars
  <2> QED
    BY <2>1, <2>2, <2>3, <2>4 DEF Discovery
<1>5. /\ specs' \in [DefIds -> [SpecTypes -> Seq(DefIds)]]
      /\ \A f \in DefIds, t \in SpecTypes : \A i \in DOMAIN specs'[f][t] :
           crate.spec_type[specs'[f][t][i]] = t
  <2>1. CASE specs' = specs
    BY <2>1 DEF ExtractionInv, TypeOK, StackOK, SpecsByType
  <2>2. CASE \E g \in DefIds : specs' = FileSpec(g)
    BY <2>2, FileSpecType
  <2> QED
    BY <1>4, <2>1, <2>2
<1>6. StackOK'
  BY <1>1, <1>5
  DEF mapping_vars, ExtractionInv, StackOK, InFunction, AddedLast, SpecsByType, ResultFirst,
      InputsInRange, SortPending, IsRegistered
<1> QED
  BY <1>1, <1>4, <1>5, <1>6
  DEF mapping_vars, output_vars, ExtractionInv, TypeOK, MappingTypeOK

----------------------------------------------------------------------------
(* The invariant is inductive, and a step is a step of the mapping.         *)

(* The invariant holds before anything is visited, ...                      *)
LEMMA ExtractionInitInv == Init => ExtractionInv
<1> SUFFICES ASSUME Init PROVE ExtractionInv
  OBVIOUS
<1>1. MappingTypeOK
  BY MappingInitType DEF Init
<1>2. items \in Seq(Item) /\ specs \in [DefIds -> [SpecTypes -> Seq(DefIds)]]
  BY ExtractionAssumption DEF Init, NoSpecs, ExtractionAssumption, Crate
<1>3. WorkOK
  BY DEF Init, WorkOK
<1>4. TypeOK
  BY <1>1, <1>2, <1>3 DEF Init, WorkOK, TypeOK, Phases, Panics
<1>5. StackOK
  BY DEF Init, NoSpecs, StackOK, InFunction, AddedLast, SpecsByType, ResultFirst,
    InputsInRange, SortPending
<1> QED
  BY <1>4, <1>5 DEF ExtractionInv

(* ... and every step keeps it.                                             *)
LEMMA ExtractionNext ==
  ASSUME ExtractionInv, [Next]_vars
  PROVE  ExtractionInv' /\ [MappingNext]_mapping_vars
<1>1. CASE Next
  BY <1>1, DiscoveryStep, LoopsStep, TraversalStep DEF Next
<1>2. CASE UNCHANGED vars
  BY <1>2 DEF vars, mapping_vars, discovery_vars, output_vars, ExtractionInv, TypeOK,
    MappingTypeOK, StackOK, InFunction, AddedLast, SpecsByType, ResultFirst,
    InputsInRange, SortPending, IsRegistered
<1> QED
  BY <1>1, <1>2

(* Type correctness of the extraction of any crates.                        *)
THEOREM ExtractionTypeOK == Spec => []TypeOK
<1>1. ExtractionInv => TypeOK
  BY DEF ExtractionInv
<1>2. ExtractionInv /\ [Next]_vars => ExtractionInv'
  BY ExtractionNext
<1> QED
  BY <1>1, <1>2, ExtractionInitInv, PTL DEF Spec

(* An extraction uses the identifier mapping the way it is meant to be      *)
(* used: identifiers only come from register_def on a new definition,       *)
(* register_hir on a new binding and fresh_id.                              *)
THEOREM ExtractionUsesMapping == Spec => UsesMapping
<1>1. Init => MappingInit
  BY DEF Init
<1>2. ExtractionInv /\ [Next]_vars => ExtractionInv'
  BY ExtractionNext
<1>3. ExtractionInv /\ [Next]_vars => [MappingNext]_mapping_vars
  BY ExtractionNext
<1> QED
  BY <1>1, <1>2, <1>3, ExtractionInitInv, PTL DEF Spec, UsesMapping, MappingSpec

(* So the identifiers of an extracted program are unique, by globalId and   *)
(* by name and per-name id.                                                 *)
THEOREM ExtractedIdsUnique == Spec => [](UniqueGlobalIds /\ UniqueNamedIds)
  BY ExtractionUsesMapping, MappingCorrect, PTL DEF UsesMapping

----------------------------------------------------------------------------
(* Where the operations of a stack come from.                               *)

(* From what the operation on top put there, or from below it.              *)
LEMMA Continued ==
  ASSUME todo \in Seq(Op), todo # <<>>, NEW ops \in Seq(Op), Continue(ops)
  PROVE  /\ todo' \in Seq(Op)
         /\ Len(todo') = Len(ops) + Len(todo) - 1
         /\ \A i \in DOMAIN todo' :
              \/ i \in DOMAIN ops /\ todo'[i] = ops[i]
              \/ /\ i - Len(ops) + 1 \in DOMAIN todo /\ i - Len(ops) + 1 >= 2
                 /\ i \notin DOMAIN ops
                 /\ todo'[i] = todo[i - Len(ops) + 1]
         /\ \A j \in DOMAIN todo : j >= 2 =>
              /\ j - 1 + Len(ops) \in DOMAIN todo'
              /\ todo'[j - 1 + Len(ops)] = todo[j]
<1>1. PICK rest : rest = Tail(todo)
  OBVIOUS
<1>2. /\ rest \in Seq(Op) /\ Len(rest) = Len(todo) - 1 /\ Len(todo) \in Nat \ {0}
      /\ \A i \in 1 .. Len(todo) - 1 : rest[i] = todo[i + 1]
      /\ DOMAIN todo = 1 .. Len(todo) /\ DOMAIN rest = 1 .. Len(todo) - 1
  BY <1>1, HeadTailProperties, LenProperties
<1>3. todo' = ops \o rest
  BY <1>1 DEF Continue
<1>4. /\ todo' \in Seq(Op) /\ Len(todo') = Len(ops) + Len(rest)
      /\ \A i \in DOMAIN todo' :
           \/ i \in DOMAIN ops /\ todo'[i] = ops[i]
           \/ i - Len(ops) \in DOMAIN rest /\ todo'[i] = rest[i - Len(ops)]
  <2>1. rest \in Seq(Op)
    BY <1>2
  <2>2. /\ ops \o rest \in Seq(Op) /\ Len(ops \o rest) = Len(ops) + Len(rest)
        /\ \A i \in DOMAIN (ops \o rest) :
             \/ i \in DOMAIN ops /\ (ops \o rest)[i] = ops[i]
             \/ i - Len(ops) \in DOMAIN rest /\ (ops \o rest)[i] = rest[i - Len(ops)]
    BY <2>1, ConcatFrom
  <2> QED
    BY <1>3, <2>2
<1>5. Len(ops) \in Nat /\ DOMAIN ops = 1 .. Len(ops) /\ DOMAIN todo' = 1 .. Len(todo')
  BY <1>4, LenProperties
<1>6. ASSUME NEW i \in DOMAIN todo', i \notin DOMAIN ops
      PROVE  /\ i - Len(ops) + 1 \in DOMAIN todo /\ i - Len(ops) + 1 >= 2
             /\ todo'[i] = todo[i - Len(ops) + 1]
  <2>1. PICK j \in DOMAIN rest : j = i - Len(ops) /\ todo'[i] = rest[j]
    BY <1>4, <1>6
  <2>2. j \in 1 .. Len(todo) - 1 /\ rest[j] = todo[j + 1]
    BY <1>2
  <2>3. j + 1 = i - Len(ops) + 1
    BY <1>5, <2>1
  <2>4. j + 1 \in DOMAIN todo /\ j + 1 >= 2
    BY <1>2, <2>2
  <2> QED
    BY <2>1, <2>2, <2>3, <2>4
<1>7. ASSUME NEW j \in DOMAIN todo, j >= 2
      PROVE  j - 1 + Len(ops) \in DOMAIN todo' /\ todo'[j - 1 + Len(ops)] = todo[j]
  <2>1. PICK k \in DOMAIN rest : k = j - 1 /\ rest[k] = todo[j]
    <3>1. j - 1 \in DOMAIN rest /\ (j - 1) + 1 = j
      BY <1>2, <1>7
    <3> QED
      BY <1>2, <3>1
  <2>2. Len(ops) + k \in DOMAIN (ops \o rest) /\ (ops \o rest)[Len(ops) + k] = rest[k]
    <3>1. rest \in Seq(Op)
      BY <1>2
    <3> QED
      BY <3>1, ConcatFrom
  <2>3. Len(ops) + k = j - 1 + Len(ops)
    BY <1>2, <1>5, <2>1
  <2> QED
    BY <1>3, <2>1, <2>2, <2>3
<1> QED
  BY <1>2, <1>4, <1>6, <1>7

----------------------------------------------------------------------------
(* No re-entry.  An ADT being extracted has an identifier; extract_adt_id   *)
(* and extract_adt only go into those that have none.                       *)
Entered ==
  \A i \in DOMAIN todo : todo[i].op = "sort" => IsRegistered(todo[i].arg)

TypesInv == ExtractionInv /\ Entered /\ NoReentry

(* A step enters at most one ADT, which has no identifier before.           *)
Enters(ops) ==
  /\ ops \in Seq(Op)
  /\ \A i \in DOMAIN ops : ops[i].op = "sort" =>
       /\ i = Len(ops)
       /\ ops[i].arg \notin DOMAIN did_to_stid /\ ops[i].arg \in DOMAIN did_to_stid'
EntersNone(ops) == ops \in Seq(Op) /\ \A i \in DOMAIN ops : ops[i].op # "sort"

(* Such a step keeps ADTs apart.                                            *)
LEMMA EntersStep ==
  ASSUME TypesInv, todo # <<>>, NEW ops, Enters(ops), Continue(ops),
         DOMAIN did_to_stid \subseteq DOMAIN did_to_stid'
  PROVE  Entered' /\ NoReentry'
<1> DEFINE below(i) == i - Len(ops) + 1
<1>1. /\ ops \in Seq(Op) /\ Len(ops) \in Nat /\ todo \in Seq(Op)
      /\ DOMAIN ops \subseteq Nat
  BY LenProperties DEF Enters, TypesInv, ExtractionInv, TypeOK
<1>2. /\ todo' \in Seq(Op)
      /\ \A i \in DOMAIN todo' :
              \/ i \in DOMAIN ops /\ todo'[i] = ops[i]
              \/ below(i) \in DOMAIN todo /\ todo'[i] = todo[below(i)]
  BY <1>1, Continued
<1>3. DOMAIN todo' \subseteq Nat
  BY <1>2, LenProperties
<1>4. Entered'
  <2> SUFFICES ASSUME NEW i \in DOMAIN todo', todo'[i].op = "sort"
               PROVE  todo'[i].arg \in DOMAIN did_to_stid'
    BY DEF Entered, IsRegistered
  <2> QED
    BY <1>2 DEF Enters, TypesInv, Entered, IsRegistered
<1>5. NoReentry'
  <2> SUFFICES ASSUME NEW i \in DOMAIN todo', NEW j \in DOMAIN todo',
                      todo'[i].op = "sort", todo'[i] = todo'[j]
               PROVE  i = j
    BY DEF NoReentry
  <2>1. CASE i \in DOMAIN ops /\ todo'[i] = ops[i] /\ j \in DOMAIN ops /\ todo'[j] = ops[j]
    BY <2>1 DEF Enters
  <2>2. CASE /\ below(i) \in DOMAIN todo /\ todo'[i] = todo[below(i)]
             /\ below(j) \in DOMAIN todo /\ todo'[j] = todo[below(j)]
    <3>1. below(i) = below(j)
      BY <2>2 DEF TypesInv, NoReentry
    <3> QED
      BY <1>1, <1>3, <3>1
  <2>3. CASE /\ i \in DOMAIN ops /\ todo'[i] = ops[i]
             /\ below(j) \in DOMAIN todo /\ todo'[j] = todo[below(j)]
    BY <2>3 DEF Enters, TypesInv, Entered, IsRegistered
  <2>4. CASE /\ j \in DOMAIN ops /\ todo'[j] = ops[j]
             /\ below(i) \in DOMAIN todo /\ todo'[i] = todo[below(i)]
    BY <2>4 DEF Enters, TypesInv, Entered, IsRegistered
  <2> QED
    BY <1>2, <2>1, <2>2, <2>3, <2>4
<1> QED
  BY <1>4, <1>5

(* Concatenations.                                                          *)
LEMMA EntersNoneConcat ==
  ASSUME NEW s, NEW t, EntersNone(s), EntersNone(t)
  PROVE  EntersNone(s \o t)
<1>1. s \in Seq(Op) /\ t \in Seq(Op)
  BY DEF EntersNone
<1>2. /\ s \o t \in Seq(Op)
      /\ \A i \in DOMAIN (s \o t) :
              \/ i \in DOMAIN s /\ (s \o t)[i] = s[i]
              \/ i - Len(s) \in DOMAIN t /\ (s \o t)[i] = t[i - Len(s)]
  BY <1>1, ConcatFrom
<1> QED
  BY <1>2 DEF EntersNone

(* Operations on definitions, but the end of extract_adt; ...               *)
LEMMA EntersNoneDefs ==
  ASSUME NEW kind \in DefOps \ {"sort"}, NEW args \in Seq(DefIds)
  PROVE  EntersNone(Ops(kind, args))
<1>1. /\ Ops(kind, args) \in Seq(Op) /\ DOMAIN Ops(kind, args) = DOMAIN args
      /\ \A i \in DOMAIN args : Ops(kind, args)[i].op = kind
  BY DefOpsType
<1> QED
  BY <1>1 DEF EntersNone

(* ... on one definition, ...                                               *)
LEMMA EntersNoneOne ==
  ASSUME NEW kind \in DefOps \ {"sort"}, NEW d \in DefIds
  PROVE  EntersNone(One(kind, d))
  BY OneType DEF EntersNone

(* ... on bindings, ...                                                     *)
LEMMA EntersNoneHirs ==
  ASSUME NEW kind \in HirOps, NEW args \in Seq(HirIds)
  PROVE  EntersNone(Ops(kind, args))
<1>1. /\ Ops(kind, args) \in Seq(Op) /\ DOMAIN Ops(kind, args) = DOMAIN args
      /\ \A i \in DOMAIN args : Ops(kind, args)[i].op = kind
  BY HirOpsType
<1> QED
  BY <1>1 DEF EntersNone, HirOps

(* ... and those of a body and of extract_generics.                         *)
LEMMA EntersNoneBody ==
  ASSUME crate \in Crates, NEW d \in DefIds
  PROVE  /\ EntersNone(crate.body[d]) /\ EntersNone(GenericsOps(d))
         /\ EntersNone(BindingOps(d))
<1>1. EntersNone(crate.body[d])
  <2>1. crate.body[d] \in Seq(BodyOp)
    BY CrateTypes
  <2>2. crate.body[d] \in Seq(Op)
    BY <2>1, PushedBody DEF Pushed
  <2>3. \A i \in DOMAIN crate.body[d] : crate.body[d][i] \in BodyOp
    BY <2>1, LenProperties
  <2>4. \A o \in BodyOp : o.op # "sort"
    BY DEF BodyOp
  <2> QED
    BY <2>2, <2>3, <2>4 DEF EntersNone
<1>2. EntersNone(GenericsOps(d))
  <2>1. /\ EntersNone(Ops("reg", crate.tparams[d]))
        /\ EntersNone(Ops("type", crate.bounds[d]))
    BY CrateTypes, EntersNoneDefs DEF DefOps
  <2> QED
    BY <2>1, EntersNoneConcat DEF GenericsOps
<1>3. EntersNone(BindingOps(d))
  <2>1. EntersNone(Ops("bind", crate.params[d])) /\ EntersNone(Ops("bind", crate.locals[d]))
    BY CrateTypes, EntersNoneHirs DEF HirOps
  <2> QED
    BY <2>1, EntersNoneConcat DEF BindingOps, Collected
<1> QED
  BY <1>1, <1>2, <1>3

(* extract_adt ends with the only sort it puts on the stack.                *)
LEMMA EntersAdt ==
  ASSUME crate \in Crates, NEW a \in DefIds, a \notin DOMAIN did_to_stid,
         a \in DOMAIN did_to_stid'
  PROVE  Enters(AdtOps(a))
<1>1. PICK front, last :
        /\ front = GenericsOps(a) \o Ops("variant", crate.variants[a])
        /\ last = One("sort", a)
  OBVIOUS
<1>2. EntersNone(front)
  <2>1. EntersNone(Ops("variant", crate.variants[a])) /\ EntersNone(GenericsOps(a))
    BY CrateTypes, EntersNoneDefs, EntersNoneBody DEF DefOps
  <2> QED
    BY <1>1, <2>1, EntersNoneConcat
<1>3. last \in Seq(Op) /\ Len(last) = 1 /\ DOMAIN last = {1} /\ last[1].arg = a
  BY <1>1, OneType DEF DefOps
<1>4. front \in Seq(Op) /\ Len(front) \in Nat
  BY <1>2, LenProperties DEF EntersNone
<1>5. AdtOps(a) = front \o last
  <2>1. PICK g, v : g = GenericsOps(a) /\ v = Ops("variant", crate.variants[a])
    OBVIOUS
  <2> QED
    BY <1>1, <2>1 DEF AdtOps
<1>6. /\ front \o last \in Seq(Op) /\ Len(front \o last) = Len(front) + 1
      /\ \A i \in DOMAIN (front \o last) :
              \/ i \in DOMAIN front /\ (front \o last)[i] = front[i]
              \/ i - Len(front) \in DOMAIN last /\ (front \o last)[i] = last[i - Len(front)]
  <2>1. front \in Seq(Op) /\ last \in Seq(Op)
    BY <1>3, <1>4
  <2>2. /\ front \o last \in Seq(Op) /\ Len(front \o last) = Len(front) + Len(last)
        /\ \A i \in DOMAIN (front \o last) :
              \/ i \in DOMAIN front /\ (front \o last)[i] = front[i]
              \/ i - Len(front) \in DOMAIN last /\ (front \o last)[i] = last[i - Len(front)]
    BY <2>1, ConcatFrom
  <2> QED
    BY <1>3, <2>2
<1>7. DOMAIN (front \o last) \subseteq Nat
  BY <1>6, LenProperties
<1>8. ASSUME NEW i \in DOMAIN (front \o last), (front \o last)[i].op = "sort"
      PROVE  i = Len(front) + 1 /\ (front \o last)[i].arg = a
  <2>1. i - Len(front) \in DOMAIN last /\ (front \o last)[i] = last[i - Len(front)]
    BY <1>2, <1>6, <1>8 DEF EntersNone
  <2>2. i - Len(front) = 1
    BY <1>3, <2>1
  <2> QED
    BY <1>3, <1>4, <1>7, <2>1, <2>2
<1> QED
  BY <1>5, <1>6, <1>8 DEF Enters

(* What the operations of the traversal put on the stack.                   *)
LEMMA TraversalEnters ==
  ASSUME TypesInv, Traversal, todo' # todo
  PROVE  todo # <<>> /\ \E ops : Enters(ops) /\ Continue(ops)
<1>1. todo # <<>>
  BY DEF Traversal, TypeParameter, MentionType, ExtractAdt, Constructor, Field, SortBuilt,
    AddAdt, Call, EnterBody, KnownBinding, NewBinding, Parameter, VarRef, Unsupported,
    ExtractSpec, ReturnVar, AddFunction, StubInput, Execute, Panic
<1>2. crate \in Crates /\ ExtractionInv
  BY DEF TypesInv, ExtractionInv, TypeOK
<1>3. \A ops : EntersNone(ops) => Enters(ops)
  BY DEF EntersNone, Enters
<1>4. EntersNone(<<>>)
  BY DEF EntersNone
<1>5. CASE \/ TypeParameter \/ SortBuilt \/ AddAdt \/ Call \/ KnownBinding
           \/ Parameter \/ VarRef \/ Unsupported \/ ReturnVar
           \/ AddFunction("emit") \/ AddFunction("stub")
  <2>1. Continue(<<>>)
    BY <1>5 DEF TypeParameter, SortBuilt, AddAdt, Call, KnownBinding, Parameter, VarRef,
      Unsupported, ReturnVar, AddFunction
  <2> QED
    BY <1>1, <1>3, <1>4, <2>1
<1>6. CASE MentionType \/ ExtractAdt
  <2>1. PICK a : a = Head(todo).arg
    OBVIOUS
  <2>2. /\ a \in DefIds /\ GetOrRegister(a)
        /\ Continue(IF IsRegistered(a) THEN <<>> ELSE AdtOps(a))
    BY <1>2, <1>6, <2>1, TopArg DEF MentionType, ExtractAdt, DefOps
  <2>3. CASE IsRegistered(a)
    BY <1>1, <1>3, <1>4, <2>2, <2>3
  <2>4. CASE ~IsRegistered(a)
    <3>1. a \notin DOMAIN did_to_stid /\ a \in DOMAIN did_to_stid'
      BY <2>2, <2>4, GetOrRegisterStep DEF IsRegistered
    <3> QED
      BY <1>1, <1>2, <2>2, <2>4, <3>1, EntersAdt
  <2> QED
    BY <2>3, <2>4
<1>7. CASE Constructor
  <2>1. PICK d, ops : d = Head(todo).arg /\ ops = Ops("field", crate.fields[d])
    OBVIOUS
  <2>2. d \in DefIds /\ Continue(ops)
    BY <1>2, <1>7, <2>1, TopArg DEF Constructor, DefOps
  <2>3. EntersNone(ops)
    BY <1>2, <2>1, <2>2, CrateTypes, EntersNoneDefs DEF DefOps
  <2> QED
    BY <1>1, <1>3, <2>2, <2>3
<1>8. CASE Field
  <2>1. PICK d, ops : d = Head(todo).arg /\ ops = Ops("type", crate.types[d])
    OBVIOUS
  <2>2. d \in DefIds /\ Continue(ops)
    BY <1>2, <1>8, <2>1, TopArg DEF Field, DefOps
  <2>3. EntersNone(ops)
    BY <1>2, <2>1, <2>2, CrateTypes, EntersNoneDefs DEF DefOps
  <2> QED
    BY <1>1, <1>3, <2>2, <2>3
<1>9. CASE NewBinding
  <2>1. PICK h, ops : h = Head(todo).arg /\ ops = Ops("type", crate.hir_types[h])
    OBVIOUS
  <2>2. h \in HirIds /\ Continue(ops)
    BY <1>2, <1>9, <2>1, TopArg DEF NewBinding, HirOps
  <2>3. EntersNone(ops)
    BY <1>2, <2>1, <2>2, BindingTypes, EntersNoneDefs DEF DefOps
  <2> QED
    BY <1>1, <1>3, <2>2, <2>3
<1>10. CASE StubInput
  <2>1. PICK i, ops : i = Head(todo).arg /\ ops = Ops("type", crate.inputs[fd.def][i])
    OBVIOUS
  <2>2. Continue(ops) /\ Execute("input") /\ fd \in FunDef
    BY <1>2, <1>10, <2>1, TopArg DEF StubInput, FnOps
  <2>3. i \in DOMAIN crate.inputs[fd.def]
    BY <1>2, <2>1, <2>2, TopOfStack DEF Execute, ExtractionInv, StackOK, InputsInRange
  <2>4. crate.inputs[fd.def] \in Seq(Seq(DefIds))
    BY <1>2, <2>2, CrateTypes, FunDefType
  <2>5. crate.inputs[fd.def][i] \in Seq(DefIds)
    BY <2>3, <2>4, LenProperties
  <2>6. EntersNone(ops)
    BY <2>1, <2>5, EntersNoneDefs DEF DefOps
  <2> QED
    BY <1>1, <1>3, <2>2, <2>6
<1>11. CASE ExtractSpec
  <2>1. PICK s, ops : s = Head(todo).arg /\ ops = BindingOps(s) \o crate.body[s]
    OBVIOUS
  <2>2. s \in DefIds /\ Continue(ops)
    BY <1>2, <1>11, <2>1, TopArg DEF ExtractSpec, DefOps
  <2>3. EntersNone(ops)
    BY <1>2, <2>1, <2>2, EntersNoneBody, EntersNoneConcat
  <2> QED
    BY <1>1, <1>3, <2>2, <2>3
<1>12. CASE EnterBody
  <2>1. PICK g, binds, types, params, body :
          /\ g = Head(todo).arg /\ binds = BindingOps(g)
          /\ types = Ops("type", crate.types[g]) /\ params = Ops("param", crate.params[g])
          /\ body = crate.body[g]
    OBVIOUS
  <2>2. g \in DefIds /\ Continue(binds \o types \o params \o body)
    BY <1>2, <1>12, <2>1, TopArg DEF EnterBody, DefOps
  <2>3. EntersNone(binds) /\ EntersNone(types) /\ EntersNone(params) /\ EntersNone(body)
    BY <1>2, <2>1, <2>2, CrateTypes, EntersNoneBody, EntersNoneDefs, EntersNoneHirs
    DEF DefOps, HirOps
  <2>4. EntersNone(binds \o types)
    BY <2>3, EntersNoneConcat
  <2>5. EntersNone(binds \o types \o params)
    BY <2>3, <2>4, EntersNoneConcat
  <2>6. EntersNone(binds \o types \o params \o body)
    BY <2>3, <2>5, EntersNoneConcat
  <2> QED
    BY <1>1, <1>3, <2>2, <2>6
<1>13. CASE Panic
  BY <1>13 DEF Panic
<1> QED
  BY <1>5, <1>6, <1>7, <1>8, <1>9, <1>10, <1>11, <1>12, <1>13 DEF Traversal
(* The operations of a function, ...                                        *)
LEMMA EntersNoneFunction ==
  ASSUME ExtractionInv, NEW g \in DefIds
  PROVE  EntersNone(FunctionOps(g))
<1>1. PICK gen, enter, m, p, ret, q, last :
        /\ gen = GenericsOps(g) /\ enter = One("enter", g)
        /\ m = Ops("spec", FirstOf(specs[g]["measure"]))
        /\ p = Ops("spec", specs[g]["pre"]) /\ ret = One("ret", NoDef)
        /\ q = Ops("spec", specs[g]["post"]) /\ last = One("emit", g)
  OBVIOUS
<1>2. /\ specs[g]["measure"] \in Seq(DefIds) /\ specs[g]["pre"] \in Seq(DefIds)
      /\ specs[g]["post"] \in Seq(DefIds) /\ crate \in Crates
  BY DEF ExtractionInv, TypeOK, SpecTypes
<1>3. FirstOf(specs[g]["measure"]) \in Seq(DefIds)
  BY <1>2, HeadTailProperties DEF FirstOf
<1>4. /\ EntersNone(gen) /\ EntersNone(enter) /\ EntersNone(m) /\ EntersNone(p)
      /\ EntersNone(q) /\ EntersNone(last)
  BY <1>1, <1>2, <1>3, EntersNoneBody, EntersNoneOne, EntersNoneDefs DEF DefOps
<1>5. EntersNone(ret)
  BY <1>1, OneRet DEF EntersNone
<1>6. EntersNone(gen \o enter \o m)
  BY <1>4, EntersNoneConcat
<1>7. EntersNone(gen \o enter \o m \o p)
  BY <1>4, <1>6, EntersNoneConcat
<1>8. EntersNone(gen \o enter \o m \o p \o ret)
  BY <1>5, <1>7, EntersNoneConcat
<1>9. EntersNone(gen \o enter \o m \o p \o ret \o q)
  BY <1>4, <1>8, EntersNoneConcat
<1>10. EntersNone(gen \o enter \o m \o p \o ret \o q \o last)
  BY <1>4, <1>9, EntersNoneConcat
<1> QED
  BY <1>1, <1>10 DEF FunctionOps

(* ... and those of a stub.                                                 *)
LEMMA EntersNoneStub ==
  ASSUME ExtractionInv, NEW g \in DefIds
  PROVE  EntersNone(StubOps(g))
<1>1. PICK gen, inputs, result, last :
        /\ gen = GenericsOps(g) /\ result = Ops("type", crate.types[g])
        /\ inputs = [i \in DOMAIN crate.inputs[g] |-> [op |-> "input", arg |-> i]]
        /\ last = One("stub", g)
  OBVIOUS
<1>2. crate \in Crates
  BY DEF ExtractionInv, TypeOK
<1>3. EntersNone(inputs)
  <2>1. crate.inputs[g] \in Seq(Seq(DefIds))
    BY <1>2, CrateTypes
  <2>2. Len(crate.inputs[g]) \in Nat /\ DOMAIN crate.inputs[g] = 1 .. Len(crate.inputs[g])
    BY <2>1, LenProperties
  <2>3. \A i \in 1 .. Len(crate.inputs[g]) : [op |-> "input", arg |-> i] \in Op
    BY <2>2 DEF Op
  <2>4. inputs \in Seq(Op) /\ DOMAIN inputs = DOMAIN crate.inputs[g]
    BY <1>1, <2>2, <2>3
  <2>5. \A i \in DOMAIN inputs : inputs[i].op = "input"
    BY <1>1, <2>4
  <2> QED
    BY <2>4, <2>5 DEF EntersNone
<1>4. EntersNone(gen) /\ EntersNone(result) /\ EntersNone(last)
  BY <1>1, <1>2, CrateTypes, EntersNoneBody, EntersNoneDefs, EntersNoneOne DEF DefOps
<1>5. EntersNone(gen \o inputs \o result)
  BY <1>3, <1>4, EntersNoneConcat
<1>6. EntersNone(gen \o inputs \o result \o last)
  BY <1>4, <1>5, EntersNoneConcat
<1> QED
  BY <1>1, <1>6 DEF StubOps

(* The loops start with none.                                               *)
LEMMA LoopsEnter ==
  ASSUME TypesInv, Loops
  PROVE  \A i \in DOMAIN todo' : todo'[i].op # "sort"
<1>1. ExtractionInv /\ crate \in Crates
  BY DEF TypesInv, ExtractionInv, TypeOK
<1>2. CASE AdtsDone \/ FunctionsDone \/ StubsDone
  BY <1>2 DEF AdtsDone, FunctionsDone, StubsDone, Idle
<1>3. CASE StartAdt
  <2>1. PICK a, s, t : a = Head(adt_items) /\ s = One("adt", a) /\ t = One("addAdt", a)
    OBVIOUS
  <2>2. a \in DefIds /\ todo' = s \o t
    BY <1>1, <1>3, <2>1, HeadTailProperties DEF StartAdt, ExtractionInv, TypeOK
  <2>3. EntersNone(s) /\ EntersNone(t)
    BY <2>1, <2>2, EntersNoneOne DEF DefOps
  <2>4. EntersNone(s \o t)
    BY <2>3, EntersNoneConcat
  <2> QED
    BY <2>2, <2>4 DEF EntersNone
<1>4. CASE StartFunction
  <2>1. PICK g : g = Head(fn_items)
    OBVIOUS
  <2>2. g \in DefIds /\ todo' = FunctionOps(g)
    BY <1>1, <1>4, <2>1, HeadTailProperties DEF StartFunction, ExtractionInv, TypeOK
  <2>3. EntersNone(FunctionOps(g))
    BY <1>1, <2>2, EntersNoneFunction
  <2> QED
    BY <2>2, <2>3 DEF EntersNone
<1>5. CASE StartStub
  <2>1. PICK g \in stubs : todo' = StubOps(g)
    BY <1>5 DEF StartStub
  <2>2. g \in DefIds
    BY <1>1, <2>1 DEF ExtractionInv, TypeOK
  <2>3. EntersNone(StubOps(g))
    BY <1>1, <2>2, EntersNoneStub
  <2> QED
    BY <2>1, <2>3 DEF EntersNone
<1> QED
  BY <1>2, <1>3, <1>4, <1>5 DEF Loops

(* The invariant is inductive.                                              *)
LEMMA TypesStep ==
  ASSUME TypesInv, [Next]_vars
  PROVE  TypesInv'
<1>1. ExtractionInv' /\ [MappingNext]_mapping_vars
  BY ExtractionNext DEF TypesInv
<1>2. DOMAIN did_to_stid \subseteq DOMAIN did_to_stid'
  BY <1>1, MappingGrows DEF TypesInv, ExtractionInv, TypeOK
<1>3. CASE todo' = todo
  BY <1>1, <1>2, <1>3 DEF TypesInv, Entered, NoReentry, IsRegistered
<1>4. CASE Traversal /\ todo' # todo
  BY <1>1, <1>2, <1>4, TraversalEnters, EntersStep DEF TypesInv
<1>5. CASE Loops
  BY <1>1, <1>5, LoopsEnter DEF TypesInv, Entered, NoReentry
<1>6. CASE Discovery \/ UNCHANGED vars
  <2>1. todo' = todo
    BY <1>6 DEF Discovery, VisitAdt, VisitFn, VisitedFns, VisitOther, DiscoveryDone,
      Discover, vars
  <2> QED
    BY <1>3, <2>1
<1> QED
  BY <1>3, <1>4, <1>5, <1>6 DEF Next

(* extract_adt, extract_adt_id: whatever ADTs refer to, no extract_adt is   *)
(* called for one that is still being extracted, so the recursion over      *)
(* types is no deeper than there are ADTs.                                  *)
THEOREM TypesNotReentered == Spec => []NoReentry
<1>1. Init => TypesInv
  BY ExtractionInitInv DEF Init, TypesInv, Entered, NoReentry
<1>2. TypesInv /\ [Next]_vars => TypesInv'
  BY TypesStep
<1>3. TypesInv => NoReentry
  BY DEF TypesInv
<1> QED
  BY <1>1, <1>2, <1>3, PTL DEF Spec
----------------------------------------------------------------------------
(* Scopes: what a function and its contract may mention.                    *)

(* The operations that read or write the context come in the order of       *)
(* enter_body: bindings, parameters, uses; all of them before the next body.*)
Contextual == {"bind", "param", "var"}
Earlier(a, b) ==
  \/ a = "bind" /\ b \in {"param", "var", "enter", "spec"}
  \/ a = "param" /\ b \in {"var", "enter", "spec"}
  \/ a = "var" /\ b \in {"enter", "spec"}
Ordered(s) == \A i, j \in DOMAIN s : Earlier(s[i].op, s[j].op) => i < j

(* The body entered is that of the function under construction; its result  *)
(* variable is made once.                                                   *)
OwnBody == \A i \in DOMAIN todo : todo[i].op = "enter" => todo[i].arg = fd.def
OneResult ==
  /\ \A i, j \in DOMAIN todo : todo[i].op = "ret" /\ todo[j].op = "ret" => i = j
  /\ (\E i \in DOMAIN todo : todo[i].op = "ret") => fd.ret = <<>>

(* A binding is one of the function's own or of its spec functions', or     *)
(* one that stands for a variable already; so the variables in the context  *)
(* are in scope, each for the binding that stands for it.                   *)
BindingsOwned ==
  \A i \in DOMAIN todo : todo[i].op = "bind" =>
    todo[i].arg \in Bound(fd) \/ todo[i].arg \in DOMAIN dcx
StandsInScope(h) == <<h, dcx[h]>> \in Scope(fd)
ContextInScope ==
  (\E i \in DOMAIN todo : todo[i].op \in Contextual) =>
    \A h \in DOMAIN dcx : StandsInScope(h)

(* This half of VariablesInScope; the other is that of the signature.       *)
UsesInScope ==
  \A id \in DOMAIN functions : functions[id].vars \subseteq Scope(functions[id])

ScopeInv ==
  /\ ExtractionInv
  /\ Ordered(todo) /\ OwnBody /\ OneResult
  /\ BindingsOwned /\ ContextInScope
  /\ fd.vars \subseteq Scope(fd)
  /\ UsesInScope

(* Operations that have to do with none of that.                            *)
Scoped == Contextual \cup {"enter", "spec", "ret", "input", "emit", "stub"}
Quiet(ops) == ops \in Seq(Op) /\ \A i \in DOMAIN ops : ops[i].op \notin Scoped

(* No binding is registered under another identifier later.                 *)
HirKept ==
  /\ DOMAIN hid_to_stid \subseteq DOMAIN hid_to_stid'
  /\ \A h \in DOMAIN hid_to_stid : hid_to_stid'[h] = hid_to_stid[h]

(* An action that makes at most one identifier keeps what bindings have.     *)
LEMMA HirGrows ==
  ASSUME [MappingNext]_mapping_vars
  PROVE  HirKept
  BY DEF MappingNext, RegisterDef, RegisterHir, FreshVar, Insert, mapping_vars, HirKept

(* A function that grows: its scope does too.                               *)
Grown(f, g) ==
  /\ g.def = f.def
  /\ \A i \in DOMAIN f.params : i \in DOMAIN g.params /\ g.params[i] = f.params[i]
  /\ Range(f.ret) \subseteq Range(g.ret)
  /\ OwnSpecs(f) \subseteq OwnSpecs(g) /\ Range(f.post) \subseteq Range(g.post)
BoundNext(f) ==
  Range(crate'.params[f.def])
    \cup UNION {Range(crate'.locals[g]) : g \in {f.def} \cup OwnSpecs(f)}
OwnedNext(f) == {<<h, hid_to_stid'[h]>> : h \in BoundNext(f) \cap DOMAIN hid_to_stid'}
ScopeNext(f) ==
  OwnedNext(f)
    \cup (UNION {Shared(crate', s, f) : s \in OwnSpecs(f)})
    \cup (UNION {Returned(crate', s, f) : s \in Range(f.post)})

(* What is in a scope.                                                      *)
LEMMA ScopeNextHas ==
  ASSUME NEW f
  PROVE  /\ \A h \in BoundNext(f) \cap DOMAIN hid_to_stid' :
              <<h, hid_to_stid'[h]>> \in ScopeNext(f)
         /\ \A s \in OwnSpecs(f) : Shared(crate', s, f) \subseteq ScopeNext(f)
         /\ \A s \in Range(f.post) : Returned(crate', s, f) \subseteq ScopeNext(f)
<1>1. \A h \in BoundNext(f) \cap DOMAIN hid_to_stid' : <<h, hid_to_stid'[h]>> \in OwnedNext(f)
  BY DEF OwnedNext
<1>2. OwnedNext(f) \subseteq ScopeNext(f)
  BY DEF ScopeNext
<1>3. \A s \in OwnSpecs(f) : Shared(crate', s, f) \subseteq ScopeNext(f)
  BY DEF ScopeNext
<1>4. \A s \in Range(f.post) : Returned(crate', s, f) \subseteq ScopeNext(f)
  BY DEF ScopeNext
<1> QED
  BY <1>1, <1>2, <1>3, <1>4

(* ... and nothing else.                                                    *)
LEMMA ScopeHas ==
  ASSUME NEW f, NEW x \in Scope(f)
  PROVE  \/ \E h \in Bound(f) \cap DOMAIN hid_to_stid : x = <<h, hid_to_stid[h]>>
         \/ \E s \in OwnSpecs(f) : x \in Shared(crate, s, f)
         \/ \E s \in Range(f.post) : x \in Returned(crate, s, f)
<1>1. \/ x \in Owned(f)
      \/ \E s \in OwnSpecs(f) : x \in Shared(crate, s, f)
      \/ \E s \in Range(f.post) : x \in Returned(crate, s, f)
  BY DEF Scope
<1> QED
  BY <1>1 DEF Owned

(* So what is in the scope of a contract stays in it (extract_binding).      *)
LEMMA ScopeGrows ==
  ASSUME NEW f, NEW g, Grown(f, g), HirKept, crate' = crate
  PROVE  Bound(f) \subseteq BoundNext(g) /\ Scope(f) \subseteq ScopeNext(g)
<1>1. Bound(f) \subseteq BoundNext(g)
  BY DEF Bound, BoundNext, Grown
<1>2. ASSUME NEW x \in Scope(f) PROVE x \in ScopeNext(g)
  <2>1. CASE \E h \in Bound(f) \cap DOMAIN hid_to_stid : x = <<h, hid_to_stid[h]>>
    <3>1. PICK h \in Bound(f) \cap DOMAIN hid_to_stid : x = <<h, hid_to_stid[h]>>
      BY <2>1
    <3>2. h \in BoundNext(g) \cap DOMAIN hid_to_stid' /\ x = <<h, hid_to_stid'[h]>>
      BY <1>1, <3>1 DEF HirKept
    <3> QED
      BY <3>2, ScopeNextHas
  <2>2. ASSUME NEW s \in OwnSpecs(f), x \in Shared(crate, s, f) PROVE x \in ScopeNext(g)
    <3>1. s \in OwnSpecs(g)
      BY <2>2 DEF Grown
    <3>2. x \in Shared(crate', s, g)
      BY <2>2 DEF Shared, Grown
    <3> QED
      BY <3>1, <3>2, ScopeNextHas
  <2>3. ASSUME NEW s \in Range(f.post), x \in Returned(crate, s, f) PROVE x \in ScopeNext(g)
    <3>1. s \in Range(g.post)
      BY <2>3 DEF Grown
    <3>2. x \in Returned(crate', s, g)
      BY <2>3 DEF Returned, Grown
    <3> QED
      BY <3>1, <3>2, ScopeNextHas
  <2> QED
    BY <1>2, <2>1, <2>2, <2>3, ScopeHas
<1> QED
  BY <1>1, <1>2

(* The functions finished stay in scope.                                    *)
LEMMA FinishedInScope ==
  ASSUME UsesInScope, HirKept, crate' = crate,
         NEW id \in DOMAIN functions, NEW f, f = functions[id]
  PROVE  f.vars \subseteq ScopeNext(f)
<1>1. f.vars \subseteq Scope(f)
  BY DEF UsesInScope
<1>2. Grown(f, f)
  BY DEF Grown
<1> QED
  BY <1>1, <1>2, ScopeGrows

(* The scope in the next state.                                             *)
LEMMA ScopePrime ==
  /\ Bound(fd)' = BoundNext(fd') /\ Scope(fd)' = ScopeNext(fd')
  /\ UsesInScope' <=> \A id \in DOMAIN functions' : functions'[id].vars \subseteq ScopeNext(functions'[id])
  BY DEF Bound, BoundNext, Scope, ScopeNext, Owned, OwnedNext, Shared, Returned, OwnSpecs, UsesInScope

(* The order of operations survives those that have nothing to do with it.  *)
LEMMA QuietOrder ==
  ASSUME ScopeInv, todo # <<>>, NEW ops, Quiet(ops), Continue(ops),
         fd'.def = fd.def, Head(todo).op = "ret" \/ fd'.ret = fd.ret
  PROVE  Ordered(todo)' /\ OwnBody' /\ OneResult'
<1> DEFINE below(i) == i - Len(ops) + 1
<1>1. /\ ops \in Seq(Op) /\ todo \in Seq(Op) /\ Len(ops) \in Nat
      /\ 1 \in DOMAIN todo /\ Head(todo) = todo[1] /\ DOMAIN todo \subseteq Nat
  BY LenProperties, HeadTailProperties, TopOfStack DEF Quiet, ScopeInv, ExtractionInv, TypeOK
<1>2. /\ DOMAIN todo' \subseteq Nat
      /\ \A i \in DOMAIN todo' : todo'[i].op \in Scoped =>
           below(i) \in DOMAIN todo /\ below(i) >= 2 /\ todo'[i] = todo[below(i)]
  <2>1. /\ todo' \in Seq(Op)
        /\ \A i \in DOMAIN todo' :
              \/ i \in DOMAIN ops /\ todo'[i] = ops[i]
              \/ below(i) \in DOMAIN todo /\ below(i) >= 2 /\ todo'[i] = todo[below(i)]
    BY <1>1, Continued
  <2> QED
    BY <2>1, LenProperties DEF Quiet
<1>3. \A x, y : Earlier(x, y) => x \in Scoped /\ y \in Scoped
  BY DEF Earlier, Scoped, Contextual
<1>4. Ordered(todo)'
  <2> SUFFICES ASSUME NEW i \in DOMAIN todo', NEW j \in DOMAIN todo',
                      Earlier(todo'[i].op, todo'[j].op)
               PROVE  i < j
    BY DEF Ordered
  <2>1. below(i) < below(j)
    BY <1>2, <1>3 DEF ScopeInv, Ordered
  <2> QED
    BY <1>1, <1>2, <2>1
<1>5. OwnBody'
  BY <1>2 DEF OwnBody, ScopeInv, Scoped
<1>6. OneResult'
  <2>1. ASSUME NEW i \in DOMAIN todo', NEW j \in DOMAIN todo',
               todo'[i].op = "ret", todo'[j].op = "ret"
        PROVE  i = j
    <3>1. below(i) = below(j)
      BY <1>2, <2>1 DEF ScopeInv, OneResult, Scoped
    <3> QED
      BY <1>1, <1>2, <3>1
  <2>2. ASSUME NEW i \in DOMAIN todo', todo'[i].op = "ret"
        PROVE  fd'.ret = <<>>
    <3>1. /\ below(i) \in DOMAIN todo /\ below(i) >= 2
          /\ todo[below(i)].op = "ret"
      BY <1>2, <2>2 DEF Scoped
    <3>2. Head(todo).op # "ret"
      BY <1>1, <3>1 DEF ScopeInv, OneResult
    <3> QED
      BY <3>1, <3>2 DEF ScopeInv, OneResult
  <2> QED
    BY <2>1, <2>2 DEF OneResult
<1> QED
  BY <1>4, <1>5, <1>6

(* An operation that enters no body keeps the context in scope.             *)
LEMMA QuietStep ==
  ASSUME ScopeInv, ExtractionInv', HirKept, UNCHANGED <<crate, functions>>,
         todo # <<>>, NEW ops, Quiet(ops), Continue(ops),
         Grown(fd, fd'), Head(todo).op = "ret" \/ fd'.ret = fd.ret,
         DOMAIN dcx \subseteq DOMAIN dcx', \A h \in DOMAIN dcx : dcx'[h] = dcx[h],
         \A h \in DOMAIN dcx' \ DOMAIN dcx :
           /\ Head(todo).op = "bind" /\ h = Head(todo).arg
           /\ h \in DOMAIN hid_to_stid' /\ dcx'[h] = hid_to_stid'[h],
         \A v \in fd'.vars \ fd.vars :
           /\ Head(todo).op = "var" /\ Head(todo).arg \in DOMAIN dcx
           /\ v = <<Head(todo).arg, dcx[Head(todo).arg]>>
  PROVE  ScopeInv'
<1> DEFINE below(i) == i - Len(ops) + 1
<1>1. /\ ops \in Seq(Op) /\ todo \in Seq(Op) /\ Len(ops) \in Nat
      /\ 1 \in DOMAIN todo /\ Head(todo) = todo[1] /\ DOMAIN todo \subseteq Nat \ {0}
  BY LenProperties, HeadTailProperties, TopOfStack DEF Quiet, ScopeInv, ExtractionInv, TypeOK
<1>2. \A i \in DOMAIN todo' : todo'[i].op \in Scoped =>
        below(i) \in DOMAIN todo /\ below(i) >= 2 /\ todo'[i] = todo[below(i)]
  <2>1. /\ todo' \in Seq(Op)
        /\ \A i \in DOMAIN todo' :
              \/ i \in DOMAIN ops /\ todo'[i] = ops[i]
              \/ below(i) \in DOMAIN todo /\ below(i) >= 2 /\ todo'[i] = todo[below(i)]
    BY <1>1, Continued
  <2> QED
    BY <2>1 DEF Quiet
<1>3. Ordered(todo)' /\ OwnBody' /\ OneResult'
  BY QuietOrder DEF Grown
<1>4. Bound(fd) \subseteq BoundNext(fd') /\ Scope(fd) \subseteq ScopeNext(fd')
  BY ScopeGrows
<1>5. Bound(fd)' = BoundNext(fd') /\ Scope(fd)' = ScopeNext(fd')
  BY ScopePrime
<1>6. BindingsOwned'
  <2> SUFFICES ASSUME NEW i \in DOMAIN todo', NEW h, todo'[i].op = "bind", todo'[i].arg = h
               PROVE  h \in Bound(fd)' \/ h \in DOMAIN dcx'
    BY DEF BindingsOwned
  <2>1. below(i) \in DOMAIN todo /\ todo'[i] = todo[below(i)]
    BY <1>2 DEF Scoped, Contextual
  <2>2. h \in Bound(fd) \/ h \in DOMAIN dcx
    BY <2>1 DEF ScopeInv, BindingsOwned
  <2> QED
    BY <1>4, <1>5, <2>2
<1>7. ContextInScope'
  <2> SUFFICES ASSUME NEW i \in DOMAIN todo', todo'[i].op \in Contextual,
                      NEW h \in DOMAIN dcx'
               PROVE  StandsInScope(h)'
    BY DEF ContextInScope
  <2>1. \E k \in DOMAIN todo : todo[k].op \in Contextual
    BY <1>2 DEF Scoped
  <2>2. CASE h \in DOMAIN dcx
    <3>1. <<h, dcx[h]>> \in Scope(fd)
      BY <2>1, <2>2 DEF ScopeInv, ContextInScope, StandsInScope
    <3>2. <<h, dcx'[h]>> \in Scope(fd)'
      BY <1>4, <1>5, <2>2, <3>1
    <3> QED
      BY <3>2 DEF StandsInScope
  <2>3. CASE h \notin DOMAIN dcx
    <3>1. /\ Head(todo).op = "bind" /\ h = Head(todo).arg
          /\ h \in DOMAIN hid_to_stid' /\ dcx'[h] = hid_to_stid'[h]
      BY <2>3
    <3>2. h \in Bound(fd)
      BY <1>1, <2>3, <3>1 DEF ScopeInv, BindingsOwned
    <3> QED
      BY <1>4, <1>5, <3>1, <3>2, ScopeNextHas DEF StandsInScope
  <2> QED
    BY <2>2, <2>3
<1>8. fd'.vars \subseteq Scope(fd)'
  <2> SUFFICES ASSUME NEW v \in fd'.vars PROVE v \in ScopeNext(fd')
    BY <1>5
  <2>1. CASE v \in fd.vars
    BY <1>4, <2>1 DEF ScopeInv
  <2>2. CASE v \notin fd.vars
    <3>1. /\ Head(todo).op = "var" /\ Head(todo).arg \in DOMAIN dcx
          /\ v = <<Head(todo).arg, dcx[Head(todo).arg]>>
      BY <2>2
    <3>2. v \in Scope(fd)
      BY <1>1, <3>1 DEF ScopeInv, ContextInScope, StandsInScope, Contextual
    <3> QED
      BY <1>4, <3>2
  <2> QED
    BY <2>1, <2>2
<1>9. UsesInScope'
  BY FinishedInScope, ScopePrime DEF ScopeInv
<1> QED
  BY <1>3, <1>6, <1>7, <1>8, <1>9 DEF ScopeInv
(* Sequences in which some operations do not occur, and in order.           *)
Lacks(s, kinds) == \A i \in DOMAIN s : s[i].op \notin kinds

(* Operations without a result or a body, put before what is left to do,     *)
(* leave the rest in order.                                                  *)
LEMMA OrderedConcat ==
  ASSUME NEW s \in Seq(Op), NEW t \in Seq(Op), Ordered(s), Ordered(t),
         \A i \in DOMAIN t, j \in DOMAIN s : ~Earlier(t[i].op, s[j].op)
  PROVE  s \o t \in Seq(Op) /\ Ordered(s \o t)
<1>1. /\ s \o t \in Seq(Op)
      /\ \A i \in DOMAIN (s \o t) :
              \/ i \in DOMAIN s /\ (s \o t)[i] = s[i]
              \/ i - Len(s) \in DOMAIN t /\ (s \o t)[i] = t[i - Len(s)]
  BY ConcatFrom
<1>2. /\ DOMAIN s = 1 .. Len(s) /\ DOMAIN t \subseteq Nat \ {0} /\ Len(s) \in Nat
      /\ DOMAIN (s \o t) \subseteq Nat
  BY <1>1, LenProperties
<1>3. ASSUME NEW i \in DOMAIN (s \o t), NEW j \in DOMAIN (s \o t),
             Earlier((s \o t)[i].op, (s \o t)[j].op)
      PROVE  i < j
  <2>1. CASE /\ i \in DOMAIN s /\ (s \o t)[i] = s[i]
             /\ j \in DOMAIN s /\ (s \o t)[j] = s[j]
    BY <1>3, <2>1 DEF Ordered
  <2>2. CASE /\ i - Len(s) \in DOMAIN t /\ (s \o t)[i] = t[i - Len(s)]
             /\ j - Len(s) \in DOMAIN t /\ (s \o t)[j] = t[j - Len(s)]
    <3>1. i - Len(s) < j - Len(s)
      BY <1>3, <2>2 DEF Ordered
    <3> QED
      BY <1>2, <3>1
  <2>3. CASE /\ i \in DOMAIN s /\ (s \o t)[i] = s[i]
             /\ j - Len(s) \in DOMAIN t /\ (s \o t)[j] = t[j - Len(s)]
    <3>1. i <= Len(s) /\ j - Len(s) > 0
      BY <1>2, <2>3
    <3> QED
      BY <1>2, <3>1
  <2>4. CASE /\ i - Len(s) \in DOMAIN t /\ (s \o t)[i] = t[i - Len(s)]
             /\ j \in DOMAIN s /\ (s \o t)[j] = s[j]
    BY <1>3, <2>4
  <2> QED
    BY <1>1, <2>1, <2>2, <2>3, <2>4
<1> QED
  BY <1>1, <1>3 DEF Ordered

(* An operation that enters a body: nothing that works on the former        *)
(* context is left.                                                         *)
LEMMA BodyStep ==
  ASSUME ScopeInv, ExtractionInv', HirKept, UNCHANGED <<crate, functions>>,
         todo # <<>>, Head(todo).op \in {"enter", "spec"},
         NEW ops \in Seq(Op), Continue(ops),
         Ordered(ops), Lacks(ops, {"enter", "spec", "ret"}),
         Grown(fd, fd'), fd'.ret = fd.ret, fd'.vars = fd.vars,
         \A i \in DOMAIN ops : ops[i].op = "bind" =>
           ops[i].arg \in BoundNext(fd') \/ ops[i].arg \in DOMAIN dcx',
         \A h \in DOMAIN dcx' : <<h, dcx'[h]>> \in ScopeNext(fd')
  PROVE  ScopeInv'
<1> DEFINE below(i) == i - Len(ops) + 1
<1>1. /\ todo \in Seq(Op) /\ Len(ops) \in Nat
      /\ 1 \in DOMAIN todo /\ Head(todo) = todo[1] /\ DOMAIN todo \subseteq Nat \ {0}
      /\ DOMAIN ops = 1 .. Len(ops)
  BY LenProperties, HeadTailProperties, TopOfStack DEF ScopeInv, ExtractionInv, TypeOK
<1>2. /\ todo' \in Seq(Op)
      /\ \A i \in DOMAIN todo' :
           \/ i \in DOMAIN ops /\ todo'[i] = ops[i]
           \/ /\ below(i) \in DOMAIN todo /\ below(i) >= 2 /\ i \notin DOMAIN ops
              /\ todo'[i] = todo[below(i)]
  BY <1>1, Continued
<1>3. DOMAIN todo' \subseteq Nat \ {0}
  BY <1>2, LenProperties
<1>4. ASSUME NEW k \in DOMAIN todo, k >= 2 PROVE todo[k].op \notin Contextual
  BY <1>1, <1>4 DEF ScopeInv, Ordered, Earlier, Contextual
<1>5. \A i \in DOMAIN ops : i \in DOMAIN todo' /\ todo'[i] = ops[i]
  <2>1. Tail(todo) \in Seq(Op)
    BY <1>1, HeadTailProperties
  <2> QED
    BY <2>1, ConcatFrom DEF Continue
<1>6. Bound(fd)' = BoundNext(fd') /\ Scope(fd)' = ScopeNext(fd')
  BY ScopePrime
<1>7. Ordered(todo)'
  <2> SUFFICES ASSUME NEW i \in DOMAIN todo', NEW j \in DOMAIN todo',
                      Earlier(todo'[i].op, todo'[j].op)
               PROVE  i < j
    BY DEF Ordered
  <2>1. todo'[i].op \in Contextual
    BY DEF Earlier, Contextual
  <2>2. i \in DOMAIN ops /\ todo'[i] = ops[i]
    BY <1>2, <1>4, <2>1
  <2>3. CASE j \in DOMAIN ops
    BY <1>5, <2>2, <2>3 DEF Ordered
  <2>4. CASE j \notin DOMAIN ops
    BY <1>1, <1>3, <2>2, <2>4
  <2> QED
    BY <2>3, <2>4
<1>8. OwnBody'
  BY <1>2 DEF OwnBody, ScopeInv, Lacks, Grown
<1>9. OneResult'
  <2>1. \A i \in DOMAIN todo' : todo'[i].op = "ret" =>
          below(i) \in DOMAIN todo /\ todo[below(i)].op = "ret"
    BY <1>2 DEF Lacks
  <2>2. ASSUME NEW i \in DOMAIN todo', NEW j \in DOMAIN todo',
               todo'[i].op = "ret", todo'[j].op = "ret"
        PROVE  i = j
    <3>1. below(i) = below(j)
      BY <2>1, <2>2 DEF ScopeInv, OneResult
    <3> QED
      BY <1>1, <1>3, <3>1
  <2>3. (\E i \in DOMAIN todo' : todo'[i].op = "ret") => fd'.ret = <<>>
    BY <2>1 DEF ScopeInv, OneResult
  <2> QED
    BY <2>2, <2>3 DEF OneResult
<1>10. BindingsOwned'
  <2> SUFFICES ASSUME NEW i \in DOMAIN todo', NEW h, todo'[i].op = "bind", todo'[i].arg = h
               PROVE  h \in Bound(fd)' \/ h \in DOMAIN dcx'
    BY DEF BindingsOwned
  <2>1. i \in DOMAIN ops /\ todo'[i] = ops[i]
    BY <1>2, <1>4 DEF Contextual
  <2> QED
    BY <1>6, <2>1
<1>11. ContextInScope'
  <2> SUFFICES ASSUME NEW h \in DOMAIN dcx' PROVE StandsInScope(h)'
    BY DEF ContextInScope
  <2> QED
    BY <1>6 DEF StandsInScope
<1>12. fd'.vars \subseteq Scope(fd)'
  BY <1>6, ScopeGrows DEF ScopeInv
<1>13. UsesInScope'
  BY FinishedInScope, ScopePrime DEF ScopeInv
<1> QED
  BY <1>7, <1>8, <1>9, <1>10, <1>11, <1>12, <1>13 DEF ScopeInv
(* Sequences that have nothing to do with a context: concatenations, ...    *)
LEMMA QuietConcat ==
  ASSUME NEW s, NEW t, Quiet(s), Quiet(t)
  PROVE  Quiet(s \o t)
<1>1. s \in Seq(Op) /\ t \in Seq(Op)
  BY DEF Quiet
<1>2. /\ s \o t \in Seq(Op)
      /\ \A i \in DOMAIN (s \o t) :
              \/ i \in DOMAIN s /\ (s \o t)[i] = s[i]
              \/ i - Len(s) \in DOMAIN t /\ (s \o t)[i] = t[i - Len(s)]
  BY <1>1, ConcatFrom
<1> QED
  BY <1>2 DEF Quiet

(* ... operations on definitions, ...                                       *)
LEMMA QuietDefs ==
  ASSUME NEW kind \in DefOps \ Scoped, NEW args \in Seq(DefIds)
  PROVE  Quiet(Ops(kind, args))
<1>1. /\ Ops(kind, args) \in Seq(Op) /\ DOMAIN Ops(kind, args) = DOMAIN args
      /\ \A i \in DOMAIN args : Ops(kind, args)[i].op = kind
  BY DefOpsType
<1> QED
  BY <1>1 DEF Quiet

(* ... what extract_generics and extract_adt do, ...                        *)
LEMMA QuietAdt ==
  ASSUME crate \in Crates, NEW d \in DefIds
  PROVE  Quiet(GenericsOps(d)) /\ Quiet(AdtOps(d)) /\ Quiet(<<>>)
<1>1. /\ Quiet(Ops("reg", crate.tparams[d])) /\ Quiet(Ops("type", crate.bounds[d]))
      /\ Quiet(Ops("variant", crate.variants[d]))
  BY CrateTypes, QuietDefs DEF DefOps, Scoped, Contextual
<1>2. Quiet(GenericsOps(d))
  BY <1>1, QuietConcat DEF GenericsOps
<1>3. Quiet(One("sort", d))
  BY OneType DEF DefOps, Quiet, Scoped, Contextual
<1>4. Quiet(GenericsOps(d) \o Ops("variant", crate.variants[d]))
  BY <1>1, <1>2, QuietConcat
<1>5. Quiet(AdtOps(d))
  <2>1. PICK front, last :
          /\ front = GenericsOps(d) \o Ops("variant", crate.variants[d])
          /\ last = One("sort", d)
    OBVIOUS
  <2>2. Quiet(front \o last)
    BY <1>3, <1>4, <2>1, QuietConcat
  <2> QED
    BY <2>1, <2>2 DEF AdtOps
<1> QED
  BY <1>2, <1>5 DEF Quiet

(* The operations on types and calls, and those that report something.      *)
UnscopedStep ==
  \/ TypeParameter \/ MentionType \/ ExtractAdt \/ Constructor \/ Field
  \/ SortBuilt \/ AddAdt \/ Call \/ KnownBinding \/ Unsupported

(* What they put before the rest concerns no function.                      *)
LEMMA UnscopedOps ==
  ASSUME ExtractionInv, UnscopedStep
  PROVE  /\ UNCHANGED <<dcx, fd, functions>> /\ todo # <<>>
         /\ Head(todo).op \notin {"param", "var", "ret", "input", "enter"}
         /\ \E ops : Quiet(ops) /\ Continue(ops)
<1>0. /\ UNCHANGED <<dcx, fd, functions>> /\ todo # <<>>
      /\ Head(todo).op \notin {"param", "var", "ret", "input", "enter"}
  BY DEF UnscopedStep, TypeParameter, MentionType, ExtractAdt, Constructor, Field, SortBuilt, AddAdt,
    Call, KnownBinding, Unsupported, Execute, output_vars
<1> SUFFICES \E ops : Quiet(ops) /\ Continue(ops)
  BY <1>0
<1>1. crate \in Crates
  BY DEF ExtractionInv, TypeOK
<1>2. PICK d : d = Head(todo).arg
  OBVIOUS
<1>3. Quiet(<<>>)
  BY DEF Quiet
<1>4. CASE \/ TypeParameter \/ SortBuilt \/ AddAdt \/ Call \/ KnownBinding \/ Unsupported
  <2>1. Continue(<<>>)
    BY <1>4 DEF TypeParameter, SortBuilt, AddAdt, Call, KnownBinding, Unsupported
  <2> QED
    BY <1>3, <2>1
<1>5. CASE MentionType \/ ExtractAdt
  <2>1. d \in DefIds /\ Continue(IF IsRegistered(d) THEN <<>> ELSE AdtOps(d))
    BY <1>1, <1>2, <1>5, TopArg DEF MentionType, ExtractAdt, DefOps
  <2> QED
    BY <1>1, <1>3, <2>1, QuietAdt
<1>6. CASE Constructor
  <2>1. d \in DefIds /\ Continue(Ops("field", crate.fields[d]))
    BY <1>1, <1>2, <1>6, TopArg DEF Constructor, DefOps
  <2>2. Quiet(Ops("field", crate.fields[d]))
    BY <1>1, <2>1, CrateTypes, QuietDefs DEF DefOps, Scoped, Contextual
  <2> QED
    BY <2>1, <2>2
<1>7. CASE Field
  <2>1. d \in DefIds /\ Continue(Ops("type", crate.types[d]))
    BY <1>1, <1>2, <1>7, TopArg DEF Field, DefOps
  <2>2. Quiet(Ops("type", crate.types[d]))
    BY <1>1, <2>1, CrateTypes, QuietDefs DEF DefOps, Scoped, Contextual
  <2> QED
    BY <2>1, <2>2
<1> QED
  BY <1>4, <1>5, <1>6, <1>7 DEF UnscopedStep

(* They keep the scopes: extract_adt_id, extract_fn_ref.                     *)
LEMMA UnscopedScope ==
  ASSUME ScopeInv, ExtractionInv', HirKept, crate' = crate, UnscopedStep
  PROVE  ScopeInv'
<1>1. ExtractionInv
  BY DEF ScopeInv
<1>2. /\ UNCHANGED <<dcx, fd, functions>> /\ todo # <<>>
      /\ Head(todo).op \notin {"param", "var", "ret"}
      /\ \E ops : Quiet(ops) /\ Continue(ops)
  BY <1>1, UnscopedOps
<1>3. Grown(fd, fd')
  BY <1>2 DEF Grown
<1> QED
  BY <1>2, <1>3, QuietStep

(* A new binding.                                                           *)
LEMMA NewBindingScope ==
  ASSUME ScopeInv, ExtractionInv', HirKept, crate' = crate, NewBinding
  PROVE  ScopeInv'
<1>1. PICK h, ops : h = Head(todo).arg /\ ops = Ops("type", crate.hir_types[h])
  OBVIOUS
<1>2. /\ h \in HirIds /\ Continue(ops) /\ todo # <<>> /\ Head(todo).op = "bind"
      /\ h \notin DOMAIN dcx /\ h \in DOMAIN hid_to_stid'
      /\ dcx' = Insert(dcx, h, hid_to_stid'[h])
      /\ UNCHANGED <<fd, functions>>
  BY <1>1, TopArg DEF NewBinding, HirOps, ScopeInv, RegisterHir, Insert, output_vars
<1>3. Quiet(ops)
  <2>1. crate \in Crates
    BY DEF ScopeInv, ExtractionInv, TypeOK
  <2> QED
    BY <1>1, <1>2, <2>1, BindingTypes, QuietDefs DEF DefOps, Scoped, Contextual
<1>4. /\ DOMAIN dcx \subseteq DOMAIN dcx' /\ \A x \in DOMAIN dcx : dcx'[x] = dcx[x]
      /\ \A x \in DOMAIN dcx' \ DOMAIN dcx : x = h /\ dcx'[x] = hid_to_stid'[x]
  BY <1>2 DEF Insert
<1>5. Grown(fd, fd')
  BY <1>2 DEF Grown
<1> QED
  BY <1>1, <1>2, <1>3, <1>4, <1>5, QuietStep

(* What is appended is in the range.                                        *)
LEMMA RangeAppend ==
  ASSUME NEW S, NEW s \in Seq(S), NEW x \in S
  PROVE  Range(Append(s, x)) = Range(s) \cup {x}
<1>1. /\ Len(s) \in Nat /\ DOMAIN s = 1 .. Len(s)
      /\ DOMAIN Append(s, x) = 1 .. Len(s) + 1
      /\ \A i \in 1 .. Len(s) : Append(s, x)[i] = s[i]
      /\ Append(s, x)[Len(s) + 1] = x
  BY AppendProperties, LenProperties
<1> QED
  BY <1>1 DEF Range

(* What is appended leaves the rest where it is.                            *)
LEMMA AppendKeeps ==
  ASSUME NEW S, NEW s \in Seq(S), NEW x \in S
  PROVE  \A i \in DOMAIN s : i \in DOMAIN Append(s, x) /\ Append(s, x)[i] = s[i]
<1>1. /\ Len(s) \in Nat /\ DOMAIN s = 1 .. Len(s)
      /\ DOMAIN Append(s, x) = 1 .. Len(s) + 1
      /\ \A i \in 1 .. Len(s) : Append(s, x)[i] = s[i]
  BY AppendProperties, LenProperties
<1> QED
  BY <1>1

(* Parameters, uses, the result variable and inputs.                        *)
LEMMA VariableScope ==
  ASSUME ScopeInv, ExtractionInv', HirKept, crate' = crate,
         Parameter \/ VarRef \/ ReturnVar
  PROVE  ScopeInv'
<1>1. Quiet(<<>>) /\ todo # <<>> /\ Continue(<<>>) /\ UNCHANGED <<dcx, functions>>
  BY DEF Quiet, Parameter, VarRef, ReturnVar, Execute, output_vars
<1>2. ExtractionInv /\ 1 \in DOMAIN todo /\ Head(todo) = todo[1]
  BY <1>1, TopOfStack DEF ScopeInv
<1>3. /\ fd \in FunDef /\ fd.params \in Seq(SymbolId)
      /\ Head(todo).op \in {"param", "var"} => Head(todo).arg \in DOMAIN dcx
      /\ \A h \in DOMAIN dcx : dcx[h] \in SymbolId
  <2>1. fd \in FunDef
    BY <1>2, TopArg DEF Parameter, VarRef, ReturnVar, FnOps
  <2>2. Failure(Head(todo)) = "none"
    BY DEF Parameter, VarRef, ReturnVar, Execute
  <2> QED
    BY <1>2, <2>1, <2>2, FunDefType, FailureCases DEF ExtractionInv, TypeOK
<1>4. CASE Parameter
  <2>1. PICK v : v = dcx[Head(todo).arg]
    OBVIOUS
  <2>2. /\ v \in SymbolId /\ Head(todo).op = "param"
        /\ fd' = [fd EXCEPT !.params = Append(fd.params, v)]
    BY <1>3, <1>4, <2>1 DEF Parameter, Execute
  <2>3. /\ fd'.def = fd.def /\ fd'.params = Append(fd.params, v) /\ fd'.ret = fd.ret
        /\ fd'.vars = fd.vars /\ OwnSpecs(fd') = OwnSpecs(fd) /\ fd'.post = fd.post
    BY <1>3, <2>2 DEF FunDef, OwnSpecs
  <2>4. Grown(fd, fd')
    BY <1>3, <2>2, <2>3, AppendKeeps DEF Grown
  <2> QED
    BY <1>1, <2>2, <2>3, <2>4, QuietStep
<1>5. CASE VarRef
  <2> DEFINE v == <<Head(todo).arg, dcx[Head(todo).arg]>>
  <2>1. /\ Head(todo).op = "var"
        /\ fd' = [fd EXCEPT !.vars = fd.vars \cup {v}]
    BY <1>5 DEF VarRef, Execute
  <2>2. /\ fd'.def = fd.def /\ fd'.params = fd.params /\ fd'.ret = fd.ret
        /\ fd'.vars = fd.vars \cup {v} /\ OwnSpecs(fd') = OwnSpecs(fd) /\ fd'.post = fd.post
    BY <1>3, <2>1 DEF FunDef, OwnSpecs
  <2>3. Grown(fd, fd')
    BY <2>2 DEF Grown
  <2> QED
    BY <1>1, <1>3, <2>1, <2>2, <2>3, QuietStep
<1>6. CASE ReturnVar
  <2>1. /\ Head(todo).op = "ret"
        /\ fd' = [fd EXCEPT !.ret = <<FreshId(RetName)>>]
    BY <1>6 DEF ReturnVar, Execute
  <2>2. /\ fd'.def = fd.def /\ fd'.params = fd.params
        /\ fd'.vars = fd.vars /\ OwnSpecs(fd') = OwnSpecs(fd) /\ fd'.post = fd.post
    BY <1>3, <2>1 DEF FunDef, OwnSpecs
  <2>3. Range(fd.ret) = {}
    BY <1>2, <2>1 DEF ScopeInv, OneResult, Range
  <2>4. Grown(fd, fd')
    BY <2>2, <2>3 DEF Grown
  <2> QED
    BY <1>1, <2>1, <2>2, <2>4, QuietStep
<1> QED
  BY <1>4, <1>5, <1>6

(* An input of a stub.                                                      *)
LEMMA StubInputScope ==
  ASSUME ScopeInv, ExtractionInv', HirKept, crate' = crate, StubInput
  PROVE  ScopeInv'
<1>1. PICK i, v, ops : /\ i = Head(todo).arg /\ v = FreshId(ParamNames[i])
                       /\ ops = Ops("type", crate.inputs[fd.def][i])
  OBVIOUS
<1>2. /\ ExtractionInv /\ todo # <<>> /\ Head(todo).op = "input" /\ Continue(ops)
      /\ UNCHANGED <<dcx, functions>> /\ fd \in FunDef
      /\ fd' = [fd EXCEPT !.params = Append(fd.params, v)]
  BY <1>1, TopArg DEF StubInput, Execute, output_vars, ScopeInv, FnOps
<1>3. i \in DOMAIN crate.inputs[fd.def]
  BY <1>1, <1>2, TopOfStack DEF ExtractionInv, StackOK, InputsInRange
<1>4. crate.inputs[fd.def] \in Seq(Seq(DefIds)) /\ fd.params \in Seq(SymbolId)
  BY <1>2, CrateTypes, FunDefType DEF ExtractionInv, TypeOK
<1>5. crate.inputs[fd.def][i] \in Seq(DefIds)
  BY <1>3, <1>4, LenProperties
<1>6. Quiet(ops)
  BY <1>1, <1>5, QuietDefs DEF DefOps, Scoped, Contextual
<1>7. /\ fd'.def = fd.def /\ fd'.params = Append(fd.params, v) /\ fd'.ret = fd.ret
      /\ fd'.vars = fd.vars /\ OwnSpecs(fd') = OwnSpecs(fd) /\ fd'.post = fd.post
  BY <1>2 DEF FunDef, OwnSpecs
<1>8. \A k \in DOMAIN fd.params : k \in DOMAIN fd'.params /\ fd'.params[k] = fd.params[k]
  <2>1. /\ Len(fd.params) \in Nat /\ DOMAIN fd.params = 1 .. Len(fd.params)
        /\ DOMAIN Append(fd.params, v) = 1 .. Len(fd.params) + 1
        /\ \A k \in 1 .. Len(fd.params) : Append(fd.params, v)[k] = fd.params[k]
    BY <1>4, LenProperties
  <2> QED
    BY <1>7, <2>1
<1>9. Grown(fd, fd')
  BY <1>7, <1>8 DEF Grown
<1> QED
  BY <1>2, <1>6, <1>7, <1>9, QuietStep
(* The operations on bindings: only those, one for each binding.            *)
LEMMA BindingOpsAre ==
  ASSUME crate \in Crates, NEW g \in DefIds
  PROVE  /\ BindingOps(g) \in Seq(Op)
         /\ \A i \in DOMAIN BindingOps(g) :
              /\ BindingOps(g)[i].op = "bind"
              /\ BindingOps(g)[i].arg \in Range(crate.params[g]) \cup Range(crate.locals[g])
<1> DEFINE own == Range(crate.params[g]) \cup Range(crate.locals[g])
           Of(s) == s \in Seq(Op) /\ \A i \in DOMAIN s : s[i].op = "bind" /\ s[i].arg \in own
<1>1. ASSUME NEW s, NEW t, Of(s), Of(t) PROVE Of(s \o t)
  <2>1. s \in Seq(Op) /\ t \in Seq(Op)
    BY <1>1
  <2>2. /\ s \o t \in Seq(Op)
        /\ \A i \in DOMAIN (s \o t) :
              \/ i \in DOMAIN s /\ (s \o t)[i] = s[i]
              \/ i - Len(s) \in DOMAIN t /\ (s \o t)[i] = t[i - Len(s)]
    BY <2>1, ConcatFrom
  <2> QED
    BY <1>1, <2>2
<1>2. ASSUME NEW args \in Seq(HirIds), Range(args) \subseteq own
      PROVE  Of(Ops("bind", args))
  <2>1. /\ Ops("bind", args) \in Seq(Op) /\ DOMAIN Ops("bind", args) = DOMAIN args
        /\ \A i \in DOMAIN args : /\ Ops("bind", args)[i].op = "bind"
                                  /\ Ops("bind", args)[i].arg = args[i]
    BY HirOpsType DEF HirOps
  <2> QED
    BY <1>2, <2>1 DEF Range
<1>3. Of(Ops("bind", crate.params[g])) /\ Of(Ops("bind", crate.locals[g]))
  <2>1. crate.params[g] \in Seq(HirIds) /\ crate.locals[g] \in Seq(HirIds)
    BY CrateTypes
  <2> HIDE DEF Of
  <2> QED
    BY <1>2, <2>1
<1>4. Of(BindingOps(g))
  <2> HIDE DEF Of
  <2> QED
    BY <1>1, <1>3 DEF BindingOps, Collected
<1> QED
  BY <1>4

(* A body: no binding, parameter or other body in it.                       *)
LEMMA BodyOpsAre ==
  ASSUME crate \in Crates, NEW g \in DefIds
  PROVE  /\ crate.body[g] \in Seq(Op)
         /\ Lacks(crate.body[g], {"bind", "param", "enter", "spec", "ret"})
<1>1. crate.body[g] \in Seq(BodyOp)
  BY CrateTypes
<1>2. \A i \in DOMAIN crate.body[g] : crate.body[g][i] \in BodyOp
  BY <1>1, LenProperties
<1> QED
  BY <1>1, <1>2, PushedBody DEF Pushed, Lacks, BodyOp

(* The body of the function.                                                *)
LEMMA EnterBodyScope ==
  ASSUME ScopeInv, ExtractionInv', HirKept, crate' = crate, EnterBody
  PROVE  ScopeInv'
<1>1. PICK g, binds, types, params, body :
        /\ g = Head(todo).arg /\ binds = BindingOps(g)
        /\ types = Ops("type", crate.types[g]) /\ params = Ops("param", crate.params[g])
        /\ body = crate.body[g]
  OBVIOUS
<1>2. /\ ExtractionInv /\ crate \in Crates /\ todo # <<>> /\ Head(todo).op = "enter"
      /\ g \in DefIds /\ Continue(binds \o types \o params \o body)
      /\ UNCHANGED <<fd, functions>> /\ DOMAIN dcx' = {}
  BY <1>1, TopArg DEF EnterBody, Execute, output_vars, DefOps, ScopeInv, ExtractionInv, TypeOK
<1>3. /\ binds \in Seq(Op) /\ \A i \in DOMAIN binds : binds[i].op = "bind"
      /\ types \in Seq(Op) /\ \A i \in DOMAIN types : types[i].op = "type"
      /\ params \in Seq(Op) /\ \A i \in DOMAIN params : params[i].op = "param"
      /\ body \in Seq(Op) /\ Lacks(body, {"bind", "param", "enter", "spec", "ret"})
  BY <1>1, <1>2, CrateTypes, BindingOpsAre, BodyOpsAre, DefOpsType, HirOpsType
  DEF DefOps, HirOps
<1>4. PICK front, upper, ops :
        front = binds \o types /\ upper = front \o params /\ ops = upper \o body
  OBVIOUS
<1>5. /\ front \in Seq(Op) /\ Ordered(front)
      /\ \A i \in DOMAIN front : front[i].op \in {"bind", "type"}
      /\ \A i \in DOMAIN binds : i \in DOMAIN front /\ front[i] = binds[i]
      /\ \A i \in DOMAIN front : front[i].op = "bind" =>
           i \in DOMAIN binds /\ front[i] = binds[i]
  <2>1. Ordered(binds) /\ Ordered(types)
    BY <1>3 DEF Ordered, Earlier
  <2>2. \A i \in DOMAIN types, j \in DOMAIN binds : ~Earlier(types[i].op, binds[j].op)
    BY <1>3 DEF Earlier
  <2>3. front \in Seq(Op) /\ Ordered(front)
    BY <1>3, <1>4, <2>1, <2>2, OrderedConcat
  <2>4. binds \in Seq(Op) /\ types \in Seq(Op)
    BY <1>3
  <2>5. /\ \A i \in DOMAIN (binds \o types) :
              \/ i \in DOMAIN binds /\ (binds \o types)[i] = binds[i]
              \/ i - Len(binds) \in DOMAIN types /\ (binds \o types)[i] = types[i - Len(binds)]
        /\ \A i \in DOMAIN binds :
             i \in DOMAIN (binds \o types) /\ (binds \o types)[i] = binds[i]
    BY <2>4, ConcatFrom
  <2> QED
    BY <1>3, <1>4, <2>3, <2>5
<1>6. /\ upper \in Seq(Op) /\ Ordered(upper)
      /\ \A i \in DOMAIN upper : upper[i].op \in {"bind", "type", "param"}
      /\ \A i \in DOMAIN upper : upper[i].op = "bind" =>
           \E j \in DOMAIN binds : upper[i] = binds[j]
  <2>1. Ordered(params)
    BY <1>3 DEF Ordered, Earlier
  <2>2. \A i \in DOMAIN params, j \in DOMAIN front : ~Earlier(params[i].op, front[j].op)
    BY <1>3, <1>5 DEF Earlier
  <2>3. upper \in Seq(Op) /\ Ordered(upper)
    BY <1>3, <1>4, <1>5, <2>1, <2>2, OrderedConcat
  <2>4. front \in Seq(Op) /\ params \in Seq(Op)
    BY <1>3, <1>5
  <2>5. /\ \A i \in DOMAIN (front \o params) :
              \/ i \in DOMAIN front /\ (front \o params)[i] = front[i]
              \/ i - Len(front) \in DOMAIN params /\ (front \o params)[i] = params[i - Len(front)]
    BY <2>4, ConcatFrom
  <2>6. \A i \in DOMAIN upper :
          \/ i \in DOMAIN front /\ upper[i] = front[i]
          \/ \E j \in DOMAIN params : upper[i] = params[j]
    BY <1>4, <2>5
  <2>7. \A i \in DOMAIN upper : upper[i].op = "bind" =>
          \E j \in DOMAIN binds : upper[i] = binds[j]
    BY <1>3, <1>5, <2>6
  <2>8. \A i \in DOMAIN upper : upper[i].op \in {"bind", "type", "param"}
    BY <1>3, <1>5, <2>6
  <2> QED
    BY <2>3, <2>7, <2>8
<1>7. /\ ops \in Seq(Op) /\ Ordered(ops) /\ Lacks(ops, {"enter", "spec", "ret"})
      /\ \A i \in DOMAIN ops : ops[i].op = "bind" =>
           \E j \in DOMAIN binds : ops[i] = binds[j]
  <2>1. Ordered(body)
    BY <1>3 DEF Ordered, Earlier, Lacks
  <2>2. \A i \in DOMAIN body, j \in DOMAIN upper : ~Earlier(body[i].op, upper[j].op)
    BY <1>3, <1>6 DEF Earlier, Lacks
  <2>3. ops \in Seq(Op) /\ Ordered(ops)
    BY <1>3, <1>4, <1>6, <2>1, <2>2, OrderedConcat
  <2>4. upper \in Seq(Op) /\ body \in Seq(Op)
    BY <1>3, <1>6
  <2>5. /\ \A i \in DOMAIN (upper \o body) :
              \/ i \in DOMAIN upper /\ (upper \o body)[i] = upper[i]
              \/ i - Len(upper) \in DOMAIN body /\ (upper \o body)[i] = body[i - Len(upper)]
    BY <2>4, ConcatFrom
  <2>6. \A i \in DOMAIN ops :
          \/ i \in DOMAIN upper /\ ops[i] = upper[i]
          \/ \E j \in DOMAIN body : ops[i] = body[j]
    BY <1>4, <2>5
  <2>7. Lacks(ops, {"enter", "spec", "ret"})
    <3>1. \A j \in DOMAIN body : body[j].op \notin {"enter", "spec", "ret"}
      BY <1>3 DEF Lacks
    <3>2. \A j \in DOMAIN upper : upper[j].op \notin {"enter", "spec", "ret"}
      BY <1>6
    <3>3. \A i \in DOMAIN ops : ops[i].op \notin {"enter", "spec", "ret"}
      BY <2>6, <3>1, <3>2
    <3> QED
      BY <3>3 DEF Lacks
  <2>8. ASSUME NEW i \in DOMAIN ops, ops[i].op = "bind"
        PROVE  \E j \in DOMAIN binds : ops[i] = binds[j]
    <3>1. \A j \in DOMAIN body : body[j].op # "bind"
      BY <1>3 DEF Lacks
    <3>2. i \in DOMAIN upper /\ ops[i] = upper[i]
      BY <2>6, <2>8, <3>1
    <3> QED
      BY <1>6, <2>8, <3>2
  <2> QED
    BY <2>3, <2>7, <2>8
<1>8. fd.def = g
  BY <1>1, <1>2, TopOfStack DEF ScopeInv, OwnBody
<1>9. ASSUME NEW i \in DOMAIN ops, ops[i].op = "bind"
      PROVE  ops[i].arg \in BoundNext(fd')
  <2>1. ops[i].arg \in Range(crate.params[g]) \cup Range(crate.locals[g])
    BY <1>1, <1>2, <1>7, <1>9, BindingOpsAre
  <2> QED
    BY <1>2, <1>8, <2>1 DEF BoundNext
<1>10. Grown(fd, fd') /\ fd'.ret = fd.ret /\ fd'.vars = fd.vars
  BY <1>2 DEF Grown
<1>11. Continue(ops)
  BY <1>2, <1>4
<1>12. /\ ops \in Seq(Op) /\ Ordered(ops) /\ Lacks(ops, {"enter", "spec", "ret"})
       /\ UNCHANGED <<crate, functions>> /\ todo # <<>> /\ Head(todo).op = "enter"
       /\ \A h \in DOMAIN dcx' : <<h, dcx'[h]>> \in ScopeNext(fd')
  BY <1>2, <1>7
<1> QED
  BY <1>9, <1>10, <1>11, <1>12, BodyStep

(* The context of a spec function is made of the variables of the function  *)
(* specified, knows all its parameters, and each of them for the parameter  *)
(* in its position, but for the last of a postcondition, which is the result.*)
LEMMA SharedScope ==
  ASSUME crate \in Crates, fd \in FunDef, NEW s \in DefIds,
         Len(SharedParams(s)) = Len(fd.params),
         crate.spec_type[s] = "post" => crate.params[s] # <<>> /\ fd.ret # <<>>
  PROVE  /\ Range(crate.params[s]) \subseteq DOMAIN SharedContext(s)
         /\ \A h \in DOMAIN SharedContext(s) :
              \/ \E i \in DOMAIN crate.params[s] \cap DOMAIN fd.params :
                   h = crate.params[s][i] /\ SharedContext(s)[h] = fd.params[i]
              \/ /\ crate.spec_type[s] = "post"
                 /\ h = crate.params[s][Len(crate.params[s])]
                 /\ SharedContext(s)[h] \in Range(fd.ret)
<1> DEFINE shared == SharedParams(s)
           last == crate.params[s][Len(crate.params[s])]
           ret == IF crate.spec_type[s] = "post" THEN {last} ELSE {}
           named == {shared[i] : i \in DOMAIN shared}
           at(h) == CHOOSE i \in DOMAIN shared : shared[i] = h
           var(h) == IF h \in ret THEN fd.ret[1] ELSE fd.params[at(h)]
<1>1. shared \in Seq(HirIds) /\ DOMAIN shared = 1 .. Len(fd.params)
  BY SharedParamsType, LenProperties
<1>2. /\ fd.params \in Seq(SymbolId) /\ fd.ret \in Seq(SymbolId)
      /\ DOMAIN fd.params = 1 .. Len(fd.params)
      /\ fd.ret # <<>> => 1 \in DOMAIN fd.ret
  BY FunDefType, LenProperties, EmptySeq
<1>3. /\ crate.params[s] \in Seq(HirIds) /\ Len(crate.params[s]) \in Nat
      /\ DOMAIN crate.params[s] = 1 .. Len(crate.params[s])
  BY CrateTypes, LenProperties
<1>4. \A i \in DOMAIN shared : i \in DOMAIN crate.params[s] /\ shared[i] = crate.params[s][i]
  <2>1. CASE crate.spec_type[s] = "post" /\ crate.params[s] # <<>>
    <3>1. shared = SubSeq(crate.params[s], 1, Len(crate.params[s]) - 1)
      BY <2>1 DEF SharedParams
    <3>2. Len(crate.params[s]) # 0
      BY <1>3, <2>1, EmptySeq
    <3>3. /\ DOMAIN shared = 1 .. Len(crate.params[s]) - 1
          /\ \A i \in 1 .. Len(crate.params[s]) - 1 : shared[i] = crate.params[s][i]
      BY <1>3, <3>1, <3>2
    <3> QED
      BY <1>3, <3>3
  <2>2. CASE ~(crate.spec_type[s] = "post" /\ crate.params[s] # <<>>)
    BY <2>2 DEF SharedParams
  <2> QED
    BY <2>1, <2>2
<1>5. Range(crate.params[s]) \subseteq named \cup ret
  <2>1. CASE crate.spec_type[s] = "post"
    <3>1. shared = SubSeq(crate.params[s], 1, Len(crate.params[s]) - 1)
      BY <2>1 DEF SharedParams
    <3>2. Len(crate.params[s]) # 0
      BY <1>3, <2>1, EmptySeq
    <3>3. DOMAIN shared = 1 .. Len(crate.params[s]) - 1
      BY <1>3, <3>1, <3>2
    <3>4. ASSUME NEW i \in DOMAIN crate.params[s]
          PROVE  crate.params[s][i] \in named \cup ret
      <4>1. CASE i = Len(crate.params[s])
        BY <2>1, <4>1
      <4>2. CASE i \in 1 .. Len(crate.params[s]) - 1
        BY <1>4, <3>3, <4>2
      <4> QED
        BY <1>3, <4>1, <4>2
    <3> QED
      BY <3>4 DEF Range
  <2>2. CASE crate.spec_type[s] # "post"
    BY <2>2 DEF SharedParams, Range
  <2> QED
    BY <2>1, <2>2
<1>6. ASSUME NEW h \in named \cup ret
      PROVE  \/ \E i \in DOMAIN crate.params[s] \cap DOMAIN fd.params :
                  h = crate.params[s][i] /\ var(h) = fd.params[i]
             \/ crate.spec_type[s] = "post" /\ h = last /\ var(h) \in Range(fd.ret)
  <2>1. CASE h \in ret
    BY <1>2, <2>1 DEF Range
  <2>2. CASE h \notin ret
    <3>1. \E i \in DOMAIN shared : shared[i] = h
      BY <1>6, <2>2
    <3>2. at(h) \in DOMAIN shared /\ shared[at(h)] = h
      BY <3>1
    <3>3. at(h) \in DOMAIN crate.params[s] \cap DOMAIN fd.params /\ h = crate.params[s][at(h)]
      BY <1>1, <1>2, <1>4, <3>2
    <3> QED
      BY <2>2, <3>3
  <2> QED
    BY <2>1, <2>2
<1>7. SharedContext(s) = [h \in named \cup ret |-> var(h)]
  BY DEF SharedContext
<1> HIDE DEF named, ret, var, last
<1>8. DOMAIN SharedContext(s) = named \cup ret /\ \A h \in named \cup ret : SharedContext(s)[h] = var(h)
  BY <1>7
<1> QED
  BY <1>5, <1>6, <1>8 DEF last
(* A spec function.                                                         *)
LEMMA ExtractSpecScope ==
  ASSUME ScopeInv, ExtractionInv', HirKept, crate' = crate, ExtractSpec
  PROVE  ScopeInv'
<1>1. PICK s, binds, body :
        s = Head(todo).arg /\ binds = BindingOps(s) /\ body = crate.body[s]
  OBVIOUS
<1>2. /\ ExtractionInv /\ crate \in Crates /\ todo # <<>> /\ Head(todo).op = "spec"
      /\ s \in DefIds /\ Continue(binds \o body) /\ functions' = functions
      /\ dcx' = SharedContext(s) /\ fd' = AttachSpec(s) /\ fd \in FunDef
      /\ Len(SharedParams(s)) = Len(fd.params)
      /\ crate.spec_type[s] = "post" => crate.params[s] # <<>>
  BY <1>1, TopArg, FailureCases
  DEF ExtractSpec, Execute, output_vars, DefOps, FnOps, ScopeInv, ExtractionInv, TypeOK
<1>3. crate.spec_type[s] \in SpecTypes /\ (crate.spec_type[s] = "post" => fd.ret # <<>>)
  BY <1>1, <1>2, TopOfStack DEF ExtractionInv, StackOK, SpecsByType, ResultFirst
<1>4. /\ binds \in Seq(Op) /\ \A i \in DOMAIN binds : binds[i].op = "bind"
      /\ body \in Seq(Op) /\ Lacks(body, {"bind", "param", "enter", "spec", "ret"})
      /\ \A i \in DOMAIN binds :
           binds[i].arg \in Range(crate.params[s]) \cup Range(crate.locals[s])
  BY <1>1, <1>2, BindingOpsAre, BodyOpsAre
<1>5. PICK ops : ops = binds \o body
  OBVIOUS
<1>6. ops \in Seq(Op) /\ Ordered(ops)
  <2>1. Ordered(binds) /\ Ordered(body)
    BY <1>4 DEF Ordered, Earlier, Lacks
  <2>2. \A i \in DOMAIN body, j \in DOMAIN binds : ~Earlier(body[i].op, binds[j].op)
    BY <1>4 DEF Earlier
  <2> QED
    BY <1>4, <1>5, <2>1, <2>2, OrderedConcat
<1>7. \A i \in DOMAIN ops :
        \/ i \in DOMAIN binds /\ ops[i] = binds[i]
        \/ \E j \in DOMAIN body : ops[i] = body[j]
  <2>1. binds \in Seq(Op) /\ body \in Seq(Op)
    BY <1>4
  <2>2. \A i \in DOMAIN (binds \o body) :
          \/ i \in DOMAIN binds /\ (binds \o body)[i] = binds[i]
          \/ i - Len(binds) \in DOMAIN body /\ (binds \o body)[i] = body[i - Len(binds)]
    BY <2>1, ConcatFrom
  <2> QED
    BY <1>5, <2>2
<1>8. Lacks(ops, {"enter", "spec", "ret"})
  <2>1. \A j \in DOMAIN body : body[j].op \notin {"enter", "spec", "ret"}
    BY <1>4 DEF Lacks
  <2>2. \A i \in DOMAIN ops : ops[i].op \notin {"enter", "spec", "ret"}
    BY <1>4, <1>7, <2>1
  <2> QED
    BY <2>2 DEF Lacks
<1>9. /\ fd'.def = fd.def /\ fd'.params = fd.params /\ fd'.ret = fd.ret
      /\ fd'.vars = fd.vars /\ OwnSpecs(fd') = OwnSpecs(fd) \cup {s}
      /\ Range(fd.post) \subseteq Range(fd'.post)
      /\ crate.spec_type[s] = "post" => s \in Range(fd'.post)
  <2>1. /\ fd.measure \in Seq(DefIds) /\ fd.pre \in Seq(DefIds) /\ fd.post \in Seq(DefIds)
    BY <1>2, FunDefType
  <2>2. /\ Range(Append(fd.measure, s)) = Range(fd.measure) \cup {s}
        /\ Range(Append(fd.pre, s)) = Range(fd.pre) \cup {s}
        /\ Range(Append(fd.post, s)) = Range(fd.post) \cup {s}
    BY <1>2, <2>1, RangeAppend
  <2>3. CASE crate.spec_type[s] = "measure"
    <3>1. fd' = [fd EXCEPT !.measure = Append(fd.measure, s)]
      BY <1>2, <2>3 DEF AttachSpec
    <3>2. fd'.post = fd.post /\ crate.spec_type[s] # "post"
      BY <1>2, <2>3, <3>1 DEF FunDef
    <3> QED
      BY <1>2, <2>2, <3>1, <3>2 DEF FunDef, OwnSpecs
  <2>4. CASE crate.spec_type[s] = "pre"
    <3>1. fd' = [fd EXCEPT !.pre = Append(fd.pre, s)]
      BY <1>2, <2>4 DEF AttachSpec
    <3>2. fd'.post = fd.post /\ crate.spec_type[s] # "post"
      BY <1>2, <2>4, <3>1 DEF FunDef
    <3> QED
      BY <1>2, <2>2, <3>1, <3>2 DEF FunDef, OwnSpecs
  <2>5. CASE crate.spec_type[s] = "post"
    <3>1. fd' = [fd EXCEPT !.post = Append(fd.post, s)]
      BY <1>2, <2>5 DEF AttachSpec
    <3> QED
      BY <1>2, <2>2, <3>1 DEF FunDef, OwnSpecs
  <2> QED
    BY <1>3, <2>3, <2>4, <2>5 DEF SpecTypes
<1>10. Grown(fd, fd')
  BY <1>9 DEF Grown
<1>11. /\ Range(crate.params[s]) \subseteq DOMAIN dcx'
       /\ \A h \in DOMAIN dcx' : <<h, dcx'[h]>> \in ScopeNext(fd')
  <2>1. /\ Range(crate.params[s]) \subseteq DOMAIN dcx'
        /\ \A h \in DOMAIN dcx' :
             \/ \E i \in DOMAIN crate.params[s] \cap DOMAIN fd'.params :
                  h = crate.params[s][i] /\ dcx'[h] = fd'.params[i]
             \/ /\ crate.spec_type[s] = "post"
                /\ h = crate.params[s][Len(crate.params[s])]
                /\ dcx'[h] \in Range(fd'.ret)
    BY <1>2, <1>3, <1>9, SharedScope
  <2>2. ASSUME NEW h \in DOMAIN dcx' PROVE <<h, dcx'[h]>> \in ScopeNext(fd')
    <3>1. CASE \E i \in DOMAIN crate.params[s] \cap DOMAIN fd'.params :
                 h = crate.params[s][i] /\ dcx'[h] = fd'.params[i]
      <4>1. <<h, dcx'[h]>> \in Shared(crate', s, fd')
        BY <3>1 DEF Shared
      <4>2. s \in OwnSpecs(fd')
        BY <1>9
      <4> QED
        BY <4>1, <4>2, ScopeNextHas
    <3>2. CASE /\ crate.spec_type[s] = "post"
               /\ h = crate.params[s][Len(crate.params[s])]
               /\ dcx'[h] \in Range(fd'.ret)
      <4>1. <<h, dcx'[h]>> \in Returned(crate', s, fd')
        BY <3>2 DEF Returned
      <4>2. s \in Range(fd'.post)
        BY <1>9, <3>2
      <4> QED
        BY <4>1, <4>2, ScopeNextHas
    <3> QED
      BY <2>1, <3>1, <3>2
  <2> QED
    BY <2>1, <2>2
<1>12. ASSUME NEW i \in DOMAIN ops, ops[i].op = "bind"
       PROVE  ops[i].arg \in BoundNext(fd') \/ ops[i].arg \in DOMAIN dcx'
  <2>1. \A j \in DOMAIN body : body[j].op # "bind"
    BY <1>4 DEF Lacks
  <2>2. ops[i].arg \in Range(crate.params[s]) \cup Range(crate.locals[s])
    BY <1>4, <1>7, <1>12, <2>1
  <2>3. Range(crate.locals[s]) \subseteq BoundNext(fd')
    BY <1>9 DEF BoundNext
  <2> QED
    BY <1>11, <2>2, <2>3
<1>13. Continue(ops)
  BY <1>2, <1>5
<1> QED
  BY <1>2, <1>6, <1>8, <1>9, <1>10, <1>11, <1>12, <1>13, BodyStep

(* A function finished.                                                     *)
LEMMA AddFunctionScope ==
  ASSUME ScopeInv, ExtractionInv', HirKept, crate' = crate,
         NEW kind \in {"emit", "stub"}, AddFunction(kind)
  PROVE  ScopeInv'
<1>1. PICK id : id = did_to_stid'[Head(todo).arg]
  OBVIOUS
<1>2. /\ functions' = Insert(functions, id, fd) /\ fd' = NoFunction
      /\ ExtractionInv /\ Execute(kind)
  BY <1>1 DEF AddFunction, ScopeInv
<1>3. todo' = <<>>
  <2>1. 1 \in DOMAIN todo /\ todo[1].op = kind /\ todo # <<>> /\ todo \in Seq(Op)
    BY <1>2, TopOfStack DEF Execute, ExtractionInv, TypeOK
  <2>2. Len(todo) = 1
    BY <1>2, <2>1 DEF ExtractionInv, StackOK, AddedLast
  <2>3. Tail(todo) \in Seq(Op) /\ Len(Tail(todo)) = 0
    BY <2>1, <2>2, HeadTailProperties
  <2>4. Tail(todo) = <<>>
    BY <2>3, EmptySeq
  <2> QED
    BY <2>4 DEF AddFunction, Continue
<1>4. UsesInScope'
  <2> SUFFICES ASSUME NEW k \in DOMAIN functions', NEW f, f = functions'[k]
               PROVE  f.vars \subseteq ScopeNext(f)
    BY ScopePrime
  <2>1. CASE k = id
    <3>1. f = fd
      BY <1>2, <2>1 DEF Insert
    <3>2. Grown(fd, fd)
      BY DEF Grown
    <3> QED
      BY <3>1, <3>2, ScopeGrows DEF ScopeInv
  <2>2. CASE k # id
    <3>1. k \in DOMAIN functions /\ f = functions[k]
      BY <1>2, <2>2 DEF Insert
    <3> QED
      BY <3>1, FinishedInScope DEF ScopeInv
  <2> QED
    BY <2>1, <2>2
<1>5. fd'.vars = {}
  BY <1>2 DEF NoFunction, EmptyFd
<1> QED
  BY <1>3, <1>4, <1>5
  DEF ScopeInv, Ordered, OwnBody, OneResult, BindingsOwned, ContextInScope
(* The stack of a function before its body is entered: no context, no body  *)
(* but its own, and the result variable at most once.                       *)
Outer(ops, g) ==
  /\ ops \in Seq(Op) /\ Lacks(ops, Contextual)
  /\ \A i \in DOMAIN ops : ops[i].op = "enter" => ops[i].arg = g
ResultAt(ops, n) == \A i \in DOMAIN ops : ops[i].op = "ret" => i = n

(* Extracting one part of a function after another: both are outside bodies. *)
LEMMA OuterConcat ==
  ASSUME NEW g, NEW s, NEW t, Outer(s, g), Outer(t, g)
  PROVE  /\ Outer(s \o t, g)
         /\ \A n : ResultAt(s, n) /\ Lacks(t, {"ret"}) => ResultAt(s \o t, n)
         /\ Lacks(s, {"ret"}) /\ Lacks(t, {"ret"}) => Lacks(s \o t, {"ret"})
<1>1. s \in Seq(Op) /\ t \in Seq(Op)
  BY DEF Outer
<1>2. /\ s \o t \in Seq(Op)
      /\ \A i \in DOMAIN (s \o t) :
              \/ i \in DOMAIN s /\ (s \o t)[i] = s[i]
              \/ i - Len(s) \in DOMAIN t /\ (s \o t)[i] = t[i - Len(s)]
  BY <1>1, ConcatFrom
<1>3. Outer(s \o t, g)
  BY <1>2 DEF Outer, Lacks
<1>4. ASSUME NEW n, ResultAt(s, n), Lacks(t, {"ret"}) PROVE ResultAt(s \o t, n)
  BY <1>2, <1>4 DEF ResultAt, Lacks
<1>5. Lacks(s, {"ret"}) /\ Lacks(t, {"ret"}) => Lacks(s \o t, {"ret"})
  BY <1>2 DEF Lacks
<1> QED
  BY <1>3, <1>4, <1>5

(* Operations on definitions.                                               *)
LEMMA OuterDefs ==
  ASSUME NEW g, NEW kind \in DefOps \ {"enter"}, NEW args \in Seq(DefIds)
  PROVE  Outer(Ops(kind, args), g) /\ Lacks(Ops(kind, args), {"ret"})
<1>1. /\ Ops(kind, args) \in Seq(Op) /\ DOMAIN Ops(kind, args) = DOMAIN args
      /\ \A i \in DOMAIN args : Ops(kind, args)[i].op = kind
  BY DefOpsType
<1> QED
  BY <1>1 DEF Outer, Lacks, Contextual, DefOps

(* So is one operation on a definition.                                      *)
LEMMA OuterOne ==
  ASSUME NEW g, NEW kind \in DefOps, NEW d \in DefIds, kind = "enter" => d = g
  PROVE  Outer(One(kind, d), g) /\ Lacks(One(kind, d), {"ret"})
  BY OneType DEF Outer, Lacks, Contextual, DefOps

(* What reads no variable, like extract_ty, may stand anywhere.              *)
LEMMA OuterQuiet ==
  ASSUME NEW g, NEW ops, Quiet(ops)
  PROVE  Outer(ops, g) /\ Lacks(ops, {"ret"})
  BY DEF Quiet, Outer, Lacks, Scoped

(* The operations of a function.                                            *)
LEMMA OuterFunction ==
  ASSUME ExtractionInv, NEW g \in DefIds
  PROVE  Outer(FunctionOps(g), g) /\ \E n : ResultAt(FunctionOps(g), n)
<1>1. PICK gen, enter, m, p, ret, q, last :
        /\ gen = GenericsOps(g) /\ enter = One("enter", g)
        /\ m = Ops("spec", FirstOf(specs[g]["measure"]))
        /\ p = Ops("spec", specs[g]["pre"]) /\ ret = One("ret", NoDef)
        /\ q = Ops("spec", specs[g]["post"]) /\ last = One("emit", g)
  OBVIOUS
<1>2. /\ specs[g]["measure"] \in Seq(DefIds) /\ specs[g]["pre"] \in Seq(DefIds)
      /\ specs[g]["post"] \in Seq(DefIds) /\ crate \in Crates
  BY DEF ExtractionInv, TypeOK, SpecTypes
<1>3. FirstOf(specs[g]["measure"]) \in Seq(DefIds)
  BY <1>2, HeadTailProperties DEF FirstOf
<1>4. /\ Outer(m, g) /\ Lacks(m, {"ret"}) /\ Outer(p, g) /\ Lacks(p, {"ret"})
      /\ Outer(q, g) /\ Lacks(q, {"ret"})
  BY <1>1, <1>2, <1>3, OuterDefs DEF DefOps
<1>5. /\ Outer(enter, g) /\ Lacks(enter, {"ret"}) /\ Outer(last, g) /\ Lacks(last, {"ret"})
  BY <1>1, OuterOne DEF DefOps
<1>6. Outer(gen, g) /\ Lacks(gen, {"ret"})
  BY <1>1, <1>2, QuietAdt, OuterQuiet
<1>7. Outer(gen \o enter, g) /\ Lacks(gen \o enter, {"ret"})
  BY <1>5, <1>6, OuterConcat
<1>8. Outer(gen \o enter \o m, g) /\ Lacks(gen \o enter \o m, {"ret"})
  BY <1>4, <1>7, OuterConcat
<1>9. PICK front : front = gen \o enter \o m \o p
  OBVIOUS
<1>10. Outer(front, g) /\ Lacks(front, {"ret"})
  BY <1>4, <1>8, <1>9, OuterConcat
<1>11. PICK half, n : half = front \o ret /\ n = Len(front) + 1
  OBVIOUS
<1>12. Outer(half, g) /\ ResultAt(half, n)
  <2>1. /\ ret \in Seq(Op) /\ DOMAIN ret = {1} /\ ret[1].op = "ret"
    BY <1>1, OneRet
  <2>2. Outer(ret, g)
    BY <2>1 DEF Outer, Lacks, Contextual
  <2>3. front \in Seq(Op) /\ ret \in Seq(Op)
    BY <1>10, <2>1 DEF Outer
  <2>4. /\ half \in Seq(Op)
        /\ \A i \in DOMAIN half : \/ i \in DOMAIN front /\ half[i] = front[i]
                                  \/ i - Len(front) \in DOMAIN ret
    <3>1. /\ front \o ret \in Seq(Op)
          /\ \A i \in DOMAIN (front \o ret) :
               \/ i \in DOMAIN front /\ (front \o ret)[i] = front[i]
               \/ i - Len(front) \in DOMAIN ret /\ (front \o ret)[i] = ret[i - Len(front)]
      BY <2>3, ConcatFrom
    <3> QED
      BY <1>11, <3>1
  <2>5. DOMAIN half \subseteq Nat /\ Len(front) \in Nat
    BY <2>3, <2>4, LenProperties
  <2>6. ASSUME NEW i \in DOMAIN half, half[i].op = "ret" PROVE i = n
    <3>1. i - Len(front) = 1
      BY <1>10, <2>1, <2>4, <2>6 DEF Lacks
    <3> QED
      BY <1>11, <2>5, <3>1
  <2> QED
    BY <1>10, <1>11, <2>2, <2>6, OuterConcat DEF ResultAt
<1>13. Outer(half \o q, g) /\ ResultAt(half \o q, n)
  BY <1>4, <1>12, OuterConcat
<1>14. Outer(half \o q \o last, g) /\ ResultAt(half \o q \o last, n)
  BY <1>5, <1>13, OuterConcat
<1>15. FunctionOps(g) = half \o q \o last
  BY <1>1, <1>9, <1>11 DEF FunctionOps
<1> QED
  BY <1>14, <1>15

(* The operations of a stub.                                                *)
LEMMA OuterStub ==
  ASSUME ExtractionInv, NEW g \in DefIds
  PROVE  Outer(StubOps(g), g) /\ Lacks(StubOps(g), {"ret"})
<1>1. PICK gen, inputs, result, last :
        /\ gen = GenericsOps(g) /\ result = Ops("type", crate.types[g])
        /\ inputs = [i \in DOMAIN crate.inputs[g] |-> [op |-> "input", arg |-> i]]
        /\ last = One("stub", g)
  OBVIOUS
<1>2. crate \in Crates
  BY DEF ExtractionInv, TypeOK
<1>3. Outer(inputs, g) /\ Lacks(inputs, {"ret"})
  <2>1. crate.inputs[g] \in Seq(Seq(DefIds))
    BY <1>2, CrateTypes
  <2>2. Len(crate.inputs[g]) \in Nat /\ DOMAIN crate.inputs[g] = 1 .. Len(crate.inputs[g])
    BY <2>1, LenProperties
  <2>3. \A i \in 1 .. Len(crate.inputs[g]) : [op |-> "input", arg |-> i] \in Op
    BY <2>2 DEF Op
  <2>4. inputs \in Seq(Op) /\ DOMAIN inputs = DOMAIN crate.inputs[g]
    BY <1>1, <2>2, <2>3
  <2>5. \A i \in DOMAIN inputs : inputs[i].op = "input"
    BY <1>1, <2>4
  <2> QED
    BY <2>4, <2>5 DEF Outer, Lacks, Contextual
<1>4. /\ Outer(gen, g) /\ Lacks(gen, {"ret"}) /\ Outer(result, g) /\ Lacks(result, {"ret"})
      /\ Outer(last, g) /\ Lacks(last, {"ret"})
  BY <1>1, <1>2, CrateTypes, QuietAdt, OuterQuiet, OuterDefs, OuterOne DEF DefOps
<1>5. Outer(gen \o inputs, g) /\ Lacks(gen \o inputs, {"ret"})
  BY <1>3, <1>4, OuterConcat
<1>6. Outer(gen \o inputs \o result, g) /\ Lacks(gen \o inputs \o result, {"ret"})
  BY <1>4, <1>5, OuterConcat
<1>7. Outer(gen \o inputs \o result \o last, g) /\ Lacks(gen \o inputs \o result \o last, {"ret"})
  BY <1>4, <1>6, OuterConcat
<1> QED
  BY <1>1, <1>7 DEF StubOps

(* Nothing is in a context between the loops' iterations.                   *)
LEMMA FreshStack ==
  ASSUME ScopeInv, ExtractionInv', HirKept, UNCHANGED <<crate, dcx, functions>>,
         fd' = fd \/ fd'.vars = {}, Outer(todo', fd'.def),
         \E n : ResultAt(todo', n), Lacks(todo', {"ret"}) \/ fd'.ret = <<>>
  PROVE  ScopeInv'
<1>1. UsesInScope'
  BY FinishedInScope, ScopePrime DEF ScopeInv
<1>2. fd'.vars \subseteq Scope(fd)'
  <2>1. Scope(fd)' = ScopeNext(fd')
    BY ScopePrime
  <2>2. Grown(fd, fd)
    BY DEF Grown
  <2> QED
    BY <2>1, <2>2, ScopeGrows DEF ScopeInv
<1>3. Ordered(todo)'
  BY DEF Ordered, Earlier, Outer, Lacks, Contextual
<1>4. OwnBody' /\ OneResult'
  BY DEF OwnBody, OneResult, Outer, ResultAt, Lacks
<1>5. BindingsOwned' /\ ContextInScope'
  BY DEF BindingsOwned, ContextInScope, Outer, Lacks, Contextual
<1> QED
  BY <1>1, <1>2, <1>3, <1>4, <1>5 DEF ScopeInv

(* The loops of process_crate.                                              *)
LEMMA LoopsScope ==
  ASSUME ScopeInv, ExtractionInv', HirKept, crate' = crate, Loops
  PROVE  ScopeInv'
<1>1. ExtractionInv
  BY DEF ScopeInv
<1>2. CASE AdtsDone \/ FunctionsDone \/ StubsDone
  <2>1. todo' = <<>> /\ UNCHANGED <<crate, dcx, fd, functions>>
    BY <1>2 DEF AdtsDone, FunctionsDone, StubsDone, Idle, output_vars
  <2>2. Outer(todo', fd'.def) /\ Lacks(todo', {"ret"}) /\ ResultAt(todo', 0)
    BY <2>1 DEF Outer, Lacks, ResultAt
  <2> QED
    BY <2>1, <2>2, FreshStack
<1>3. CASE StartAdt
  <2>1. PICK a, s, t : a = Head(adt_items) /\ s = One("adt", a) /\ t = One("addAdt", a)
    OBVIOUS
  <2>2. /\ a \in DefIds /\ todo' = s \o t /\ UNCHANGED <<crate, dcx, functions, fd>>
    BY <1>1, <1>3, <2>1, HeadTailProperties DEF StartAdt, ExtractionInv, TypeOK, output_vars
  <2>3. /\ Outer(s, fd.def) /\ Lacks(s, {"ret"}) /\ Outer(t, fd.def) /\ Lacks(t, {"ret"})
    BY <2>1, <2>2, OuterOne DEF DefOps
  <2>4. Outer(todo', fd'.def) /\ Lacks(todo', {"ret"})
    BY <2>2, <2>3, OuterConcat
  <2>5. ResultAt(todo', 0)
    BY <2>4 DEF ResultAt, Lacks
  <2> QED
    BY <2>2, <2>4, <2>5, FreshStack
<1>4. CASE StartFunction
  <2>1. PICK g : g = Head(fn_items)
    OBVIOUS
  <2>2. /\ g \in DefIds /\ todo' = FunctionOps(g) /\ fd' = EmptyFd(g, FALSE)
        /\ UNCHANGED <<crate, dcx, functions>>
    BY <1>1, <1>4, <2>1, HeadTailProperties DEF StartFunction, ExtractionInv, TypeOK, output_vars
  <2>3. fd'.def = g /\ fd'.vars = {} /\ fd'.ret = <<>>
    BY <2>2 DEF EmptyFd
  <2>4. Outer(todo', fd'.def) /\ \E n : ResultAt(todo', n)
    BY <1>1, <2>2, <2>3, OuterFunction
  <2> QED
    BY <2>2, <2>3, <2>4, FreshStack
<1>5. CASE StartStub
  <2>1. PICK g \in stubs : todo' = StubOps(g) /\ fd' = EmptyFd(g, TRUE)
    BY <1>5 DEF StartStub
  <2>2. g \in DefIds /\ UNCHANGED <<crate, dcx, functions>>
    BY <1>1, <1>5, <2>1 DEF StartStub, ExtractionInv, TypeOK, output_vars
  <2>3. fd'.def = g /\ fd'.vars = {} /\ fd'.ret = <<>>
    BY <2>1 DEF EmptyFd
  <2>4. Outer(todo', fd'.def) /\ Lacks(todo', {"ret"})
    BY <1>1, <2>1, <2>2, <2>3, OuterStub
  <2>5. ResultAt(todo', 0)
    BY <2>4 DEF ResultAt, Lacks
  <2> QED
    BY <2>2, <2>3, <2>4, <2>5, FreshStack
<1> QED
  BY <1>2, <1>3, <1>4, <1>5 DEF Loops

(* The invariant is inductive.                                              *)
LEMMA ScopeStep ==
  ASSUME ScopeInv, [Next]_vars
  PROVE  ScopeInv'
<1>1. ExtractionInv' /\ HirKept
  BY ExtractionNext, HirGrows DEF ScopeInv
<1>2. crate' = crate
  BY DEF Next, vars, Discovery, VisitAdt, VisitFn, VisitedFns, VisitOther, DiscoveryDone,
    Discover, Loops, StartAdt, AdtsDone, StartFunction, FunctionsDone, StartStub, StubsDone,
    Traversal, TypeParameter, MentionType, ExtractAdt, Constructor, Field, SortBuilt,
    AddAdt, Call, EnterBody, KnownBinding, NewBinding, Parameter, VarRef, Unsupported,
    ExtractSpec, ReturnVar, AddFunction, StubInput, Execute, Panic
<1>3. CASE UNCHANGED <<todo, dcx, fd, functions, hid_to_stid>>
  BY <1>1, <1>2, <1>3
  DEF ScopeInv, Ordered, OwnBody, OneResult, BindingsOwned, ContextInScope,
      StandsInScope, Bound, Scope, Owned, Shared, Returned, OwnSpecs, UsesInScope
<1>4. CASE Discovery \/ Panic \/ UNCHANGED vars
  <2>1. UNCHANGED <<todo, dcx, fd, functions, hid_to_stid>>
    BY <1>4 DEF Discovery, VisitAdt, VisitFn, VisitedFns, VisitOther, DiscoveryDone,
      Discover, Panic, vars, mapping_vars, output_vars
  <2> QED
    BY <1>3, <2>1
<1>5. CASE Loops
  BY <1>1, <1>2, <1>5, LoopsScope
<1>6. CASE Traversal
  BY <1>1, <1>2, <1>4, <1>6, UnscopedScope, NewBindingScope, VariableScope, StubInputScope,
     EnterBodyScope, ExtractSpecScope, AddFunctionScope DEF Traversal, UnscopedStep
<1> QED
  BY <1>4, <1>5, <1>6 DEF Next

(* So what functions mention stays in scope throughout an extraction.       *)
LEMMA ScopeInvariant == Spec => []ScopeInv
<1>1. Init => ScopeInv
  <2> SUFFICES ASSUME Init PROVE ScopeInv
    OBVIOUS
  <2>1. todo = <<>> /\ functions = [id \in {} |-> id] /\ fd.vars = {}
    BY DEF Init, NoFunction, EmptyFd
  <2> QED
    BY <2>1, ExtractionInitInv
    DEF ScopeInv, Ordered, OwnBody, OneResult, BindingsOwned, ContextInScope, UsesInScope
<1>2. ScopeInv /\ [Next]_vars => ScopeInv'
  BY ScopeStep
<1> QED
  BY <1>1, <1>2, PTL DEF Spec

----------------------------------------------------------------------------
(* Signatures: the other half of VariablesInScope.  A function gets its     *)
(* parameters one after another, in the order of its patterns: those that   *)
(* are not there yet are next to each other on the stack.                   *)
IsParam(i) == i \in DOMAIN todo /\ todo[i].op = "param"
ParamsFrom(k) ==
  /\ Len(fd.params) <= Len(crate.params[fd.def])
  /\ \A i \in Int : IsParam(i) <=> i - k \in Len(fd.params) + 1 .. Len(crate.params[fd.def])
ArgsFrom(k) ==
  \A i \in DOMAIN todo : todo[i].op = "param" => todo[i].arg = crate.params[fd.def][i - k]
Occurs(kind) == \E i \in DOMAIN todo : todo[i].op = kind

(* A function of the crate has no inputs, a stub nothing else; ...          *)
KindKnown ==
  \A i \in DOMAIN todo : /\ todo[i].op \in {"input", "stub"} => fd.extern
                         /\ todo[i].op = "emit" => ~fd.extern

(* ... its body is entered once, and its parameters come after that; ...    *)
EnteredOnce == \A i, j \in DOMAIN todo : todo[i].op = "enter" /\ todo[j].op = "enter" => i = j
ParamsInOrder ==
  IF Occurs("enter") THEN fd.params = <<>> /\ ~Occurs("param")
  ELSE \E k \in Int : ParamsFrom(k) /\ ArgsFrom(k)

(* ... they are the variables of their patterns, which is what the context  *)
(* has then.                                                                *)
Named(f) ==
  \A i \in DOMAIN f.params :
    /\ crate.params[f.def][i] \in DOMAIN hid_to_stid
    /\ f.params[i] = hid_to_stid[crate.params[f.def][i]]
OwnContext ==
  Occurs("param") => \A h \in DOMAIN dcx : h \in DOMAIN hid_to_stid /\ dcx[h] = hid_to_stid[h]
Signatures == \A id \in DOMAIN functions : ~functions[id].extern => OwnParameters(functions[id])

SignatureInv ==
  /\ ScopeInv
  /\ KindKnown /\ EnteredOnce
  /\ Occurs("emit") => ParamsInOrder /\ Named(fd) /\ OwnContext
  /\ Signatures

(* The parameters that are not there yet stay next to each other when the   *)
(* operation on top is replaced, also when it is the first of them.         *)
LEMMA ParamsShift ==
  ASSUME todo \in Seq(Op), todo # <<>>, NEW ops \in Seq(Op), Continue(ops),
         \A i \in DOMAIN ops : ops[i].op # "param",
         crate' = crate, fd'.def = fd.def,
         Len(fd.params) \in Nat, Len(crate.params[fd.def]) \in Nat,
         \/ Head(todo).op # "param" /\ fd'.params = fd.params
         \/ Head(todo).op = "param" /\ Len(fd'.params) = Len(fd.params) + 1,
         NEW k \in Int, ParamsFrom(k)
  PROVE  /\ \E l \in Int : ParamsFrom(l)' /\ (ArgsFrom(k) => ArgsFrom(l)')
         /\ Head(todo).op = "param" =>
              1 - k = Len(fd.params) + 1 /\ Len(fd.params) < Len(crate.params[fd.def])
<1>1. PICK c, n, m : c = Len(ops) /\ n = Len(fd.params) /\ m = Len(crate.params[fd.def])
  OBVIOUS
<1>2. c \in Nat /\ n \in Nat /\ m \in Nat /\ n <= m
  BY <1>1, LenProperties DEF ParamsFrom
<1>3. /\ 1 \in DOMAIN todo /\ Head(todo) = todo[1] /\ \A j \in DOMAIN todo : j \in Nat \ {0}
  <2>1. Len(todo) \in Nat \ {0} /\ DOMAIN todo = 1 .. Len(todo) /\ Head(todo) = todo[1]
    BY LenProperties, HeadTailProperties, EmptySeq
  <2> QED
    BY <2>1
<1>4. /\ todo' \in Seq(Op)
      /\ \A i \in DOMAIN todo' :
           \/ i \in DOMAIN ops /\ todo'[i] = ops[i]
           \/ i - c + 1 \in DOMAIN todo /\ i - c + 1 >= 2 /\ todo'[i] = todo[i - c + 1]
      /\ \A j \in DOMAIN todo : j >= 2 => j - 1 + c \in DOMAIN todo' /\ todo'[j - 1 + c] = todo[j]
  BY <1>1, Continued
<1>5. \A i \in Int : IsParam(i)' <=> IsParam(i - c + 1) /\ i - c + 1 >= 2
  <2>1. ASSUME NEW i \in Int, IsParam(i)' PROVE IsParam(i - c + 1) /\ i - c + 1 >= 2
    BY <1>4, <2>1 DEF IsParam
  <2>2. ASSUME NEW i \in Int, IsParam(i - c + 1), i - c + 1 >= 2 PROVE IsParam(i)'
    <3>1. PICK j : j = i - c + 1
      OBVIOUS
    <3>2. j \in DOMAIN todo /\ j >= 2 /\ todo[j].op = "param"
      BY <2>2, <3>1 DEF IsParam
    <3>3. j - 1 + c = i
      BY <1>2, <3>1
    <3> QED
      BY <1>4, <3>2, <3>3 DEF IsParam
  <2> QED
    BY <2>1, <2>2
<1>6. \A i \in Int : IsParam(i) <=> i - k \in n + 1 .. m
  BY <1>1 DEF ParamsFrom
<1>7. PICK l \in Int : l = k + c - 1
  BY <1>2
<1>8. ASSUME Head(todo).op # "param", fd'.params = fd.params PROVE ParamsFrom(l)'
  <2>1. \A j : IsParam(j) => j # 1 /\ j \in Nat \ {0}
    BY <1>3, <1>8 DEF IsParam
  <2>2. \A i \in Int : IsParam(i)' <=> IsParam(i - c + 1)
    BY <1>2, <1>5, <2>1
  <2>3. \A i \in Int : IsParam(i)' <=> i - l \in n + 1 .. m
    <3>1. ASSUME NEW i \in Int PROVE IsParam(i)' <=> i - l \in n + 1 .. m
      <4>1. PICK j \in Int : j = i - c + 1
        BY <1>2
      <4>2. j - k = i - l
        BY <1>2, <1>7, <4>1
      <4> QED
        BY <1>6, <2>2, <4>1, <4>2
    <3> QED
      BY <3>1
  <2> QED
    BY <1>1, <1>2, <1>8, <2>3 DEF ParamsFrom
<1>9. ASSUME Head(todo).op = "param", Len(fd'.params) = n + 1
      PROVE  ParamsFrom(l)' /\ 1 - k = n + 1 /\ n < m
  <2>1. IsParam(1)
    BY <1>3, <1>9 DEF IsParam
  <2>2. 1 - k \in n + 1 .. m
    BY <1>6, <2>1
  <2>3. n + 1 + k >= 1
    <3>1. n + 1 + k \in Int /\ (n + 1 + k) - k \in n + 1 .. m
      BY <1>2, <2>2
    <3>2. IsParam(n + 1 + k)
      BY <1>6, <3>1
    <3> QED
      BY <1>3, <3>2 DEF IsParam
  <2>4. k = 0 - n /\ n + 1 <= m
    BY <1>2, <2>2, <2>3
  <2>5. \A i \in Int : IsParam(i)' <=> i - l \in n + 2 .. m
    <3>1. ASSUME NEW i \in Int PROVE IsParam(i)' <=> i - l \in n + 2 .. m
      <4>1. PICK j \in Int : j = i - c + 1
        BY <1>2
      <4>2. j - k = i - l
        BY <1>2, <1>7, <4>1
      <4>3. IsParam(i)' <=> j - k \in n + 1 .. m /\ j >= 2
        BY <1>5, <1>6, <4>1
      <4>4. j - k \in n + 1 .. m /\ j >= 2 <=> j - k \in n + 2 .. m
        BY <1>2, <2>4
      <4> QED
        BY <4>2, <4>3, <4>4
    <3> QED
      BY <3>1
  <2>6. /\ Len(fd'.params) <= Len(crate'.params[fd'.def])
        /\ \A i \in Int : IsParam(i)' <=> i - l \in Len(fd'.params) + 1 .. Len(crate'.params[fd'.def])
    <3>1. Len(fd'.params) = n + 1 /\ Len(crate'.params[fd'.def]) = m /\ (n + 1) + 1 = n + 2
      BY <1>1, <1>2, <1>9
    <3> QED
      BY <2>4, <2>5, <3>1
  <2> QED
    BY <1>2, <2>2, <2>4, <2>6 DEF ParamsFrom
<1>10. ASSUME ArgsFrom(k) PROVE ArgsFrom(l)'
  <2> SUFFICES ASSUME NEW i \in DOMAIN todo', todo'[i].op = "param"
               PROVE  todo'[i].arg = crate.params[fd.def][i - l]
    BY DEF ArgsFrom
  <2>1. PICK j \in DOMAIN todo : j = i - c + 1 /\ todo'[i] = todo[j]
    BY <1>4
  <2>2. i \in Nat /\ j - k = i - l
    BY <1>2, <1>3, <1>4, <1>7, <2>1, LenProperties
  <2> QED
    BY <1>10, <2>1, <2>2 DEF ArgsFrom
<1> QED
  BY <1>1, <1>8, <1>9, <1>10

(* The signatures of the functions finished stay what they are.             *)
LEMMA SignaturesKept ==
  ASSUME Signatures, HirKept, crate' = crate,
         NEW id \in DOMAIN functions, NEW f, f = functions[id], ~f.extern
  PROVE  OwnParameters(f)'
<1>1. OwnParameters(f)
  BY DEF Signatures
<1> QED
  BY <1>1 DEF OwnParameters, HirKept

(* A step that begins and ends no function: a binding comes to be known, a  *)
(* parameter is added, a variable is used.                                  *)
LEMMA SignatureQuiet ==
  ASSUME SignatureInv, ScopeInv', HirKept, UNCHANGED <<crate, functions>>,
         todo # <<>>, Head(todo).op # "enter", NEW ops, Continue(ops), ops \in Seq(Op),
         Lacks(ops, {"enter", "param", "input", "emit", "stub"}),
         fd'.def = fd.def, fd'.extern = fd.extern,
         fd \in FunDef \/ Head(todo).op # "param",
         \/ Head(todo).op = "input"
         \/ Head(todo).op # "param" /\ fd'.params = fd.params
         \/ /\ Head(todo).op = "param" /\ Head(todo).arg \in DOMAIN dcx
            /\ fd'.params = Append(fd.params, dcx[Head(todo).arg]),
         Head(todo).op # "spec" =>
           \A h \in DOMAIN dcx' : \/ h \in DOMAIN dcx /\ dcx'[h] = dcx[h]
                                  \/ h \in DOMAIN hid_to_stid' /\ dcx'[h] = hid_to_stid'[h]
  PROVE  SignatureInv'
<1> DEFINE below(i) == i - Len(ops) + 1
<1>1. /\ ExtractionInv /\ todo \in Seq(Op) /\ Len(ops) \in Nat
      /\ 1 \in DOMAIN todo /\ Head(todo) = todo[1] /\ DOMAIN todo \subseteq Nat \ {0}
  BY LenProperties, TopOfStack DEF SignatureInv, ScopeInv, ExtractionInv, TypeOK
<1>2. /\ todo' \in Seq(Op)
      /\ \A i \in DOMAIN todo' :
           \/ i \in DOMAIN ops /\ todo'[i] = ops[i]
           \/ below(i) \in DOMAIN todo /\ below(i) >= 2 /\ todo'[i] = todo[below(i)]
      /\ \A j \in DOMAIN todo : j >= 2 =>
           j - 1 + Len(ops) \in DOMAIN todo' /\ todo'[j - 1 + Len(ops)] = todo[j]
  BY <1>1, Continued
<1>3. \A i \in DOMAIN todo' : todo'[i].op \in {"enter", "param", "input", "emit", "stub"} =>
        below(i) \in DOMAIN todo /\ below(i) >= 2 /\ todo'[i] = todo[below(i)]
  BY <1>2 DEF Lacks
<1>4. KindKnown'
  BY <1>3 DEF SignatureInv, KindKnown
<1>5. EnteredOnce'
  <2> SUFFICES ASSUME NEW i \in DOMAIN todo', NEW j \in DOMAIN todo',
                      todo'[i].op = "enter", todo'[j].op = "enter"
               PROVE  i = j
    BY DEF EnteredOnce
  <2>1. below(i) = below(j)
    BY <1>3 DEF SignatureInv, EnteredOnce
  <2>2. i \in Nat /\ j \in Nat
    BY <1>2, LenProperties
  <2> QED
    BY <1>1, <2>1, <2>2
<1>6. /\ Occurs("enter")' => Occurs("enter")
      /\ Occurs("param")' => Occurs("param")
      /\ Occurs("emit")' => Occurs("emit")
  BY <1>3 DEF Occurs
<1>7. Occurs("enter") => Occurs("enter")'
  <2> SUFFICES ASSUME NEW j \in DOMAIN todo, todo[j].op = "enter" PROVE Occurs("enter")'
    BY DEF Occurs
  <2>1. j >= 2
    BY <1>1
  <2> QED
    BY <1>2, <2>1 DEF Occurs
<1>8. Signatures'
  BY SignaturesKept DEF SignatureInv, Signatures
<1>9. ASSUME Occurs("emit")' PROVE ParamsInOrder' /\ Named(fd)' /\ OwnContext'
  <2>1. /\ ParamsInOrder /\ Named(fd) /\ OwnContext /\ ~fd.extern
    BY <1>6, <1>9 DEF SignatureInv, KindKnown, Occurs
  <2>2. Head(todo).op # "input"
    BY <1>1, <2>1 DEF SignatureInv, KindKnown
  <2>3. OwnContext'
    <3> SUFFICES ASSUME Occurs("param")', NEW h \in DOMAIN dcx'
                 PROVE  h \in DOMAIN hid_to_stid' /\ dcx'[h] = hid_to_stid'[h]
      BY DEF OwnContext
    <3>1. PICK j \in DOMAIN todo : j >= 2 /\ todo[j].op = "param"
      BY <1>3 DEF Occurs
    <3>2. Head(todo).op # "spec"
      BY <1>1, <3>1 DEF SignatureInv, ScopeInv, Ordered, Earlier
    <3>3. \A x \in DOMAIN dcx : x \in DOMAIN hid_to_stid /\ dcx[x] = hid_to_stid[x]
      BY <2>1, <3>1 DEF OwnContext, Occurs
    <3> QED
      BY <3>2, <3>3 DEF HirKept
  <2>4. CASE Head(todo).op # "param"
    <3>1. fd'.params = fd.params
      BY <2>2, <2>4
    <3>2. Named(fd)'
      BY <2>1, <3>1 DEF Named, HirKept
    <3>3. CASE Occurs("enter")
      <4>1. Occurs("enter")' /\ ~Occurs("param")' /\ fd'.params = <<>>
        BY <1>6, <1>7, <2>1, <3>1, <3>3 DEF ParamsInOrder
      <4> QED
        BY <2>3, <3>2, <4>1 DEF ParamsInOrder
    <3>4. CASE ~Occurs("enter")
      <4>1. PICK k \in Int : ParamsFrom(k) /\ ArgsFrom(k)
        BY <2>1, <3>4 DEF ParamsInOrder
      <4>2. fd \in FunDef
        BY <1>6, <1>9 DEF Occurs, SignatureInv, ScopeInv, ExtractionInv, StackOK, InFunction, FnOps
      <4>3. Len(fd.params) \in Nat /\ Len(crate.params[fd.def]) \in Nat
        <5>1. fd.params \in Seq(SymbolId) /\ crate.params[fd.def] \in Seq(HirIds)
          BY <1>1, <4>2, FunDefType, CrateTypes DEF ExtractionInv, TypeOK
        <5> QED
          BY <5>1, LenProperties
      <4>4. \A i \in DOMAIN ops : ops[i].op # "param"
        BY DEF Lacks
      <4>5. \E l \in Int : ParamsFrom(l)' /\ ArgsFrom(l)'
        BY <1>1, <2>4, <3>1, <4>1, <4>3, <4>4, ParamsShift
      <4> QED
        BY <1>6, <2>3, <3>2, <3>4, <4>5 DEF ParamsInOrder
    <3> QED
      BY <3>3, <3>4
  <2>5. CASE Head(todo).op = "param"
    <3>1. PICK v : v = dcx[Head(todo).arg]
      OBVIOUS
    <3>2. /\ fd \in FunDef /\ Head(todo).arg \in DOMAIN dcx
          /\ fd'.params = Append(fd.params, v)
      BY <2>2, <2>5, <3>1
    <3>3. Occurs("param") /\ ~Occurs("enter")
      BY <1>1, <2>1, <2>5 DEF Occurs, ParamsInOrder
    <3>4. PICK k \in Int : ParamsFrom(k) /\ ArgsFrom(k)
      BY <2>1, <3>3 DEF ParamsInOrder
    <3>5. /\ v \in SymbolId /\ fd.params \in Seq(SymbolId) /\ crate.params[fd.def] \in Seq(HirIds)
      BY <1>1, <3>1, <3>2, FunDefType, CrateTypes DEF ExtractionInv, TypeOK
    <3>6. PICK n \in Nat : /\ n = Len(fd.params) /\ DOMAIN fd.params = 1 .. n
                           /\ Len(crate.params[fd.def]) \in Nat
      BY <3>5, LenProperties
    <3>7. /\ DOMAIN fd'.params = 1 .. n + 1 /\ Len(fd'.params) = n + 1
          /\ \A i \in 1 .. n : fd'.params[i] = fd.params[i]
          /\ fd'.params[n + 1] = v
      BY <3>2, <3>5, <3>6, AppendProperties
    <3>8. \A i \in DOMAIN ops : ops[i].op # "param"
      BY DEF Lacks
    <3>9. /\ \E l \in Int : ParamsFrom(l)' /\ ArgsFrom(l)'
          /\ 1 - k = n + 1
      BY <1>1, <2>5, <3>4, <3>6, <3>7, <3>8, ParamsShift
    <3>10. ParamsInOrder'
      BY <1>6, <3>3, <3>9 DEF ParamsInOrder
    <3>11. Head(todo).arg = crate.params[fd.def][n + 1]
      BY <1>1, <2>5, <3>4, <3>9 DEF ArgsFrom
    <3>12. /\ Head(todo).arg \in DOMAIN hid_to_stid /\ v = hid_to_stid[Head(todo).arg]
      BY <2>1, <3>1, <3>2, <3>3 DEF OwnContext
    <3>13. Named(fd)'
      <4> SUFFICES ASSUME NEW i \in DOMAIN fd'.params
                   PROVE  /\ crate.params[fd.def][i] \in DOMAIN hid_to_stid'
                          /\ fd'.params[i] = hid_to_stid'[crate.params[fd.def][i]]
        BY DEF Named
      <4>1. CASE i \in 1 .. n
        BY <2>1, <3>6, <3>7, <4>1 DEF Named, HirKept
      <4>2. CASE i = n + 1
        BY <3>7, <3>11, <3>12, <4>2 DEF HirKept
      <4> QED
        BY <3>6, <3>7, <4>1, <4>2
    <3> QED
      BY <2>3, <3>10, <3>13
  <2> QED
    BY <2>4, <2>5
<1> QED
  BY <1>4, <1>5, <1>8, <1>9 DEF SignatureInv

(* What a step may put before the rest without a say in a signature.        *)
Unsigned == {"enter", "param", "input", "emit", "stub"}

(* Traversals without a body to enter do not.                               *)
LEMMA QuietUnsigned ==
  ASSUME NEW ops, Quiet(ops)
  PROVE  ops \in Seq(Op) /\ Lacks(ops, Unsigned)
  BY DEF Quiet, Lacks, Scoped, Contextual, Unsigned

(* extract_ty and its kin, extract_binding, fetch_var: the parameters of a  *)
(* function come in their order, each the variable of its pattern.          *)
LEMMA SignatureVariables ==
  ASSUME SignatureInv, ScopeInv', HirKept, crate' = crate,
         UnscopedStep \/ NewBinding \/ Parameter \/ VarRef \/ ReturnVar
  PROVE  SignatureInv'
<1>1. ExtractionInv /\ crate \in Crates
  BY DEF SignatureInv, ScopeInv, ExtractionInv, TypeOK
<1>2. CASE UnscopedStep
  <2>1. /\ UNCHANGED <<dcx, fd, functions>> /\ todo # <<>>
        /\ Head(todo).op \notin {"param", "var", "ret", "input", "enter"}
    BY <1>1, <1>2, UnscopedOps
  <2>2. PICK ops : Quiet(ops) /\ Continue(ops)
    BY <1>1, <1>2, UnscopedOps
  <2>3. ops \in Seq(Op) /\ Lacks(ops, Unsigned)
    BY <2>2, QuietUnsigned
  <2> QED
    BY <2>1, <2>2, <2>3, SignatureQuiet DEF Unsigned
<1>3. CASE NewBinding
  <2>1. PICK h, ops : h = Head(todo).arg /\ ops = Ops("type", crate.hir_types[h])
    OBVIOUS
  <2>2. /\ h \in HirIds /\ Continue(ops) /\ todo # <<>> /\ Head(todo).op = "bind"
        /\ h \notin DOMAIN dcx /\ h \in DOMAIN hid_to_stid'
        /\ dcx' = Insert(dcx, h, hid_to_stid'[h])
        /\ UNCHANGED <<fd, functions>>
    BY <1>1, <1>3, <2>1, TopArg DEF NewBinding, HirOps, RegisterHir, Insert, output_vars
  <2>3. Quiet(ops)
    BY <1>1, <2>1, <2>2, BindingTypes, QuietDefs DEF DefOps, Scoped, Contextual
  <2>4. ops \in Seq(Op) /\ Lacks(ops, Unsigned)
    BY <2>3, QuietUnsigned
  <2>5. \A x \in DOMAIN dcx' : \/ x \in DOMAIN dcx /\ dcx'[x] = dcx[x]
                               \/ x \in DOMAIN hid_to_stid' /\ dcx'[x] = hid_to_stid'[x]
    BY <2>2 DEF Insert
  <2> QED
    BY <2>2, <2>4, <2>5, SignatureQuiet DEF Unsigned
<1>4. CASE Parameter \/ VarRef \/ ReturnVar
  <2>1. /\ Quiet(<<>>) /\ todo # <<>> /\ Continue(<<>>) /\ UNCHANGED <<dcx, functions>>
        /\ fd \in FunDef
    BY <1>1, <1>4, TopArg DEF Quiet, Parameter, VarRef, ReturnVar, Execute, output_vars, FnOps
  <2>2. PICK ops : ops = <<>> /\ ops \in Seq(Op) /\ Lacks(ops, Unsigned)
    BY <2>1, QuietUnsigned
  <2>3. CASE Parameter
    <3>1. PICK v : v = dcx[Head(todo).arg]
      OBVIOUS
    <3>2. /\ Head(todo).op = "param" /\ fd' = [fd EXCEPT !.params = Append(fd.params, v)]
          /\ Head(todo).arg \in DOMAIN dcx
      <4>1. Failure(Head(todo)) = "none"
        BY <2>3 DEF Parameter, Execute
      <4> QED
        BY <1>1, <2>1, <2>3, <3>1, <4>1, FailureCases DEF Parameter, Execute
    <3>3. fd'.def = fd.def /\ fd'.params = Append(fd.params, v) /\ fd'.extern = fd.extern
      BY <2>1, <3>2 DEF FunDef
    <3> QED
      BY <2>1, <2>2, <3>1, <3>2, <3>3, SignatureQuiet DEF Unsigned
  <2>4. CASE VarRef \/ ReturnVar
    <3>1. /\ Head(todo).op \in {"var", "ret"}
          /\ fd'.def = fd.def /\ fd'.params = fd.params /\ fd'.extern = fd.extern
      BY <2>1, <2>4 DEF VarRef, ReturnVar, Execute, FunDef
    <3> QED
      BY <2>1, <2>2, <3>1, SignatureQuiet DEF Unsigned
  <2> QED
    BY <1>4, <2>3, <2>4
<1> QED
  BY <1>2, <1>3, <1>4

(* extract_extern_fn: the parameters of a stub are fresh.                   *)
LEMMA SignatureInput ==
  ASSUME SignatureInv, ScopeInv', HirKept, crate' = crate, StubInput
  PROVE  SignatureInv'
<1>1. PICK i, v, ops : /\ i = Head(todo).arg /\ v = FreshId(ParamNames[i])
                       /\ ops = Ops("type", crate.inputs[fd.def][i])
  OBVIOUS
<1>2. /\ ExtractionInv /\ crate \in Crates /\ todo # <<>> /\ Head(todo).op = "input"
      /\ Continue(ops) /\ UNCHANGED <<dcx, functions>> /\ fd \in FunDef
      /\ fd' = [fd EXCEPT !.params = Append(fd.params, v)]
  BY <1>1, TopArg
  DEF StubInput, Execute, output_vars, SignatureInv, ScopeInv, FnOps, ExtractionInv, TypeOK
<1>3. i \in DOMAIN crate.inputs[fd.def]
  BY <1>1, <1>2, TopOfStack DEF ExtractionInv, StackOK, InputsInRange
<1>4. crate.inputs[fd.def] \in Seq(Seq(DefIds))
  BY <1>2, CrateTypes, FunDefType
<1>5. crate.inputs[fd.def][i] \in Seq(DefIds)
  BY <1>3, <1>4, LenProperties
<1>6. Quiet(ops)
  BY <1>1, <1>5, QuietDefs DEF DefOps, Scoped, Contextual
<1>7. ops \in Seq(Op) /\ Lacks(ops, Unsigned)
  BY <1>6, QuietUnsigned
<1>8. fd'.def = fd.def /\ fd'.extern = fd.extern
  BY <1>2 DEF FunDef
<1> QED
  BY <1>2, <1>7, <1>8, SignatureQuiet DEF Unsigned

(* extract_spec_fn leaves the signature alone.                              *)
LEMMA SignatureSpec ==
  ASSUME SignatureInv, ScopeInv', HirKept, crate' = crate, ExtractSpec
  PROVE  SignatureInv'
<1>1. PICK s, ops : s = Head(todo).arg /\ ops = BindingOps(s) \o crate.body[s]
  OBVIOUS
<1>2. /\ ExtractionInv /\ crate \in Crates /\ todo # <<>> /\ Head(todo).op = "spec"
      /\ s \in DefIds /\ Continue(ops) /\ functions' = functions
      /\ fd' = AttachSpec(s) /\ fd \in FunDef
  BY <1>1, TopArg
  DEF ExtractSpec, Execute, output_vars, DefOps, FnOps, SignatureInv, ScopeInv, ExtractionInv, TypeOK
<1>3. crate.spec_type[s] \in SpecTypes
  BY <1>1, <1>2, TopOfStack DEF ExtractionInv, StackOK, SpecsByType
<1>4. fd'.def = fd.def /\ fd'.params = fd.params /\ fd'.extern = fd.extern
  BY <1>2, <1>3 DEF AttachSpec, FunDef, SpecTypes
<1>5. ops \in Seq(Op) /\ Lacks(ops, Unsigned)
  <2>1. Pushed(BindingOps(s)) /\ Pushed(crate.body[s])
    BY <1>2, CrateTypes, PushedBindings, PushedBody
  <2>2. Pushed(ops)
    BY <1>1, <2>1, PushedConcat
  <2>3. PICK binds, body :
          /\ binds = BindingOps(s) /\ body = crate.body[s] /\ ops = binds \o body
          /\ binds \in Seq(Op) /\ body \in Seq(Op)
    BY <1>1, <2>1 DEF Pushed
  <2>4. /\ \A i \in DOMAIN binds : binds[i].op = "bind"
        /\ \A i \in DOMAIN body : body[i].op # "param"
    BY <1>2, <2>3, BindingOpsAre, BodyOpsAre DEF Lacks
  <2>5. \A i \in DOMAIN (binds \o body) :
          \/ i \in DOMAIN binds /\ (binds \o body)[i] = binds[i]
          \/ i - Len(binds) \in DOMAIN body /\ (binds \o body)[i] = body[i - Len(binds)]
    BY <2>3, ConcatFrom
  <2>6. \A i \in DOMAIN ops : ops[i].op # "param"
    BY <2>3, <2>4, <2>5
  <2> QED
    BY <2>2, <2>6 DEF Pushed, Lacks, Unsigned, Rooted
<1> QED
  BY <1>2, <1>4, <1>5, SignatureQuiet DEF Unsigned

(* enter_body: the parameters are next to each other before the body.       *)
LEMMA SignatureEnter ==
  ASSUME SignatureInv, ScopeInv', HirKept, crate' = crate, EnterBody
  PROVE  SignatureInv'
<1>1. PICK g, binds, types, params, body :
        /\ g = Head(todo).arg /\ binds = BindingOps(g)
        /\ types = Ops("type", crate.types[g]) /\ params = Ops("param", crate.params[g])
        /\ body = crate.body[g]
  OBVIOUS
<1>2. PICK front, upper, ops :
        front = binds \o types /\ upper = front \o params /\ ops = upper \o body
  OBVIOUS
<1>3. /\ ExtractionInv /\ crate \in Crates /\ todo # <<>> /\ Head(todo).op = "enter"
      /\ g \in DefIds /\ Continue(ops) /\ UNCHANGED <<fd, functions>> /\ DOMAIN dcx' = {}
      /\ todo \in Seq(Op) /\ 1 \in DOMAIN todo /\ Head(todo) = todo[1]
  <2>1. ExtractionInv /\ crate \in Crates /\ todo \in Seq(Op) /\ todo # <<>> /\ Head(todo).op = "enter"
    BY DEF EnterBody, Execute, SignatureInv, ScopeInv, ExtractionInv, TypeOK
  <2>2. ScopeInv
    BY DEF SignatureInv
  <2>3. /\ g \in DefIds /\ Continue(binds \o types \o params \o body)
        /\ UNCHANGED <<fd, functions>> /\ DOMAIN dcx' = {}
    BY <1>1, <2>2, TopArg DEF EnterBody, Execute, output_vars, DefOps, ScopeInv, ExtractionInv, TypeOK
  <2>4. Continue(ops)
    BY <1>2, <2>3
  <2> QED
    BY <2>1, <2>3, <2>4, TopOfStack
<1>4. /\ binds \in Seq(Op) /\ \A i \in DOMAIN binds : binds[i].op = "bind"
      /\ types \in Seq(Op) /\ \A i \in DOMAIN types : types[i].op = "type"
      /\ params \in Seq(Op) /\ DOMAIN params = DOMAIN crate.params[g]
      /\ \A i \in DOMAIN params : params[i].op = "param" /\ params[i].arg = crate.params[g][i]
  BY <1>1, <1>3, CrateTypes, BindingOpsAre, DefOpsType, HirOpsType DEF DefOps, HirOps
<1>5. /\ front \in Seq(Op) /\ \A i \in DOMAIN front : front[i].op \in {"bind", "type"}
      /\ params \in Seq(Op) /\ DOMAIN params = DOMAIN crate.params[g]
      /\ \A i \in DOMAIN params : params[i].op = "param" /\ params[i].arg = crate.params[g][i]
      /\ body \in Seq(Op) /\ \A i \in DOMAIN body : body[i].op \notin Unsigned
  <2>1. binds \in Seq(Op) /\ types \in Seq(Op)
    BY <1>4
  <2>2. /\ (binds \o types) \in Seq(Op)
        /\ \A i \in DOMAIN (binds \o types) :
             \/ i \in DOMAIN binds /\ (binds \o types)[i] = binds[i]
             \/ i - Len(binds) \in DOMAIN types /\ (binds \o types)[i] = types[i - Len(binds)]
    BY <2>1, ConcatFrom
  <2>3. front \in Seq(Op) /\ \A i \in DOMAIN front : front[i].op \in {"bind", "type"}
    BY <1>2, <1>4, <2>2
  <2>4. Pushed(body) /\ Lacks(body, {"bind", "param", "enter", "spec", "ret"})
    BY <1>1, <1>3, CrateTypes, PushedBody, BodyOpsAre
  <2>5. body \in Seq(Op) /\ \A i \in DOMAIN body : body[i].op \notin Unsigned
    BY <2>4 DEF Pushed, Lacks, Rooted, Unsigned
  <2> QED
    BY <1>4, <2>3, <2>5
<1>6. PICK k, m \in Nat : /\ k = Len(front) /\ m = Len(crate.params[g])
                          /\ DOMAIN front = 1 .. k /\ DOMAIN params = 1 .. m
  BY <1>3, <1>5, CrateTypes, LenProperties
<1>7. /\ ops \in Seq(Op) /\ Lacks(ops, {"enter", "input", "emit", "stub"})
      /\ \A i \in DOMAIN ops : ops[i].op = "param" =>
           i - k \in 1 .. m /\ ops[i].arg = crate.params[g][i - k]
      /\ \A j \in 1 .. m : k + j \in DOMAIN ops /\ ops[k + j].op = "param"
  <2>1. front \in Seq(Op) /\ params \in Seq(Op) /\ body \in Seq(Op)
    BY <1>5
  <2>2. /\ upper \in Seq(Op)
        /\ \A i \in DOMAIN upper : \/ i \in DOMAIN front /\ upper[i] = front[i]
                                   \/ i - k \in DOMAIN params /\ upper[i] = params[i - k]
        /\ \A j \in DOMAIN params : k + j \in DOMAIN upper /\ upper[k + j] = params[j]
    <3>1. /\ front \o params \in Seq(Op)
          /\ \A i \in DOMAIN (front \o params) :
               \/ i \in DOMAIN front /\ (front \o params)[i] = front[i]
               \/ i - Len(front) \in DOMAIN params /\ (front \o params)[i] = params[i - Len(front)]
          /\ \A j \in DOMAIN params : /\ Len(front) + j \in DOMAIN (front \o params)
                                      /\ (front \o params)[Len(front) + j] = params[j]
      BY <2>1, ConcatFrom
    <3> QED
      BY <1>6, <1>2, <3>1
  <2>3. /\ ops \in Seq(Op)
        /\ \A i \in DOMAIN ops : \/ i \in DOMAIN upper /\ ops[i] = upper[i]
                                 \/ i - Len(upper) \in DOMAIN body /\ ops[i] = body[i - Len(upper)]
        /\ \A i \in DOMAIN upper : i \in DOMAIN ops /\ ops[i] = upper[i]
    <3>1. upper \in Seq(Op) /\ body \in Seq(Op)
      BY <2>1, <2>2
    <3> QED
      BY <1>2, <3>1, ConcatFrom
  <2>4. ASSUME NEW i \in DOMAIN ops
        PROVE  /\ ops[i].op \notin {"enter", "input", "emit", "stub"}
               /\ ops[i].op = "param" => i - k \in 1 .. m /\ ops[i].arg = crate.params[g][i - k]
    <3>1. CASE i \in DOMAIN upper /\ ops[i] = upper[i]
      <4>1. CASE i \in DOMAIN front /\ upper[i] = front[i]
        BY <1>5, <3>1, <4>1
      <4>2. CASE i - k \in DOMAIN params /\ upper[i] = params[i - k]
        BY <1>5, <1>6, <3>1, <4>2
      <4> QED
        BY <2>2, <3>1, <4>1, <4>2
    <3>2. CASE i - Len(upper) \in DOMAIN body /\ ops[i] = body[i - Len(upper)]
      BY <1>5, <3>2 DEF Unsigned
    <3> QED
      BY <2>3, <3>1, <3>2
  <2>5. ASSUME NEW j \in 1 .. m PROVE k + j \in DOMAIN ops /\ ops[k + j].op = "param"
    <3>1. j \in DOMAIN params /\ params[j].op = "param"
      BY <1>5, <1>6
    <3>2. k + j \in DOMAIN upper /\ upper[k + j] = params[j]
      BY <2>2, <3>1
    <3> QED
      BY <2>3, <3>1, <3>2
  <2> QED
    BY <2>3, <2>4, <2>5 DEF Lacks
<1>8. PICK c \in Nat : c = Len(ops)
  BY <1>7, LenProperties
<1>9. /\ todo' \in Seq(Op)
      /\ \A i \in DOMAIN todo' :
           \/ i \in DOMAIN ops /\ todo'[i] = ops[i]
           \/ i - c + 1 \in DOMAIN todo /\ i - c + 1 >= 2 /\ todo'[i] = todo[i - c + 1]
  BY <1>3, <1>7, <1>8, Continued
<1>10. \A i \in DOMAIN ops : i \in DOMAIN todo' /\ todo'[i] = ops[i]
  <2>1. PICK rest : rest = Tail(todo)
    OBVIOUS
  <2>2. rest \in Seq(Op) /\ todo' = ops \o rest
    BY <1>3, <2>1, HeadTailProperties DEF Continue
  <2> QED
    BY <1>7, <2>2, ConcatFrom
<1>11. \A j \in DOMAIN todo : j >= 2 => todo[j].op # "enter"
  BY <1>3 DEF SignatureInv, EnteredOnce
<1>12. \A i \in DOMAIN todo' : todo'[i].op # "enter"
  BY <1>7, <1>9, <1>11 DEF Lacks
<1>13. KindKnown'
  BY <1>3, <1>7, <1>9 DEF SignatureInv, KindKnown, Lacks
<1>14. EnteredOnce' /\ ~Occurs("enter")'
  BY <1>12 DEF EnteredOnce, Occurs
<1>15. Signatures'
  BY <1>3, SignaturesKept DEF SignatureInv, Signatures
<1>16. g = fd.def
  BY <1>1, <1>3 DEF SignatureInv, ScopeInv, OwnBody
<1>17. ASSUME Occurs("emit")' PROVE ParamsInOrder' /\ Named(fd)' /\ OwnContext'
  <2>1. Occurs("emit") /\ Occurs("enter")
    BY <1>3, <1>7, <1>9, <1>17 DEF Occurs, Lacks
  <2>2. fd.params = <<>> /\ ~Occurs("param")
    BY <2>1 DEF SignatureInv, ParamsInOrder
  <2>3. Named(fd)' /\ OwnContext'
    BY <1>3, <2>2 DEF Named, OwnContext
  <2>4. \A i \in DOMAIN todo' : todo'[i].op = "param" => i \in DOMAIN ops /\ todo'[i] = ops[i]
    BY <1>9, <2>2 DEF Occurs
  <2>5. \A i \in Int : IsParam(i)' <=> i - k \in 1 .. m
    <3>1. ASSUME NEW i \in Int, IsParam(i)' PROVE i - k \in 1 .. m
      BY <1>7, <2>4, <3>1 DEF IsParam
    <3>2. ASSUME NEW i \in Int, i - k \in 1 .. m PROVE IsParam(i)'
      <4>1. PICK j \in 1 .. m : j = i - k
        BY <3>2
      <4>2. k + j = i
        BY <4>1
      <4> QED
        BY <1>7, <1>10, <4>2 DEF IsParam
    <3> QED
      BY <3>1, <3>2
  <2>6. ParamsFrom(k)'
    <3>1. /\ Len(fd'.params) = 0 /\ Len(crate'.params[fd'.def]) = m
      BY <1>3, <1>6, <1>16, <2>2
    <3> QED
      BY <2>5, <3>1 DEF ParamsFrom
  <2>7. ArgsFrom(k)'
    BY <1>3, <1>7, <1>16, <2>4 DEF ArgsFrom
  <2>8. ParamsInOrder'
    BY <1>14, <2>6, <2>7 DEF ParamsInOrder
  <2> QED
    BY <2>3, <2>8
<1> QED
  BY <1>13, <1>14, <1>15, <1>17 DEF SignatureInv

(* add_function: a function of the crate has all its parameters then.       *)
LEMMA SignatureAdd ==
  ASSUME SignatureInv, ScopeInv', HirKept, crate' = crate,
         NEW kind \in {"emit", "stub"}, AddFunction(kind)
  PROVE  SignatureInv'
<1>1. PICK id : id = did_to_stid'[Head(todo).arg]
  OBVIOUS
<1>2. /\ functions' = Insert(functions, id, fd) /\ fd' = NoFunction
      /\ ExtractionInv /\ Execute(kind) /\ Continue(<<>>) /\ crate \in Crates
  BY <1>1 DEF AddFunction, SignatureInv, ScopeInv, ExtractionInv, TypeOK
<1>3. /\ 1 \in DOMAIN todo /\ todo[1].op = kind /\ todo # <<>> /\ todo \in Seq(Op)
      /\ Len(todo) = 1 /\ DOMAIN todo = {1} /\ fd \in FunDef
  <2>1. 1 \in DOMAIN todo /\ todo[1].op = kind /\ todo # <<>> /\ todo \in Seq(Op)
    BY <1>2, TopOfStack DEF Execute, ExtractionInv, TypeOK
  <2>2. Len(todo) = 1
    BY <1>2, <2>1 DEF ExtractionInv, StackOK, AddedLast
  <2>3. DOMAIN todo = {1}
    BY <2>1, <2>2, LenProperties
  <2>4. fd \in FunDef
    BY <1>2, <2>1 DEF ExtractionInv, StackOK, InFunction, FnOps
  <2> QED
    BY <2>1, <2>2, <2>3, <2>4
<1>4. todo' = <<>>
  <2>1. Tail(todo) \in Seq(Op) /\ Len(Tail(todo)) = 0
    BY <1>3, HeadTailProperties
  <2>2. Tail(todo) = <<>>
    BY <2>1, EmptySeq
  <2> QED
    BY <1>2, <2>2 DEF Continue
<1>5. ~fd.extern => OwnParameters(fd)
  <2> SUFFICES ASSUME ~fd.extern PROVE OwnParameters(fd)
    OBVIOUS
  <2>1. Occurs("emit") /\ ~Occurs("enter") /\ ~Occurs("param")
    BY <1>3 DEF SignatureInv, KindKnown, Occurs
  <2>2. Named(fd) /\ \E k \in Int : ParamsFrom(k)
    BY <2>1 DEF SignatureInv, ParamsInOrder
  <2>3. PICK k \in Int : ParamsFrom(k)
    BY <2>2
  <2>4. PICK n, m \in Nat :
          /\ n = Len(fd.params) /\ DOMAIN fd.params = 1 .. n
          /\ m = Len(crate.params[fd.def]) /\ DOMAIN crate.params[fd.def] = 1 .. m
    <3>1. fd.params \in Seq(SymbolId) /\ crate.params[fd.def] \in Seq(HirIds)
      BY <1>2, <1>3, FunDefType, CrateTypes
    <3> QED
      BY <3>1, LenProperties
  <2>5. n <= m /\ \A i \in Int : i - k \notin n + 1 .. m
    BY <2>1, <2>3, <2>4 DEF ParamsFrom, IsParam, Occurs
  <2>6. n = m
    <3>1. PICK i \in Int : i = k + m
      BY <2>4
    <3>2. i - k = m /\ m \notin n + 1 .. m
      BY <2>4, <2>5, <3>1
    <3> QED
      BY <2>4, <2>5, <3>2
  <2> QED
    BY <2>2, <2>4, <2>6 DEF Named, OwnParameters
<1>6. Signatures'
  <2> SUFFICES ASSUME NEW x \in DOMAIN functions', NEW f, f = functions'[x], ~f.extern
               PROVE  OwnParameters(f)'
    BY DEF Signatures
  <2>1. CASE x = id
    <3>1. OwnParameters(f)
      BY <1>2, <1>5, <2>1 DEF Insert
    <3> QED
      BY <3>1 DEF OwnParameters, HirKept
  <2>2. CASE x # id
    <3>1. x \in DOMAIN functions /\ f = functions[x]
      BY <1>2, <2>2 DEF Insert
    <3> QED
      BY <3>1, SignaturesKept DEF SignatureInv
  <2> QED
    BY <2>1, <2>2
<1> QED
  BY <1>4, <1>6 DEF SignatureInv, KindKnown, EnteredOnce, Occurs

(* A body is entered at one place in a sequence of operations.              *)
EnterAt(ops, n) ==
  /\ n \in DOMAIN ops /\ ops[n].op = "enter"
  /\ \A i \in DOMAIN ops : ops[i].op = "enter" => i = n

(* What two sequences lack, their concatenation lacks.                      *)
LEMMA LacksConcat ==
  ASSUME NEW kinds, NEW s \in Seq(Op), NEW t \in Seq(Op), Lacks(s, kinds), Lacks(t, kinds)
  PROVE  s \o t \in Seq(Op) /\ Lacks(s \o t, kinds)
<1>1. /\ s \o t \in Seq(Op)
      /\ \A i \in DOMAIN (s \o t) :
              \/ i \in DOMAIN s /\ (s \o t)[i] = s[i]
              \/ i - Len(s) \in DOMAIN t /\ (s \o t)[i] = t[i - Len(s)]
  BY ConcatFrom
<1> QED
  BY <1>1 DEF Lacks

(* It enters the body where one of them does.                               *)
LEMMA EnterConcat ==
  ASSUME NEW s \in Seq(Op), NEW t \in Seq(Op)
  PROVE  /\ \A n : EnterAt(s, n) /\ Lacks(t, {"enter"}) => EnterAt(s \o t, n)
         /\ Lacks(s, {"enter"}) /\ DOMAIN t = {1} /\ t[1].op = "enter" =>
              EnterAt(s \o t, Len(s) + 1)
<1>1. PICK st : st = s \o t
  OBVIOUS
<1>2. /\ s \o t \in Seq(Op)
      /\ \A i \in DOMAIN (s \o t) :
              \/ i \in DOMAIN s /\ (s \o t)[i] = s[i]
              \/ i - Len(s) \in DOMAIN t /\ (s \o t)[i] = t[i - Len(s)]
      /\ \A i \in DOMAIN s : i \in DOMAIN (s \o t) /\ (s \o t)[i] = s[i]
      /\ \A i \in DOMAIN t : Len(s) + i \in DOMAIN (s \o t) /\ (s \o t)[Len(s) + i] = t[i]
  BY ConcatFrom
<1>3. /\ st \in Seq(Op)
      /\ \A i \in DOMAIN st :
              \/ i \in DOMAIN s /\ st[i] = s[i]
              \/ i - Len(s) \in DOMAIN t /\ st[i] = t[i - Len(s)]
      /\ \A i \in DOMAIN s : i \in DOMAIN st /\ st[i] = s[i]
      /\ \A i \in DOMAIN t : Len(s) + i \in DOMAIN st /\ st[Len(s) + i] = t[i]
  BY <1>1, <1>2
<1>4. Len(s) \in Nat /\ DOMAIN st \subseteq Nat
  BY <1>3, LenProperties
<1>5. ASSUME NEW n, EnterAt(s, n), Lacks(t, {"enter"}) PROVE EnterAt(st, n)
  BY <1>3, <1>5 DEF EnterAt, Lacks
<1>6. ASSUME Lacks(s, {"enter"}), DOMAIN t = {1}, t[1].op = "enter"
      PROVE  EnterAt(st, Len(s) + 1)
  <2>1. Len(s) + 1 \in DOMAIN st /\ st[Len(s) + 1].op = "enter"
    BY <1>3, <1>6
  <2>2. ASSUME NEW i \in DOMAIN st, st[i].op = "enter" PROVE i = Len(s) + 1
    <3>1. i - Len(s) = 1
      BY <1>3, <1>6, <2>2 DEF Lacks
    <3> QED
      BY <1>4, <3>1
  <2> QED
    BY <2>1, <2>2 DEF EnterAt
<1> QED
  BY <1>1, <1>5, <1>6

(* Operations on definitions are of one kind.                               *)
LEMMA LacksDefs ==
  ASSUME NEW kind \in DefOps, NEW args \in Seq(DefIds), NEW ops, ops = Ops(kind, args)
  PROVE  ops \in Seq(Op) /\ \A kinds : kind \notin kinds => Lacks(ops, kinds)
  BY DefOpsType DEF Lacks

(* extract_local_fn: the operations of a function enter its body once, and  *)
(* its parameters are not among them.                                       *)
LEMMA FunctionShape ==
  ASSUME ExtractionInv, NEW g \in DefIds, NEW ops, ops = FunctionOps(g)
  PROVE  /\ ops \in Seq(Op) /\ Lacks(ops, {"param", "input", "stub"})
         /\ \E n : EnterAt(ops, n)
<1> DEFINE none == {"param", "input", "stub"}
           more == {"enter", "param", "input", "stub"}
<1>1. PICK gen, enter, m, p, ret, q, last :
        /\ gen = GenericsOps(g) /\ enter = One("enter", g)
        /\ m = Ops("spec", FirstOf(specs[g]["measure"]))
        /\ p = Ops("spec", specs[g]["pre"]) /\ ret = One("ret", NoDef)
        /\ q = Ops("spec", specs[g]["post"]) /\ last = One("emit", g)
  OBVIOUS
<1>2. /\ specs[g]["measure"] \in Seq(DefIds) /\ specs[g]["pre"] \in Seq(DefIds)
      /\ specs[g]["post"] \in Seq(DefIds) /\ crate \in Crates
  BY DEF ExtractionInv, TypeOK, SpecTypes
<1>3. FirstOf(specs[g]["measure"]) \in Seq(DefIds)
  BY <1>2, HeadTailProperties DEF FirstOf
<1>4. /\ m \in Seq(Op) /\ Lacks(m, more) /\ p \in Seq(Op) /\ Lacks(p, more)
      /\ q \in Seq(Op) /\ Lacks(q, more)
  BY <1>1, <1>2, <1>3, LacksDefs DEF DefOps
<1>5. /\ enter \in Seq(Op) /\ DOMAIN enter = {1} /\ enter[1].op = "enter" /\ Lacks(enter, none)
      /\ ret \in Seq(Op) /\ Lacks(ret, more) /\ last \in Seq(Op) /\ Lacks(last, more)
  <2>1. /\ enter \in Seq(Op) /\ DOMAIN enter = {1} /\ enter[1].op = "enter"
        /\ last \in Seq(Op) /\ DOMAIN last = {1} /\ last[1].op = "emit"
    BY <1>1, OneType DEF DefOps
  <2>2. ret \in Seq(Op) /\ DOMAIN ret = {1} /\ ret[1].op = "ret"
    BY <1>1, OneRet
  <2> QED
    BY <2>1, <2>2 DEF Lacks
<1>6. gen \in Seq(Op) /\ Lacks(gen, more)
  BY <1>1, <1>2, QuietAdt DEF Quiet, Lacks, Scoped, Contextual
<1>7. \A x : Lacks(x, more) => Lacks(x, none) /\ Lacks(x, {"enter"})
  BY DEF Lacks
<1>8. PICK begun, measured, required, returned, ensured :
        /\ begun = gen \o enter /\ measured = begun \o m /\ required = measured \o p
        /\ returned = required \o ret /\ ensured = returned \o q
  OBVIOUS
<1>9. PICK n : n = Len(gen) + 1
  OBVIOUS
<1>10. begun \in Seq(Op) /\ Lacks(begun, none) /\ EnterAt(begun, n)
  BY <1>5, <1>6, <1>7, <1>8, <1>9, LacksConcat, EnterConcat
<1>11. measured \in Seq(Op) /\ Lacks(measured, none) /\ EnterAt(measured, n)
  BY <1>4, <1>7, <1>8, <1>10, LacksConcat, EnterConcat
<1>12. required \in Seq(Op) /\ Lacks(required, none) /\ EnterAt(required, n)
  BY <1>4, <1>7, <1>8, <1>11, LacksConcat, EnterConcat
<1>13. returned \in Seq(Op) /\ Lacks(returned, none) /\ EnterAt(returned, n)
  BY <1>5, <1>7, <1>8, <1>12, LacksConcat, EnterConcat
<1>14. ensured \in Seq(Op) /\ Lacks(ensured, none) /\ EnterAt(ensured, n)
  BY <1>4, <1>7, <1>8, <1>13, LacksConcat, EnterConcat
<1>15. ops = ensured \o last
  BY <1>1, <1>8 DEF FunctionOps
<1>16. ops \in Seq(Op) /\ Lacks(ops, none) /\ EnterAt(ops, n)
  BY <1>5, <1>7, <1>14, <1>15, LacksConcat, EnterConcat
<1> QED
  BY <1>16

(* extract_extern_fn: a stub has neither a body nor parameters of the crate.*)
LEMMA StubShape ==
  ASSUME ExtractionInv, NEW g \in DefIds, NEW ops, ops = StubOps(g)
  PROVE  ops \in Seq(Op) /\ Lacks(ops, {"enter", "param", "emit"})
<1> DEFINE none == {"enter", "param", "emit"}
<1>1. PICK gen, inputs, result, last :
        /\ gen = GenericsOps(g) /\ result = Ops("type", crate.types[g])
        /\ inputs = [i \in DOMAIN crate.inputs[g] |-> [op |-> "input", arg |-> i]]
        /\ last = One("stub", g)
  OBVIOUS
<1>2. crate \in Crates
  BY DEF ExtractionInv, TypeOK
<1>3. inputs \in Seq(Op) /\ Lacks(inputs, none)
  <2>1. crate.inputs[g] \in Seq(Seq(DefIds))
    BY <1>2, CrateTypes
  <2>2. Len(crate.inputs[g]) \in Nat /\ DOMAIN crate.inputs[g] = 1 .. Len(crate.inputs[g])
    BY <2>1, LenProperties
  <2>3. \A i \in 1 .. Len(crate.inputs[g]) : [op |-> "input", arg |-> i] \in Op
    BY <2>2 DEF Op
  <2>4. inputs \in Seq(Op) /\ DOMAIN inputs = DOMAIN crate.inputs[g]
    BY <1>1, <2>2, <2>3
  <2>5. \A i \in DOMAIN inputs : inputs[i].op = "input"
    BY <1>1, <2>4
  <2> QED
    BY <2>4, <2>5 DEF Lacks
<1>4. gen \in Seq(Op) /\ Lacks(gen, none)
  BY <1>1, <1>2, QuietAdt DEF Quiet, Lacks, Scoped, Contextual
<1>5. result \in Seq(Op) /\ Lacks(result, none)
  BY <1>1, <1>2, CrateTypes, LacksDefs DEF DefOps
<1>6. last \in Seq(Op) /\ Lacks(last, none)
  BY <1>1, OneType DEF DefOps, Lacks
<1>7. PICK begun, typed : begun = gen \o inputs /\ typed = begun \o result
  OBVIOUS
<1>8. begun \in Seq(Op) /\ Lacks(begun, none)
  BY <1>3, <1>4, <1>7, LacksConcat
<1>9. typed \in Seq(Op) /\ Lacks(typed, none)
  BY <1>5, <1>7, <1>8, LacksConcat
<1>10. ops = typed \o last
  BY <1>1, <1>7 DEF StubOps
<1> QED
  BY <1>6, <1>9, <1>10, LacksConcat

(* The loops of process_crate begin a function without parameters, before   *)
(* its body.                                                                *)
LEMMA SignatureLoops ==
  ASSUME SignatureInv, ScopeInv', HirKept, crate' = crate, Loops
  PROVE  SignatureInv'
<1>1. ExtractionInv
  BY DEF SignatureInv, ScopeInv
<1>2. functions' = functions
  BY DEF Loops, StartAdt, AdtsDone, StartFunction, FunctionsDone, StartStub, StubsDone, output_vars
<1>3. Signatures'
  BY <1>2, SignaturesKept DEF SignatureInv, Signatures
<1>4. CASE StartFunction
  <2>1. PICK g, ops : g = Head(fn_items) /\ ops = FunctionOps(g)
    OBVIOUS
  <2>2. g \in DefIds /\ todo' = ops /\ fd' = EmptyFd(g, FALSE)
    BY <1>1, <1>4, <2>1, HeadTailProperties DEF StartFunction, ExtractionInv, TypeOK
  <2>3. PICK n : /\ ops \in Seq(Op) /\ Lacks(ops, {"param", "input", "stub"})
                 /\ EnterAt(ops, n)
    BY <1>1, <2>1, <2>2, FunctionShape
  <2>4. fd'.params = <<>> /\ ~fd'.extern
    BY <2>2 DEF EmptyFd
  <2>5. Occurs("enter")' /\ ~Occurs("param")'
    BY <2>2, <2>3 DEF Occurs, EnterAt, Lacks
  <2>6. KindKnown' /\ EnteredOnce'
    BY <2>2, <2>3, <2>4 DEF KindKnown, EnteredOnce, EnterAt, Lacks
  <2>7. ParamsInOrder' /\ Named(fd)' /\ OwnContext'
    BY <2>4, <2>5 DEF ParamsInOrder, Named, OwnContext
  <2> QED
    BY <1>3, <2>6, <2>7 DEF SignatureInv
<1>5. CASE StartStub
  <2>1. PICK g \in stubs : todo' = StubOps(g) /\ fd' = EmptyFd(g, TRUE)
    BY <1>5 DEF StartStub
  <2>2. g \in DefIds
    BY <1>1, <2>1 DEF ExtractionInv, TypeOK
  <2>3. Lacks(todo', {"enter", "param", "emit"})
    BY <1>1, <2>1, <2>2, StubShape
  <2>4. fd'.extern
    BY <2>1 DEF EmptyFd
  <2>5. KindKnown' /\ EnteredOnce' /\ ~Occurs("emit")'
    BY <2>3, <2>4 DEF KindKnown, EnteredOnce, Occurs, Lacks
  <2> QED
    BY <1>3, <2>5 DEF SignatureInv
<1>6. CASE StartAdt \/ AdtsDone \/ FunctionsDone \/ StubsDone
  <2>1. \A i \in DOMAIN todo' : todo'[i].op \in {"adt", "addAdt"}
    <3>1. CASE StartAdt
      BY <3>1 DEF StartAdt, One
    <3>2. CASE AdtsDone \/ FunctionsDone \/ StubsDone
      BY <3>2 DEF AdtsDone, FunctionsDone, StubsDone, Idle
    <3> QED
      BY <1>6, <3>1, <3>2
  <2>2. KindKnown' /\ EnteredOnce' /\ ~Occurs("emit")'
    BY <2>1 DEF KindKnown, EnteredOnce, Occurs
  <2> QED
    BY <1>3, <2>2 DEF SignatureInv
<1> QED
  BY <1>4, <1>5, <1>6 DEF Loops

(* The invariant is inductive.                                              *)
LEMMA SignatureStep ==
  ASSUME SignatureInv, [Next]_vars
  PROVE  SignatureInv'
<1>1. ScopeInv' /\ HirKept
  BY ScopeStep, ExtractionNext, HirGrows DEF SignatureInv, ScopeInv
<1>2. crate' = crate
  BY DEF Next, vars, Discovery, VisitAdt, VisitFn, VisitedFns, VisitOther, DiscoveryDone,
    Discover, Loops, StartAdt, AdtsDone, StartFunction, FunctionsDone, StartStub, StubsDone,
    Traversal, TypeParameter, MentionType, ExtractAdt, Constructor, Field, SortBuilt,
    AddAdt, Call, EnterBody, KnownBinding, NewBinding, Parameter, VarRef, Unsupported,
    ExtractSpec, ReturnVar, AddFunction, StubInput, Execute, Panic
<1>3. CASE Discovery \/ Panic \/ UNCHANGED vars
  <2>1. UNCHANGED <<todo, dcx, fd, functions, hid_to_stid>>
    BY <1>3 DEF Discovery, VisitAdt, VisitFn, VisitedFns, VisitOther, DiscoveryDone,
      Discover, Panic, vars, mapping_vars, output_vars
  <2>2. Signatures'
    BY <1>1, <1>2, <2>1, SignaturesKept DEF SignatureInv, Signatures
  <2>3. KindKnown' /\ EnteredOnce' /\ (Occurs("emit")' <=> Occurs("emit"))
    BY <2>1 DEF SignatureInv, KindKnown, EnteredOnce, Occurs
  <2>4. Occurs("emit") => ParamsInOrder' /\ Named(fd)' /\ OwnContext'
    <3>1. ParamsInOrder => ParamsInOrder'
      BY <1>2, <2>1 DEF ParamsInOrder, ParamsFrom, ArgsFrom, IsParam, Occurs
    <3>2. (Named(fd) => Named(fd)') /\ (OwnContext => OwnContext')
      BY <1>2, <2>1 DEF Named, OwnContext, Occurs
    <3> QED
      BY <3>1, <3>2 DEF SignatureInv
  <2> QED
    BY <1>1, <2>2, <2>3, <2>4 DEF SignatureInv
<1>4. CASE Loops
  BY <1>1, <1>2, <1>4, SignatureLoops
<1>5. CASE Traversal
  <2>1. \/ UnscopedStep \/ NewBinding \/ Parameter \/ VarRef \/ ReturnVar
        \/ StubInput \/ ExtractSpec \/ EnterBody \/ AddFunction("emit") \/ AddFunction("stub")
        \/ Panic
    BY <1>5 DEF Traversal, UnscopedStep
  <2> QED
    BY <1>1, <1>2, <1>3, <2>1, SignatureVariables, SignatureInput, SignatureSpec, SignatureEnter,
       SignatureAdd
<1> QED
  BY <1>3, <1>4, <1>5 DEF Next

(* So signatures are in order throughout an extraction.                     *)
LEMMA SignatureInvariant == Spec => []SignatureInv
<1>1. Init => SignatureInv
  <2> SUFFICES ASSUME Init PROVE SignatureInv
    OBVIOUS
  <2>1. todo = <<>> /\ functions = [id \in {} |-> id] /\ fd.vars = {}
    BY DEF Init, NoFunction, EmptyFd
  <2>2. ScopeInv
    BY <2>1, ExtractionInitInv
    DEF ScopeInv, Ordered, OwnBody, OneResult, BindingsOwned, ContextInScope, UsesInScope
  <2> QED
    BY <2>1, <2>2 DEF SignatureInv, KindKnown, EnteredOnce, Occurs, Signatures
<1>2. SignatureInv /\ [Next]_vars => SignatureInv'
  BY SignatureStep
<1> QED
  BY <1>1, <1>2, PTL DEF Spec

(* extract_binding, extract_spec_fn, fetch_var: each parameter of a function*)
(* of the crate is the variable of the pattern in its position, each name in*)
(* a spec function of it stands for the parameter in its position or for the*)
(* result, any other for the binding of its own body, and a function and its*)
(* contract mention nothing else.                                           *)
THEOREM ContractsInScope == Spec => []VariablesInScope
<1>1. SignatureInv => VariablesInScope
  BY DEF SignatureInv, ScopeInv, UsesInScope, Signatures, VariablesInScope
<1> QED
  BY <1>1, SignatureInvariant, PTL

----------------------------------------------------------------------------
(* Completeness.  What the visitor finds ends up in the program, whatever   *)
(* the order of items, impl blocks and stubs: every ADT of the crate becomes*)
(* a sort and every function a definition, under the identifier their uses  *)
(* have, and nothing else does; and every spec function of a function of    *)
(* the crate becomes part of its contract, once and in the place of its     *)
(* type.                                                                    *)

(* What is still to be visited, in a list, or on the stack.                 *)
ToVisit(kind, d) == \E i \in DOMAIN items : items[i].kind = kind /\ d \in items[i].defs
Waiting(s, d) == \E i \in DOMAIN s : s[i] = d
Pending(kind, d) == \E i \in DOMAIN todo : todo[i].op = kind /\ todo[i].arg = d
NonePending(kinds) == \A i \in DOMAIN todo : todo[i].op \notin kinds

(* The items left are those of the crate.                                   *)
ItemsKept ==
  /\ \A i \in DOMAIN items :
       /\ items[i].kind = "adt" => \E d \in LocalAdts(crate) : items[i].defs = {d}
       /\ items[i].kind = "fns" => items[i].defs \subseteq Listed(crate, "fns")
  /\ phase # "discover" => items = <<>>
  /\ phase \in {"discover", "done"} => todo = <<>>

(* No ADT gets lost between the visitor and the sorts, and no other becomes *)
(* a sort.                                                                  *)
IsSort(a) == IsRegistered(a) /\ did_to_stid[a] \in adts
SortsKept ==
  /\ \A i \in DOMAIN adt_items : adt_items[i] \in LocalAdts(crate)
  /\ \A a : Pending("addAdt", a) => a \in LocalAdts(crate)
  /\ \A a \in LocalAdts(crate) :
       ToVisit("adt", a) \/ Waiting(adt_items, a) \/ Pending("addAdt", a) \/ IsSort(a)
  /\ \A id \in adts : \E a \in LocalAdts(crate) : IsRegistered(a) /\ id = did_to_stid[a]
  /\ phase \in {"functions", "externals", "done"} =>
       adt_items = <<>> /\ NonePending({"addAdt"})

(* What may be called; what a function that was added is.                   *)
Callable == UserFns(crate) \cup crate.external
Stubbed == function_refs \cap crate.external
Added(g) == IsRegistered(g) /\ did_to_stid[g] \in DOMAIN functions

(* The functions found and the operations on them are of the right sort,    *)
FunctionsListed ==
  /\ \A i \in DOMAIN fn_items : fn_items[i] \in UserFns(crate)
  /\ \A g \in DefIds, t \in SpecTypes :
       \A i \in DOMAIN specs[g][t] : specs[g][t][i] \in SpecFns(crate)
  /\ \A g : Pending("call", g) => g \in Callable
  /\ \A g : Pending("enter", g) => g \in UserFns(crate)
  /\ \A g : Pending("spec", g) => g \in SpecFns(crate)
  /\ \A g : Pending("emit", g) => g = fd.def /\ ~fd.extern /\ g \in UserFns(crate)
  /\ \A g : Pending("stub", g) => g = fd.def /\ fd.extern /\ g \in Stubbed
  /\ stubs \subseteq Stubbed

(* ... the references and what was added belong to them,                    *)
FunctionsKnown ==
  /\ \A g \in function_refs : g \in Callable /\ IsRegistered(g)
  /\ \A id \in DOMAIN functions :
       LET f == functions[id] IN
       /\ IsRegistered(f.def) /\ id = did_to_stid[f.def]
       /\ \/ ~f.extern /\ f.def \in UserFns(crate)
          \/ f.extern /\ f.def \in Stubbed

(* ... and none gets lost, a stub once the loop over functions is over.     *)
FunctionsKept ==
  /\ \A g \in UserFns(crate) :
       ToVisit("fns", g) \/ Waiting(fn_items, g) \/ Pending("emit", g) \/ Added(g)
  /\ phase \in {"externals", "done"} =>
       /\ fn_items = <<>> /\ NonePending({"call", "enter", "spec", "emit"})
       /\ \A g \in Stubbed : g \in stubs \/ Pending("stub", g) \/ Added(g)
  /\ phase = "done" => stubs = {}

CompleteInv ==
  /\ ExtractionInv
  /\ ItemsKept /\ SortsKept
  /\ FunctionsListed /\ FunctionsKnown /\ FunctionsKept

----------------------------------------------------------------------------
(* No definition is registered under another identifier later.              *)
DidKept ==
  /\ DOMAIN did_to_stid \subseteq DOMAIN did_to_stid'
  /\ \A d \in DOMAIN did_to_stid : did_to_stid'[d] = did_to_stid[d]

(* A step that makes at most one identifier keeps those there are.          *)
LEMMA DidGrows ==
  ASSUME [MappingNext]_mapping_vars
  PROVE  DidKept
  BY DEF MappingNext, RegisterDef, RegisterHir, FreshVar, Insert, mapping_vars, DidKept

(* The definitions of a crate are in its items.                             *)
LEMMA CrateLists ==
  ASSUME crate \in Crates
  PROVE  /\ \A kind, d : d \in Listed(crate, kind) <=>
              \E i \in DOMAIN crate.items : crate.items[i].kind = kind /\ d \in crate.items[i].defs
         /\ LocalAdts(crate) \subseteq DefIds /\ Listed(crate, "fns") \subseteq DefIds
         /\ UserFns(crate) \subseteq Listed(crate, "fns")
         /\ SpecFns(crate) \subseteq Listed(crate, "fns")
         /\ UserFns(crate) \cap crate.external = {}
         /\ Callable \subseteq DefIds
         /\ WellFormed(crate)
<1>1. crate.items \in Seq(Item) /\ WellFormed(crate) /\ crate.external \in SUBSET DefIds
  BY ExtractionAssumption DEF ExtractionAssumption, Crate
<1>2. ASSUME NEW kind, NEW d
      PROVE  d \in Listed(crate, kind) <=>
               \E i \in DOMAIN crate.items : crate.items[i].kind = kind /\ d \in crate.items[i].defs
  BY DEF Listed, Range
<1>3. \A i \in DOMAIN crate.items : crate.items[i].defs \in SUBSET DefIds
  <2>1. \A i \in DOMAIN crate.items : crate.items[i] \in Item
    BY <1>1, LenProperties
  <2> QED
    BY <2>1 DEF Item
<1>4. LocalAdts(crate) \subseteq DefIds /\ Listed(crate, "fns") \subseteq DefIds
  BY <1>2, <1>3 DEF LocalAdts
<1>5. UserFns(crate) \subseteq Listed(crate, "fns") /\ SpecFns(crate) \subseteq Listed(crate, "fns")
  BY DEF UserFns, SpecFns
<1>6. UserFns(crate) \cap crate.external = {}
  BY <1>1, <1>2, <1>5 DEF WellFormed
<1> QED
  BY <1>1, <1>2, <1>4, <1>5, <1>6 DEF Callable

----------------------------------------------------------------------------
(* What an operation of the traversal puts on the stack: nothing that adds  *)
(* to the program, and calls only if it enters a body.                      *)
Follows(ops) ==
  /\ Pushed(ops)
  /\ \A i \in DOMAIN ops : ops[i].op = "call" =>
       ops[i].arg \in Callable /\ Head(todo).op \in {"enter", "spec"}

(* Concatenations, ...                                                      *)
LEMMA FollowsConcat ==
  ASSUME NEW s, NEW t, Follows(s), Follows(t)
  PROVE  Follows(s \o t)
<1>1. s \in Seq(Op) /\ t \in Seq(Op)
  BY DEF Follows, Pushed
<1>2. \A i \in DOMAIN (s \o t) :
        \/ i \in DOMAIN s /\ (s \o t)[i] = s[i]
        \/ i - Len(s) \in DOMAIN t /\ (s \o t)[i] = t[i - Len(s)]
  BY <1>1, ConcatFrom
<1>3. Pushed(s \o t)
  BY PushedConcat DEF Follows
<1> QED
  BY <1>2, <1>3 DEF Follows

(* ... operations on types, ...                                             *)
LEMMA FollowsDefs ==
  ASSUME NEW kind \in {"reg", "type", "variant", "field"}, NEW args \in Seq(DefIds)
  PROVE  Follows(Ops(kind, args))
<1>1. DOMAIN Ops(kind, args) = DOMAIN args /\ \A i \in DOMAIN args : Ops(kind, args)[i].op = kind
  BY DefOpsType DEF DefOps
<1> QED
  BY <1>1, PushedDefs DEF Follows

(* ... on bindings, ...                                                     *)
LEMMA FollowsHirs ==
  ASSUME NEW kind \in HirOps, NEW args \in Seq(HirIds)
  PROVE  Follows(Ops(kind, args))
<1>1. DOMAIN Ops(kind, args) = DOMAIN args /\ \A i \in DOMAIN args : Ops(kind, args)[i].op = kind
  BY HirOpsType
<1> QED
  BY <1>1, PushedHirs DEF Follows, HirOps

(* ... what extract_generics, extract_adt and populate_def_context do, ...  *)
LEMMA FollowsAdt ==
  ASSUME crate \in Crates, NEW d \in DefIds
  PROVE  /\ Follows(GenericsOps(d)) /\ Follows(AdtOps(d))
         /\ Follows(BindingOps(d)) /\ Follows(<<>>)
<1>1. /\ Follows(Ops("reg", crate.tparams[d])) /\ Follows(Ops("type", crate.bounds[d]))
      /\ Follows(Ops("variant", crate.variants[d]))
  BY CrateTypes, FollowsDefs
<1>2. Follows(GenericsOps(d))
  BY <1>1, FollowsConcat DEF GenericsOps
<1>3. Follows(One("sort", d))
  <2>1. DOMAIN One("sort", d) = {1} /\ One("sort", d)[1].op = "sort"
    BY OneType DEF DefOps
  <2> QED
    BY <2>1, PushedSort DEF Follows
<1>4. Follows(GenericsOps(d) \o Ops("variant", crate.variants[d]))
  BY <1>1, <1>2, FollowsConcat
<1>5. Follows(AdtOps(d))
  <2>1. PICK front, last :
          /\ front = GenericsOps(d) \o Ops("variant", crate.variants[d])
          /\ last = One("sort", d)
    OBVIOUS
  <2>2. Follows(front \o last)
    BY <1>3, <1>4, <2>1, FollowsConcat
  <2> QED
    BY <2>1, <2>2 DEF AdtOps
<1>6. Follows(Ops("bind", crate.params[d])) /\ Follows(Ops("bind", crate.locals[d]))
  BY CrateTypes, FollowsHirs DEF HirOps
<1>7. Follows(BindingOps(d))
  BY <1>6, FollowsConcat DEF BindingOps, Collected
<1>8. Follows(<<>>)
  BY PushedEmpty DEF Follows
<1> QED
  BY <1>2, <1>5, <1>7, <1>8

(* ... and bodies.                                                          *)
LEMMA FollowsBody ==
  ASSUME crate \in Crates, NEW g \in UserFns(crate) \cup SpecFns(crate),
         Head(todo).op \in {"enter", "spec"}
  PROVE  Follows(crate.body[g])
<1>1. g \in DefIds /\ WellFormed(crate)
  BY CrateLists
<1>2. crate.body[g] \in Seq(BodyOp)
  BY <1>1, CrateTypes
<1>3. Pushed(crate.body[g])
  BY <1>2, PushedBody
<1>4. \A o \in Range(crate.body[g]) : o.op = "call" => o.arg \in Callable
  BY <1>1 DEF WellFormed, Callable
<1>5. \A i \in DOMAIN crate.body[g] : crate.body[g][i].op = "call" => crate.body[g][i].arg \in Callable
  BY <1>4 DEF Range
<1> QED
  BY <1>3, <1>5 DEF Follows

(* The operations of the traversal, one by one.                             *)
LEMMA TraversalFollows ==
  ASSUME CompleteInv, Traversal, ~Panic
  PROVE  todo # <<>> /\ \E ops : Follows(ops) /\ Continue(ops)
<1>1. todo # <<>>
  BY DEF Traversal, TypeParameter, MentionType, ExtractAdt, Constructor, Field, SortBuilt,
    AddAdt, Call, EnterBody, KnownBinding, NewBinding, Parameter, VarRef, Unsupported,
    ExtractSpec, ReturnVar, AddFunction, StubInput, Execute
<1>2. crate \in Crates /\ ExtractionInv
  BY DEF CompleteInv, ExtractionInv, TypeOK
<1>3. Follows(<<>>)
  BY PushedEmpty DEF Follows
<1>4. CASE \/ TypeParameter \/ SortBuilt \/ AddAdt \/ Call \/ KnownBinding
           \/ Parameter \/ VarRef \/ Unsupported \/ ReturnVar
           \/ AddFunction("emit") \/ AddFunction("stub")
  <2>1. Continue(<<>>)
    BY <1>4 DEF TypeParameter, SortBuilt, AddAdt, Call, KnownBinding, Parameter, VarRef,
      Unsupported, ReturnVar, AddFunction
  <2> QED
    BY <1>1, <1>3, <2>1
<1>5. CASE MentionType \/ ExtractAdt
  <2>1. PICK a : a = Head(todo).arg
    OBVIOUS
  <2>2. a \in DefIds /\ Continue(IF IsRegistered(a) THEN <<>> ELSE AdtOps(a))
    BY <1>2, <1>5, <2>1, TopArg DEF MentionType, ExtractAdt, DefOps
  <2>3. Follows(AdtOps(a))
    BY <1>2, <2>2, FollowsAdt
  <2> QED
    BY <1>1, <1>3, <2>2, <2>3
<1>6. CASE Constructor
  <2>1. PICK d, ops : d = Head(todo).arg /\ ops = Ops("field", crate.fields[d])
    OBVIOUS
  <2>2. d \in DefIds /\ Continue(ops)
    BY <1>2, <1>6, <2>1, TopArg DEF Constructor, DefOps
  <2>3. Follows(ops)
    BY <1>2, <2>1, <2>2, CrateTypes, FollowsDefs
  <2> QED
    BY <1>1, <2>2, <2>3
<1>7. CASE Field
  <2>1. PICK d, ops : d = Head(todo).arg /\ ops = Ops("type", crate.types[d])
    OBVIOUS
  <2>2. d \in DefIds /\ Continue(ops)
    BY <1>2, <1>7, <2>1, TopArg DEF Field, DefOps
  <2>3. Follows(ops)
    BY <1>2, <2>1, <2>2, CrateTypes, FollowsDefs
  <2> QED
    BY <1>1, <2>2, <2>3
<1>8. CASE NewBinding
  <2>1. PICK h, ops : h = Head(todo).arg /\ ops = Ops("type", crate.hir_types[h])
    OBVIOUS
  <2>2. h \in HirIds /\ Continue(ops)
    BY <1>2, <1>8, <2>1, TopArg DEF NewBinding, HirOps
  <2>3. Follows(ops)
    BY <1>2, <2>1, <2>2, BindingTypes, FollowsDefs
  <2> QED
    BY <1>1, <2>2, <2>3
<1>9. CASE StubInput
  <2>1. PICK i, ops : i = Head(todo).arg /\ ops = Ops("type", crate.inputs[fd.def][i])
    OBVIOUS
  <2>2. Continue(ops) /\ Execute("input") /\ fd \in FunDef
    BY <1>2, <1>9, <2>1, TopArg DEF StubInput, FnOps
  <2>3. i \in DOMAIN crate.inputs[fd.def]
    BY <1>2, <2>1, <2>2, TopOfStack DEF Execute, ExtractionInv, StackOK, InputsInRange
  <2>4. crate.inputs[fd.def] \in Seq(Seq(DefIds))
    BY <1>2, <2>2, CrateTypes, FunDefType
  <2>5. crate.inputs[fd.def][i] \in Seq(DefIds)
    BY <2>3, <2>4, LenProperties
  <2>6. Follows(ops)
    BY <2>1, <2>5, FollowsDefs
  <2> QED
    BY <1>1, <2>2, <2>6
<1>10. CASE ExtractSpec
  <2>1. PICK s, binds, body : s = Head(todo).arg /\ binds = BindingOps(s) /\ body = crate.body[s]
    OBVIOUS
  <2>2. s \in DefIds /\ Continue(binds \o body) /\ Head(todo).op = "spec"
    BY <1>2, <1>10, <2>1, TopArg DEF ExtractSpec, DefOps
  <2>3. s \in SpecFns(crate)
    BY <1>1, <1>2, <2>1, <2>2, TopOfStack DEF CompleteInv, FunctionsListed, Pending
  <2>4. Follows(binds) /\ Follows(body)
    BY <1>2, <2>1, <2>2, <2>3, FollowsAdt, FollowsBody
  <2>5. Follows(binds \o body)
    BY <2>4, FollowsConcat
  <2> QED
    BY <1>1, <2>2, <2>5
<1>11. CASE EnterBody
  <2>1. PICK g, binds, types, params, body :
          /\ g = Head(todo).arg /\ binds = BindingOps(g)
          /\ types = Ops("type", crate.types[g]) /\ params = Ops("param", crate.params[g])
          /\ body = crate.body[g]
    OBVIOUS
  <2>2. /\ g \in DefIds /\ Continue(binds \o types \o params \o body)
        /\ Head(todo).op = "enter"
    BY <1>2, <1>11, <2>1, TopArg DEF EnterBody, DefOps
  <2>3. g \in UserFns(crate)
    BY <1>1, <1>2, <2>1, <2>2, TopOfStack DEF CompleteInv, FunctionsListed, Pending
  <2>4. Follows(binds) /\ Follows(types)
    BY <1>2, <2>1, <2>2, CrateTypes, FollowsAdt, FollowsDefs
  <2>5. Follows(params) /\ Follows(body)
    BY <1>2, <2>1, <2>2, <2>3, CrateTypes, FollowsHirs, FollowsBody DEF HirOps
  <2>6. Follows(binds \o types)
    BY <2>4, FollowsConcat
  <2>7. Follows(binds \o types \o params)
    BY <2>5, <2>6, FollowsConcat
  <2>8. Follows(binds \o types \o params \o body)
    BY <2>5, <2>7, FollowsConcat
  <2> QED
    BY <1>1, <2>2, <2>8
<1> QED
  BY <1>4, <1>5, <1>6, <1>7, <1>8, <1>9, <1>10, <1>11 DEF Traversal

----------------------------------------------------------------------------
(* One operation of the traversal.                                          *)

(* What is pending stays so but for the operation executed, and of what     *)
(* adds to the program nothing new is pending but calls.                    *)
LEMMA Moves ==
  ASSUME CompleteInv, todo # <<>>, NEW ops, Follows(ops), Continue(ops)
  PROVE  /\ \A kind \in Rooted : \A d : Pending(kind, d)' => Pending(kind, d)
         /\ \A kind, d : Pending(kind, d) =>
              Pending(kind, d)' \/ (Head(todo).op = kind /\ Head(todo).arg = d)
         /\ \A d : Pending("call", d)' =>
              Pending("call", d) \/ (d \in Callable /\ Head(todo).op \in {"enter", "spec"})
         /\ NonePending({"addAdt"}) => NonePending({"addAdt"})'
         /\ NonePending({"call", "enter", "spec", "emit"}) =>
              NonePending({"call", "enter", "spec", "emit"})'
<1> DEFINE below(i) == i - Len(ops) + 1
<1>1. /\ ops \in Seq(Op) /\ todo \in Seq(Op)
      /\ 1 \in DOMAIN todo /\ Head(todo) = todo[1] /\ DOMAIN todo \subseteq Nat \ {0}
  BY LenProperties, TopOfStack DEF Follows, Pushed, CompleteInv, ExtractionInv, TypeOK
<1>2. /\ \A i \in DOMAIN todo' :
           \/ i \in DOMAIN ops /\ todo'[i] = ops[i]
           \/ below(i) \in DOMAIN todo /\ todo'[i] = todo[below(i)]
      /\ \A j \in DOMAIN todo : j >= 2 => \E i \in DOMAIN todo' : todo'[i] = todo[j]
  <2>1. /\ \A i \in DOMAIN todo' :
              \/ i \in DOMAIN ops /\ todo'[i] = ops[i]
              \/ below(i) \in DOMAIN todo /\ todo'[i] = todo[below(i)]
        /\ \A j \in DOMAIN todo : j >= 2 =>
              /\ j - 1 + Len(ops) \in DOMAIN todo'
              /\ todo'[j - 1 + Len(ops)] = todo[j]
    BY <1>1, Continued
  <2> QED
    BY <2>1
<1>3. ASSUME NEW kind \in Rooted, NEW d, NEW i \in DOMAIN todo',
             todo'[i].op = kind, todo'[i].arg = d
      PROVE  Pending(kind, d)
  <2>1. i \notin DOMAIN ops \/ todo'[i] # ops[i]
    BY <1>3 DEF Follows, Pushed
  <2> QED
    BY <1>2, <1>3, <2>1 DEF Pending
<1>4. ASSUME NEW kind, NEW d, NEW j \in DOMAIN todo, todo[j].op = kind, todo[j].arg = d
      PROVE  Pending(kind, d)' \/ (Head(todo).op = kind /\ Head(todo).arg = d)
  <2>1. CASE j = 1
    BY <1>1, <1>4, <2>1
  <2>2. CASE j >= 2
    BY <1>2, <1>4, <2>2 DEF Pending
  <2> QED
    BY <1>1, <2>1, <2>2
<1>5. ASSUME NEW d, NEW i \in DOMAIN todo', todo'[i].op = "call", todo'[i].arg = d
      PROVE  Pending("call", d) \/ (d \in Callable /\ Head(todo).op \in {"enter", "spec"})
  BY <1>2, <1>5 DEF Pending, Follows
<1>6. NonePending({"addAdt"}) => NonePending({"addAdt"})'
  <2>1. \A i \in DOMAIN ops : ops[i].op # "addAdt"
    BY DEF Follows, Pushed, Rooted
  <2> QED
    BY <1>2, <2>1 DEF NonePending
<1>7. ASSUME NonePending({"call", "enter", "spec", "emit"})
      PROVE  NonePending({"call", "enter", "spec", "emit"})'
  <2>1. \A i \in DOMAIN ops : ops[i].op \notin {"enter", "spec", "emit"}
    BY DEF Follows, Pushed, Rooted
  <2>2. Head(todo).op \notin {"enter", "spec"}
    BY <1>1, <1>7 DEF NonePending
  <2>3. \A i \in DOMAIN ops : ops[i].op # "call"
    BY <2>2 DEF Follows
  <2> QED
    BY <1>2, <1>7, <2>1, <2>3 DEF NonePending
<1>8. \A kind \in Rooted : \A d : Pending(kind, d)' => Pending(kind, d)
  BY <1>3 DEF Pending
<1>9. \A kind, d : Pending(kind, d) =>
        Pending(kind, d)' \/ (Head(todo).op = kind /\ Head(todo).arg = d)
  BY <1>4 DEF Pending
<1>10. \A d : Pending("call", d)' =>
         Pending("call", d) \/ (d \in Callable /\ Head(todo).op \in {"enter", "spec"})
  BY <1>5 DEF Pending
<1> QED
  BY <1>6, <1>7, <1>8, <1>9, <1>10

(* Most operations add nothing to the program; a call may add a reference.  *)
LEMMA PlainComplete ==
  ASSUME CompleteInv, ExtractionInv', DidKept, todo # <<>>,
         Head(todo).op \notin {"addAdt", "emit", "stub"},
         NEW ops, Follows(ops), Continue(ops),
         UNCHANGED <<crate, phase, items, adt_items, fn_items, specs, stubs, adts, functions>>,
         fd'.def = fd.def, fd'.extern = fd.extern,
         \/ function_refs' = function_refs
         \/ /\ Head(todo).op = "call" /\ Head(todo).arg \in DOMAIN did_to_stid'
            /\ function_refs' = function_refs \cup {Head(todo).arg}
  PROVE  CompleteInv'
<1>1. /\ \A kind \in Rooted : \A d : Pending(kind, d)' => Pending(kind, d)
      /\ \A kind \in {"addAdt", "emit", "stub"} : \A d : Pending(kind, d) => Pending(kind, d)'
      /\ \A d : Pending("call", d)' =>
           Pending("call", d) \/ (d \in Callable /\ Head(todo).op \in {"enter", "spec"})
      /\ NonePending({"addAdt"}) => NonePending({"addAdt"})'
      /\ NonePending({"call", "enter", "spec", "emit"}) =>
           NonePending({"call", "enter", "spec", "emit"})'
  BY Moves
<1>2. 1 \in DOMAIN todo /\ Head(todo) = todo[1]
  BY TopOfStack DEF CompleteInv
<1>3. Head(todo).op = "call" => Head(todo).arg \in Callable
  BY <1>2 DEF CompleteInv, FunctionsListed, Pending
<1>4. function_refs \subseteq function_refs' /\ Stubbed \subseteq Stubbed'
  BY DEF Stubbed
<1>5. ItemsKept'
  BY DEF ItemsKept, CompleteInv
<1>6. SortsKept'
  <2>1. \A a : IsSort(a) => IsSort(a)'
    BY DEF IsSort, IsRegistered, DidKept
  <2>2. \A id \in adts' : \E a \in LocalAdts(crate) : IsRegistered(a)' /\ id = did_to_stid'[a]
    BY DEF CompleteInv, SortsKept, DidKept, IsRegistered
  <2>3. \A a : Pending("addAdt", a)' <=> Pending("addAdt", a)
    BY <1>1 DEF Rooted
  <2> QED
    BY <1>1, <2>1, <2>2, <2>3 DEF CompleteInv, SortsKept, ToVisit, Waiting
<1>7. FunctionsListed'
  <2>1. /\ \A g : Pending("call", g)' => g \in Callable
        /\ \A g : Pending("enter", g)' => g \in UserFns(crate)
        /\ \A g : Pending("spec", g)' => g \in SpecFns(crate)
        /\ \A g : Pending("emit", g)' => g = fd.def /\ ~fd.extern /\ g \in UserFns(crate)
        /\ \A g : Pending("stub", g)' => g = fd.def /\ fd.extern /\ g \in Stubbed
    BY <1>1 DEF CompleteInv, FunctionsListed, Rooted
  <2> QED
    BY <1>4, <2>1 DEF CompleteInv, FunctionsListed, Callable
<1>8. FunctionsKnown'
  <2>1. \A g \in function_refs' : g \in Callable /\ IsRegistered(g)'
    BY <1>3 DEF CompleteInv, FunctionsKnown, DidKept, IsRegistered
  <2>2. ASSUME NEW id \in DOMAIN functions, NEW f, f = functions[id]
        PROVE  /\ IsRegistered(f.def)' /\ id = did_to_stid'[f.def]
               /\ \/ ~f.extern /\ f.def \in UserFns(crate)
                  \/ f.extern /\ f.def \in Stubbed'
    BY <1>4, <2>2 DEF CompleteInv, FunctionsKnown, DidKept, IsRegistered
  <2> QED
    BY <2>1, <2>2 DEF FunctionsKnown, Callable, IsRegistered
<1>9. FunctionsKept'
  <2>1. \A g : Added(g) => Added(g)'
    BY DEF Added, IsRegistered, DidKept
  <2>2. \A g : Pending("emit", g) => Pending("emit", g)'
    BY <1>1
  <2>3. ASSUME phase \in {"externals", "done"}
        PROVE  /\ fn_items = <<>> /\ NonePending({"call", "enter", "spec", "emit"})'
               /\ \A g \in Stubbed' : g \in stubs \/ Pending("stub", g)' \/ Added(g)'
    <3>1. fn_items = <<>> /\ NonePending({"call", "enter", "spec", "emit"})
      BY <2>3 DEF CompleteInv, FunctionsKept
    <3>2. Head(todo).op # "call"
      BY <1>2, <3>1 DEF NonePending
    <3>3. Stubbed' = Stubbed
      BY <3>2 DEF Stubbed
    <3>4. \A g \in Stubbed : g \in stubs \/ Pending("stub", g) \/ Added(g)
      BY <2>3 DEF CompleteInv, FunctionsKept
    <3>5. \A g : Pending("stub", g) => Pending("stub", g)'
      BY <1>1
    <3> QED
      BY <1>1, <2>1, <3>1, <3>3, <3>4, <3>5
  <2> QED
    BY <2>1, <2>2, <2>3 DEF CompleteInv, FunctionsKept, ToVisit, Waiting
<1> QED
  BY <1>5, <1>6, <1>7, <1>8, <1>9 DEF CompleteInv

(* add_adt: the ADT on top of the stack is a sort now.                      *)
LEMMA AddAdtComplete ==
  ASSUME CompleteInv, ExtractionInv', DidKept, AddAdt
  PROVE  CompleteInv'
<1>1. PICK a : a = Head(todo).arg
  OBVIOUS
<1>2. /\ todo # <<>> /\ Head(todo).op = "addAdt" /\ Continue(<<>>)
      /\ adts' = adts \cup {did_to_stid[a]}
      /\ UNCHANGED <<did_to_stid, crate, phase, items, adt_items, fn_items, specs, stubs,
                     fd, function_refs, functions>>
  BY <1>1 DEF AddAdt, Execute, mapping_vars, discovery_vars
<1>3. 1 \in DOMAIN todo /\ Head(todo) = todo[1] /\ ExtractionInv
  BY <1>2, TopOfStack DEF CompleteInv
<1>4. a \in LocalAdts(crate) /\ Pending("addAdt", a)
  BY <1>1, <1>2, <1>3 DEF CompleteInv, SortsKept, Pending
<1>5. IsRegistered(a)
  <2>1. \A j \in 1 .. 1 - 1 : FALSE
    OBVIOUS
  <2> QED
    BY <1>1, <1>2, <1>3, <2>1 DEF ExtractionInv, StackOK, SortPending
<1>6. /\ \A kind \in Rooted : \A d : Pending(kind, d)' => Pending(kind, d)
      /\ \A kind, d : Pending(kind, d) => Pending(kind, d)' \/ (kind = "addAdt" /\ d = a)
      /\ \A d : Pending("call", d)' => Pending("call", d)
      /\ NonePending({"addAdt"}) => NonePending({"addAdt"})'
      /\ NonePending({"call", "enter", "spec", "emit"}) =>
           NonePending({"call", "enter", "spec", "emit"})'
  <2>1. Follows(<<>>)
    BY PushedEmpty DEF Follows
  <2>2. Head(todo).op \notin {"enter", "spec"}
    BY <1>2
  <2> QED
    BY <1>1, <1>2, <2>1, <2>2, Moves
<1>7. ItemsKept'
  BY <1>2 DEF ItemsKept, CompleteInv
<1>8. SortsKept'
  <2>1. /\ \A d : IsRegistered(d)' <=> IsRegistered(d)
        /\ \A d : IsSort(d) => IsSort(d)'
    BY <1>2 DEF IsSort, IsRegistered
  <2>2. IsSort(a)'
    BY <1>2, <1>5 DEF IsSort, IsRegistered
  <2>3. \A d : Pending("addAdt", d)' => Pending("addAdt", d)
    BY <1>6 DEF Rooted
  <2>4. \A d : Pending("addAdt", d) => Pending("addAdt", d)' \/ d = a
    BY <1>6
  <2>5. \A d \in LocalAdts(crate) :
          ToVisit("adt", d)' \/ Waiting(adt_items, d)' \/ Pending("addAdt", d)' \/ IsSort(d)'
    BY <1>2, <2>1, <2>2, <2>4 DEF CompleteInv, SortsKept, ToVisit, Waiting
  <2>6. \A id \in adts' : \E d \in LocalAdts(crate) : IsRegistered(d)' /\ id = did_to_stid'[d]
    BY <1>2, <1>4, <1>5, <2>1 DEF CompleteInv, SortsKept
  <2> QED
    BY <1>2, <1>6, <2>3, <2>5, <2>6 DEF CompleteInv, SortsKept
<1>9. FunctionsListed'
  <2>1. /\ \A g : Pending("call", g)' => g \in Callable
        /\ \A g : Pending("enter", g)' => g \in UserFns(crate)
        /\ \A g : Pending("spec", g)' => g \in SpecFns(crate)
        /\ \A g : Pending("emit", g)' => g = fd.def /\ ~fd.extern /\ g \in UserFns(crate)
        /\ \A g : Pending("stub", g)' => g = fd.def /\ fd.extern /\ g \in Stubbed
    BY <1>6 DEF CompleteInv, FunctionsListed, Rooted
  <2> QED
    BY <1>2, <2>1 DEF CompleteInv, FunctionsListed, Callable, Stubbed
<1>10. FunctionsKnown'
  BY <1>2 DEF CompleteInv, FunctionsKnown, IsRegistered, Callable, Stubbed
<1>11. FunctionsKept'
  <2>1. \A g : /\ Pending("emit", g) => Pending("emit", g)'
               /\ Pending("stub", g) => Pending("stub", g)'
    BY <1>6
  <2> QED
    BY <1>2, <1>6, <2>1 DEF CompleteInv, FunctionsKept, ToVisit, Waiting, Added, IsRegistered, Stubbed
<1> QED
  BY <1>7, <1>8, <1>9, <1>10, <1>11 DEF CompleteInv

(* add_function: the function under construction is in the program now, and *)
(* nothing else is pending.                                                 *)
LEMMA AddFunctionComplete ==
  ASSUME CompleteInv, ExtractionInv', DidKept,
         NEW kind \in {"emit", "stub"}, AddFunction(kind)
  PROVE  CompleteInv'
<1>1. PICK g, id : g = Head(todo).arg /\ id = did_to_stid'[g]
  OBVIOUS
<1>2. /\ todo # <<>> /\ Head(todo).op = kind /\ Continue(<<>>) /\ FnRef(g)
      /\ functions' = Insert(functions, id, fd)
      /\ UNCHANGED <<crate, phase, items, adt_items, fn_items, specs, stubs, adts>>
  BY <1>1 DEF AddFunction, Execute, discovery_vars
<1>3. /\ 1 \in DOMAIN todo /\ Head(todo) = todo[1] /\ ExtractionInv /\ todo \in Seq(Op)
  BY <1>2, TopOfStack DEF CompleteInv, ExtractionInv, TypeOK
<1>4. /\ Pending(kind, g) /\ g \in DefIds /\ g = fd.def
      /\ kind = "emit" => ~fd.extern /\ g \in UserFns(crate)
      /\ kind = "stub" => fd.extern /\ g \in Stubbed
  <2>1. Pending(kind, g)
    BY <1>1, <1>2, <1>3 DEF Pending
  <2>2. /\ g = fd.def /\ kind = "emit" => ~fd.extern /\ g \in UserFns(crate)
        /\ kind = "stub" => fd.extern /\ g \in Stubbed
    BY <2>1 DEF CompleteInv, FunctionsListed
  <2>3. g = fd.def
    BY <2>1 DEF CompleteInv, FunctionsListed
  <2>4. Execute(kind) /\ kind \in DefOps
    BY DEF AddFunction, DefOps
  <2>5. g \in DefIds
    BY <1>1, <1>3, <2>4, TopArg
  <2> QED
    BY <2>1, <2>2, <2>3, <2>5
<1>5. Len(todo) = 1 /\ todo' = <<>>
  <2>1. Len(todo) = 1
    BY <1>2, <1>3 DEF ExtractionInv, StackOK, AddedLast
  <2>2. Tail(todo) \in Seq(Op) /\ Len(Tail(todo)) = 0
    BY <1>2, <1>3, <2>1, HeadTailProperties
  <2>3. Tail(todo) = <<>>
    BY <2>2, EmptySeq
  <2> QED
    BY <1>2, <2>1, <2>3 DEF Continue
<1>6. ASSUME NEW k, NEW d, Pending(k, d) PROVE k = kind /\ d = g
  <2>1. DOMAIN todo = {1}
    BY <1>3, <1>5, LenProperties
  <2> QED
    BY <1>1, <1>2, <1>3, <1>6, <2>1 DEF Pending
<1>7. \A k, d : ~Pending(k, d)'
  BY <1>5 DEF Pending
<1>8. \A kinds : NonePending(kinds)'
  BY <1>5 DEF NonePending
<1>9. /\ g \in DOMAIN did_to_stid'
      /\ function_refs' = function_refs \/ function_refs' = function_refs \cup {g}
      /\ Stubbed \subseteq Stubbed'
      /\ phase \in {"externals", "done"} => function_refs' = function_refs
  <2>1. g \in DOMAIN did_to_stid'
    BY <1>2, <1>4, GetOrRegisterStep DEF FnRef
  <2>2. function_refs' = function_refs \/ function_refs' = function_refs \cup {g}
    BY <1>2 DEF FnRef
  <2>3. ASSUME phase \in {"externals", "done"} PROVE IsRegistered(g)
    <3>1. kind # "emit"
      BY <1>2, <1>3, <2>3 DEF CompleteInv, FunctionsKept, NonePending
    <3>2. g \in function_refs
      BY <1>4, <3>1 DEF Stubbed
    <3> QED
      BY <3>2 DEF CompleteInv, FunctionsKnown
  <2> QED
    BY <1>2, <2>1, <2>2, <2>3 DEF FnRef, Stubbed
<1>10. /\ DOMAIN functions' = DOMAIN functions \cup {id} /\ functions'[id] = fd
       /\ \A k \in DOMAIN functions : k # id => functions'[k] = functions[k]
  BY <1>2 DEF Insert
<1>11. Added(g)' /\ \A d : Added(d) => Added(d)'
  BY <1>1, <1>9, <1>10 DEF Added, IsRegistered, DidKept
<1>12. ItemsKept'
  BY <1>2, <1>5 DEF ItemsKept, CompleteInv
<1>13. SortsKept'
  <2>1. \A a : IsSort(a) => IsSort(a)'
    BY <1>2 DEF IsSort, IsRegistered, DidKept
  <2>2. \A i \in adts' : \E a \in LocalAdts(crate) : IsRegistered(a)' /\ i = did_to_stid'[a]
    BY <1>2 DEF CompleteInv, SortsKept, DidKept, IsRegistered
  <2>3. \A a : ~Pending("addAdt", a)
    BY <1>6
  <2> QED
    BY <1>2, <1>7, <1>8, <2>1, <2>2, <2>3 DEF CompleteInv, SortsKept, ToVisit, Waiting
<1>14. FunctionsListed'
  BY <1>2, <1>7, <1>9 DEF CompleteInv, FunctionsListed
<1>15. FunctionsKnown'
  <2>1. \A d \in function_refs' : d \in Callable /\ IsRegistered(d)'
    <3>1. g \in Callable
      BY <1>4 DEF Callable, Stubbed
    <3> QED
      BY <1>9, <3>1 DEF CompleteInv, FunctionsKnown, DidKept, IsRegistered
  <2>2. ASSUME NEW k \in DOMAIN functions', NEW f, f = functions'[k]
        PROVE  /\ IsRegistered(f.def)' /\ k = did_to_stid'[f.def]
               /\ \/ ~f.extern /\ f.def \in UserFns(crate)
                  \/ f.extern /\ f.def \in Stubbed'
    <3>1. CASE k = id
      <4>1. f = fd /\ f.def = g
        BY <1>4, <1>10, <2>2, <3>1
      <4>2. (~f.extern /\ g \in UserFns(crate)) \/ (f.extern /\ g \in Stubbed')
        BY <1>4, <1>9, <4>1
      <4> QED
        BY <1>1, <1>9, <3>1, <4>1, <4>2 DEF IsRegistered
    <3>2. CASE k # id
      <4>1. k \in DOMAIN functions /\ f = functions[k]
        BY <1>10, <2>2, <3>2
      <4>2. /\ IsRegistered(f.def) /\ k = did_to_stid[f.def]
            /\ (~f.extern /\ f.def \in UserFns(crate)) \/ (f.extern /\ f.def \in Stubbed)
        BY <4>1 DEF CompleteInv, FunctionsKnown
      <4> QED
        BY <1>9, <4>2 DEF IsRegistered, DidKept
    <3> QED
      BY <3>1, <3>2
  <2> QED
    BY <1>2, <2>1, <2>2 DEF FunctionsKnown, Callable, IsRegistered
<1>16. FunctionsKept'
  <2>1. \A d \in UserFns(crate) :
          ToVisit("fns", d) \/ Waiting(fn_items, d) \/ Added(d)'
    BY <1>6, <1>11 DEF CompleteInv, FunctionsKept
  <2>2. ASSUME phase \in {"externals", "done"}
        PROVE  fn_items = <<>> /\ \A d \in Stubbed' : d \in stubs \/ Added(d)'
    <3>1. Stubbed' = Stubbed
      BY <1>2, <1>9, <2>2 DEF Stubbed
    <3> QED
      BY <1>6, <1>11, <2>2, <3>1 DEF CompleteInv, FunctionsKept
  <2>3. phase = "done" => stubs = {}
    BY DEF CompleteInv, FunctionsKept
  <2> QED
    BY <1>2, <1>8, <2>1, <2>2, <2>3 DEF FunctionsKept, ToVisit, Waiting
<1> QED
  BY <1>12, <1>13, <1>14, <1>15, <1>16 DEF CompleteInv

(* The traversal as a whole.                                                *)
LEMMA TraversalComplete ==
  ASSUME CompleteInv, ExtractionInv', DidKept, Traversal
  PROVE  CompleteInv'
<1>1. CASE Panic
  <2>1. UNCHANGED <<did_to_stid, crate, phase, items, adt_items, fn_items, specs, stubs, todo,
                    fd, adts, function_refs, functions>>
    BY <1>1 DEF Panic, mapping_vars, discovery_vars, output_vars
  <2> QED
    BY <2>1
    DEF CompleteInv, ItemsKept, SortsKept, FunctionsListed, FunctionsKnown, FunctionsKept,
        ToVisit, Waiting, Pending, NonePending, IsSort, Added, IsRegistered, Callable, Stubbed
<1>2. CASE AddAdt \/ AddFunction("emit") \/ AddFunction("stub")
  BY <1>2, AddAdtComplete, AddFunctionComplete
<1>3. CASE ~Panic /\ ~AddAdt /\ ~AddFunction("emit") /\ ~AddFunction("stub")
  <2>1. PICK ops : todo # <<>> /\ Follows(ops) /\ Continue(ops)
    BY <1>3, TraversalFollows
  <2>2. CASE Call
    <3>1. PICK g : g = Head(todo).arg
      OBVIOUS
    <3>2. /\ g \in DefIds /\ FnRef(g) /\ Head(todo).op = "call"
          /\ UNCHANGED <<crate, phase, items, adt_items, fn_items, specs, stubs, adts,
                         functions, fd>>
      BY <2>2, <3>1, TopArg DEF Call, Execute, DefOps, CompleteInv, discovery_vars
    <3>3. g \in DOMAIN did_to_stid'
      BY <3>2, GetOrRegisterStep DEF FnRef
    <3>4. function_refs' = function_refs \/ function_refs' = function_refs \cup {g}
      BY <3>2 DEF FnRef
    <3> QED
      BY <2>1, <3>1, <3>2, <3>3, <3>4, PlainComplete
  <2>3. CASE ~Call
    <3>1. /\ UNCHANGED <<crate, phase, items, adt_items, fn_items, specs, stubs, adts,
                         functions, function_refs>>
          /\ Head(todo).op \notin {"addAdt", "emit", "stub"}
      BY <1>3, <2>3 DEF Traversal, TypeParameter, MentionType, ExtractAdt, Constructor, Field,
        SortBuilt, EnterBody, KnownBinding, NewBinding, Parameter, VarRef, Unsupported,
        ExtractSpec, ReturnVar, StubInput, Execute, discovery_vars, output_vars
    <3>2. fd'.def = fd.def /\ fd'.extern = fd.extern
      <4>1. CASE fd' = fd
        BY <4>1
      <4>2. CASE Parameter \/ VarRef \/ ReturnVar \/ StubInput
        <5>1. fd \in FunDef
          BY <4>2, TopArg DEF Parameter, VarRef, ReturnVar, StubInput, FnOps, CompleteInv
        <5> QED
          BY <4>2, <5>1 DEF Parameter, VarRef, ReturnVar, StubInput, FunDef
      <4>3. CASE ExtractSpec
        <5>1. fd \in FunDef /\ ExtractionInv
          BY <4>3, TopArg DEF ExtractSpec, FnOps, CompleteInv
        <5>2. PICK s : s = Head(todo).arg
          OBVIOUS
        <5>3. Execute("spec") /\ fd' = AttachSpec(s)
          BY <4>3, <5>2 DEF ExtractSpec
        <5>4. crate.spec_type[s] \in SpecTypes
          BY <2>1, <5>1, <5>2, <5>3, TopOfStack DEF Execute, ExtractionInv, StackOK, SpecsByType
        <5> QED
          BY <5>1, <5>3, <5>4 DEF AttachSpec, FunDef, SpecTypes
      <4> QED
        BY <1>3, <2>3, <4>1, <4>2, <4>3 DEF Traversal, TypeParameter, MentionType, ExtractAdt,
          Constructor, Field, SortBuilt, EnterBody, KnownBinding, NewBinding, Unsupported
    <3> QED
      BY <2>1, <3>1, <3>2, PlainComplete
  <2> QED
    BY <2>2, <2>3
<1> QED
  BY <1>1, <1>2, <1>3

----------------------------------------------------------------------------
(* Discovery.                                                               *)

(* Pushing onto a list of discovered items, ...                             *)
LEMMA WaitingAppend ==
  ASSUME NEW s \in Seq(DefIds), NEW e \in DefIds, NEW longer, longer = Append(s, e)
  PROVE  /\ \A i \in DOMAIN longer : (i \in DOMAIN s /\ longer[i] = s[i]) \/ longer[i] = e
         /\ \A d : Waiting(s, d) \/ d = e => Waiting(longer, d)
<1>1. /\ longer \in Seq(DefIds) /\ Len(longer) = Len(s) + 1 /\ longer[Len(s) + 1] = e
      /\ \A i \in 1 .. Len(s) : longer[i] = s[i]
      /\ Len(s) \in Nat
  BY AppendProperties, LenProperties
<1>2. DOMAIN longer = 1 .. Len(s) + 1 /\ DOMAIN s = 1 .. Len(s)
  BY <1>1, LenProperties
<1>3. \A i \in DOMAIN longer : (i \in DOMAIN s /\ longer[i] = s[i]) \/ longer[i] = e
  BY <1>1, <1>2
<1>4. \A d : Waiting(s, d) \/ d = e => Waiting(longer, d)
  BY <1>1, <1>2 DEF Waiting
<1> QED
  BY <1>3, <1>4

(* ... and taking its first.                                                *)
LEMMA WaitingTail ==
  ASSUME NEW S, NEW s \in Seq(S), s # <<>>
  PROVE  /\ \A i \in DOMAIN Tail(s) : i + 1 \in DOMAIN s /\ Tail(s)[i] = s[i + 1]
         /\ \A i \in DOMAIN s : s[i] = Head(s) \/ (i - 1 \in DOMAIN Tail(s) /\ Tail(s)[i - 1] = s[i])
         /\ \A d : Waiting(s, d) => Waiting(Tail(s), d) \/ d = Head(s)
         /\ 1 \in DOMAIN s /\ Head(s) = s[1]
<1>1. /\ Tail(s) \in Seq(S) /\ Len(Tail(s)) = Len(s) - 1 /\ Head(s) = s[1]
      /\ \A i \in 1 .. Len(s) - 1 : Tail(s)[i] = s[i + 1]
      /\ Len(s) \in Nat /\ Len(s) # 0
  BY HeadTailProperties, LenProperties, EmptySeq
<1>2. DOMAIN Tail(s) = 1 .. Len(s) - 1 /\ DOMAIN s = 1 .. Len(s)
  BY <1>1, LenProperties
<1>3. \A i \in DOMAIN Tail(s) : i + 1 \in DOMAIN s /\ Tail(s)[i] = s[i + 1]
  BY <1>1, <1>2
<1>4. \A i \in DOMAIN s : s[i] = Head(s) \/ (i - 1 \in DOMAIN Tail(s) /\ Tail(s)[i - 1] = s[i])
  BY <1>1, <1>2
<1>5. 1 \in DOMAIN s
  BY <1>1, <1>2
<1>6. \A d : Waiting(s, d) => Waiting(Tail(s), d) \/ d = Head(s)
  BY <1>4 DEF Waiting
<1> QED
  BY <1>1, <1>3, <1>4, <1>5, <1>6

(* Only spec functions are filed as such.                                   *)
LEMMA FileSpecListed ==
  ASSUME CompleteInv, NEW g \in Listed(crate, "fns")
  PROVE  \A f \in DefIds, t \in SpecTypes : \A i \in DOMAIN FileSpec(g)[f][t] :
           FileSpec(g)[f][t][i] \in SpecFns(crate)
<1>1. /\ specs \in [DefIds -> [SpecTypes -> Seq(DefIds)]] /\ crate \in Crates
      /\ \A f \in DefIds, t \in SpecTypes : \A i \in DOMAIN specs[f][t] :
           specs[f][t][i] \in SpecFns(crate)
  BY DEF CompleteInv, FunctionsListed, ExtractionInv, TypeOK
<1>2. g \in DefIds
  BY <1>1, CrateLists
<1>3. CASE ~(IsSpecFn(g) /\ crate.spec_of[g] # NoDef)
  BY <1>1, <1>3 DEF FileSpec
<1>4. CASE IsSpecFn(g) /\ crate.spec_of[g] # NoDef
  <2>1. PICK f, t, old, ss : /\ f = crate.spec_of[g] /\ t = crate.spec_type[g]
                             /\ old = specs[f][t] /\ ss = Append(old, g)
    OBVIOUS
  <2>2. f \in DefIds /\ t \in SpecTypes /\ g \in SpecFns(crate)
    BY <1>1, <1>2, <1>4, <2>1, CrateTypes DEF IsSpecFn, SpecFns, UserFns
  <2>3. old \in Seq(DefIds)
    BY <1>1, <2>1, <2>2
  <2>4. \A i \in DOMAIN ss : ss[i] \in SpecFns(crate)
    <3>1. \A i \in DOMAIN ss : (i \in DOMAIN old /\ ss[i] = old[i]) \/ ss[i] = g
      <4>1. old \in Seq(DefIds) /\ g \in DefIds /\ ss = Append(old, g)
        BY <1>2, <2>1, <2>3
      <4> QED
        BY <4>1, WaitingAppend
    <3>2. \A i \in DOMAIN old : old[i] \in SpecFns(crate)
      <4>1. old = specs[f][t]
        BY <2>1
      <4>2. \A i \in DOMAIN specs[f][t] : specs[f][t][i] \in SpecFns(crate)
        BY <1>1, <2>2
      <4> QED
        BY <4>1, <4>2
    <3>3. g \in SpecFns(crate)
      BY <2>2
    <3> QED
      BY <3>1, <3>2, <3>3
  <2>5. FileSpec(g) = [specs EXCEPT ![f][t] = ss]
    BY SMTT(30), <1>4, <2>1 DEF FileSpec
  <2>6. /\ FileSpec(g)[f][t] = ss
        /\ \A e \in DefIds, u \in SpecTypes :
             e # f \/ u # t => FileSpec(g)[e][u] = specs[e][u]
    BY <1>1, <2>2, <2>5
  <2>7. ASSUME NEW e \in DefIds, NEW u \in SpecTypes, NEW i \in DOMAIN FileSpec(g)[e][u]
        PROVE  FileSpec(g)[e][u][i] \in SpecFns(crate)
    <3>1. CASE e = f /\ u = t
      BY <2>4, <2>6, <3>1
    <3>2. CASE e # f \/ u # t
      <4>1. FileSpec(g)[e][u] = specs[e][u]
        BY <2>6, <3>2
      <4> QED
        BY <1>1, <4>1
    <3> QED
      BY <3>1, <3>2
  <2> QED
    BY <2>7
<1> QED
  BY <1>3, <1>4

(* A step of the visitor that moves what it visits to the lists.            *)
LEMMA VisitKeeps ==
  ASSUME CompleteInv, ExtractionInv', phase = "discover", ItemsKept',
         phase' \in {"discover", "adts"},
         UNCHANGED <<did_to_stid, crate, stubs, todo, fd, adts, function_refs, functions>>,
         \A i \in DOMAIN adt_items' : adt_items'[i] \in LocalAdts(crate),
         \A i \in DOMAIN fn_items' : fn_items'[i] \in UserFns(crate),
         \A f \in DefIds, t \in SpecTypes : \A i \in DOMAIN specs'[f][t] :
           specs'[f][t][i] \in SpecFns(crate),
         \A a \in LocalAdts(crate) :
           ToVisit("adt", a) \/ Waiting(adt_items, a) =>
             ToVisit("adt", a)' \/ Waiting(adt_items, a)',
         \A g \in UserFns(crate) :
           ToVisit("fns", g) \/ Waiting(fn_items, g) =>
             ToVisit("fns", g)' \/ Waiting(fn_items, g)'
  PROVE  CompleteInv'
<1>1. /\ \A kind, d : Pending(kind, d)' <=> Pending(kind, d)
      /\ \A d : IsSort(d)' <=> IsSort(d)
      /\ \A d : Added(d)' <=> Added(d)
      /\ \A d : IsRegistered(d)' <=> IsRegistered(d)
  BY DEF Pending, IsSort, Added, IsRegistered
<1>2. SortsKept'
  BY <1>1 DEF CompleteInv, SortsKept
<1>3. FunctionsListed'
  BY <1>1 DEF CompleteInv, FunctionsListed, Callable, Stubbed
<1>4. FunctionsKnown'
  BY <1>1 DEF CompleteInv, FunctionsKnown, Callable, Stubbed
<1>5. FunctionsKept'
  BY <1>1 DEF CompleteInv, FunctionsKept
<1> QED
  BY <1>2, <1>3, <1>4, <1>5 DEF CompleteInv

(* ItemVisitor: an ADT goes to the list of ADTs, a function to that of      *)
(* functions unless it is a spec function, which is filed.                  *)
LEMMA DiscoveryComplete ==
  ASSUME CompleteInv, ExtractionInv', Discovery
  PROVE  CompleteInv'
<1>1. /\ crate \in Crates /\ items \in Seq(Item)
      /\ adt_items \in Seq(DefIds) /\ fn_items \in Seq(DefIds)
  BY DEF CompleteInv, ExtractionInv, TypeOK
<1>2. /\ UNCHANGED <<did_to_stid, crate, stubs, todo, fd, adts, function_refs, functions>>
      /\ phase = "discover" /\ phase' \in {"discover", "adts"}
      /\ phase' # "discover" => items' = <<>>
  BY DEF Discovery, VisitAdt, VisitFn, VisitedFns, VisitOther, DiscoveryDone, Discover,
    mapping_vars, output_vars, discovery_vars
<1>3. /\ \A i \in DOMAIN items :
           /\ items[i].kind = "adt" => \E d \in LocalAdts(crate) : items[i].defs = {d}
           /\ items[i].kind = "fns" => items[i].defs \subseteq Listed(crate, "fns")
      /\ todo = <<>>
      /\ \A i \in DOMAIN adt_items : adt_items[i] \in LocalAdts(crate)
      /\ \A i \in DOMAIN fn_items : fn_items[i] \in UserFns(crate)
      /\ \A f \in DefIds, t \in SpecTypes : \A i \in DOMAIN specs[f][t] :
           specs[f][t][i] \in SpecFns(crate)
  BY <1>2 DEF CompleteInv, ItemsKept, SortsKept, FunctionsListed
<1>4. CASE DiscoveryDone
  <2>1. items' = <<>> /\ UNCHANGED <<items, adt_items, fn_items, specs>> /\ phase' = "adts"
    BY <1>4 DEF DiscoveryDone, discovery_vars
  <2>2. ItemsKept'
    BY <1>2, <1>3, <2>1 DEF ItemsKept
  <2>3. \A kind, d : ToVisit(kind, d)' <=> ToVisit(kind, d)
    BY <2>1 DEF ToVisit
  <2> QED
    BY <1>2, <1>3, <2>1, <2>2, <2>3, VisitKeeps
<1>5. CASE VisitAdt \/ VisitedFns \/ VisitOther
  <2>1. items # <<>> /\ items' = Tail(items) /\ specs' = specs /\ fn_items' = fn_items
        /\ phase' = "discover"
    BY <1>5 DEF VisitAdt, VisitedFns, VisitOther, Discover
  <2>2. /\ \A i \in DOMAIN Tail(items) : i + 1 \in DOMAIN items /\ Tail(items)[i] = items[i + 1]
        /\ \A i \in DOMAIN items :
             items[i] = Head(items) \/ (i - 1 \in DOMAIN Tail(items) /\ Tail(items)[i - 1] = items[i])
        /\ 1 \in DOMAIN items /\ Head(items) = items[1]
    BY <1>1, <2>1, WaitingTail
  <2>3. ItemsKept'
    BY <1>2, <1>3, <2>1, <2>2 DEF ItemsKept
  <2>4. \A kind, d : ToVisit(kind, d) =>
          ToVisit(kind, d)' \/ (Head(items).kind = kind /\ d \in Head(items).defs)
    BY <2>1, <2>2 DEF ToVisit
  <2>5. CASE VisitAdt
    <3>1. PICK a \in Head(items).defs : adt_items' = Append(adt_items, a)
      BY <2>5 DEF VisitAdt
    <3>2. Head(items).defs = {a} /\ a \in LocalAdts(crate) /\ Head(items).kind = "adt"
      <4>1. Head(items).kind = "adt"
        BY <2>5 DEF VisitAdt, Discover
      <4> QED
        BY <1>3, <2>2, <3>1, <4>1
    <3>3. a \in DefIds
      BY <1>1, <3>2, CrateLists
    <3>4. /\ \A i \in DOMAIN adt_items' :
               (i \in DOMAIN adt_items /\ adt_items'[i] = adt_items[i]) \/ adt_items'[i] = a
          /\ \A d : Waiting(adt_items, d) \/ d = a => Waiting(adt_items', d)
      <4>1. PICK old, longer : old = adt_items /\ longer = adt_items'
        OBVIOUS
      <4>2. old \in Seq(DefIds) /\ longer = Append(old, a)
        BY <1>1, <3>1, <4>1
      <4>3. \A i \in DOMAIN longer : (i \in DOMAIN old /\ longer[i] = old[i]) \/ longer[i] = a
        BY SMTT(60), <3>3, <4>2, WaitingAppend
      <4>4. \A d : Waiting(old, d) \/ d = a => Waiting(longer, d)
        BY ZenonT(60), <3>3, <4>2, WaitingAppend
      <4> QED
        BY <4>1, <4>3, <4>4
    <3>5. \A i \in DOMAIN adt_items' : adt_items'[i] \in LocalAdts(crate)
      BY <1>3, <3>2, <3>4
    <3>6. \A d : Waiting(adt_items', d) <=> Waiting(adt_items, d)'
      BY DEF Waiting
    <3>7. \A d \in LocalAdts(crate) :
            ToVisit("adt", d) \/ Waiting(adt_items, d) =>
              ToVisit("adt", d)' \/ Waiting(adt_items, d)'
      BY <2>4, <3>2, <3>4, <3>6
    <3>8. \A g \in UserFns(crate) :
            ToVisit("fns", g) \/ Waiting(fn_items, g) =>
              ToVisit("fns", g)' \/ Waiting(fn_items, g)'
      BY <2>1, <2>4, <3>2 DEF Waiting
    <3> QED
      BY <1>2, <1>3, <2>1, <2>3, <3>5, <3>7, <3>8, VisitKeeps
  <2>6. CASE VisitedFns \/ VisitOther
    <3>1. adt_items' = adt_items
      BY <2>6 DEF VisitedFns, VisitOther
    <3>2. Head(items).kind = "other" \/ (Head(items).kind = "fns" /\ Head(items).defs = {})
      BY <2>6 DEF VisitedFns, VisitOther, Discover
    <3>3. \A d : /\ ToVisit("adt", d) => ToVisit("adt", d)'
                 /\ ToVisit("fns", d) => ToVisit("fns", d)'
      BY <2>4, <3>2
    <3> QED
      BY <1>2, <1>3, <2>1, <2>3, <3>1, <3>3, VisitKeeps DEF Waiting
  <2> QED
    BY <1>5, <2>5, <2>6
<1>6. CASE VisitFn
  <2>1. PICK g \in Head(items).defs :
          /\ fn_items' = IF IsSpecFn(g) THEN fn_items ELSE Append(fn_items, g)
          /\ specs' = FileSpec(g)
          /\ items' = <<[Head(items) EXCEPT !.defs = Head(items).defs \ {g}]>> \o Tail(items)
    BY <1>6 DEF VisitFn
  <2>2. items # <<>> /\ Head(items).kind = "fns" /\ adt_items' = adt_items
        /\ phase' = "discover"
    BY <1>6 DEF VisitFn, Discover
  <2>3. PICK item, rest : /\ item = [Head(items) EXCEPT !.defs = Head(items).defs \ {g}]
                          /\ rest = Tail(items)
    OBVIOUS
  <2>4. /\ \A i \in DOMAIN rest : i + 1 \in DOMAIN items /\ rest[i] = items[i + 1]
        /\ \A i \in DOMAIN items :
             items[i] = Head(items) \/ (i - 1 \in DOMAIN rest /\ rest[i - 1] = items[i])
        /\ 1 \in DOMAIN items /\ Head(items) = items[1]
    BY <1>1, <2>2, <2>3, WaitingTail
  <2>5. Head(items) \in Item /\ rest \in Seq(Item)
    BY <1>1, <2>2, <2>3, HeadTailProperties
  <2>6. item \in Item /\ item.kind = "fns" /\ item.defs = Head(items).defs \ {g}
    BY <2>2, <2>3, <2>5 DEF Item
  <2>7. <<item>> \in Seq(Item) /\ Len(<<item>>) = 1 /\ <<item>>[1] = item
        /\ items' = <<item>> \o rest
    BY <2>1, <2>3, <2>6
  <2>8. /\ items' \in Seq(Item) /\ Len(items') = 1 + Len(rest)
        /\ items'[1] = item /\ \A i \in 1 .. Len(rest) : items'[i + 1] = rest[i]
        /\ Len(rest) \in Nat
    <3>1. /\ items' \in Seq(Item) /\ Len(items') = 1 + Len(rest)
          /\ \A i \in 1 .. Len(<<item>>) + Len(rest) :
               items'[i] = IF i <= Len(<<item>>) THEN <<item>>[i] ELSE rest[i - Len(<<item>>)]
      BY <2>5, <2>7, ConcatProperties
    <3>2. Len(rest) \in Nat
      BY <2>5, LenProperties
    <3> QED
      BY <2>7, <3>1, <3>2
  <2>9. /\ \A i \in DOMAIN items' :
             items'[i] = item \/ \E j \in DOMAIN items : items'[i] = items[j]
        /\ \E i \in DOMAIN items' : items'[i] = item
        /\ \A j \in DOMAIN items :
             items[j] = Head(items) \/ \E i \in DOMAIN items' : items'[i] = items[j]
    <3>1. DOMAIN items' = 1 .. 1 + Len(rest) /\ DOMAIN rest = 1 .. Len(rest)
      BY <2>5, <2>8, LenProperties
    <3>2. ASSUME NEW i \in DOMAIN items'
          PROVE  items'[i] = item \/ \E j \in DOMAIN items : items'[i] = items[j]
      <4>1. CASE i = 1
        BY <2>8, <4>1
      <4>2. CASE i # 1
        <5>1. i - 1 \in 1 .. Len(rest) /\ i = (i - 1) + 1
          BY <2>8, <3>1, <3>2, <4>2
        <5> QED
          BY <2>4, <2>8, <3>1, <5>1
      <4> QED
        BY <4>1, <4>2
    <3>3. ASSUME NEW k \in DOMAIN rest PROVE k + 1 \in DOMAIN items' /\ items'[k + 1] = rest[k]
      BY <2>8, <3>1, <3>3
    <3>4. \A j \in DOMAIN items :
            items[j] = Head(items) \/ \E i \in DOMAIN items' : items'[i] = items[j]
      BY <2>4, <3>3
    <3>5. 1 \in DOMAIN items'
      BY <2>8, <3>1
    <3> QED
      BY <2>8, <3>2, <3>4, <3>5
  <2>10. Head(items).defs \subseteq Listed(crate, "fns") /\ g \in Listed(crate, "fns")
    BY <1>3, <2>1, <2>2, <2>4
  <2>11. ItemsKept'
    BY <1>2, <1>3, <2>2, <2>6, <2>9, <2>10 DEF ItemsKept
  <2>12. g \in DefIds /\ (~IsSpecFn(g) <=> g \in UserFns(crate))
    BY <1>1, <2>10, CrateLists DEF IsSpecFn, UserFns
  <2>13. /\ \A i \in DOMAIN fn_items' :
              (i \in DOMAIN fn_items /\ fn_items'[i] = fn_items[i])
                \/ (fn_items'[i] = g /\ g \in UserFns(crate))
         /\ \A d : Waiting(fn_items, d) => Waiting(fn_items', d)
         /\ g \in UserFns(crate) => Waiting(fn_items', g)
    <3>1. CASE IsSpecFn(g)
      BY <2>1, <2>12, <3>1
    <3>2. CASE ~IsSpecFn(g)
      <4>1. PICK old, longer : old = fn_items /\ longer = fn_items'
        OBVIOUS
      <4>2. old \in Seq(DefIds) /\ longer = Append(old, g)
        BY <1>1, <2>1, <3>2, <4>1
      <4>3. \A i \in DOMAIN longer : (i \in DOMAIN old /\ longer[i] = old[i]) \/ longer[i] = g
        BY SMTT(60), <2>12, <4>2, WaitingAppend
      <4>4. \A d : Waiting(old, d) \/ d = g => Waiting(longer, d)
        BY ZenonT(60), <2>12, <4>2, WaitingAppend
      <4> QED
        BY <2>12, <3>2, <4>1, <4>3, <4>4
    <3> QED
      BY <3>1, <3>2
  <2>14. \A i \in DOMAIN fn_items' : fn_items'[i] \in UserFns(crate)
    BY <1>3, <2>13
  <2>15. \A f \in DefIds, t \in SpecTypes : \A i \in DOMAIN specs'[f][t] :
           specs'[f][t][i] \in SpecFns(crate)
    BY <2>1, <2>10, FileSpecListed
  <2>16. \A kind, d : ToVisit(kind, d) => ToVisit(kind, d)' \/ (kind = "fns" /\ d = g)
    <3>1. ASSUME NEW kind, NEW d, NEW j \in DOMAIN items,
                 items[j].kind = kind, d \in items[j].defs
          PROVE  ToVisit(kind, d)' \/ (kind = "fns" /\ d = g)
      <4>1. CASE items[j] = Head(items)
        <5>1. kind = "fns" /\ (d = g \/ d \in item.defs)
          BY <2>2, <2>6, <3>1, <4>1
        <5> QED
          BY <2>6, <2>9, <5>1 DEF ToVisit
      <4>2. CASE \E i \in DOMAIN items' : items'[i] = items[j]
        BY <3>1, <4>2 DEF ToVisit
      <4> QED
        BY <2>9, <4>1, <4>2
    <3> QED
      BY <3>1 DEF ToVisit
  <2>17. /\ \A d : Waiting(adt_items, d) => Waiting(adt_items, d)'
         /\ \A d : Waiting(fn_items', d) <=> Waiting(fn_items, d)'
    BY <2>2 DEF Waiting
  <2>18. \A d \in UserFns(crate) :
           ToVisit("fns", d) \/ Waiting(fn_items, d) =>
             ToVisit("fns", d)' \/ Waiting(fn_items, d)'
    BY <2>13, <2>16, <2>17
  <2>19. \A a \in LocalAdts(crate) :
           ToVisit("adt", a) \/ Waiting(adt_items, a) =>
             ToVisit("adt", a)' \/ Waiting(adt_items, a)'
    BY <2>16, <2>17
  <2> QED
    BY <1>2, <1>3, <2>2, <2>11, <2>14, <2>15, <2>18, <2>19, VisitKeeps
<1> QED
  BY <1>4, <1>5, <1>6 DEF Discovery

----------------------------------------------------------------------------
(* The loops.                                                               *)

(* What the stack of a function or of a stub starts with: only what is to   *)
(* be done for it, and none of the operations of some kinds.                *)
Begins(ops, g, kinds) ==
  /\ ops \in Seq(Op)
  /\ \A i \in DOMAIN ops :
       /\ ops[i].op \notin kinds \cup {"addAdt", "call"}
       /\ ops[i].op \in {"enter", "emit", "stub"} => ops[i].arg = g
       /\ ops[i].op = "spec" => ops[i].arg \in SpecFns(crate)

(* Extracting one part of a function after another.                         *)
LEMMA BeginsConcat ==
  ASSUME NEW g, NEW kinds, NEW s, NEW t, Begins(s, g, kinds), Begins(t, g, kinds)
  PROVE  Begins(s \o t, g, kinds)
<1>1. s \in Seq(Op) /\ t \in Seq(Op)
  BY DEF Begins
<1>2. /\ s \o t \in Seq(Op)
      /\ \A i \in DOMAIN (s \o t) :
              \/ i \in DOMAIN s /\ (s \o t)[i] = s[i]
              \/ i - Len(s) \in DOMAIN t /\ (s \o t)[i] = t[i - Len(s)]
  BY <1>1, ConcatFrom
<1> QED
  BY <1>2 DEF Begins

(* Generics and types, ...                                                  *)
LEMMA BeginsTypes ==
  ASSUME NEW g, NEW kind \in {"reg", "type"}, NEW args \in Seq(DefIds),
         NEW kinds \in SUBSET {"enter", "spec", "emit", "stub"}
  PROVE  Begins(Ops(kind, args), g, kinds)
<1>1. /\ Ops(kind, args) \in Seq(Op) /\ DOMAIN Ops(kind, args) = DOMAIN args
      /\ \A i \in DOMAIN args : Ops(kind, args)[i].op = kind
  BY DefOpsType DEF DefOps
<1> QED
  BY <1>1 DEF Begins

(* ... spec functions, ...                                                  *)
LEMMA BeginsSpecs ==
  ASSUME NEW g, NEW args \in Seq(DefIds), \A i \in DOMAIN args : args[i] \in SpecFns(crate)
  PROVE  Begins(Ops("spec", args), g, {"stub"})
<1>1. /\ Ops("spec", args) \in Seq(Op) /\ DOMAIN Ops("spec", args) = DOMAIN args
      /\ \A i \in DOMAIN args :
           Ops("spec", args)[i].op = "spec" /\ Ops("spec", args)[i].arg = args[i]
  BY DefOpsType DEF DefOps
<1> QED
  BY <1>1 DEF Begins

(* ... and the function's own body and its end.                             *)
LEMMA BeginsOne ==
  ASSUME NEW g \in DefIds, NEW kind \in {"enter", "emit", "stub"},
         NEW kinds \in SUBSET ({"enter", "spec", "emit", "stub"} \ {kind})
  PROVE  Begins(One(kind, g), g, kinds)
<1>1. /\ One(kind, g) \in Seq(Op) /\ DOMAIN One(kind, g) = {1}
      /\ One(kind, g)[1].op = kind /\ One(kind, g)[1].arg = g
  BY OneType DEF DefOps
<1> QED
  BY <1>1 DEF Begins

(* The operations of a function: it is added in the end, ...                *)
LEMMA FunctionBegins ==
  ASSUME CompleteInv, NEW g \in DefIds
  PROVE  /\ Begins(FunctionOps(g), g, {"stub"})
         /\ \E i \in DOMAIN FunctionOps(g) :
              FunctionOps(g)[i].op = "emit" /\ FunctionOps(g)[i].arg = g
<1>1. PICK regs, bounds, enter, m, p, ret, q, last :
        /\ regs = Ops("reg", crate.tparams[g]) /\ bounds = Ops("type", crate.bounds[g])
        /\ enter = One("enter", g)
        /\ m = Ops("spec", FirstOf(specs[g]["measure"]))
        /\ p = Ops("spec", specs[g]["pre"]) /\ ret = One("ret", NoDef)
        /\ q = Ops("spec", specs[g]["post"]) /\ last = One("emit", g)
  OBVIOUS
<1>2. /\ specs[g]["measure"] \in Seq(DefIds) /\ specs[g]["pre"] \in Seq(DefIds)
      /\ specs[g]["post"] \in Seq(DefIds) /\ crate \in Crates
      /\ \A t \in SpecTypes : \A i \in DOMAIN specs[g][t] : specs[g][t][i] \in SpecFns(crate)
  BY DEF CompleteInv, FunctionsListed, ExtractionInv, TypeOK, SpecTypes
<1>3. PICK measures, first : measures = specs[g]["measure"] /\ first = FirstOf(measures)
  OBVIOUS
<1>4. first \in Seq(DefIds) /\ \A i \in DOMAIN first : first[i] \in SpecFns(crate)
  <2>1. measures \in Seq(DefIds) /\ \A i \in DOMAIN measures : measures[i] \in SpecFns(crate)
    BY <1>2, <1>3 DEF SpecTypes
  <2>2. CASE measures = <<>>
    BY <1>3, <2>2 DEF FirstOf
  <2>3. CASE measures # <<>>
    <3>1. 1 \in DOMAIN measures /\ Head(measures) = measures[1] /\ Head(measures) \in DefIds
      BY <2>1, <2>3, WaitingTail, HeadTailProperties
    <3>2. first = <<measures[1]>>
      BY <1>3, <2>3, <3>1 DEF FirstOf
    <3> QED
      BY <2>1, <3>1, <3>2
  <2> QED
    BY <2>2, <2>3
<1>5. Begins(m, g, {"stub"})
  BY <1>1, <1>3, <1>4, BeginsSpecs
<1>6. Begins(p, g, {"stub"}) /\ Begins(q, g, {"stub"})
  BY <1>1, <1>2, BeginsSpecs DEF SpecTypes
<1>7. Begins(enter, g, {"stub"}) /\ Begins(last, g, {"stub"})
  BY <1>1, BeginsOne
<1>8. Begins(regs, g, {"stub"}) /\ Begins(bounds, g, {"stub"})
  BY <1>1, <1>2, CrateTypes, BeginsTypes
<1>9. Begins(ret, g, {"stub"})
  BY <1>1, OneRet DEF Begins
<1>10. Begins(regs \o bounds, g, {"stub"})
  BY <1>8, BeginsConcat
<1>11. Begins((regs \o bounds) \o enter, g, {"stub"})
  BY <1>7, <1>10, BeginsConcat
<1>12. Begins((regs \o bounds) \o enter \o m, g, {"stub"})
  BY <1>5, <1>11, BeginsConcat
<1>13. Begins((regs \o bounds) \o enter \o m \o p, g, {"stub"})
  BY <1>6, <1>12, BeginsConcat
<1>14. Begins((regs \o bounds) \o enter \o m \o p \o ret, g, {"stub"})
  BY <1>9, <1>13, BeginsConcat
<1>15. PICK front : front = (regs \o bounds) \o enter \o m \o p \o ret \o q
  OBVIOUS
<1>16. Begins(front, g, {"stub"})
  BY <1>6, <1>14, <1>15, BeginsConcat
<1>17. Begins(front \o last, g, {"stub"})
  BY <1>7, <1>16, BeginsConcat
<1>18. FunctionOps(g) = front \o last
  BY <1>1, <1>15 DEF FunctionOps, GenericsOps
<1>19. \E i \in DOMAIN (front \o last) :
         (front \o last)[i].op = "emit" /\ (front \o last)[i].arg = g
  <2>1. front \in Seq(Op) /\ last \in Seq(Op)
    BY <1>7, <1>16 DEF Begins
  <2>2. \A i \in DOMAIN last :
          Len(front) + i \in DOMAIN (front \o last) /\ (front \o last)[Len(front) + i] = last[i]
    BY <2>1, ConcatFrom
  <2>3. 1 \in DOMAIN last /\ last[1].op = "emit" /\ last[1].arg = g
    BY <1>1, OneType DEF DefOps
  <2> QED
    BY <2>2, <2>3
<1> QED
  BY <1>17, <1>18, <1>19

(* ... and so is a stub, which has no body and no contract.                 *)
LEMMA StubBegins ==
  ASSUME CompleteInv, NEW g \in DefIds
  PROVE  /\ Begins(StubOps(g), g, {"enter", "spec", "emit"})
         /\ \E i \in DOMAIN StubOps(g) : StubOps(g)[i].op = "stub" /\ StubOps(g)[i].arg = g
<1>1. PICK regs, bounds, inputs, result, last, kinds :
        /\ regs = Ops("reg", crate.tparams[g]) /\ bounds = Ops("type", crate.bounds[g])
        /\ inputs = [i \in DOMAIN crate.inputs[g] |-> [op |-> "input", arg |-> i]]
        /\ result = Ops("type", crate.types[g]) /\ last = One("stub", g)
        /\ kinds = {"enter", "spec", "emit"}
  OBVIOUS
<1>2. crate \in Crates
  BY DEF CompleteInv, ExtractionInv, TypeOK
<1>3. Begins(inputs, g, kinds)
  <2>1. crate.inputs[g] \in Seq(Seq(DefIds))
    BY <1>2, CrateTypes
  <2>2. Len(crate.inputs[g]) \in Nat /\ DOMAIN crate.inputs[g] = 1 .. Len(crate.inputs[g])
    BY <2>1, LenProperties
  <2>3. \A i \in 1 .. Len(crate.inputs[g]) : [op |-> "input", arg |-> i] \in Op
    BY <2>2 DEF Op
  <2>4. inputs \in Seq(Op) /\ DOMAIN inputs = DOMAIN crate.inputs[g]
    BY <1>1, <2>2, <2>3
  <2>5. \A i \in DOMAIN inputs : inputs[i].op = "input"
    BY <1>1, <2>4
  <2> QED
    BY <1>1, <2>4, <2>5 DEF Begins
<1>4. Begins(regs, g, kinds) /\ Begins(bounds, g, kinds) /\ Begins(result, g, kinds)
  BY <1>1, <1>2, CrateTypes, BeginsTypes
<1>5. Begins(last, g, kinds)
  BY <1>1, BeginsOne
<1>6. Begins(regs \o bounds, g, kinds)
  BY <1>4, BeginsConcat
<1>7. Begins((regs \o bounds) \o inputs, g, kinds)
  BY <1>3, <1>6, BeginsConcat
<1>8. PICK front : front = (regs \o bounds) \o inputs \o result
  OBVIOUS
<1>9. Begins(front, g, kinds)
  BY <1>4, <1>7, <1>8, BeginsConcat
<1>10. Begins(front \o last, g, kinds)
  BY <1>5, <1>9, BeginsConcat
<1>11. StubOps(g) = front \o last
  BY <1>1, <1>8 DEF StubOps, GenericsOps
<1>12. \E i \in DOMAIN (front \o last) :
         (front \o last)[i].op = "stub" /\ (front \o last)[i].arg = g
  <2>1. front \in Seq(Op) /\ last \in Seq(Op)
    BY <1>5, <1>9 DEF Begins
  <2>2. \A i \in DOMAIN last :
          Len(front) + i \in DOMAIN (front \o last) /\ (front \o last)[Len(front) + i] = last[i]
    BY <2>1, ConcatFrom
  <2>3. 1 \in DOMAIN last /\ last[1].op = "stub" /\ last[1].arg = g
    BY <1>1, OneType DEF DefOps
  <2> QED
    BY <2>2, <2>3
<1> QED
  BY <1>1, <1>10, <1>11, <1>12

(* The loop over the ADTs: the sort of the one taken is still to be added.  *)
LEMMA StartAdtComplete ==
  ASSUME CompleteInv, ExtractionInv', StartAdt
  PROVE  CompleteInv'
<1>1. PICK a, s, t : a = Head(adt_items) /\ s = One("adt", a) /\ t = One("addAdt", a)
  OBVIOUS
<1>2. /\ adt_items # <<>> /\ adt_items' = Tail(adt_items) /\ todo' = s \o t
      /\ phase = "adts" /\ todo = <<>>
      /\ UNCHANGED <<did_to_stid, crate, phase, items, fn_items, specs, stubs, fd,
                     adts, function_refs, functions>>
  BY <1>1 DEF StartAdt, Idle, mapping_vars, output_vars
<1>3. adt_items \in Seq(DefIds)
  BY DEF CompleteInv, ExtractionInv, TypeOK
<1>4. /\ \A i \in DOMAIN Tail(adt_items) :
           i + 1 \in DOMAIN adt_items /\ Tail(adt_items)[i] = adt_items[i + 1]
      /\ \A d : Waiting(adt_items, d) => Waiting(Tail(adt_items), d) \/ d = Head(adt_items)
      /\ 1 \in DOMAIN adt_items /\ Head(adt_items) = adt_items[1]
  BY <1>2, <1>3, WaitingTail
<1>5. a \in LocalAdts(crate) /\ a \in DefIds
  BY <1>1, <1>3, <1>4, LenProperties DEF CompleteInv, SortsKept
<1>6. /\ s \in Seq(Op) /\ DOMAIN s = {1} /\ s[1].op = "adt"
      /\ t \in Seq(Op) /\ DOMAIN t = {1} /\ t[1].op = "addAdt" /\ t[1].arg = a
  BY <1>1, <1>5, OneType DEF DefOps
<1>7. /\ \A i \in DOMAIN todo' : \/ i \in DOMAIN s /\ todo'[i] = s[i]
                                 \/ i - Len(s) \in DOMAIN t /\ todo'[i] = t[i - Len(s)]
      /\ \E i \in DOMAIN todo' : todo'[i] = t[1]
  <2>1. s \in Seq(Op) /\ t \in Seq(Op)
    BY <1>6
  <2>2. /\ \A i \in DOMAIN (s \o t) :
             \/ i \in DOMAIN s /\ (s \o t)[i] = s[i]
             \/ i - Len(s) \in DOMAIN t /\ (s \o t)[i] = t[i - Len(s)]
        /\ \A i \in DOMAIN t : Len(s) + i \in DOMAIN (s \o t) /\ (s \o t)[Len(s) + i] = t[i]
    BY <2>1, ConcatFrom
  <2>3. PICK both : both = s \o t
    OBVIOUS
  <2>4. \E i \in DOMAIN both : both[i] = t[1]
    BY <1>6, <2>2, <2>3
  <2> QED
    BY <1>2, <2>2, <2>3, <2>4
<1>8. \A i \in DOMAIN todo' :
        todo'[i].op \in {"adt", "addAdt"} /\ (todo'[i].op = "addAdt" => todo'[i].arg = a)
  BY <1>6, <1>7
<1>9. /\ \A kind, d : Pending(kind, d)' => kind \in {"adt", "addAdt"}
      /\ \A d : Pending("addAdt", d)' => d = a
      /\ Pending("addAdt", a)'
      /\ \A kind, d : ~Pending(kind, d)
  BY <1>2, <1>6, <1>7, <1>8 DEF Pending
<1>10. ItemsKept'
  BY <1>2 DEF CompleteInv, ItemsKept
<1>11. SortsKept'
  <2>1. \A d : Waiting(adt_items, d) => Waiting(adt_items, d)' \/ d = a
    <3>1. PICK rest : rest = Tail(adt_items) /\ rest = adt_items'
      BY <1>2
    <3>2. \A d : Waiting(adt_items, d) => Waiting(rest, d) \/ d = a
      BY <1>1, <1>4, <3>1
    <3> QED
      BY <3>1, <3>2 DEF Waiting
  <2>2. \A i \in DOMAIN adt_items' : adt_items'[i] \in LocalAdts(crate)
    BY <1>2, <1>4 DEF CompleteInv, SortsKept
  <2>3. \A d \in LocalAdts(crate) :
          ToVisit("adt", d)' \/ Waiting(adt_items, d)' \/ Pending("addAdt", d)' \/ IsSort(d)'
    BY <1>2, <1>9, <2>1 DEF CompleteInv, SortsKept, ToVisit, IsSort, IsRegistered
  <2> QED
    BY <1>2, <1>5, <1>9, <2>2, <2>3 DEF CompleteInv, SortsKept, IsRegistered
<1>12. FunctionsListed'
  BY <1>2, <1>9 DEF CompleteInv, FunctionsListed, Callable, Stubbed
<1>13. FunctionsKnown'
  BY <1>2 DEF CompleteInv, FunctionsKnown, IsRegistered, Callable, Stubbed
<1>14. FunctionsKept'
  BY <1>2, <1>9 DEF CompleteInv, FunctionsKept, ToVisit, Waiting, Added, IsRegistered
<1> QED
  BY <1>10, <1>11, <1>12, <1>13, <1>14 DEF CompleteInv

(* The ends of the loops: nothing is left, and the stubs to be made are     *)
(* those of the external functions referred to so far.                      *)
LEMMA DoneComplete ==
  ASSUME CompleteInv, ExtractionInv', AdtsDone \/ FunctionsDone \/ StubsDone
  PROVE  CompleteInv'
<1>1. /\ todo = <<>>
      /\ UNCHANGED <<did_to_stid, crate, todo, items, adt_items, fn_items, specs, fd,
                     adts, function_refs, functions>>
  BY DEF AdtsDone, FunctionsDone, StubsDone, Idle, mapping_vars, output_vars, discovery_vars
<1>2. /\ \A kind, d : ~Pending(kind, d) /\ ~Pending(kind, d)'
      /\ \A kinds : NonePending(kinds)'
      /\ \A d : /\ IsRegistered(d)' <=> IsRegistered(d)
                /\ IsSort(d)' <=> IsSort(d)
                /\ Added(d)' <=> Added(d)
  BY <1>1 DEF Pending, NonePending, IsRegistered, IsSort, Added
<1>3. \/ phase = "adts" /\ phase' = "functions" /\ adt_items = <<>> /\ stubs' = stubs
      \/ /\ phase = "functions" /\ phase' = "externals"
         /\ fn_items = <<>> /\ stubs' = Stubbed
      \/ phase = "externals" /\ phase' = "done" /\ stubs = {} /\ stubs' = {}
  BY DEF AdtsDone, FunctionsDone, StubsDone, Idle, Stubbed
<1>4. items = <<>>
  BY <1>3 DEF CompleteInv, ItemsKept
<1>5. ItemsKept'
  BY <1>1, <1>4 DEF ItemsKept
<1>6. SortsKept'
  <2>1. phase' \in {"functions", "externals", "done"} => adt_items = <<>>
    BY <1>3 DEF CompleteInv, SortsKept
  <2> QED
    BY <1>1, <1>2, <2>1 DEF CompleteInv, SortsKept, ToVisit, Waiting
<1>7. stubs' \subseteq Stubbed /\ Stubbed' = Stubbed
  BY <1>1, <1>3 DEF CompleteInv, FunctionsListed, Stubbed
<1>8. FunctionsListed'
  BY <1>1, <1>2, <1>7 DEF CompleteInv, FunctionsListed
<1>9. FunctionsKnown'
  BY <1>1, <1>2, <1>7 DEF CompleteInv, FunctionsKnown, Callable
<1>10. FunctionsKept'
  <2>1. \A d \in UserFns(crate) : ToVisit("fns", d)' \/ Waiting(fn_items, d)' \/ Added(d)'
    BY <1>1, <1>2 DEF CompleteInv, FunctionsKept, ToVisit, Waiting
  <2>2. ASSUME phase' \in {"externals", "done"}
        PROVE  fn_items = <<>> /\ \A d \in Stubbed : d \in stubs' \/ Added(d)
    BY <1>2, <1>3, <2>2 DEF CompleteInv, FunctionsKept
  <2> QED
    BY <1>1, <1>2, <1>3, <1>7, <2>1, <2>2 DEF FunctionsKept
<1> QED
  BY <1>5, <1>6, <1>8, <1>9, <1>10 DEF CompleteInv

(* The loop over the functions: the one taken is still to be added.         *)
LEMMA StartFunctionComplete ==
  ASSUME CompleteInv, ExtractionInv', StartFunction
  PROVE  CompleteInv'
<1>1. PICK g, ops : g = Head(fn_items) /\ ops = FunctionOps(g)
  OBVIOUS
<1>2. /\ fn_items # <<>> /\ fn_items' = Tail(fn_items) /\ todo' = ops
      /\ phase = "functions" /\ todo = <<>> /\ fd' = EmptyFd(g, FALSE)
      /\ UNCHANGED <<did_to_stid, crate, phase, items, adt_items, specs, stubs,
                     adts, function_refs, functions>>
  BY <1>1 DEF StartFunction, Idle, mapping_vars, output_vars
<1>3. fn_items \in Seq(DefIds)
  BY DEF CompleteInv, ExtractionInv, TypeOK
<1>4. /\ \A i \in DOMAIN Tail(fn_items) :
           i + 1 \in DOMAIN fn_items /\ Tail(fn_items)[i] = fn_items[i + 1]
      /\ \A d : Waiting(fn_items, d) => Waiting(Tail(fn_items), d) \/ d = Head(fn_items)
      /\ 1 \in DOMAIN fn_items /\ Head(fn_items) = fn_items[1]
  BY <1>2, <1>3, WaitingTail
<1>5. g \in UserFns(crate) /\ g \in DefIds
  BY <1>1, <1>3, <1>4, LenProperties DEF CompleteInv, FunctionsListed
<1>6. Begins(ops, g, {"stub"}) /\ \E i \in DOMAIN ops : ops[i].op = "emit" /\ ops[i].arg = g
  BY <1>1, <1>5, FunctionBegins
<1>7. /\ \A d : ~Pending("addAdt", d)' /\ ~Pending("call", d)' /\ ~Pending("stub", d)'
      /\ \A d : Pending("enter", d)' \/ Pending("emit", d)' => d = g
      /\ \A d : Pending("spec", d)' => d \in SpecFns(crate)
      /\ Pending("emit", g)'
      /\ \A kind, d : ~Pending(kind, d)
      /\ NonePending({"addAdt"})'
  BY <1>2, <1>6 DEF Pending, NonePending, Begins
<1>8. fd'.def = g /\ fd'.extern = FALSE
  BY <1>2 DEF EmptyFd
<1>9. ItemsKept'
  BY <1>2 DEF CompleteInv, ItemsKept
<1>10. SortsKept'
  BY <1>2, <1>7 DEF CompleteInv, SortsKept, ToVisit, Waiting, IsSort, IsRegistered
<1>11. \A i \in DOMAIN fn_items' : fn_items'[i] \in UserFns(crate)
  BY <1>2, <1>4 DEF CompleteInv, FunctionsListed
<1>12. FunctionsListed'
  BY <1>2, <1>5, <1>7, <1>8, <1>11 DEF CompleteInv, FunctionsListed, Callable, Stubbed
<1>13. FunctionsKnown'
  BY <1>2 DEF CompleteInv, FunctionsKnown, IsRegistered, Callable, Stubbed
<1>14. FunctionsKept'
  <2>1. \A d : Waiting(fn_items, d) => Waiting(fn_items, d)' \/ d = g
    <3>1. PICK rest : rest = Tail(fn_items) /\ rest = fn_items'
      BY <1>2
    <3>2. \A d : Waiting(fn_items, d) => Waiting(rest, d) \/ d = g
      BY <1>1, <1>4, <3>1
    <3> QED
      BY <3>1, <3>2 DEF Waiting
  <2>2. \A d \in UserFns(crate) :
          ToVisit("fns", d)' \/ Waiting(fn_items, d)' \/ Pending("emit", d)' \/ Added(d)'
    BY <1>2, <1>7, <2>1 DEF CompleteInv, FunctionsKept, ToVisit, Added, IsRegistered
  <2> QED
    BY <1>2, <2>2 DEF FunctionsKept
<1> QED
  BY <1>9, <1>10, <1>12, <1>13, <1>14 DEF CompleteInv

(* The loop over the external functions: the stub taken is still to be      *)
(* added.                                                                   *)
LEMMA StartStubComplete ==
  ASSUME CompleteInv, ExtractionInv', StartStub
  PROVE  CompleteInv'
<1>1. PICK g \in stubs : /\ stubs' = stubs \ {g} /\ fd' = EmptyFd(g, TRUE)
                         /\ todo' = StubOps(g)
  BY DEF StartStub
<1>2. /\ phase = "externals" /\ todo = <<>>
      /\ UNCHANGED <<did_to_stid, crate, phase, items, adt_items, fn_items, specs,
                     adts, function_refs, functions>>
  BY DEF StartStub, Idle, mapping_vars, discovery_vars, output_vars
<1>3. g \in Stubbed /\ g \in DefIds
  BY <1>1 DEF CompleteInv, FunctionsListed, ExtractionInv, TypeOK
<1>4. PICK ops : ops = StubOps(g)
  OBVIOUS
<1>5. /\ Begins(ops, g, {"enter", "spec", "emit"})
      /\ \E i \in DOMAIN ops : ops[i].op = "stub" /\ ops[i].arg = g
  BY <1>3, <1>4, StubBegins
<1>6. /\ \A d : ~Pending("addAdt", d)' /\ ~Pending("call", d)' /\ ~Pending("emit", d)'
      /\ \A d : ~Pending("enter", d)' /\ ~Pending("spec", d)'
      /\ \A d : Pending("stub", d)' => d = g
      /\ Pending("stub", g)'
      /\ \A kind, d : ~Pending(kind, d)
      /\ NonePending({"addAdt"})'
      /\ NonePending({"call", "enter", "spec", "emit"})'
  BY <1>1, <1>2, <1>4, <1>5 DEF Pending, NonePending, Begins
<1>7. fd'.def = g /\ fd'.extern = TRUE
  BY <1>1 DEF EmptyFd
<1>8. ItemsKept'
  BY <1>2 DEF CompleteInv, ItemsKept
<1>9. SortsKept'
  BY <1>2, <1>6 DEF CompleteInv, SortsKept, ToVisit, Waiting, IsSort, IsRegistered
<1>10. Stubbed' = Stubbed
  BY <1>2 DEF Stubbed
<1>11. FunctionsListed'
  BY <1>1, <1>2, <1>3, <1>6, <1>7, <1>10 DEF CompleteInv, FunctionsListed, Callable
<1>12. FunctionsKnown'
  BY <1>2, <1>10 DEF CompleteInv, FunctionsKnown, IsRegistered, Callable
<1>13. FunctionsKept'
  <2>1. \A d : Added(d)' <=> Added(d)
    BY <1>2 DEF Added, IsRegistered
  <2>2. \A d \in Stubbed : d \in stubs' \/ Pending("stub", d)' \/ Added(d)
    BY <1>1, <1>2, <1>6 DEF CompleteInv, FunctionsKept
  <2> QED
    BY <1>2, <1>6, <1>10, <2>1, <2>2 DEF CompleteInv, FunctionsKept, ToVisit, Waiting
<1> QED
  BY <1>8, <1>9, <1>11, <1>12, <1>13 DEF CompleteInv

----------------------------------------------------------------------------
(* The invariant is inductive.                                              *)

(* It holds of the crate the visitor starts on, ...                         *)
LEMMA CompleteInit == Init => CompleteInv
<1> SUFFICES ASSUME Init PROVE CompleteInv
  OBVIOUS
<1>1. ExtractionInv /\ crate \in Crates
  BY ExtractionInitInv DEF Init
<1>2. /\ items = crate.items /\ adt_items = <<>> /\ fn_items = <<>> /\ todo = <<>>
      /\ stubs = {} /\ adts = {} /\ function_refs = {} /\ phase = "discover"
      /\ specs = [d \in DefIds |-> NoSpecs] /\ DOMAIN functions = {}
  BY DEF Init
<1>3. /\ \A kind, d : d \in Listed(crate, kind) <=> ToVisit(kind, d)
      /\ UserFns(crate) \subseteq Listed(crate, "fns")
      /\ WellFormed(crate)
  BY <1>1, <1>2, CrateLists DEF ToVisit
<1>4. ItemsKept
  <2>1. ASSUME NEW i \in DOMAIN items
        PROVE  /\ items[i].kind = "adt" => \E d \in LocalAdts(crate) : items[i].defs = {d}
               /\ items[i].kind = "fns" => items[i].defs \subseteq Listed(crate, "fns")
    <3>1. items[i].kind = "adt" => \E d \in DefIds : items[i].defs = {d}
      BY <1>2, <1>3 DEF WellFormed
    <3>2. \A d \in items[i].defs : d \in Listed(crate, items[i].kind)
      BY <1>3 DEF ToVisit
    <3> QED
      BY <3>1, <3>2 DEF LocalAdts
  <2> QED
    BY <1>2, <2>1 DEF ItemsKept
<1>5. SortsKept
  BY <1>2, <1>3 DEF SortsKept, Pending, LocalAdts
<1>6. FunctionsListed
  BY <1>2 DEF FunctionsListed, Pending, NoSpecs
<1>7. FunctionsKnown /\ FunctionsKept
  BY <1>2, <1>3 DEF FunctionsKnown, FunctionsKept
<1> QED
  BY <1>1, <1>4, <1>5, <1>6, <1>7 DEF CompleteInv

(* ... and every step keeps it.                                             *)
LEMMA CompleteStep ==
  ASSUME CompleteInv, [Next]_vars
  PROVE  CompleteInv'
<1>1. ExtractionInv' /\ [MappingNext]_mapping_vars
  BY ExtractionNext DEF CompleteInv
<1>2. DidKept
  BY <1>1, DidGrows
<1>3. CASE Next
  BY <1>1, <1>2, <1>3, DiscoveryComplete, TraversalComplete, StartAdtComplete, DoneComplete,
    StartFunctionComplete, StartStubComplete DEF Next, Loops
<1>4. CASE UNCHANGED vars
  <2>1. UNCHANGED <<did_to_stid, crate, phase, items, adt_items, fn_items, specs, stubs, todo,
                    fd, adts, function_refs, functions>>
    BY <1>4 DEF vars, mapping_vars, discovery_vars, output_vars
  <2> QED
    BY <1>1, <2>1
    DEF CompleteInv, ItemsKept, SortsKept, FunctionsListed, FunctionsKnown, FunctionsKept,
        ToVisit, Waiting, Pending, NonePending, IsSort, Added, IsRegistered, Callable, Stubbed
<1> QED
  BY <1>3, <1>4

(* Nothing the visitor found is lost on the way.                            *)
LEMMA CompleteInvariant == Spec => []CompleteInv
  BY CompleteInit, CompleteStep, PTL DEF Spec

----------------------------------------------------------------------------
(* process_crate, over: the sorts are those of the crate's ADTs.            *)
THEOREM AdtsComplete == Spec => []SortsComplete
<1>1. CompleteInv => SortsComplete
  <2> SUFFICES ASSUME CompleteInv, phase = "done"
               PROVE  adts = {did_to_stid[a] : a \in LocalAdts(crate)}
    BY DEF SortsComplete
  <2>1. items = <<>> /\ todo = <<>> /\ adt_items = <<>>
    BY DEF CompleteInv, ItemsKept, SortsKept
  <2>2. \A a \in LocalAdts(crate) : did_to_stid[a] \in adts
    BY <2>1 DEF CompleteInv, SortsKept, ToVisit, Waiting, Pending, IsSort
  <2> QED
    BY <2>2 DEF CompleteInv, SortsKept
<1> QED
  BY <1>1, CompleteInvariant, PTL

(* The identifier of a definition is its own.                               *)
LEMMA DefinitionsApart ==
  ASSUME UniqueGlobalIds, NEW d \in DOMAIN did_to_stid, NEW e \in DOMAIN did_to_stid,
         did_to_stid[d] = did_to_stid[e]
  PROVE  d = e
<1>1. PICK o, p : o = <<"def", d>> /\ p = <<"def", e>>
  OBVIOUS
<1>2. o \in Owners /\ p \in Owners
  BY <1>1 DEF Owners
<1>3. IdOf(o) = did_to_stid[d] /\ IdOf(p) = did_to_stid[e]
  BY <1>1 DEF IdOf
<1>4. o = p
  BY <1>2, <1>3 DEF UniqueGlobalIds
<1> QED
  BY <1>1, <1>4

(* process_crate, over: the functions are those of the crate and the stubs  *)
(* of the external ones its code refers to, each under the identifier its   *)
(* callers use.                                                             *)
THEOREM ProgramClosed == Spec => []FunctionsClosed
<1>1. CompleteInv /\ UniqueGlobalIds => FunctionsClosed
  <2> SUFFICES ASSUME CompleteInv, UniqueGlobalIds, phase = "done"
               PROVE  /\ {functions[id].def : id \in DOMAIN functions}
                           = UserFns(crate) \cup Stubbed
                      /\ \A id \in DOMAIN functions :
                           /\ id = did_to_stid[functions[id].def]
                           /\ functions[id].extern <=> functions[id].def \in crate.external
                      /\ \A g \in function_refs : did_to_stid[g] \in DOMAIN functions
    BY DEF FunctionsClosed, Stubbed
  <2>1. crate \in Crates /\ \A id \in DOMAIN functions : functions[id].extern \in BOOLEAN
    BY DEF CompleteInv, ExtractionInv, TypeOK, FunDef
  <2>2. UserFns(crate) \cap crate.external = {}
    BY <2>1, CrateLists
  <2>3. items = <<>> /\ todo = <<>> /\ fn_items = <<>> /\ stubs = {}
    BY DEF CompleteInv, ItemsKept, FunctionsKept
  <2>4. \A g \in UserFns(crate) \cup Stubbed : Added(g)
    BY <2>3 DEF CompleteInv, FunctionsKept, ToVisit, Waiting, Pending
  <2>5. ASSUME NEW g, Added(g) PROVE \E id \in DOMAIN functions : functions[id].def = g
    <3>1. PICK id \in DOMAIN functions : id = did_to_stid[g] /\ g \in DOMAIN did_to_stid
      BY <2>5 DEF Added, IsRegistered
    <3>2. functions[id].def \in DOMAIN did_to_stid /\ id = did_to_stid[functions[id].def]
      BY DEF CompleteInv, FunctionsKnown, IsRegistered
    <3> QED
      BY <3>1, <3>2, DefinitionsApart
  <2>6. \A id \in DOMAIN functions :
          /\ id = did_to_stid[functions[id].def]
          /\ \/ ~functions[id].extern /\ functions[id].def \in UserFns(crate)
             \/ functions[id].extern /\ functions[id].def \in Stubbed
    BY DEF CompleteInv, FunctionsKnown
  <2>7. \A id \in DOMAIN functions :
          functions[id].extern <=> functions[id].def \in crate.external
    BY <2>1, <2>2, <2>6 DEF Stubbed
  <2>8. \A g \in function_refs : g \in UserFns(crate) \cup Stubbed
    BY DEF CompleteInv, FunctionsKnown, Callable, Stubbed
  <2>9. \A g \in function_refs : did_to_stid[g] \in DOMAIN functions
    BY <2>4, <2>8 DEF Added
  <2>10. {functions[id].def : id \in DOMAIN functions} = UserFns(crate) \cup Stubbed
    BY <2>4, <2>5, <2>6
  <2> QED
    BY <2>6, <2>7, <2>9, <2>10
<1> QED
  BY <1>1, CompleteInvariant, ExtractedIdsUnique, PTL

-----------------------------------------------------------------------------
(* Contracts.                                                               *)

(* The spec functions that belong to a function of the crate, and where     *)
(* they go.                                                                 *)
Subjects == {s \in SpecFns(crate) : crate.spec_of[s] \in UserFns(crate)}
FiledFor(s) == specs[crate.spec_of[s]][crate.spec_type[s]]
ContractOf(f) == {s \in Subjects : crate.spec_of[s] = f.def}
Place(f, s) ==
  CASE crate.spec_type[s] = "measure" -> f.measure
    [] crate.spec_type[s] = "pre" -> f.pre
    [] crate.spec_type[s] = "post" -> f.post

Once(seq, s) == \E i \in DOMAIN seq : \A j \in DOMAIN seq : seq[j] = s <=> j = i
IsSpecOp(o, s) == o.op = "spec" /\ o.arg = s
OnceOn(ops, s) == \E i \in DOMAIN ops : \A j \in DOMAIN ops : IsSpecOp(ops[j], s) <=> j = i
NowhereOn(ops, s) == \A j \in DOMAIN ops : ~IsSpecOp(ops[j], s)

(* A spec function is filed when it is visited, which happens once; ...     *)
ItemsApart ==
  \A i, j \in DOMAIN items : items[i].defs \cap items[j].defs # {} => i = j
Filed ==
  \A s \in Subjects :
    IF ToVisit("fns", s) THEN ~Waiting(FiledFor(s), s) ELSE Once(FiledFor(s), s)

(* ... it is extracted with its function, after which it is in its place;   *)
(* with no error, for of several measures the first is taken.               *)
Ahead(f, ops, s) ==
  \/ OnceOn(ops, s) /\ ~Waiting(Place(f, s), s)
  \/ NowhereOn(ops, s) /\ Once(Place(f, s), s)
Attaching ==
  ~errors /\ Pending("emit", fd.def) => \A s \in ContractOf(fd) : Ahead(fd, todo, s)
Attached ==
  ~errors =>
    \A id \in DOMAIN functions : ~functions[id].extern =>
      \A s \in ContractOf(functions[id]) : Once(Place(functions[id], s), s)

AttachInv == CompleteInv /\ ItemsApart /\ Filed /\ Attaching /\ Attached

----------------------------------------------------------------------------
(* Lists with one more, ...                                                 *)
LEMMA OnceAppend ==
  ASSUME NEW S, NEW s \in Seq(S), NEW e \in S, NEW longer, longer = Append(s, e)
  PROVE  /\ ~Waiting(s, e) => Once(longer, e)
         /\ \A d : d # e /\ ~Waiting(s, d) => ~Waiting(longer, d)
         /\ \A d : d # e /\ Once(s, d) => Once(longer, d)
<1>1. /\ Len(longer) = Len(s) + 1 /\ longer[Len(s) + 1] = e
      /\ \A i \in 1 .. Len(s) : longer[i] = s[i]
      /\ Len(s) \in Nat
  BY AppendProperties, LenProperties
<1>2. DOMAIN longer = 1 .. Len(s) + 1 /\ DOMAIN s = 1 .. Len(s)
  <2>1. longer \in Seq(S)
    BY AppendProperties
  <2> QED
    BY <1>1, <2>1, LenProperties
<1>3. ~Waiting(s, e) => Once(longer, e)
  <2> SUFFICES ASSUME ~Waiting(s, e)
               PROVE  \E i \in DOMAIN longer : \A j \in DOMAIN longer : longer[j] = e <=> j = i
    BY DEF Once
  <2>1. \A j \in DOMAIN longer : longer[j] = e <=> j = Len(s) + 1
    BY <1>1, <1>2 DEF Waiting
  <2> QED
    BY <1>1, <1>2, <2>1
<1>4. \A d : d # e /\ ~Waiting(s, d) => ~Waiting(longer, d)
  BY <1>1, <1>2 DEF Waiting
<1>5. ASSUME NEW d, d # e, Once(s, d) PROVE Once(longer, d)
  <2>1. PICK i \in DOMAIN s : \A j \in DOMAIN s : s[j] = d <=> j = i
    BY <1>5 DEF Once
  <2>2. i \in DOMAIN longer /\ \A j \in DOMAIN longer : longer[j] = d <=> j = i
    BY <1>1, <1>2, <1>5, <2>1
  <2> QED
    BY <2>2 DEF Once
<1> QED
  BY <1>3, <1>4, <1>5

(* ... and stacks put together, from parts one of which at most has it:     *)
(* extracting one part of a function after another.                         *)
LEMMA SpecConcat ==
  ASSUME NEW a \in Seq(Op), NEW b \in Seq(Op), NEW s, NEW ab, ab = a \o b
  PROVE  /\ ab \in Seq(Op)
         /\ NowhereOn(a, s) /\ NowhereOn(b, s) => NowhereOn(ab, s)
         /\ OnceOn(a, s) /\ NowhereOn(b, s) => OnceOn(ab, s)
         /\ NowhereOn(a, s) /\ OnceOn(b, s) => OnceOn(ab, s)
<1>1. /\ ab \in Seq(Op) /\ Len(ab) = Len(a) + Len(b)
      /\ \A i \in DOMAIN ab :
           \/ i \in DOMAIN a /\ ab[i] = a[i]
           \/ i - Len(a) \in DOMAIN b /\ ab[i] = b[i - Len(a)]
  BY ConcatFrom, ConcatProperties, LenProperties
<1>2. /\ Len(a) \in Nat /\ Len(b) \in Nat
      /\ DOMAIN a = 1 .. Len(a) /\ DOMAIN b = 1 .. Len(b) /\ DOMAIN ab = 1 .. Len(a) + Len(b)
  BY <1>1, LenProperties
<1>3. NowhereOn(a, s) /\ NowhereOn(b, s) => NowhereOn(ab, s)
  BY <1>1 DEF NowhereOn
<1>4. ASSUME OnceOn(a, s), NowhereOn(b, s) PROVE OnceOn(ab, s)
  <2>1. PICK i \in DOMAIN a : \A j \in DOMAIN a : IsSpecOp(a[j], s) <=> j = i
    BY <1>4 DEF OnceOn
  <2>2. \A j \in DOMAIN b : ~IsSpecOp(b[j], s)
    BY <1>4 DEF NowhereOn
  <2>3. i \in DOMAIN ab
    BY <1>2
  <2>4. ASSUME NEW j \in DOMAIN ab PROVE IsSpecOp(ab[j], s) <=> j = i
    <3>1. CASE j \in DOMAIN a
      <4>1. ab[j] = a[j]
        BY <1>1, <1>2, <3>1
      <4> QED
        BY <2>1, <3>1, <4>1
    <3>2. CASE j \notin DOMAIN a
      BY <1>1, <2>2, <3>2
    <3> QED
      BY <3>1, <3>2
  <2> QED
    BY <2>3, <2>4 DEF OnceOn
<1>5. ASSUME NowhereOn(a, s), OnceOn(b, s) PROVE OnceOn(ab, s)
  <2>1. PICK k \in DOMAIN b : \A j \in DOMAIN b : IsSpecOp(b[j], s) <=> j = k
    BY <1>5 DEF OnceOn
  <2>2. \A j \in DOMAIN a : ~IsSpecOp(a[j], s)
    BY <1>5 DEF NowhereOn
  <2>3. PICK i : i = Len(a) + k
    OBVIOUS
  <2>4. i \in DOMAIN ab /\ i \notin DOMAIN a
    BY <1>2, <2>3
  <2>5. ASSUME NEW j \in DOMAIN ab PROVE IsSpecOp(ab[j], s) <=> j = i
    <3>1. CASE j \in DOMAIN a
      <4>1. ab[j] = a[j]
        BY <1>1, <1>2, <3>1
      <4> QED
        BY <2>2, <2>4, <3>1, <4>1
    <3>2. CASE j \notin DOMAIN a
      <4>1. j - Len(a) \in DOMAIN b /\ ab[j] = b[j - Len(a)]
        BY <1>1, <3>2
      <4>2. IsSpecOp(ab[j], s) <=> j - Len(a) = k
        BY <2>1, <4>1
      <4> QED
        BY <1>2, <2>3, <4>2
    <3> QED
      BY <3>1, <3>2
  <2> QED
    BY <2>4, <2>5 DEF OnceOn
<1> QED
  BY <1>1, <1>3, <1>4, <1>5

(* The parts of a function's stack: no spec functions, ...                  *)
LEMMA NoSpecParts ==
  ASSUME NEW ops, NEW g, NEW s, Begins(ops, g, {"spec"})
  PROVE  ops \in Seq(Op) /\ NowhereOn(ops, s)
  BY DEF Begins, NowhereOn, IsSpecOp

(* ... or those of a list, in which it is once or not at all.               *)
LEMMA SpecParts ==
  ASSUME NEW args \in Seq(DefIds), NEW s, NEW ops, ops = Ops("spec", args)
  PROVE  /\ ops \in Seq(Op)
         /\ Once(args, s) => OnceOn(ops, s)
         /\ ~Waiting(args, s) => NowhereOn(ops, s)
<1>1. /\ ops \in Seq(Op) /\ DOMAIN ops = DOMAIN args
      /\ \A i \in DOMAIN args : ops[i].op = "spec" /\ ops[i].arg = args[i]
  BY DefOpsType DEF DefOps
<1>2. \A i \in DOMAIN ops : IsSpecOp(ops[i], s) <=> args[i] = s
  BY <1>1 DEF IsSpecOp
<1>3. Once(args, s) => OnceOn(ops, s)
  BY <1>1, <1>2 DEF Once, OnceOn
<1>4. ~Waiting(args, s) => NowhereOn(ops, s)
  BY <1>1, <1>2 DEF Waiting, NowhereOn
<1> QED
  BY <1>1, <1>3, <1>4

(* One operation of the traversal: a spec function stays pending until it   *)
(* is extracted.                                                            *)
LEMMA SpecMoves ==
  ASSUME ExtractionInv, todo # <<>>, NEW ops, Follows(ops), Continue(ops), NEW s,
         NEW new, new = todo'
  PROVE  /\ IsSpecOp(Head(todo), s) /\ OnceOn(todo, s) => NowhereOn(new, s)
         /\ ~IsSpecOp(Head(todo), s) /\ OnceOn(todo, s) => OnceOn(new, s)
         /\ NowhereOn(todo, s) => NowhereOn(new, s)
<1>2. /\ ops \in Seq(Op) /\ todo \in Seq(Op)
      /\ 1 \in DOMAIN todo /\ Head(todo) = todo[1] /\ DOMAIN todo \subseteq Nat \ {0}
      /\ Len(ops) \in Nat /\ DOMAIN ops = 1 .. Len(ops)
  BY LenProperties, TopOfStack DEF Follows, Pushed, ExtractionInv, TypeOK
<1>3. /\ new \in Seq(Op)
      /\ \A i \in DOMAIN new :
           \/ i \in DOMAIN ops /\ new[i] = ops[i]
           \/ /\ i - Len(ops) + 1 \in DOMAIN todo /\ i - Len(ops) + 1 >= 2
              /\ i \notin DOMAIN ops
              /\ new[i] = todo[i - Len(ops) + 1]
      /\ \A j \in DOMAIN todo : j >= 2 =>
           j - 1 + Len(ops) \in DOMAIN new /\ new[j - 1 + Len(ops)] = todo[j]
  BY <1>2, Continued
<1>4. DOMAIN new \subseteq Nat
  BY <1>3, LenProperties
<1>5. \A i \in DOMAIN ops : ~IsSpecOp(ops[i], s)
  BY DEF Follows, Pushed, Rooted, IsSpecOp
<1>6. NowhereOn(todo, s) => NowhereOn(new, s)
  BY <1>3, <1>5 DEF NowhereOn
<1>7. ASSUME IsSpecOp(Head(todo), s), OnceOn(todo, s) PROVE NowhereOn(new, s)
  <2>1. PICK i \in DOMAIN todo : \A j \in DOMAIN todo : IsSpecOp(todo[j], s) <=> j = i
    BY <1>7 DEF OnceOn
  <2>2. i = 1
    BY <1>2, <1>7, <2>1
  <2>3. \A j \in DOMAIN todo : j >= 2 => ~IsSpecOp(todo[j], s)
    BY <2>1, <2>2
  <2> QED
    BY <1>3, <1>5, <2>3 DEF NowhereOn
<1>8. ASSUME ~IsSpecOp(Head(todo), s), OnceOn(todo, s) PROVE OnceOn(new, s)
  <2>1. PICK i \in DOMAIN todo : \A j \in DOMAIN todo : IsSpecOp(todo[j], s) <=> j = i
    BY <1>8 DEF OnceOn
  <2>2. i >= 2
    BY <1>2, <1>8, <2>1
  <2>3. PICK k : k = i - 1 + Len(ops)
    OBVIOUS
  <2>4. k \in DOMAIN new /\ k \notin DOMAIN ops
    BY <1>2, <1>3, <2>2, <2>3
  <2>5. ASSUME NEW j \in DOMAIN new PROVE IsSpecOp(new[j], s) <=> j = k
    <3>1. CASE j \in DOMAIN ops /\ new[j] = ops[j]
      BY <1>5, <2>4, <3>1
    <3>2. CASE ~(j \in DOMAIN ops /\ new[j] = ops[j])
      <4>1. j - Len(ops) + 1 \in DOMAIN todo /\ new[j] = todo[j - Len(ops) + 1]
        BY <1>3, <3>2
      <4>2. IsSpecOp(new[j], s) <=> j - Len(ops) + 1 = i
        BY <2>1, <4>1
      <4>3. j - Len(ops) + 1 = i <=> j = k
        BY SMTT(30), <1>2, <1>4, <2>3
      <4> QED
        BY <4>2, <4>3
    <3> QED
      BY <3>1, <3>2
  <2> QED
    BY <2>4, <2>5 DEF OnceOn
<1> QED
  BY <1>6, <1>7, <1>8

(* What the contract of a function is made of.                              *)
LEMMA SubjectTypes ==
  ASSUME crate \in Crates, NEW s \in Subjects
  PROVE  /\ s \in SpecFns(crate) /\ s \in Listed(crate, "fns") /\ s \in DefIds
         /\ crate.spec_of[s] \in UserFns(crate) /\ crate.spec_of[s] \in DefIds
         /\ crate.spec_type[s] \in SpecTypes /\ IsSpecFn(s)
<1>1. s \in SpecFns(crate) /\ crate.spec_of[s] \in UserFns(crate)
  BY DEF Subjects
<1>2. s \in Listed(crate, "fns") /\ s \in DefIds /\ crate.spec_of[s] \in DefIds
  BY <1>1, CrateLists
<1>3. crate.spec_type[s] # "none"
  BY <1>1 DEF SpecFns, UserFns
<1>4. crate.spec_type[s] \in SpecTypes \cup {"none"}
  BY <1>2, CrateTypes
<1> QED
  BY <1>1, <1>2, <1>3, <1>4 DEF IsSpecFn

(* A spec function goes to the end of its place, and no other changes.      *)
LEMMA AttachSpecPlace ==
  ASSUME fd \in FunDef, NEW e \in DefIds, crate.spec_type[e] \in SpecTypes,
         NEW s, crate.spec_type[s] \in SpecTypes
  PROVE  /\ Place(fd, s) \in Seq(DefIds)
         /\ Place(AttachSpec(e), e) = Append(Place(fd, e), e)
         /\ \/ Place(AttachSpec(e), s) = Place(fd, s)
            \/ Place(AttachSpec(e), s) = Append(Place(fd, s), e)
<1>1. Place(fd, s) \in Seq(DefIds)
  BY FunDefType DEF Place, SpecTypes
<1>2. PICK new : new = AttachSpec(e)
  OBVIOUS
<1>3. CASE crate.spec_type[e] = "measure"
  <2>1. new = [fd EXCEPT !.measure = Append(fd.measure, e)]
    BY <1>2, <1>3 DEF AttachSpec
  <2>2. new.measure = Append(fd.measure, e) /\ new.pre = fd.pre /\ new.post = fd.post
    BY <2>1 DEF FunDef
  <2> QED
    BY <1>1, <1>2, <1>3, <2>2 DEF Place, SpecTypes
<1>4. CASE crate.spec_type[e] = "pre"
  <2>1. new = [fd EXCEPT !.pre = Append(fd.pre, e)]
    BY <1>2, <1>4 DEF AttachSpec
  <2>2. new.measure = fd.measure /\ new.pre = Append(fd.pre, e) /\ new.post = fd.post
    BY <2>1 DEF FunDef
  <2> QED
    BY <1>1, <1>2, <1>4, <2>2 DEF Place, SpecTypes
<1>5. CASE crate.spec_type[e] = "post"
  <2>1. new = [fd EXCEPT !.post = Append(fd.post, e)]
    BY <1>2, <1>5 DEF AttachSpec
  <2>2. new.measure = fd.measure /\ new.pre = fd.pre /\ new.post = Append(fd.post, e)
    BY <2>1 DEF FunDef
  <2> QED
    BY <1>1, <1>2, <1>5, <2>2 DEF Place, SpecTypes
<1> QED
  BY <1>3, <1>4, <1>5 DEF SpecTypes

----------------------------------------------------------------------------
(* One operation of the traversal.                                          *)

(* What is said of the function under construction, a step later.           *)
LEMMA AttachingNext ==
  ASSUME crate' = crate, NEW f, NEW new, f = fd', new = todo',
         \A s \in ContractOf(f) : Ahead(f, new, s)
  PROVE  Attaching'
<1>1. \A s : s \in ContractOf(f) <=> s \in ContractOf(fd)'
  BY DEF ContractOf, Subjects
<1>2. \A s : Place(f, s) = Place(fd, s)'
  BY DEF Place
<1>3. \A s : Ahead(f, new, s) => Ahead(fd, todo, s)'
  BY <1>2 DEF Ahead, Waiting, Once, OnceOn, NowhereOn
<1> QED
  BY <1>1, <1>3 DEF Attaching

(* Whose contract it is does not change, nor that it will be added.         *)
LEMMA AttachingBefore ==
  ASSUME AttachInv, ~errors, NEW f, fd.def = f.def, crate' = crate,
         \A d : Pending("emit", d)' => Pending("emit", d), Pending("emit", f.def)'
  PROVE  ContractOf(f) = ContractOf(fd) /\ \A s \in ContractOf(f) : Ahead(fd, todo, s)
  BY DEF AttachInv, Attaching, ContractOf

(* What was added is not touched again.                                     *)
LEMMA AttachedKept ==
  ASSUME Attached, ~errors' => ~errors, crate' = crate, NEW fs, fs = functions',
         NEW d, \A id \in DOMAIN fs : id = d \/ (id \in DOMAIN functions /\ fs[id] = functions[id]),
         ~errors' /\ d \in DOMAIN fs /\ ~fs[d].extern =>
           \/ d \in DOMAIN functions /\ fs[d] = functions[d]
           \/ \A s \in ContractOf(fs[d]) : Once(Place(fs[d], s), s)
  PROVE  Attached'
<1>1. ASSUME ~errors', NEW id \in DOMAIN fs, ~fs[id].extern, NEW s \in ContractOf(fs[id])
      PROVE  Once(Place(fs[id], s), s)
  <2>1. CASE id \in DOMAIN functions /\ fs[id] = functions[id]
    BY <1>1, <2>1 DEF Attached
  <2>2. CASE ~(id \in DOMAIN functions /\ fs[id] = functions[id])
    BY <1>1, <2>2
  <2> QED
    BY <2>1, <2>2
<1>2. ASSUME NEW id
      PROVE  /\ \A s : s \in ContractOf(fs[id]) <=> s \in ContractOf(functions[id])'
             /\ \A s : Place(fs[id], s) = Place(functions[id], s)'
  BY DEF ContractOf, Subjects, Place
<1>3. ASSUME NEW id, NEW s
      PROVE  Once(Place(fs[id], s), s) <=> Once(Place(functions[id], s), s)'
  BY <1>2 DEF Once
<1> QED
  BY <1>1, <1>2, <1>3 DEF Attached

(* A step that touches neither the function under construction nor those    *)
(* that were added.                                                         *)
LEMMA QuietAttached ==
  ASSUME AttachInv, CompleteInv', ItemsApart', Filed', ~errors' => ~errors,
         UNCHANGED <<crate, todo, fd, functions>>
  PROVE  AttachInv'
<1>1. Attached'
  BY AttachedKept DEF AttachInv
<1>2. PICK f, new : f = fd' /\ new = todo' /\ f = fd /\ new = todo
  OBVIOUS
<1>3. Pending("emit", fd.def)' <=> Pending("emit", fd.def)
  BY DEF Pending
<1>4. Attaching'
  <2>1. CASE ~errors /\ Pending("emit", fd.def)
    <3>1. \A s \in ContractOf(f) : Ahead(f, new, s)
      BY <1>2, <2>1 DEF AttachInv, Attaching
    <3> QED
      BY <1>2, <3>1, AttachingNext
  <2>2. CASE ~(~errors /\ Pending("emit", fd.def))
    BY <1>3, <2>2 DEF Attaching
  <2> QED
    BY <2>1, <2>2
<1> QED
  BY <1>1, <1>4 DEF AttachInv

(* Most leave the contract alone.                                           *)
LEMMA PlainAttached ==
  ASSUME AttachInv, CompleteInv', todo # <<>>, NEW ops, Follows(ops), Continue(ops),
         Head(todo).op # "spec", ~errors' => ~errors,
         UNCHANGED <<crate, items, specs, functions>>,
         fd'.def = fd.def, fd'.measure = fd.measure, fd'.pre = fd.pre, fd'.post = fd.post
  PROVE  AttachInv'
<1>1. CompleteInv /\ ExtractionInv
  BY DEF AttachInv, CompleteInv
<1>2. ItemsApart' /\ Filed'
  BY DEF AttachInv, ItemsApart, Filed, Subjects, FiledFor, ToVisit, Waiting, Once
<1>3. Attached'
  BY AttachedKept DEF AttachInv
<1>4. PICK f, new : f = fd' /\ new = todo'
  OBVIOUS
<1>5. /\ \A s : Place(f, s) = Place(fd, s)
      /\ f.def = fd.def
  BY <1>4 DEF Place
<1>6. \A d : Pending("emit", d)' => Pending("emit", d)
  BY <1>1, Moves DEF Rooted
<1>7. ASSUME ~errors', Pending("emit", f.def)', NEW s \in ContractOf(f)
      PROVE  Ahead(f, new, s)
  <2>1. Ahead(fd, todo, s)
    BY <1>5, <1>6, <1>7, AttachingBefore
  <2>2. ~IsSpecOp(Head(todo), s)
    BY DEF IsSpecOp
  <2>3. /\ OnceOn(todo, s) => OnceOn(new, s)
        /\ NowhereOn(todo, s) => NowhereOn(new, s)
    BY <1>1, <1>4, <2>2, SpecMoves
  <2> QED
    BY <1>5, <2>1, <2>3 DEF Ahead
<1>8. Attaching'
  <2>1. CASE ~errors' /\ Pending("emit", f.def)'
    BY <1>4, <1>7, <2>1, AttachingNext
  <2>2. CASE ~(~errors' /\ Pending("emit", f.def)')
    <3>1. Pending("emit", fd.def)' <=> Pending("emit", f.def)'
      BY <1>4 DEF Pending
    <3> QED
      BY <2>2, <3>1 DEF Attaching
  <2> QED
    BY <2>1, <2>2
<1> QED
  BY <1>2, <1>3, <1>8 DEF AttachInv

(* extract_spec_fn: the spec function on top goes to its place.             *)
LEMMA ExtractSpecAttached ==
  ASSUME AttachInv, CompleteInv', ExtractSpec
  PROVE  AttachInv'
<1>1. CompleteInv /\ ExtractionInv /\ crate \in Crates
  BY DEF AttachInv, CompleteInv, ExtractionInv, TypeOK
<1>2. PICK e : e = Head(todo).arg
  OBVIOUS
<1>3. /\ Execute("spec") /\ fd' = AttachSpec(e) /\ errors' = errors
      /\ UNCHANGED <<crate, items, specs, functions>>
  BY <1>2 DEF ExtractSpec, Execute, discovery_vars, output_vars
<1>4. /\ todo # <<>> /\ 1 \in DOMAIN todo /\ Head(todo) = todo[1] /\ Head(todo).op = "spec"
      /\ e \in DefIds /\ fd \in FunDef
  BY <1>1, <1>2, <1>3, TopOfStack, TopArg DEF Execute, DefOps, FnOps
<1>5. crate.spec_type[e] \in SpecTypes
  BY <1>1, <1>2, <1>4 DEF ExtractionInv, StackOK, SpecsByType
<1>6. PICK ops : Follows(ops) /\ Continue(ops)
  <2>1. Traversal /\ ~Panic
    BY <1>3 DEF Traversal, Panic, Execute
  <2> QED
    BY <1>1, <2>1, TraversalFollows
<1>7. PICK new : new = AttachSpec(e) /\ new.def = fd.def
  BY <1>4, <1>5, AttachSpecType
<1>8. ItemsApart' /\ Filed'
  BY <1>3 DEF AttachInv, ItemsApart, Filed, Subjects, FiledFor, ToVisit, Waiting, Once
<1>9. Attached'
  BY <1>3, AttachedKept DEF AttachInv
<1>10. \A d : Pending("emit", d)' => Pending("emit", d)
  BY <1>1, <1>4, <1>6, Moves DEF Rooted
<1>11. PICK now : now = todo'
  OBVIOUS
<1>12. ASSUME ~errors, Pending("emit", new.def)', NEW s \in ContractOf(new)
       PROVE  Ahead(new, now, s)
  <2>1. Ahead(fd, todo, s)
    BY <1>3, <1>7, <1>10, <1>12, AttachingBefore
  <2>2. crate.spec_type[s] \in SpecTypes
    BY <1>1, SubjectTypes DEF ContractOf
  <2>3. PICK old, longer : old = Place(fd, s) /\ longer = Place(new, s)
    OBVIOUS
  <2>4. old \in Seq(DefIds)
    BY <1>4, <1>5, <2>2, <2>3, AttachSpecPlace
  <2>5. CASE s = e
    <3>1. IsSpecOp(Head(todo), s)
      BY <1>2, <1>4, <2>5 DEF IsSpecOp
    <3>2. ~NowhereOn(todo, s)
      BY <1>4, <3>1 DEF NowhereOn
    <3>3. OnceOn(todo, s) /\ ~Waiting(old, s)
      BY <2>1, <2>3, <3>2 DEF Ahead
    <3>4. NowhereOn(now, s)
      BY <1>1, <1>4, <1>6, <1>11, <3>1, <3>3, SpecMoves
    <3>5. longer = Append(old, s)
      BY <1>4, <1>5, <1>7, <2>3, <2>5, AttachSpecPlace
    <3>6. Once(longer, s)
      BY <1>4, <2>4, <2>5, <3>3, <3>5, OnceAppend
    <3> QED
      BY <2>3, <3>4, <3>6 DEF Ahead
  <2>6. CASE s # e
    <3>1. ~IsSpecOp(Head(todo), s)
      BY <1>2, <2>6 DEF IsSpecOp
    <3>2. longer = old \/ longer = Append(old, e)
      BY <1>4, <1>5, <1>7, <2>2, <2>3, AttachSpecPlace
    <3>3. /\ ~Waiting(old, s) => ~Waiting(longer, s)
          /\ Once(old, s) => Once(longer, s)
      <4>1. CASE longer = old
        BY <4>1
      <4>2. CASE longer = Append(old, e)
        BY <1>4, <2>4, <2>6, <4>2, OnceAppend
      <4> QED
        BY <3>2, <4>1, <4>2
    <3>4. /\ OnceOn(todo, s) => OnceOn(now, s)
          /\ NowhereOn(todo, s) => NowhereOn(now, s)
      BY <1>1, <1>4, <1>6, <1>11, <3>1, SpecMoves
    <3> QED
      BY <2>1, <2>3, <3>3, <3>4 DEF Ahead
  <2> QED
    BY <2>5, <2>6
<1>13. Attaching'
  <2>1. CASE ~errors /\ Pending("emit", new.def)'
    BY <1>3, <1>7, <1>11, <1>12, <2>1, AttachingNext
  <2>2. CASE ~(~errors /\ Pending("emit", new.def)')
    <3>1. Pending("emit", fd.def)' <=> Pending("emit", new.def)'
      BY <1>3, <1>7 DEF Pending
    <3> QED
      BY <1>3, <2>2, <3>1 DEF Attaching
  <2> QED
    BY <2>1, <2>2
<1> QED
  BY <1>8, <1>9, <1>13 DEF AttachInv

(* add_function: the contract of the function added is complete.            *)
LEMMA AddFunctionAttached ==
  ASSUME AttachInv, CompleteInv', NEW kind \in {"emit", "stub"}, AddFunction(kind)
  PROVE  AttachInv'
<1>1. PICK g, id, fs : g = Head(todo).arg /\ id = did_to_stid'[g] /\ fs = functions'
  OBVIOUS
<1>2. /\ todo # <<>> /\ Head(todo).op = kind /\ Continue(<<>>)
      /\ fs = Insert(functions, id, fd) /\ errors' = errors
      /\ UNCHANGED <<crate, items, specs>>
  BY <1>1 DEF AddFunction, Execute, discovery_vars
<1>3. /\ 1 \in DOMAIN todo /\ Head(todo) = todo[1] /\ ExtractionInv /\ todo \in Seq(Op)
  BY <1>2, TopOfStack DEF AttachInv, CompleteInv, ExtractionInv, TypeOK
<1>4. Len(todo) = 1
  BY <1>2, <1>3 DEF ExtractionInv, StackOK, AddedLast
<1>5. todo' = <<>>
  <2>1. Tail(todo) \in Seq(Op) /\ Len(Tail(todo)) = 0
    BY <1>2, <1>3, <1>4, HeadTailProperties
  <2>2. Tail(todo) = <<>>
    BY <2>1, EmptySeq
  <2> QED
    BY <1>2, <2>2 DEF Continue
<1>6. DOMAIN todo = {1}
  BY <1>3, <1>4, LenProperties
<1>7. ItemsApart' /\ Filed'
  BY <1>2 DEF AttachInv, ItemsApart, Filed, Subjects, FiledFor, ToVisit, Waiting, Once
<1>8. Attaching'
  BY <1>5 DEF Attaching, Pending
<1>9. ASSUME ~errors, ~fd.extern, NEW s \in ContractOf(fd)
      PROVE  Once(Place(fd, s), s)
  <2>1. Pending(kind, g)
    BY <1>1, <1>2, <1>3 DEF Pending
  <2>2. kind = "emit" /\ g = fd.def
    BY <1>9, <2>1 DEF AttachInv, CompleteInv, FunctionsListed
  <2>3. Ahead(fd, todo, s)
    BY <1>9, <2>1, <2>2 DEF AttachInv, Attaching
  <2>4. ~OnceOn(todo, s)
    BY <1>2, <1>3, <1>6, <2>2 DEF OnceOn, IsSpecOp
  <2> QED
    BY <2>3, <2>4 DEF Ahead
<1>10. Attached'
  <2>1. \A k \in DOMAIN fs : k = id \/ (k \in DOMAIN functions /\ fs[k] = functions[k])
    BY <1>2 DEF Insert
  <2>2. fs[id] = fd
    BY <1>2 DEF Insert
  <2> QED
    BY <1>1, <1>2, <1>9, <2>1, <2>2, AttachedKept DEF AttachInv
<1> QED
  BY <1>7, <1>8, <1>10 DEF AttachInv

(* The traversal as a whole.                                                *)
LEMMA TraversalAttached ==
  ASSUME AttachInv, CompleteInv', Traversal
  PROVE  AttachInv'
<1>1. CASE Panic
  <2>1. UNCHANGED <<crate, items, specs, todo, fd, functions, errors>>
    BY <1>1 DEF Panic, discovery_vars, output_vars
  <2>2. ItemsApart' /\ Filed'
    BY <2>1 DEF AttachInv, ItemsApart, Filed, Subjects, FiledFor, ToVisit, Waiting, Once
  <2> QED
    BY <2>1, <2>2, QuietAttached
<1>2. CASE ExtractSpec \/ AddFunction("emit") \/ AddFunction("stub")
  BY <1>2, ExtractSpecAttached, AddFunctionAttached
<1>3. CASE ~Panic /\ ~ExtractSpec /\ ~AddFunction("emit") /\ ~AddFunction("stub")
  <2>1. CompleteInv /\ ExtractionInv
    BY DEF AttachInv, CompleteInv
  <2>2. PICK ops : todo # <<>> /\ Follows(ops) /\ Continue(ops)
    BY <1>3, <2>1, TraversalFollows
  <2>3. UNCHANGED <<crate, items, specs, functions>> /\ Head(todo).op # "spec"
    BY <1>3 DEF Traversal, TypeParameter, MentionType, ExtractAdt, Constructor, Field,
      SortBuilt, AddAdt, Call, EnterBody, KnownBinding, NewBinding, Parameter, VarRef,
      Unsupported, ReturnVar, StubInput, Execute, discovery_vars, output_vars
  <2>4. ~errors' => ~errors
    <3>1. CASE NewBinding
      <4>1. errors \in BOOLEAN
        BY <2>1 DEF ExtractionInv, TypeOK
      <4> QED
        BY <3>1, <4>1 DEF NewBinding
    <3>2. CASE Unsupported
      BY <3>2 DEF Unsupported
    <3>3. CASE ~NewBinding /\ ~Unsupported
      <4>1. errors' = errors
        BY <1>3, <3>3 DEF Traversal, TypeParameter, MentionType, ExtractAdt, Constructor,
          Field, SortBuilt, AddAdt, Call, EnterBody, KnownBinding, Parameter, VarRef,
          ReturnVar, StubInput
      <4> QED
        BY <4>1
    <3> QED
      BY <3>1, <3>2, <3>3
  <2>5. /\ fd'.def = fd.def /\ fd'.measure = fd.measure
        /\ fd'.pre = fd.pre /\ fd'.post = fd.post
    <3>1. CASE fd' = fd
      BY <3>1
    <3>2. CASE Parameter \/ VarRef \/ ReturnVar \/ StubInput
      <4>1. fd \in FunDef
        BY <2>1, <3>2, TopArg DEF Parameter, VarRef, ReturnVar, StubInput, FnOps
      <4> QED
        BY <3>2, <4>1 DEF Parameter, VarRef, ReturnVar, StubInput, FunDef
    <3> QED
      BY <1>3, <3>1, <3>2 DEF Traversal, TypeParameter, MentionType, ExtractAdt,
        Constructor, Field, SortBuilt, AddAdt, Call, EnterBody, KnownBinding, NewBinding,
        Unsupported
  <2> QED
    BY <2>2, <2>3, <2>4, <2>5, PlainAttached
<1> QED
  BY <1>1, <1>2, <1>3

----------------------------------------------------------------------------
(* Discovery.                                                               *)

(* visit_item, impl blocks included: the function visited is struck off.    *)
LEMMA VisitFnItems ==
  ASSUME AttachInv, VisitFn
  PROVE  /\ ItemsApart'
         /\ DOMAIN items' = DOMAIN items
         /\ \A i \in DOMAIN items :
              items'[i] = items[i] \/ (items[i].kind = "fns" /\ items'[i].kind = "fns")
         /\ \E g \in Listed(crate, "fns") :
              /\ fn_items' = IF IsSpecFn(g) THEN fn_items ELSE Append(fn_items, g)
              /\ specs' = FileSpec(g)
              /\ ToVisit("fns", g) /\ ~ToVisit("fns", g)'
              /\ \A d : d # g => (ToVisit("fns", d)' <=> ToVisit("fns", d))
<1>1. PICK g \in Head(items).defs :
        /\ fn_items' = IF IsSpecFn(g) THEN fn_items ELSE Append(fn_items, g)
        /\ specs' = FileSpec(g)
        /\ items' = <<[Head(items) EXCEPT !.defs = Head(items).defs \ {g}]>> \o Tail(items)
  BY DEF VisitFn
<1>2. PICK item, rest, one, new :
        /\ item = [Head(items) EXCEPT !.defs = Head(items).defs \ {g}]
        /\ rest = Tail(items) /\ one = <<item>> /\ new = items'
  OBVIOUS
<1>3. items # <<>> /\ Head(items).kind = "fns" /\ items \in Seq(Item)
  BY DEF VisitFn, Discover, AttachInv, CompleteInv, ExtractionInv, TypeOK
<1>4. /\ Head(items) \in Item /\ rest \in Seq(Item) /\ Len(rest) = Len(items) - 1
      /\ \A i \in 1 .. Len(items) - 1 : rest[i] = items[i + 1]
      /\ Len(items) \in Nat \ {0} /\ DOMAIN items = 1 .. Len(items)
      /\ Head(items) = items[1]
  BY <1>2, <1>3, HeadTailProperties, LenProperties, WaitingTail
<1>5. item \in Item /\ item.kind = "fns" /\ item.defs = Head(items).defs \ {g}
  BY <1>2, <1>3, <1>4 DEF Item
<1>6. one \in Seq(Item) /\ Len(one) = 1 /\ one[1] = item /\ new = one \o rest
  BY <1>1, <1>2, <1>5
<1>7. /\ new \in Seq(Item) /\ Len(new) = 1 + Len(rest)
      /\ \A i \in 1 .. Len(one) + Len(rest) :
           new[i] = IF i <= Len(one) THEN one[i] ELSE rest[i - Len(one)]
  <2>1. one \in Seq(Item) /\ rest \in Seq(Item)
    BY <1>4, <1>6
  <2>2. /\ one \o rest \in Seq(Item)
        /\ Len(one \o rest) = Len(one) + Len(rest)
        /\ \A i \in 1 .. Len(one) + Len(rest) :
             (one \o rest)[i] = IF i <= Len(one) THEN one[i] ELSE rest[i - Len(one)]
    BY ZenonT(30), <2>1, ConcatProperties
  <2>3. new = one \o rest /\ Len(one) = 1
    BY <1>6
  <2> QED
    BY <2>2, <2>3
<1>8. /\ DOMAIN new = DOMAIN items /\ 1 \in DOMAIN items /\ new[1] = item
      /\ \A i \in DOMAIN items : i # 1 => new[i] = items[i]
  <2>1. DOMAIN new = 1 .. Len(items) /\ 1 \in DOMAIN items
    BY <1>4, <1>7, LenProperties
  <2>2. new[1] = item
    BY <1>4, <1>6, <1>7
  <2>3. ASSUME NEW i \in 1 .. Len(items), i # 1 PROVE new[i] = items[i]
    <3>1. i - 1 \in 1 .. Len(items) - 1 /\ (i - 1) + 1 = i /\ ~(i <= 1)
      BY <1>4, <2>3
    <3>2. new[i] = rest[i - 1]
      BY <1>4, <1>6, <1>7, <3>1
    <3> QED
      BY <1>4, <3>1, <3>2
  <2> QED
    BY <1>4, <2>1, <2>2, <2>3
<1>9. /\ items[1].kind = "fns" /\ g \in items[1].defs
      /\ \A i \in DOMAIN items : g \in items[i].defs => i = 1
  BY <1>1, <1>3, <1>4, <1>8 DEF AttachInv, ItemsApart
<1>10. /\ \A i \in DOMAIN new : new[i].kind = items[i].kind \/ (i = 1 /\ new[i].kind = "fns")
       /\ \A i \in DOMAIN new : new[i].defs \subseteq items[i].defs
       /\ \A i \in DOMAIN new : g \notin new[i].defs
       /\ \A i \in DOMAIN new : \A d : d # g => (d \in new[i].defs <=> d \in items[i].defs)
  BY <1>4, <1>5, <1>8, <1>9
<1>11. \A i, j \in DOMAIN new : new[i].defs \cap new[j].defs # {} => i = j
  BY <1>8, <1>10 DEF AttachInv, ItemsApart
<1>12. ItemsApart'
  BY <1>2, <1>11 DEF ItemsApart
<1>13. /\ ToVisit("fns", g) /\ ~ToVisit("fns", g)'
       /\ \A d : d # g => (ToVisit("fns", d)' <=> ToVisit("fns", d))
  <2>1. ToVisit("fns", g)
    BY <1>8, <1>9 DEF ToVisit
  <2>2. ~ToVisit("fns", g)'
    BY <1>2, <1>10 DEF ToVisit
  <2>3. ASSUME NEW d, d # g PROVE ToVisit("fns", d)' <=> ToVisit("fns", d)
    <3>1. \A i \in DOMAIN items :
            new[i].kind = "fns" /\ d \in new[i].defs <=>
              items[i].kind = "fns" /\ d \in items[i].defs
      BY <1>8, <1>9, <1>10, <2>3
    <3> QED
      BY <1>2, <1>8, <3>1 DEF ToVisit
  <2> QED
    BY <2>1, <2>2, <2>3
<1>14. g \in Listed(crate, "fns")
  BY <1>8, <1>9 DEF AttachInv, CompleteInv, ItemsKept
<1>15. /\ DOMAIN items' = DOMAIN items
       /\ \A i \in DOMAIN items :
            items'[i] = items[i] \/ (items[i].kind = "fns" /\ items'[i].kind = "fns")
  BY <1>2, <1>5, <1>8, <1>9
<1> QED
  BY <1>1, <1>12, <1>13, <1>14, <1>15

(* Filing a spec function: at the end of its own list.                      *)
LEMMA FiledLater ==
  ASSUME ExtractionInv, NEW g \in Listed(crate, "fns"), NEW s \in Subjects,
         NEW list, list = FileSpec(g)[crate.spec_of[s]][crate.spec_type[s]]
  PROVE  /\ FiledFor(s) \in Seq(DefIds)
         /\ s = g => list = Append(FiledFor(s), g)
         /\ list = FiledFor(s) \/ list = Append(FiledFor(s), g)
<1>1. specs \in [DefIds -> [SpecTypes -> Seq(DefIds)]] /\ crate \in Crates
  BY DEF ExtractionInv, TypeOK
<1>2. /\ crate.spec_of[s] \in DefIds /\ crate.spec_type[s] \in SpecTypes
      /\ IsSpecFn(s) /\ g \in DefIds
  BY <1>1, SubjectTypes, CrateLists
<1>3. FiledFor(s) \in Seq(DefIds)
  BY <1>1, <1>2 DEF FiledFor
<1>4. NoDef \notin DefIds
  BY ExtractionAssumption
<1>5. CASE ~(IsSpecFn(g) /\ crate.spec_of[g] # NoDef)
  BY <1>2, <1>3, <1>4, <1>5 DEF FileSpec, FiledFor
<1>6. CASE IsSpecFn(g) /\ crate.spec_of[g] # NoDef
  <2>1. PICK f, t, ss : /\ f = crate.spec_of[g] /\ t = crate.spec_type[g]
                        /\ ss = Append(specs[f][t], g)
    OBVIOUS
  <2>2. f \in DefIds /\ t \in SpecTypes
    BY <1>1, <1>2, <1>6, <2>1, CrateTypes DEF IsSpecFn
  <2>3. FileSpec(g) = [specs EXCEPT ![f][t] = ss]
    BY <1>6, <2>1 DEF FileSpec
  <2>4. /\ FileSpec(g)[f][t] = ss
        /\ \A e \in DefIds, u \in SpecTypes :
             e # f \/ u # t => FileSpec(g)[e][u] = specs[e][u]
    BY <1>1, <2>2, <2>3
  <2>5. CASE crate.spec_of[s] = f /\ crate.spec_type[s] = t
    BY <1>3, <2>1, <2>4, <2>5 DEF FiledFor
  <2>6. CASE crate.spec_of[s] # f \/ crate.spec_type[s] # t
    <3>1. list = FiledFor(s)
      BY <1>2, <2>4, <2>6 DEF FiledFor
    <3> QED
      BY <1>3, <2>1, <2>6, <3>1
  <2> QED
    BY <2>5, <2>6
<1> QED
  BY <1>5, <1>6

(* What is no function leaves the lists alone.                              *)
LEMMA FiledKept ==
  ASSUME Filed, UNCHANGED <<crate, specs>>, \A d : ToVisit("fns", d)' <=> ToVisit("fns", d)
  PROVE  Filed'
<1>1. ASSUME NEW s
      PROVE  /\ Waiting(FiledFor(s), s)' <=> Waiting(FiledFor(s), s)
             /\ Once(FiledFor(s), s)' <=> Once(FiledFor(s), s)
  BY DEF FiledFor, Waiting, Once
<1>2. Subjects' = Subjects
  BY DEF Subjects
<1>3. \A s \in Subjects :
        IF ToVisit("fns", s)' THEN ~Waiting(FiledFor(s), s)' ELSE Once(FiledFor(s), s)'
  BY <1>1 DEF Filed
<1> QED
  BY <1>2, <1>3 DEF Filed

(* The visitor as a whole.                                                  *)
LEMMA DiscoveryAttached ==
  ASSUME AttachInv, CompleteInv', Discovery
  PROVE  AttachInv'
<1>1. /\ UNCHANGED <<crate, todo, fd, functions>>
      /\ items \in Seq(Item) /\ crate \in Crates /\ ExtractionInv
  BY DEF Discovery, VisitAdt, VisitFn, VisitedFns, VisitOther, DiscoveryDone, Discover,
    output_vars, AttachInv, CompleteInv, ExtractionInv, TypeOK
<1>2. ~errors' => ~errors
  BY DEF Discovery, VisitAdt, VisitFn, VisitedFns, VisitOther, DiscoveryDone
<1>3. CASE DiscoveryDone
  <2>1. UNCHANGED <<items, specs>>
    BY <1>3 DEF DiscoveryDone, discovery_vars
  <2>2. ItemsApart' /\ Filed'
    BY <1>1, <2>1 DEF AttachInv, ItemsApart, Filed, Subjects, FiledFor, ToVisit, Waiting, Once
  <2> QED
    BY <1>1, <1>2, <2>2, QuietAttached
<1>4. CASE VisitAdt \/ VisitedFns \/ VisitOther
  <2>1. PICK new : new = items' /\ new = Tail(items) /\ items # <<>> /\ specs' = specs
    BY <1>4 DEF VisitAdt, VisitedFns, VisitOther, Discover
  <2>2. /\ \A i \in DOMAIN new : i + 1 \in DOMAIN items /\ new[i] = items[i + 1]
        /\ \A i \in DOMAIN items :
             items[i] = Head(items) \/ (i - 1 \in DOMAIN new /\ new[i - 1] = items[i])
        /\ DOMAIN new \subseteq Nat
    BY <1>1, <2>1, WaitingTail, HeadTailProperties, LenProperties
  <2>3. \A i, j \in DOMAIN new : new[i].defs \cap new[j].defs # {} => i = j
    <3>1. ASSUME NEW i \in DOMAIN new, NEW j \in DOMAIN new, new[i].defs \cap new[j].defs # {}
          PROVE  i = j
      <4>1. i + 1 = j + 1
        BY <2>2, <3>1 DEF AttachInv, ItemsApart
      <4> QED
        BY <2>2, <4>1
    <3> QED
      BY <3>1
  <2>4. ItemsApart'
    BY <2>1, <2>3 DEF ItemsApart
  <2>5. Head(items).kind # "fns" \/ Head(items).defs = {}
    BY <1>4 DEF VisitAdt, VisitedFns, VisitOther, Discover
  <2>6. \A d : ToVisit("fns", d)' <=> ToVisit("fns", d)
    BY <2>1, <2>2, <2>5 DEF ToVisit
  <2>7. Filed'
    BY <1>1, <2>1, <2>6, FiledKept DEF AttachInv
  <2> QED
    BY <1>1, <1>2, <2>4, <2>7, QuietAttached
<1>5. CASE VisitFn
  <2>1. /\ ItemsApart'
        /\ \E g \in Listed(crate, "fns") :
              /\ specs' = FileSpec(g)
              /\ ToVisit("fns", g) /\ ~ToVisit("fns", g)'
              /\ \A d : d # g => (ToVisit("fns", d)' <=> ToVisit("fns", d))
    BY <1>5, VisitFnItems
  <2>2. PICK g \in Listed(crate, "fns") :
              /\ specs' = FileSpec(g)
              /\ ToVisit("fns", g) /\ ~ToVisit("fns", g)'
              /\ \A d : d # g => (ToVisit("fns", d)' <=> ToVisit("fns", d))
    BY <2>1
  <2>3. g \in DefIds
    BY <1>1, CrateLists
  <2>4. ASSUME NEW s \in Subjects, NEW list,
               list = FileSpec(g)[crate.spec_of[s]][crate.spec_type[s]]
        PROVE  /\ ToVisit("fns", s)' => ~Waiting(list, s)
               /\ ~ToVisit("fns", s)' => Once(list, s)
    <3>1. PICK old : old = FiledFor(s)
      OBVIOUS
    <3>2. /\ old \in Seq(DefIds) /\ s = g => list = Append(old, g)
          /\ list = old \/ list = Append(old, g)
      BY <1>1, <2>4, <3>1, FiledLater
    <3>3. old \in Seq(DefIds)
      BY <1>1, <2>4, <3>1, FiledLater
    <3>4. /\ ToVisit("fns", s) => ~Waiting(old, s)
          /\ ~ToVisit("fns", s) => Once(old, s)
      BY <3>1 DEF AttachInv, Filed
    <3>5. CASE s = g
      <4>1. list = Append(old, g)
        BY <1>1, <2>4, <3>1, <3>5, FiledLater
      <4> QED
        BY <2>2, <2>3, <3>3, <3>4, <3>5, <4>1, OnceAppend
    <3>6. CASE s # g
      <4>1. CASE list = old
        BY <2>2, <3>4, <3>6, <4>1
      <4>2. CASE list = Append(old, g)
        BY <2>2, <2>3, <3>3, <3>4, <3>6, <4>2, OnceAppend
      <4> QED
        BY <3>2, <4>1, <4>2
    <3> QED
      BY <3>5, <3>6
  <2>5. Filed'
    <3>1. ASSUME NEW s \in Subjects, NEW list,
                 list = FileSpec(g)[crate.spec_of[s]][crate.spec_type[s]]
          PROVE  /\ FiledFor(s)' = list
                 /\ Waiting(FiledFor(s), s)' <=> Waiting(list, s)
                 /\ Once(FiledFor(s), s)' <=> Once(list, s)
      BY <1>1, <2>2, <3>1 DEF FiledFor, Waiting, Once
    <3>2. Subjects' = Subjects
      BY <1>1 DEF Subjects
    <3>3. ASSUME NEW s \in Subjects
          PROVE  /\ ToVisit("fns", s)' => ~Waiting(FiledFor(s), s)'
                 /\ ~ToVisit("fns", s)' => Once(FiledFor(s), s)'
      <4>1. PICK list : list = FileSpec(g)[crate.spec_of[s]][crate.spec_type[s]]
        OBVIOUS
      <4> QED
        BY <2>4, <3>1, <4>1
    <3>4. \A s \in Subjects' :
            IF ToVisit("fns", s)' THEN ~Waiting(FiledFor(s), s)' ELSE Once(FiledFor(s), s)'
      BY <3>2, <3>3
    <3> QED
      BY <3>4 DEF Filed
  <2> QED
    BY <1>1, <1>2, <2>1, <2>5, QuietAttached
<1> QED
  BY <1>3, <1>4, <1>5 DEF Discovery

----------------------------------------------------------------------------
(* The loops.                                                               *)

(* extract_local_fn goes through the lists: what is filed under the         *)
(* function is extracted with it, of the measures the first.                *)
LEMMA FunctionHas ==
  ASSUME CompleteInv, NEW g \in DefIds, NEW s, NEW t \in SpecTypes,
         crate.spec_type[s] = t, Once(specs[g][t], s), Len(specs[g]["measure"]) <= 1
  PROVE  OnceOn(FunctionOps(g), s)
<1>1. PICK regs, bounds, enter, ret, last, measures, pres, posts :
        /\ regs = Ops("reg", crate.tparams[g]) /\ bounds = Ops("type", crate.bounds[g])
        /\ enter = One("enter", g) /\ ret = One("ret", NoDef) /\ last = One("emit", g)
        /\ measures = specs[g]["measure"] /\ pres = specs[g]["pre"]
        /\ posts = specs[g]["post"]
  OBVIOUS
<1>2. PICK m, p, q : /\ m = Ops("spec", measures) /\ p = Ops("spec", pres)
                     /\ q = Ops("spec", posts)
  OBVIOUS
<1>3. /\ measures \in Seq(DefIds) /\ pres \in Seq(DefIds) /\ posts \in Seq(DefIds)
      /\ crate \in Crates
      /\ \A u \in SpecTypes : \A i \in DOMAIN specs[g][u] :
           crate.spec_type[specs[g][u][i]] = u
  BY <1>1 DEF CompleteInv, ExtractionInv, TypeOK, StackOK, SpecsByType, SpecTypes
<1>4. FirstOf(measures) = measures
  <2>1. CASE measures = <<>>
    BY <2>1 DEF FirstOf
  <2>2. CASE measures # <<>>
    <3>1. measures \in Seq(DefIds) /\ Len(measures) <= 1
      BY <1>1, <1>3
    <3>2. Len(measures) = 1 /\ DOMAIN measures = {1}
      <4>1. Len(measures) \in Nat \ {0} /\ DOMAIN measures = 1 .. Len(measures)
        BY <2>2, <3>1, HeadTailProperties, LenProperties
      <4>2. Len(measures) = 1
        BY <3>1, <4>1
      <4> QED
        BY <4>1, <4>2
    <3>3. measures[1] \in DefIds /\ Head(measures) = measures[1]
      BY <2>2, <3>1, <3>2, WaitingTail, HeadTailProperties
    <3>4. measures = <<measures[1]>>
      BY <3>1, <3>2, <3>3
    <3> QED
      BY <2>2, <3>3, <3>4 DEF FirstOf
  <2> QED
    BY <2>1, <2>2
<1>5. /\ t = "measure" => Once(measures, s)
      /\ t # "measure" => ~Waiting(measures, s)
  BY <1>1, <1>3 DEF Waiting, SpecTypes
<1>6. /\ t = "pre" => Once(pres, s)
      /\ t # "pre" => ~Waiting(pres, s)
  BY <1>1, <1>3 DEF Waiting, SpecTypes
<1>7. /\ t = "post" => Once(posts, s)
      /\ t # "post" => ~Waiting(posts, s)
  BY <1>1, <1>3 DEF Waiting, SpecTypes
<1>8. /\ t = "measure" => OnceOn(m, s)
      /\ t # "measure" => NowhereOn(m, s)
  BY <1>2, <1>3, <1>5, SpecParts
<1>9. /\ t = "pre" => OnceOn(p, s)
      /\ t # "pre" => NowhereOn(p, s)
  BY <1>2, <1>3, <1>6, SpecParts
<1>10. /\ t = "post" => OnceOn(q, s)
       /\ t # "post" => NowhereOn(q, s)
  BY <1>2, <1>3, <1>7, SpecParts
<1>11. m \in Seq(Op) /\ p \in Seq(Op) /\ q \in Seq(Op)
  BY <1>2, <1>3, SpecParts
<1>12. /\ regs \in Seq(Op) /\ NowhereOn(regs, s)
       /\ bounds \in Seq(Op) /\ NowhereOn(bounds, s)
  <2>1. Begins(regs, g, {"spec"}) /\ Begins(bounds, g, {"spec"})
    BY <1>1, <1>3, CrateTypes, BeginsTypes
  <2> QED
    BY <2>1, NoSpecParts
<1>13. /\ enter \in Seq(Op) /\ NowhereOn(enter, s)
       /\ last \in Seq(Op) /\ NowhereOn(last, s)
  <2>1. Begins(enter, g, {"spec"}) /\ Begins(last, g, {"spec"})
    BY <1>1, BeginsOne
  <2> QED
    BY <2>1, NoSpecParts
<1>14. ret \in Seq(Op) /\ NowhereOn(ret, s)
  BY <1>1, OneRet DEF NowhereOn, IsSpecOp
<1>15. PICK front : front = (regs \o bounds) \o enter
  OBVIOUS
<1>16. front \in Seq(Op) /\ NowhereOn(front, s)
  <2>1. PICK generics : generics = regs \o bounds
    OBVIOUS
  <2>2. generics \in Seq(Op) /\ NowhereOn(generics, s)
    BY <1>12, <2>1, SpecConcat
  <2> QED
    BY <1>13, <1>15, <2>1, <2>2, SpecConcat
<1>17. PICK first : first = front \o m
  OBVIOUS
<1>18. first \in Seq(Op)
  BY <1>11, <1>16, <1>17, SpecConcat
<1>19. /\ t = "measure" => OnceOn(first, s)
       /\ t # "measure" => NowhereOn(first, s)
  BY <1>8, <1>11, <1>16, <1>17, SpecConcat
<1>20. PICK second : second = first \o p
  OBVIOUS
<1>21. second \in Seq(Op)
  BY <1>11, <1>18, <1>20, SpecConcat
<1>22. /\ t # "post" => OnceOn(second, s)
       /\ t = "post" => NowhereOn(second, s)
  BY <1>9, <1>11, <1>18, <1>19, <1>20, SpecConcat DEF SpecTypes
<1>23. PICK third : third = second \o ret
  OBVIOUS
<1>24. third \in Seq(Op)
  BY <1>14, <1>21, <1>23, SpecConcat
<1>25. /\ t # "post" => OnceOn(third, s)
       /\ t = "post" => NowhereOn(third, s)
  BY <1>14, <1>21, <1>22, <1>23, SpecConcat
<1>26. PICK fourth : fourth = third \o q
  OBVIOUS
<1>27. fourth \in Seq(Op) /\ OnceOn(fourth, s)
  BY <1>10, <1>11, <1>24, <1>25, <1>26, SpecConcat
<1>28. PICK whole : whole = fourth \o last
  OBVIOUS
<1>29. OnceOn(whole, s)
  BY <1>13, <1>27, <1>28, SpecConcat
<1>30. FunctionOps(g) = whole
  BY <1>1, <1>2, <1>4, <1>15, <1>17, <1>20, <1>23, <1>26, <1>28 DEF FunctionOps, GenericsOps
<1> QED
  BY <1>29, <1>30

(* The loop over the functions: the one taken has its contract before it.   *)
LEMMA StartFunctionAttaching ==
  ASSUME AttachInv, CompleteInv', StartFunction
  PROVE  Attaching'
<1>1. PICK g, f, ops : g = Head(fn_items) /\ f = EmptyFd(g, FALSE) /\ ops = FunctionOps(g)
  OBVIOUS
<1>2. /\ fn_items # <<>> /\ phase = "functions" /\ fd' = f /\ todo' = ops
      /\ crate' = crate
  BY <1>1 DEF StartFunction, Idle
<1>3. CompleteInv /\ ExtractionInv /\ crate \in Crates /\ fn_items \in Seq(DefIds)
  BY DEF AttachInv, CompleteInv, ExtractionInv, TypeOK
<1>4. g \in DefIds
  BY <1>1, <1>2, <1>3, HeadTailProperties
<1>5. items = <<>>
  BY <1>2, <1>3 DEF CompleteInv, ItemsKept
<1>6. ASSUME ~errors', NEW s \in ContractOf(f) PROVE Ahead(f, ops, s)
  <2>1. s \in Subjects /\ crate.spec_of[s] = g
    BY <1>1 DEF ContractOf, EmptyFd
  <2>2. PICK t : t = crate.spec_type[s]
    OBVIOUS
  <2>3. t \in SpecTypes
    BY <1>3, <2>1, <2>2, SubjectTypes
  <2>4. Once(specs[g][t], s)
    <3>1. ~ToVisit("fns", s)
      BY <1>5 DEF ToVisit
    <3>2. Once(FiledFor(s), s)
      BY <2>1, <3>1 DEF AttachInv, Filed
    <3> QED
      BY <2>1, <2>2, <3>2 DEF FiledFor
  <2>5. Len(specs[g]["measure"]) <= 1
    <3>1. PICK n : n = Len(specs[g]["measure"])
      OBVIOUS
    <3>2. ~(n > 1)
      BY <1>1, <1>6, <3>1 DEF StartFunction
    <3>3. specs[g]["measure"] \in Seq(DefIds)
      BY <1>3, <1>4 DEF ExtractionInv, TypeOK, SpecTypes
    <3>4. n \in Nat
      BY <3>1, <3>3, LenProperties
    <3> QED
      BY <3>1, <3>2, <3>4
  <2>6. OnceOn(ops, s)
    BY <1>1, <1>3, <1>4, <2>2, <2>3, <2>4, <2>5, FunctionHas
  <2>7. Place(f, s) = <<>>
    BY <1>1, <2>2, <2>3 DEF Place, EmptyFd, SpecTypes
  <2>8. ~Waiting(Place(f, s), s)
    BY <2>7 DEF Waiting
  <2> QED
    BY <2>6, <2>8 DEF Ahead
<1>7. CASE ~errors'
  <2>1. \A s \in ContractOf(f) : Ahead(f, ops, s)
    BY <1>6, <1>7
  <2> QED
    BY <1>2, <2>1, AttachingNext
<1>8. CASE errors'
  BY <1>8 DEF Attaching
<1> QED
  BY <1>7, <1>8

(* The loops of process_crate.                                              *)
LEMMA LoopsAttached ==
  ASSUME AttachInv, CompleteInv', Loops
  PROVE  AttachInv'
<1>1. UNCHANGED <<crate, items, specs, functions>>
  BY DEF Loops, StartAdt, AdtsDone, StartFunction, FunctionsDone, StartStub, StubsDone,
    discovery_vars, output_vars
<1>2. ~errors' => ~errors
  <2>1. errors \in BOOLEAN
    BY DEF AttachInv, CompleteInv, ExtractionInv, TypeOK
  <2>2. CASE StartFunction
    BY <2>1, <2>2 DEF StartFunction
  <2>3. CASE ~StartFunction
    <3>1. errors' = errors
      BY <2>3 DEF Loops, StartAdt, AdtsDone, FunctionsDone, StartStub, StubsDone
    <3> QED
      BY <3>1
  <2> QED
    BY <2>2, <2>3
<1>3. ItemsApart'
  BY <1>1 DEF AttachInv, ItemsApart
<1>4. \A d : ToVisit("fns", d)' <=> ToVisit("fns", d)
  BY <1>1 DEF ToVisit
<1>5. Filed'
  BY <1>1, <1>4, FiledKept DEF AttachInv
<1>6. Attached'
  BY <1>1, <1>2, AttachedKept DEF AttachInv
<1>7. ExtractionInv /\ CompleteInv
  BY DEF AttachInv, CompleteInv
<1>8. Attaching'
  <2>1. CASE AdtsDone \/ FunctionsDone \/ StubsDone
    <3>1. todo' = <<>>
      BY <2>1 DEF AdtsDone, FunctionsDone, StubsDone, Idle
    <3> QED
      BY <3>1 DEF Attaching, Pending
  <2>2. CASE StartAdt
    <3>1. PICK a, s, t : a = Head(adt_items) /\ s = One("adt", a) /\ t = One("addAdt", a)
      OBVIOUS
    <3>2. a \in DefIds /\ todo' = s \o t
      BY <1>7, <2>2, <3>1, HeadTailProperties DEF StartAdt, ExtractionInv, TypeOK
    <3>3. /\ s \in Seq(Op) /\ DOMAIN s = {1} /\ s[1].op = "adt"
          /\ t \in Seq(Op) /\ DOMAIN t = {1} /\ t[1].op = "addAdt"
      BY <3>1, <3>2, OneType DEF DefOps
    <3>4. PICK new : new = s \o t
      OBVIOUS
    <3>5. \A i \in DOMAIN new : \/ i \in DOMAIN s /\ new[i] = s[i]
                                \/ i - Len(s) \in DOMAIN t /\ new[i] = t[i - Len(s)]
      BY <3>3, <3>4, ConcatFrom
    <3>6. \A i \in DOMAIN new : new[i].op # "emit"
      BY <3>3, <3>5
    <3> QED
      BY <3>2, <3>4, <3>6 DEF Attaching, Pending
  <2>3. CASE StartStub
    <3>1. PICK g \in stubs : todo' = StubOps(g)
      BY <2>3 DEF StartStub
    <3>2. PICK new : new = StubOps(g)
      OBVIOUS
    <3>3. g \in DefIds
      BY <1>7 DEF ExtractionInv, TypeOK
    <3>4. \A i \in DOMAIN new : new[i].op # "emit"
      BY <1>7, <3>2, <3>3, StubBegins DEF Begins
    <3> QED
      BY <3>1, <3>2, <3>4 DEF Attaching, Pending
  <2>4. CASE StartFunction
    BY <2>4, StartFunctionAttaching
  <2> QED
    BY <2>1, <2>2, <2>3, <2>4 DEF Loops
<1> QED
  BY <1>3, <1>5, <1>6, <1>8 DEF AttachInv

----------------------------------------------------------------------------
(* The invariant is inductive.                                              *)

(* It holds of the crate the visitor starts on, ...                         *)
LEMMA AttachInit == Init => AttachInv
<1> SUFFICES ASSUME Init PROVE AttachInv
  OBVIOUS
<1>1. CompleteInv /\ crate \in Crates
  BY CompleteInit DEF Init
<1>2. /\ items = crate.items /\ specs = [d \in DefIds |-> NoSpecs] /\ todo = <<>>
      /\ functions = [id \in {} |-> id]
  BY DEF Init
<1>3. ItemsApart
  BY <1>1, <1>2, CrateLists DEF WellFormed, ItemsApart
<1>4. Filed
  <2> SUFFICES ASSUME NEW s \in Subjects
               PROVE  ToVisit("fns", s) /\ ~Waiting(FiledFor(s), s)
    BY DEF Filed
  <2>1. /\ s \in Listed(crate, "fns") /\ crate.spec_of[s] \in DefIds
        /\ crate.spec_type[s] \in SpecTypes
    BY <1>1, SubjectTypes
  <2>2. ToVisit("fns", s)
    BY <1>1, <1>2, <2>1, CrateLists DEF ToVisit
  <2>3. FiledFor(s) = <<>>
    BY <1>2, <2>1 DEF FiledFor, NoSpecs
  <2>4. ~Waiting(FiledFor(s), s)
    BY <2>3 DEF Waiting
  <2> QED
    BY <2>2, <2>4
<1>5. Attaching
  BY <1>2 DEF Attaching, Pending
<1>6. Attached
  BY <1>2 DEF Attached
<1> QED
  BY <1>1, <1>3, <1>4, <1>5, <1>6 DEF AttachInv

(* ... and every step keeps it.                                             *)
LEMMA AttachStep ==
  ASSUME AttachInv, [Next]_vars
  PROVE  AttachInv'
<1>1. CompleteInv'
  BY CompleteStep DEF AttachInv
<1>2. CASE Next
  BY <1>1, <1>2, DiscoveryAttached, LoopsAttached, TraversalAttached DEF Next
<1>3. CASE UNCHANGED vars
  <2>1. UNCHANGED <<crate, items, specs, todo, fd, functions, errors>>
    BY <1>3 DEF vars, discovery_vars, output_vars
  <2>2. ItemsApart' /\ \A d : ToVisit("fns", d)' <=> ToVisit("fns", d)
    BY <2>1 DEF AttachInv, ItemsApart, ToVisit
  <2>3. Filed'
    BY <2>1, <2>2, FiledKept DEF AttachInv
  <2> QED
    BY <1>1, <2>1, <2>2, <2>3, QuietAttached
<1> QED
  BY <1>2, <1>3

(* extract_spec_fn, extract_local_fn: with no error reported, every spec    *)
(* function of a function of the crate is in its contract, once and in the  *)
(* place of its type.                                                       *)
THEOREM ContractsComplete == Spec => []SpecsAttached
<1>1. AttachInv /\ UniqueGlobalIds => SpecsAttached
  <2> SUFFICES ASSUME AttachInv, UniqueGlobalIds, phase = "done", ~errors,
                      NEW s \in SpecFns(crate), crate.spec_of[s] \in UserFns(crate),
                      NEW f, f = functions[did_to_stid[crate.spec_of[s]]],
                      NEW place, place = Place(f, s)
               PROVE  Cardinality({i \in DOMAIN place : place[i] = s}) = 1
    BY DEF SpecsAttached, Place
  <2>1. PICK g, id : g = crate.spec_of[s] /\ id = did_to_stid[g]
    OBVIOUS
  <2>2. CompleteInv /\ crate \in Crates /\ s \in Subjects
    BY DEF AttachInv, CompleteInv, ExtractionInv, TypeOK, Subjects
  <2>3. items = <<>> /\ todo = <<>> /\ fn_items = <<>>
    BY <2>2 DEF CompleteInv, ItemsKept, FunctionsKept
  <2>4. g \in DOMAIN did_to_stid /\ id \in DOMAIN functions /\ f = functions[id]
    BY <2>1, <2>2, <2>3
    DEF CompleteInv, FunctionsKept, ToVisit, Waiting, Pending, Added, IsRegistered
  <2>5. /\ f.def \in DOMAIN did_to_stid /\ id = did_to_stid[f.def]
        /\ ~f.extern \/ (f.extern /\ f.def \in crate.external)
    BY <2>2, <2>4 DEF CompleteInv, FunctionsKnown, IsRegistered, Stubbed
  <2>6. f.def = g
    BY <2>1, <2>4, <2>5, DefinitionsApart
  <2>7. ~f.extern
    BY <2>1, <2>2, <2>5, <2>6, CrateLists
  <2>8. Once(place, s)
    <3>1. s \in ContractOf(f)
      BY <2>1, <2>2, <2>6 DEF ContractOf
    <3> QED
      BY <2>4, <2>7, <3>1 DEF AttachInv, Attached
  <2>9. \E i : {j \in DOMAIN place : place[j] = s} = {i}
    BY <2>8 DEF Once
  <2> QED
    BY <2>9, FS_Singleton
<1>2. Init => AttachInv
  BY AttachInit
<1>3. AttachInv /\ [Next]_vars => AttachInv'
  BY AttachStep
<1> QED
  BY <1>1, <1>2, <1>3, ExtractedIdsUnique, PTL DEF Spec
=============================================================================
