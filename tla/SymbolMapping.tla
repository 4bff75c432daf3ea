--------------------------- MODULE SymbolMapping ---------------------------
(***************************************************************************)
(* struct SymbolMapping and Extraction::fresh_id (stainless_extraction/src/ *)
(* lib.rs) over the two UniqueCounters of utils.rs.                         *)
(*                                                                          *)
(* An identifier carries a name, a globalId (what Stainless compares) and a *)
(* per-name id (what a reader sees as name$id).  Owners of identifiers are  *)
(* definitions (did_to_stid), HIR bindings (hid_to_stid) and the variables  *)
(* the extractor makes up: "ret" and the parameters of external stubs.      *)
(***************************************************************************)
EXTENDS Integers, Sequences, FiniteSets

CONSTANTS
  DefIds,        \* rustc DefIds: items, variants, fields, type parameters
  HirIds,        \* rustc HirIds: binding patterns
  Names,         \* identifier names
  Numeric,       \* the names made of digits only (fields of tuple structs)
  Underscore,    \* "0" |-> "_0": the name that replaces a numeric one
  DefName,       \* last segment of the path of a definition
  HirName,       \* name of a binding
  MaxCounter     \* largest value of the Counter type (i32::MAX in the code)

ASSUME MappingAssumption ==
  /\ Numeric \subseteq Names
  /\ Underscore \in [Numeric -> Names \ Numeric]
  /\ DefName \in [DefIds -> Names]
  /\ HirName \in [HirIds -> Names]
  /\ MaxCounter \in Nat

VARIABLES
  global_id_counter,   \* next globalId
  local_id_counter,    \* next id of each name
  did_to_stid,         \* definition |-> identifier
  hid_to_stid,         \* binding |-> identifier
  fresh_vars           \* identifiers of made-up variables, in order of issue

mapping_vars ==
  <<global_id_counter, local_id_counter, did_to_stid, hid_to_stid, fresh_vars>>

SymbolId == [name : Names, globalId : Nat, id : Nat]

(* HashMap::insert.                                                         *)
Insert(f, k, v) == [x \in DOMAIN f \cup {k} |-> IF x = k THEN v ELSE f[x]]

MappingInit ==
  /\ global_id_counter = 0
  /\ local_id_counter = [n \in Names |-> 0]
  /\ did_to_stid = [d \in {} |-> d]
  /\ hid_to_stid = [h \in {} |-> h]
  /\ fresh_vars = <<>>

(* Name under which a definition is registered: digits get an underscore.   *)
StName(d) ==
  IF DefName[d] \in Numeric THEN Underscore[DefName[d]] ELSE DefName[d]

FreshIdOffByOne(n) ==    \* mutant: the per-name counter is read one too low
  [name |-> n, globalId |-> global_id_counter, id |-> local_id_counter[n] - 1]

(* The identifier fresh_id returns, and the counters it advances.  At       *)
(* MaxCounter the increment overflows, which stops a debug build.           *)
FreshId(n) ==
  [name |-> n, globalId |-> global_id_counter, id |-> local_id_counter[n]]

CounterLeft == global_id_counter < MaxCounter

Advance(n) ==
  /\ CounterLeft
  /\ global_id_counter' = global_id_counter + 1
  /\ local_id_counter' = [local_id_counter EXCEPT ![n] = @ + 1]

(* Mutants of the registrations: the per-name counter is keyed by the name  *)
(* before conversion; a definition, or a binding, is registered again.      *)
RegisterDefRawName(d) ==
  /\ d \notin DOMAIN did_to_stid
  /\ Advance(DefName[d])
  /\ did_to_stid' = Insert(did_to_stid, d,
       [FreshId(StName(d)) EXCEPT !.id = local_id_counter[DefName[d]]])
  /\ UNCHANGED <<hid_to_stid, fresh_vars>>
RegisterDefAgain(d) ==
  /\ Advance(StName(d))
  /\ did_to_stid' = Insert(did_to_stid, d, FreshId(StName(d)))
  /\ UNCHANGED <<hid_to_stid, fresh_vars>>
RegisterHirAgain(h) ==
  /\ Advance(HirName[h])
  /\ hid_to_stid' = Insert(hid_to_stid, h, FreshId(HirName[h]))
  /\ UNCHANGED <<did_to_stid, fresh_vars>>

(* register_def, past its assertion that the definition is new.             *)
RegisterDef(d) ==
  /\ d \notin DOMAIN did_to_stid
  /\ Advance(StName(d))
  /\ did_to_stid' = Insert(did_to_stid, d, FreshId(StName(d)))
  /\ UNCHANGED <<hid_to_stid, fresh_vars>>

(* register_hir, past its assertion that the binding is new.                *)
RegisterHir(h) ==
  /\ h \notin DOMAIN hid_to_stid
  /\ Advance(HirName[h])
  /\ hid_to_stid' = Insert(hid_to_stid, h, FreshId(HirName[h]))
  /\ UNCHANGED <<did_to_stid, fresh_vars>>

(* Mutant of FreshVar: the global counter is not advanced.                  *)
FreshVarNoAdvance(n) ==
  /\ CounterLeft
  /\ fresh_vars' = Append(fresh_vars, FreshId(n))
  /\ local_id_counter' = [local_id_counter EXCEPT ![n] = @ + 1]
  /\ UNCHANGED <<global_id_counter, did_to_stid, hid_to_stid>>

(* BaseExtractor::fresh_id, for a variable with no Rust counterpart.        *)
FreshVar(n) ==
  /\ Advance(n)
  /\ fresh_vars' = Append(fresh_vars, FreshId(n))
  /\ UNCHANGED <<did_to_stid, hid_to_stid>>

MappingNext ==
  \/ \E d \in DefIds : RegisterDef(d)
  \/ \E h \in HirIds : RegisterHir(h)
  \/ \E n \in Names : FreshVar(n)

MappingSpec == MappingInit /\ [][MappingNext]_mapping_vars

----------------------------------------------------------------------------
(* Owners and the identifier of each.                                       *)
Owners ==
  ({"def"} \X DOMAIN did_to_stid)
    \cup ({"hir"} \X DOMAIN hid_to_stid)
    \cup ({"var"} \X DOMAIN fresh_vars)

IdOf(o) ==
  IF o[1] = "def" THEN did_to_stid[o[2]]
  ELSE IF o[1] = "hir" THEN hid_to_stid[o[2]]
  ELSE fresh_vars[o[2]]

(* Everything that may ever own an identifier.                              *)
PossibleOwners ==
  ({"def"} \X DefIds) \cup ({"hir"} \X HirIds) \cup ({"var"} \X (1 .. MaxCounter))

(* The type invariant.                                                      *)
MappingTypeOK ==
  /\ global_id_counter \in Nat
  /\ local_id_counter \in [Names -> Nat]
  /\ DOMAIN did_to_stid \subseteq DefIds
  /\ \A d \in DOMAIN did_to_stid : did_to_stid[d] \in SymbolId
  /\ DOMAIN hid_to_stid \subseteq HirIds
  /\ \A h \in DOMAIN hid_to_stid : hid_to_stid[h] \in SymbolId
  /\ fresh_vars \in Seq(SymbolId)

(* Stainless compares identifiers by globalId alone (Identifier's PartialEq *)
(* and Ord in generated.rs), so two owners must never share one, whichever  *)
(* of the three maps they are in.                                           *)
UniqueGlobalIds ==
  \A o, p \in Owners : IdOf(o).globalId = IdOf(p).globalId => o = p

(* The printed form name$id identifies an owner too: the per-name counter   *)
(* must be keyed by the name that ends up in the identifier, the converted  *)
(* one.                                                                     *)
UniqueNamedIds ==
  \A o, p \in Owners :
    IdOf(o).name = IdOf(p).name /\ IdOf(o).id = IdOf(p).id => o = p

(* The mapping implements the abstract table twice over: by globalId, and   *)
(* by name and per-name id.                                                 *)
ByGlobalId == INSTANCE SymbolTable WITH
  Owner <- PossibleOwners, table <- [o \in Owners |-> IdOf(o).globalId]
ByName == INSTANCE SymbolTable WITH
  Owner <- PossibleOwners, table <- [o \in Owners |-> <<IdOf(o).name, IdOf(o).id>>]

(* Registration only ever adds: identifiers by globalId behave as the       *)
(* abstract table.                                                          *)
ImplementsByGlobalId == ByGlobalId!Spec
(* So do printed identifiers, name and per-name id.                         *)
ImplementsByName == ByName!Spec
=============================================================================
