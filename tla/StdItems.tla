------------------------------ MODULE StdItems ------------------------------
(***************************************************************************)
(* Standard items (stainless_extraction/src/std_items.rs): the definitions  *)
(* of other crates that the extractor treats specially. Their identities    *)
(* are collected once, from rustc's table of language items and, since      *)
(* rustc has no search by name, by trying the definitions of a crate one    *)
(* after the other until every name sought has been met.                    *)
(*                                                                          *)
(* A definition is identified by its path; only the last part is looked at. *)
(***************************************************************************)
EXTENDS Naturals, FiniteSets

CONSTANTS
  Definitions,  \* [crate -> Seq([path, last])], in the order of their DefIndex
  LangItemDefs  \* [item -> path], tcx.require_lang_item

NoItem == "no_item"

(* StdItem::lang_item.                                                      *)
RUST_LANG_ITEMS ==
  {"FnTrait", "FnMutTrait", "FnOnceTrait", "SizedTrait", "BeginPanicFn"}

(* StdItem::name of those that are searched for.                            *)
Name == [BeginPanicFmtFn |-> "begin_panic_fmt",
         SetType |-> "Set", SetAddFn |-> "add",
         SetDifferenceFn |-> "difference",
         SetIntersectionFn |-> "intersection", SetUnionFn |-> "union",
         SubsetOfFn |-> "is_subset_of", SetEmptyFn |-> "empty",
         SetSingletonFn |-> "singleton"]

(* STAINLESS_ITEMS                                                          *)
STAINLESS_ITEMS == DOMAIN Name \ {"BeginPanicFmtFn"}

NamedIn(crate, name) ==
  {i \in DOMAIN Definitions[crate] : Definitions[crate][i].last = name}

(* register_items_from_crate: the first definition of the name; the search  *)
(* for a name that does not occur runs past the end of the crate.           *)
DefInCrate(crate, item) ==
  Definitions[crate][CHOOSE i \in NamedIn(crate, Name[item]) :
                       \A j \in NamedIn(crate, Name[item]) : i <= j].path

CrateOf(path) ==
  CHOOSE crate \in DOMAIN Definitions :
    \E i \in DOMAIN Definitions[crate] : Definitions[crate][i].path = path

(* StdItems::collect                                                        *)
ItemToDef ==
  [item \in RUST_LANG_ITEMS \cup DOMAIN Name |->
     IF item \in RUST_LANG_ITEMS THEN LangItemDefs[item]
     ELSE IF item \in STAINLESS_ITEMS THEN DefInCrate("stainless", item)
     ELSE DefInCrate(CrateOf(LangItemDefs["BeginPanicFn"]), item)]

(* def_to_item_opt                                                          *)
DefToItem(path) ==
  IF \E item \in DOMAIN ItemToDef : ItemToDef[item] = path
  THEN CHOOSE item \in DOMAIN ItemToDef : ItemToDef[item] = path
  ELSE NoItem

(* The libraries are those the extractor was built for.                     *)
ASSUME StdItemsAssumption ==
  /\ "stainless" \in DOMAIN Definitions
  /\ \A item \in STAINLESS_ITEMS : NamedIn("stainless", Name[item]) # {}
  /\ \E crate \in DOMAIN Definitions :
       /\ NamedIn(crate, Name["BeginPanicFmtFn"]) # {}
       /\ \E i \in DOMAIN Definitions[crate] :
            Definitions[crate][i].path = LangItemDefs["BeginPanicFn"]
=============================================================================
