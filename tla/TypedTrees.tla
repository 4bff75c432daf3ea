----------------------------- MODULE TypedTrees -----------------------------
(***************************************************************************)
(* Trees, of rustc (HAIR) and of Stainless: nodes of one shape.             *)
(***************************************************************************)
EXTENDS Naturals, Sequences

(* A tree; `index' is the number of a field, `type' that of the expression. *)
Node(kind, name, index, type, sub) ==
  [kind |-> kind, name |-> name, index |-> index, type |-> type, sub |-> sub]
None == Node("None", "", 0, "", <<>>)

(* st::NoTree, left where a tree is not supported.                          *)
NoTree == Node("NoTree", "", 0, "untyped", <<>>)
UnitLiteral == Node("Literal", "unit", 0, "unit", <<>>)

(* The result of extracting a tree: what was built and what went wrong on   *)
(* the way, an unsupported tree that was reported or an assertion.          *)
Built(tree, parts) ==
  [tree |-> tree, log |-> UNION {parts[i].log : i \in DOMAIN parts}]
Trees(parts) == [i \in DOMAIN parts |-> parts[i].tree]
=============================================================================
