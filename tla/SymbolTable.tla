---------------------------- MODULE SymbolTable ----------------------------
(***************************************************************************)
(* What the identifier bookkeeping of stainless_extraction promises to the  *)
(* rest of the extractor, with no mention of counters or hash maps: owners  *)
(* (Rust definitions, HIR bindings, synthesised variables) are registered   *)
(* one at a time, each gets a value that no owner has had before, and a     *)
(* registration is never revoked or changed.                                *)
(***************************************************************************)
CONSTANT Owner           \* everything that can own an identifier

VARIABLE table           \* the identifiers handed out: owner |-> identifier

Init == table = [o \in {} |-> o]

(* One owner gets an identifier that was not in use.                        *)
Register(o) ==
  /\ o \notin DOMAIN table
  /\ DOMAIN table' = DOMAIN table \cup {o}
  /\ \A p \in DOMAIN table : table'[p] = table[p] /\ table'[o] # table[p]

Next == \E o \in Owner : Register(o)

Spec == Init /\ [][Next]_table

(* No two owners share an identifier.                                       *)
Injective == \A p, q \in DOMAIN table : table[p] = table[q] => p = q
=============================================================================
