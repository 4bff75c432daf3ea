-------------------------- MODULE MCSymbolMapping --------------------------
(***************************************************************************)
(* SymbolMapping on four definitions and two bindings that fight over three *)
(* names: the numeric field "0" is renamed to the name of another field,    *)
(* and a binding and a made-up variable are both called "ret".              *)
(***************************************************************************)
EXTENDS SymbolMapping

MCNames == {"0", "_0", "ret"}
MCNumeric == {"0"}
MCUnderscore == [n \in {"0"} |-> "_0"]
MCDefName == [d \in {"d1", "d2", "d3"} |->
                CASE d = "d1" -> "0" [] d = "d2" -> "_0" [] d = "d3" -> "0"]
MCHirName == [h \in {"h1", "h2"} |-> "ret"]
=============================================================================
