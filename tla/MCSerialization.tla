-------------------------- MODULE MCSerialization --------------------------
(***************************************************************************)
(* The trees and values Serialization is checked on.                        *)
(***************************************************************************)
EXTENDS Serialization

(* Every class but LocalClassConstructor, whose marker is also that of      *)
(* MutableMapUpdate: a reader that expects an expression cannot tell the    *)
(* two apart.                                                               *)
MCClasses == DOMAIN Schema \ {"LocalClassConstructor"}

(* A tree of every sort (the enums and the classes no enum contains), a     *)
(* program, and a sequence that may be long.                                *)
MCRoots ==
  {One(sort) : sort \in Enums \cup DOMAIN OtherNodes \cup {"Symbols"}}
  \cup {Vec("String")}

(* Values at the boundaries of their encodings.                             *)
MCBooleans == {<<0>>, <<1>>}
MCChars == {<<0>>, <<255>>, <<256>>, <<65535>>}
MCInts == {<<-2147483647 - 1>>, <<-257>>, <<-1>>, <<0>>, <<128>>, <<256>>, <<2147483647>>}
MCStrings == {<<>>, <<5, 4>>, [i \in 1 .. 256 |-> 255]}
MCBigInts == {<<v>> : v \in {-32769, -32768, -129, -128, -127, -1, 0, 1,
                              127, 128, 255, 256, 32767, 32768}}
=============================================================================
