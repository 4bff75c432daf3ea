----------------------------- MODULE MCGenerics -----------------------------
(***************************************************************************)
(* Definitions for Generics:                                                *)
(*   enum S<A, B>                 a field of type S<B, A>                   *)
(*   fn id<T>                                                               *)
(*   impl<P> { fn m<Q> }          with a spec function m_spec<Q2>           *)
(*   fn map<F: Fn(X) -> Y, X, Y>  with a spec function                      *)
(*   fn both<G: Fn(H) -> i32, H: Fn(i32) -> i32>                            *)
(*   fn twice<K: Fn(i32) -> i32 + FnOnce(i32) -> i32>                       *)
(*   fn late<'a, L>               with a spec function                      *)
(*   fn pass<M: Fn(i32) -> i32>   that hands its parameter to apply         *)
(*   fn apply<N: Fn(i32) -> i32>                                            *)
(***************************************************************************)
EXTENDS Generics, TLC

MCSpecs ==
  [d \in {"S", "id", "m", "map", "both", "twice", "late", "pass", "apply",
          "m_spec", "map_spec", "late_spec"} |->
     CASE d = "m" -> <<"m_spec">> [] d = "map" -> <<"map_spec">>
       [] d = "late" -> <<"late_spec">> [] OTHER -> <<>>]
MCDefs == DOMAIN MCSpecs
MCParent ==
  [d \in MCDefs |-> IF d \in {"m", "m_spec"} THEN "impl" ELSE "no_def"]
MCOwn ==
  "S" :> <<"A", "B">> @@ "id" :> <<"T">> @@ "impl" :> <<"P">> @@ "m" :> <<"Q">>
  @@ "m_spec" :> <<"Q2">> @@ "map" :> <<"F", "X", "Y">>
  @@ "map_spec" :> <<"F2", "X2", "Y2">> @@ "both" :> <<"G", "H">>
  @@ "twice" :> <<"K">> @@ "late" :> <<"'a", "L">> @@ "late_spec" :> <<"'a2", "L2">>
  @@ "pass" :> <<"M">> @@ "apply" :> <<"N">>
MCParams == UNION {ToSet(MCOwn[d]) : d \in DOMAIN MCOwn}

(* Types: i32, bool, a parameter, a closure's, a function's.                *)
Plain(base) == [base |-> base, mentions |-> {}]
Param(base, i) == [base |-> base, mentions |-> {i}]
Bound(of, inputs, output) ==
  <<[of |-> of, part |-> "inputs", types |-> inputs],
    [of |-> of, part |-> "output", types |-> <<output>>]>>
IntFn(of) == Bound(of, <<Plain("i32")>>, Plain("i32"))
MCBounds == [d \in MCDefs |->
  CASE d \in {"map", "map_spec"} -> Bound(1, <<Param("X", 2)>>, Param("Y", 3))
    [] d = "both" -> Bound(1, <<Param("H", 2)>>, Plain("i32")) \o IntFn(2)
    [] d = "twice" -> IntFn(1) \o IntFn(1)
    [] d \in {"pass", "apply"} -> IntFn(1)
    [] OTHER -> <<>>]

Call(of, types) == [kind |-> "call", of |-> of, types |-> types]
TypeOf(of, types) == [kind |-> "type", of |-> of, types |-> types]
MCUses == [d \in MCDefs |->
  CASE d = "S" -> <<TypeOf("S", <<Param("B", 2), Param("A", 1)>>)>>
    [] d = "id" -> <<Call("id", <<Plain("fn_item")>>)>>
    [] d = "m" -> <<Call("m", <<Param("P", 1), Param("Q", 2)>>),
                    Call("map", <<Plain("closure"), Param("Q", 2), Plain("bool")>>)>>
    [] d = "m_spec" -> <<TypeOf("S", <<Param("Q2", 2), Param("P", 1)>>)>>
    [] d = "map" -> <<Call("id", <<Param("F", 1)>>), Call("id", <<Plain("closure")>>)>>
    [] d = "map_spec" -> <<TypeOf("S", <<Param("Y2", 3), Param("F2", 1)>>)>>
    [] d = "late" -> <<Call("id", <<Param("L", 2)>>)>>
    [] d = "pass" -> <<Call("apply", <<Param("M", 1)>>)>>
    [] OTHER -> <<>>]
=============================================================================
