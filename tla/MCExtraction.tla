--------------------------- MODULE MCExtraction ---------------------------
(***************************************************************************)
(* Small crates for Extraction.  The definitions: local ADTs A (an enum     *)
(* with two variants), B (a tuple struct) and C (a unit struct), ADTs X, Y  *)
(* and functions e, h of other crates, functions f, g (top level) and m, n  *)
(* (methods), spec functions of f and m.                                    *)
(***************************************************************************)
EXTENDS Extraction, TLC

MCDefIds ==
  {"A", "A1", "A2", "A1x", "A2x", "B", "B0", "Bx", "C", "T", "X", "X1", "Xx", "Y",
   "e", "h", "f", "g", "m", "n", "f_pre", "f_post", "f_measure", "f_measure2", "m_pre", "m_post"}
MCHirIds == {"fx", "fy", "gx", "mself", "mx", "prex", "postx", "postr", "posty",
             "meax", "mea2x", "mprex", "mpostx", "mpostr"}
MCNames == {"A", "B", "C", "Some", "None", "x", "0", "_0", "T", "X", "e", "h", "f", "g",
            "m", "n", "spec", "ret", "param0", "param1"}
MCNumeric == {"0"}
MCUnderscore == [n \in {"0"} |-> "_0"]
MCParamNames == <<"param0", "param1">>

(* The variants of A and X have the same names; a field of B is called 0    *)
(* and another _0.                                                          *)
MCDefName == [d \in MCDefIds |->
  CASE d \in {"A1", "X1"} -> "None" [] d = "A2" -> "Some"
    [] d \in {"A1x", "A2x", "Xx"} -> "x" [] d = "B0" -> "0" [] d = "Bx" -> "_0"
    [] d = "Y" -> "X"
    [] d \in {"f_pre", "f_post", "f_measure", "f_measure2", "m_pre", "m_post"} -> "spec"
    [] OTHER -> d]
MCHirName == [h \in MCHirIds |->
  IF h \in {"postr", "mpostr"} THEN "ret" ELSE "x"]

Fill(f, S, default) == [x \in S |-> IF x \in DOMAIN f THEN f[x] ELSE default]
Defs(f, default) == Fill(f, MCDefIds, default)

Use(op, x) == <<[op |-> op, arg |-> x]>>
AdtItem(a) == [kind |-> "adt", defs |-> {a}]
FnItem(g) == [kind |-> "fns", defs |-> {g}]
ImplItem(gs) == [kind |-> "fns", defs |-> gs]
OtherItem == [kind |-> "other", defs |-> {}]

(* Two mutually recursive functions, f with a full contract, a generic      *)
(* recursive enum, a struct with a field of that type and one of another    *)
(* crate's.                                                                 *)
Base ==
  [ items |-> <<AdtItem("A"), AdtItem("B"), FnItem("f"), FnItem("f_pre"),
                FnItem("f_post"), FnItem("f_measure"), FnItem("g")>>,
    external |-> {"X", "Y", "X1", "Xx", "e", "h"},
    spec_type |-> Defs("f_pre" :> "pre" @@ "f_post" :> "post"
                       @@ "f_measure" :> "measure" @@ "f_measure2" :> "measure"
                       @@ "m_pre" :> "pre" @@ "m_post" :> "post", "none"),
    spec_of |-> Defs("f_pre" :> "f" @@ "f_post" :> "f" @@ "f_measure" :> "f"
                     @@ "f_measure2" :> "f" @@ "m_pre" :> "m" @@ "m_post" :> "m", NoDef),
    parent |-> Defs("m" :> "T" @@ "n" :> "T" @@ "m_pre" :> "T" @@ "m_post" :> "T", NoDef),
    tparams |-> Defs("A" :> <<"T">> @@ "m" :> <<"T">> @@ "n" :> <<"T">>, <<>>),
    bounds |-> Defs("g" :> <<"X">>, <<>>),
    variants |-> Defs("A" :> <<"A1", "A2">> @@ "B" :> <<"B">> @@ "C" :> <<"C">>
                      @@ "X" :> <<"X1">>, <<>>),
    fields |-> Defs("A1" :> <<"A1x">> @@ "A2" :> <<"A2x">> @@ "B" :> <<"B0", "Bx">>
                    @@ "X1" :> <<"Xx">>, <<>>),
    types |-> Defs("A2x" :> <<"A">> @@ "B0" :> <<"A", "X">> @@ "Xx" :> <<"Y", "X">>
                   @@ "f" :> <<"B">> @@ "e" :> <<"Y">>, <<>>),
    inputs |-> Defs("e" :> << <<"X">>, <<>> >> @@ "h" :> << <<>> >>, <<>>),
    params |-> Defs("f" :> <<"fx">> @@ "f_pre" :> <<"prex">>
                    @@ "f_post" :> <<"postx", "postr">> @@ "f_measure" :> <<"meax">>
                    @@ "f_measure2" :> <<"mea2x">> @@ "g" :> <<"gx">>
                    @@ "m" :> <<"mself", "mx">> @@ "m_pre" :> <<"mprex", "meax">>
                    @@ "m_post" :> <<"mpostx", "mea2x", "mpostr">>, <<>>),
    locals |-> Defs("f" :> <<"fy">> @@ "f_post" :> <<"posty">>, <<>>),
    hir_types |-> Fill("fx" :> <<"A">> @@ "fy" :> <<"B">>, MCHirIds, <<>>),
    complex |-> {},
    mutable |-> {},
    body |-> Defs(
      "f" :> Use("adt", "B") \o Use("var", "fx") \o Use("call", "g")
               \o Use("var", "fy") \o Use("call", "e")
      @@ "g" :> Use("call", "f") \o Use("call", "h") \o Use("adt", "A") \o Use("var", "gx")
      @@ "f_pre" :> Use("var", "prex") \o Use("call", "g")
      @@ "f_post" :> Use("var", "postr") \o Use("var", "postx") \o Use("var", "posty")
      @@ "f_measure" :> Use("var", "meax"), <<>>) ]

(* The items of Base in every order.                                        *)
Orders ==
  {[Base EXCEPT !.items = [i \in 1 .. 5 |-> it[i]]] :
     it \in Bijection(1 .. 5, {AdtItem("A"), AdtItem("B"), FnItem("f"),
                               FnItem("f_pre"), FnItem("g")})}

(* Every way two ADTs can mention each other, themselves and one of another *)
(* crate.                                                                   *)
Mentioned == {<<>>} \cup {<<a>> : a \in {"A", "B", "X"}} \cup {<<"A", "B">>, <<"X", "B">>}
Shapes ==
  {[Base EXCEPT !.items = <<AdtItem("A"), AdtItem("B"), FnItem("g")>>,
                !.types["A1x"] = s, !.types["A2x"] = t, !.types["B0"] = u,
                !.body["g"] = Use("adt", "B") \o Use("adt", "A") \o Use("var", "gx")] :
     s \in Mentioned, t \in {<<>>, <<"A">>}, u \in Mentioned}
  \cup
  {[Base EXCEPT !.items = <<FnItem("g"), AdtItem("A")>>,
                !.types["Xx"] = t, !.body["g"] = Use("adt", b) \o Use("type", "X")
                                                 \o Use("adt", "A") \o Use("adt", b)] :
     t \in {<<>>, <<"Y", "X">>}, b \in {"A", "X", "Y"}}
  \cup {[Base EXCEPT !.items = <<AdtItem("C"), AdtItem("A"), AdtItem("B")>>]}

(* Methods of a generic impl block with sibling spec functions, one of them *)
(* of a function that does not exist, and the order they come out in.       *)
Impls ==
  {[Base EXCEPT !.items = <<FnItem("g"), ImplItem(ms), AdtItem("A"), AdtItem("B"), FnItem("f")>>,
                !.body["m"] = Use("call", "n") \o Use("var", "mself"),
                !.body["n"] = Use("call", "m") \o Use("call", "e"),
                !.body["m_post"] = Use("var", "mpostr") \o Use("var", "mea2x"),
                !.spec_of["m_pre"] = IF p THEN "m" ELSE NoDef,
                !.body["m_pre"] = Use("var", "meax")] :
     p \in BOOLEAN, ms \in {{"m", "n", "m_pre", "m_post"}, {"m", "n", "m_pre"}, {"n", "m_post", "m"}}}

(* What is rejected with an error: an item of another kind, an unsupported  *)
(* expression, a mutable binding, two measures.  And what the extractor does not survive: a    *)
(* complex pattern as a parameter, spec functions nested in a method.       *)
Rejected ==
  { [Base EXCEPT !.items = Append(@, OtherItem)],
    [Base EXCEPT !.body["g"] = Use("unsupported", NoDef) \o @],
    [Base EXCEPT !.mutable = {"fy"}],
    [Base EXCEPT !.items = @ \o <<FnItem("f_measure2")>>],
    [Base EXCEPT !.complex = {"fx"}],
    [Base EXCEPT !.parent["f"] = "A"] }


(* A struct that mentions an ADT declared after it, and a function that     *)
(* constructs a value of an ADT of another crate twice.                     *)
MentionedCrates ==
  { [Base EXCEPT !.items = <<AdtItem("B"), AdtItem("A")>>],
    [Base EXCEPT !.items = <<FnItem("g")>>,
                 !.body["g"] = Use("adt", "X") \o Use("adt", "X")] }

(* A contract of an associated function, nested in it.                      *)
NestedCrates == {[Base EXCEPT !.items = <<AdtItem("A"), AdtItem("B"), ImplItem({"f"}),
                                          FnItem("f_pre"), FnItem("g")>>,
                              !.parent["f"] = "C"]}
MCCrates == {Base} \cup Shapes \cup Orders \cup Impls \cup Rejected
=============================================================================
