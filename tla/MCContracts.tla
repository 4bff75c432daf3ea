----------------------------- MODULE MCContracts ----------------------------
(***************************************************************************)
(* Contracts over small programs. Most have one function without            *)
(* attributes and one of many bodies, put together from calls of two        *)
(* Boolean functions and of panic!; in the others the body is a single call *)
(* and the attributes vary.                                                 *)
(***************************************************************************)
EXTENDS ContractMeaning

(* begin_panic is defined twice in std: by path it is the language item.    *)
MCDefinitions ==
  LET D(path, last) == [path |-> path, last |-> last]
  IN [std |-> <<D("std::panicking::begin_panic", "begin_panic"),
                D("std::boxed::Box::<T>::new", "new"),
                D("std::panicking::begin_panic_fmt", "begin_panic_fmt")>>,
      stainless |->
        <<D("stainless::Set", "Set"), D("stainless::Set::empty", "empty"),
          D("stainless::Set::singleton", "singleton"),
          D("stainless::Set::add", "add"),
          D("stainless::Set::union", "union"),
          D("stainless::Set::intersection", "intersection"),
          D("stainless::Set::difference", "difference"),
          D("stainless::Set::is_subset_of", "is_subset_of"),
          D("stainless::Other::add", "add")>>]
MCLangItemDefs ==
  [FnTrait |-> "std::ops::Fn", FnMutTrait |-> "std::ops::FnMut",
   FnOnceTrait |-> "std::ops::FnOnce", SizedTrait |-> "std::marker::Sized",
   BeginPanicFn |-> "std::panicking::begin_panic"]

(* struct Pair(bool, bool); enum Shape { Dot, Span(bool, bool) }            *)
MCSorts == [Pair |-> <<"Pair">>, Shape |-> <<"Dot", "Span">>]
MCFieldCount == [Pair |-> 2, Dot |-> 0, Span |-> 2, tuple |-> 2]

-----------------------------------------------------------------------------
(* Source trees.                                                            *)
Var(x, type) == Node("VarRef", x, 0, type, <<>>)
Lit(name, type) == Node("Literal", name, 0, type, <<>>)
Call(fn, type, args) == Node("Call", fn, 0, type, args)
Wrap(kind, e) == Node(kind, "", 0, e.type, <<e>>)
Fails(type) ==
  Node("Transparent", "", 0, type,
       <<Call("std::panicking::begin_panic", "never", <<Lit("m", "str")>>)>>)
F == Call("f", "bool", <<>>)
G == Call("g", "bool", <<>>)
BlockOf(stmts, final) ==
  Node("Block", "", 0, IF final = None THEN "unit" ELSE final.type,
       Append(stmts, final))
Do(e) == Node("ExprStmt", "", 0, "", <<e>>)
Let(p, init) == Node("LetStmt", "", 0, "", <<p, init>>)
Arm(p, guard, body) == Node("Arm", "", 0, "", <<p, guard, body>>)
MatchOf(scrutinee, arms) ==
  Node("Match", "", 0, arms[1].sub[3].type, <<scrutinee>> \o arms)
Literally(ctor, type, fields) ==
  Node("Adt", ctor, 0, type,
       [i \in DOMAIN fields |->
          Node("FieldExpr", "", fields[i][1], "", <<fields[i][2]>>)])
Anything == Node("Wild", "", 0, "", <<>>)
Is(name) == Node("Constant", name, 0, "bool", <<>>)
Binding(x, mode, sub) == Node("Binding", x, 0, mode, sub)
Named(x) == Binding(x, "by_value", <<>>)
Fields(kind, ctor, type, fields) ==
  Node(kind, ctor, 0, type,
       [i \in DOMAIN fields |->
          Node("FieldPat", "", fields[i][1], "", <<fields[i][2]>>)])

Atoms == {F, Var("b", "bool"), Fails("bool")}
Rejected == {Wrap("UnsafeBlock", F), Call("", "bool", <<F>>),
             Call("std::panicking::begin_panic_fmt", "bool", <<Lit("m", "str")>>)}

(* Operators, on operands of all types and shifts also of two.              *)
IntTypes == DOMAIN IntWidth \cup DOMAIN UintWidth
Operations ==
  {Node("Binary", op, 0, t, <<Var(t, t), Var(t, t)>>) :
     op \in DOMAIN ArithmeticClass, t \in IntTypes \cup {"bool", "float"}} \cup
  {Node("Binary", op, 0, "bool", <<Var(t, t), Var(t, t)>>) :
     op \in DOMAIN ComparisonClass \cup {"Eq", "Ne"},
     t \in IntTypes \cup {"bool", "char"}} \cup
  {Node("Binary", op, 0, t, <<Var(t, t), Var(u, u)>>) :
     op \in {"Shl", "Shr"}, t \in IntTypes, u \in IntTypes} \cup
  {Node("Unary", "Not", 0, t, <<Var(t, t)>>) : t \in IntTypes \cup {"bool"}} \cup
  {Node("Unary", "Neg", 0, t, <<Var(t, t)>>) : t \in DOMAIN IntWidth \cup {"float"}} \cup
  {Node("LogicalOp", op, 0, "bool",
        <<x, Node("LogicalOp", op2, 0, "bool", <<y, G>>)>>) :
     op \in {"And", "Or"}, op2 \in {"And", "Or"}, x \in Atoms, y \in Atoms}

(* if, with and without else, else if, and else with a diverging block.     *)
Ifs ==
  {MatchOf(Wrap("Transparent", c),
           <<Arm(Is("true"), None, Wrap("Scope", BlockOf(<<>>, t))),
             Arm(Anything, None, Wrap("Scope", e))>>) :
     c \in Atoms, t \in Atoms,
     e \in {BlockOf(<<>>, x) : x \in Atoms \cup Rejected} \cup
           {BlockOf(<<Do(G)>>, Var("b", "bool")),
            Wrap("Transparent", BlockOf(<<Do(Fails("never"))>>, None)),
            MatchOf(G, <<Arm(Is("true"), None, BlockOf(<<>>, F)),
                         Arm(Anything, None, BlockOf(<<>>, G))>>)}} \cup
  {MatchOf(c, <<Arm(Is("true"), None, BlockOf(<<Do(t)>>, None)),
                Arm(Anything, None, BlockOf(<<>>, None))>>) : c \in Atoms, t \in Atoms}

(* match on a Boolean, written by the user.                                 *)
BoolMatches ==
  {MatchOf(c, <<Arm(Is(first), guard, BlockOf(<<>>, F)),
                Arm(second, None, e)>>) :
     c \in Atoms, first \in {"true", "false"}, guard \in {None, G},
     second \in {Anything, Named("y")}, e \in {G, BlockOf(<<>>, G)}} \cup
  {MatchOf(c, <<Arm(Is("true"), None, F), Arm(Is("false"), None, G)>>) : c \in Atoms} \cup
  {MatchOf(c, <<Arm(Is("true"), G, F), Arm(Is("true"), None, G), Arm(Anything, None, F)>>) :
     c \in Atoms}

(* Patterns of a Span or a Pair: fields in either order, or skipped.        *)
SubPatterns(x) ==
  {Named(x), Is("true"), Anything, Node("Deref", "", 0, "", <<Is("false")>>),
   Binding(x, "by_mut_ref", <<>>), Node("Range", "", 0, "", <<>>)}
FieldLists ==
  {<<>>} \cup
  {<<<<i, p>>>> : i \in 0 .. 1, p \in SubPatterns("y")} \cup
  {<<<<i, p>>, <<1 - i, q>>>> :
     i \in 0 .. 1, p \in SubPatterns("y"), q \in SubPatterns("z")}
Uses(fields) ==
  {Var(x, "bool") : x \in {fields[i][2].name : i \in DOMAIN fields} \cap {"y", "z"}}
PatternMatches ==
  UNION {{MatchOf(Var("s", "Shape"),
                  <<Arm(Fields("Variant", "Span", "Shape", fs), guard, body),
                    Arm(Anything, None, G)>>) :
            guard \in {None, G} \cup Uses(fs), body \in {F} \cup Uses(fs)} :
         fs \in FieldLists} \cup
  UNION {{MatchOf(Var(v[1], v[2]),
                  <<Arm(Fields("Leaf", v[3], v[2], fs), None, body), Arm(Anything, None, G)>>) :
            v \in {<<"p", "Pair", "Pair">>, <<"t", "tuple", "tuple">>},
            body \in {F} \cup Uses(fs)} : fs \in FieldLists} \cup
  {MatchOf(Var("s", "Shape"),
           <<Arm(Binding("w", mode, <<Fields("Variant", ctor, "Shape", <<>>)>>), None,
                 MatchOf(Var("w", "Shape"),
                         <<Arm(Fields("Variant", "Dot", "Shape", <<>>), None, F),
                           Arm(Named("v"), None, G)>>)),
             Arm(Anything, None, G)>>) :
     mode \in {"by_value", "by_ref", "mut"}, ctor \in {"Dot", "Span"}}

(* Construction, in the order of the fields or not, and selection.          *)
Constructions ==
  {Literally("Pair", "Pair", <<<<i, x>>, <<1 - i, y>>>>) :
     i \in 0 .. 1, x \in Atoms \cup Rejected, y \in Atoms \cup {G}} \cup
  {Node("Field", "", i, "bool", <<e>>) :
     i \in 0 .. 1,
     e \in {Var("p", "Pair"), Var("t", "tuple"),
            Literally("Pair", "Pair", <<<<1, F>>, <<0, G>>>>),
            Node("Tuple", "tuple", 0, "tuple", <<F, G>>)}} \cup
  {Node("Tuple", "tuple", 0, "tuple", xs) : xs \in {<<>>, <<F>>, <<F, G>>, <<G, Fails("bool")>>}} \cup
  {Call("std::boxed::Box::<T>::new", "bool", <<x>>) : x \in Atoms} \cup
  {Call("stainless::Set::" \o op, "Set", <<Var("set", "Set"), x>>) :
     op \in {"add", "difference", "intersection", "union", "is_subset_of"}, x \in Atoms} \cup
  {Call("stainless::Set::empty", "Set", <<>>), Call("stainless::Set::singleton", "Set", <<F>>),
   Call("stainless::Other::add", "Set", <<Var("set", "Set"), F>>)} \cup
  Rejected

(* Blocks of up to three statements; the ith may bind x and i.              *)
X(i) == IF i = 1 THEN "x1" ELSE IF i = 2 THEN "x2" ELSE "x3"
Statements(i) ==
  {Do(F), Do(G), Do(Fails("never")), Let(Named(X(i)), F), Let(Named(X(i)), G),
   Let(Node("AscribeUserType", "", 0, "", <<Named(X(i))>>), Var("b", "bool")),
   Let(Anything, F), Let(Binding(X(i), "mut", <<>>), F), Let(Named(X(i)), None)}
StatementLists ==
  {<<>>} \cup {<<s>> : s \in Statements(1)} \cup
  {<<s, t>> : s \in Statements(1), t \in Statements(2)} \cup
  {<<s, t, u>> : s \in Statements(1), t \in Statements(2), u \in Statements(3)}
BoundBy(stmts) ==
  {Var(X(i), "bool") : i \in {j \in DOMAIN stmts :
     stmts[j].kind = "LetStmt" /\ stmts[j].sub[1] # Anything /\ stmts[j].sub[2] # None}}
Blocks_ ==
  UNION {{BlockOf(stmts, final) : final \in {None, F} \cup BoundBy(stmts)} :
         stmts \in StatementLists}

(* The one inside the other.                                                *)
Nested ==
  UNION {{BlockOf(<<Let(Named("x1"), e), Do(G)>>, Var("x1", "bool")),
          BlockOf(<<Do(F), Do(e)>>, G),
          MatchOf(F, <<Arm(Is("true"), None, BlockOf(<<>>, e)),
                       Arm(Anything, None, BlockOf(<<Do(G)>>, e))>>),
          MatchOf(e, <<Arm(Is("false"), G, F), Arm(Named("x1"), None, Var("x1", "bool"))>>)} :
         e \in {i \in Ifs : i.type = "bool"} \cup BoolMatches}

(* A function without attributes.                                           *)
Plain(body) ==
  [name |-> <<"h">>, kind |-> "fn", slots |-> <<>>, comma |-> FALSE,
   attrs |-> <<>>, body |-> body]
BodyPrograms ==
  {<<Plain(body)>> : body \in Operations \cup Ifs \cup BoolMatches \cup PatternMatches \cup
                             Constructions \cup Blocks_ \cup Nested}

-----------------------------------------------------------------------------
(* Attributes.                                                              *)
SpecAttr(mac, form, expr) ==
  [mac |-> mac, form |-> form, expr |-> expr, delim |-> "delimited", tokens |-> <<>>]
FlagAttr(mac, form, delim, tokens) ==
  [mac |-> mac, form |-> form, expr |-> None, delim |-> delim, tokens |-> tokens]

(* The condition of the ith attribute.                                      *)
Condition(i) == IF i = 1 THEN F ELSE IF i = 2 THEN G ELSE Var("b", "bool")
SpecAttrs(i) ==
  {SpecAttr(mac, form, Condition(i)) :
     mac \in {"pre", "post", "measure"}, form \in {"bare", "qualified"}}
FlagAttrs ==
  {FlagAttr("pure", "bare", "empty", <<>>),
   FlagAttr("var", "bare", "delimited", <<"x">>),
   FlagAttr("mutable", "inert", "delimited", <<"0", ",", "fn">>),
   FlagAttr("unknown", "inert", "empty", <<>>),
   FlagAttr("law", "inert", "other", <<>>),
   FlagAttr("var", "qualified", "delimited", <<"fn", "?", "x">>)}
Attrs(i) == SpecAttrs(i) \cup FlagAttrs
AttrLists ==
  {<<>>} \cup {<<a>> : a \in Attrs(1) \cup {SpecAttr("pre", "bare", None)}} \cup
  {<<a, b>> : a \in Attrs(1), b \in Attrs(2)} \cup
  {<<a, b, c>> : a \in Attrs(1), b \in Attrs(2), c \in SpecAttrs(3)}

Item(name, kind, slots, attrs) ==
  [name |-> name, kind |-> kind, slots |-> slots, comma |-> FALSE,
   attrs |-> attrs, body |-> Call("body", "bool", <<>>)]

(* Functions of every attribute list; and with fewer, parameters of other   *)
(* names, a last comma, and neighbours whose names a spec function or the   *)
(* parser of names might be mistaken about.                                 *)
Few == {as \in AttrLists : Len(as) <= 1} \cup
       {<<SpecAttr("pre", "bare", F), SpecAttr("post", "bare", G)>>,
        <<SpecAttr("pre", "bare", F), FlagAttr("pure", "bare", "empty", <<>>)>>}
AttrPrograms ==
  {<<Item(<<"f">>, kind, <<"x">>, as)>> : kind \in {"fn", "method"}, as \in AttrLists} \cup
  {<<[Item(<<"f">>, "fn", slots, as) EXCEPT !.comma = comma]>> :
     slots \in {<<>>, <<"x", "ret">>, <<"y", "x">>}, comma \in BOOLEAN, as \in Few} \cup
  {<<Item(<<"t">>, "adt", slots, as)>> :
     slots \in {<<>>, <<"x", "y">>, <<"0", "0">>}, as \in Few} \cup
  {<<Item(name1, kind1, <<"x">>, as), Item(name2, kind2, <<"y">>, bs)>> :
     name1 \in {<<"", "f">>, <<"f", "2">>},
     name2 \in {<<"f">>, <<"", "", "pre", "1", "f">>, <<"", "", "post", "", "f", "2">>},
     kind1 \in {"fn", "method"}, kind2 \in {"fn", "method"}, as \in Few, bs \in Few}

MCPrograms == BodyPrograms \cup AttrPrograms

(* Programs whose bodies are matches on a Boolean.                          *)
MCMatches == {<<Plain(body)>> : body \in Ifs \cup BoolMatches}

(* The bodies of these functions and of those generated for them.           *)
Items == UNION {Range(program) : program \in MCPrograms \cup MCMatches}
Specs_ == {a \in UNION {Range(item.attrs) : item \in Items} : a.mac \in SpecTypes}
FunctionBodies == {item.body : item \in Items} \cup {SpecBody(a) : a \in Specs_}
MCExtractBody == [body \in FunctionBodies |-> ExtractExpr(body)]

(* At most three attributes.                                                *)
MCNumerals == <<"1", "2", "3">>

-----------------------------------------------------------------------------
(* Every result of the functions, every value of b, and three values each   *)
(* of the structures.                                                       *)
Pairs_ == {<<True, False>>, <<False, True>>, <<True, True>>}
MCEnvs ==
  LET Structures(f) ==
        [x \in {"p", "t", "s"} |->
           CASE x = "p" -> Value("Pair", f)
             [] x = "t" -> Value("tuple", f)
             [] OTHER -> IF f = <<True, True>> THEN Value("Dot", <<>>) ELSE Value("Span", f)]
      Numbers == [x \in IntTypes \cup {"float", "char", "bool", "set"} |-> Value(x, <<>>)]
  IN {Structures(f) @@ Numbers @@ ("f" :> v[1] @@ "g" :> v[2] @@ "b" :> v[3]) :
        f \in Pairs_, v \in [1 .. 3 -> {True, False}]}
=============================================================================
