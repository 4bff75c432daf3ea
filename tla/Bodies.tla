------------------------------- MODULE Bodies -------------------------------
(***************************************************************************)
(* Extraction of bodies (stainless_extraction/src/expr.rs): the typed trees *)
(* of rustc (HAIR) become trees of Stainless.                               *)
(*                                                                          *)
(* Both are nodes of one shape. Source kinds are those of ExprKind,         *)
(* StmtKind and PatKind, target kinds the classes of stainless_data; a kind *)
(* with the same name in both means the same, except Block and Let: the     *)
(* statements of a source are LetStmt and ExprStmt, a Stainless block is    *)
(* StBlock. Uses, coercions of `!', dereferences and shared borrows, which  *)
(* extraction erases as it does a Scope, are the one kind Transparent. What *)
(* types and callees do to the identifier mapping is in Extraction; here a  *)
(* definition is its path and a variable its name, different for each       *)
(* binding as HirIds are.                                                   *)
(***************************************************************************)
EXTENDS SequencesExt, StdItems, TypedTrees

CONSTANTS
  Sorts,       \* [ADT -> Seq(constructors)]
  FieldCount   \* [constructors and "tuple" -> Nat]

-----------------------------------------------------------------------------
(* unsupported_expr, unsupported_pattern and the bail of a let; parts were  *)
(* extracted before.                                                        *)
Unsupported(tree, parts) ==
  [tree |-> tree,
   log |-> {"unsupported"} \cup Built(tree, parts).log]
Asserts == [tree |-> NoTree, log |-> {"panic"}]

-----------------------------------------------------------------------------
(* Types and operators.                                                     *)
IntWidth == [i8 |-> 8, i16 |-> 16, i32 |-> 32, isize |-> 0]
UintWidth == [u8 |-> 8, u16 |-> 16, u32 |-> 32, usize |-> 0]
IsBV(type) == type \in DOMAIN IntWidth \cup DOMAIN UintWidth

(* Literal::try_from; isize and usize have no bit_width.                    *)
LiteralTypes ==
  {"unit", "bool", "str"} \cup
  {t \in DOMAIN IntWidth : IntWidth[t] # 0} \cup
  {t \in DOMAIN UintWidth : UintWidth[t] # 0}

ArithmeticClass ==
  [Add |-> "Plus", Sub |-> "Minus", Mul |-> "Times", Div |-> "Division",
   Rem |-> "Remainder", BitXor |-> "BVXor", BitAnd |-> "BVAnd",
   BitOr |-> "BVOr"]
ComparisonClass ==
  [Lt |-> "LessThan", Le |-> "LessEquals", Ge |-> "GreaterEquals",
   Gt |-> "GreaterThan"]

UnaryClass(op, type) ==
  CASE op = "Not" /\ IsBV(type) -> "BVNot"
    [] op = "Not" /\ type = "bool" -> "Not"
    [] op = "Neg" /\ (IsBV(type) \/ type = "BigInt") -> "UMinus"
    [] OTHER -> "none"

(* extract_unary; another operand is `unexpected'.                          *)
ExtractUnary(e, arg) ==
  LET class == UnaryClass(e.name, e.sub[1].type) IN
  IF class = "none" THEN Asserts
  ELSE Built(Node(class, "", 0, e.type, <<arg.tree>>), <<arg>>)

(* The right operand is widened to a longer left one, of known widths.      *)
Adapts(width, type1, type2) ==
  /\ {type1, type2} \subseteq DOMAIN width
  /\ width[type1] # 0
  /\ width[type2] # 0
  /\ width[type1] > width[type2]

(* Mutant: it is left as it is.                                             *)
WidenedNot(tree, type) == tree

Widened(tree, type) == Node("BVWideningCast", "", 0, type, <<tree>>)

ShiftClass(op, type) ==
  CASE op = "Shl" -> "BVShiftLeft"
    [] op = "Shr" /\ type \in DOMAIN IntWidth -> "BVAShiftRight"
    [] OTHER -> "BVLShiftRight"

(* extract_shift                                                            *)
ExtractShift(e, lhs, rhs) ==
  LET type1 == e.sub[1].type
      type2 == e.sub[2].type
      Shift(amount) ==
        Built(Node(ShiftClass(e.name, type1), "", 0, e.type,
                   <<lhs.tree, amount>>), <<lhs, rhs>>)
  IN CASE type1 = type2 -> Shift(rhs.tree)
       [] Adapts(IntWidth, type1, type2) \/ Adapts(UintWidth, type1, type2) ->
            Shift(Widened(rhs.tree, type1))
       [] OTHER -> Unsupported(NoTree, <<lhs, rhs>>)

(* extract_binary                                                           *)
ExtractBinary(e, lhs, rhs) ==
  LET bv == IsBV(e.sub[1].type) /\ IsBV(e.sub[2].type)
      bool == e.sub[1].type = "bool" /\ e.sub[2].type = "bool"
      Class(class, type) == Node(class, "", 0, type, <<lhs.tree, rhs.tree>>)
      Make(tree) == Built(tree, <<lhs, rhs>>)
  IN CASE (bv \/ bool) /\ e.name = "Eq" -> Make(Class("Equals", "bool"))
       [] (bv \/ bool) /\ e.name = "Ne" ->
            Make(Node("Not", "", 0, "bool", <<Class("Equals", "bool")>>))
       [] bv /\ e.name \in DOMAIN ArithmeticClass ->
            Make(Class(ArithmeticClass[e.name], lhs.tree.type))
       [] bv /\ e.name \in DOMAIN ComparisonClass ->
            Make(Class(ComparisonClass[e.name], "bool"))
       [] bv /\ e.name \in {"Shl", "Shr"} -> ExtractShift(e, lhs, rhs)
       [] OTHER -> Unsupported(NoTree, <<lhs, rhs>>)

(* extract_logical_op                                                       *)
ExtractLogicalOp(e, parts) ==
  IF \A i \in DOMAIN e.sub : e.sub[i].type = "bool"
  THEN Built(Node(e.name, "", 0, "bool", Trees(parts)), parts)
  ELSE Asserts

(* extract_tuple                                                            *)
ExtractTuple(e, parts) ==
  CASE Len(e.sub) = 0 -> Built(UnitLiteral, <<>>)
    [] Len(e.sub) = 1 -> Unsupported(NoTree, <<>>)
    [] OTHER -> Built(Node("Tuple", "tuple", 0, e.type, Trees(parts)), parts)

(* extract_field; selectors of tuples count from 1.                         *)
ExtractField(e, lhs) ==
  LET type == e.sub[1].type
      Select(class, index) ==
        Built(Node(class, "", index, e.type, <<lhs.tree>>), <<lhs>>)
  IN CASE type = "tuple" -> Select("TupleSelect", e.index + 1)
       [] /\ type \in DOMAIN Sorts
          /\ Len(Sorts[type]) = 1
          /\ e.index < FieldCount[Sorts[type][1]] ->
            Select("ADTSelector", e.index)
       [] OTHER -> Asserts

-----------------------------------------------------------------------------
(* Calls.                                                                   *)
SetOps ==
  [SetAddFn |-> "SetAdd", SetDifferenceFn |-> "SetDifference",
   SetIntersectionFn |-> "SetIntersection", SetUnionFn |-> "SetUnion",
   SubsetOfFn |-> "SubsetOf"]

(* extract_set_op                                                           *)
ExtractSetOp(item, e, args) ==
  IF Len(args) < 2 THEN Asserts
  ELSE Built(Node(SetOps[item], "", 0, e.type, SubSeq(Trees(args), 1, 2)),
             args)

(* extract_panic, with keep_for_effects.                                    *)
ExtractPanic(e, args, is_fmt) ==
  CASE Len(e.sub) # 1 -> Asserts
    [] is_fmt -> Unsupported(NoTree, <<>>)
    [] OTHER -> Built(Node("StBlock", "", 0, "unit",
                           Append(Trees(args), Node("Error", "", 0, "unit", <<>>))),
                      args)

(* extract_call; a call through a value has no name.                        *)
ExtractCall(e, args) ==
  CASE e.name = "" -> Unsupported(NoTree, <<>>)
    [] e.name = "std::boxed::Box::<T>::new" -> Head(args)
    [] OTHER -> Built(Node("FunctionInvocation", e.name, 0, e.type,
                           Trees(args)), args)

(* extract_call_like, extract_set_creation                                  *)
ExtractCallLike(e, args) ==
  LET item == DefToItem(e.name) IN
  CASE item = "BeginPanicFn" -> ExtractPanic(e, args, FALSE)
    [] item = "BeginPanicFmtFn" -> ExtractPanic(e, args, TRUE)
    [] item \in {"SetEmptyFn", "SetSingletonFn"} ->
         Built(Node("FiniteSet", "", 0, e.type, Trees(args)), args)
    [] item \in DOMAIN SetOps -> ExtractSetOp(item, e, args)
    [] OTHER -> ExtractCall(e, args)

ByIndex(fields) ==
  SortSeq(fields, LAMBDA f, g : f.index < g.index)

(* Mutant: arguments stay in the order of the source.                       *)
ExtractAdtAsWritten(e, ctor, parts) ==
  Built(Node("ADT", ctor, 0, e.type, Trees(parts)), parts)

(* extract_adt_construction; e.sub are FieldExprs, parts their values.      *)
ExtractAdt(e, ctor, parts) ==
  LET sorted == ByIndex([i \in DOMAIN e.sub |->
                           [index |-> e.sub[i].index, tree |-> parts[i].tree]])
  IN Built(Node("ADT", ctor, 0, e.type, Trees(sorted)), parts)

-----------------------------------------------------------------------------
(* Bindings and patterns.                                                   *)

(* try_pattern_to_var: the variable, or "" if the pattern is rejected.      *)
RECURSIVE TryPatternToVar(_, _)
TryPatternToVar(p, allow_subpattern) ==
  CASE p.kind = "AscribeUserType" ->
         TryPatternToVar(p.sub[1], allow_subpattern)
    [] /\ p.kind = "Binding"
       /\ p.type \in {"by_value", "by_ref"}
       /\ p.sub = <<>> \/ allow_subpattern -> p.name
    [] OTHER -> ""

Wildcard(binder) == Node("WildcardPattern", binder, 0, "", <<>>)

(* The name of an ADTPattern is its constructor; its binder is a Bind node. *)
Bind(binder) == Node("Bind", binder, 0, "", <<>>)

RECURSIVE ExtractPattern(_, _)

(* extract_subpatterns: by field, wildcards for those not mentioned.        *)
ExtractSubpatterns(fields, count) ==
  [i \in 1 .. count |->
     IF \E f \in ToSet(fields) : f.index = i - 1
     THEN ExtractPattern((CHOOSE f \in ToSet(fields) :
                            f.index = i - 1).sub[1], "")
     ELSE Built(Wildcard(""), <<>>)]

(* extract_pattern, for a binder or none (""). A Leaf is a pattern for a    *)
(* tuple or for the only constructor of an ADT, a Variant for another.      *)
ExtractPattern(p, binder) ==
  LET Composite(class) ==
        LET parts == ExtractSubpatterns(p.sub, FieldCount[p.name])
        IN Built(Node(class, p.name, 0, "", <<Bind(binder)>> \o Trees(parts)),
                 parts)
  IN CASE p.kind = "Wild" -> Built(Wildcard(binder), <<>>)
       [] p.kind = "Binding" ->
            LET var == TryPatternToVar(p, TRUE) IN
            IF binder # "" THEN Asserts
            ELSE IF var = "" THEN Unsupported(Wildcard(""), <<>>)
            ELSE IF p.sub = <<>> THEN Built(Wildcard(var), <<>>)
            ELSE ExtractPattern(p.sub[1], var)
       [] p.kind = "Variant" -> Composite("ADTPattern")
       [] p.kind = "Leaf" /\ p.type \in DOMAIN Sorts ->
            IF Len(Sorts[p.type]) = 1 THEN Composite("ADTPattern") ELSE Asserts
       [] p.kind = "Leaf" /\ p.type = "tuple" -> Composite("TuplePattern")
       [] p.kind = "Constant" /\ p.type \in LiteralTypes ->
            Built(Node("LiteralPattern", p.name, 0, p.type, <<Bind(binder)>>),
                  <<>>)
       [] p.kind = "Deref" -> ExtractPattern(p.sub[1], binder)
       [] OTHER -> Unsupported(Wildcard(""), <<>>)

-----------------------------------------------------------------------------
(* Blocks and branches.                                                     *)

(* strip_scopes                                                             *)
RECURSIVE StripScopes(_)
StripScopes(e) == IF e.kind = "Scope" THEN StripScopes(e.sub[1]) ELSE e

IsTrue(p) == p.kind = "Constant" /\ p.name = "true"

(* Mutant: the second pattern is not looked at.                             *)
HasIfPatternsAny(scrutinee, arms) ==
  Len(arms) = 2 /\ scrutinee.type = "bool" /\ IsTrue(arms[1].sub[1])

(* looks_like_if: rustc turns `if' into a match on true and anything. Only  *)
(* the patterns and the type of the scrutinee are looked at. An Arm is its  *)
(* pattern, its guard or None, and its body.                                *)
HasIfPatterns(scrutinee, arms) ==
  /\ Len(arms) = 2
  /\ scrutinee.type = "bool"
  /\ IsTrue(arms[1].sub[1])
  /\ arms[2].sub[1].kind = "Wild"

(* "no", whether there is an else, or unreachable!() for a second body that *)
(* is no block.                                                             *)
LooksLikeIf(scrutinee, arms) ==
  LET elze == StripScopes(arms[2].sub[3]) IN
  CASE ~HasIfPatterns(scrutinee, arms) -> "no"
    [] elze.kind # "Block" -> "unreachable"
    [] elze.sub = <<None>> -> "if"
    [] OTHER -> "if_else"

Finish(exprs, final) ==
  IF exprs = <<>> THEN final
  ELSE Built(Node("StBlock", "", 0, final.tree.type,
                  Append(Trees(exprs), final.tree)), Append(exprs, final))

RECURSIVE ExtractExpr(_), ExtractBlock_(_, _, _)

(* extract_expr_refs                                                        *)
ExtractExprs(es) == [i \in DOMAIN es |-> ExtractExpr(es[i])]

(* extract_if                                                               *)
ExtractIf(e, arms, has_elze) ==
  LET parts == <<ExtractExpr(e.sub[1]), ExtractExpr(arms[1].sub[3]),
                 IF has_elze THEN ExtractExpr(arms[2].sub[3])
                 ELSE Built(UnitLiteral, <<>>)>>
  IN Built(Node("IfExpr", "", 0, e.type, Trees(parts)), parts)

(* extract_arm                                                              *)
ExtractArm(arm) ==
  LET parts == <<ExtractPattern(arm.sub[1], ""),
                 IF arm.sub[2] = None THEN Built(None, <<>>)
                 ELSE ExtractExpr(arm.sub[2]),
                 ExtractExpr(arm.sub[3])>>
  IN Built(Node("MatchCase", "", 0, "", Trees(parts)), parts)

(* extract_match                                                            *)
ExtractMatch(e, arms) ==
  LET parts == <<ExtractExpr(e.sub[1])>> \o
               [i \in DOMAIN arms |-> ExtractArm(arms[i])]
  IN Built(Node("MatchExpr", "", 0, e.type, Trees(parts)), parts)

(* ExprKind::Match in extract_expr                                          *)
ExtractMatchLike(e) ==
  LET arms == Tail(e.sub)
      shape == LooksLikeIf(e.sub[1], arms)
  IN CASE shape = "unreachable" -> Asserts
       [] shape = "no" -> ExtractMatch(e, arms)
       [] OTHER -> ExtractIf(e, arms, shape = "if_else")

(* Mutant: pending expressions stay pending across a let.                   *)
ExtractLetLate(stmts, acc, final) ==
  LET let == Head(stmts)
      var == TryPatternToVar(let.sub[1], FALSE)
      init == ExtractExpr(let.sub[2])
      body == ExtractBlock_(Tail(stmts), acc, final)
  IN IF var = "" \/ let.sub[2] = None
     THEN Unsupported(Node("StBlock", "", 0, "untyped",
                           Append(Trees(acc), NoTree)), Append(acc, final))
     ELSE Built(Node("Let", var, 0, body.tree.type, <<init.tree, body.tree>>),
                <<init, body>>)

(* StmtKind::Let in extract_block_: the expressions before it go into a     *)
(* block around it, the statements after it into its body. A let that is    *)
(* not supported ends the block, whose final expression has been extracted. *)
ExtractLet(stmts, acc, final) ==
  LET let == Head(stmts)
      var == TryPatternToVar(let.sub[1], FALSE)
      init == ExtractExpr(let.sub[2])
      body == ExtractBlock_(Tail(stmts), <<>>, final)
  IN IF var = "" \/ let.sub[2] = None
     THEN Unsupported(Node("StBlock", "", 0, "untyped",
                           Append(Trees(acc), NoTree)), Append(acc, final))
     ELSE Finish(acc, Built(Node("Let", var, 0, body.tree.type,
                                 <<init.tree, body.tree>>), <<init, body>>))

(* extract_block_                                                           *)
ExtractBlock_(stmts, acc, final) ==
  CASE stmts = <<>> -> Finish(acc, final)
    [] stmts # <<>> /\ Head(stmts).kind = "LetStmt" ->
         ExtractLet(stmts, acc, final)
    [] OTHER ->
         ExtractBlock_(Tail(stmts),
                       Append(acc, ExtractExpr(Head(stmts).sub[1])), final)

(* extract_block; the last part of a Block is its expression or None.       *)
ExtractBlock(e) ==
  LET final == Last(e.sub) IN
  ExtractBlock_(Front(e.sub), <<>>,
                IF final = None THEN Built(UnitLiteral, <<>>)
                ELSE ExtractExpr(final))

(* extract_expr                                                             *)
ExtractExpr(e) ==
  CASE e.kind = "Literal" /\ e.type \in LiteralTypes -> Built(e, <<>>)
    [] e.kind = "VarRef" -> Built(Node("Variable", e.name, 0, e.type, <<>>), <<>>)
    [] e.kind = "Unary" -> ExtractUnary(e, ExtractExpr(e.sub[1]))
    [] e.kind = "Binary" ->
         ExtractBinary(e, ExtractExpr(e.sub[1]), ExtractExpr(e.sub[2]))
    [] e.kind = "LogicalOp" -> ExtractLogicalOp(e, ExtractExprs(e.sub))
    [] e.kind = "Tuple" -> ExtractTuple(e, ExtractExprs(e.sub))
    [] e.kind = "Field" -> ExtractField(e, ExtractExpr(e.sub[1]))
    [] e.kind = "Call" -> ExtractCallLike(e, ExtractExprs(e.sub))
    [] e.kind = "Adt" ->
         ExtractAdt(e, e.name, [i \in DOMAIN e.sub |-> ExtractExpr(e.sub[i].sub[1])])
    [] e.kind = "Block" -> ExtractBlock(e)
    [] e.kind = "Match" -> ExtractMatchLike(e)
    [] e.kind \in {"Scope", "Transparent"} -> ExtractExpr(e.sub[1])
    [] OTHER -> Unsupported(NoTree, <<>>)
=============================================================================
