----------------------------- MODULE BodyMeaning ----------------------------
(***************************************************************************)
(* What bodies mean, before and after extraction. An expression is run in   *)
(* an environment: it calls functions, in an order, and ends with a value   *)
(* or panics. Functions of the program are opaque: the environment gives    *)
(* their results. Arithmetic is uninterpreted: the value of x + y is        *)
(* Plus(x, y). So two trees have the same meaning only if they do the same  *)
(* to the same operands whatever the arithmetic.                            *)
(*                                                                          *)
(* One operator, Eval, gives the meaning of source and of target trees.     *)
(***************************************************************************)
EXTENDS Bodies, Bags

(* A value: a constructor, an operation or a literal, and what it is of.    *)
Value(c, f) == [c |-> c, f |-> f]
True == Value("true", <<>>)
False == Value("false", <<>>)
Bool(b) == IF b THEN True ELSE False
UnitValue == Value("unit", <<>>)
Panic == Value("panic", <<>>)      \* not a value: evaluation ended here
Stuck == Value("stuck", <<>>)      \* the tree has no meaning
Ends(v) == v \in {Panic, Stuck}

Outcome(calls, value) == [calls |-> calls, value |-> value]
After(first, second) == [second EXCEPT !.calls = first.calls \o @]

(* The operators of Rust, in terms of the classes of Stainless.             *)
RustOp ==
  [Add |-> "Plus", Sub |-> "Minus", Mul |-> "Times", Div |-> "Division",
   Rem |-> "Remainder", BitXor |-> "BVXor", BitAnd |-> "BVAnd",
   BitOr |-> "BVOr", Eq |-> "Equals", Lt |-> "LessThan", Le |-> "LessEquals",
   Ge |-> "GreaterEquals", Gt |-> "GreaterThan", Shl |-> "BVShiftLeft"]

(* The library functions with a meaning of their own (libstainless/lib.rs). *)
SetFunction ==
  [s \in {"stainless::Set::add", "stainless::Set::difference",
          "stainless::Set::intersection", "stainless::Set::union",
          "stainless::Set::is_subset_of", "stainless::Set::empty",
          "stainless::Set::singleton"} |->
     CASE s = "stainless::Set::add" -> "SetAdd"
       [] s = "stainless::Set::difference" -> "SetDifference"
       [] s = "stainless::Set::intersection" -> "SetIntersection"
       [] s = "stainless::Set::union" -> "SetUnion"
       [] s = "stainless::Set::is_subset_of" -> "SubsetOf"
       [] OTHER -> "FiniteSet"]

Interpreted(op, args) ==
  CASE op = "Not" /\ args = <<True>> -> False
    [] op = "Not" /\ args = <<False>> -> True
    [] op = "NotEquals" -> Value("Not", <<Value("Equals", args)>>)
    [] OTHER -> Value(op, args)

(* A cast keeps a value if it does not shorten it; in the worst case for it *)
(* usize and isize, whose width is not known, are the longest type.         *)
Bits(type) ==
  LET width == [IntWidth EXCEPT !.isize = 64] @@ [UintWidth EXCEPT !.usize = 64]
  IN width[type]
Keeps(type1, type2) ==
  (type1 \in DOMAIN IntWidth <=> type2 \in DOMAIN IntWidth) /\ Bits(type1) <= Bits(type2)

(* The class whose meaning a unary or binary operator of Rust has.          *)
OperatorClass(e) ==
  CASE e.kind = "Unary" /\ e.name = "Not" ->
         IF e.type = "bool" THEN "Not" ELSE "BVNot"
    [] e.kind = "Unary" /\ e.name = "Neg" -> "UMinus"
    [] e.name = "Ne" -> "NotEquals"
    [] e.name = "Shr" ->
         IF e.type \in DOMAIN IntWidth THEN "BVAShiftRight" ELSE "BVLShiftRight"
    [] OTHER -> RustOp[e.name]

(* A field of a structure, counting from 1.                                 *)
Select(v, i) == IF i \in DOMAIN v.f THEN v.f[i] ELSE Stuck

-----------------------------------------------------------------------------
(* Patterns: whether a value matches, and what is bound.                    *)
RECURSIVE Matches(_, _), Bindings(_, _)

SubpatternsOf(p) ==
  CASE p.kind \in {"Variant", "Leaf"} ->
         {<<f.sub[1], f.index + 1>> : f \in ToSet(p.sub)}
    [] p.kind \in {"ADTPattern", "TuplePattern"} ->
         {<<p.sub[i], i - 1>> : i \in 2 .. Len(p.sub)}
    [] OTHER -> {}

Matches(p, v) ==
  CASE p.kind \in {"Constant", "LiteralPattern"} -> v.c = p.name
    [] p.kind \in {"Deref", "AscribeUserType", "Binding"} ->
         \A i \in DOMAIN p.sub : Matches(p.sub[i], v)
    [] p.kind \in {"Variant", "Leaf", "ADTPattern", "TuplePattern"} ->
         /\ v.c = p.name
         /\ \A s \in SubpatternsOf(p) : Matches(s[1], Select(v, s[2]))
    [] OTHER -> TRUE

BoundName(p) ==
  CASE p.kind \in {"Binding", "WildcardPattern"} -> p.name
    [] p.kind \in {"ADTPattern", "TuplePattern", "LiteralPattern"} ->
         p.sub[1].name
    [] OTHER -> ""

Bindings(p, v) ==
  {<<BoundName(p), v>>} \cup
  UNION ({Bindings(s[1], Select(v, s[2])) : s \in SubpatternsOf(p)} \cup
         {Bindings(s, v) : s \in IF p.kind \in {"Deref", "AscribeUserType", "Binding"}
                                 THEN ToSet(p.sub) ELSE {}})

(* The environment with the variables of a pattern; a name bound twice      *)
(* would be an error in either language.                                    *)
Bound(env, bindings) ==
  LET names == {b[1] : b \in bindings} \ {""}
  IN [x \in DOMAIN env \cup names |->
        IF x \in names THEN (CHOOSE b \in bindings : b[1] = x)[2] ELSE env[x]]

-----------------------------------------------------------------------------
RECURSIVE Eval(_, _), EvalAll(_, _), EvalArms(_, _, _), EvalStmts(_, _)
RECURSIVE EvalLogical(_, _, _)

(* Left to right; the values as a list.                                     *)
EvalAll(es, env) ==
  IF es = <<>> THEN Outcome(<<>>, Value("list", <<>>))
  ELSE LET first == Eval(Head(es), env) IN
       IF Ends(first.value) THEN first
       ELSE LET rest == EvalAll(Tail(es), env) IN
            IF Ends(rest.value) THEN After(first, rest)
            ELSE After(first, Outcome(rest.calls,
                         Value("list", <<first.value>> \o rest.value.f)))

(* And and Or stop at the first operand that decides.                       *)
EvalLogical(es, decisive, env) ==
  LET first == Eval(Head(es), env) IN
  IF Ends(first.value) \/ first.value = decisive \/ Len(es) = 1 THEN first
  ELSE After(first, EvalLogical(Tail(es), decisive, env))

(* Arms and cases: the first that matches and whose guard is true.          *)
EvalArms(arms, v, env) ==
  IF arms = <<>> THEN Outcome(<<>>, Stuck)
  ELSE LET arm == Head(arms)
           inner == Bound(env, Bindings(arm.sub[1], v))
           guard == IF arm.sub[2] = None THEN Outcome(<<>>, True)
                    ELSE Eval(arm.sub[2], inner)
       IN IF ~Matches(arm.sub[1], v) THEN EvalArms(Tail(arms), v, env)
          ELSE IF Ends(guard.value) THEN guard
          ELSE After(guard, IF guard.value = True THEN Eval(arm.sub[3], inner)
                            ELSE EvalArms(Tail(arms), v, env))

(* The statements of a Rust block, and its expression.                      *)
EvalStmts(stmts, env) ==
  LET stmt == Head(stmts) IN
  CASE stmt = None -> Outcome(<<>>, UnitValue)
    [] stmt.kind = "LetStmt" /\ stmt.sub[2] = None -> EvalStmts(Tail(stmts), env)
    [] stmt.kind \in {"LetStmt", "ExprStmt"} ->
         LET init == Eval(Last(stmt.sub), env)
             inner == IF stmt.kind = "LetStmt"
                      THEN Bound(env, Bindings(stmt.sub[1], init.value))
                      ELSE env
         IN IF Ends(init.value) THEN init
            ELSE After(init, EvalStmts(Tail(stmts), inner))
    [] OTHER -> Eval(stmt, env)

(* Applied to the values of the parts, once all are known.                  *)
Apply(e, values, env) ==
  CASE e.kind \in {"Unary", "Binary"} ->
         Outcome(<<>>, Interpreted(OperatorClass(e), values))
    [] e.kind = "Field" -> Outcome(<<>>, Select(values[1], e.index + 1))
    [] e.kind = "TupleSelect" -> Outcome(<<>>, Select(values[1], e.index))
    [] e.kind = "ADTSelector" -> Outcome(<<>>, Select(values[1], e.index + 1))
    [] e.kind = "Tuple" /\ values = <<>> -> Outcome(<<>>, UnitValue)
    [] e.kind \in {"Tuple", "ADT"} -> Outcome(<<>>, Value(e.name, values))
    [] e.kind = "Adt" ->
         Outcome(<<>>, Value(e.name, [i \in DOMAIN values |->
           values[CHOOSE j \in DOMAIN values : e.sub[j].index = i - 1]]))
    [] e.kind = "Call" /\ e.name = "std::panicking::begin_panic" ->
         Outcome(<<>>, Panic)
    [] e.kind = "Call" /\ e.name = "std::boxed::Box::<T>::new" ->
         Outcome(<<>>, values[1])
    [] e.kind = "Call" /\ e.name \in DOMAIN SetFunction ->
         Outcome(<<>>, Value(SetFunction[e.name], values))
    [] e.kind \in {"Call", "FunctionInvocation"} ->
         Outcome(<<[fn |-> e.name, args |-> values]>>,
                 IF e.name \in DOMAIN env THEN env[e.name] ELSE UnitValue)
    [] e.kind = "BVWideningCast" /\ Keeps(e.sub[1].type, e.type) ->
         Outcome(<<>>, values[1])
    [] e.kind = "StBlock" -> Outcome(<<>>, Last(values))
    [] OTHER -> Outcome(<<>>, Interpreted(e.kind, values))

Eval(e, env) ==
  CASE e.kind = "Literal" -> Outcome(<<>>, Value(e.name, <<>>))
    [] e.kind \in {"VarRef", "Variable"} ->
         Outcome(<<>>, IF e.name \in DOMAIN env THEN env[e.name] ELSE Stuck)
    [] e.kind = "Error" -> Outcome(<<>>, Panic)
    [] e.kind \in {"None", "NoTree"} -> Outcome(<<>>, Stuck)
    [] e.kind \in {"Scope", "Transparent"} -> Eval(e.sub[1], env)
    [] e.kind \in {"LogicalOp", "And", "Or"} ->
         EvalLogical(e.sub, Bool("Or" \in {e.kind, e.name}), env)
    [] e.kind = "Block" -> EvalStmts(e.sub, env)
    [] e.kind = "Let" ->
         LET init == Eval(e.sub[1], env) IN
         IF Ends(init.value) THEN init
         ELSE After(init, Eval(e.sub[2], Bound(env, {<<e.name, init.value>>})))
    [] e.kind = "IfExpr" ->
         LET cond == Eval(e.sub[1], env) IN
         CASE cond.value = True -> After(cond, Eval(e.sub[2], env))
           [] cond.value = False -> After(cond, Eval(e.sub[3], env))
           [] OTHER -> cond
    [] e.kind \in {"Match", "MatchExpr"} ->
         LET scrutinee == Eval(e.sub[1], env) IN
         IF Ends(scrutinee.value) THEN scrutinee
         ELSE After(scrutinee, EvalArms(Tail(e.sub), scrutinee.value, env))
    [] OTHER ->
         LET parts == EvalAll(IF e.kind = "Adt"
                              THEN [i \in DOMAIN e.sub |-> e.sub[i].sub[1]]
                              ELSE e.sub, env)
         IN IF Ends(parts.value) THEN parts
            ELSE After(parts, Apply(e, parts.value.f, env))

-----------------------------------------------------------------------------
RECURSIVE NodesOf(_)
NodesOf(t) == {t} \cup UNION {NodesOf(t.sub[i]) : i \in DOMAIN t.sub}

(* Struct literals that list their fields as they were declared.            *)
InOrder(e) ==
  \A n \in NodesOf(e) :
    n.kind = "Adt" => \A i \in DOMAIN n.sub : n.sub[i].index = i - 1

SameMeaning(source, tree, envs) ==
  \A env \in envs : Eval(source, env) = Eval(tree, env)

(* The same up to the order of calls, all of them if it does not panic.     *)
SameResult(source, tree, envs) ==
  \A env \in envs :
    LET before == Eval(source, env)
        after == Eval(tree, env)
    IN /\ before.value = after.value
       /\ before.value # Panic =>
            ToBag(before.calls) = ToBag(after.calls)
=============================================================================
