--------------------------- MODULE ContractMeaning --------------------------
(***************************************************************************)
(* What extraction promises of the meaning of functions and of their        *)
(* contracts: Contracts, with bodies extracted as in Bodies, and trees run  *)
(* as in BodyMeaning.                                                       *)
(***************************************************************************)
EXTENDS Contracts, BodyMeaning

CONSTANT
  Envs     \* environments to run bodies and contracts in

(* The parts of an extracted function; conditions are no conjunctions here. *)
PostPart(t) == IF t.kind = "Ensuring" THEN <<t.sub[1]>> ELSE <<>>
UnderPost(t) == IF t.kind = "Ensuring" THEN t.sub[2] ELSE t
PrePart(t) == IF UnderPost(t).kind = "Require" THEN <<UnderPost(t).sub[1]>> ELSE <<>>
UnderPre(t) == IF UnderPost(t).kind = "Require" THEN UnderPost(t).sub[2] ELSE UnderPost(t)
MeasurePart(t) == IF UnderPre(t).kind = "Decreases" THEN <<UnderPre(t).sub[1]>> ELSE <<>>
BodyPart(t) == IF UnderPre(t).kind = "Decreases" THEN UnderPre(t).sub[2] ELSE UnderPre(t)
Conjuncts(part) ==
  IF part = <<>> THEN <<>>
  ELSE IF part[1].kind = "And" THEN part[1].sub ELSE part

WrittenSpecs(item, mac) ==
  LET specs_ == SelectSeq(item.attrs, LAMBDA a : a.mac = mac)
  IN [i \in DOMAIN specs_ |-> specs_[i].expr]
AllMeanings(trees, env) == [i \in DOMAIN trees |-> Eval(trees[i], env)]
SameConditions(item, conditions, trees) ==
  \A env \in Envs :
    /\ ToBag(AllMeanings(conditions, env)) = ToBag(AllMeanings(trees, env))
    /\ item.kind = "fn" /\ (\A a \in ToSet(item.attrs) : a.form # "qualified") =>
         AllMeanings(conditions, env) = AllMeanings(trees, env)

(* The contract of a function means what is written at it; see MeaningKept. *)
ContractKept(k) ==
  LET item == written[k]
      tree == defs[k].tree
  IN /\ SameConditions(item, WrittenSpecs(item, "pre"), Conjuncts(PrePart(tree)))
     /\ SameConditions(item, WrittenSpecs(item, "post"), Conjuncts(PostPart(tree)))
     /\ SameConditions(item, WrittenSpecs(item, "measure"), MeasurePart(tree))

(* What is not an if expression, and is taken for one all the same.         *)
BoolMatch(n) ==
  /\ n.kind = "Match"
  /\ n.sub[1].type = "bool"
  /\ Len(n.sub) = 3
  /\ n.sub[2].sub[1].name = "true"
  /\ n.sub[3].sub[1].kind = "Wild"
Guardless(e) == \A n \in NodesOf(e) : BoolMatch(n) => n.sub[2].sub[2] = None
NoBlockIf(n) == BoolMatch(n) /\ StripScopes(n.sub[3].sub[3]).kind # "Block"
FloatMinus(n) == n.kind = "Unary" /\ n.type = "float"

(* In a program without errors every function is extracted with the         *)
(* contract that is written at it, none of it another function's, and each  *)
(* condition with its meaning. Conditions of a function have their order, in*)
(* which one may rely on another; those of methods come out of a hash map,  *)
(* and attributes with a qualified path are expanded later than others. The *)
(* body makes the calls that the function makes, in their order, and has its*)
(* value or panics where it does. Struct literals are taken to list fields  *)
(* in order, and matches on a Boolean to have no guards.                    *)
MeaningKept ==
  Accepted =>
    \A k \in Functions_ :
      /\ ContractKept(k)
      /\ InOrder(written[k].body) /\ Guardless(written[k].body) =>
           SameMeaning(written[k].body, BodyPart(defs[k].tree), Envs)

(* The fields of a struct literal are sorted, so calls among them change    *)
(* places; still the value is the same, and the calls are if none panics.   *)
ResultKept ==
  Accepted =>
    \A k \in Functions_ :
      Guardless(written[k].body) =>
        SameResult(written[k].body, BodyPart(defs[k].tree), Envs)

(* "Stainless requires matching bitvector types on all operations": the     *)
(* operands of an extracted operation have one type, and the operation the  *)
(* type it has in Rust.                                                     *)
BitVectorClasses ==
  {ArithmeticClass[op] : op \in DOMAIN ArithmeticClass} \cup
  {"BVShiftLeft", "BVAShiftRight", "BVLShiftRight"}
OperandsMatch ==
  Accepted =>
    \A k \in Functions_ :
      LET tree == BodyPart(defs[k].tree) IN
      /\ \A n \in NodesOf(tree) :
           n.kind \in BitVectorClasses =>
             n.sub[1].type = n.sub[2].type /\ n.type = n.sub[1].type
      /\ written[k].body.kind = "Binary" => tree.type = written[k].body.type

(* Extraction of a program that compiles ends in an assertion only for the  *)
(* two kinds of trees that it takes for others.                             *)
PanicsExplained ==
  "panic" \in errors =>
    \E k \in Functions_ : \E n \in NodesOf(written[k].body) :
      NoBlockIf(n) \/ FloatMinus(n)

(* The comment of looks_like_if: "Returns None if it is not an if           *)
(* expression". So a match with a guard stays one.                          *)
GuardsKept ==
  Accepted =>
    \A k \in Functions_ :
      InOrder(written[k].body) =>
        SameMeaning(written[k].body, BodyPart(defs[k].tree), Envs)
=============================================================================
