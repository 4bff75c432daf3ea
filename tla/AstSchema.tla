----------------------------- MODULE AstSchema -----------------------------
(***************************************************************************)
(* What each class of the Stainless AST is written as                       *)
(* (stainless_data/src/ast/generated.rs and ast.rs): the marker that opens  *)
(* it and the fields that follow, in the order serialize() writes them.     *)
(*                                                                          *)
(* Every struct of generated.rs implements Serializable in the same way: a  *)
(* marker, then its fields in the order of their declaration. The five      *)
(* structs ast.rs treats apart (ValDef, TypeParameterDef, BVLiteral,        *)
(* Identifier and SymbolIdentifier) are given here what ast.rs writes.      *)
(***************************************************************************)
EXTENDS Naturals, Sequences, TLC

(* What a field can be: `of' names a class, an enum of classes or a         *)
(* primitive; a pair of names is the pair of a tuple or of a map's entry.   *)
One(name) == [form |-> "one", of |-> <<name>>]
OptionOf(name) == [form |-> "option", of |-> <<name>>]
Vec(name) == [form |-> "seq", of |-> <<name>>]
VecOfTuple(names) == [form |-> "seq", of |-> names]
Tuple(names) == [form |-> "tuple", of |-> names]
MapOf(key, value) == [form |-> "map", of |-> <<key, value>>]

(* A class that writes its marker and its fields, and one that writes its   *)
(* marker and a tuple of fields.                                            *)
Node(marker, fields) == [marker |-> marker, tuple |-> FALSE, fields |-> fields]
TupleNode(marker, fields) == [marker |-> marker, tuple |-> TRUE, fields |-> fields]

(* ADTSort to FunDef. *)
DefinitionsFromADTSort ==
  [ADTSort |-> Node(96, <<
              One("SymbolIdentifier"), Vec("TypeParameterDef"),
              Vec("ADTConstructor"), Vec("Flag")>>),
   ClassDef |-> Node(222, <<
              One("SymbolIdentifier"), Vec("TypeParameterDef"),
              Vec("ClassType"), Vec("ValDef"), Vec("Flag")>>),
   FunDef |-> Node(98, <<
              One("SymbolIdentifier"), Vec("TypeParameterDef"), Vec("ValDef"),
              One("Type"), One("Expr"), Vec("Flag")>>)]

(* LocalClassDef to ValDef. *)
DefinitionsFromLocalClassDef ==
  [LocalClassDef |-> Node(233, <<
              One("SymbolIdentifier"), Vec("TypeParameterDef"), Vec("Type"),
              Vec("ValDef"), Vec("LocalMethodDef"), Vec("LocalTypeDef"),
              Vec("Flag")>>),
   LocalFunDef |-> Node(183, <<
              One("SymbolIdentifier"), Vec("TypeParameterDef"), Vec("ValDef"),
              One("Type"), One("Expr"), Vec("Flag")>>),
   LocalMethodDef |-> Node(234, <<
              One("SymbolIdentifier"), Vec("TypeParameterDef"), Vec("ValDef"),
              One("Type"), One("Expr"), Vec("Flag")>>),
   LocalTypeDef |-> Node(246, <<
              One("SymbolIdentifier"), Vec("TypeParameterDef"), One("Type"),
              Vec("Flag")>>),
   TypeDef |-> Node(244, <<
              One("SymbolIdentifier"), Vec("TypeParameterDef"), One("Type"),
              Vec("Flag")>>),
   TypeParameterDef |-> Node(95, <<One("TypeParameter")>>),
   ValDef |-> Node(94, <<One("Variable")>>)]

(* Annotation to IndexedAt. *)
FlagsFromAnnotation ==
  [Annotation |-> Node(93, <<One("String"), Vec("Expr")>>),
   Bounds |-> Node(226, <<One("Type"), One("Type")>>),
   Derived |-> Node(142, <<One("SymbolIdentifier")>>),
   Erasable |-> Node(155, <<>>),
   Extern |-> Node(139, <<>>),
   Final |-> Node(149, <<>>),
   Ghost |-> Node(147, <<>>),
   HasADTEquality |-> Node(92, <<One("SymbolIdentifier")>>),
   HasADTInvariant |-> Node(91, <<One("SymbolIdentifier")>>),
   Ignore |-> Node(218, <<>>),
   IndexedAt |-> Node(156, <<One("Expr")>>)]

(* Inline to IsSealed. *)
FlagsFromInline ==
  [Inline |-> Node(181, <<>>),
   InlineInvariant |-> Node(166, <<>>),
   InlineOnce |-> Node(228, <<>>),
   IsAbstract |-> Node(224, <<>>),
   IsAccessor |-> Node(231, <<OptionOf("SymbolIdentifier")>>),
   IsCaseObject |-> Node(229, <<>>),
   IsField |-> Node(143, <<One("Boolean")>>),
   IsInvariant |-> Node(223, <<>>),
   IsMethodOf |-> Node(217, <<One("SymbolIdentifier")>>),
   IsMutable |-> Node(199, <<>>),
   IsPure |-> Node(230, <<>>),
   IsSealed |-> Node(225, <<>>)]

(* IsUnapply to Wrapping. *)
FlagsFromIsUnapply ==
  [IsUnapply |-> Node(144, <<
              One("SymbolIdentifier"), One("SymbolIdentifier")>>),
   IsVar |-> Node(198, <<>>),
   Law |-> Node(150, <<>>),
   Library |-> Node(158, <<>>),
   Opaque |-> Node(140, <<>>),
   PartialEval |-> Node(146, <<>>),
   Private |-> Node(148, <<>>),
   Synthetic |-> Node(165, <<>>),
   Unchecked |-> Node(141, <<>>),
   ValueClass |-> Node(243, <<>>),
   Variance |-> Node(227, <<One("Boolean")>>),
   Wrapping |-> Node(159, <<>>)]

(* ADT to ArrayUpdate. *)
ExpressionsFromADT ==
  [ADT |-> Node(27, <<One("SymbolIdentifier"), Vec("Type"), Vec("Expr")>>),
   ADTSelector |-> Node(29, <<One("Expr"), One("SymbolIdentifier")>>),
   And |-> Node(31, <<Vec("Expr")>>),
   Annotated |-> Node(123, <<One("Expr"), Vec("Flag")>>),
   Application |-> Node(13, <<One("Expr"), Vec("Expr")>>),
   ApplyLetRec |-> Node(185, <<
              One("SymbolIdentifier"), Vec("TypeParameter"),
              One("FunctionType"), Vec("Type"), Vec("Expr")>>),
   ArrayLength |-> Node(137, <<One("Expr")>>),
   ArraySelect |-> Node(135, <<One("Expr"), One("Expr")>>),
   ArrayUpdate |-> Node(193, <<One("Expr"), One("Expr"), One("Expr")>>)]

(* ArrayUpdated to BVLiteral. *)
ExpressionsFromArrayUpdated ==
  [ArrayUpdated |-> Node(136, <<One("Expr"), One("Expr"), One("Expr")>>),
   AsInstanceOf |-> Node(203, <<One("Expr"), One("Type")>>),
   Assert |-> Node(125, <<One("Expr"), OptionOf("String"), One("Expr")>>),
   Assignment |-> Node(190, <<One("Variable"), One("Expr")>>),
   Assume |-> Node(10, <<One("Expr"), One("Expr")>>),
   BVAShiftRight |-> Node(53, <<One("Expr"), One("Expr")>>),
   BVAnd |-> Node(49, <<One("Expr"), One("Expr")>>),
   BVLShiftRight |-> Node(54, <<One("Expr"), One("Expr")>>),
   BVLiteral |-> TupleNode(20, <<One("Boolean"), One("BigInt"), One("Int")>>)]

(* BVNarrowingCast to BagIntersection. *)
ExpressionsFromBVNarrowingCast ==
  [BVNarrowingCast |-> Node(55, <<One("Expr"), One("BVType")>>),
   BVNot |-> Node(48, <<One("Expr")>>),
   BVOr |-> Node(50, <<One("Expr"), One("Expr")>>),
   BVShiftLeft |-> Node(52, <<One("Expr"), One("Expr")>>),
   BVWideningCast |-> Node(56, <<One("Expr"), One("BVType")>>),
   BVXor |-> Node(51, <<One("Expr"), One("Expr")>>),
   BagAdd |-> Node(67, <<One("Expr"), One("Expr")>>),
   BagDifference |-> Node(71, <<One("Expr"), One("Expr")>>),
   BagIntersection |-> Node(69, <<One("Expr"), One("Expr")>>)]

(* BagUnion to ClassConstructor. *)
ExpressionsFromBagUnion ==
  [BagUnion |-> Node(70, <<One("Expr"), One("Expr")>>),
   Block |-> Node(188, <<Vec("Expr"), One("Expr")>>),
   BoolBitwiseAnd |-> Node(195, <<One("Expr"), One("Expr")>>),
   BoolBitwiseOr |-> Node(196, <<One("Expr"), One("Expr")>>),
   BoolBitwiseXor |-> Node(197, <<One("Expr"), One("Expr")>>),
   BooleanLiteral |-> Node(23, <<One("Boolean")>>),
   CharLiteral |-> Node(19, <<One("Char")>>),
   Choose |-> Node(16, <<One("ValDef"), One("Expr")>>),
   ClassConstructor |-> Node(200, <<One("ClassType"), Vec("Expr")>>)]

(* ClassSelector to FiniteArray. *)
ExpressionsFromClassSelector ==
  [ClassSelector |-> Node(201, <<One("Expr"), One("SymbolIdentifier")>>),
   Decreases |-> Node(180, <<One("Expr"), One("Expr")>>),
   Division |-> Node(41, <<One("Expr"), One("Expr")>>),
   ElementOfSet |-> Node(61, <<One("Expr"), One("Expr")>>),
   Ensuring |-> Node(124, <<One("Expr"), One("Lambda")>>),
   Equals |-> Node(30, <<One("Expr"), One("Expr")>>),
   Error |-> Node(121, <<One("Type"), One("String")>>),
   FieldAssignment |-> Node(191, <<
              One("Expr"), One("SymbolIdentifier"), One("Expr")>>),
   FiniteArray |-> Node(133, <<Vec("Expr"), One("Type")>>)]

(* FiniteBag to GreaterThan. *)
ExpressionsFromFiniteBag ==
  [FiniteBag |-> Node(66, <<VecOfTuple(<<"Expr", "Expr">>), One("Type")>>),
   FiniteMap |-> Node(72, <<
              VecOfTuple(<<"Expr", "Expr">>), One("Expr"), One("Type"),
              One("Type")>>),
   FiniteSet |-> Node(59, <<Vec("Expr"), One("Type")>>),
   Forall |-> Node(15, <<Vec("ValDef"), One("Expr")>>),
   FractionLiteral |-> Node(22, <<One("BigInt"), One("BigInt")>>),
   FunctionInvocation |-> Node(17, <<
              One("SymbolIdentifier"), Vec("Type"), Vec("Expr")>>),
   GenericValue |-> Node(26, <<One("TypeParameter"), One("Int")>>),
   GreaterEquals |-> Node(47, <<One("Expr"), One("Expr")>>),
   GreaterThan |-> Node(45, <<One("Expr"), One("Expr")>>)]

(* IfExpr to LessThan. *)
ExpressionsFromIfExpr ==
  [IfExpr |-> Node(18, <<One("Expr"), One("Expr"), One("Expr")>>),
   Implies |-> Node(99, <<One("Expr"), One("Expr")>>),
   IntegerLiteral |-> Node(21, <<One("BigInt")>>),
   IsConstructor |-> Node(28, <<One("Expr"), One("SymbolIdentifier")>>),
   IsInstanceOf |-> Node(202, <<One("Expr"), One("Type")>>),
   Lambda |-> Node(14, <<Vec("ValDef"), One("Expr")>>),
   LargeArray |-> Node(134, <<
              MapOf("Int", "Expr"), One("Expr"), One("Expr"), One("Type")>>),
   LessEquals |-> Node(46, <<One("Expr"), One("Expr")>>),
   LessThan |-> Node(44, <<One("Expr"), One("Expr")>>)]

(* Let to LocalThis. *)
ExpressionsFromLet ==
  [Let |-> Node(12, <<One("ValDef"), One("Expr"), One("Expr")>>),
   LetClass |-> Node(232, <<Vec("LocalClassDef"), One("Expr")>>),
   LetRec |-> Node(184, <<Vec("LocalFunDef"), One("Expr")>>),
   LetVar |-> Node(189, <<One("ValDef"), One("Expr"), One("Expr")>>),
   LocalClassConstructor |-> Node(235, <<One("LocalClassType"), Vec("Expr")>>),
   LocalClassSelector |-> Node(241, <<
              One("Expr"), One("SymbolIdentifier"), One("Type")>>),
   LocalMethodInvocation |-> Node(240, <<
              One("Expr"), One("Variable"), Vec("TypeParameter"), Vec("Type"),
              Vec("Expr")>>),
   LocalThis |-> Node(242, <<One("LocalClassType")>>)]

(* MapApply to MutableMapApply. *)
ExpressionsFromMapApply ==
  [MapApply |-> Node(73, <<One("Expr"), One("Expr")>>),
   MapUpdated |-> Node(74, <<One("Expr"), One("Expr"), One("Expr")>>),
   MatchExpr |-> Node(126, <<One("Expr"), Vec("MatchCase")>>),
   Max |-> Node(160, <<Vec("Expr")>>),
   MethodInvocation |-> Node(216, <<
              One("Expr"), One("SymbolIdentifier"), Vec("Type"),
              Vec("Expr")>>),
   Minus |-> Node(38, <<One("Expr"), One("Expr")>>),
   Modulo |-> Node(43, <<One("Expr"), One("Expr")>>),
   MultiplicityInBag |-> Node(68, <<One("Expr"), One("Expr")>>),
   MutableMapApply |-> Node(234, <<One("Expr"), One("Expr")>>)]

(* MutableMapDuplicate to Passes. *)
ExpressionsFromMutableMapDuplicate ==
  [MutableMapDuplicate |-> Node(237, <<One("Expr")>>),
   MutableMapUpdate |-> Node(235, <<One("Expr"), One("Expr"), One("Expr")>>),
   MutableMapUpdated |-> Node(236, <<One("Expr"), One("Expr"), One("Expr")>>),
   MutableMapWithDefault |-> Node(233, <<
              One("Type"), One("Type"), One("Expr")>>),
   NoTree |-> Node(120, <<One("Type")>>),
   Not |-> Node(33, <<One("Expr")>>),
   Old |-> Node(194, <<One("Expr")>>),
   Or |-> Node(32, <<Vec("Expr")>>),
   Passes |-> Node(158, <<One("Expr"), One("Expr"), Vec("MatchCase")>>)]

(* Plus to Snapshot. *)
ExpressionsFromPlus ==
  [Plus |-> Node(37, <<One("Expr"), One("Expr")>>),
   Remainder |-> Node(42, <<One("Expr"), One("Expr")>>),
   Require |-> Node(122, <<One("Expr"), One("Expr")>>),
   SetAdd |-> Node(60, <<One("Expr"), One("Expr")>>),
   SetDifference |-> Node(65, <<One("Expr"), One("Expr")>>),
   SetIntersection |-> Node(63, <<One("Expr"), One("Expr")>>),
   SetUnion |-> Node(64, <<One("Expr"), One("Expr")>>),
   SizedADT |-> Node(154, <<
              One("SymbolIdentifier"), Vec("Type"), Vec("Expr"),
              One("Expr")>>),
   Snapshot |-> Node(239, <<One("Expr")>>)]

(* StringConcat to Times. *)
ExpressionsFromStringConcat ==
  [StringConcat |-> Node(34, <<One("Expr"), One("Expr")>>),
   StringLength |-> Node(36, <<One("Expr")>>),
   StringLiteral |-> Node(24, <<One("String")>>),
   SubString |-> Node(35, <<One("Expr"), One("Expr"), One("Expr")>>),
   SubsetOf |-> Node(62, <<One("Expr"), One("Expr")>>),
   Super |-> Node(215, <<One("ClassType")>>),
   This |-> Node(214, <<One("ClassType")>>),
   Throw |-> Node(212, <<One("Expr")>>),
   Throwing |-> Node(211, <<One("Expr"), One("Lambda")>>),
   Times |-> Node(40, <<One("Expr"), One("Expr")>>)]

(* Try to While. *)
ExpressionsFromTry ==
  [Try |-> Node(213, <<One("Expr"), Vec("MatchCase"), OptionOf("Expr")>>),
   Tuple |-> Node(57, <<Vec("Expr")>>),
   TupleSelect |-> Node(58, <<One("Expr"), One("Int")>>),
   UMinus |-> Node(39, <<One("Expr")>>),
   UnitLiteral |-> Node(25, <<>>),
   Variable |-> Node(11, <<
              One("SymbolIdentifier"), One("Type"), Vec("Flag")>>),
   While |-> Node(192, <<One("Expr"), One("Expr"), OptionOf("Expr")>>)]

(* ADTType to IntegerType. *)
TypesFromADTType ==
  [ADTType |-> Node(89, <<One("SymbolIdentifier"), Vec("Type")>>),
   AnnotatedType |-> Node(157, <<One("Type"), Vec("Flag")>>),
   AnyType |-> Node(207, <<>>),
   ArrayType |-> Node(138, <<One("Type")>>),
   BVType |-> Node(82, <<One("Boolean"), One("Int")>>),
   BagType |-> Node(86, <<One("Type")>>),
   BooleanType |-> Node(76, <<>>),
   CharType |-> Node(78, <<>>),
   ClassType |-> Node(206, <<One("SymbolIdentifier"), Vec("Type")>>),
   FunctionType |-> Node(88, <<Vec("Type"), One("Type")>>),
   IntegerType |-> Node(79, <<>>)]

(* LocalClassType to SetType. *)
TypesFromLocalClassType ==
  [LocalClassType |-> Node(236, <<
              One("SymbolIdentifier"), Vec("TypeParameterDef"), Vec("Type"),
              Vec("Type")>>),
   MapType |-> Node(87, <<One("Type"), One("Type")>>),
   MutableMapType |-> Node(232, <<One("Type"), One("Type")>>),
   NothingType |-> Node(208, <<>>),
   PiType |-> Node(101, <<Vec("ValDef"), One("Type")>>),
   RealType |-> Node(80, <<>>),
   RecursiveType |-> Node(152, <<
              One("SymbolIdentifier"), Vec("Type"), One("Expr")>>),
   RefinementType |-> Node(100, <<One("ValDef"), One("Expr")>>),
   SetType |-> Node(85, <<One("Type")>>)]

(* SigmaType to UnitType. *)
TypesFromSigmaType ==
  [SigmaType |-> Node(102, <<Vec("ValDef"), One("Type")>>),
   StringType |-> Node(81, <<>>),
   TupleType |-> Node(84, <<Vec("Type")>>),
   TypeApply |-> Node(238, <<One("TypeSelect"), Vec("Type")>>),
   TypeBounds |-> Node(209, <<One("Type"), One("Type"), Vec("Flag")>>),
   TypeParameter |-> Node(83, <<One("SymbolIdentifier"), Vec("Flag")>>),
   TypeSelect |-> Node(237, <<OptionOf("Expr"), One("SymbolIdentifier")>>),
   UnitType |-> Node(77, <<>>)]

(* UnknownType to ValueType. *)
TypesFromUnknownType ==
  [UnknownType |-> Node(245, <<One("Boolean")>>),
   Untyped |-> Node(75, <<>>),
   ValueType |-> Node(153, <<One("Type")>>)]

(* ADTPattern to WildcardPattern. *)
PatternsFromADTPattern ==
  [ADTPattern |-> Node(129, <<
              OptionOf("ValDef"), One("SymbolIdentifier"), Vec("Type"),
              Vec("Pattern")>>),
   ClassPattern |-> Node(204, <<
              OptionOf("ValDef"), One("ClassType"), Vec("Pattern")>>),
   InstanceOfPattern |-> Node(205, <<OptionOf("ValDef"), One("Type")>>),
   LiteralPattern |-> Node(131, <<OptionOf("ValDef"), One("Expr")>>),
   TuplePattern |-> Node(130, <<OptionOf("ValDef"), Vec("Pattern")>>),
   UnapplyPattern |-> Node(132, <<
              OptionOf("ValDef"), Vec("Expr"), One("SymbolIdentifier"),
              Vec("Type"), Vec("Pattern")>>),
   WildcardPattern |-> Node(128, <<OptionOf("ValDef")>>)]

(* ADTConstructor to ModuleDef. *)
OtherFromADTConstructor ==
  [ADTConstructor |-> Node(97, <<
              One("SymbolIdentifier"), One("SymbolIdentifier"),
              Vec("ValDef")>>),
   Identifier |-> TupleNode(90, <<One("String"), One("Int"), One("Int")>>),
   Import |-> Node(219, <<Vec("String"), One("Boolean")>>),
   Inner |-> Node(187, <<One("LocalFunDef")>>),
   MatchCase |-> Node(127, <<One("Pattern"), OptionOf("Expr"), One("Expr")>>),
   ModuleDef |-> Node(221, <<
              One("SymbolIdentifier"), Vec("Import"), Vec("SymbolIdentifier"),
              Vec("SymbolIdentifier"), Vec("SymbolIdentifier"),
              Vec("ModuleDef")>>)]

(* Outer to UnitDef. *)
OtherFromOuter ==
  [Outer |-> Node(186, <<One("FunDef")>>),
   SymbolIdentifier |-> TupleNode(145, <<
              One("Int"), One("Int"), Vec("String"), One("Int")>>),
   UnitDef |-> Node(220, <<
              One("SymbolIdentifier"), Vec("Import"), Vec("SymbolIdentifier"),
              Vec("ModuleDef"), One("Boolean")>>)]

(* The enums of generated.rs: each has the classes of its section.          *)
Definitions ==
  DefinitionsFromADTSort @@ DefinitionsFromLocalClassDef

Flags ==
  FlagsFromAnnotation @@ FlagsFromInline @@ FlagsFromIsUnapply

Expressions ==
  ExpressionsFromADT @@ ExpressionsFromArrayUpdated @@
  ExpressionsFromBVNarrowingCast @@ ExpressionsFromBagUnion @@
  ExpressionsFromClassSelector @@ ExpressionsFromFiniteBag @@
  ExpressionsFromIfExpr @@ ExpressionsFromLet @@ ExpressionsFromMapApply @@
  ExpressionsFromMutableMapDuplicate @@ ExpressionsFromPlus @@
  ExpressionsFromStringConcat @@ ExpressionsFromTry

Types ==
  TypesFromADTType @@ TypesFromLocalClassType @@ TypesFromSigmaType @@
  TypesFromUnknownType

Patterns ==
  PatternsFromADTPattern

OtherNodes ==
  OtherFromADTConstructor @@ OtherFromOuter

(* Every class.                                                             *)
Schema ==
  Definitions @@ Flags @@ Expressions @@ Types @@ Patterns @@ OtherNodes

Primitives == {"Boolean", "Char", "Int", "String", "BigInt"}
Enums == {"Definition", "Flag", "Expr", "Type", "Pattern"}

(* The classes a field declared as `sort' can hold.                         *)
ClassesOf(sort) ==
  CASE sort = "Definition" -> DOMAIN Definitions
    [] sort = "Flag" -> DOMAIN Flags
    [] sort = "Expr" -> DOMAIN Expressions
    [] sort = "Type" -> DOMAIN Types
    [] sort = "Pattern" -> DOMAIN Patterns
    [] OTHER -> {sort}
=============================================================================
