--------------------------- MODULE Serialization ---------------------------
(***************************************************************************)
(* The wire format (stainless_data/src/ser.rs, ser/serializable.rs and the  *)
(* Serializable impls of ast.rs and ast/generated.rs).                      *)
(*                                                                          *)
(* serialize() is a recursive descent that writes the header of a value (a  *)
(* marker, and a length or a primitive) and then the values it is made of.  *)
(* The recursion's stack is `todo': what is still to be serialized, the     *)
(* innermost call first. A step writes one header. The tree that is written *)
(* is made up on the way, so that all trees the bounds allow are covered.   *)
(*                                                                          *)
(* The back end is not in the repository. Its reader is the recursive       *)
(* descent that mirrors the writer: it knows the declared type of the value *)
(* that comes next, and of the wire only the bytes.                         *)
(***************************************************************************)
EXTENDS AstSchema, Integers, SequencesExt

CONSTANTS
  Roots,          \* what is sent: a class or an enum, a program ("Symbols"),
                  \*   or a sequence
  Classes,        \* the AST classes both ends know
  Fuel,           \* bound on the nesting of what is chosen freely
  Lengths,        \* lengths of sequences and maps
  RootLengths,    \* and of those that are no part of a tree
  Booleans,       \* the values of the primitive types, each the sequence
  Chars,          \*   of numbers its bytes stand for: <<0>> or <<1>>,
  Ints,           \*   <<code point>>, <<integer>>, <<integer>> and
  Strings,        \*   the bytes of a string
  BigInts,
  MaxWire         \* how many bytes the writer may be ahead of the reader

VARIABLES
  todo,       \* what is left to serialize
  inner,      \* the buffer Symbols::serialize fills, and what comes after it
  wire,       \* bytes written and not yet read
  expected,   \* what the reader still has to read, of the buffer it is in
  left,       \* bytes the reader has left in that buffer, -1 in none
  after,      \* what the reader has to read after it
  sent,       \* nodes written to the wire and not yet read
  got         \* the node read last

vars == <<todo, inner, wire, expected, left, after, sent, got>>

(* marker_ids and primitive_ids.                                            *)
OPTION == 1
SEQ == 2
MAP == 4
PRIMITIVE == 5
TUPLE == 6
SERIALIZATION_BUFFER == 7
PrimitiveId ==
  [Boolean |-> 0, Char |-> 1, Int |-> 4, String |-> 8, BigInt |-> 9]

Bytes == 0 .. 255
MaxInt == 2147483647

(* What a field may be declared as.                                         *)
Sorts == DOMAIN Schema \cup Enums \cup Primitives \cup {"Symbols"}
Kinds ==
  {kind \in [form : {"one", "option", "seq", "tuple", "map"}, of : Seq(Sorts)] :
     /\ kind.of # <<>>
     /\ kind.form = "map" => Len(kind.of) = 2}

(* The classes a field can hold, of those both ends know.                   *)
Candidates(sort) == IF sort \in Enums THEN ClassesOf(sort) \cap Classes
                                      ELSE ClassesOf(sort)

(* The markers tell the classes of a field apart; those that programs are   *)
(* made of are among the classes.                                           *)
ASSUME SchemaAssumption ==
  /\ {"FunDef", "ADTSort"} \subseteq DOMAIN Schema
  /\ \A class \in DOMAIN Schema :
       Schema[class] \in [marker : Nat, tuple : BOOLEAN, fields : Seq(Kinds)]
  /\ \A sort \in Enums :
       /\ ClassesOf(sort) \subseteq DOMAIN Schema
       /\ \A c, d \in Candidates(sort) :
            Schema[c].marker = Schema[d].marker => c = d

-----------------------------------------------------------------------------
(* Primitives: the bytes written for them, and the reader's decoding.       *)

Power256 == <<1, 256, 65536, 16777216>>

(* to_be_bytes of an integer of n bytes; a value that does not fit loses    *)
(* its high bits, as `as' casts do.                                         *)
BigEndian(v, n) == [i \in 1 .. n |-> (v \div Power256[n - i + 1]) % 256]

(* The reader's view of at most four big-endian bytes, without and with a   *)
(* sign.                                                                    *)
Digit(bytes, i) ==
  IF i <= Len(bytes) THEN bytes[Len(bytes) - i + 1] * Power256[i] ELSE 0
Unsigned(bytes) ==
  Digit(bytes, 1) + Digit(bytes, 2) + Digit(bytes, 3) + Digit(bytes, 4)
Signed(bytes) ==
  LET top == IF bytes[1] >= 128 THEN bytes[1] - 256 ELSE bytes[1]
  IN  top * Power256[Len(bytes)] + Unsigned(Tail(bytes))

(* Mutant: the sign's bit is not counted (to_bytes_be).                     *)
SignedBytesUnsigned(v) ==
  LET fits(n) == -(128 * Power256[n]) <= v /\ v < 256 * Power256[n]
      n == CHOOSE k \in 1 .. 3 : fits(k) /\ \A j \in 1 .. (k - 1) : ~fits(j)
  IN  BigEndian(v, n)

(* BigInt::to_signed_bytes_be: the shortest two's complement form.          *)
SignedBytes(v) ==
  LET fits(n) == -(128 * Power256[n]) <= v /\ v < 128 * Power256[n]
      n == CHOOSE k \in 1 .. 3 : fits(k) /\ \A j \in 1 .. (k - 1) : ~fits(j)
  IN  BigEndian(v, n)

(* What follows the primitive's id.                                         *)
Payload(type, value) ==
  CASE type = "Boolean" -> value
    [] type = "Char" -> BigEndian(value[1], 2)
    [] type = "Int" -> BigEndian(value[1], 4)
    [] type = "String" -> BigEndian(Len(value), 4) \o value
    [] type = "BigInt" ->
         LET bytes == SignedBytes(value[1])
         IN  BigEndian(Len(bytes), 4) \o bytes

PrimitiveBytes(type, value) ==
  <<PRIMITIVE, PrimitiveId[type]>> \o Payload(type, value)

(* write_length: one byte below 255, else 255 and an Int.                   *)
LengthBytes(n) ==
  IF n < 255 THEN <<n>> ELSE <<255>> \o PrimitiveBytes("Int", <<n>>)

-----------------------------------------------------------------------------
(* The stacks.                                                              *)

(* `count' values of one kind, made up with some fuel.                      *)
Task(kind, count, fuel) == [kind |-> kind, count |-> count, fuel |-> fuel]
Tasks(kinds, fuel) == [i \in DOMAIN kinds |-> Task(kinds[i], 1, fuel)]
Pop(stack) ==
  IF Head(stack).count > 1
    THEN <<[Head(stack) EXCEPT !.count = @ - 1]>> \o Tail(stack)
    ELSE Tail(stack)

(* What the reader finds in the buffer of Symbols.                          *)
Contents == [form |-> "contents", of |-> <<>>]

IsForm(stack, form) == stack # <<>> /\ Head(stack).kind.form = form
SortOf(stack) == Head(stack).kind.of[1]

(* What the elements of a sequence and the entries of a map are.            *)
Element(kind) ==
  IF Len(kind.of) = 1 THEN One(kind.of[1]) ELSE Tuple(kind.of)
Repeated(kind, n, fuel) ==
  IF n = 0 THEN <<>> ELSE <<Task(Element(kind), n, fuel)>>
Entries(kind, n, fuel) ==
  [i \in 1 .. 2 * n |-> Task(One(kind.of[IF i % 2 = 1 THEN 1 ELSE 2]), 1, fuel)]

(* A node as both ends see it: its class or constructor and its value.      *)
Item(node, value) == [node |-> node, value |-> value]

(* Symbols::serialize: the functions, then the sorts.                       *)
SymbolsFields == <<Vec("FunDef"), Vec("ADTSort")>>

(* What serialize() writes of a class before its fields.                    *)
Header(class) ==
  <<Schema[class].marker>> \o
  (IF Schema[class].tuple THEN <<TUPLE, Len(Schema[class].fields)>> ELSE <<>>)

-----------------------------------------------------------------------------
(* What the made-up tree may contain: with little fuel left a class without *)
(* structure is taken, and with none no sequence has elements. A buffer is  *)
(* kept as a whole, so primitives have one value in it.                     *)
Filler ==
  [Definition |-> "ValDef", Flag |-> "IsPure", Expr |-> "UnitLiteral",
   Type |-> "UnitType", Pattern |-> "WildcardPattern"]

(* The values Rust's types have, but for characters, which are written as   *)
(* 16 bits, big integers, which are kept to three bytes here, and strings,  *)
(* whose length is written as 32 bits.                                      *)
ASSUME ValuesAssumption ==
  /\ Roots \subseteq Kinds
  /\ \A sort \in Enums : Filler[sort] \in Candidates(sort)
  /\ Fuel \in Nat
  /\ Lengths \cup RootLengths \subseteq 0 .. MaxInt
  /\ Booleans # {} /\ Booleans \subseteq {<<0>>, <<1>>}
  /\ Chars # {}
  /\ \A c \in Chars : c = <<c[1]>> /\ c[1] \in Int /\ 0 <= c[1] /\ c[1] <= 65535
  /\ Ints # {}
  /\ \A i \in Ints :
       i = <<i[1]>> /\ i[1] \in Int /\ -MaxInt - 1 <= i[1] /\ i[1] <= MaxInt
  /\ Strings # {}
  /\ \A s \in Strings : s \in Seq(Bytes) /\ Len(s) <= MaxInt
  /\ BigInts # {}
  /\ \A i \in BigInts :
       i = <<i[1]>> /\ i[1] \in Int /\ -8388608 <= i[1] /\ i[1] <= 8388607

ClassChoices(sort, fuel) ==
  IF fuel >= 2 \/ sort \notin Enums THEN Candidates(sort) ELSE {Filler[sort]}
LengthChoices(fuel) ==
  IF fuel = Fuel THEN RootLengths ELSE IF fuel >= 1 THEN Lengths ELSE {0}
OptionChoices(fuel) == IF fuel >= 1 THEN {0, 1} ELSE {0}
Sample(values) ==
  IF inner.open THEN {CHOOSE v \in values : TRUE} ELSE values
ValueChoices(type) ==
  CASE type = "Boolean" -> Sample(Booleans)
    [] type = "Char" -> Sample(Chars)
    [] type = "Int" -> Sample(Ints)
    [] type = "String" -> Sample(Strings)
    [] type = "BigInt" -> Sample(BigInts)

(* The fuel of fields and elements.                                         *)
Less(fuel) == IF fuel = 0 THEN 0 ELSE fuel - 1

Closed == [open |-> FALSE, bytes |-> <<>>, items |-> <<>>, after |-> <<>>]

Init ==
  /\ \E kind \in Roots :
       /\ todo = <<Task(kind, 1, Fuel)>>
       /\ expected = <<Task(kind, 1, 0)>>
  /\ inner = Closed
  /\ wire = <<>>
  /\ left = -1
  /\ after = <<>>
  /\ sent = <<>>
  /\ got = Item("none", <<>>)

-----------------------------------------------------------------------------
(* The writer.                                                              *)

(* A header is written, to the buffer of Symbols if one is being filled,    *)
(* and `parts' is serialized next.                                          *)
Emit(item, bytes, parts) ==
  /\ todo' = parts \o Pop(todo)
  /\ \/ /\ inner.open
        /\ inner' = [inner EXCEPT !.bytes = @ \o bytes, !.items = Append(@, item)]
        /\ UNCHANGED <<wire, sent>>
     \/ /\ ~inner.open
        /\ wire = <<>> \/ Len(wire) + Len(bytes) <= MaxWire
        /\ wire' = wire \o bytes
        /\ sent' = Append(sent, item)
        /\ UNCHANGED inner
  /\ UNCHANGED <<expected, left, after, got>>

(* An AST class. write_marker panics at a marker that is not below 255.     *)
WriteClass ==
  /\ IsForm(todo, "one")
  /\ SortOf(todo) \notin Primitives \cup {"Symbols"}
  /\ \E class \in ClassChoices(SortOf(todo), Head(todo).fuel) :
       /\ Schema[class].marker < 255
       /\ Emit(Item(class, <<>>), Header(class),
               Tasks(Schema[class].fields, Less(Head(todo).fuel)))

WritePrimitive ==
  /\ IsForm(todo, "one")
  /\ SortOf(todo) \in Primitives
  /\ \E value \in ValueChoices(SortOf(todo)) :
       Emit(Item(SortOf(todo), value), PrimitiveBytes(SortOf(todo), value), <<>>)

WriteOption ==
  /\ IsForm(todo, "option")
  /\ \E n \in OptionChoices(Head(todo).fuel) :
       Emit(Item("option", <<n>>), <<OPTION, n>>,
            Repeated(Head(todo).kind, n, Less(Head(todo).fuel)))

(* Mutant: the first element is skipped.                                    *)
WriteSeqSkip ==
  /\ IsForm(todo, "seq")
  /\ \E n \in LengthChoices(Head(todo).fuel) :
       Emit(Item("seq", <<n>>), <<SEQ>> \o LengthBytes(n),
            Repeated(Head(todo).kind, IF n = 0 THEN 0 ELSE n - 1,
                     Less(Head(todo).fuel)))

WriteSeq ==
  /\ IsForm(todo, "seq")
  /\ \E n \in LengthChoices(Head(todo).fuel) :
       Emit(Item("seq", <<n>>), <<SEQ>> \o LengthBytes(n),
            Repeated(Head(todo).kind, n, Less(Head(todo).fuel)))

(* A map: the length, then each key followed by its value, in the order of  *)
(* the HashMap's iteration.                                                 *)
WriteMap ==
  /\ IsForm(todo, "map")
  /\ \E n \in LengthChoices(Head(todo).fuel) :
       Emit(Item("map", <<n>>), <<MAP>> \o LengthBytes(n),
            Entries(Head(todo).kind, n, Less(Head(todo).fuel)))

WriteTuple ==
  /\ IsForm(todo, "tuple")
  /\ LET kind == Head(todo).kind
     IN  Emit(Item("tuple", <<Len(kind.of)>>), <<TUPLE, Len(kind.of)>>,
              [i \in DOMAIN kind.of |-> Task(One(kind.of[i]), 1, Head(todo).fuel)])

(* Mutant: the sorts before the functions.                                  *)
WriteSymbolsSwapped ==
  /\ IsForm(todo, "one")
  /\ SortOf(todo) = "Symbols" /\ ~inner.open
  /\ inner' = [open |-> TRUE, bytes |-> <<TUPLE, 2>>,
               items |-> <<Item("tuple", <<2>>)>>, after |-> Pop(todo)]
  /\ todo' = Tasks(<<Vec("ADTSort"), Vec("FunDef")>>, Less(Head(todo).fuel))
  /\ UNCHANGED <<wire, expected, left, after, sent, got>>

(* Symbols::serialize writes the pair of its functions and its sorts to a   *)
(* buffer of its own,                                                       *)
WriteSymbols ==
  /\ IsForm(todo, "one")
  /\ SortOf(todo) = "Symbols" /\ ~inner.open
  /\ inner' = [open |-> TRUE, bytes |-> <<TUPLE, 2>>,
               items |-> <<Item("tuple", <<2>>)>>, after |-> Pop(todo)]
  /\ todo' = Tasks(SymbolsFields, Less(Head(todo).fuel))
  /\ UNCHANGED <<wire, expected, left, after, sent, got>>

(* and then the buffer as a whole, with its length. (The cast of a length   *)
(* above MaxInt is not modelled.)                                           *)
WriteBuffer ==
  /\ inner.open /\ todo = <<>>
  /\ LET n == Len(inner.bytes)
     IN  /\ n <= MaxInt
         /\ wire' = wire \o <<SERIALIZATION_BUFFER>>
                      \o PrimitiveBytes("Int", <<n>>) \o inner.bytes
         /\ sent' = sent \o <<Item("buffer", <<n>>)>> \o inner.items
  /\ inner' = Closed
  /\ todo' = inner.after
  /\ UNCHANGED <<expected, left, after, got>>

Write ==
  \/ WriteClass
  \/ WritePrimitive
  \/ WriteOption
  \/ WriteSeq
  \/ WriteMap
  \/ WriteTuple
  \/ WriteSymbols
  \/ WriteBuffer

-----------------------------------------------------------------------------
(* The reader.                                                              *)

(* A header of n bytes is read, and `parts' is read next.                   *)
Receive(item, n, parts) ==
  /\ left = -1 \/ n <= left
  /\ left' = IF left = -1 THEN -1 ELSE left - n
  /\ wire' = SubSeq(wire, n + 1, Len(wire))
  /\ expected' = parts \o Pop(expected)
  /\ got' = item
  /\ sent' = SubSeq(sent, 2, Len(sent))
  /\ UNCHANGED <<todo, inner, after>>

ReadClass ==
  /\ IsForm(expected, "one")
  /\ SortOf(expected) \notin Primitives \cup {"Symbols"}
  /\ \E class \in Candidates(SortOf(expected)) :
       /\ IsPrefix(Header(class), wire)
       /\ Receive(Item(class, <<>>), Len(Header(class)),
                  Tasks(Schema[class].fields, 0))

(* How many bytes the payload of a primitive has, given that its length is  *)
(* on the wire.                                                             *)
PayloadSize(type) ==
  CASE type = "Boolean" -> 1
    [] type = "Char" -> 2
    [] type = "Int" -> 4
    [] OTHER -> 4 + Unsigned(SubSeq(wire, 3, 6))

Decoded(type, payload) ==
  CASE type = "Boolean" -> payload
    [] type = "Char" -> <<Unsigned(payload)>>
    [] type = "Int" -> <<Signed(payload)>>
    [] type = "String" -> SubSeq(payload, 5, Len(payload))
    [] type = "BigInt" -> <<Signed(SubSeq(payload, 5, Len(payload)))>>

ReadPrimitive ==
  /\ IsForm(expected, "one")
  /\ SortOf(expected) \in Primitives
  /\ LET type == SortOf(expected)
     IN  /\ IsPrefix(<<PRIMITIVE, PrimitiveId[type]>>, wire)
         /\ type \in {"String", "BigInt"} => Len(wire) >= 6
         /\ LET size == PayloadSize(type)
            IN  /\ Len(wire) >= 2 + size
                /\ Receive(Item(type, Decoded(type, SubSeq(wire, 3, 2 + size))),
                           2 + size, <<>>)

ReadOption ==
  /\ IsForm(expected, "option")
  /\ \E n \in {0, 1} :
       /\ IsPrefix(<<OPTION, n>>, wire)
       /\ Receive(Item("option", <<n>>), 2, Repeated(Head(expected).kind, n, 0))

(* The lengths a marker on the wire is followed by (one or none), each with *)
(* the size of the header: a length has two forms.                          *)
LengthsRead(marker) ==
  IF IsPrefix(<<marker, 255, PRIMITIVE, PrimitiveId["Int"]>>, wire)
    THEN IF Len(wire) >= 8
           THEN {[n |-> Signed(SubSeq(wire, 5, 8)), size |-> 8]} ELSE {}
    ELSE {[n |-> n, size |-> 2] :
            n \in {b \in 0 .. 254 : IsPrefix(<<marker, b>>, wire)}}

ReadSeq ==
  /\ IsForm(expected, "seq")
  /\ \E header \in LengthsRead(SEQ) :
       Receive(Item("seq", <<header.n>>), header.size,
               Repeated(Head(expected).kind, header.n, 0))

ReadMap ==
  /\ IsForm(expected, "map")
  /\ \E header \in LengthsRead(MAP) :
       Receive(Item("map", <<header.n>>), header.size,
               Entries(Head(expected).kind, header.n, 0))

ReadTuple ==
  /\ IsForm(expected, "tuple")
  /\ LET kind == Head(expected).kind
     IN  /\ IsPrefix(<<TUPLE, Len(kind.of)>>, wire)
         /\ Receive(Item("tuple", <<Len(kind.of)>>), 2,
                    [i \in DOMAIN kind.of |-> Task(One(kind.of[i]), 1, 0)])

(* The buffer of Symbols: its length, its contents and, when they are read, *)
(* its end, which has to be where the length says.                          *)
ReadBuffer ==
  /\ IsForm(expected, "one")
  /\ SortOf(expected) = "Symbols" /\ left = -1
  /\ IsPrefix(<<SERIALIZATION_BUFFER, PRIMITIVE, PrimitiveId["Int"]>>, wire)
  /\ LET n == Signed(SubSeq(wire, 4, 7))
     IN  /\ left' = n
         /\ got' = Item("buffer", <<n>>)
  /\ wire' = SubSeq(wire, 8, Len(wire))
  /\ expected' = <<Task(Contents, 1, 0)>>
  /\ after' = Pop(expected)
  /\ sent' = SubSeq(sent, 2, Len(sent))
  /\ UNCHANGED <<todo, inner>>

ReadContents ==
  /\ IsForm(expected, "contents")
  /\ IsPrefix(<<TUPLE, 2>>, wire)
  /\ Receive(Item("tuple", <<2>>), 2, Tasks(SymbolsFields, 0))

ReadEnd ==
  /\ expected = <<>>
  /\ left = 0
  /\ left' = -1
  /\ expected' = after
  /\ after' = <<>>
  /\ UNCHANGED <<todo, inner, wire, sent, got>>

Read ==
  \/ ReadClass
  \/ ReadPrimitive
  \/ ReadOption
  \/ ReadSeq
  \/ ReadMap
  \/ ReadTuple
  \/ ReadBuffer
  \/ ReadContents
  \/ ReadEnd

Next == Write \/ Read

(* serialize() runs to its end, and so does the reader.                     *)
Spec == Init /\ [][Next]_vars /\ WF_vars(Write) /\ WF_vars(Read)

-----------------------------------------------------------------------------
(* The two descents meet: whenever the reader has read all bytes written,   *)
(* it expects exactly what the writer has left to serialize. A length that  *)
(* does not count what follows it, or a field only one end knows, breaks    *)
(* it, long before the bytes make no sense.                                 *)
Pending(stack) ==
  [i \in DOMAIN stack |-> Task(stack[i].kind, stack[i].count, 0)]
InStep ==
  wire = <<>> /\ ~inner.open => Pending(expected \o after) = Pending(todo)

(* The wire format delivers the nodes of the tree unchanged and in order.   *)
Channel == INSTANCE TreeChannel
Faithful == Channel!Spec

(* The reader gets to the end of every tree: it never comes to bytes it     *)
(* cannot make sense of, and no bytes are left over.                        *)
AllRead ==
  <>[](todo = <<>> /\ ~inner.open /\ expected = <<>> /\ left = -1 /\ wire = <<>>)
=============================================================================
