---------------------------- MODULE GeneratedCode ----------------------------
(***************************************************************************)
(* From instructions to code, one segment at a time: what the generator    *)
(* emits for the instructions of one struct and of one method.             *)
(*                                                                         *)
(* A name in the code is a sequence of words, so that names which run      *)
(* together when they are joined are one name here too.  A statement has   *)
(* the kind of the text template it is rendered with and what that text    *)
(* refers to; literals, imports and layout are left out.                   *)
(***************************************************************************)
EXTENDS Instructions

CONSTANT Words   \* the words of a name, where it is not one word

ASSUME WordsAssumption == Words \in [DOMAIN Words -> Seq(STRING)]

exported(name) ==
  IF name = "" THEN <<"X">>
  ELSE IF name \in DOMAIN Words THEN Words[name] ELSE <<name>>

-----------------------------------------------------------------------------
(* Types.                                                                  *)

Signed   == {"Int32", "Int64", "Timestamp"}
Unsigned == {"UInt32", "UInt64", "Enum", "Set", "Boolean"}
Strings  == {"ASCIIString", "UnicodeString"}
NoType   == <<>>

goType(f) ==
  CASE f.type \in {"Int32", "Int64"}                  -> <<"int64">>
    [] f.type \in {"UInt32", "UInt64", "Enum", "Set"} -> <<"uint64">>
    [] f.type = "Boolean"    -> <<"bool">>
    [] f.type = "Decimal"    -> <<"Decimal">>
    [] f.type \in Strings    -> <<"string">>
    [] f.type = "ByteVector" -> <<"[]byte">>
    [] f.type = "Timestamp"  -> <<"time.Time">>
    [] OTHER                 -> NoType

slotType(f) ==
  CASE f.type \in Signed    -> "IntSlot"
    [] f.type \in Unsigned  -> "UintSlot"
    [] f.type = "Decimal"   -> "DecimalSlot"
    [] OTHER                -> "BytesSlot"

IsField(in)    == in.kind = "field"
IsBitGroup(in) == IsField(in) /\ in.type = "BitGroup"
IsScalar(in)   == IsField(in) /\ in.type # "BitGroup"
IsEnum(f)      == f.type \in {"Enum", "Set"}

enumTypeName(f, struct) ==
  IF f.typeName # "" THEN exported(f.typeName) ELSE struct \o exported(f.name)

\* The instructions of a segment that ask for the enum type of this name.
Asking(name, struct, instrs) ==
  {i \in DOMAIN instrs : /\ IsScalar(instrs[i]) /\ IsEnum(instrs[i])
                         /\ enumTypeName(instrs[i], struct) = name}

EnumNames(struct, instrs) ==
  {enumTypeName(instrs[i], struct) :
     i \in {j \in DOMAIN instrs : IsScalar(instrs[j]) /\ IsEnum(instrs[j])}}

\* A type is emitted with the members of the first field that asks for it.
Registered(enums, struct, instrs) ==
  [name \in DOMAIN enums \cup EnumNames(struct, instrs) |->
     IF name \in DOMAIN enums THEN enums[name]
     ELSE instrs[Min(Asking(name, struct, instrs))].elements]

goFieldType(f, struct) == IF IsEnum(f) THEN enumTypeName(f, struct) ELSE goType(f)

-----------------------------------------------------------------------------
(* Structs.                                                                *)

ElemName(prefix, s) == prefix \o exported(s.name) \o <<"Elem">>

\* The struct and the method of a nested segment.
NestedName(prefix, in) ==
  IF in.kind = "sequence" THEN ElemName(prefix, in) ELSE prefix \o exported(in.name)

StructField(name, type, optional) ==
  [name |-> name, type |-> type, optional |-> optional]

\* The fields of a bit group are fields of the struct around it.
structFields(name, in) ==
  CASE IsBitGroup(in) ->
         {StructField(exported(in.bitFields[i].name), goType(in.bitFields[i]), FALSE) :
            i \in DOMAIN in.bitFields}
    [] IsScalar(in) ->
         {StructField(exported(in.name), goFieldType(in, name), in.optional)}
    [] in.kind = "sequence" ->
         {StructField(exported(in.name), <<"[]">> \o NestedName(name, in), FALSE)}
    [] in.kind = "group" ->
         {StructField(exported(in.name), NestedName(name, in), in.optional)}
    [] OTHER -> {}

\* What stops the generator at an instruction: a field without a Go type is
\* refused, the fields of a nil pointer cannot be read.
StructFault(name, in) ==
  IF in.kind = "nil" THEN "panicked"
  ELSE IF \E f \in structFields(name, in) : f.type = NoType THEN "refused"
  ELSE "none"

-----------------------------------------------------------------------------
(* Presence maps and flags.                                                *)

opUsesPMAPBit(op, optional) ==
  \/ op \in {"Default", "Copy", "Increment", "Tail"}
  \/ op = "Constant" /\ optional

\* Mutant: the operators of the parts of a decimal are not looked at.
fieldUsesPMAPBit_Whole(f) == opUsesPMAPBit(f.op.kind, f.optional)

fieldUsesPMAPBit(f) ==
  IF HasParts(f)
  THEN \/ f.exponent # Nothing /\ opUsesPMAPBit(f.exponent.kind, f.optional)
       \/ f.mantissa # Nothing /\ opUsesPMAPBit(f.mantissa.kind, FALSE)
  ELSE opUsesPMAPBit(f.op.kind, f.optional)

UsesPMAPBit(in) ==
  \/ IsField(in) /\ fieldUsesPMAPBit(in)
  \/ in.kind = "group" /\ in.optional
  \/ in.kind = "sequence" /\ opUsesPMAPBit(in.length.op.kind, in.optional)

segmentNeedsPMAP(instrs) == \E i \in DOMAIN instrs : UsesPMAPBit(instrs[i])

\* Mutant: the flag of an optional bit group is cleared too.
optionalHasFields_BitGroups(instrs) ==
  {exported(instrs[i].name) :
     i \in {j \in DOMAIN instrs : instrs[j].kind \in {"field", "group"} /\ instrs[j].optional}}

\* The fields whose Has flags a method clears first.
optionalHasFields(instrs) ==
  {exported(instrs[i].name) :
     i \in {j \in DOMAIN instrs :
              (IsScalar(instrs[j]) \/ instrs[j].kind = "group") /\ instrs[j].optional}}

-----------------------------------------------------------------------------
(* Statements.  The code for an instruction is its statement, with the     *)
(* slots and the buffers that the decoder gets for it; or it is an error.  *)

Code(st, slots, pmaps) ==
  [kind |-> "code", st |-> st, slots |-> slots, pmaps |-> pmaps]

Statement(kind, field, type, optional) ==
  [kind |-> kind, field |-> field, type |-> type, optional |-> optional,
   calls |-> <<>>, slots |-> {}, buf |-> Nothing, method |-> <<>>, bits |-> <<>>]

Slot(path, type)  == [name |-> path, type |-> type]
Buffer(for, path) == [kind |-> for, name |-> path]

\* The operator a decode call is for: an integer has no tail.
uintDecodeCall(op) == IF op = "Tail" THEN "None" ELSE op
intDecodeCall(op)  == IF op = "Tail" THEN "None" ELSE op

\* Initial values that cannot be converted.
BadInt(op)     == op.hasInitial /\ ~IsInteger(op.initial)
BadUint(op)    == op.hasInitial /\ ~(IsInteger(op.initial) /\ op.initial[1] >= 0)
BadDecimal(op) == op.hasInitial /\ op.initial = <<>>

BadInitial(f) ==
  CASE f.type \in Unsigned  -> f.type # "Boolean" /\ BadUint(f.op)
    [] f.type = "Decimal"   -> BadDecimal(f.op)
    [] OTHER                -> BadInt(f.op)

\* What the text assigns: v itself, or v converted.
Assigned(kind, f, prefix) ==
  CASE kind = "fieldInt"  -> IF f.type = "Timestamp" THEN <<"time.Time">> ELSE <<"int64">>
    [] kind = "fieldUint" -> IF f.type = "Boolean" THEN <<"bool">>
                             ELSE IF IsEnum(f) THEN enumTypeName(f, prefix)
                             ELSE <<"uint64">>
    [] kind \in {"fieldDecimal", "fieldDecimalDelta"} -> <<"Decimal">>
    [] kind \in {"fieldBytes", "fieldBytesDelta", "fieldBytesTail"} ->
         IF f.type = "ByteVector" THEN <<"[]byte">> ELSE <<"string">>

\* One field, one slot, one call.
SlotStep(prefix, f, kind, op) ==
  LET slot == prefix \o exported(f.name)
  IN  Code([Statement(kind, exported(f.name), Assigned(kind, f, prefix), f.optional)
              EXCEPT !.calls = <<op>>, !.slots = {slot}],
           {Slot(slot, slotType(f))}, {})

\* A constant has a value, and no slot.
ConstantStep(prefix, f, kind) ==
  IF ~f.op.hasInitial THEN Error
  ELSE Code(Statement("fieldConstant", exported(f.name),
                      Assigned(kind, f, prefix), f.optional), {}, {})

\* An absent operator of a part is none; a bad initial value is as none at all.
opIntParts(op) == IF op = Nothing THEN "None" ELSE op.kind

decimalIndividualStep(prefix, f) ==
  LET path  == prefix \o exported(f.name)
      paths == {path \o <<"Exp">>, path \o <<"Mant">>}
      calls == <<intDecodeCall(opIntParts(f.exponent)), intDecodeCall(opIntParts(f.mantissa))>>
  IN  Code([Statement("fieldDecimalIndividual", exported(f.name), <<"Decimal">>, f.optional)
              EXCEPT !.calls = calls, !.slots = paths],
           {Slot(p, "IntSlot") : p \in paths}, {})

\* The template that renders a number, by the type of the field.
NumberKind(f) ==
  CASE f.type \in Signed    -> "fieldInt"
    [] f.type \in Unsigned  -> "fieldUint"
    [] f.type = "Decimal"   -> IF f.op.kind = "Delta" THEN "fieldDecimalDelta" ELSE "fieldDecimal"

numberStep(prefix, f, op) ==
  IF BadInitial(f) THEN Error
  ELSE IF f.op.kind = "Constant" THEN ConstantStep(prefix, f, NumberKind(f))
  ELSE SlotStep(prefix, f, NumberKind(f), op)

\* The constant byte vector goes the way of the other operators.
bytesFieldStep(prefix, f) ==
  LET op == f.op.kind
  IN  CASE op = "Constant" /\ f.type # "ByteVector" -> ConstantStep(prefix, f, "fieldBytes")
        [] op = "Delta" -> SlotStep(prefix, f, "fieldBytesDelta", op)
        [] op = "Tail"  -> IF f.type # "ASCIIString" THEN Error
                           ELSE SlotStep(prefix, f, "fieldBytesTail", op)
        [] OTHER        -> SlotStep(prefix, f, "fieldBytes", op)

bitsForCount(n) == CHOOSE w \in 1 .. n + 1 : 2 ^ w >= n /\ (w = 1 \/ 2 ^ (w - 1) < n)

bitFieldWidth(f) ==
  IF f.width > 0 THEN f.width
  ELSE CASE f.type = "Boolean" -> 1
         [] f.type = "Enum"    -> bitsForCount(Len(f.elements))
         [] f.type = "Set"     -> Len(f.elements)
         [] OTHER              -> 0

bitFieldType(f) ==
  CASE f.type \in {"Int32", "Int64"} -> <<"int64">>
    [] f.type = "Boolean"            -> <<"bool">>
    [] OTHER                         -> <<"uint64">>

bitGroupStep(prefix, f) ==
  LET buf == Buffer("bg", prefix \o exported(f.name))
      bad(bf)  == bf.optional \/ bitFieldWidth(bf) <= 0
      line(bf) == [field |-> exported(bf.name), width |-> bitFieldWidth(bf),
                   type |-> bitFieldType(bf)]
  IN  IF f.op.kind # "None" \/ \E i \in DOMAIN f.bitFields : bad(f.bitFields[i])
      THEN Error
      ELSE Code([Statement("bitgroup", <<>>, NoType, FALSE) EXCEPT
                   !.buf = buf,
                   !.bits = [i \in DOMAIN f.bitFields |-> line(f.bitFields[i])]],
                {}, {buf})

fieldStep(prefix, f) ==
  CASE f.type \in Signed   -> numberStep(prefix, f, intDecodeCall(f.op.kind))
    [] f.type \in Unsigned -> numberStep(prefix, f, uintDecodeCall(f.op.kind))
    [] f.type = "Decimal"  -> IF f.op.kind # "Constant" /\ HasParts(f)
                              THEN decimalIndividualStep(prefix, f)
                              ELSE numberStep(prefix, f, f.op.kind)
    [] f.type \in Strings \cup {"ByteVector"} -> bytesFieldStep(prefix, f)
    [] f.type = "BitGroup" -> bitGroupStep(prefix, f)
    [] OTHER               -> Error

groupStep(prefix, g) ==
  Code([Statement("group", exported(g.name), NestedName(prefix, g), g.optional)
          EXCEPT !.method = NestedName(prefix, g)], {}, {})

\* A constant length is converted as unsigned, any other as signed.
sequenceStep(prefix, s) ==
  LET elem == ElemName(prefix, s)
      slot == prefix \o exported(s.name) \o <<"Len">>
      op   == s.length.op
      rendered(kind) == [Statement(kind, exported(s.name), <<"[]">> \o elem, s.optional)
                           EXCEPT !.method = elem]
  IN  IF op.kind = "Constant"
      THEN IF BadUint(op) \/ ~op.hasInitial THEN Error
           ELSE Code(rendered("sequenceConstant"), {}, {})
      ELSE IF BadInt(op) THEN Error
           ELSE Code([rendered("sequence") EXCEPT !.slots = {slot},
                                                  !.calls = <<uintDecodeCall(op.kind)>>],
                     {Slot(slot, slotType(s.length))}, {})

\* A reference that is left is dynamic, or its target is in no file.
step(prefix, in) ==
  CASE IsField(in)          -> fieldStep(prefix, in)
    [] in.kind = "group"    -> groupStep(prefix, in)
    [] in.kind = "sequence" -> sequenceStep(prefix, in)
    [] OTHER                -> Error

-----------------------------------------------------------------------------
(* The constants of the enum types; a name that is taken has its value put *)
(* on it.                                                                  *)

enumConstants(type, elements) ==
  LET name(i) == type \o exported(elements[i].label)
  IN  [i \in DOMAIN elements |->
         [name  |-> IF \E j \in 1 .. i - 1 : name(j) = name(i)
                    THEN Append(name(i), ToString(elements[i].value)) ELSE name(i),
          value |-> elements[i].value]]

buildEnumViews(enums) ==
  [type \in DOMAIN enums |-> enumConstants(type, enums[type])]
=============================================================================
