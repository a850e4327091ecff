--------------------------- MODULE GeneratorProofs ---------------------------
(***************************************************************************)
(* Theorems about Generator, for all templates that the parser may hand to *)
(* it and for all lists of words.                                          *)
(*                                                                         *)
(* What the parser does is an assumption of theirs, as weak as the proofs  *)
(* allow: until it is done it leaves the generator alone, and the bodies   *)
(* of its templates are sequences over a set of instructions that is       *)
(* Closed, each instruction one that IsInstruction.  Fastgen is the two    *)
(* together, and its TypeOK says that the parser keeps to this.            *)
(*                                                                         *)
(* The argument: for each instruction the statement of the method refers   *)
(* to what the struct declares (StepDeclared) and takes a bit exactly if   *)
(* the segment's map is counted on for it (StepBit).  What remains is that *)
(* both passes come to every segment.  A struct is rendered after those    *)
(* nested in it, a method before them, and so the stack of calls says what *)
(* is still owed (PassedInv, CalleesInv); when it is empty, nothing is.    *)
(***************************************************************************)
EXTENDS Generator, SequenceTheorems, WellFoundedInduction, TLAPS

(* A statement refers to what the struct of its segment declares.          *)

\* What a statement refers to is among the struct's fields for the instruction,
\* among the slots and buffers of its own code, or the nested method.
DeclaredFor(prefix, in, st, out) ==
  /\ st.kind # "bitgroup" =>
       \E f \in structFields(prefix, in) :
         /\ f.name = st.field /\ f.type = st.type
         /\ st.optional /\ ~IsSequence(st) => f.optional
  /\ \A i \in DOMAIN st.bits :
       \E f \in structFields(prefix, in) :
         f.name = st.bits[i].field /\ f.type = st.bits[i].type
  /\ \A s \in st.slots : Slot(s, SlotFor(st.kind)) \in out.slots
  /\ st.buf # Nothing => st.buf \in out.pmaps
  /\ CallsMethod(st) => HasBody(in) /\ st.method = NestedName(prefix, in)

\* The code for a field with one slot and one call, part by part.
LEMMA SlotShape ==
  ASSUME NEW prefix, NEW f, NEW kind, NEW op
  PROVE  LET out == SlotStep(prefix, f, kind, op) IN
         /\ out.kind = "code"
         /\ out.st.kind = kind /\ out.st.field = exported(f.name)
         /\ out.st.type = Assigned(kind, f, prefix) /\ out.st.optional = f.optional
         /\ out.st.calls = <<op>> /\ out.st.slots = {prefix \o exported(f.name)}
         /\ out.st.buf = Nothing /\ out.st.bits = <<>>
         /\ out.slots = {Slot(prefix \o exported(f.name), slotType(f))}
  BY DEF SlotStep, Code, Statement

\* The code for a constant, part by part.
LEMMA ConstantShape ==
  ASSUME NEW prefix, NEW f, NEW kind,
         ConstantStep(prefix, f, kind).kind # "error"
  PROVE  LET out == ConstantStep(prefix, f, kind) IN
         /\ out.st.kind = "fieldConstant" /\ out.st.field = exported(f.name)
         /\ out.st.type = Assigned(kind, f, prefix) /\ out.st.optional = f.optional
         /\ out.st.slots = {} /\ out.st.buf = Nothing /\ out.st.bits = <<>>
  BY DEF ConstantStep, Code, Statement, Error

\* The code for a decimal whose exponent and mantissa have operators of their own.
LEMMA DecimalShape ==
  ASSUME NEW prefix, NEW f
  PROVE  LET out == decimalIndividualStep(prefix, f) IN
         /\ out.st.kind = "fieldDecimalIndividual" /\ out.st.field = exported(f.name)
         /\ out.st.type = <<"Decimal">> /\ out.st.optional = f.optional
         /\ out.st.buf = Nothing /\ out.st.bits = <<>>
         /\ out.st.calls = <<intDecodeCall(opIntParts(f.exponent)),
                             intDecodeCall(opIntParts(f.mantissa))>>
         /\ out.slots = {Slot(p, "IntSlot") : p \in out.st.slots}
  BY DEF decimalIndividualStep, Code, Statement

\* The kinds of statement that a field of this type is rendered with.
KindFor(kind, f) ==
  \/ f.type \in Signed /\ kind = "fieldInt"
  \/ f.type \in Unsigned /\ kind = "fieldUint"
  \/ f.type = "Decimal" /\ kind \in {"fieldDecimal", "fieldDecimalDelta"}
  \/ f.type \in Strings \cup {"ByteVector"}
     /\ kind \in {"fieldBytes", "fieldBytesDelta", "fieldBytesTail"}

\* The text of a statement assigns the type that the struct gives the field.
LEMMA AssignedType ==
  ASSUME NEW prefix, NEW f, NEW kind, KindFor(kind, f)
  PROVE  Assigned(kind, f, prefix) = goFieldType(f, prefix)
<1> USE DEF Assigned, goFieldType, goType, IsEnum, Signed, Unsigned, Strings, NoType
<1>1. CASE f.type \in Signed /\ kind = "fieldInt"
  BY <1>1
<1>2. CASE f.type \in Unsigned /\ kind = "fieldUint"
  BY <1>2
<1>3. CASE f.type = "Decimal" /\ kind \in {"fieldDecimal", "fieldDecimalDelta"}
  BY <1>3
<1>4. CASE f.type \in Strings \cup {"ByteVector"}
           /\ kind \in {"fieldBytes", "fieldBytesDelta", "fieldBytesTail"}
  BY <1>4
<1> QED BY <1>1, <1>2, <1>3, <1>4 DEF KindFor

\* The struct has one field for a scalar, with its name, type and flag.
LEMMA ScalarField ==
  ASSUME NEW prefix, NEW in, IsScalar(in)
  PROVE  \E f \in structFields(prefix, in) :
           /\ f.name = exported(in.name) /\ f.type = goFieldType(in, prefix)
           /\ f.optional = in.optional
<1>1. structFields(prefix, in) =
        {StructField(exported(in.name), goFieldType(in, prefix), in.optional)}
  BY DEF structFields, IsScalar, IsBitGroup, IsField
<1> QED BY <1>1 DEF StructField

\* What a statement of a field with one slot or of a constant refers to is declared.
LEMMA ScalarDeclared ==
  ASSUME NEW prefix, NEW in, IsScalar(in), NEW kind, NEW op, KindFor(kind, in)
  PROVE  /\ LET out == SlotStep(prefix, in, kind, op) IN DeclaredFor(prefix, in, out.st, out)
         /\ LET out == ConstantStep(prefix, in, kind)
            IN  out.kind # "error" => DeclaredFor(prefix, in, out.st, out)
<1>1. Assigned(kind, in, prefix) = goFieldType(in, prefix)
  BY AssignedType
<1>2. SlotFor(kind) = slotType(in)
  BY DEF KindFor, SlotFor, slotType, Signed, Unsigned, Strings
<1>3. kind \notin {"bitgroup", "group", "sequence", "sequenceConstant"}
  BY DEF KindFor
<1>4. PICK f \in structFields(prefix, in) :
        /\ f.name = exported(in.name) /\ f.type = goFieldType(in, prefix)
        /\ f.optional = in.optional
  BY ScalarField
<1>5. LET out == SlotStep(prefix, in, kind, op) IN DeclaredFor(prefix, in, out.st, out)
  <2> DEFINE out == SlotStep(prefix, in, kind, op)
  <2>1. /\ out.st.kind = kind /\ out.st.field = exported(in.name)
        /\ out.st.type = goFieldType(in, prefix) /\ out.st.optional = in.optional
        /\ out.st.slots = {prefix \o exported(in.name)}
        /\ out.st.buf = Nothing /\ out.st.bits = <<>>
        /\ out.slots = {Slot(prefix \o exported(in.name), slotType(in))}
    BY <1>1, SlotShape
  <2> HIDE DEF out
  <2>2. DeclaredFor(prefix, in, out.st, out)
    BY <1>2, <1>3, <1>4, <2>1 DEF DeclaredFor, IsSequence, CallsMethod
  <2> QED BY <2>2 DEF out
<1>6. LET out == ConstantStep(prefix, in, kind)
      IN  out.kind # "error" => DeclaredFor(prefix, in, out.st, out)
  <2> DEFINE out == ConstantStep(prefix, in, kind)
  <2>1. out.kind # "error" =>
        /\ out.st.kind = "fieldConstant" /\ out.st.field = exported(in.name)
        /\ out.st.type = goFieldType(in, prefix) /\ out.st.optional = in.optional
        /\ out.st.slots = {} /\ out.st.buf = Nothing /\ out.st.bits = <<>>
    BY <1>1, ConstantShape
  <2> HIDE DEF out
  <2>2. out.kind # "error" => DeclaredFor(prefix, in, out.st, out)
    BY <1>4, <2>1 DEF DeclaredFor, IsSequence, CallsMethod
  <2> QED BY <2>2 DEF out
<1> QED BY <1>5, <1>6

\* A number's statement refers to what is declared.
LEMMA NumberDeclared ==
  ASSUME NEW prefix, NEW in, IsScalar(in), NEW op,
         in.type \in Signed \cup Unsigned \cup {"Decimal"},
         numberStep(prefix, in, op).kind # "error"
  PROVE  LET out == numberStep(prefix, in, op) IN DeclaredFor(prefix, in, out.st, out)
<1> DEFINE kind == NumberKind(in)
<1>1. KindFor(kind, in)
  BY DEF NumberKind, KindFor, Signed, Unsigned
<1> HIDE DEF kind
<1>2. /\ LET out == SlotStep(prefix, in, kind, op) IN DeclaredFor(prefix, in, out.st, out)
      /\ LET out == ConstantStep(prefix, in, kind)
         IN  out.kind # "error" => DeclaredFor(prefix, in, out.st, out)
  BY <1>1, ScalarDeclared
<1>3. numberStep(prefix, in, op) \in {SlotStep(prefix, in, kind, op), ConstantStep(prefix, in, kind)}
  BY DEF numberStep, kind, Error
<1> QED BY <1>2, <1>3

\* A string's or byte vector's statement refers to what is declared.
LEMMA BytesDeclared ==
  ASSUME NEW prefix, NEW in, IsScalar(in), in.type \in Strings \cup {"ByteVector"},
         bytesFieldStep(prefix, in).kind # "error"
  PROVE  LET out == bytesFieldStep(prefix, in) IN DeclaredFor(prefix, in, out.st, out)
<1>1. PICK kind \in {"fieldBytes", "fieldBytesDelta", "fieldBytesTail"}, op \in {in.op.kind} :
        bytesFieldStep(prefix, in) \in {SlotStep(prefix, in, kind, op), ConstantStep(prefix, in, kind)}
  BY DEF bytesFieldStep, Error
<1>2. /\ LET out == SlotStep(prefix, in, kind, op) IN DeclaredFor(prefix, in, out.st, out)
      /\ LET out == ConstantStep(prefix, in, kind)
         IN  out.kind # "error" => DeclaredFor(prefix, in, out.st, out)
  BY ScalarDeclared DEF KindFor
<1> QED BY <1>1, <1>2

\* So does that of a decimal with operators of its parts.
LEMMA PartsDeclared ==
  ASSUME NEW prefix, NEW in, IsScalar(in), in.type = "Decimal"
  PROVE  LET out == decimalIndividualStep(prefix, in) IN DeclaredFor(prefix, in, out.st, out)
<1>1. goFieldType(in, prefix) = <<"Decimal">>
  BY DEF goFieldType, goType, IsEnum, Strings
<1>2. SlotFor("fieldDecimalIndividual") = "IntSlot"
  BY DEF SlotFor
<1>3. PICK f \in structFields(prefix, in) :
        /\ f.name = exported(in.name) /\ f.type = <<"Decimal">>
        /\ f.optional = in.optional
  BY <1>1, ScalarField
<1> DEFINE out == decimalIndividualStep(prefix, in)
<1>4. /\ out.st.kind = "fieldDecimalIndividual" /\ out.st.field = exported(in.name)
      /\ out.st.type = <<"Decimal">> /\ out.st.optional = in.optional
      /\ out.st.buf = Nothing /\ out.st.bits = <<>>
      /\ out.slots = {Slot(p, "IntSlot") : p \in out.st.slots}
  BY DecimalShape
<1> HIDE DEF out
<1> QED BY <1>2, <1>3, <1>4 DEF DeclaredFor, IsSequence, CallsMethod, out

\* The lines of a bit group assign fields of the struct, at their types: a
\* positive width leaves none of the types on which the two disagree.
LEMMA BitsDeclared ==
  ASSUME NEW prefix, NEW in, IsBitGroup(in), IsInstruction(in),
         StructFault(prefix, in) = "none", bitGroupStep(prefix, in).kind # "error"
  PROVE  LET out == bitGroupStep(prefix, in) IN DeclaredFor(prefix, in, out.st, out)
<1> DEFINE bits == in.bitFields
           out == bitGroupStep(prefix, in)
           fields == structFields(prefix, in)
<1>1. fields = {StructField(exported(bits[i].name), goType(bits[i]), FALSE) : i \in DOMAIN bits}
  BY DEF structFields, IsBitGroup, IsScalar, IsField
<1>2. \A i \in DOMAIN bits : goType(bits[i]) # NoType
  <2>1. \A f \in fields : f.type # NoType
    BY DEF StructFault, IsBitGroup, IsField
  <2>2. \A i \in DOMAIN bits : StructField(exported(bits[i].name), goType(bits[i]), FALSE) \in fields
    BY <1>1
  <2> QED BY <2>1, <2>2 DEF StructField
<1>3. ASSUME NEW i \in DOMAIN bits
      PROVE  goType(bits[i]) = bitFieldType(bits[i])
  <2>1. ~(bitFieldWidth(bits[i]) <= 0)
    BY <1>3 DEF bitGroupStep, Error
  <2>2. bits[i].width > 0 => bits[i].type \in {"Int32", "UInt32"}
    BY <1>3 DEF IsInstruction, IsFieldOK, IsBitGroup, IsField
  <2>3. bits[i].type \in {"Int32", "UInt32", "Boolean", "Enum", "Set"}
    BY <2>1, <2>2 DEF bitFieldWidth
  <2> QED BY <2>3 DEF goType, bitFieldType, Strings
<1>4. /\ out.st.kind = "bitgroup" /\ out.st.slots = {}
      /\ out.st.buf \in out.pmaps
      /\ out.st.bits = [i \in DOMAIN bits |-> [field |-> exported(bits[i].name),
                                            width |-> bitFieldWidth(bits[i]),
                                            type |-> bitFieldType(bits[i])]]
  BY DEF bitGroupStep, Error, Code, Statement
<1>5. \A i \in DOMAIN bits : \E f \in fields :
         f.name = exported(bits[i].name) /\ f.type = bitFieldType(bits[i])
  <2>1. \A i \in DOMAIN bits : StructField(exported(bits[i].name), goType(bits[i]), FALSE) \in fields
    BY <1>1
  <2> QED BY <1>3, <2>1 DEF StructField
<1> QED BY <1>4, <1>5 DEF DeclaredFor, IsSequence, CallsMethod

\* A group's statement refers to its field and to the nested method.
LEMMA GroupDeclared ==
  ASSUME NEW prefix, NEW in, in.kind = "group"
  PROVE  LET out == groupStep(prefix, in) IN DeclaredFor(prefix, in, out.st, out)
<1>1. structFields(prefix, in) =
        {StructField(exported(in.name), NestedName(prefix, in), in.optional)}
  BY DEF structFields, IsBitGroup, IsScalar, IsField
<1> QED BY <1>1
     DEF groupStep, Code, Statement, DeclaredFor, StructField, IsSequence, CallsMethod, HasBody

\* A sequence's statement refers to its field, its slot and the nested method.
LEMMA SequenceDeclared ==
  ASSUME NEW prefix, NEW in, in.kind = "sequence", in.length.type = "UInt32",
         sequenceStep(prefix, in).kind # "error"
  PROVE  LET out == sequenceStep(prefix, in) IN DeclaredFor(prefix, in, out.st, out)
<1>1. structFields(prefix, in) =
        {StructField(exported(in.name), <<"[]">> \o NestedName(prefix, in), FALSE)}
  BY DEF structFields, IsBitGroup, IsScalar, IsField
<1>2. NestedName(prefix, in) = ElemName(prefix, in)
  BY DEF NestedName
<1>3. slotType(in.length) = SlotFor("sequence")
  BY DEF slotType, SlotFor, Signed, Unsigned
<1>4. PICK f \in structFields(prefix, in) :
        f.name = exported(in.name) /\ f.type = <<"[]">> \o NestedName(prefix, in)
  BY <1>1 DEF StructField
<1> DEFINE out == sequenceStep(prefix, in)
<1>5. /\ out.st.kind \in {"sequence", "sequenceConstant"}
      /\ out.st.field = exported(in.name)
      /\ out.st.type = <<"[]">> \o NestedName(prefix, in)
      /\ out.st.method = NestedName(prefix, in)
      /\ out.st.buf = Nothing /\ out.st.bits = <<>>
  BY <1>2 DEF sequenceStep, Code, Statement, Error
<1>6. \A s \in out.st.slots : Slot(s, SlotFor(out.st.kind)) \in out.slots
  BY <1>3 DEF sequenceStep, Code, Statement, Error
<1> HIDE DEF out
<1> QED BY <1>4, <1>5, <1>6 DEF DeclaredFor, IsSequence, CallsMethod, HasBody, out

\* Whatever a rendered instruction refers to is declared, if the struct could be.
LEMMA StepDeclared ==
  ASSUME NEW prefix, NEW in, IsInstruction(in), StructFault(prefix, in) = "none",
         step(prefix, in).kind # "error"
  PROVE  LET out == step(prefix, in) IN DeclaredFor(prefix, in, out.st, out)
<1>1. CASE in.kind = "field"
  <2>1. step(prefix, in) = fieldStep(prefix, in)
    BY <1>1 DEF step, IsField
  <2>2. CASE in.type \in Signed \cup Unsigned \cup {"Decimal"}
    <3>1. IsScalar(in)
      BY <1>1, <2>2 DEF IsScalar, IsField, Signed, Unsigned
    <3>2. \/ \E op : step(prefix, in) = numberStep(prefix, in, op)
          \/ in.type = "Decimal" /\ step(prefix, in) = decimalIndividualStep(prefix, in)
      BY <2>1, <2>2 DEF fieldStep, Signed, Unsigned, Strings
    <3> QED BY <2>2, <3>1, <3>2, NumberDeclared, PartsDeclared
  <2>3. CASE in.type \in Strings \cup {"ByteVector"}
    <3>1. IsScalar(in)
      BY <1>1, <2>3 DEF IsScalar, IsField, Strings
    <3>2. step(prefix, in) = bytesFieldStep(prefix, in)
      BY <2>1, <2>3 DEF fieldStep, Signed, Unsigned, Strings
    <3> QED BY <2>3, <3>1, <3>2, BytesDeclared
  <2>4. CASE in.type = "BitGroup"
    <3>1. step(prefix, in) = bitGroupStep(prefix, in)
      BY <2>1, <2>4 DEF fieldStep, Signed, Unsigned, Strings
    <3> QED BY <1>1, <2>4, <3>1, BitsDeclared DEF IsBitGroup, IsField
  <2> QED BY <2>1, <2>2, <2>3, <2>4 DEF fieldStep, Error, Strings
<1>2. CASE in.kind = "group"
  BY <1>2, GroupDeclared DEF step, IsField
<1>3. CASE in.kind = "sequence"
  <2>1. step(prefix, in) = sequenceStep(prefix, in) /\ in.length.type = "UInt32"
    BY <1>3 DEF step, IsField, IsInstruction
  <2> QED BY <1>3, <2>1, SequenceDeclared
<1> QED BY <1>1, <1>2, <1>3 DEF step, IsField, Error

-----------------------------------------------------------------------------
(* A statement takes a bit exactly if a map is read for it.                *)

\* A statement takes a bit only if a map is read for it, and always if the
\* operators are ones that the types have.
BitMatches(in, st) ==
  /\ TakesBit(st) => UsesPMAPBit(in)
  /\ /\ IsField(in) => Applies(in)
     /\ in.kind = "sequence" => Applies(in.length)
     /\ UsesPMAPBit(in)
     => TakesBit(st)

\* A constant takes a bit if it is optional, and only then.
LEMMA ConstantBit ==
  ASSUME NEW prefix, NEW in, in.kind = "field", IsFieldOK(in), NEW kind,
         in.op.kind = "Constant", ConstantStep(prefix, in, kind).kind # "error"
  PROVE  BitMatches(in, ConstantStep(prefix, in, kind).st)
<1> DEFINE st == ConstantStep(prefix, in, kind).st
<1>1. st.kind = "fieldConstant" /\ st.optional = in.optional
  BY ConstantShape
<1>2. UsesPMAPBit(in) <=> in.optional
  BY DEF UsesPMAPBit, fieldUsesPMAPBit, opUsesPMAPBit, IsFieldOK, IsField
<1>3. TakesBit(st) <=> in.optional
  BY <1>1 DEF TakesBit, IsFieldOK
<1> QED BY <1>2, <1>3 DEF BitMatches

\* A field with one slot takes a bit as its operator says, where it applies.
LEMMA SlotBit ==
  ASSUME NEW prefix, NEW in, in.kind = "field", IsFieldOK(in), ~HasParts(in),
         NEW kind, NEW op, KindFor(kind, in), in.op.kind # "Constant" \/ kind = "fieldBytes",
         op = IF in.type \in Signed \cup Unsigned THEN intDecodeCall(in.op.kind)
              ELSE in.op.kind,
         kind = "fieldBytesTail" <=> in.op.kind = "Tail" /\ in.type \in Strings \cup {"ByteVector"},
         kind \in {"fieldBytesDelta", "fieldDecimalDelta"} => in.op.kind = "Delta"
  PROVE  BitMatches(in, SlotStep(prefix, in, kind, op).st)
<1> DEFINE st == SlotStep(prefix, in, kind, op).st
<1>1. st.kind = kind /\ st.optional = in.optional /\ st.calls[1] = op
  BY SlotShape
<1> HIDE DEF st
<1>2. UsesPMAPBit(in) <=> opUsesPMAPBit(in.op.kind, in.optional)
  BY DEF UsesPMAPBit, fieldUsesPMAPBit, IsField
<1>3. CASE in.type \in Signed \cup Unsigned
  <2>1. TakesBit(st) <=> CallTakesBit(op, in.optional)
    BY <1>1, <1>3 DEF TakesBit, KindFor, Signed, Unsigned, Strings, CallTakesBit
  <2>2. CallTakesBit(op, in.optional) => opUsesPMAPBit(in.op.kind, in.optional)
    BY <1>3 DEF intDecodeCall, CallTakesBit, opUsesPMAPBit
  <2>3. Applies(in) /\ opUsesPMAPBit(in.op.kind, in.optional) => CallTakesBit(op, in.optional)
    BY <1>3 DEF intDecodeCall, CallTakesBit, opUsesPMAPBit, Applies, Signed, Unsigned, Strings
  <2> QED BY <1>2, <2>1, <2>2, <2>3 DEF BitMatches, IsField, st
<1>4. CASE in.type = "Decimal"
  <2>1. TakesBit(st) <=> kind = "fieldDecimal" /\ op # "Increment" /\ CallTakesBit(op, in.optional)
    BY <1>1, <1>4 DEF TakesBit, KindFor, Signed, Unsigned, Strings, CallTakesBit
  <2>2. op = in.op.kind
    BY <1>4 DEF Signed, Unsigned
  <2>3. TakesBit(st) => opUsesPMAPBit(in.op.kind, in.optional)
    BY <2>1, <2>2 DEF CallTakesBit, opUsesPMAPBit
  <2>4. Applies(in) /\ opUsesPMAPBit(in.op.kind, in.optional) => TakesBit(st)
    BY <1>4, <2>1, <2>2 DEF CallTakesBit, opUsesPMAPBit, Applies, Signed, Unsigned, Strings, KindFor
  <2> QED BY <1>2, <2>3, <2>4 DEF BitMatches, IsField, st
<1>5. CASE in.type \in Strings \cup {"ByteVector"}
  <2>1. op = in.op.kind
    BY <1>5 DEF Signed, Unsigned, Strings
  <2>2. CASE kind = "fieldBytesTail"
    <3>1. TakesBit(st) /\ opUsesPMAPBit(in.op.kind, in.optional)
      BY <1>1, <1>5, <2>2 DEF TakesBit, opUsesPMAPBit
    <3> QED BY <1>2, <3>1 DEF BitMatches, st
  <2>3. CASE kind = "fieldBytesDelta"
    <3>1. ~TakesBit(st) /\ ~opUsesPMAPBit(in.op.kind, in.optional)
      BY <1>1, <2>1, <2>3 DEF TakesBit, opUsesPMAPBit, CallTakesBit
    <3> QED BY <1>2, <3>1 DEF BitMatches, st
  <2>4. CASE kind = "fieldBytes"
    <3>1. TakesBit(st) <=> op # "Increment" /\ CallTakesBit(op, in.optional)
      BY <1>1, <2>4 DEF TakesBit, CallTakesBit
    <3>2. TakesBit(st) => opUsesPMAPBit(in.op.kind, in.optional)
      BY <2>1, <3>1 DEF CallTakesBit, opUsesPMAPBit
    <3>3. Applies(in) /\ opUsesPMAPBit(in.op.kind, in.optional) => TakesBit(st)
      BY <1>5, <2>1, <2>4, <3>1
         DEF CallTakesBit, opUsesPMAPBit, Applies, Signed, Unsigned, Strings
    <3> QED BY <1>2, <3>2, <3>3 DEF BitMatches, IsField, st
  <2> QED BY <1>5, <2>2, <2>3, <2>4 DEF KindFor, Signed, Unsigned, Strings
<1> QED BY <1>3, <1>4, <1>5 DEF KindFor, st

\* The same of numbers, whose calls have no tail.
LEMMA NumberBit ==
  ASSUME NEW prefix, NEW in, in.kind = "field", IsFieldOK(in), ~HasParts(in),
         in.type \in Signed \cup Unsigned \cup {"Decimal"}, NEW op,
         op = IF in.type \in Signed \cup Unsigned THEN intDecodeCall(in.op.kind)
              ELSE in.op.kind,
         numberStep(prefix, in, op).kind # "error"
  PROVE  BitMatches(in, numberStep(prefix, in, op).st)
<1> DEFINE kind == NumberKind(in)
<1>1. /\ KindFor(kind, in) /\ kind \notin {"fieldBytesTail", "fieldBytesDelta"}
      /\ kind = "fieldDecimalDelta" => in.op.kind = "Delta"
      /\ in.type \notin Strings \cup {"ByteVector"}
  BY DEF NumberKind, KindFor, Signed, Unsigned, Strings
<1> HIDE DEF kind
<1>2. CASE in.op.kind = "Constant"
  <2>1. numberStep(prefix, in, op) = ConstantStep(prefix, in, kind)
    BY <1>2 DEF numberStep, Error, kind
  <2> QED BY <1>2, <2>1, ConstantBit
<1>3. CASE in.op.kind # "Constant"
  <2>1. numberStep(prefix, in, op) = SlotStep(prefix, in, kind, op)
    BY <1>3 DEF numberStep, Error, kind
  <2>2. BitMatches(in, SlotStep(prefix, in, kind, op).st)
    BY <1>1, <1>3, SlotBit
  <2> QED BY <2>1, <2>2
<1> QED BY <1>2, <1>3

\* The same of strings and byte vectors.
LEMMA BytesBit ==
  ASSUME NEW prefix, NEW in, in.kind = "field", IsFieldOK(in), ~HasParts(in),
         in.type \in Strings \cup {"ByteVector"},
         bytesFieldStep(prefix, in).kind # "error"
  PROVE  BitMatches(in, bytesFieldStep(prefix, in).st)
<1> DEFINE op == in.op.kind
<1>1. op = IF in.type \in Signed \cup Unsigned THEN intDecodeCall(in.op.kind) ELSE in.op.kind
  BY DEF Signed, Unsigned, Strings
<1>2. CASE op = "Constant" /\ in.type # "ByteVector"
  <2>1. bytesFieldStep(prefix, in) = ConstantStep(prefix, in, "fieldBytes")
    BY <1>2 DEF bytesFieldStep
  <2> QED BY <1>2, <2>1, ConstantBit
<1>3. CASE ~(op = "Constant" /\ in.type # "ByteVector")
  <2>1. PICK kind \in {"fieldBytes", "fieldBytesDelta", "fieldBytesTail"} :
          /\ bytesFieldStep(prefix, in) = SlotStep(prefix, in, kind, op)
          /\ kind = "fieldBytesTail" <=> op = "Tail"
          /\ kind = "fieldBytesDelta" <=> op = "Delta"
    <3>1. CASE op = "Delta"
      BY <1>3, <3>1 DEF bytesFieldStep
    <3>2. CASE op = "Tail"
      BY <1>3, <3>2 DEF bytesFieldStep, Error
    <3>3. CASE op \notin {"Delta", "Tail"}
      BY <1>3, <3>3 DEF bytesFieldStep
    <3> QED BY <3>1, <3>2, <3>3
  <2>2. KindFor(kind, in)
    BY DEF KindFor
  <2>3. op # "Constant" \/ kind = "fieldBytes"
    BY <2>1
  <2>4. BitMatches(in, SlotStep(prefix, in, kind, op).st)
    BY <1>1, <2>1, <2>2, <2>3, SlotBit
  <2> QED BY <2>1, <2>4
<1> QED BY <1>2, <1>3

\* A decimal with operators of its parts takes the bits of both.
LEMMA PartsBit ==
  ASSUME NEW prefix, NEW in, in.kind = "field", IsFieldOK(in), HasParts(in)
  PROVE  BitMatches(in, decimalIndividualStep(prefix, in).st)
<1> DEFINE st == decimalIndividualStep(prefix, in).st
           e == opIntParts(in.exponent)
           m == opIntParts(in.mantissa)
<1>1. /\ st.kind = "fieldDecimalIndividual" /\ st.optional = in.optional
      /\ st.calls[1] = intDecodeCall(e) /\ st.calls[2] = intDecodeCall(m)
  BY DecimalShape
<1> HIDE DEF st
<1>2. TakesBit(st) <=> CallTakesBit(intDecodeCall(e), in.optional)
                       \/ CallTakesBit(intDecodeCall(m), FALSE)
  BY <1>1 DEF TakesBit
<1>3. UsesPMAPBit(in) <=> opUsesPMAPBit(e, in.optional) \/ opUsesPMAPBit(m, FALSE)
  BY DEF UsesPMAPBit, fieldUsesPMAPBit, IsField, opUsesPMAPBit, opIntParts, IsFieldOK
<1>4. \A op, o : CallTakesBit(intDecodeCall(op), o) => opUsesPMAPBit(op, o)
  BY DEF CallTakesBit, intDecodeCall, opUsesPMAPBit
<1>5. \A op, o : op # "Tail" /\ opUsesPMAPBit(op, o) => CallTakesBit(intDecodeCall(op), o)
  BY DEF CallTakesBit, intDecodeCall, opUsesPMAPBit
<1>6. Applies(in) => e # "Tail" /\ m # "Tail"
  BY DEF Applies, opIntParts, IsFieldOK, Strings
<1> HIDE DEF e, m
<1>7. TakesBit(st) => UsesPMAPBit(in)
  BY <1>2, <1>3, <1>4
<1>8. Applies(in) /\ UsesPMAPBit(in) => TakesBit(st)
  BY <1>2, <1>3, <1>5, <1>6
<1>9. BitMatches(in, st)
  BY <1>7, <1>8 DEF BitMatches, IsField
<1> QED BY <1>9 DEF st

\* A sequence takes the bit of its length.
LEMMA SequenceBit ==
  ASSUME NEW prefix, NEW in, in.kind = "sequence", IsInstruction(in),
         sequenceStep(prefix, in).kind # "error"
  PROVE  BitMatches(in, sequenceStep(prefix, in).st)
<1> DEFINE op == in.length.op.kind
           st == sequenceStep(prefix, in).st
<1>1. UsesPMAPBit(in) <=> opUsesPMAPBit(op, in.optional)
  BY DEF UsesPMAPBit, IsField
<1>2. Applies(in.length) => op # "Tail"
  BY DEF Applies, IsInstruction, Strings
<1>3. CASE op = "Constant"
  <2>1. st.kind = "sequenceConstant" /\ st.optional = in.optional
    BY <1>3 DEF sequenceStep, Code, Statement, Error
  <2>2. TakesBit(st) <=> opUsesPMAPBit(op, in.optional)
    BY <1>3, <2>1 DEF TakesBit, opUsesPMAPBit, IsInstruction
  <2> QED BY <1>1, <2>2 DEF BitMatches
<1>4. CASE op # "Constant"
  <2>1. st.kind = "sequence" /\ st.optional = in.optional /\ st.calls[1] = uintDecodeCall(op)
    BY <1>4 DEF sequenceStep, Code, Statement, Error
  <2> HIDE DEF st
  <2>2. TakesBit(st) <=> CallTakesBit(uintDecodeCall(op), in.optional)
    BY <2>1 DEF TakesBit
  <2>3. CallTakesBit(uintDecodeCall(op), in.optional) => opUsesPMAPBit(op, in.optional)
    BY DEF CallTakesBit, uintDecodeCall, opUsesPMAPBit
  <2>4. op # "Tail" /\ opUsesPMAPBit(op, in.optional)
        => CallTakesBit(uintDecodeCall(op), in.optional)
    BY DEF CallTakesBit, uintDecodeCall, opUsesPMAPBit
  <2>5. BitMatches(in, st)
    BY <1>1, <1>2, <2>2, <2>3, <2>4 DEF BitMatches
  <2> QED BY <2>5 DEF st
<1> QED BY <1>3, <1>4

\* Whatever the instruction, its statement takes a bit if and only if the
\* segment needs a map for it, where the operators are ones the types have.
LEMMA StepBit ==
  ASSUME NEW prefix, NEW in, IsInstruction(in), step(prefix, in).kind # "error"
  PROVE  BitMatches(in, step(prefix, in).st)
<1>1. CASE in.kind = "field"
  <2>0. IsFieldOK(in)
    BY <1>1 DEF IsInstruction
  <2>1. step(prefix, in) = fieldStep(prefix, in)
    BY <1>1 DEF step, IsField
  <2>2. CASE in.type \in Signed \cup Unsigned
    <3>1. ~HasParts(in)
      BY <2>0, <2>2 DEF IsFieldOK, Signed, Unsigned
    <3>2. step(prefix, in) = numberStep(prefix, in, intDecodeCall(in.op.kind))
      BY <2>1, <2>2 DEF fieldStep, Signed, Unsigned, Strings, intDecodeCall, uintDecodeCall
    <3> QED BY <1>1, <2>0, <2>2, <3>1, <3>2, NumberBit
  <2>3. CASE in.type = "Decimal" /\ HasParts(in)
    <3>1. step(prefix, in) = decimalIndividualStep(prefix, in)
      BY <2>0, <2>1, <2>3 DEF fieldStep, Signed, Unsigned, Strings, IsFieldOK
    <3> QED BY <1>1, <2>0, <2>3, <3>1, PartsBit
  <2>4. CASE in.type = "Decimal" /\ ~HasParts(in)
    <3>1. step(prefix, in) = numberStep(prefix, in, in.op.kind)
      BY <2>0, <2>1, <2>4 DEF fieldStep, Signed, Unsigned, Strings, IsFieldOK
    <3> QED BY <1>1, <2>0, <2>4, <3>1, NumberBit DEF Signed, Unsigned
  <2>5. CASE in.type \in Strings \cup {"ByteVector"}
    <3>1. ~HasParts(in)
      BY <2>0, <2>5 DEF IsFieldOK, Strings
    <3>2. step(prefix, in) = bytesFieldStep(prefix, in)
      BY <2>1, <2>5 DEF fieldStep, Signed, Unsigned, Strings
    <3> QED BY <1>1, <2>0, <2>5, <3>1, <3>2, BytesBit
  <2>6. CASE in.type = "BitGroup"
    <3>1. step(prefix, in) = bitGroupStep(prefix, in)
      BY <2>1, <2>6 DEF fieldStep, Signed, Unsigned, Strings
    <3>2. in.op.kind = "None" /\ step(prefix, in).st.kind = "bitgroup"
      BY <3>1 DEF bitGroupStep, Error, Code, Statement
    <3>3. ~UsesPMAPBit(in)
      BY <1>1, <2>0, <2>6, <3>2
         DEF UsesPMAPBit, fieldUsesPMAPBit, opUsesPMAPBit, IsFieldOK, IsField
    <3>4. ~TakesBit(step(prefix, in).st)
      BY <3>2 DEF TakesBit
    <3> QED BY <3>3, <3>4 DEF BitMatches
  <2> QED BY <2>1, <2>2, <2>3, <2>4, <2>5, <2>6 DEF fieldStep, Error, Strings
<1>2. CASE in.kind = "group"
  <2>1. step(prefix, in).st.kind = "group" /\ step(prefix, in).st.optional = in.optional
    BY <1>2 DEF step, IsField, groupStep, Code, Statement
  <2>2. TakesBit(step(prefix, in).st) <=> in.optional
    BY <1>2, <2>1 DEF TakesBit, IsInstruction
  <2>3. UsesPMAPBit(in) <=> in.optional
    BY <1>2 DEF UsesPMAPBit, IsField
  <2> QED BY <2>2, <2>3 DEF BitMatches
<1>3. CASE in.kind = "sequence"
  <2>1. step(prefix, in) = sequenceStep(prefix, in)
    BY <1>3 DEF step, IsField
  <2> QED BY <1>3, <2>1, SequenceBit
<1> QED BY <1>1, <1>2, <1>3 DEF step, IsField, Error

-----------------------------------------------------------------------------
(* The invariants, and what follows from them when a template is done.     *)

\* A set of instructions with those nested in them.
Closed(Trees) ==
  \A in \in Trees : IsInstruction(in) /\ (HasBody(in) => in.instructions \in Seq(Trees))

\* What the code of the template has so far.
Rendered(name, segment)  == Struct(name, segment) \in code.structs
HasMethod(name, segment) ==
  \E m \in code.methods : m.name = name /\ m.segment = segment /\ ~m.topLevel

NestedIsRendered(name, in) == Rendered(NestedName(name, in), in.instructions)
NestedHasMethod(name, in)  == HasMethod(NestedName(name, in), in.instructions)

\* c is the call for an instruction of a segment of this name.
IsCallFor(c, name, in) == c.name = NestedName(name, in) /\ c.segment = in.instructions

\* A rendered struct is of its segment, had no fault, has its enum types, and
\* the nested ones are there.
StructIsRight(s) ==
  /\ s = Struct(s.name, s.segment)
  /\ Faults(s.name, s.segment) = {}
  /\ EnumNames(s.name, s.segment) \subseteq DOMAIN enums
  /\ \A i \in DOMAIN s.segment :
       HasBody(s.segment[i]) => NestedIsRendered(s.name, s.segment[i])

\* The structs so far; the methods wait for all of them.
StructsInv ==
  pass # "idle" =>
    /\ \A s \in code.structs : StructIsRight(s)
    /\ pass = "structs" => code.methods = {}

\* The instructions a call has passed: their structs are there, or theirs is
\* the call above it.
PassedInv ==
  pass = "structs" =>
    \A k \in 1 .. Len(calls) : \A i \in 1 .. calls[k].at - 1 :
      HasBody(calls[k].segment[i]) =>
        \/ NestedIsRendered(calls[k].name, calls[k].segment[i])
        \/ k < Len(calls) /\ IsCallFor(calls[k + 1], calls[k].name, calls[k].segment[i])

\* The first call is for the template, and it ends with its struct there.
RootInv ==
  pass = "structs" =>
    IF calls = <<>> THEN Rendered(exported(Template.name), Template.body)
    ELSE calls[1].name = exported(Template.name) /\ calls[1].segment = Template.body

\* A rendered method is of a segment with a struct, and the slots and buffers
\* of its steps are there.
MethodIsRight(m) ==
  /\ m = Method(m.name, m.segment, m.topLevel) /\ m.topLevel \in BOOLEAN
  /\ Rendered(m.name, m.segment)
  /\ \A i \in DOMAIN m.segment :
       LET out == step(m.name, m.segment[i]) IN
       /\ out.kind # "error"
       /\ out.slots \subseteq code.slots /\ out.pmaps \subseteq code.pmaps
  /\ m.buf # Nothing => m.buf \in code.pmaps

\* What a method calls is there, or one of the calls will come to it.
CalleesInv ==
  pass = "methods" =>
    \A m \in code.methods : \A i \in DOMAIN m.segment :
      HasBody(m.segment[i]) =>
        \/ NestedHasMethod(m.name, m.segment[i])
        \/ \E k \in 1 .. Len(calls) : /\ calls[k].name = m.name
                                      /\ calls[k].segment = m.segment
                                      /\ calls[k].at <= i

\* Both the methods that are rendered and the running calls have their structs.
MethodsInv ==
  pass = "methods" =>
    /\ \A m \in code.methods : MethodIsRight(m)
    /\ \A k \in 1 .. Len(calls) : Rendered(calls[k].name, calls[k].segment)

\* What is proved of the code of the k-th template.
BlockIsRight(k) ==
  /\ BlockIsClosed(blocks[k], DOMAIN enums)
  /\ \A m \in blocks[k].methods : ~m.topLevel => MapMatches(m)
  /\ blocks[k].name = exported(merged[k].name)

\* What is proved of the templates that are done.
BlocksInv == \A k \in 1 .. Len(blocks) : BlockIsRight(k)

\* Code is written in one piece, at the end.
SourceInv ==
  /\ source = Nothing <=> phase # "generated"
  /\ phase = "generated" => source = Source /\ Len(blocks) = Len(merged)

\* The passes, the stack and the phases.
ControlInv ==
  /\ phase \in ParserPhases \ {"parsed"} => blocks = <<>> /\ pass = "idle"
  /\ pass = "idle" => calls = <<>>
  /\ Len(blocks) <= Len(merged)
  /\ pass # "idle" => Len(blocks) < Len(merged)
  /\ \A k \in 1 .. Len(calls) : calls[k].at <= Len(calls[k].segment) + 1

\* Structs are of segments over the set.
SegmentsInv(Trees) == \A s \in code.structs : s.segment \in Seq(Trees)

-----------------------------------------------------------------------------
\* A Go type that is not absent is one of the basic ones.
LEMMA GoTypes ==
  ASSUME NEW f, goType(f) # NoType
  PROVE  goType(f) \in Basic
BY DEF goType, Basic, Strings

\* A flag that a method clears is a flag of its struct.
LEMMA FlagIsThere ==
  ASSUME NEW name, NEW segment, NEW r \in optionalHasFields(segment)
  PROVE  \E f \in Struct(name, segment).fields : f.name = r /\ f.optional
<1>1. PICK i \in DOMAIN segment :
        /\ r = exported(segment[i].name)
        /\ IsScalar(segment[i]) \/ segment[i].kind = "group"
        /\ segment[i].optional
  BY DEF optionalHasFields
<1> DEFINE in == segment[i]
<1>2. structFields(name, in) \subseteq Struct(name, segment).fields
  BY DEF Struct
<1>3. \E f \in structFields(name, in) : f.name = r /\ f.optional
  <2>1. CASE IsScalar(in)
    BY <1>1, <2>1, ScalarField
  <2>2. CASE in.kind = "group"
    <3>1. structFields(name, in) =
            {StructField(exported(in.name), NestedName(name, in), in.optional)}
      BY <2>2 DEF structFields, IsBitGroup, IsScalar, IsField
    <3> QED BY <1>1, <3>1 DEF StructField
  <2> QED BY <1>1, <2>1, <2>2
<1> QED BY <1>2, <1>3

\* The type of a struct's field is basic, an enum's, or a nested struct's.
LEMMA FieldTypes ==
  ASSUME NEW Trees, Closed(Trees), SegmentsInv(Trees),
         NEW s \in code.structs, StructIsRight(s), NEW f \in s.fields
  PROVE  \/ f.type \in Basic \/ f.type \in DOMAIN enums
         \/ \E t \in code.structs : f.type = t.name \/ f.type = <<"[]">> \o t.name
<1>1. s = Struct(s.name, s.segment)
  BY DEF StructIsRight
<1>2. PICK i \in DOMAIN s.segment : f \in structFields(s.name, s.segment[i])
  BY <1>1 DEF Struct
<1> DEFINE in == s.segment[i]
<1>3. IsInstruction(in)
  BY DEF SegmentsInv, Closed
<1>4. StructFault(s.name, in) = "none"
  BY DEF StructIsRight, Faults
<1>5. f.type # NoType
  BY <1>2, <1>4 DEF StructFault
<1>6. CASE IsBitGroup(in)
  <2>1. PICK j \in DOMAIN in.bitFields : f.type = goType(in.bitFields[j])
    BY <1>2, <1>6 DEF structFields, StructField, IsBitGroup, IsScalar, IsField
  <2> QED BY <1>5, <2>1, GoTypes
<1>7. CASE IsScalar(in)
  <2>1. f.type = goFieldType(in, s.name)
    BY <1>2, <1>7 DEF structFields, StructField, IsBitGroup, IsScalar, IsField
  <2>2. CASE IsEnum(in)
    <3>1. f.type = enumTypeName(in, s.name)
      BY <2>1, <2>2 DEF goFieldType
    <3>2. enumTypeName(in, s.name) \in EnumNames(s.name, s.segment)
      BY <1>7, <2>2 DEF EnumNames
    <3> QED BY <3>1, <3>2 DEF StructIsRight
  <2>3. CASE ~IsEnum(in)
    BY <1>5, <2>1, <2>3, GoTypes DEF goFieldType
  <2> QED BY <2>2, <2>3
<1>8. CASE HasBody(in)
  <2>1. f.type \in {NestedName(s.name, in), <<"[]">> \o NestedName(s.name, in)}
    BY <1>2, <1>8 DEF structFields, StructField, IsBitGroup, IsScalar, IsField, HasBody
  <2>2. Struct(NestedName(s.name, in), in.instructions) \in code.structs
    BY <1>8 DEF StructIsRight, NestedIsRendered, Rendered
  <2>3. Struct(NestedName(s.name, in), in.instructions).name = NestedName(s.name, in)
    BY DEF Struct
  <2> QED BY <2>1, <2>2, <2>3
<1> QED BY <1>2, <1>6, <1>7, <1>8 DEF structFields, IsBitGroup, IsScalar, IsField, HasBody

\* A method that is right, with the methods it calls there, is closed.
LEMMA MethodClosed ==
  ASSUME NEW Trees, Closed(Trees), SegmentsInv(Trees), NEW b,
         b.structs = code.structs, b.methods = code.methods,
         b.slots = code.slots, b.pmaps = code.pmaps,
         \A s \in code.structs : StructIsRight(s),
         NEW m \in code.methods, MethodIsRight(m),
         \A i \in DOMAIN m.segment :
            HasBody(m.segment[i]) => NestedHasMethod(m.name, m.segment[i])
  PROVE  MethodIsClosed(b, m)
<1> DEFINE s == Struct(m.name, m.segment)
           fields == FieldsOf(b, m.name)
<1>1. s \in code.structs /\ s.name = m.name /\ s.segment = m.segment
  BY DEF MethodIsRight, Rendered, Struct
<1>2. StructIsRight(s) /\ m.segment \in Seq(Trees)
  BY <1>1 DEF SegmentsInv
<1>3. s.fields \subseteq fields
  BY <1>1 DEF FieldsOf
<1>4. \A i \in DOMAIN m.segment : structFields(m.name, m.segment[i]) \subseteq s.fields
  BY DEF Struct
<1>5. m.name \in StructsOf(b)
  BY <1>1 DEF StructsOf
<1>6. \A r \in m.resets : \E f \in fields : f.name = r /\ f.optional
  <2>1. m.resets = optionalHasFields(m.segment)
    BY DEF MethodIsRight, Method
  <2> QED BY <1>3, <2>1, FlagIsThere
<1>7. m.buf # Nothing => m.buf \in b.pmaps
  BY DEF MethodIsRight
<1>8. ASSUME NEW i \in DOMAIN m.steps
      PROVE  StatementIsClosed(b, m.steps[i], fields)
  <2> DEFINE in == m.segment[i]
             out == step(m.name, in)
             st == out.st
  <2>1. i \in DOMAIN m.segment /\ m.steps[i] = st
    BY DEF MethodIsRight, Method
  <2>2. IsInstruction(in)
    BY <1>2, <2>1 DEF Closed
  <2>3. StructFault(m.name, in) = "none"
    BY <1>1, <1>2, <2>1 DEF StructIsRight, Faults
  <2>4. out.kind # "error" /\ out.slots \subseteq b.slots /\ out.pmaps \subseteq b.pmaps
    BY <2>1 DEF MethodIsRight
  <2>5. DeclaredFor(m.name, in, st, out)
    BY <2>2, <2>3, <2>4, StepDeclared
  <2>6. structFields(m.name, in) \subseteq fields
    BY <1>3, <1>4, <2>1
  <2>7. HasBody(in) => NestedName(m.name, in) \in NestedMethodsOf(b) \cap StructsOf(b)
    <3> SUFFICES ASSUME HasBody(in)
                 PROVE  NestedName(m.name, in) \in NestedMethodsOf(b) \cap StructsOf(b)
      OBVIOUS
    <3>1. NestedName(m.name, in) \in NestedMethodsOf(b)
      BY <2>1 DEF NestedHasMethod, HasMethod, NestedMethodsOf
    <3>2. Struct(NestedName(m.name, in), in.instructions) \in code.structs
      BY <1>1, <1>2, <2>1 DEF StructIsRight, NestedIsRendered, Rendered
    <3>3. Struct(NestedName(m.name, in), in.instructions).name = NestedName(m.name, in)
      BY DEF Struct
    <3> QED BY <3>1, <3>2, <3>3 DEF StructsOf
  <2> HIDE DEF out, fields
  <2>8. StatementIsClosed(b, st, fields)
    BY <2>4, <2>5, <2>6, <2>7 DEF StatementIsClosed, DeclaredFor
  <2> QED BY <2>1, <2>8
<1> QED BY <1>5, <1>6, <1>7, <1>8 DEF MethodIsClosed

\* When the second pass is done, the block of the template is closed.
LEMMA BlockClosed ==
  ASSUME NEW Trees, Closed(Trees), SegmentsInv(Trees), NEW b,
         b.structs = code.structs, b.methods = code.methods,
         b.slots = code.slots, b.pmaps = code.pmaps,
         pass = "methods", calls = <<>>, StructsInv, MethodsInv, CalleesInv
  PROVE  BlockIsClosed(b, DOMAIN enums)
<1>1. \A s \in code.structs : StructIsRight(s)
  BY DEF StructsInv
<1>2. \A m \in code.methods : MethodIsRight(m)
  BY DEF MethodsInv
<1>3. \A m \in code.methods : \A i \in DOMAIN m.segment :
        HasBody(m.segment[i]) => NestedHasMethod(m.name, m.segment[i])
  BY DEF CalleesInv
<1>4. \A m \in b.methods : MethodIsClosed(b, m)
  BY <1>1, <1>2, <1>3, MethodClosed
<1>5. ASSUME NEW s \in b.structs, NEW f \in s.fields
      PROVE  f.type \in DeclaredTypes(b, DOMAIN enums)
  <2>1. \/ f.type \in Basic \/ f.type \in DOMAIN enums
        \/ \E t \in code.structs : f.type = t.name \/ f.type = <<"[]">> \o t.name
    BY <1>1, FieldTypes
  <2> QED BY <2>1 DEF DeclaredTypes, StructsOf
<1> QED BY <1>4, <1>5 DEF BlockIsClosed

\* A nested method that is right reads a map as its statements take bits.
LEMMA MethodMatches ==
  ASSUME NEW Trees, Closed(Trees), SegmentsInv(Trees), NEW m, MethodIsRight(m), ~m.topLevel
  PROVE  MapMatches(m)
<1>1. m.segment \in Seq(Trees)
  <2>1. Struct(m.name, m.segment).segment = m.segment
    BY DEF Struct
  <2> QED BY <2>1 DEF MethodIsRight, Rendered, SegmentsInv
<1>2. /\ DOMAIN m.steps = DOMAIN m.segment
      /\ \A i \in DOMAIN m.segment : m.steps[i] = step(m.name, m.segment[i]).st
  BY DEF MethodIsRight, Method
<1>3. m.buf # Nothing <=> \E i \in DOMAIN m.segment : UsesPMAPBit(m.segment[i])
  <2>1. m.buf = MapBuffer(m.name, m.segment, m.topLevel)
    BY DEF MethodIsRight, Method
  <2> QED BY <2>1 DEF MapBuffer, segmentNeedsPMAP, Buffer, Nothing
<1>4. \A i \in DOMAIN m.segment : BitMatches(m.segment[i], m.steps[i])
  BY <1>1, <1>2, StepBit DEF MethodIsRight, Closed
<1>5. (\E i \in DOMAIN m.steps : TakesBit(m.steps[i])) => m.buf # Nothing
  BY <1>2, <1>3, <1>4 DEF BitMatches
<1>6. OperatorsApply(m.segment) /\ m.buf # Nothing => \E i \in DOMAIN m.steps : TakesBit(m.steps[i])
  BY <1>2, <1>3, <1>4 DEF BitMatches, OperatorsApply
<1> QED BY <1>5, <1>6 DEF MapMatches

\* A closed block stays closed when enum types are added.
LEMMA MoreTypes ==
  ASSUME NEW b, NEW types, BlockIsClosed(b, types), NEW more, types \subseteq more
  PROVE  BlockIsClosed(b, more)
BY DEF BlockIsClosed, DeclaredTypes

-----------------------------------------------------------------------------
(* Calls, names, and what stays while code grows.                          *)

\* Strings; the prover does not know that these two are.
Word == STRING \cup {"X", "Elem"}

\* Templates and calls over a set of instructions.
TemplateSet(Trees) == [name : STRING, id : Seq(Nat), body : Seq(Trees)]
CallSet(Trees) == [name : Seq(Word), segment : Seq(Trees), at : Nat \ {0}]

\* The types; blocks may be any sequence, BlocksInv says what of.
GenTypeOK(Trees) ==
  /\ merged \in Seq(TemplateSet(Trees))
  /\ phase \in ParserPhases \cup {"refused", "panicked", "generated"}
  /\ pass \in {"idle", "structs", "methods"}
  /\ calls \in Seq(CallSet(Trees))
  /\ \E S : blocks \in Seq(S)
  /\ code = [structs |-> code.structs, methods |-> code.methods,
             slots |-> code.slots, pmaps |-> code.pmaps]
  /\ SegmentsInv(Trees)

\* The inductive invariant.
IInv(Trees) ==
  /\ GenTypeOK(Trees) /\ ControlInv /\ SourceInv /\ BlocksInv
  /\ StructsInv /\ PassedInv /\ RootInv /\ MethodsInv /\ CalleesInv

gvars == <<merged, phase, generatorVars>>

\* What the parser may do, as far as the generator can tell.
ParserStep(Trees) ==
  /\ phase = "parsing"
  /\ merged' \in Seq(TemplateSet(Trees)) /\ phase' \in ParserPhases
  /\ UNCHANGED generatorVars

\* The generator, after any parser that hands over such templates.
GeneratorSpec(Trees) ==
  /\ phase = "parsing" /\ merged = <<>> /\ GeneratorInit
  /\ [][ParserStep(Trees) \/ Generate]_gvars

-----------------------------------------------------------------------------
\* A set of naturals that is not empty has its least member.
LEMMA MinIsThere ==
  ASSUME NEW S, S \subseteq Nat, S # {}
  PROVE  Min(S) \in S
<1> DEFINE less == OpToRel(<, Nat)
<1>1. IsWellFoundedOn(less, Nat)
  BY NatLessThanWellFounded
<1>2. \A x, y \in Nat : y < x => <<y, x>> \in less
  BY DEF OpToRel
<1> HIDE DEF less
<1>3. PICK x \in S : \A y \in S : ~(<<y, x>> \in less)
  BY <1>1, WFMin
<1>4. \A y \in S : x <= y
  <2> SUFFICES ASSUME NEW y \in S PROVE x <= y
    OBVIOUS
  <2>1. x \in Nat /\ y \in Nat /\ ~(y < x)
    BY <1>2, <1>3
  <2> QED BY <2>1
<1> QED BY <1>3, <1>4 DEF Min

\* What Append does to a sequence.
LEMMA Pushed ==
  ASSUME NEW C, NEW s \in Seq(C), NEW c \in C
  PROVE  /\ Append(s, c) \in Seq(C) /\ Len(s) \in Nat
         /\ Len(Append(s, c)) = Len(s) + 1
         /\ \A k \in 1 .. Len(s) : Append(s, c)[k] = s[k]
         /\ Append(s, c)[Len(s) + 1] = c
         /\ Append(s, c) # <<>>
OBVIOUS

\* What Front does to a sequence.
LEMMA Popped ==
  ASSUME NEW C, NEW s \in Seq(C), s # <<>>
  PROVE  /\ Front(s) \in Seq(C) /\ Len(s) \in Nat \ {0}
         /\ Len(Front(s)) = Len(s) - 1
         /\ \A k \in 1 .. Len(s) - 1 : Front(s)[k] = s[k]
         /\ Front(s) = <<>> <=> Len(s) = 1
<1>1. Len(s) \in Nat \ {0}
  OBVIOUS
<1> DEFINE n == Len(s) - 1
<1>2. n \in Nat /\ 1 \in Int /\ \A i \in 1 .. n : s[i] \in C
  BY <1>1
<1>0. Front(s) = SubSeq(s, 1, n)
  BY DEF Front
<1> HIDE DEF n
<1>3. /\ SubSeq(s, 1, n) \in Seq(C)
      /\ Len(SubSeq(s, 1, n)) = IF 1 <= n THEN n - 1 + 1 ELSE 0
      /\ \A i \in 1 .. n - 1 + 1 : SubSeq(s, 1, n)[i] = s[1 + i - 1]
  BY <1>2, SubSeqProperties
<1>a. Front(s) \in Seq(C) /\ Len(Front(s)) = n
  BY <1>0, <1>2, <1>3
<1>b. \A k \in 1 .. n : Front(s)[k] = s[k]
  BY <1>0, <1>2, <1>3
<1>4. /\ Front(s) \in Seq(C) /\ Len(Front(s)) = Len(s) - 1
      /\ \A k \in 1 .. Len(s) - 1 : Front(s)[k] = s[k]
  BY <1>a, <1>b DEF n
<1>5. Front(s) = <<>> <=> Len(s) = 1
  BY <1>1, <1>4
<1> QED BY <1>1, <1>4, <1>5

\* A sequence of one element.
LEMMA Singleton ==
  ASSUME NEW S, NEW e \in S
  PROVE  <<e>> \in Seq(S)
OBVIOUS

\* A sequence over a set is one over a larger set.
LEMMA WiderSeq ==
  ASSUME NEW S, NEW T, S \subseteq T, NEW s \in Seq(S)
  PROVE  s \in Seq(T)
OBVIOUS

\* An exported name is a sequence of words.
LEMMA ExportedType ==
  ASSUME NEW name \in STRING
  PROVE  exported(name) \in Seq(Word)
<1>1. <<"X">> \in Seq(Word) /\ <<name>> \in Seq(Word)
  BY Singleton DEF Word
<1>2. name \in DOMAIN Words => Words[name] \in Seq(Word)
  <2>1. name \in DOMAIN Words => Words[name] \in Seq(STRING)
    BY WordsAssumption
  <2>2. STRING \subseteq Word
    BY DEF Word
  <2> HIDE DEF Word
  <2> QED BY <2>1, <2>2, WiderSeq
<1> QED BY <1>1, <1>2 DEF exported

\* So is the name of a nested struct.
LEMMA NameTypes ==
  ASSUME NEW prefix \in Seq(Word), NEW in, in.name \in STRING
  PROVE  NestedName(prefix, in) \in Seq(Word)
<1> DEFINE e == exported(in.name)
<1>1. e \in Seq(Word) /\ <<"Elem">> \in Seq(Word)
  BY ExportedType, Singleton DEF Word
<1> HIDE DEF e
<1>2. prefix \o e \in Seq(Word) /\ prefix \o e \o <<"Elem">> \in Seq(Word)
  BY <1>1
<1> QED BY <1>2 DEF NestedName, ElemName, e

\* Moving the innermost call on changes its at and nothing else.
LEMMA LaterCalls ==
  ASSUME NEW Trees, calls \in Seq(CallSet(Trees)), calls # <<>>
  PROVE  /\ Len(calls) \in Nat \ {0}
         /\ Top \in CallSet(Trees) /\ Top.at \in Nat \ {0} /\ Top.segment \in Seq(Trees)
         /\ Len(Top.segment) \in Nat
         /\ Later \in Seq(CallSet(Trees)) /\ Len(Later) = Len(calls)
         /\ \A k \in 1 .. Len(calls) :
              /\ Later[k].name = calls[k].name /\ Later[k].segment = calls[k].segment
              /\ Later[k].at = IF k = Len(calls) THEN calls[k].at + 1 ELSE calls[k].at
<1>1. Len(calls) \in Nat \ {0}
  OBVIOUS
<1>2. Top \in CallSet(Trees)
  BY <1>1 DEF Top
<1>3. Top.at \in Nat \ {0} /\ Top.segment \in Seq(Trees) /\ Len(Top.segment) \in Nat
  BY <1>2 DEF CallSet
<1>4. [Top EXCEPT !.at = @ + 1] \in CallSet(Trees)
  <2>1. Top.at + 1 \in Nat \ {0}
    BY <1>3
  <2> QED BY <1>2, <2>1 DEF CallSet
<1>5. Later = [calls EXCEPT ![Len(calls)] = [Top EXCEPT !.at = @ + 1]]
  BY <1>1 DEF Later, Top
<1>6. Later \in Seq(CallSet(Trees)) /\ Len(Later) = Len(calls)
  BY <1>1, <1>4, <1>5
<1>7. \A k \in 1 .. Len(calls) :
        Later[k] = IF k = Len(calls) THEN [Top EXCEPT !.at = @ + 1] ELSE calls[k]
  BY <1>1, <1>5
<1>8. \A k \in 1 .. Len(calls) :
        /\ Later[k].name = calls[k].name /\ Later[k].segment = calls[k].segment
        /\ Later[k].at = IF k = Len(calls) THEN calls[k].at + 1 ELSE calls[k].at
  BY <1>1, <1>2, <1>7 DEF CallSet, Top
<1> QED BY <1>1, <1>2, <1>3, <1>6, <1>8

\* The nested call is one for an instruction of the set.
LEMMA CurrentTree ==
  ASSUME NEW Trees, Closed(Trees), calls \in Seq(CallSet(Trees)), calls # <<>>,
         Top.at <= Len(Top.segment), HasBody(Current)
  PROVE  /\ Current.instructions \in Seq(Trees)
         /\ NestedName(Top.name, Current) \in Seq(Word)
         /\ Call(NestedName(Top.name, Current), Current.instructions) \in CallSet(Trees)
<1>1. Top \in CallSet(Trees) /\ Top.at \in Nat \ {0} /\ Len(Top.segment) \in Nat
  BY LaterCalls
<1>2. Current \in Trees
  BY <1>1 DEF Current, CallSet
<1>3. Current.name \in STRING
  BY <1>2 DEF Closed, HasBody, IsInstruction
<1>4. Current.instructions \in Seq(Trees)
  BY <1>2 DEF Closed
<1>5. NestedName(Top.name, Current) \in Seq(Word)
  BY <1>1, <1>3, NameTypes DEF CallSet
<1> QED BY <1>4, <1>5 DEF Call, CallSet

\* The blocks stay right while the templates and their code stay.
LEMMA SameBlocks ==
  ASSUME BlocksInv, UNCHANGED <<blocks, merged>>, DOMAIN enums \subseteq DOMAIN enums'
  PROVE  BlocksInv'
<1> SUFFICES ASSUME NEW k \in 1 .. Len(blocks)
             PROVE  BlockIsRight(k)'
  BY DEF BlocksInv
<1>1. BlockIsRight(k)
  BY DEF BlocksInv
<1>2. BlockIsClosed(blocks[k], DOMAIN enums')
  BY <1>1, MoreTypes DEF BlockIsRight
<1> QED BY <1>1, <1>2 DEF BlockIsRight

\* Registering a segment keeps the enum types and adds those it asks for.
LEMMA MoreEnums ==
  ASSUME NEW struct, NEW segment, enums' = Registered(enums, struct, segment)
  PROVE  /\ DOMAIN enums \subseteq DOMAIN enums'
         /\ EnumNames(struct, segment) \subseteq DOMAIN enums'
BY DEF Registered

\* What a rendered struct needs stays while the code and the enum types grow.
LEMMA StructStaysRight ==
  ASSUME NEW s, StructIsRight(s), code.structs \subseteq code.structs',
         DOMAIN enums \subseteq DOMAIN enums'
  PROVE  StructIsRight(s)'
BY DEF StructIsRight, NestedIsRendered, Rendered

\* What a rendered method needs stays while the code grows.
LEMMA MethodStaysRight ==
  ASSUME NEW m, MethodIsRight(m), code.structs \subseteq code.structs',
         code.slots \subseteq code.slots', code.pmaps \subseteq code.pmaps'
  PROVE  MethodIsRight(m)'
BY DEF MethodIsRight, Rendered

-----------------------------------------------------------------------------
(* Every action keeps the invariant.                                       *)

\* The parts of a call on the stack.
LEMMA CallTypes ==
  ASSUME NEW Trees, NEW cs \in Seq(CallSet(Trees)), NEW k \in 1 .. Len(cs)
  PROVE  /\ cs[k] \in CallSet(Trees)
         /\ cs[k].name \in Seq(Word) /\ cs[k].segment \in Seq(Trees)
         /\ cs[k].at \in Nat \ {0} /\ Len(cs[k].segment) \in Nat
<1>1. cs[k] \in CallSet(Trees)
  OBVIOUS
<1> HIDE DEF Word
<1>2. /\ cs[k].name \in Seq(Word) /\ cs[k].segment \in Seq(Trees)
      /\ cs[k].at \in Nat \ {0}
  BY <1>1 DEF CallSet
<1>3. Len(cs[k].segment) \in Nat
  BY <1>2
<1> QED BY <1>1, <1>2, <1>3

\* A pass begins with the call for the template.
LEMMA BeginTemplateKeeps ==
  ASSUME NEW Trees, Closed(Trees), IInv(Trees), BeginTemplate
  PROVE  IInv(Trees)'
<1>1. /\ phase = "parsed" /\ pass = "idle" /\ Len(blocks) < Len(merged)
      /\ UNCHANGED <<merged, phase, blocks, enums, source>>
      /\ pass' = "structs" /\ code' = NoCode
  BY DEF BeginTemplate, In
<1>2. Template' = Template
  BY <1>1 DEF Template
<1>3. Template \in TemplateSet(Trees)
  BY <1>1 DEF IInv, GenTypeOK, Template
<1> DEFINE c == Call(exported(Template.name), Template.body)
<1>4. calls' = <<c>>
  BY DEF BeginTemplate
<1>5. c \in CallSet(Trees)
  <2>1. Template.name \in STRING /\ Template.body \in Seq(Trees)
    BY <1>3 DEF TemplateSet
  <2>2. exported(Template.name) \in Seq(Word)
    BY <2>1, ExportedType
  <2> QED BY <2>1, <2>2 DEF Call, CallSet
<1>6. c.at = 1 /\ c.name = exported(Template.name) /\ c.segment = Template.body
  BY DEF Call
<1>7. Len(c.segment) \in Nat
  BY <1>5 DEF CallSet
<1> HIDE DEF c
<1>8. GenTypeOK(Trees)'
  <2>1. calls' \in Seq(CallSet(Trees))
    BY <1>4, <1>5, Singleton
  <2> QED BY <1>1, <2>1 DEF IInv, GenTypeOK, NoCode, SegmentsInv
<1>9. ControlInv'
  BY <1>1, <1>4, <1>6, <1>7 DEF IInv, ControlInv
<1>10. SourceInv'
  BY <1>1 DEF IInv, SourceInv, Source
<1>11. BlocksInv'
  BY <1>1, SameBlocks DEF IInv
<1>12. StructsInv' /\ MethodsInv' /\ CalleesInv'
  BY <1>1 DEF StructsInv, MethodsInv, CalleesInv, NoCode
<1>13. PassedInv'
  BY <1>4, <1>6 DEF PassedInv
<1>14. RootInv'
  BY <1>2, <1>4, <1>6 DEF RootInv
<1> QED BY <1>8, <1>9, <1>10, <1>11, <1>12, <1>13, <1>14 DEF IInv

\* An instruction without a body owes nothing.
LEMMA SkipInstructionKeeps ==
  ASSUME NEW Trees, Closed(Trees), IInv(Trees), SkipInstruction
  PROVE  IInv(Trees)'
<1>1. /\ phase = "parsed" /\ pass # "idle" /\ calls # <<>>
      /\ Top.at <= Len(Top.segment) /\ ~HasBody(Current) /\ calls' = Later
      /\ UNCHANGED <<merged, phase, blocks, enums, source, pass, code>>
  BY DEF SkipInstruction, Visiting, In
<1>2. calls \in Seq(CallSet(Trees))
  BY DEF IInv, GenTypeOK
<1>3. /\ Len(calls) \in Nat \ {0} /\ Top.at \in Nat \ {0} /\ Len(Top.segment) \in Nat
      /\ Later \in Seq(CallSet(Trees)) /\ Len(Later) = Len(calls)
      /\ \A k \in 1 .. Len(calls) :
           /\ Later[k].name = calls[k].name /\ Later[k].segment = calls[k].segment
           /\ Later[k].at = IF k = Len(calls) THEN calls[k].at + 1 ELSE calls[k].at
  BY <1>1, <1>2, LaterCalls
<1>4. Template' = Template
  BY <1>1 DEF Template
<1>5. \A k \in 1 .. Len(calls) : /\ calls[k].at \in Nat \ {0} /\ Len(calls[k].segment) \in Nat
                                 /\ calls[k].segment \in Seq(Trees)
  BY <1>2, CallTypes
<1>6. Later # <<>>
  BY <1>3
<1>8. GenTypeOK(Trees)'
  BY <1>1, <1>3 DEF IInv, GenTypeOK, SegmentsInv
<1>9. ControlInv'
  <2>1. ASSUME NEW k \in 1 .. Len(calls)
        PROVE  Later[k].at <= Len(Later[k].segment) + 1
    <3>1. calls[k].at <= Len(calls[k].segment) + 1
      BY DEF IInv, ControlInv
    <3>2. CASE k = Len(calls)
      BY <1>1, <1>3, <1>5, <3>2 DEF Top
    <3> QED BY <1>3, <1>5, <3>1, <3>2
  <2> QED BY <1>1, <1>3, <2>1 DEF IInv, ControlInv
<1>10. SourceInv'
  BY <1>1 DEF IInv, SourceInv, Source
<1>11. BlocksInv'
  BY <1>1, SameBlocks DEF IInv
<1>12. StructsInv'
  BY <1>1 DEF IInv, StructsInv, StructIsRight, NestedIsRendered, Rendered
<1>13. PassedInv'
  <2> SUFFICES ASSUME pass = "structs",
                      NEW k \in 1 .. Len(calls), NEW i \in 1 .. Later[k].at - 1,
                      HasBody(calls[k].segment[i])
               PROVE  \/ NestedIsRendered(calls[k].name, calls[k].segment[i])
                      \/ /\ k < Len(calls)
                         /\ IsCallFor(calls[k + 1], calls[k].name, calls[k].segment[i])
    BY <1>1, <1>3 DEF PassedInv, NestedIsRendered, Rendered, IsCallFor
  <2>1. i \in 1 .. calls[k].at - 1
    BY <1>1, <1>3, <1>5 DEF Current, Top
  <2> QED BY <2>1 DEF IInv, PassedInv
<1>14. RootInv'
  BY <1>1, <1>3, <1>4, <1>6 DEF IInv, RootInv
<1>15. MethodsInv'
  BY <1>1, <1>3 DEF IInv, MethodsInv, MethodIsRight, Rendered
<1>16. CalleesInv'
  <2> SUFFICES ASSUME pass = "methods", NEW m \in code.methods, NEW i \in DOMAIN m.segment,
                      HasBody(m.segment[i]), ~NestedHasMethod(m.name, m.segment[i])
               PROVE  \E k \in 1 .. Len(calls) : /\ calls[k].name = m.name
                                                 /\ calls[k].segment = m.segment
                                                 /\ Later[k].at <= i
    BY <1>1, <1>3 DEF CalleesInv, NestedHasMethod, HasMethod
  <2>1. PICK k \in 1 .. Len(calls) : /\ calls[k].name = m.name
                                     /\ calls[k].segment = m.segment
                                     /\ calls[k].at <= i
    BY DEF IInv, CalleesInv
  <2>2. i \in Nat
    <3>1. m.segment \in Seq(Trees)
      BY <1>5, <2>1
    <3> QED BY <3>1
  <2>3. CASE k = Len(calls)
    <3>1. calls[k].at # i
      BY <1>1, <2>1, <2>3 DEF Current, Top
    <3> QED BY <1>3, <1>5, <2>1, <2>2, <3>1
  <2> QED BY <1>3, <2>1, <2>3
<1> QED BY <1>8, <1>9, <1>10, <1>11, <1>12, <1>13, <1>14, <1>15, <1>16 DEF IInv

\* A nested call takes over what the instruction owes.
LEMMA NestedStructKeeps ==
  ASSUME NEW Trees, Closed(Trees), IInv(Trees), NestedStruct
  PROVE  IInv(Trees)'
<1> DEFINE c == Call(NestedName(Top.name, Current), Current.instructions)
           n == Len(calls)
<1>1. /\ phase = "parsed" /\ pass = "structs" /\ calls # <<>>
      /\ Top.at <= Len(Top.segment) /\ HasBody(Current) /\ calls' = Append(Later, c)
      /\ UNCHANGED <<merged, phase, blocks, enums, source, pass, code>>
  BY DEF NestedStruct, Visiting, In
<1>2. calls \in Seq(CallSet(Trees))
  BY DEF IInv, GenTypeOK
<1>3. /\ n \in Nat \ {0} /\ Top.at \in Nat \ {0} /\ Len(Top.segment) \in Nat
      /\ Later \in Seq(CallSet(Trees)) /\ Len(Later) = n
      /\ \A k \in 1 .. n :
           /\ Later[k].name = calls[k].name /\ Later[k].segment = calls[k].segment
           /\ Later[k].at = IF k = n THEN calls[k].at + 1 ELSE calls[k].at
  BY <1>1, <1>2, LaterCalls
<1>4. Template' = Template
  BY <1>1 DEF Template
<1>5. \A k \in 1 .. n : calls[k].at \in Nat \ {0} /\ Len(calls[k].segment) \in Nat
  BY <1>2, CallTypes
<1>6. c \in CallSet(Trees) /\ c.at = 1 /\ Len(c.segment) \in Nat
  <2>1. c \in CallSet(Trees) /\ Current.instructions \in Seq(Trees)
    BY <1>1, <1>2, CurrentTree
  <2> QED BY <2>1 DEF Call
<1>a. IsCallFor(c, Top.name, Current)
  BY DEF IsCallFor, Call
<1> HIDE DEF c
<1>7. /\ calls' \in Seq(CallSet(Trees)) /\ Len(calls') = n + 1 /\ calls' # <<>>
      /\ \A k \in 1 .. n : calls'[k] = Later[k]
      /\ calls'[n + 1] = c
  BY <1>1, <1>3, <1>6, Pushed
<1> HIDE DEF n
<1>8. GenTypeOK(Trees)'
  BY <1>1, <1>7 DEF IInv, GenTypeOK, SegmentsInv
<1>9. ControlInv'
  <2>1. ASSUME NEW k \in 1 .. n + 1
        PROVE  calls'[k].at <= Len(calls'[k].segment) + 1
    <3>1. k \in 1 .. n => calls[k].at <= Len(calls[k].segment) + 1
      BY DEF IInv, ControlInv, n
    <3>2. CASE k = n
      BY <1>1, <1>3, <1>5, <1>7, <3>2 DEF Top, n
    <3>3. CASE k < n
      <4>1. k \in 1 .. n /\ k # n
        BY <1>3, <3>3
      <4>2. Later[k].at = calls[k].at /\ Later[k].segment = calls[k].segment
        BY <1>3, <4>1
      <4> QED BY <1>7, <3>1, <4>1, <4>2
    <3>4. CASE k = n + 1
      BY <1>6, <1>7, <3>4
    <3> QED BY <1>3, <3>2, <3>3, <3>4
  <2> QED BY <1>1, <1>7, <2>1 DEF IInv, ControlInv
<1>10. SourceInv'
  BY <1>1 DEF IInv, SourceInv, Source
<1>11. BlocksInv'
  BY <1>1, SameBlocks DEF IInv
<1>12. StructsInv'
  BY <1>1 DEF IInv, StructsInv, StructIsRight, NestedIsRendered, Rendered
<1>13. PassedInv'
  <2> SUFFICES ASSUME NEW k \in 1 .. n + 1, NEW i \in 1 .. calls'[k].at - 1,
                      HasBody(calls'[k].segment[i])
               PROVE  \/ NestedIsRendered(calls'[k].name, calls'[k].segment[i])
                      \/ /\ k < n + 1
                         /\ IsCallFor(calls'[k + 1], calls'[k].name, calls'[k].segment[i])
    <3>1. \A name, in : NestedIsRendered(name, in)' <=> NestedIsRendered(name, in)
      BY <1>1 DEF NestedIsRendered, Rendered
    <3>2. \A x, name, in : IsCallFor(x, name, in)' <=> IsCallFor(x, name, in)
      BY DEF IsCallFor
    <3> QED BY <1>7, <3>1, <3>2 DEF PassedInv
  <2>1. k <= n
    BY <1>3, <1>6, <1>7
  <2>2. CASE i \in 1 .. calls[k].at - 1
    <3>1. \/ NestedIsRendered(calls[k].name, calls[k].segment[i])
          \/ k < n /\ IsCallFor(calls[k + 1], calls[k].name, calls[k].segment[i])
      BY <1>1, <1>3, <1>7, <2>1, <2>2 DEF IInv, PassedInv, n
    <3> QED BY <1>3, <1>7, <2>1, <3>1 DEF IsCallFor
  <2>3. CASE ~(i \in 1 .. calls[k].at - 1)
    <3>1. k = n /\ i = calls[k].at
      BY <1>3, <1>5, <1>7, <2>1, <2>3
    <3> QED BY <1>3, <1>7, <1>a, <3>1 DEF IsCallFor, Top, Current, n
  <2> QED BY <2>2, <2>3
<1>14. RootInv'
  BY <1>1, <1>3, <1>4, <1>7 DEF IInv, RootInv
<1>15. MethodsInv' /\ CalleesInv'
  BY <1>1 DEF MethodsInv, CalleesInv
<1> QED BY <1>8, <1>9, <1>10, <1>11, <1>12, <1>13, <1>14, <1>15 DEF IInv

\* A failure changes the phase only, and nothing is written after it.
LEMMA FailureKeeps ==
  ASSUME NEW Trees, IInv(Trees), phase = "parsed", phase' \in {"refused", "panicked"},
         UNCHANGED <<merged, generatorVars>>
  PROVE  IInv(Trees)'
<1> USE DEF generatorVars
<1>1. Template' = Template
  BY DEF Template
<1>2. GenTypeOK(Trees)'
  BY DEF IInv, GenTypeOK, SegmentsInv
<1>3. ControlInv' /\ SourceInv'
  BY DEF IInv, ControlInv, SourceInv, ParserPhases
<1>4. BlocksInv'
  BY SameBlocks DEF IInv
<1>5. StructsInv'
  BY DEF IInv, StructsInv, StructIsRight, NestedIsRendered, Rendered
<1>7. PassedInv'
  BY DEF IInv, PassedInv, IsCallFor, NestedIsRendered, Rendered
<1>8. MethodsInv' /\ CalleesInv'
  BY DEF IInv, MethodsInv, MethodIsRight, Rendered, CalleesInv, NestedHasMethod, HasMethod
<1>6. RootInv'
  BY <1>1 DEF IInv, RootInv, Rendered
<1> QED BY <1>2, <1>3, <1>4, <1>5, <1>6, <1>7, <1>8 DEF IInv

\* A call that returns is for a segment whose nested structs are all there.
LEMMA ReturningStruct ==
  ASSUME NEW Trees, IInv(Trees), Returning("structs"), Faults(Top.name, Top.segment) = {},
         NEW s, s = Struct(Top.name, Top.segment), code'.structs = code.structs \cup {s},
         enums' = Registered(enums, Top.name, Top.segment)
  PROVE  StructIsRight(s)' /\ s.segment = Top.segment /\ s.segment \in Seq(Trees)
<1>1. pass = "structs" /\ calls # <<>> /\ Top.at > Len(Top.segment)
  BY DEF Returning, In
<1>2. calls \in Seq(CallSet(Trees))
  BY DEF IInv, GenTypeOK
<1>3. Len(calls) \in Nat \ {0} /\ Top \in CallSet(Trees)
  BY <1>1, <1>2, LaterCalls
<1>4. /\ Top = calls[Len(calls)] /\ Top.at \in Nat \ {0}
      /\ Top.segment \in Seq(Trees) /\ Len(Top.segment) \in Nat
  BY <1>2, <1>3, CallTypes DEF Top
<1>5. s.name = Top.name /\ s.segment = Top.segment
  BY DEF Struct
<1>6. EnumNames(s.name, s.segment) \subseteq DOMAIN enums'
  BY <1>5, MoreEnums
<1>7. ASSUME NEW i \in DOMAIN s.segment, HasBody(s.segment[i])
      PROVE  NestedIsRendered(s.name, s.segment[i])'
  <2>1. i \in 1 .. Top.at - 1
    BY <1>1, <1>4, <1>5
  <2>2. NestedIsRendered(Top.name, Top.segment[i])
    BY <1>1, <1>3, <1>4, <1>5, <1>7, <2>1 DEF IInv, PassedInv
  <2> QED BY <1>5, <2>2 DEF NestedIsRendered, Rendered
<1> QED BY <1>4, <1>5, <1>6, <1>7 DEF StructIsRight

\* A call returns with its struct rendered, which was owed by the call below.
LEMMA EndOfStructKeeps ==
  ASSUME NEW Trees, Closed(Trees), IInv(Trees), EndOfStruct
  PROVE  IInv(Trees)'
<1> DEFINE n == Len(calls)
<1> PICK s : s = Struct(Top.name, Top.segment)
  OBVIOUS
<1>1. /\ phase = "parsed" /\ pass = "structs" /\ calls # <<>>
      /\ Top.at > Len(Top.segment)
      /\ UNCHANGED <<merged, blocks, source>>
  BY DEF EndOfStruct, Returning, In
<1>2. calls \in Seq(CallSet(Trees)) /\ Len(calls) \in Nat
  BY DEF IInv, GenTypeOK
<1>3. Template' = Template
  BY <1>1 DEF Template
<1>4. CASE Faults(Top.name, Top.segment) # {}
  <2> DEFINE faults == Faults(Top.name, Top.segment)
             why == StructFault(Top.name, Top.segment[Min(faults)])
  <2>1. why \in {"refused", "panicked"}
    <3>1. Len(Top.segment) \in Nat /\ Top.segment \in Seq(Trees)
      BY <1>1, <1>2, LaterCalls
    <3>2. faults \subseteq Nat
      BY <3>1 DEF Faults
    <3>3. Min(faults) \in faults
      BY <1>4, <3>2, MinIsThere
    <3> QED BY <3>3 DEF Faults, StructFault
  <2>2. Stopped(why)
    BY <1>4 DEF EndOfStruct
  <2> HIDE DEF why, faults
  <2> QED BY <1>1, <2>1, <2>2, FailureKeeps DEF Stopped, generatorVars
<1>5. CASE Faults(Top.name, Top.segment) = {}
  <2>1. /\ code' = [code EXCEPT !.structs = @ \cup {s}]
        /\ enums' = Registered(enums, Top.name, Top.segment)
        /\ calls' = Front(calls)
        /\ UNCHANGED <<phase, pass>>
    BY <1>5 DEF EndOfStruct
  <2>2. /\ code'.structs = code.structs \cup {s} /\ code'.methods = code.methods
        /\ code'.slots = code.slots /\ code'.pmaps = code.pmaps
        /\ code' = [structs |-> code'.structs, methods |-> code'.methods,
                    slots |-> code'.slots, pmaps |-> code'.pmaps]
    BY <2>1 DEF IInv, GenTypeOK
  <2>3. StructIsRight(s)' /\ s.segment = Top.segment /\ s.segment \in Seq(Trees)
    <3>1. Returning("structs")
      BY DEF EndOfStruct
    <3> QED BY <1>5, <2>1, <2>2, <3>1, ReturningStruct
  <2>a. s \in code'.structs
    BY <2>2
  <2>4. /\ calls' \in Seq(CallSet(Trees)) /\ Len(calls') = n - 1 /\ n \in Nat \ {0}
        /\ \A k \in 1 .. n - 1 : calls'[k] = calls[k]
        /\ calls' = <<>> <=> n = 1
    BY <1>1, <1>2, <2>1, Popped
  <2>5. DOMAIN enums \subseteq DOMAIN enums'
    BY <2>1, MoreEnums
  <2>6. \A t \in code.structs : StructIsRight(t)'
    BY <1>1, <2>2, <2>5, StructStaysRight DEF IInv, StructsInv
  <2> HIDE DEF n
  <2>8. GenTypeOK(Trees)'
    BY <1>1, <2>1, <2>2, <2>3, <2>4 DEF IInv, GenTypeOK, SegmentsInv
  <2>9. ControlInv'
    BY <1>1, <2>1, <2>4 DEF IInv, ControlInv, n
  <2>10. SourceInv'
    BY <1>1, <2>1 DEF IInv, SourceInv
  <2>11. BlocksInv'
    BY <1>1, <2>5, SameBlocks DEF IInv
  <2>12. StructsInv'
    <3>1. \A t \in code'.structs : StructIsRight(t)'
      BY <2>2, <2>3, <2>6
    <3>2. code'.methods = {}
      BY <1>1, <2>2 DEF IInv, StructsInv
    <3> QED BY <3>1, <3>2 DEF StructsInv
  <2>13. PassedInv'
    <3> SUFFICES ASSUME NEW k \in 1 .. n - 1, NEW i \in 1 .. calls[k].at - 1,
                        HasBody(calls[k].segment[i])
                 PROVE  \/ NestedIsRendered(calls[k].name, calls[k].segment[i])'
                        \/ /\ k < n - 1
                           /\ IsCallFor(calls[k + 1], calls[k].name, calls[k].segment[i])
      BY <2>4 DEF PassedInv, NestedIsRendered, Rendered, IsCallFor
    <3>1. \/ NestedIsRendered(calls[k].name, calls[k].segment[i])
          \/ k < n /\ IsCallFor(calls[k + 1], calls[k].name, calls[k].segment[i])
      BY <1>1, <2>4 DEF IInv, PassedInv, n
    <3>2. ASSUME k = n - 1, IsCallFor(calls[k + 1], calls[k].name, calls[k].segment[i])
          PROVE  NestedIsRendered(calls[k].name, calls[k].segment[i])'
      BY <2>4, <2>a, <3>2 DEF IsCallFor, NestedIsRendered, Rendered, Top, n
    <3> QED BY <2>2, <2>4, <3>1, <3>2 DEF NestedIsRendered, Rendered
  <2>14. RootInv'
    <3>1. calls[1].name = exported(Template.name) /\ calls[1].segment = Template.body
      BY <1>1 DEF IInv, RootInv
    <3>2. CASE n = 1
      <4>1. Rendered(exported(Template.name), Template.body)'
        BY <1>3, <2>a, <3>1, <3>2 DEF Rendered, Top, n
      <4> QED BY <1>3, <2>4, <3>2, <4>1 DEF RootInv
    <3>3. CASE n # 1
      BY <1>3, <2>4, <3>1, <3>3 DEF RootInv
    <3> QED BY <3>2, <3>3
  <2>15. MethodsInv' /\ CalleesInv'
    BY <1>1, <2>1 DEF MethodsInv, CalleesInv
  <2> QED BY <2>8, <2>9, <2>10, <2>11, <2>12, <2>13, <2>14, <2>15 DEF IInv
<1> QED BY <1>4, <1>5

\* A method that is rendered is right, and so are those there were.
LEMMA RenderedMethod ==
  ASSUME NEW Trees, IInv(Trees), NEW name, NEW segment \in Seq(Trees), NEW top \in BOOLEAN,
         NEW m, m = Method(name, segment, top), Rendered(name, segment),
         NEW stack, RenderMethod(name, segment, top, stack), ~Fails(Steps(name, segment))
  PROVE  /\ MethodIsRight(m)' /\ m.name = name /\ m.segment = segment /\ m.topLevel = top
         /\ code'.structs = code.structs /\ code'.methods = code.methods \cup {m}
         /\ code.slots \subseteq code'.slots /\ code.pmaps \subseteq code'.pmaps
         /\ code' = [structs |-> code'.structs, methods |-> code'.methods,
                     slots |-> code'.slots, pmaps |-> code'.pmaps]
         /\ enums' = Registered(enums, name, segment)
         /\ calls' = Append(stack, Call(name, segment))
         /\ pass' = "methods" /\ phase' = phase
<1> DEFINE allSlots == UNION {Steps(name, segment)[i].slots : i \in DOMAIN segment}
           allPmaps == UNION {Steps(name, segment)[i].pmaps : i \in DOMAIN segment}
           buf == {m.buf} \ {Nothing}
<1>1. m.name = name /\ m.segment = segment /\ m.topLevel = top
  BY DEF Method
<1>2. \A i \in DOMAIN segment : /\ step(name, segment[i]).kind # "error"
                                /\ step(name, segment[i]).slots \subseteq allSlots
                                /\ step(name, segment[i]).pmaps \subseteq allPmaps
  <2> SUFFICES ASSUME NEW i \in DOMAIN segment
               PROVE  /\ step(name, segment[i]).kind # "error"
                      /\ step(name, segment[i]).slots \subseteq allSlots
                      /\ step(name, segment[i]).pmaps \subseteq allPmaps
    OBVIOUS
  <2>1. i \in DOMAIN Steps(name, segment) /\ Steps(name, segment)[i] = step(name, segment[i])
    BY DEF Steps
  <2> HIDE DEF Steps
  <2> QED BY <2>1 DEF Fails
<1> HIDE DEF allSlots, allPmaps, buf
<1>3. code = [structs |-> code.structs, methods |-> code.methods,
              slots |-> code.slots, pmaps |-> code.pmaps]
  BY DEF IInv, GenTypeOK
<1>4. code' = [structs |-> code.structs, methods |-> code.methods \cup {m},
               slots |-> code.slots \cup allSlots,
               pmaps |-> code.pmaps \cup buf \cup allPmaps]
  <2>1. code' = [code EXCEPT !.methods = @ \cup {m}, !.slots = @ \cup allSlots,
                             !.pmaps = @ \cup buf \cup allPmaps]
    BY DEF RenderMethod, allSlots, allPmaps, buf
  <2> QED BY <1>3, <2>1
<1>5. /\ code'.structs = code.structs /\ code'.methods = code.methods \cup {m}
      /\ code.slots \subseteq code'.slots /\ code.pmaps \subseteq code'.pmaps
      /\ allSlots \subseteq code'.slots /\ allPmaps \subseteq code'.pmaps
      /\ buf \subseteq code'.pmaps
  <2>1. /\ code'.structs = code.structs /\ code'.methods = code.methods \cup {m}
        /\ code'.slots = code.slots \cup allSlots
        /\ code'.pmaps = code.pmaps \cup buf \cup allPmaps
    BY <1>4
  <2> QED BY <2>1
<1>6. m.buf # Nothing => m.buf \in code'.pmaps
  BY <1>5 DEF buf
<1>7. Rendered(name, segment)'
  BY <1>5 DEF Rendered
<1>8. MethodIsRight(m)'
  BY <1>1, <1>2, <1>5, <1>6, <1>7 DEF MethodIsRight
<1>9. code' = [structs |-> code'.structs, methods |-> code'.methods,
               slots |-> code'.slots, pmaps |-> code'.pmaps]
  BY <1>4
<1>10. /\ enums' = Registered(enums, name, segment)
       /\ calls' = Append(stack, Call(name, segment))
       /\ pass' = "methods" /\ phase' = phase
  BY DEF RenderMethod
<1> QED BY <1>1, <1>5, <1>8, <1>9, <1>10

\* Rendering a method pays for the instruction that calls it and adds the call
\* that owes the methods it calls itself.
LEMMA RenderMethodKeeps ==
  ASSUME NEW Trees, Closed(Trees), IInv(Trees),
         phase = "parsed", pass # "idle", pass = "structs" => calls = <<>>,
         NEW name \in Seq(Word), NEW segment \in Seq(Trees), NEW top \in BOOLEAN,
         NEW stack \in Seq(CallSet(Trees)), Len(stack) = Len(calls),
         Rendered(name, segment), UNCHANGED <<merged, blocks, source>>,
         RenderMethod(name, segment, top, stack),
         \A k \in 1 .. Len(stack) :
           /\ stack[k].name = calls[k].name /\ stack[k].segment = calls[k].segment
           /\ stack[k].at <= Len(stack[k].segment) + 1,
         \A m \in code.methods : \A i \in DOMAIN m.segment :
           HasBody(m.segment[i]) =>
             \/ NestedHasMethod(m.name, m.segment[i])
             \/ \E k \in 1 .. Len(stack) : /\ stack[k].name = m.name
                                           /\ stack[k].segment = m.segment
                                           /\ stack[k].at <= i
             \/ ~top /\ IsCallFor(Call(name, segment), m.name, m.segment[i])
  PROVE  IInv(Trees)'
<1> DEFINE steps == Steps(name, segment)
<1> PICK n : n = Len(stack)
  OBVIOUS
<1> PICK m : m = Method(name, segment, top)
  OBVIOUS
<1> PICK c : c = Call(name, segment)
  OBVIOUS
<1>1. CASE Fails(steps)
  BY <1>1, FailureKeeps DEF RenderMethod, Stopped, generatorVars
<1>2. CASE ~Fails(steps)
  <2>2. /\ MethodIsRight(m)' /\ m.name = name /\ m.segment = segment /\ m.topLevel = top
        /\ code'.structs = code.structs /\ code'.methods = code.methods \cup {m}
        /\ code.slots \subseteq code'.slots /\ code.pmaps \subseteq code'.pmaps
        /\ code' = [structs |-> code'.structs, methods |-> code'.methods,
                    slots |-> code'.slots, pmaps |-> code'.pmaps]
        /\ enums' = Registered(enums, name, segment)
        /\ calls' = Append(stack, Call(name, segment))
        /\ pass' = "methods" /\ phase' = phase
    BY <1>2, RenderedMethod
  <2>1. calls' = Append(stack, c) /\ pass' = "methods" /\ phase' = phase
    BY <2>2
  <2> HIDE DEF steps
  <2>3. DOMAIN enums \subseteq DOMAIN enums'
    BY <2>2, MoreEnums
  <2>4. c \in CallSet(Trees) /\ c.name = name /\ c.segment = segment /\ c.at = 1
        /\ Len(segment) \in Nat
    BY DEF Call, CallSet
  <2>5. /\ calls' \in Seq(CallSet(Trees)) /\ Len(calls') = n + 1 /\ n \in Nat
        /\ \A k \in 1 .. n : calls'[k] = stack[k]
        /\ calls'[n + 1] = c /\ calls' # <<>>
    BY <2>1, <2>4, Pushed
  <2>6. code.methods # {} => pass = "methods"
    BY DEF IInv, StructsInv, GenTypeOK
  <2>8. GenTypeOK(Trees)'
    BY <2>1, <2>2, <2>5 DEF IInv, GenTypeOK, SegmentsInv
  <2>9. ControlInv'
    <3>1. ASSUME NEW k \in 1 .. n + 1
          PROVE  calls'[k].at <= Len(calls'[k].segment) + 1
      <4>1. CASE k = n + 1
        BY <2>4, <2>5, <4>1
      <4>2. CASE k \in 1 .. n
        BY <2>5, <4>2
      <4> QED BY <2>5, <4>1, <4>2
    <3> QED BY <2>1, <2>5, <3>1 DEF IInv, ControlInv, ParserPhases
  <2>10. SourceInv'
    BY <2>1 DEF IInv, SourceInv
  <2>11. BlocksInv'
    BY <2>3, SameBlocks DEF IInv
  <2>12. StructsInv'
    <3>1. \A t \in code.structs : StructIsRight(t)'
      BY <2>2, <2>3, StructStaysRight DEF IInv, StructsInv
    <3> QED BY <2>1, <2>2, <3>1 DEF StructsInv
  <2>13. PassedInv' /\ RootInv'
    BY <2>1 DEF PassedInv, RootInv
  <2>14. MethodsInv'
    <3>1. \A r \in code.methods : MethodIsRight(r)'
      <4> SUFFICES ASSUME NEW r \in code.methods
                   PROVE  MethodIsRight(r)'
        OBVIOUS
      <4>1. MethodIsRight(r)
        BY <2>6 DEF IInv, MethodsInv
      <4> QED BY <2>2, <4>1, MethodStaysRight
    <3>2. ASSUME NEW k \in 1 .. n + 1
          PROVE  Rendered(calls[k].name, calls[k].segment)'
      <4>1. CASE k = n + 1
        BY <2>2, <2>4, <2>5, <4>1 DEF Rendered
      <4>2. CASE k \in 1 .. n
        <5>1. pass = "methods"
          BY <2>5, <4>2 DEF IInv, GenTypeOK
        <5>2. Rendered(calls[k].name, calls[k].segment)
          BY <4>2, <5>1 DEF IInv, MethodsInv
        <5> QED BY <2>2, <2>5, <4>2, <5>2 DEF Rendered
      <4> QED BY <2>5, <4>1, <4>2
    <3> QED BY <2>2, <2>5, <3>1, <3>2 DEF MethodsInv, Rendered
  <2>15. CalleesInv'
    <3> SUFFICES ASSUME NEW r \in code'.methods, NEW i \in DOMAIN r.segment,
                        HasBody(r.segment[i])
                 PROVE  \/ NestedHasMethod(r.name, r.segment[i])'
                        \/ \E k \in 1 .. n + 1 : /\ calls'[k].name = r.name
                                                 /\ calls'[k].segment = r.segment
                                                 /\ calls'[k].at <= i
      BY <2>5 DEF CalleesInv
    <3>1. CASE r \in code.methods
      <4>1. CASE NestedHasMethod(r.name, r.segment[i])
        BY <2>2, <4>1 DEF NestedHasMethod, HasMethod
      <4>2. CASE \E k \in 1 .. n : /\ stack[k].name = r.name
                                   /\ stack[k].segment = r.segment
                                   /\ stack[k].at <= i
        <5>1. PICK k \in 1 .. n : /\ stack[k].name = r.name
                                  /\ stack[k].segment = r.segment
                                  /\ stack[k].at <= i
          BY <4>2
        <5>2. k \in 1 .. n + 1 /\ calls'[k] = stack[k]
          BY <2>5
        <5> QED BY <5>1, <5>2
      <4>3. CASE ~top /\ IsCallFor(c, r.name, r.segment[i])
        BY <2>2, <2>4, <4>3 DEF IsCallFor, NestedHasMethod, HasMethod
      <4> QED BY <3>1, <4>1, <4>2, <4>3
    <3>2. CASE r = m
      <4>1. 1 <= i
        BY <2>2, <3>2
      <4>2. n + 1 \in 1 .. n + 1
        BY <2>5
      <4>3. c.name = r.name /\ c.segment = r.segment /\ c.at <= i
        BY <2>2, <2>4, <3>2, <4>1
      <4> QED BY <2>5, <4>2, <4>3
    <3> QED BY <2>2, <3>1, <3>2
  <2> QED BY <2>8, <2>9, <2>10, <2>11, <2>12, <2>13, <2>14, <2>15 DEF IInv
<1> QED BY <1>1, <1>2

\* The second pass begins when the struct of the template is rendered.
LEMMA BeginMethodsKeeps ==
  ASSUME NEW Trees, Closed(Trees), IInv(Trees), BeginMethods
  PROVE  IInv(Trees)'
<1> PICK name : name = exported(Template.name)
  OBVIOUS
<1> PICK segment : segment = Template.body
  OBVIOUS
<1>1. /\ phase = "parsed" /\ pass = "structs" /\ calls = <<>>
      /\ UNCHANGED <<merged, blocks, source>>
      /\ RenderMethod(name, segment, TRUE, <<>>)
  BY DEF BeginMethods, In
<1>2. name \in Seq(Word) /\ segment \in Seq(Trees)
  <2>1. Template \in TemplateSet(Trees)
    BY <1>1 DEF IInv, GenTypeOK, ControlInv, Template
  <2>2. Template.name \in STRING /\ segment \in Seq(Trees)
    BY <2>1 DEF TemplateSet
  <2> QED BY <2>2, ExportedType
<1>3. Rendered(name, segment)
  BY <1>1 DEF IInv, RootInv
<1>4. code.methods = {}
  BY <1>1 DEF IInv, StructsInv
<1>5. <<>> \in Seq(CallSet(Trees)) /\ Len(<<>>) = 0 /\ Len(calls) = 0
  BY <1>1
<1>6. \A k \in 1 .. 0 : FALSE
  OBVIOUS
<1> QED BY <1>1, <1>2, <1>3, <1>4, <1>5, <1>6, RenderMethodKeeps

\* A nested method is rendered for a struct that the first pass has rendered.
LEMMA NestedMethodKeeps ==
  ASSUME NEW Trees, Closed(Trees), IInv(Trees), NestedMethod
  PROVE  IInv(Trees)'
<1> PICK name : name = NestedName(Top.name, Current)
  OBVIOUS
<1> PICK segment : segment = Current.instructions
  OBVIOUS
<1> PICK stack : stack = Later
  OBVIOUS
<1> PICK n : n = Len(calls)
  OBVIOUS
<1> PICK top \in BOOLEAN : top = FALSE
  OBVIOUS
<1>1. /\ phase = "parsed" /\ pass = "methods" /\ calls # <<>>
      /\ Top.at <= Len(Top.segment) /\ HasBody(Current)
      /\ UNCHANGED <<merged, blocks, source>>
      /\ RenderMethod(name, segment, top, stack)
  BY DEF NestedMethod, Visiting, In
<1>2. calls \in Seq(CallSet(Trees))
  BY DEF IInv, GenTypeOK
<1>3. /\ n \in Nat \ {0} /\ Top.at \in Nat \ {0} /\ Len(Top.segment) \in Nat
      /\ stack \in Seq(CallSet(Trees)) /\ Len(stack) = n
      /\ \A k \in 1 .. n :
           /\ stack[k].name = calls[k].name /\ stack[k].segment = calls[k].segment
           /\ stack[k].at = IF k = n THEN calls[k].at + 1 ELSE calls[k].at
  BY <1>1, <1>2, LaterCalls
<1>4. name \in Seq(Word) /\ segment \in Seq(Trees)
  BY <1>1, <1>2, CurrentTree
<1>5. \A k \in 1 .. n : /\ calls[k].at \in Nat \ {0} /\ Len(calls[k].segment) \in Nat
                        /\ calls[k].segment \in Seq(Trees)
  BY <1>2, CallTypes
<1>6. Top = calls[n] /\ Top.at \in DOMAIN Top.segment
  <2>1. Top = calls[n] /\ Top.segment \in Seq(Trees)
    BY <1>2, <1>3, <1>5 DEF Top
  <2> QED BY <1>1, <1>3, <2>1
<1>7. Rendered(name, segment)
  <2>1. Rendered(Top.name, Top.segment)
    BY <1>1, <1>3, <1>6 DEF IInv, MethodsInv
  <2>2. PICK s : s = Struct(Top.name, Top.segment)
    OBVIOUS
  <2>3. s \in code.structs /\ s.name = Top.name /\ s.segment = Top.segment
    BY <2>1, <2>2 DEF Rendered, Struct
  <2>4. StructIsRight(s)
    BY <1>1, <2>3 DEF IInv, StructsInv
  <2> QED BY <1>1, <1>6, <2>3, <2>4 DEF StructIsRight, NestedIsRendered, Current
<1>8. ASSUME NEW k \in 1 .. n
      PROVE  stack[k].at <= Len(stack[k].segment) + 1
  <2>1. calls[k].at <= Len(calls[k].segment) + 1
    BY DEF IInv, ControlInv
  <2>2. CASE k = n
    BY <1>1, <1>3, <1>5, <1>6, <2>2
  <2> QED BY <1>3, <1>5, <2>1, <2>2
<1>9. ASSUME NEW m \in code.methods, NEW i \in DOMAIN m.segment, HasBody(m.segment[i]),
             ~NestedHasMethod(m.name, m.segment[i])
      PROVE  \/ \E k \in 1 .. n : /\ stack[k].name = m.name
                                  /\ stack[k].segment = m.segment
                                  /\ stack[k].at <= i
             \/ IsCallFor(Call(name, segment), m.name, m.segment[i])
  <2>1. PICK k \in 1 .. n : /\ calls[k].name = m.name
                            /\ calls[k].segment = m.segment
                            /\ calls[k].at <= i
    BY <1>1, <1>9 DEF IInv, CalleesInv
  <2>2. i \in Nat
    <3>1. m.segment \in Seq(Trees)
      BY <1>5, <2>1
    <3> QED BY <3>1
  <2>3. CASE k = n /\ i = calls[k].at
    BY <1>6, <2>1, <2>3 DEF IsCallFor, Call, Current
  <2>4. CASE ~(k = n /\ i = calls[k].at)
    <3>1. stack[k].at <= i
      BY <1>3, <1>5, <2>1, <2>2, <2>4
    <3> QED BY <1>3, <2>1, <3>1
  <2> QED BY <2>3, <2>4
<1>10. \A m \in code.methods : \A i \in DOMAIN m.segment :
         HasBody(m.segment[i]) =>
           \/ NestedHasMethod(m.name, m.segment[i])
           \/ \E k \in 1 .. Len(stack) : /\ stack[k].name = m.name
                                         /\ stack[k].segment = m.segment
                                         /\ stack[k].at <= i
           \/ ~top /\ IsCallFor(Call(name, segment), m.name, m.segment[i])
  BY <1>3, <1>9
<1>11. \A k \in 1 .. Len(stack) :
         /\ stack[k].name = calls[k].name /\ stack[k].segment = calls[k].segment
         /\ stack[k].at <= Len(stack[k].segment) + 1
  BY <1>3, <1>8
<1>12. /\ pass # "idle" /\ (pass = "structs" => calls = <<>>)
       /\ top \in BOOLEAN /\ stack \in Seq(CallSet(Trees)) /\ Len(stack) = Len(calls)
  BY <1>1, <1>3
<1> QED BY <1>1, <1>4, <1>7, <1>10, <1>11, <1>12, RenderMethodKeeps

\* A call returns when it owes nothing.
LEMMA EndOfMethodKeeps ==
  ASSUME NEW Trees, Closed(Trees), IInv(Trees), EndOfMethod
  PROVE  IInv(Trees)'
<1> PICK n : n = Len(calls)
  OBVIOUS
<1>1. /\ phase = "parsed" /\ pass = "methods" /\ calls # <<>>
      /\ Top.at > Len(Top.segment) /\ calls' = Front(calls)
      /\ UNCHANGED <<merged, phase, blocks, enums, source, pass, code>>
  BY DEF EndOfMethod, Returning, In
<1>2. calls \in Seq(CallSet(Trees))
  BY DEF IInv, GenTypeOK
<1>3. /\ calls' \in Seq(CallSet(Trees)) /\ Len(calls') = n - 1 /\ n \in Nat \ {0}
      /\ \A k \in 1 .. n - 1 : calls'[k] = calls[k]
  BY <1>1, <1>2, Popped
<1>4. /\ Top = calls[n] /\ Top.at \in Nat \ {0} /\ Len(Top.segment) \in Nat
      /\ Top.segment \in Seq(Trees)
  BY <1>1, <1>2, LaterCalls DEF Top
<1>5. GenTypeOK(Trees)'
  BY <1>1, <1>3 DEF IInv, GenTypeOK, SegmentsInv
<1>6. ControlInv'
  BY <1>1, <1>3 DEF IInv, ControlInv
<1>7. SourceInv'
  BY <1>1 DEF IInv, SourceInv, Source
<1>8. BlocksInv'
  BY <1>1, SameBlocks DEF IInv
<1>9. StructsInv'
  BY <1>1 DEF IInv, StructsInv, StructIsRight, NestedIsRendered, Rendered
<1>10. PassedInv' /\ RootInv'
  BY <1>1 DEF PassedInv, RootInv
<1>11. MethodsInv'
  BY <1>1, <1>3 DEF IInv, MethodsInv, MethodIsRight, Rendered
<1>12. CalleesInv'
  <2> SUFFICES ASSUME NEW m \in code.methods, NEW i \in DOMAIN m.segment,
                      HasBody(m.segment[i]), ~NestedHasMethod(m.name, m.segment[i])
               PROVE  \E k \in 1 .. n - 1 : /\ calls[k].name = m.name
                                            /\ calls[k].segment = m.segment
                                            /\ calls[k].at <= i
    BY <1>1, <1>3 DEF CalleesInv, NestedHasMethod, HasMethod
  <2>1. PICK k \in 1 .. n : /\ calls[k].name = m.name
                            /\ calls[k].segment = m.segment
                            /\ calls[k].at <= i
    BY <1>1 DEF IInv, CalleesInv
  <2>2. k # n
    BY <1>1, <1>4, <2>1
  <2>3. k \in 1 .. n - 1
    BY <1>3, <2>2
  <2> QED BY <2>1, <2>3
<1> QED BY <1>5, <1>6, <1>7, <1>8, <1>9, <1>10, <1>11, <1>12 DEF IInv

\* A template is done when no call is left.
LEMMA EndOfTemplateKeeps ==
  ASSUME NEW Trees, Closed(Trees), IInv(Trees), EndOfTemplate
  PROVE  IInv(Trees)'
<1> PICK b : b = Block
  OBVIOUS
<1> PICK n : n = Len(blocks)
  OBVIOUS
<1>1. /\ phase = "parsed" /\ pass = "methods" /\ calls = <<>>
      /\ blocks' = Append(blocks, b) /\ pass' = "idle"
      /\ UNCHANGED <<merged, phase, enums, source, calls, code>>
  BY DEF EndOfTemplate, In
<1>2. /\ b.name = exported(merged[n + 1].name)
      /\ b.structs = code.structs /\ b.methods = code.methods
      /\ b.slots = code.slots /\ b.pmaps = code.pmaps
  BY DEF Block, Template
<1>3. SegmentsInv(Trees)
  BY DEF IInv, GenTypeOK
<1>4. BlockIsClosed(b, DOMAIN enums)
  BY <1>1, <1>2, <1>3, BlockClosed DEF IInv
<1>5. \A m \in b.methods : ~m.topLevel => MapMatches(m)
  BY <1>1, <1>2, <1>3, MethodMatches DEF IInv, MethodsInv
<1>6. /\ n \in Nat /\ Len(blocks') = n + 1 /\ blocks'[n + 1] = b
      /\ \A k \in 1 .. n : blocks'[k] = blocks[k]
      /\ \E S : blocks' \in Seq(S)
  <2>1. PICK S : blocks \in Seq(S)
    BY DEF IInv, GenTypeOK
  <2>2. blocks \in Seq(S \cup {b}) /\ b \in S \cup {b}
    BY <2>1, WiderSeq
  <2>3. PICK T : T = S \cup {b}
    OBVIOUS
  <2>4. blocks \in Seq(T) /\ b \in T
    BY <2>2, <2>3
  <2>5. /\ Append(blocks, b) \in Seq(T) /\ Len(blocks) \in Nat
        /\ Len(Append(blocks, b)) = Len(blocks) + 1
        /\ \A k \in 1 .. Len(blocks) : Append(blocks, b)[k] = blocks[k]
        /\ Append(blocks, b)[Len(blocks) + 1] = b
    BY <2>4, Pushed
  <2> QED BY <1>1, <2>5
<1>7. n < Len(merged) /\ Len(merged) \in Nat
  BY <1>1 DEF IInv, ControlInv, GenTypeOK
<1>8. GenTypeOK(Trees)'
  BY <1>1, <1>6 DEF IInv, GenTypeOK, SegmentsInv
<1>9. ControlInv'
  BY <1>1, <1>6, <1>7 DEF IInv, ControlInv, ParserPhases
<1>10. SourceInv'
  BY <1>1 DEF IInv, SourceInv
<1>11. BlocksInv'
  <2> SUFFICES ASSUME NEW k \in 1 .. n + 1
               PROVE  BlockIsRight(k)'
    BY <1>6 DEF BlocksInv
  <2>1. CASE k = n + 1
    BY <1>1, <1>2, <1>4, <1>5, <1>6, <2>1 DEF BlockIsRight
  <2>2. CASE k \in 1 .. n
    <3>1. BlockIsRight(k)
      BY <2>2 DEF IInv, BlocksInv
    <3> QED BY <1>1, <1>6, <2>2, <3>1 DEF BlockIsRight
  <2> QED BY <1>6, <2>1, <2>2
<1>12. StructsInv' /\ PassedInv' /\ RootInv' /\ MethodsInv' /\ CalleesInv'
  BY <1>1 DEF StructsInv, PassedInv, RootInv, MethodsInv, CalleesInv
<1> QED BY <1>8, <1>9, <1>10, <1>11, <1>12 DEF IInv

\* The source is what all templates made.
LEMMA WriteSourceKeeps ==
  ASSUME NEW Trees, IInv(Trees), WriteSource
  PROVE  IInv(Trees)'
<1>1. /\ phase = "parsed" /\ pass = "idle" /\ Len(blocks) = Len(merged)
      /\ phase' = "generated" /\ source' = Source
      /\ UNCHANGED <<merged, blocks, enums, pass, calls, code>>
  BY DEF WriteSource, In
<1>2. GenTypeOK(Trees)'
  BY <1>1 DEF IInv, GenTypeOK, SegmentsInv
<1>3. ControlInv'
  BY <1>1 DEF IInv, ControlInv, ParserPhases
<1>4. SourceInv'
  BY <1>1 DEF SourceInv, Source, Nothing
<1>5. BlocksInv'
  BY <1>1, SameBlocks DEF IInv
<1>6. StructsInv' /\ PassedInv' /\ RootInv' /\ MethodsInv' /\ CalleesInv'
  BY <1>1 DEF StructsInv, PassedInv, RootInv, MethodsInv, CalleesInv
<1> QED BY <1>2, <1>3, <1>4, <1>5, <1>6 DEF IInv

\* The generator is idle while the parser runs.
LEMMA ParserStepKeeps ==
  ASSUME NEW Trees, IInv(Trees), ParserStep(Trees)
  PROVE  IInv(Trees)'
<1>1. /\ phase = "parsing" /\ phase' \in ParserPhases
      /\ merged' \in Seq(TemplateSet(Trees))
      /\ UNCHANGED <<blocks, enums, source, pass, calls, code>>
  BY DEF ParserStep, generatorVars
<1>2. blocks = <<>> /\ pass = "idle" /\ calls = <<>>
  BY <1>1 DEF IInv, ControlInv, ParserPhases
<1>3. GenTypeOK(Trees)'
  BY <1>1 DEF IInv, GenTypeOK, SegmentsInv
<1>4. ControlInv'
  BY <1>1, <1>2 DEF ControlInv
<1>5. SourceInv'
  BY <1>1 DEF IInv, SourceInv, ParserPhases
<1>6. BlocksInv'
  BY <1>1, <1>2 DEF BlocksInv
<1>7. StructsInv' /\ PassedInv' /\ RootInv' /\ MethodsInv' /\ CalleesInv'
  BY <1>1, <1>2 DEF StructsInv, PassedInv, RootInv, MethodsInv, CalleesInv
<1> QED BY <1>3, <1>4, <1>5, <1>6, <1>7 DEF IInv

\* A step that changes nothing.
LEMMA StutterKeeps ==
  ASSUME NEW Trees, IInv(Trees), UNCHANGED gvars
  PROVE  IInv(Trees)'
<1> USE DEF gvars, generatorVars
<1>1. Template' = Template
  BY DEF Template
<1>2. GenTypeOK(Trees)'
  BY DEF IInv, GenTypeOK, SegmentsInv
<1>3. ControlInv' /\ SourceInv'
  BY DEF IInv, ControlInv, SourceInv, Source
<1>4. BlocksInv'
  BY SameBlocks DEF IInv
<1>5. StructsInv'
  BY DEF IInv, StructsInv, StructIsRight, NestedIsRendered, Rendered
<1>7. PassedInv'
  BY DEF IInv, PassedInv, IsCallFor, NestedIsRendered, Rendered
<1>8. MethodsInv' /\ CalleesInv'
  BY DEF IInv, MethodsInv, MethodIsRight, Rendered, CalleesInv, NestedHasMethod, HasMethod
<1>6. RootInv'
  BY <1>1 DEF IInv, RootInv, Rendered
<1> QED BY <1>2, <1>3, <1>4, <1>5, <1>6, <1>7, <1>8 DEF IInv

\* The invariant holds at first.
LEMMA GeneratorInitial ==
  ASSUME NEW Trees, phase = "parsing", merged = <<>>, GeneratorInit
  PROVE  IInv(Trees)
<1>1. /\ blocks = <<>> /\ source = Nothing /\ pass = "idle" /\ calls = <<>> /\ code = NoCode
  BY DEF GeneratorInit
<1>2. GenTypeOK(Trees)
  <2>1. \E S : blocks \in Seq(S)
    BY <1>1, <<>> \in Seq({})
  <2> QED BY <1>1, <2>1 DEF GenTypeOK, NoCode, SegmentsInv, ParserPhases
<1>3. ControlInv /\ SourceInv /\ BlocksInv
  BY <1>1 DEF ControlInv, SourceInv, BlocksInv
<1>4. StructsInv /\ PassedInv /\ RootInv /\ MethodsInv /\ CalleesInv
  BY <1>1 DEF StructsInv, PassedInv, RootInv, MethodsInv, CalleesInv
<1> QED BY <1>2, <1>3, <1>4 DEF IInv

\* IInv is an invariant of the generator, whatever the templates.
THEOREM GeneratorInvariant ==
  ASSUME NEW CONSTANT Trees, Closed(Trees)
  PROVE  GeneratorSpec(Trees) => []IInv(Trees)
<1>1. phase = "parsing" /\ merged = <<>> /\ GeneratorInit => IInv(Trees)
  BY GeneratorInitial
<1>2. IInv(Trees) /\ [ParserStep(Trees) \/ Generate]_gvars => IInv(Trees)'
  BY BeginTemplateKeeps, SkipInstructionKeeps, NestedStructKeeps, EndOfStructKeeps,
     BeginMethodsKeeps, NestedMethodKeeps, EndOfMethodKeeps, EndOfTemplateKeeps,
     WriteSourceKeeps, ParserStepKeeps, StutterKeeps DEF Generate
<1> QED BY <1>1, <1>2, PTL DEF GeneratorSpec

\* AllOrNothing, for all templates: generate writes the code of every template,
\* in order, or returns an error and writes none.
THEOREM WholeOrNothing ==
  ASSUME NEW CONSTANT Trees, Closed(Trees)
  PROVE  GeneratorSpec(Trees) => []AllOrNothing
<1>1. IInv(Trees) => AllOrNothing
  <2> SUFFICES ASSUME IInv(Trees) PROVE AllOrNothing
    OBVIOUS
  <2>1. source # Nothing <=> phase = "generated"
    BY DEF IInv, SourceInv
  <2>2. ASSUME phase = "generated"
        PROVE  /\ DOMAIN source.blocks = DOMAIN merged /\ DOMAIN source.router = DOMAIN merged
               /\ \A i \in DOMAIN merged : /\ source.blocks[i].name = exported(merged[i].name)
                                           /\ source.router[i] = RouterEntry(merged[i])
    <3>1. /\ source.blocks = blocks /\ Len(blocks) = Len(merged)
          /\ source.router = [i \in DOMAIN merged |-> RouterEntry(merged[i])]
      BY <2>2 DEF IInv, SourceInv, Source
    <3>2. DOMAIN blocks = 1 .. Len(blocks) /\ DOMAIN merged = 1 .. Len(merged)
      <4>1. PICK S : blocks \in Seq(S)
        BY DEF IInv, GenTypeOK
      <4>2. merged \in Seq(TemplateSet(Trees))
        BY DEF IInv, GenTypeOK
      <4> QED BY <4>1, <4>2
    <3> HIDE DEF RouterEntry
    <3> QED BY <3>1, <3>2 DEF IInv, BlocksInv, BlockIsRight
  <2> QED BY <2>1, <2>2 DEF AllOrNothing
<1> QED BY <1>1, GeneratorInvariant, PTL

\* CodeIsClosed, for all templates: what the generated methods refer to, the two
\* passes have declared, at the types at which it is used.
THEOREM SourceIsClosed ==
  ASSUME NEW CONSTANT Trees, Closed(Trees)
  PROVE  GeneratorSpec(Trees) => []CodeIsClosed
<1>1. IInv(Trees) => CodeIsClosed
  <2> SUFFICES ASSUME IInv(Trees), source # Nothing, NEW i \in DOMAIN source.blocks
               PROVE  BlockIsClosed(source.blocks[i], DOMAIN source.enums)
    BY DEF CodeIsClosed
  <2>1. source = Source
    BY DEF IInv, SourceInv
  <2>2. source.blocks = blocks /\ DOMAIN source.enums = DOMAIN enums
    BY <2>1 DEF Source, buildEnumViews
  <2>3. DOMAIN blocks = 1 .. Len(blocks)
    <3>1. PICK S : blocks \in Seq(S)
      BY DEF IInv, GenTypeOK
    <3> QED BY <3>1
  <2> QED BY <2>2, <2>3 DEF IInv, BlocksInv, BlockIsRight
<1> QED BY <1>1, GeneratorInvariant, PTL

\* MapsMatchStatements, for all templates: segmentNeedsPMAP and the rendering of
\* the steps agree on the presence maps.
THEOREM MapsAreRight ==
  ASSUME NEW CONSTANT Trees, Closed(Trees)
  PROVE  GeneratorSpec(Trees) => []MapsMatchStatements
<1>1. IInv(Trees) => MapsMatchStatements
  <2> SUFFICES ASSUME IInv(Trees), NEW k \in DOMAIN blocks, NEW m \in blocks[k].methods,
                      ~m.topLevel
               PROVE  MapMatches(m)
    BY DEF MapsMatchStatements
  <2>1. DOMAIN blocks = 1 .. Len(blocks)
    <3>1. PICK S : blocks \in Seq(S)
      BY DEF IInv, GenTypeOK
    <3> QED BY <3>1
  <2> QED BY <2>1 DEF IInv, BlocksInv, BlockIsRight
<1> QED BY <1>1, GeneratorInvariant, PTL
=============================================================================
