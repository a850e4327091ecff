--------------------------- MODULE TemplateSyntax ---------------------------
(***************************************************************************)
(* From XML elements to instructions: the pure part of the template        *)
(* parser.  It works in two passes, element to raw instruction and raw     *)
(* instruction to instruction, because a raw instruction may be kept in a  *)
(* <define> and resolved later, where it is used.                          *)
(*                                                                         *)
(* An element is [tag, attrs, kids]: tag is its local name, attrs maps the *)
(* attributes it has to their values, kids are its child elements.  What   *)
(* encoding/xml makes of a well-formed document is that tree.  A number in *)
(* an attribute is as IsInteger says; text that is no number is <<>>.      *)
(*                                                                         *)
(* The dictionary and key attributes, which nothing reads afterwards, and  *)
(* the field ids are left out.                                             *)
(***************************************************************************)
EXTENDS Instructions

CONSTANT MaxID   \* the largest id, for 2^32 - 1

ASSUME MaxIDAssumption == MaxID \in Nat

\* A list that fails is one error, whatever else it has.
Checked(instrs) == IF Fails(instrs) THEN <<Error>> ELSE instrs

Attr(e, a) == IF a \in DOMAIN e.attrs THEN e.attrs[a] ELSE ""
Prefer(a, b) == IF a # "" THEN a ELSE b

KidsIn(e, tags)  == SelectSeq(e.kids, LAMBDA k : k.tag \in tags)
KidsBut(e, tags) == SelectSeq(e.kids, LAMBDA k : k.tag \notin tags)
Mapped(Op(_), s) == [i \in DOMAIN s |-> Op(s[i])]
LastOf(Op(_), s) == IF s = <<>> THEN Nothing ELSE Op(Last(s))

parseID(number) == IF IsInteger(number) /\ number[1] \in 0 .. MaxID THEN number ELSE <<>>
BadID(e) == "id" \in DOMAIN e.attrs /\ parseID(e.attrs.id) = <<>>

-----------------------------------------------------------------------------
(* Operators, lengths and the members of enums.                            *)

OperatorTags ==
  [constant |-> "Constant", default |-> "Default", copy |-> "Copy",
   increment |-> "Increment", delta |-> "Delta", tail |-> "Tail"]

opKindOf(tag) == IF tag \in DOMAIN OperatorTags THEN OperatorTags[tag] ELSE "None"

parseOp(e) ==
  [kind |-> opKindOf(e.tag), hasInitial |-> "value" \in DOMAIN e.attrs,
   initial |-> IF "value" \in DOMAIN e.attrs THEN e.attrs.value ELSE <<>>]

NoOp == [kind |-> "None", hasInitial |-> FALSE, initial |-> <<>>]

convertOp(op) == IF op = Nothing THEN NoOp ELSE op

\* The last operator among the children of an element.
OpIn(e)   == LastOf(parseOp, KidsIn(e, DOMAIN OperatorTags))
parseOpWrapper(e) == LastOf(parseOp, e.kids)

parseLengthDef(e) ==
  [kind |-> "length", op |-> LastOf(parseOp, e.kids)]

parseElementAttr(e) ==
  [name |-> Attr(e, "name"), id |-> Attr(e, "id"),
   value |-> IF "value" \in DOMAIN e.attrs THEN e.attrs.value ELSE <<>>]

-----------------------------------------------------------------------------
(* Raw instructions.                                                       *)

\* The children of a type element that are instructions; others are foreign.
InstructionTags ==
  {"field", "int32", "uInt32", "int64", "uInt64", "decimal", "string",
   "byteVector", "ascii", "sequence", "group", "enum", "set", "boolean",
   "timestamp", "bitGroup", "templateRef", "type"}

Raw(e, kind, tag) ==
  [kind |-> kind, tag |-> tag, name |-> Attr(e, "name"), badID |-> BadID(e),
   presence |-> Attr(e, "presence"), charset |-> Attr(e, "charset"),
   unit |-> Attr(e, "unit"), op |-> Nothing, exponent |-> Nothing,
   mantissa |-> Nothing, elements |-> <<>>, typeRef |-> "", typeOp |-> Nothing,
   typePresence |-> "", length |-> Nothing, instructions |-> <<>>,
   bits |-> <<>>, bitsOp |-> Nothing]

\* What a type element adds to the raw instruction around it.
applyDefToRI(ri, def) ==
  LET Over(old, new) == IF new = Nothing THEN old ELSE new
      OverAll(old, new) == IF new = <<>> THEN old ELSE new
  IN  [ri EXCEPT !.op = Over(@, def.op), !.exponent = Over(@, def.exponent),
                 !.mantissa = Over(@, def.mantissa), !.length = Over(@, def.length),
                 !.elements = OverAll(@, def.elements),
                 !.instructions = OverAll(@, def.instructions),
                 !.charset = Prefer(@, def.charset), !.unit = Prefer(@, def.unit)]

RECURSIVE parseRawInstruction(_)

\* The body of a type element, in a <define>, a <field> or standing alone.
parseTypeElement(e) ==
  [innerTag |-> e.tag, charset |-> Attr(e, "charset"), unit |-> Attr(e, "unit"),
   op |-> OpIn(e),
   exponent |-> LastOf(parseOpWrapper, KidsIn(e, {"exponent"})),
   mantissa |-> LastOf(parseOpWrapper, KidsIn(e, {"mantissa"})),
   elements |-> Mapped(parseElementAttr, KidsIn(e, {"element"})),
   length |-> LastOf(parseLengthDef, KidsIn(e, {"length"})),
   instructions |-> Mapped(parseRawInstruction, KidsIn(e, InstructionTags))]

\* <field>: a type, or the name of one, and operators; the last of each wins.
parseFieldElement(e) ==
  LET Child(ri, k) ==
        IF k.tag = "type"
        THEN [ri EXCEPT !.typeRef = Attr(k, "name"),
                        !.typePresence = Attr(k, "presence"), !.typeOp = OpIn(k)]
        ELSE IF k.tag \in DOMAIN OperatorTags THEN [ri EXCEPT !.op = parseOp(k)]
        ELSE IF k.tag = "reference" THEN ri
        ELSE applyDefToRI([ri EXCEPT !.tag = k.tag], parseTypeElement(k))
  IN  FoldLeft(Child, Raw(e, "field", ""), e.kids)

parseLegacyField(e) == applyDefToRI(Raw(e, "field", e.tag), parseTypeElement(e))

parseSequenceElement(e) ==
  [Raw(e, "sequence", "") EXCEPT
     !.length = LastOf(parseLengthDef, KidsIn(e, {"length"})),
     !.instructions = Mapped(parseRawInstruction, KidsBut(e, {"length", "typeRef"}))]

parseGroupElement(e) ==
  [Raw(e, "group", "") EXCEPT
     !.instructions = Mapped(parseRawInstruction, KidsBut(e, {"typeRef"}))]

\* The fields of a bit group are kept apart from an operator among them.
parseBitGroupElement(e) ==
  [Raw(e, "field", "bitGroup") EXCEPT
     !.bits = Mapped(parseRawInstruction, KidsBut(e, DOMAIN OperatorTags)),
     !.bitsOp = OpIn(e)]

parseRawInstruction(e) ==
  CASE e.tag = "field"       -> parseFieldElement(e)
    [] e.tag = "sequence"    -> parseSequenceElement(e)
    [] e.tag = "group"       -> parseGroupElement(e)
    [] e.tag = "bitGroup"    -> parseBitGroupElement(e)
    [] e.tag = "templateRef" -> Raw(e, "templateRef", "")
    [] OTHER                 -> parseLegacyField(e)

-----------------------------------------------------------------------------
(* Types.                                                                  *)

ScalarTypes ==
  [int32 |-> "Int32", uInt32 |-> "UInt32", int64 |-> "Int64", uInt64 |-> "UInt64",
   decimal |-> "Decimal", byteVector |-> "ByteVector", enum |-> "Enum",
   set |-> "Set", boolean |-> "Boolean", timestamp |-> "Timestamp",
   bitGroup |-> "BitGroup"]

\* The types that only a bit group may use, with their widths.
SignedBits   == [int2 |-> 2, int3 |-> 3, int4 |-> 4, int5 |-> 5, int6 |-> 6, int7 |-> 7]
UnsignedBits == [uInt1 |-> 1, uInt2 |-> 2, uInt3 |-> 3, uInt4 |-> 4, uInt5 |-> 5,
                 uInt6 |-> 6, uInt7 |-> 7]

Unknown == "unknown type"

baseTypeOf(tag, charset) ==
  CASE tag \in DOMAIN ScalarTypes  -> ScalarTypes[tag]
    [] tag \in {"string", "ascii"} ->
         IF charset = "unicode" THEN "UnicodeString" ELSE "ASCIIString"
    [] tag \in DOMAIN SignedBits   -> "Int32"
    [] tag \in DOMAIN UnsignedBits -> "UInt32"
    [] OTHER                       -> Unknown

bitWidthOf(tag) ==
  CASE tag \in DOMAIN SignedBits   -> SignedBits[tag]
    [] tag \in DOMAIN UnsignedBits -> UnsignedBits[tag]
    [] OTHER                       -> 0

IsOptional(presence) == presence = "optional"

\* The i-th member of an enum stands for i - 1, that of a set for its bit; a
\* value attribute is taken instead if it is an integer.
assignElementValues(elements, type) ==
  LET auto(i) == IF type = "Set" THEN 2 ^ (i - 1) ELSE i - 1
  IN  [i \in DOMAIN elements |->
         [label |-> Prefer(elements[i].id, elements[i].name),
          value |-> IF IsInteger(elements[i].value) THEN elements[i].value[1] ELSE auto(i)]]

-----------------------------------------------------------------------------
(* Resolution: raw instructions to instructions, with the definitions that *)
(* have been read so far.                                                  *)

Field(name, type, optional, op) ==
  [kind |-> "field", name |-> name, type |-> type, optional |-> optional,
   width |-> 0, op |-> op, exponent |-> Nothing, mantissa |-> Nothing,
   elements |-> <<>>, typeName |-> "", unit |-> "", bitFields |-> <<>>]

RECURSIVE resolveField(_, _)

resolveBitGroupFields(bits, defines) ==
  LET fields == SelectSeq(bits, LAMBDA ri : ri.kind # "templateRef")
      all    == [i \in DOMAIN fields |-> resolveField(fields[i], defines)]
  IN  SelectSeq(Checked(all), LAMBDA f : f.kind # "nil")

\* <type name="T">: the definition of T with what the field overrides.
resolveTypeRef(ri, defines) ==
  IF ri.typeRef \notin DOMAIN defines THEN Error
  ELSE LET def    == defines[ri.typeRef]
           merged == [ri EXCEPT
             !.tag = def.innerTag, !.typeRef = "", !.typeOp = Nothing,
             !.charset = def.charset, !.unit = def.unit,
             !.op = IF ri.typeOp # Nothing THEN ri.typeOp
                    ELSE IF ri.op # Nothing THEN ri.op ELSE def.op,
             !.exponent = def.exponent, !.mantissa = def.mantissa,
             !.elements = def.elements, !.bits = <<>>, !.bitsOp = Nothing,
             !.presence = Prefer(@, ri.typePresence)]
           f == resolveField(merged, defines)
       IN  IF def.innerTag \in {"group", "sequence"} THEN NilField
           ELSE IF f.kind = "field" /\ f.type \in {"Enum", "Set"}
           THEN [f EXCEPT !.typeName = ri.typeRef] ELSE f

resolveField(ri, defines) ==
  LET tag   == Prefer(ri.tag, "uInt32")
      type  == baseTypeOf(tag, ri.charset)
      parts == type = "Decimal" /\ (ri.exponent # Nothing \/ ri.mantissa # Nothing)
      bits  == resolveBitGroupFields(ri.bits, defines)
      op    == IF parts THEN Nothing
               ELSE IF type = "BitGroup" /\ ri.bitsOp # Nothing THEN ri.bitsOp ELSE ri.op
  IN  IF ri.typeRef # "" THEN resolveTypeRef(ri, defines)
      ELSE IF ri.badID THEN Error
      ELSE IF type = Unknown THEN NilField
      ELSE IF type = "BitGroup" /\ Fails(bits) THEN Error
      ELSE [Field(ri.name, type, IsOptional(ri.presence), convertOp(op)) EXCEPT
              !.width = bitWidthOf(tag),
              !.unit = IF type = "Timestamp" THEN ri.unit ELSE "",
              !.exponent = IF parts THEN ri.exponent ELSE Nothing,
              !.mantissa = IF parts THEN ri.mantissa ELSE Nothing,
              !.elements = IF type \in {"Enum", "Set"}
                           THEN assignElementValues(ri.elements, type) ELSE <<>>,
              !.bitFields = IF type = "BitGroup" THEN bits ELSE <<>>]

\* The length of a sequence is optional when the sequence is.  It has a name of
\* its own, which nothing reads.
buildLengthField(length, optional) ==
  Field("", "UInt32", optional,
        IF length = Nothing THEN NoOp ELSE convertOp(length.op))

TemplateRef(name) == [kind |-> "templateRef", name |-> name, dynamic |-> name = ""]

RECURSIVE resolveInstruction(_, _)

resolveAll(ris, defines) ==
  Checked([i \in DOMAIN ris |-> resolveInstruction(ris[i], defines)])

resolveSequence(ri, defines) ==
  LET optional == IsOptional(ri.presence)
      body == resolveAll(ri.instructions, defines)
  IN  IF ri.badID \/ Fails(body) THEN Error
      ELSE [kind |-> "sequence", name |-> ri.name, optional |-> optional,
            length |-> buildLengthField(ri.length, optional),
            instructions |-> body]

resolveGroup(ri, defines) ==
  LET body == resolveAll(ri.instructions, defines)
  IN  IF ri.badID \/ Fails(body) THEN Error
      ELSE [kind |-> "group", name |-> ri.name,
            optional |-> IsOptional(ri.presence), instructions |-> body]

resolveInstruction(ri, defines) ==
  CASE ri.kind = "field"       -> resolveField(ri, defines)
    [] ri.kind = "sequence"    -> resolveSequence(ri, defines)
    [] ri.kind = "group"       -> resolveGroup(ri, defines)
    [] ri.kind = "templateRef" -> TemplateRef(ri.name)

\* The children of a <template>.
parseInstructionList(e, defines) ==
  LET resolved(k) == IF k.tag = "templateRef" THEN TemplateRef(Attr(k, "name"))
                     ELSE resolveInstruction(parseRawInstruction(k), defines)
  IN  Checked(Mapped(resolved, KidsBut(e, {"typeRef", "view"})))
=============================================================================
