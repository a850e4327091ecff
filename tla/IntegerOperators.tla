-------------------------- MODULE IntegerOperators --------------------------
(***************************************************************************)
(* The field operators on integer fields: one definition per Go function   *)
(* of fastcore/operator_int.go and fastcore/operator_int_signed.go.  Each  *)
(* takes the wire, the field's declaration and its dictionary slot, and    *)
(* returns what the Go function returns together with what it leaves       *)
(* behind: [wire, slot, val, present, err].                                *)
(*                                                                         *)
(* A field is [type, op, width, optional, hasInitial, initial].            *)
(***************************************************************************)
EXTENDS Wire

States    == {"Undefined", "Empty", "Assigned"}
Operators == {"None", "Constant", "Default", "Copy", "Increment", "Delta", "Tail"}

ErrD5 == "ErrD5"    \* no initial value for an undefined mandatory field
ErrD6 == "ErrD6"    \* mandatory field empty, or delta on an empty value
ErrUnsupported == "errUnsupportedOperator"    \* an operator the type has not
Errors == {EndOfStream, Overflow, ErrD5, ErrD6, ErrUnsupported}

UndefinedSlot == [State |-> "Undefined", Val |-> 0]
Assign(v)     == [State |-> "Assigned", Val |-> v]
SetEmpty(s)   == [s EXCEPT !.State = "Empty"]

\* Mutant: the increment wraps at 64 bits only.
wrapUint_Wide(v, width) == v

wrapUint(v, width) == IF width = 32 THEN ToUint32(v) ELSE v
wrapInt(v, width)  == IF width = 32 THEN ToInt32(v) ELSE v

-----------------------------------------------------------------------------
(* The three ways an operator can return.                                  *)

Present(w, s, v) ==
  [wire |-> w, slot |-> s, val |-> v, present |-> TRUE, err |-> NoError]
Absent(w, s) ==
  [wire |-> w, slot |-> s, val |-> 0, present |-> FALSE, err |-> NoError]
Fail(w, s, e) ==
  [wire |-> w, slot |-> s, val |-> 0, present |-> FALSE, err |-> e]

\* A value read and delivered without touching the slot.
DeliverRead(rd, s) ==
  IF rd.err # NoError THEN Fail(rd.wire, s, rd.err)
  ELSE IF rd.null THEN Absent(rd.wire, s)
  ELSE Present(rd.wire, s, rd.val)

\* Mutant: the value is delivered and not kept.
DeliverAndKeep_Forgetful(rd, s) ==
  IF rd.err # NoError THEN Fail(rd.wire, s, rd.err)
  ELSE IF rd.null THEN Absent(rd.wire, SetEmpty(s))
  ELSE Present(rd.wire, s, rd.val)

\* A value read, delivered and kept as the previous value; NULL empties it.
DeliverAndKeep(rd, s) ==
  IF rd.err # NoError THEN Fail(rd.wire, s, rd.err)
  ELSE IF rd.null THEN Absent(rd.wire, SetEmpty(s))
  ELSE Present(rd.wire, Assign(rd.val), rd.val)

\* Mutant: the slot is emptied before the mandatory field is refused.
ResolveUndefined_Empties(w, f, s) ==
  IF f.hasInitial THEN Present(w, Assign(f.initial), f.initial)
  ELSE IF f.optional THEN Absent(w, SetEmpty(s))
  ELSE Fail(w, SetEmpty(s), ErrD5)

\* Mutant: nobody asks whether the field is optional.
ResolveUndefined_Absent(w, f, s) ==
  IF f.hasInitial THEN Present(w, Assign(f.initial), f.initial)
  ELSE Absent(w, SetEmpty(s))

\* The operators' answer when nothing is transmitted and no previous value
\* was ever established.
ResolveUndefined(w, f, s) ==
  IF f.hasInitial THEN Present(w, Assign(f.initial), f.initial)
  ELSE IF f.optional THEN Absent(w, SetEmpty(s))
  ELSE Fail(w, s, ErrD5)

ResolveEmpty(w, f, s) == IF f.optional THEN Absent(w, s) ELSE Fail(w, s, ErrD6)

-----------------------------------------------------------------------------
(* Unsigned fields.                                                        *)

ReadUintFor(w, f) == IF f.optional THEN ReadNullableUint(w) ELSE ReadUint(w)

DecodeUintNone(w, f, s) == DeliverRead(ReadUintFor(w, f), s)

\* A mandatory constant occupies no presence-map bit.
DecodeUintConstant(w, f, s) ==
  IF ~f.optional THEN Present(w, s, f.initial)
  ELSE IF PresenceBit(w) THEN Present(AfterBit(w), s, f.initial)
  ELSE Absent(AfterBit(w), s)

DecodeUintDefault(w, f, s) ==
  IF PresenceBit(w) THEN DeliverRead(ReadUintFor(AfterBit(w), f), s)
  ELSE IF f.hasInitial THEN Present(AfterBit(w), s, f.initial)
  ELSE IF f.optional THEN Absent(AfterBit(w), s)
  ELSE Fail(AfterBit(w), s, ErrD5)

readUintPrevious(w, f, s) == DeliverAndKeep(ReadUintFor(w, f), s)

resolveUintPrevious(w, f, s) ==
  CASE s.State = "Assigned"  -> Present(w, s, s.Val)
    [] s.State = "Undefined" -> ResolveUndefined(w, f, s)
    [] s.State = "Empty"     -> ResolveEmpty(w, f, s)

DecodeUintCopy(w, f, s) ==
  IF PresenceBit(w) THEN readUintPrevious(AfterBit(w), f, s)
  ELSE resolveUintPrevious(AfterBit(w), f, s)

DecodeUintIncrement(w, f, s) ==
  LET next == wrapUint(ToUint64(s.Val + 1), f.width)
  IN  CASE PresenceBit(w) -> readUintPrevious(AfterBit(w), f, s)
        [] ~PresenceBit(w) /\ s.State = "Assigned" ->
             Present(AfterBit(w), Assign(next), next)
        [] ~PresenceBit(w) /\ s.State = "Undefined" ->
             ResolveUndefined(AfterBit(w), f, s)
        [] ~PresenceBit(w) /\ s.State = "Empty" ->
             ResolveEmpty(AfterBit(w), f, s)

\* The base of a delta; an Empty previous value has none (ErrD6).
uintDeltaBase(f, s) ==
  IF s.State = "Assigned" THEN s.Val
  ELSE IF f.hasInitial THEN f.initial ELSE 0

DecodeUintDelta(w, f, s) ==
  LET d == readDelta(w, f.optional)
      v == ToUint64(uintDeltaBase(f, s) + d.val)
  IN  IF d.err # NoError THEN Fail(d.wire, s, d.err)
      ELSE IF d.null THEN Absent(d.wire, s)
      ELSE IF s.State = "Empty" THEN Fail(d.wire, s, ErrD6)
      ELSE Present(d.wire, Assign(v), v)

\* The call the generator emits for the operator of a field: it has none for
\* a tail, which the parser lets a number have, and decodes it as no operator.
uintDecodeCall(w, f, s) ==
  CASE f.op \in {"None", "Tail"} -> DecodeUintNone(w, f, s)
    [] f.op = "Constant"  -> DecodeUintConstant(w, f, s)
    [] f.op = "Default"   -> DecodeUintDefault(w, f, s)
    [] f.op = "Copy"      -> DecodeUintCopy(w, f, s)
    [] f.op = "Increment" -> DecodeUintIncrement(w, f, s)
    [] f.op = "Delta"     -> DecodeUintDelta(w, f, s)

\* The entry that takes the operator when it runs refuses a tail.
DecodeUint(w, f, s) ==
  IF f.op = "Tail" THEN Fail(w, s, ErrUnsupported) ELSE uintDecodeCall(w, f, s)

-----------------------------------------------------------------------------
(* Signed fields.  The increment shares resolveIntPrevious with the copy.  *)

ReadIntFor(w, f) == IF f.optional THEN ReadNullableInt(w) ELSE ReadInt(w)

DecodeIntNone(w, f, s) == DeliverRead(ReadIntFor(w, f), s)

DecodeIntConstant(w, f, s) ==
  IF ~f.optional THEN Present(w, s, f.initial)
  ELSE IF PresenceBit(w) THEN Present(AfterBit(w), s, f.initial)
  ELSE Absent(AfterBit(w), s)

DecodeIntDefault(w, f, s) ==
  IF PresenceBit(w) THEN DeliverRead(ReadIntFor(AfterBit(w), f), s)
  ELSE IF f.hasInitial THEN Present(AfterBit(w), s, f.initial)
  ELSE IF f.optional THEN Absent(AfterBit(w), s)
  ELSE Fail(AfterBit(w), s, ErrD5)

readIntPrevious(w, f, s) == DeliverAndKeep(ReadIntFor(w, f), s)

resolveIntPrevious(w, f, s) ==
  CASE s.State = "Assigned"  -> Present(w, s, s.Val)
    [] s.State = "Undefined" -> ResolveUndefined(w, f, s)
    [] s.State = "Empty"     -> ResolveEmpty(w, f, s)

DecodeIntCopy(w, f, s) ==
  IF PresenceBit(w) THEN readIntPrevious(AfterBit(w), f, s)
  ELSE resolveIntPrevious(AfterBit(w), f, s)

DecodeIntIncrement(w, f, s) ==
  LET next == wrapInt(ToInt64(s.Val + 1), f.width)
  IN  IF PresenceBit(w) THEN readIntPrevious(AfterBit(w), f, s)
      ELSE IF s.State = "Assigned"
           THEN Present(AfterBit(w), Assign(next), next)
      ELSE resolveIntPrevious(AfterBit(w), f, s)

intDeltaBase(f, s) ==
  IF s.State = "Assigned" THEN s.Val
  ELSE IF f.hasInitial THEN f.initial ELSE 0

DecodeIntDelta(w, f, s) ==
  LET d == readDelta(w, f.optional)
      v == ToInt64(intDeltaBase(f, s) + d.val)
  IN  IF d.err # NoError THEN Fail(d.wire, s, d.err)
      ELSE IF d.null THEN Absent(d.wire, s)
      ELSE IF s.State = "Empty" THEN Fail(d.wire, s, ErrD6)
      ELSE Present(d.wire, Assign(v), v)

intDecodeCall(w, f, s) ==
  CASE f.op \in {"None", "Tail"} -> DecodeIntNone(w, f, s)
    [] f.op = "Constant"  -> DecodeIntConstant(w, f, s)
    [] f.op = "Default"   -> DecodeIntDefault(w, f, s)
    [] f.op = "Copy"      -> DecodeIntCopy(w, f, s)
    [] f.op = "Increment" -> DecodeIntIncrement(w, f, s)
    [] f.op = "Delta"     -> DecodeIntDelta(w, f, s)

DecodeInt(w, f, s) ==
  IF f.op = "Tail" THEN Fail(w, s, ErrUnsupported) ELSE intDecodeCall(w, f, s)

-----------------------------------------------------------------------------
(* Any integer field: as generated code decodes it, and as a caller does   *)
(* who passes the operator along.                                          *)

DecodeInteger(w, f, s) ==
  IF f.type = "uint" THEN uintDecodeCall(w, f, s) ELSE intDecodeCall(w, f, s)

DispatchInteger(w, f, s) ==
  IF f.type = "uint" THEN DecodeUint(w, f, s) ELSE DecodeInt(w, f, s)

\* The values a field of this type can hold, whatever its declared width:
\* the reader and the delta operator work in 64 bits.
Values(f) == IF f.type = "uint" THEN Uint64 ELSE Int64

\* The dictionary entries such a field can have.
Slots(f) == [State : States, Val : Values(f)]

Fields(initials) ==
  {f \in [type : {"uint", "int"}, op : Operators, width : {32, 64},
          optional : BOOLEAN, hasInitial : BOOLEAN, initial : initials] :
     /\ f.initial \in Values(f)
     /\ f.op = "Constant" => f.hasInitial
     /\ ~f.hasInitial => f.initial = 0}
=============================================================================
