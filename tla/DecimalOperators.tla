-------------------------- MODULE DecimalOperators --------------------------
(***************************************************************************)
(* Decimals: a signed mantissa of 64 bits and a signed exponent of 32, the *)
(* exponent first on the wire.  A decimal has one operator for the whole   *)
(* number, or one for its exponent and one for its mantissa; then it is    *)
(* two integer fields, the mantissa a mandatory one that is there only     *)
(* beside an exponent.  A declaration is                                   *)
(*   [kind |-> "number", op, optional, hasInitial, initial |-> a decimal]  *)
(*   [kind |-> "parts",  exp |-> an integer field, mant |-> another]       *)
(* and the dictionary entries are [State, Val |-> a decimal], or a record  *)
(* of two slots.  Results are those of IntegerOperators.                   *)
(***************************************************************************)
EXTENDS IntegerOperators

Int32 == -Half32 .. (Half32 - 1)

Decimal(m, e) == [mant |-> m, exp |-> e]
Zero          == Decimal(0, 0)
Decimals      == [mant : Int64, exp : Int32]

UndefinedNumber == [State |-> "Undefined", Val |-> Zero]

\* A result without a decimal carries the zero one.
Blank(res) == IF res.present THEN res ELSE [res EXCEPT !.val = Zero]

-----------------------------------------------------------------------------
(* ReadScaledNumber and ReadNullableScaledNumber: the exponent is cut to   *)
(* 32 bits without an error, and without one there is no mantissa.         *)

ReadScaled(w, optional) ==
  LET e == readDelta(w, optional)
      m == ReadInt(e.wire)
  IN  IF e.err # NoError \/ e.null THEN [e EXCEPT !.val = Zero]
      ELSE [m EXCEPT !.val = Decimal(@, ToInt32(e.val))]

-----------------------------------------------------------------------------
(* One operator for the number.                                            *)

DecimalConstant(w, f, s) ==
  IF ~f.optional THEN Present(w, s, f.initial)
  ELSE IF PresenceBit(w) THEN Present(AfterBit(w), s, f.initial)
  ELSE Absent(AfterBit(w), s)

DecimalDefault(w, f, s) ==
  IF PresenceBit(w) THEN DeliverRead(ReadScaled(AfterBit(w), f.optional), s)
  ELSE IF f.hasInitial THEN Present(AfterBit(w), s, f.initial)
  ELSE IF f.optional THEN Absent(AfterBit(w), s)
  ELSE Fail(AfterBit(w), s, ErrD5)

DecimalCopy(w, f, s) ==
  CASE PresenceBit(w) -> DeliverAndKeep(ReadScaled(AfterBit(w), f.optional), s)
    [] ~PresenceBit(w) /\ s.State = "Assigned"  -> Present(AfterBit(w), s, s.Val)
    [] ~PresenceBit(w) /\ s.State = "Undefined" -> ResolveUndefined(AfterBit(w), f, s)
    [] ~PresenceBit(w) /\ s.State = "Empty"     -> ResolveEmpty(AfterBit(w), f, s)

\* A decimal that declares an increment or a tail compiles, and fails when it
\* is decoded.
DecodeDecimal(w, f, s) ==
  CASE f.op = "None"     -> DeliverRead(ReadScaled(w, f.optional), s)
    [] f.op = "Constant" -> DecimalConstant(w, f, s)
    [] f.op = "Default"  -> DecimalDefault(w, f, s)
    [] f.op = "Copy"     -> DecimalCopy(w, f, s)
    [] f.op \in {"Increment", "Tail"} -> Fail(w, s, ErrUnsupported)

\* Mutant: a delta with no previous value starts from zero.
decimalDeltaBase_Zero(f, s) == IF s.State = "Assigned" THEN s.Val ELSE Zero

\* The base of a delta; an Empty previous value has none (ErrD6).
decimalDeltaBase(f, s) ==
  IF s.State = "Assigned" THEN s.Val
  ELSE IF f.hasInitial THEN f.initial ELSE Zero

Added(base, dMant, dExp) ==
  Decimal(ToInt64(base.mant + dMant), ToInt32(base.exp + ToInt32(dExp)))

DecodeDecimalDelta(w, f, s) ==
  LET e == readDelta(w, f.optional)
      m == ReadInt(e.wire)
      v == Added(decimalDeltaBase(f, s), m.val, e.val)
  IN  IF e.err # NoError THEN Fail(e.wire, s, e.err)
      ELSE IF e.null THEN Absent(e.wire, s)
      ELSE IF m.err # NoError THEN Fail(m.wire, s, m.err)
      ELSE IF s.State = "Empty" THEN Fail(m.wire, s, ErrD6)
      ELSE Present(m.wire, Assign(v), v)

DecodeNumber(w, f, s) ==
  IF f.op = "Delta" THEN DecodeDecimalDelta(w, f, s) ELSE DecodeDecimal(w, f, s)

-----------------------------------------------------------------------------
(* An operator for each part.                                              *)

\* Mutants: the exponent delivered is not cut to 32 bits, the mantissa is
\* decoded first, and the mantissa is decoded beside an absent exponent too.
DecodeParts_Uncut(w, f, s) ==
  LET e == intDecodeCall(w, f.exp, s.exp)
      m == intDecodeCall(e.wire, f.mant, s.mant)
  IN  IF ~e.present THEN [e EXCEPT !.slot = [s EXCEPT !.exp = e.slot]]
      ELSE [m EXCEPT !.slot = [exp |-> e.slot, mant |-> m.slot],
                     !.val = Decimal(@, e.val)]

DecodeParts_Swapped(w, f, s) ==
  LET m == intDecodeCall(w, f.mant, s.mant)
      e == intDecodeCall(m.wire, f.exp, s.exp)
      after == [exp |-> e.slot, mant |-> m.slot]
  IN  IF m.err # NoError THEN [m EXCEPT !.slot = [s EXCEPT !.mant = m.slot]]
      ELSE [e EXCEPT !.slot = after, !.val = Decimal(m.val, ToInt32(@))]

DecodeParts_Always(w, f, s) ==
  LET e == intDecodeCall(w, f.exp, s.exp)
      m == intDecodeCall(e.wire, f.mant, s.mant)
      after == [exp |-> e.slot, mant |-> m.slot]
  IN  IF e.err # NoError THEN [e EXCEPT !.slot = [s EXCEPT !.exp = e.slot]]
      ELSE IF ~e.present THEN [m EXCEPT !.slot = after, !.present = FALSE]
      ELSE [m EXCEPT !.slot = after, !.present = m.err = NoError,
                     !.val = Decimal(@, ToInt32(e.val))]

\* Without an exponent, absent or failed, the mantissa is not looked at; the
\* exponent's slot has moved already when the mantissa fails.  Nobody asks
\* whether the mantissa is present: it is taken to be if it did not fail.
DecodeParts(w, f, s) ==
  LET e == intDecodeCall(w, f.exp, s.exp)
      m == intDecodeCall(e.wire, f.mant, s.mant)
  IN  IF ~e.present THEN [e EXCEPT !.slot = [s EXCEPT !.exp = e.slot]]
      ELSE [m EXCEPT !.slot = [exp |-> e.slot, mant |-> m.slot],
                     !.present = m.err = NoError,
                     !.val = Decimal(@, ToInt32(e.val))]

DecodeAny(w, f, s) ==
  Blank(IF f.kind = "parts" THEN DecodeParts(w, f, s) ELSE DecodeNumber(w, f, s))

-----------------------------------------------------------------------------
UndefinedSlots(f) ==
  IF f.kind = "parts" THEN [exp |-> UndefinedSlot, mant |-> UndefinedSlot]
                      ELSE UndefinedNumber

Numbers(initials) ==
  {f \in [kind : {"number"}, op : Operators, optional : BOOLEAN,
          hasInitial : BOOLEAN, initial : initials \cup {Zero}] :
     /\ f.op = "Constant" => f.hasInitial
     /\ f.op = "None" => ~f.hasInitial
     /\ IF f.hasInitial THEN f.initial \in initials ELSE f.initial = Zero}

\* A constant part whose value is missing or does not parse is taken for zero.
IntegerParts(width, optionals, initials) ==
  {f \in [type : {"int"}, op : Operators, width : {width}, optional : optionals,
          hasInitial : BOOLEAN, initial : initials \cup {0}] :
     /\ f.op = "None" => ~f.hasInitial
     /\ IF f.hasInitial THEN f.initial \in initials ELSE f.initial = 0}

Parts(initials) ==
  [kind : {"parts"}, exp : IntegerParts(32, BOOLEAN, initials),
   mant : IntegerParts(64, {FALSE}, initials)]
=============================================================================
