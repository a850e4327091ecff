------------------------- MODULE DecimalFieldProofs -------------------------
(***************************************************************************)
(* Theorems about DecimalField, for every pair of widths and every set of  *)
(* declarations, of numbers on the wire and of bounds.                     *)
(*                                                                         *)
(* The argument: a decimal in parts makes two calls of intDecodeCall, and each *)
(* keeps its slot in agreement with its history (PromiseProofs); what has  *)
(* to be shown here is that the second call finds the wire as the first    *)
(* must leave it, and what the two come to.  A decimal with one operator   *)
(* has a contract and an agreement of its own.                             *)
(***************************************************************************)
EXTENDS DecimalField, PromiseProofs

-----------------------------------------------------------------------------
(* The module of the promise uses the same words.                          *)

\* What is promised of an integer, here and for a part.
LEMMA SameReading ==
  ASSUME NEW f, NEW w
  PROVE  /\ Promise!Integer!Transmitted(f, w) = Transmitted(f, w)
         /\ Promise!Integer!Selected(f, w) <=> Selected(f, w)
         /\ Promise!Integer!Rest(f, w) = Rest(f, w)
<1>1. Promise!Integer!Transmitted(f, w) = Transmitted(f, w)
  BY DEF Promise!Integer!Transmitted, Transmitted, Promise!Integer!IsSigned,
         IsSigned, Promise!Integer!Value, Value, Promise!Integer!NoValue, NoValue,
         Promise!Integer!Failure, Failure, Promise!Integer!Returned, Returned,
         Promise!Integer!NoError, NoError, Promise!Integer!EndOfStream, EndOfStream,
         Promise!Integer!Overflow, Overflow, Promise!Integer!Int64, Int64,
         Promise!Integer!Uint64, Uint64
<1>. QED
  BY <1>1
  DEF Promise!Integer!Selected, Selected, Promise!Integer!PresenceBit, PresenceBit,
      Promise!Integer!Rest, Rest, Promise!Integer!OwnsBit, OwnsBit,
      Promise!Integer!IsSent, IsSent

\* The same of the history.
LEMMA SameHistory ==
  ASSUME NEW l
  PROVE  /\ Promise!Integer!PresentAt(l) = PresentAt(l)
         /\ Promise!Integer!LastOutcome(l) = LastOutcome(l)
         /\ Promise!Integer!Latest(l) = Latest(l)
BY DEF Promise!Integer!PresentAt, PresentAt, Promise!Integer!LastOutcome, LastOutcome,
       Promise!Integer!Latest, Latest

\* And of the whole promise.
LEMMA SamePromise ==
  ASSUME NEW f, NEW l, NEW w
  PROVE  Promise!Integer!Promised(f, l, w) = Promised(f, l, w)
<1>1. Promise!Integer!LastValue(f, l) = LastValue(f, l)
  BY SameHistory DEF Promise!Integer!LastValue, LastValue
<1>2. \A v : Promise!Integer!Successor(f, v) = Successor(f, v)
  BY DEF Promise!Integer!Successor, Successor, Promise!Integer!Wrapped, Wrapped,
         Promise!Integer!Lowest, Lowest, Promise!Integer!Highest, Highest
<1>. QED
  BY <1>1, <1>2, SameReading
  DEF Promise!Integer!LastOutcome, LastOutcome, Promise!Integer!Promised, Promised, Promise!Integer!Explicit, Explicit,
      Promise!Integer!Implied, Implied, Promise!Integer!Sum, Sum,
      Promise!Integer!Wrapped, Wrapped, Promise!Integer!Start, Start,
      Promise!Integer!Value, Value, Promise!Integer!NoValue, NoValue,
      Promise!Integer!Failure, Failure, Promise!Integer!Returned, Returned,
      Promise!Integer!NoError, NoError, Promise!Integer!ErrD5, ErrD5

\* Cutting to a width, as the promise says it and as Go does it.
LEMMA NarrowAndWide ==
  ASSUME NEW n \in Int
  PROVE  /\ Promise!Narrow(n) = ToInt32(n) /\ ToInt32(n) \in Int32
         /\ Promise!Wide(n) = ToInt64(n) /\ ToInt64(n) \in Int64
<1>1. /\ Mod64 \in Nat \ {0} /\ Mod64 = (Half64 - 1) - (-Half64) + 1
      /\ Mod32 \in Nat \ {0} /\ Mod32 = (Half32 - 1) - (-Half32) + 1
      /\ -Half64 \in Int /\ Half64 - 1 \in Int /\ -Half32 \in Int /\ Half32 - 1 \in Int
  BY WidthAssumption DEF Mod64, Mod32
<1>2. /\ ToInt64(n) \in -Half64 .. (Half64 - 1) /\ Congruent(n, ToInt64(n), Mod64)
      /\ ToInt32(n) \in -Half32 .. (Half32 - 1) /\ Congruent(n, ToInt32(n), Mod32)
  BY ConversionCongruence
<1>3. /\ Wrapped(-Half64, Half64 - 1, n) = ToInt64(n)
      /\ Wrapped(-Half32, Half32 - 1, n) = ToInt32(n)
  BY <1>1, <1>2, Representative
<1>. QED
  BY <1>2, <1>3
  DEF Promise!Narrow, Promise!Wide, Promise!Integer!Wrapped, Wrapped, Int32, Int64

-----------------------------------------------------------------------------
(* What the declarations are, and the results.                             *)

\* The parts of a decimal are integer fields, the mantissa a mandatory one.
LEMMA PartsAreFields ==
  ASSUME NEW f \in Parts(Int64)
  PROVE  /\ f.kind = "parts"
         /\ f.exp \in AllFields /\ f.exp.type = "int"
         /\ f.mant \in AllFields /\ f.mant.type = "int" /\ f.mant.optional = FALSE
<1>1. 0 \in Int64 /\ Int64 \subseteq Int
  BY WidthAssumption DEF Int64
<1>2. f.kind = "parts" /\ f.exp \in IntegerParts(32, BOOLEAN, Int64)
      /\ f.mant \in IntegerParts(64, {FALSE}, Int64)
  BY DEF Parts
<1>3. f.exp \in AllFields /\ f.exp.type = "int"
  BY <1>1, <1>2 DEF IntegerParts, AllFields, Values
<1>4. f.mant \in AllFields /\ f.mant.type = "int" /\ f.mant.optional = FALSE
  BY <1>1, <1>2 DEF IntegerParts, AllFields, Values
<1>. QED
  BY <1>2, <1>3, <1>4

\* What is declared of a decimal with one operator.
LEMMA NumberFacts ==
  ASSUME NEW f \in Numbers(Decimals)
  PROVE  /\ f.kind = "number" /\ f.op \in Operators /\ f.optional \in BOOLEAN
         /\ f.hasInitial \in BOOLEAN /\ f.initial \in Decimals /\ Zero \in Decimals
<1>1. Zero \in Decimals
  BY WidthAssumption DEF Zero, Decimal, Decimals, Int64, Int32
<1>. QED
  BY <1>1 DEF Numbers

\* A result is a record of five fields.
IsResult(res) ==
  res = [wire |-> res.wire, slot |-> res.slot, val |-> res.val,
         present |-> res.present, err |-> res.err]

\* So is that of every integer operator.
LEMMA IntegerResult ==
  ASSUME NEW f \in AllFields, f.type = "int", NEW s \in Slots(f), NEW w
  PROVE  IsResult(intDecodeCall(w, f, s))
<1>1. /\ \A x, z, v : IsResult(Present(x, z, v))
      /\ \A x, z : IsResult(Absent(x, z))
      /\ \A x, z, e : IsResult(Fail(x, z, e))
  BY DEF IsResult, Present, Absent, Fail
<1>2. \A rd : IsResult(DeliverRead(rd, s)) /\ IsResult(DeliverAndKeep(rd, s))
  BY <1>1 DEF DeliverRead, DeliverAndKeep
<1>3. /\ f.op \in Operators /\ s.State \in States
  BY DEF AllFields, Slots
<1>4. \A x : IsResult(resolveIntPrevious(x, f, s))
  BY <1>1, <1>3 DEF resolveIntPrevious, ResolveUndefined, ResolveEmpty, States
<1>5. CASE f.op \in {"None", "Tail"}
  BY <1>2, <1>5 DEF intDecodeCall, DecodeIntNone
<1>6. CASE f.op = "Constant"
  BY <1>1, <1>6 DEF intDecodeCall, DecodeIntConstant
<1>7. CASE f.op = "Default"
  BY <1>1, <1>2, <1>7 DEF intDecodeCall, DecodeIntDefault
<1>8. CASE f.op = "Copy"
  BY <1>2, <1>4, <1>8 DEF intDecodeCall, DecodeIntCopy, readIntPrevious
<1>9. CASE f.op = "Increment"
  BY <1>1, <1>2, <1>4, <1>9 DEF intDecodeCall, DecodeIntIncrement, readIntPrevious
<1>10. CASE f.op = "Delta"
  BY <1>1, <1>10 DEF intDecodeCall, DecodeIntDelta
<1>. QED
  BY <1>3, <1>5, <1>6, <1>7, <1>8, <1>9, <1>10 DEF Operators

\* What changing the slot of a result makes of it,
LEMMA ChangedSlot ==
  ASSUME NEW r, NEW a, NEW b, NEW c, NEW d, NEW e, NEW t,
         r = [wire |-> a, slot |-> b, val |-> c, present |-> d, err |-> e]
  PROVE  [r EXCEPT !.slot = t] =
           [wire |-> a, slot |-> t, val |-> c, present |-> d, err |-> e]
OBVIOUS

\* changing its value,
LEMMA ChangedVal ==
  ASSUME NEW r, NEW a, NEW b, NEW c, NEW d, NEW e, NEW v,
         r = [wire |-> a, slot |-> b, val |-> c, present |-> d, err |-> e]
  PROVE  [r EXCEPT !.val = v] =
           [wire |-> a, slot |-> b, val |-> v, present |-> d, err |-> e]
OBVIOUS

\* and changing three of its fields.
LEMMA ChangedThree ==
  ASSUME NEW r, NEW a, NEW b, NEW c, NEW d, NEW e, NEW t, NEW p, NEW v,
         r = [wire |-> a, slot |-> b, val |-> c, present |-> d, err |-> e]
  PROVE  [r EXCEPT !.slot = t, !.present = p, !.val = v] =
           [wire |-> a, slot |-> t, val |-> v, present |-> p, err |-> e]
<1>. DEFINE r1 == [r EXCEPT !.slot = t]
            r2 == [r1 EXCEPT !.present = p]
<1>1. r1 = [wire |-> a, slot |-> t, val |-> c, present |-> d, err |-> e]
  BY ChangedSlot
<1>. HIDE DEF r1
<1>2. r2 = [wire |-> a, slot |-> t, val |-> c, present |-> p, err |-> e]
  BY <1>1
<1>. HIDE DEF r2
<1>3. [r2 EXCEPT !.val = v] =
        [wire |-> a, slot |-> t, val |-> v, present |-> p, err |-> e]
  BY <1>2, ChangedVal
<1>4. [r EXCEPT !.slot = t, !.present = p, !.val = v] = [r2 EXCEPT !.val = v]
  BY DEF r1, r2
<1>. QED
  BY <1>3, <1>4

\* What its caller sees of it.
LEMMA OutcomeIsWhatIsVisible ==
  ASSUME NEW res
  PROVE  Outcome(res) = Visible(res)
BY DEF Outcome, Promise!Returned, Visible, Returned

-----------------------------------------------------------------------------
(* Decimals in parts.                                                      *)

\* What two calls come to.
LEMMA PartsResult ==
  ASSUME NEW f \in Parts(Int64), NEW s, s.exp \in Slots(f.exp), s.mant \in Slots(f.mant),
         s = [exp |-> s.exp, mant |-> s.mant], NEW w
  PROVE  LET e == intDecodeCall(w, f.exp, s.exp)
             m == intDecodeCall(e.wire, f.mant, s.mant)
             res == DecodeAny(w, f, s)
         IN  /\ Contract(f.exp, s.exp, e) /\ Contract(f.mant, s.mant, m)
             /\ e.present /\ m.present =>
                  /\ Outcome(res) = Promise!Value(Decimal(m.val, ToInt32(e.val)))
                  /\ m.err = NoError
             /\ e.present /\ ~m.present =>
                  /\ Outcome(res) = Promise!Failure(m.err)
                  /\ m.err # NoError
             /\ ~e.present => Outcome(res) = Promise!Failure(e.err)
             /\ res.slot = [exp |-> e.slot, mant |-> IF e.present THEN m.slot ELSE s.mant]
<1>. DEFINE e == intDecodeCall(w, f.exp, s.exp)
            m == intDecodeCall(e.wire, f.mant, s.mant)
            d == DecodeParts(w, f, s)
            res == DecodeAny(w, f, s)
<1>1. /\ IsResult(e) /\ IsResult(m)
      /\ Contract(f.exp, s.exp, e) /\ Contract(f.mant, s.mant, m)
  BY PartsAreFields, IntegerResult, DecodeIntContract
<1>2. /\ d = IF ~e.present THEN [e EXCEPT !.slot = [s EXCEPT !.exp = e.slot]]
             ELSE [m EXCEPT !.slot = [exp |-> e.slot, mant |-> m.slot],
                            !.present = m.err = NoError,
                            !.val = Decimal(@, ToInt32(e.val))]
      /\ res = IF d.present THEN d ELSE [d EXCEPT !.val = Zero]
  BY PartsAreFields DEF DecodeAny, DecodeParts, Blank
<1>3. /\ e.present \in BOOLEAN /\ m.present \in BOOLEAN
      /\ m.err = NoError <=> m.present
  BY <1>1, PartsAreFields DEF Contract
<1>. HIDE DEF e, m, d, res
<1>4. CASE ~e.present
  <2>1. d = [wire |-> e.wire, slot |-> [exp |-> e.slot, mant |-> s.mant],
             val |-> e.val, present |-> e.present, err |-> e.err]
    <3>1. [s EXCEPT !.exp = e.slot] = [exp |-> e.slot, mant |-> s.mant]
      OBVIOUS
    <3>. DEFINE t == [exp |-> e.slot, mant |-> s.mant]
    <3>. HIDE DEF t
    <3>2. [e EXCEPT !.slot = t] = [wire |-> e.wire, slot |-> t, val |-> e.val,
                                   present |-> e.present, err |-> e.err]
      BY <1>1, ChangedSlot DEF IsResult
    <3>. QED
      BY <1>2, <1>4, <3>1, <3>2 DEF t
  <2>2. res = [wire |-> e.wire, slot |-> [exp |-> e.slot, mant |-> s.mant],
               val |-> Zero, present |-> e.present, err |-> e.err]
    <3>1. IsResult(d) /\ ~d.present
      BY <1>4, <2>1 DEF IsResult
    <3>. QED
      BY <1>2, <2>1, <3>1, ChangedVal DEF IsResult
  <2>3. e.present = FALSE
    BY <1>3, <1>4
  <2>4. Outcome(res) = Promise!Failure(e.err)
    BY <2>2, <2>3 DEF Outcome, Promise!Returned, Promise!Failure, Promise!Zero, Zero,
                      Promise!Decimal, Decimal
  <2>. QED
    BY <1>1, <1>4, <2>2, <2>4 DEF e, m, res
<1>5. CASE e.present
  <2>. DEFINE t == [exp |-> e.slot, mant |-> m.slot]
              v == Decimal(m.val, ToInt32(e.val))
  <2>. HIDE DEF t, v
  <2>1. d = [wire |-> m.wire, slot |-> t, val |-> v,
             present |-> m.present, err |-> m.err]
    <3>1. d = [m EXCEPT !.slot = t, !.present = m.err = NoError, !.val = v]
      BY <1>2, <1>5 DEF t, v
    <3>2. (m.err = NoError) = m.present
      BY <1>3
    <3>. QED
      BY <1>1, <3>1, <3>2, ChangedThree DEF IsResult
  <2>2. res = [wire |-> m.wire, slot |-> t, val |-> IF m.present THEN v ELSE Zero,
               present |-> m.present, err |-> m.err]
    <3>1. d.present = m.present
      BY <2>1
    <3>2. [d EXCEPT !.val = Zero] = [wire |-> m.wire, slot |-> t, val |-> Zero,
                                     present |-> m.present, err |-> m.err]
      BY <2>1, ChangedVal
    <3>3. CASE m.present
      BY <1>2, <2>1, <3>1, <3>3
    <3>4. CASE ~m.present
      BY <1>2, <3>1, <3>2, <3>4
    <3>. QED
      BY <3>3, <3>4
  <2>3. CASE m.present
    <3>1. m.present = TRUE /\ m.err = NoError
      BY <1>3, <2>3
    <3>2. Outcome(res) = Promise!Value(v)
      BY <2>2, <3>1 DEF Outcome, Promise!Returned, Promise!Value, Promise!NoError, NoError
    <3>. QED
      BY <1>1, <1>5, <2>2, <2>3, <3>1, <3>2 DEF e, m, res, t, v
  <2>4. CASE ~m.present
    <3>1. m.present = FALSE /\ m.err # NoError
      BY <1>3, <2>4
    <3>2. Outcome(res) = Promise!Failure(m.err)
      BY <2>2, <3>1 DEF Outcome, Promise!Returned, Promise!Failure, Promise!Zero, Zero,
                        Promise!Decimal, Decimal
    <3>. QED
      BY <1>1, <1>5, <2>2, <2>4, <3>1, <3>2 DEF e, m, res, t
  <2>. QED
    BY <2>3, <2>4
<1>. QED
  BY <1>3, <1>4, <1>5

-----------------------------------------------------------------------------
(* Decimals with one operator: what a call returns and what it leaves.     *)

NumberSlots == [State : States, Val : Decimals]

NumberContract(f, s, res) ==
  /\ IsResult(res)
  /\ res.slot \in NumberSlots
  /\ res.present \in BOOLEAN
  /\ res.err \in Errors \cup {NoError}
  /\ res.present => res.val \in Decimals /\ res.err = NoError
  /\ res.err # NoError => res.slot = s
  /\ EmptyIsLegal(f, s) => EmptyIsLegal(f, res.slot)
  /\ res.err = NoError => Kept(f, s, res) /\ f.op \notin {"Increment", "Tail"}

\* What a read of a decimal may return.
ScaledContract(rd, optional) ==
  /\ rd.null \in BOOLEAN
  /\ rd.err \in {NoError, EndOfStream, Overflow}
  /\ rd.err = NoError /\ rd.null => optional
  /\ rd.err = NoError /\ ~rd.null => rd.val \in Decimals

\* A decimal is read as its two entities.
LEMMA ScaledRead ==
  ASSUME NEW w, NEW optional
  PROVE  LET e == readDelta(w, optional)
             m == ReadInt(e.wire)
             rd == ReadScaled(w, optional)
         IN  /\ ReadContract(e, Int64) /\ ReadContract(m, Int64)
             /\ e.err = NoError /\ e.null => optional
             /\ ~m.null
             /\ e.err # NoError \/ e.null => rd.err = e.err /\ rd.null = e.null
             /\ ~(e.err # NoError \/ e.null) =>
                  /\ rd.err = m.err /\ ~rd.null /\ rd.null \in BOOLEAN
                  /\ rd.val = Decimal(m.val, ToInt32(e.val))
<1>. DEFINE e == readDelta(w, optional)
            m == ReadInt(e.wire)
            rd == ReadScaled(w, optional)
<1>1. Int64 \subseteq Int /\ 0 \in Int64
  BY WidthAssumption DEF Int64
<1>2. /\ ReadContract(m, Int64) /\ m.null = FALSE
      /\ m = [wire |-> m.wire, null |-> m.null, val |-> m.val, err |-> m.err]
  BY <1>1 DEF ReadInt, ReadEntity, ReadContract, NoError, EndOfStream, Overflow
<1>3. /\ ReadContract(e, Int64) /\ (e.err = NoError /\ e.null => optional)
      /\ e = [wire |-> e.wire, null |-> e.null, val |-> e.val, err |-> e.err]
  <2>1. ReadContract(ReadEntity(w, Int64), Int64) /\ ~ReadEntity(w, Int64).null
    BY <1>1 DEF ReadEntity, ReadContract, NoError, EndOfStream, Overflow
  <2>2. \A v \in Int64 : v > 0 => v - 1 \in Int64
    BY WidthAssumption DEF Int64
  <2>. QED
    BY <1>1, <2>1, <2>2 DEF readDelta, ReadNullableInt, ReadInt, UndoNullableShift,
                            ReadEntity, ReadContract
<1>4. rd = IF e.err # NoError \/ e.null THEN [e EXCEPT !.val = Zero]
           ELSE [m EXCEPT !.val = Decimal(m.val, ToInt32(e.val))]
  BY DEF ReadScaled
<1>. HIDE DEF e, m, rd
<1>5. /\ [e EXCEPT !.val = Zero].err = e.err
      /\ [e EXCEPT !.val = Zero].null = e.null
  BY <1>3
<1>6. ASSUME NEW v
      PROVE  /\ [m EXCEPT !.val = v].err = m.err
             /\ [m EXCEPT !.val = v].null = m.null
             /\ [m EXCEPT !.val = v].val = v
  BY <1>2
<1>7. CASE e.err # NoError \/ e.null
  BY <1>2, <1>3, <1>4, <1>5, <1>7 DEF e, m, rd
<1>8. CASE ~(e.err # NoError \/ e.null)
  BY <1>2, <1>3, <1>4, <1>6, <1>8 DEF e, m, rd
<1>. QED
  BY <1>7, <1>8

\* Hence the contract of reading one.
LEMMA ScaledReadContract ==
  ASSUME NEW w, NEW optional
  PROVE  ScaledContract(ReadScaled(w, optional), optional)
<1>. DEFINE e == readDelta(w, optional)
            m == ReadInt(e.wire)
            rd == ReadScaled(w, optional)
<1>1. /\ ReadContract(e, Int64) /\ ReadContract(m, Int64)
      /\ e.err = NoError /\ e.null => optional
      /\ e.err # NoError \/ e.null => rd.err = e.err /\ rd.null = e.null
      /\ ~(e.err # NoError \/ e.null) =>
           /\ rd.err = m.err /\ ~rd.null /\ rd.null \in BOOLEAN
           /\ rd.val = Decimal(m.val, ToInt32(e.val))
  BY ScaledRead
<1>2. ASSUME NEW a \in Int64, NEW b \in Int64
      PROVE  Decimal(a, ToInt32(b)) \in Decimals
  <2>1. b \in Int
    BY WidthAssumption DEF Int64
  <2>. QED
    BY <2>1, NarrowAndWide DEF Decimal, Decimals
<1>. HIDE DEF e, m, rd
<1>3. ScaledContract(rd, optional)
  BY <1>1, <1>2 DEF ScaledContract, ReadContract
<1>. QED
  BY <1>3 DEF rd

\* What adding a delta comes to is a decimal again.
LEMMA AddedIsDecimal ==
  ASSUME NEW b \in Decimals, NEW x \in Int64, NEW y \in Int64
  PROVE  Added(b, x, y) \in Decimals
<1>1. /\ Int64 \subseteq Int /\ Int32 \subseteq Int
      /\ b.mant \in Int64 /\ b.exp \in Int32
  BY WidthAssumption DEF Int64, Int32, Decimals
<1>2. ToInt32(y) \in Int32
  BY <1>1, NarrowAndWide
<1>3. b.mant \in Int /\ x \in Int /\ b.exp \in Int /\ ToInt32(y) \in Int
  BY <1>1, <1>2
<1>4. b.mant + x \in Int /\ b.exp + ToInt32(y) \in Int
  BY <1>3
<1>. QED
  BY <1>4, NarrowAndWide DEF Added, Decimal, Decimals

\* The contract, first of the pieces the operators share.
LEMMA NumberPieces ==
  ASSUME NEW f \in Numbers(Decimals), NEW s \in NumberSlots, NEW w
  PROVE  /\ \A rd : ScaledContract(rd, f.optional) =>
              /\ f.op \in {"None", "Default"} => NumberContract(f, s, DeliverRead(rd, s))
              /\ f.op = "Copy" => NumberContract(f, s, DeliverAndKeep(rd, s))
         /\ f.op \in {"Constant", "Default"} =>
              /\ NumberContract(f, s, Present(w, s, f.initial))
              /\ NumberContract(f, s, Absent(w, s))
         /\ \A e \in Errors : NumberContract(f, s, Fail(w, s, e))
         /\ f.op = "Copy" =>
              /\ s.State = "Assigned" => NumberContract(f, s, Present(w, s, s.Val))
              /\ NumberContract(f, s, ResolveUndefined(w, f, s))
              /\ s.State = "Empty" => NumberContract(f, s, ResolveEmpty(w, f, s))
         /\ f.op = "Delta" =>
              /\ \A v \in Decimals : NumberContract(f, s, Present(w, Assign(v), v))
              /\ f.optional => NumberContract(f, s, Absent(w, s))
<1>1. /\ f.op \in Operators /\ f.optional \in BOOLEAN /\ f.hasInitial \in BOOLEAN
      /\ f.initial \in Decimals
  BY NumberFacts
<1>2. s.State \in States /\ s.Val \in Decimals /\ s = [State |-> s.State, Val |-> s.Val]
  BY DEF NumberSlots
<1>3. /\ SetEmpty(s) \in NumberSlots /\ SetEmpty(s).State = "Empty"
      /\ \A v \in Decimals : Assign(v) \in NumberSlots /\ Assign(v).State = "Assigned"
  BY <1>2 DEF SetEmpty, Assign, NumberSlots, States
<1>. USE DEF NumberContract, EmptyIsLegal, Kept, Errors, NoError, ErrUnsupported,
             EndOfStream, Overflow, ErrD5, ErrD6, IsResult
<1>4. /\ f.op \in {"Constant", "Default"} =>
           /\ NumberContract(f, s, Present(w, s, f.initial))
           /\ NumberContract(f, s, Absent(w, s))
      /\ \A e \in Errors : NumberContract(f, s, Fail(w, s, e))
  BY <1>1, <1>2 DEF Present, Absent, Fail
<1>5. f.op = "Copy" =>
        /\ s.State = "Assigned" => NumberContract(f, s, Present(w, s, s.Val))
        /\ NumberContract(f, s, ResolveUndefined(w, f, s))
        /\ s.State = "Empty" => NumberContract(f, s, ResolveEmpty(w, f, s))
  <2>1. s.State = "Assigned" => s = Assign(s.Val)
    BY <1>2 DEF Assign
  <2>. QED
    BY <1>1, <1>2, <1>3, <2>1 DEF ResolveUndefined, ResolveEmpty, Present, Absent, Fail
<1>6. f.op = "Delta" =>
        /\ \A v \in Decimals : NumberContract(f, s, Present(w, Assign(v), v))
        /\ f.optional => NumberContract(f, s, Absent(w, s))
  BY <1>1, <1>2, <1>3 DEF Present, Absent
<1>7. ASSUME NEW rd, ScaledContract(rd, f.optional)
      PROVE  /\ f.op \in {"None", "Default"} => NumberContract(f, s, DeliverRead(rd, s))
             /\ f.op = "Copy" => NumberContract(f, s, DeliverAndKeep(rd, s))
  BY <1>1, <1>2, <1>3, <1>7
     DEF ScaledContract, DeliverRead, DeliverAndKeep, Present, Absent, Fail
<1>. QED
  BY <1>4, <1>5, <1>6, <1>7

\* The contract of every operator on a decimal.
LEMMA DecodeNumberContract ==
  ASSUME NEW f \in Numbers(Decimals), NEW s \in NumberSlots, NEW w
  PROVE  NumberContract(f, s, DecodeNumber(w, f, s))
<1>1. /\ f.op \in Operators /\ f.optional \in BOOLEAN /\ f.hasInitial \in BOOLEAN
      /\ f.initial \in Decimals /\ Zero \in Decimals
      /\ s.State \in States /\ s.Val \in Decimals
  BY NumberFacts DEF NumberSlots
<1>2. \A x : ScaledContract(ReadScaled(x, f.optional), f.optional)
  BY ScaledReadContract
<1>3. {ErrD5, ErrD6, EndOfStream, Overflow, ErrUnsupported} \subseteq Errors
  BY DEF Errors
<1>4. CASE f.op = "None"
  BY <1>2, <1>4, NumberPieces DEF DecodeNumber, DecodeDecimal
<1>5. CASE f.op = "Constant"
  BY <1>5, NumberPieces DEF DecodeNumber, DecodeDecimal, DecimalConstant
<1>6. CASE f.op = "Default"
  BY <1>2, <1>3, <1>6, NumberPieces DEF DecodeNumber, DecodeDecimal, DecimalDefault
<1>7. CASE f.op = "Copy"
  <2>1. DecodeNumber(w, f, s) = DecimalCopy(w, f, s)
    BY <1>7 DEF DecodeNumber, DecodeDecimal
  <2>. QED
    BY <1>1, <1>2, <1>7, <2>1, NumberPieces DEF DecimalCopy, States
<1>8. CASE f.op \in {"Increment", "Tail"}
  BY <1>3, <1>8, NumberPieces DEF DecodeNumber, DecodeDecimal
<1>9. CASE f.op = "Delta"
  <2>. DEFINE e == readDelta(w, f.optional)
              m == ReadInt(e.wire)
              v == Added(decimalDeltaBase(f, s), m.val, e.val)
  <2>1. /\ ReadContract(e, Int64) /\ ReadContract(m, Int64)
        /\ e.err = NoError /\ e.null => f.optional
    BY ScaledRead
  <2>2. v \in Decimals
    BY <1>1, <2>1, AddedIsDecimal DEF decimalDeltaBase, ReadContract
  <2>3. DecodeNumber(w, f, s) =
          IF e.err # NoError THEN Fail(e.wire, s, e.err)
          ELSE IF e.null THEN Absent(e.wire, s)
          ELSE IF m.err # NoError THEN Fail(m.wire, s, m.err)
          ELSE IF s.State = "Empty" THEN Fail(m.wire, s, ErrD6)
          ELSE Present(m.wire, Assign(v), v)
    BY <1>9 DEF DecodeNumber, DecodeDecimalDelta
  <2>. HIDE DEF e, m, v
  <2>. QED
    BY <1>3, <1>9, <2>1, <2>2, <2>3, NumberPieces DEF ReadContract
<1>. QED
  BY <1>1, <1>4, <1>5, <1>6, <1>7, <1>8, <1>9 DEF Operators

-----------------------------------------------------------------------------
(* Decimals with one operator: the slot agrees with the history.           *)

\* What can be in the history of a decimal.
Deliveries == {Promise!NoValue} \cup {Promise!Value(d) : d \in Decimals}

NumberRemembers(f, s, l) ==
  /\ f.op \in {"None", "Constant", "Default", "Increment", "Tail"} => s = UndefinedNumber
  /\ f.op = "Copy" =>
       IF l = <<>> THEN s = UndefinedNumber
       ELSE IF LastOutcome(l).present THEN s = Assign(LastOutcome(l).val)
       ELSE s.State = "Empty"
  /\ f.op = "Delta" =>
       IF PresentAt(l) = {} THEN s = UndefinedNumber ELSE s = Assign(Latest(l))

NumberAgree(f, s, l) ==
  /\ f \in Numbers(Decimals)
  /\ s \in NumberSlots
  /\ l \in Seq(Deliveries)
  /\ HasLatest(l)
  /\ EmptyIsLegal(f, s)
  /\ NumberRemembers(f, s, l)

\* What the caller sees of a call: the value, or the error.
LEMMA NumberOutcome ==
  ASSUME NEW f, NEW s, NEW res, NumberContract(f, s, res)
  PROVE  /\ Outcome(Blank(res)) = IF res.present THEN Promise!Value(res.val)
                                 ELSE Promise!Failure(res.err)
         /\ Outcome(Blank(res)).present = res.present
         /\ Outcome(Blank(res)).err = res.err
         /\ Blank(res).slot = res.slot
         /\ res.err = NoError => Outcome(Blank(res)) \in Deliveries
<1>1. /\ IsResult(res) /\ res.present \in BOOLEAN
      /\ res.present => res.val \in Decimals /\ res.err = NoError
  BY DEF NumberContract
<1>2. Promise!Zero = Zero /\ Promise!NoError = NoError
  BY DEF Promise!Zero, Zero, Promise!Decimal, Decimal, Promise!NoError, NoError
<1>3. CASE res.present
  <2>1. res.present = TRUE
    BY <1>1, <1>3
  <2>2. Outcome(Blank(res)) = Promise!Value(res.val) /\ Blank(res) = res
    BY <1>1, <1>2, <1>3, <2>1 DEF Blank, Outcome, Promise!Returned, Promise!Value
  <2>3. /\ Promise!Value(res.val).present = TRUE
        /\ Promise!Value(res.val).err = NoError
    BY <1>2 DEF Promise!Value, Promise!Returned
  <2>. QED
    BY <1>1, <1>3, <2>1, <2>2, <2>3 DEF Deliveries
<1>4. CASE ~res.present
  <2>1. res.present = FALSE
    BY <1>1, <1>4
  <2>2. Blank(res) = [wire |-> res.wire, slot |-> res.slot, val |-> Zero,
                      present |-> res.present, err |-> res.err]
    BY <1>1, <1>4, ChangedVal DEF Blank, IsResult
  <2>3. /\ Outcome(Blank(res)) = Promise!Failure(res.err)
        /\ Blank(res).slot = res.slot
    <3>. DEFINE b == Blank(res)
    <3>1. b.present = FALSE /\ b.val = Zero /\ b.err = res.err /\ b.slot = res.slot
      BY <2>1, <2>2
    <3>. HIDE DEF b
    <3>2. Outcome(b) = Promise!Failure(res.err)
      BY <1>2, <3>1 DEF Outcome, Promise!Returned, Promise!Failure
    <3>. QED
      BY <3>1, <3>2 DEF b
  <2>4. /\ Promise!Failure(res.err).present = FALSE
        /\ Promise!Failure(res.err).err = res.err
        /\ res.err = NoError => Promise!Failure(res.err) = Promise!NoValue
    BY <1>2 DEF Promise!Failure, Promise!Returned, Promise!NoValue
  <2>. QED
    BY <1>4, <2>1, <2>3, <2>4 DEF Deliveries
<1>. QED
  BY <1>3, <1>4

\* After a reset the slot agrees with the empty history,
LEMMA NumberAgreeAtFirst ==
  ASSUME NEW f \in Numbers(Decimals)
  PROVE  NumberAgree(f, UndefinedNumber, <<>>)
<1>1. PresentAt(<<>>) = {} /\ <<>> \in Seq(Deliveries)
  BY DEF PresentAt
<1>2. Zero \in Decimals
  BY NumberFacts
<1>. QED
  BY <1>1, <1>2 DEF NumberAgree, HasLatest, EmptyIsLegal, NumberRemembers, NumberSlots,
                    States, UndefinedNumber

\* and after every call with the history that the call makes.
LEMMA NumberAgreeAfterCall ==
  ASSUME NEW f, NEW s, NEW l, NumberAgree(f, s, l), NEW res, NumberContract(f, s, res)
  PROVE  NumberAgree(f, res.slot, Noted(l, Outcome(Blank(res))))
<1>. DEFINE e == Outcome(Blank(res))
<1>1. /\ e.present = res.present /\ e.err = res.err
      /\ res.present => e = Promise!Value(res.val)
      /\ res.err = NoError => e \in Deliveries
  BY NumberOutcome
<1>2. res.present => e.val = res.val
  BY <1>1 DEF Promise!Value, Promise!Returned
<1>3. /\ f \in Numbers(Decimals) /\ f.op \in Operators
      /\ l \in Seq(Deliveries) /\ HasLatest(l) /\ NumberRemembers(f, s, l)
      /\ res.slot \in NumberSlots /\ EmptyIsLegal(f, res.slot)
  BY NumberFacts DEF NumberAgree, NumberContract
<1>. HIDE DEF e
<1>4. CASE res.err # NoError
  <2>1. res.slot = s /\ Noted(l, e) = l
    BY <1>1, <1>4 DEF NumberContract, Noted
  <2>. QED
    BY <2>1 DEF e
<1>5. CASE res.err = NoError
  <2>1. /\ Noted(l, e) = Append(l, e) /\ e \in Deliveries
        /\ Kept(f, s, res) /\ f.op \notin {"Increment", "Tail"}
    BY <1>1, <1>5 DEF NumberContract, Noted
  <2>2. /\ Append(l, e) \in Seq(Deliveries) /\ Append(l, e) # <<>>
        /\ LastOutcome(Append(l, e)) = e
    BY <1>3, <2>1, AppendFacts
  <2>3. /\ HasLatest(Append(l, e))
        /\ e.present => /\ PresentAt(Append(l, e)) # {}
                        /\ Latest(Append(l, e)) = e.val
        /\ ~e.present =>
             /\ PresentAt(Append(l, e)) = PresentAt(l)
             /\ PresentAt(l) # {} => Latest(Append(l, e)) = Latest(l)
    BY <1>3, <2>1, LatestAfter
  <2>4. NumberRemembers(f, res.slot, Append(l, e))
    BY <1>1, <1>2, <1>3, <2>1, <2>2, <2>3 DEF NumberRemembers, Kept
  <2>. QED
    BY <1>3, <2>1, <2>2, <2>3, <2>4 DEF NumberAgree, e
<1>. QED
  BY <1>4, <1>5

-----------------------------------------------------------------------------
(* Decimals with one operator: every call returns what is promised.        *)

\* How the caller sees the three ways to return.
LEMMA Shown ==
  ASSUME NEW w, NEW s
  PROVE  /\ \A v : Outcome(Blank(Present(w, s, v))) = Promise!Value(v)
         /\ Outcome(Blank(Absent(w, s))) = Promise!NoValue
         /\ \A e : Outcome(Blank(Fail(w, s, e))) = Promise!Failure(e)
<1>1. Promise!Zero = Zero /\ Promise!NoError = NoError
  BY DEF Promise!Zero, Zero, Promise!Decimal, Decimal, Promise!NoError, NoError
<1>2. ASSUME NEW v PROVE Outcome(Blank(Present(w, s, v))) = Promise!Value(v)
  BY <1>1 DEF Outcome, Blank, Present, Promise!Returned, Promise!Value
<1>3. ASSUME NEW e PROVE Outcome(Blank(Fail(w, s, e))) = Promise!Failure(e)
  <2>. DEFINE r == Fail(w, s, e)
  <2>1. r = [wire |-> w, slot |-> s, val |-> 0, present |-> FALSE, err |-> e]
    BY DEF Fail
  <2>. HIDE DEF r
  <2>2. Blank(r) = [wire |-> w, slot |-> s, val |-> Zero, present |-> FALSE, err |-> e]
    BY <2>1, ChangedVal DEF Blank
  <2>. QED
    BY <1>1, <2>2 DEF Outcome, Promise!Returned, Promise!Failure, r
<1>4. Absent(w, s) = Fail(w, s, NoError) /\ Promise!NoValue = Promise!Failure(NoError)
  BY <1>1 DEF Absent, Fail, Promise!NoValue, Promise!Failure, Promise!Returned
<1>. QED
  BY <1>2, <1>3, <1>4

\* A decimal that is read is the one that was transmitted.
LEMMA ScaledIsTransmitted ==
  ASSUME decl.optional \in BOOLEAN, NEW w
  PROVE  LET rd == ReadScaled(w, decl.optional)
         IN  Promise!Transmitted(w) = IF rd.err # NoError THEN Promise!Failure(rd.err)
                                      ELSE IF rd.null THEN Promise!NoValue
                                      ELSE Promise!Value(rd.val)
<1>. DEFINE opt == decl.optional
            e == readDelta(w, opt)
            m == ReadInt(e.wire)
            rd == ReadScaled(w, opt)
            x == [w EXCEPT !.buf = Tail(@)]
            te == Delivered(e)
            tm == Delivered(ReadInt(x))
<1>1. /\ ReadContract(e, Int64) /\ ReadContract(m, Int64) /\ ~m.null
      /\ e.err # NoError \/ e.null => rd.err = e.err /\ rd.null = e.null
      /\ ~(e.err # NoError \/ e.null) =>
           /\ rd.err = m.err /\ ~rd.null
           /\ rd.val = Decimal(m.val, ToInt32(e.val))
  BY ScaledRead
<1>2. ASSUME NEW o \in BOOLEAN, NEW y
      PROVE  /\ Promise!Integer!Transmitted(Promise!Plain(o), y) = Delivered(readDelta(y, o))
             /\ readDelta(y, o).wire = AfterEntity(y)
  <2>. DEFINE f == Promise!Plain(o)
  <2>1. f.type = "int" /\ f.optional = o
    BY DEF Promise!Plain
  <2>. HIDE DEF f
  <2>2. /\ Transmitted(f, y) = Delivered(readDelta(y, f.optional))
        /\ readDelta(y, f.optional).wire = AfterEntity(y)
    BY <2>1, ReadIsTransmitted, ReadLeaves
  <2>. QED
    BY <2>1, <2>2, SameReading DEF f
<1>3. readDelta(x, FALSE) = ReadInt(x)
  BY DEF readDelta
<1>4. Promise!Transmitted(w) =
        IF te.err # NoError THEN Promise!Failure(te.err)
        ELSE IF ~te.present THEN Promise!NoValue
        ELSE IF tm.err # NoError THEN Promise!Failure(tm.err)
        ELSE Promise!Value(Decimal(tm.val, Promise!Narrow(te.val)))
  <2>1. /\ Promise!Integer!Transmitted(Promise!Plain(opt), w) = te
        /\ Promise!Integer!Transmitted(Promise!Plain(FALSE), x) = tm
    BY <1>2, <1>3
  <2>. HIDE DEF te, tm
  <2>. QED
    BY <2>1 DEF Promise!Transmitted, Promise!NoError, NoError, Promise!Decimal, Decimal
<1>5. /\ te.err = e.err
      /\ e.err = NoError => te.present = ~e.null
      /\ e.err = NoError /\ ~e.null => te.val = e.val
  BY <1>1 DEF Delivered, ReadContract
<1>6. e.err = NoError => e.wire = x
  <2>1. e.err = NoError => w.buf # <<>>
    BY DEF readDelta, ReadNullableInt, ReadInt, UndoNullableShift, ReadEntity,
           NoError, EndOfStream
  <2>. QED
    BY <1>2, <2>1 DEF AfterEntity
<1>7. e.err = NoError => /\ tm.err = m.err
                         /\ m.err = NoError => tm.val = m.val
  BY <1>1, <1>6 DEF Delivered
<1>8. Promise!Narrow(e.val) = ToInt32(e.val)
  BY <1>1, NarrowAndWide, WidthAssumption DEF ReadContract, Int64
<1>9. e.null \in BOOLEAN
  BY <1>1 DEF ReadContract
<1>. HIDE DEF e, m, rd, x, te, tm
<1>10. Promise!Transmitted(w) = IF rd.err # NoError THEN Promise!Failure(rd.err)
                                ELSE IF rd.null THEN Promise!NoValue
                                ELSE Promise!Value(rd.val)
  <2>1. CASE e.err # NoError
    BY <1>1, <1>4, <1>5, <2>1
  <2>2. CASE e.err = NoError /\ e.null
    BY <1>1, <1>4, <1>5, <1>9, <2>2
  <2>3. CASE e.err = NoError /\ ~e.null
    BY <1>1, <1>4, <1>5, <1>7, <1>8, <1>9, <2>3
  <2>. QED
    BY <2>1, <2>2, <2>3
<1>. QED
  BY <1>10 DEF rd

\* Consuming a bit changes nothing about the entities.
LEMMA BitsAndDecimals ==
  ASSUME NEW w, IsWire(w)
  PROVE  Promise!Transmitted(AfterBit(w)) = Promise!Transmitted(w)
<1>. DEFINE v == AfterBit(w)
            x == [w EXCEPT !.buf = Tail(@)]
            y == [v EXCEPT !.buf = Tail(@)]
<1>1. v.buf = w.buf /\ x.buf = Tail(w.buf) /\ y.buf = Tail(w.buf)
  BY DEF AfterBit, IsWire
<1>. HIDE DEF v, x, y
<1>2. ASSUME NEW f
      PROVE  /\ Promise!Integer!Transmitted(f, v) = Promise!Integer!Transmitted(f, w)
             /\ Promise!Integer!Transmitted(f, y) = Promise!Integer!Transmitted(f, x)
  BY <1>1 DEF Promise!Integer!Transmitted
<1>. QED
  BY <1>2 DEF Promise!Transmitted, v, x, y

\* What a delta of the number returns.
LEMMA DeltaReturns ==
  ASSUME NEW w, NEW f, NEW s, s.State # "Empty"
  PROVE  LET e == readDelta(w, f.optional)
             m == ReadInt(e.wire)
             v == Added(decimalDeltaBase(f, s), m.val, e.val)
         IN  Outcome(Blank(DecodeDecimalDelta(w, f, s))) =
               IF e.err # NoError THEN Promise!Failure(e.err)
               ELSE IF e.null THEN Promise!NoValue
               ELSE IF m.err # NoError THEN Promise!Failure(m.err)
               ELSE Promise!Value(v)
<1>. DEFINE e == readDelta(w, f.optional)
            m == ReadInt(e.wire)
            v == Added(decimalDeltaBase(f, s), m.val, e.val)
            out == Outcome(Blank(DecodeDecimalDelta(w, f, s)))
<1>1. DecodeDecimalDelta(w, f, s) =
        IF e.err # NoError THEN Fail(e.wire, s, e.err)
        ELSE IF e.null THEN Absent(e.wire, s)
        ELSE IF m.err # NoError THEN Fail(m.wire, s, m.err)
        ELSE Present(m.wire, Assign(v), v)
  BY DEF DecodeDecimalDelta
<1>2. out = IF e.err # NoError THEN Promise!Failure(e.err)
            ELSE IF e.null THEN Promise!NoValue
            ELSE IF m.err # NoError THEN Promise!Failure(m.err)
            ELSE Promise!Value(v)
  <2>. HIDE DEF e, m, v
  <2>1. /\ Outcome(Blank(Fail(e.wire, s, e.err))) = Promise!Failure(e.err)
        /\ Outcome(Blank(Absent(e.wire, s))) = Promise!NoValue
        /\ Outcome(Blank(Fail(m.wire, s, m.err))) = Promise!Failure(m.err)
        /\ Outcome(Blank(Present(m.wire, Assign(v), v))) = Promise!Value(v)
    BY Shown
  <2>. QED
    BY <1>1, <2>1
<1>. QED
  BY <1>2

\* The base and the sum of a delta are those of the promise.
LEMMA DecimalDeltaIsPromised ==
  ASSUME NumberAgree(decl, slot, log.number), decl.op = "Delta", NEW w
  PROVE  Outcome(Blank(DecodeDecimalDelta(w, decl, slot))) = Promise!Explicit(w)
<1>. DEFINE opt == decl.optional
            e == readDelta(w, opt)
            m == ReadInt(e.wire)
            rd == ReadScaled(w, opt)
            b == decimalDeltaBase(decl, slot)
            v == Added(b, m.val, e.val)
            T == Promise!Transmitted(w)
<1>1. /\ decl.hasInitial \in BOOLEAN /\ opt \in BOOLEAN
      /\ slot.State # "Empty" /\ b \in Decimals
  <2>1. /\ decl.initial \in Decimals /\ Zero \in Decimals /\ slot.Val \in Decimals
        /\ decl.hasInitial \in BOOLEAN /\ opt \in BOOLEAN
    BY NumberFacts DEF NumberAgree, NumberSlots
  <2>. QED
    BY <2>1 DEF NumberAgree, EmptyIsLegal, decimalDeltaBase
<1>2. Promise!LastDecimal = b
  <2>1. Promise!LastDecimal = IF PresentAt(log.number) = {}
                              THEN IF decl.hasInitial THEN decl.initial ELSE Zero
                              ELSE Latest(log.number)
    BY SameHistory DEF Promise!LastDecimal, Promise!Zero, Zero, Promise!Decimal, Decimal
  <2>. QED
    BY <1>1, <2>1
       DEF NumberAgree, NumberRemembers, decimalDeltaBase, UndefinedNumber, Assign
<1>3. T = IF rd.err # NoError THEN Promise!Failure(rd.err)
          ELSE IF rd.null THEN Promise!NoValue ELSE Promise!Value(rd.val)
  BY <1>1, ScaledIsTransmitted
<1>4. /\ ReadContract(e, Int64) /\ ReadContract(m, Int64)
      /\ e.err # NoError \/ e.null => rd.err = e.err /\ rd.null = e.null
      /\ ~(e.err # NoError \/ e.null) =>
           /\ rd.err = m.err /\ ~rd.null
           /\ rd.val = Decimal(m.val, ToInt32(e.val))
  BY ScaledRead
<1>5. Promise!Sum(b, Decimal(m.val, ToInt32(e.val))) = v
  <2>. DEFINE x == m.val
              z == ToInt32(e.val)
  <2>1. x \in Int /\ z \in Int /\ b.mant \in Int /\ b.exp \in Int
    <3>1. Int64 \subseteq Int /\ Int32 \subseteq Int
      BY WidthAssumption DEF Int64, Int32
    <3>2. e.val \in Int /\ m.val \in Int
      BY <1>4, <3>1 DEF ReadContract
    <3>3. ToInt32(e.val) \in Int32
      BY <3>2, NarrowAndWide
    <3>. QED
      BY <1>1, <3>1, <3>2, <3>3 DEF Decimals
  <2>2. v = Decimal(ToInt64(b.mant + x), ToInt32(b.exp + z))
    BY DEF Added
  <2>3. /\ Decimal(x, z).mant = x /\ Decimal(x, z).exp = z
    BY DEF Decimal
  <2>. HIDE DEF x, z, b, v, e, m
  <2>4. b.mant + x \in Int /\ b.exp + z \in Int
    BY <2>1
  <2>5. /\ Promise!Wide(b.mant + x) = ToInt64(b.mant + x)
        /\ Promise!Narrow(b.exp + z) = ToInt32(b.exp + z)
    BY <2>4, NarrowAndWide
  <2>6. Promise!Sum(b, Decimal(x, z)) = v
    BY <2>2, <2>3, <2>5 DEF Promise!Sum, Promise!Decimal, Decimal
  <2>. QED
    BY <2>6 DEF x, z
<1>7. Promise!Explicit(w) = IF T.present THEN Promise!Value(Promise!Sum(b, T.val)) ELSE T
  BY <1>2 DEF Promise!Explicit
<1>8. /\ \A d : Promise!Value(d).present = TRUE /\ Promise!Value(d).val = d
      /\ \A d : Promise!Failure(d).present = FALSE
      /\ Promise!NoValue.present = FALSE
  BY DEF Promise!Value, Promise!Failure, Promise!NoValue, Promise!Returned
<1>. DEFINE out == Outcome(Blank(DecodeDecimalDelta(w, decl, slot)))
<1>9. out = IF e.err # NoError THEN Promise!Failure(e.err)
            ELSE IF e.null THEN Promise!NoValue
            ELSE IF m.err # NoError THEN Promise!Failure(m.err)
            ELSE Promise!Value(v)
  BY <1>1, DeltaReturns
<1>10. e.null \in BOOLEAN
  BY <1>4 DEF ReadContract
<1>11. Promise!Explicit(w) = out
  <2>. HIDE DEF e, m, rd, b, v, T, opt, out
  <2>1. CASE e.err # NoError
    <3>1. T = Promise!Failure(e.err)
      BY <1>3, <1>4, <2>1
    <3>. QED
      BY <1>7, <1>8, <1>9, <2>1, <3>1
  <2>2. CASE e.err = NoError /\ e.null
    <3>1. T = Promise!NoValue
      BY <1>3, <1>4, <1>10, <2>2
    <3>. QED
      BY <1>7, <1>8, <1>9, <2>2, <3>1
  <2>3. CASE e.err = NoError /\ ~e.null /\ m.err # NoError
    <3>1. T = Promise!Failure(m.err)
      BY <1>3, <1>4, <2>3
    <3>. QED
      BY <1>7, <1>8, <1>9, <2>3, <3>1
  <2>4. CASE e.err = NoError /\ ~e.null /\ m.err = NoError
    <3>1. T = Promise!Value(Decimal(m.val, ToInt32(e.val)))
      BY <1>3, <1>4, <2>4
    <3>. QED
      BY <1>5, <1>7, <1>8, <1>9, <2>4, <3>1
  <2>. QED
    BY <1>10, <2>1, <2>2, <2>3, <2>4
<1>. QED
  BY <1>11

\* Every call returns what is promised.
LEMMA NumberIsPromised ==
  ASSUME NumberAgree(decl, slot, log.number), NEW w, IsWire(w)
  PROVE  Outcome(Blank(DecodeNumber(w, decl, slot))) = Promise!PromisedNumber(w)
<1>. DEFINE v == AfterBit(w)
            l == log.number
            Show(res) == Outcome(Blank(res))
<1>1. /\ decl.op \in Operators /\ decl.optional \in BOOLEAN
      /\ decl.hasInitial \in BOOLEAN /\ slot.State \in States
      /\ NumberRemembers(decl, slot, l) /\ l \in Seq(Deliveries)
      /\ slot.State = "Empty" => decl.optional
  BY NumberFacts DEF NumberAgree, NumberSlots, EmptyIsLegal
<1>2. Promise!Transmitted(v) = Promise!Transmitted(w)
  BY BitsAndDecimals
<1>3. ASSUME NEW x
      PROVE  /\ Show(DeliverRead(ReadScaled(x, decl.optional), slot)) = Promise!Transmitted(x)
             /\ Show(DeliverAndKeep(ReadScaled(x, decl.optional), slot))
                  = Promise!Transmitted(x)
  <2>. DEFINE rd == ReadScaled(x, decl.optional)
  <2>1. Promise!Transmitted(x) = IF rd.err # NoError THEN Promise!Failure(rd.err)
                                 ELSE IF rd.null THEN Promise!NoValue
                                 ELSE Promise!Value(rd.val)
    BY <1>1, ScaledIsTransmitted
  <2>2. \A s : /\ Show(Present(rd.wire, s, rd.val)) = Promise!Value(rd.val)
               /\ Show(Absent(rd.wire, s)) = Promise!NoValue
               /\ Show(Fail(rd.wire, s, rd.err)) = Promise!Failure(rd.err)
    BY Shown
  <2>. HIDE DEF rd, Show
  <2>3. /\ Show(DeliverRead(rd, slot)) = Promise!Transmitted(x)
        /\ Show(DeliverAndKeep(rd, slot)) = Promise!Transmitted(x)
    BY <2>1, <2>2 DEF DeliverRead, DeliverAndKeep
  <2>. QED
    BY <2>3 DEF rd
<1>4. /\ Promise!Start = IF decl.hasInitial THEN Promise!Value(decl.initial)
                         ELSE IF decl.optional THEN Promise!NoValue
                         ELSE Promise!Failure(ErrD5)
      /\ Promise!Implied = IF decl.op = "Constant" THEN Promise!NoValue
                           ELSE IF decl.op = "Default" \/ l = <<>> THEN Promise!Start
                           ELSE LastOutcome(l)
      /\ Promise!Explicit(w) = IF decl.op = "Constant" THEN Promise!Value(decl.initial)
                               ELSE IF decl.op = "Delta" THEN Promise!Explicit(w)
                               ELSE Promise!Transmitted(w)
  BY SameHistory DEF Promise!Start, Promise!Implied, Promise!Explicit, Promise!ErrD5, ErrD5
<1>5. Promise!PromisedNumber(w) =
        IF decl.op \in {"Increment", "Tail"} THEN Promise!Failure(ErrUnsupported)
        ELSE IF \/ decl.op \in {"None", "Delta", "Tail"}
                \/ decl.op = "Constant" /\ ~decl.optional
                \/ decl.op \notin {"None", "Delta", "Tail"} /\ PresenceBit(w)
        THEN Promise!Explicit(w) ELSE Promise!Implied
  BY SameReading DEF Promise!PromisedNumber, Selected, Promise!ErrUnsupported, ErrUnsupported
<1>6. \A x, t, z, err : /\ Show(Present(x, t, z)) = Promise!Value(z)
                        /\ Show(Absent(x, t)) = Promise!NoValue
                        /\ Show(Fail(x, t, err)) = Promise!Failure(err)
  BY Shown
<1>. HIDE DEF v, l, Show
<1>7. CASE decl.op = "None"
  BY <1>3, <1>4, <1>5, <1>7 DEF DecodeNumber, DecodeDecimal, Show
<1>8. CASE decl.op = "Constant"
  BY <1>1, <1>4, <1>5, <1>6, <1>8 DEF DecodeNumber, DecodeDecimal, DecimalConstant, Show
<1>9. CASE decl.op = "Default"
  BY <1>1, <1>2, <1>3, <1>4, <1>5, <1>6, <1>9
     DEF DecodeNumber, DecodeDecimal, DecimalDefault, Show, v
<1>10. CASE decl.op = "Copy"
  <2>1. DecodeNumber(w, decl, slot) = DecimalCopy(w, decl, slot)
    BY <1>10 DEF DecodeNumber, DecodeDecimal
  <2>2. CASE PresenceBit(w)
    <3>1. DecimalCopy(w, decl, slot) = DeliverAndKeep(ReadScaled(v, decl.optional), slot)
      BY <2>2 DEF DecimalCopy, v
    <3>. QED
      BY <1>2, <1>3, <1>4, <1>5, <1>10, <2>1, <2>2, <3>1 DEF Show
  <2>3. CASE ~PresenceBit(w)
    <3>1. Promise!PromisedNumber(w) = IF l = <<>> THEN Promise!Start ELSE LastOutcome(l)
      BY <1>4, <1>5, <1>10, <2>3
    <3>2. CASE l = <<>>
      <4>1. slot.State = "Undefined"
        BY <1>1, <1>10, <3>2 DEF NumberRemembers, UndefinedNumber
      <4>2. DecimalCopy(w, decl, slot) = ResolveUndefined(v, decl, slot)
        BY <2>3, <4>1 DEF DecimalCopy, v
      <4>. QED
        BY <1>1, <1>4, <1>6, <2>1, <3>1, <3>2, <4>2 DEF ResolveUndefined, Show
    <3>3. CASE l # <<>>
      <4>1. LastOutcome(l) \in Deliveries
        <5>1. l[Len(l)] \in Deliveries
          BY <1>1, <3>3
        <5>. QED
          BY <5>1 DEF LastOutcome
      <4>2. CASE LastOutcome(l).present
        <5>1. LastOutcome(l) = Promise!Value(LastOutcome(l).val)
          BY <4>1, <4>2 DEF Deliveries, Promise!Value, Promise!NoValue, Promise!Returned
        <5>2. slot.State = "Assigned" /\ slot.Val = LastOutcome(l).val
          BY <1>1, <1>10, <3>3, <4>2 DEF NumberRemembers, Assign
        <5>3. DecimalCopy(w, decl, slot) = Present(v, slot, slot.Val)
          BY <2>3, <5>2 DEF DecimalCopy, v
        <5>. QED
          BY <1>6, <2>1, <3>1, <3>3, <5>1, <5>2, <5>3 DEF Show
      <4>3. CASE ~LastOutcome(l).present
        <5>1. LastOutcome(l) = Promise!NoValue
          BY <4>1, <4>3 DEF Deliveries, Promise!Value, Promise!NoValue, Promise!Returned
        <5>2. slot.State = "Empty" /\ decl.optional
          BY <1>1, <1>10, <3>3, <4>3 DEF NumberRemembers
        <5>3. DecimalCopy(w, decl, slot) = ResolveEmpty(v, decl, slot)
          BY <2>3, <5>2 DEF DecimalCopy, v
        <5>. QED
          BY <1>6, <2>1, <3>1, <3>3, <5>1, <5>2, <5>3 DEF ResolveEmpty, Show
      <4>. QED
        BY <4>2, <4>3
    <3>. QED
      BY <3>2, <3>3
  <2>. QED
    BY <2>2, <2>3
<1>11. CASE decl.op \in {"Increment", "Tail"}
  BY <1>5, <1>6, <1>11 DEF DecodeNumber, DecodeDecimal, Show
<1>12. CASE decl.op = "Delta"
  <2>1. DecodeNumber(w, decl, slot) = DecodeDecimalDelta(w, decl, slot)
    BY <1>12 DEF DecodeNumber
  <2>. QED
    BY <1>5, <1>12, <2>1, DecimalDeltaIsPromised
<1>. QED
  BY <1>1, <1>7, <1>8, <1>9, <1>10, <1>11, <1>12 DEF Operators

-----------------------------------------------------------------------------
(* The inductive invariant: each slot agrees with its own history.         *)

IInv ==
  /\ TypeOK
  /\ log = [number |-> log.number, exp |-> log.exp, mant |-> log.mant]
  /\ decl.kind = "number" => NumberAgree(decl, slot, log.number)
  /\ decl.kind = "parts" =>
       /\ decl \in Parts(Int64)
       /\ slot = [exp |-> slot.exp, mant |-> slot.mant]
       /\ Agree(decl.exp, slot.exp, log.exp)
       /\ Agree(decl.mant, slot.mant, log.mant)

\* A declaration is a number or parts.
LEMMA TwoKinds ==
  ASSUME decl \in Declarations
  PROVE  \/ decl.kind = "number" /\ decl \in Numbers(Decimals)
         \/ decl.kind = "parts" /\ decl \in Parts(Int64)
BY DecimalAssumption, NumberFacts, PartsAreFields

\* A history takes in the outcomes in either vocabulary.
LEMMA SameNoted ==
  ASSUME NEW l, NEW o
  PROVE  Promise!Noted(l, o) = Noted(l, o)
BY DEF Promise!Noted, Noted, Promise!NoError, NoError

\* The types of the outcomes.
OutcomeType ==
  [present : BOOLEAN, val : Decimals, err : Errors \cup {NoError}]

LEMMA OutcomeTypes ==
  /\ Promise!NoValue \in OutcomeType /\ Promise!NoValue.err = NoError
  /\ \A d \in Decimals : Promise!Value(d) \in OutcomeType
  /\ \A e \in Errors \cup {NoError} : Promise!Failure(e) \in OutcomeType
<1>1. Promise!Zero \in Decimals /\ Promise!NoError = NoError
  BY WidthAssumption DEF Promise!Zero, Promise!Decimal, Decimals, Int64, Int32,
                         Promise!NoError, NoError
<1>. QED
  BY <1>1 DEF OutcomeType, Promise!NoValue, Promise!Value, Promise!Failure, Promise!Returned

\* A decode of a decimal with one operator.
LEMMA NumberCall ==
  ASSUME IInv, decl.kind = "number", NEW w, IsWire(w), Decode(w)
  PROVE  /\ outcome' = Promise!PromisedNumber(w)
         /\ outcome' \in OutcomeType
         /\ log' = [log EXCEPT !.number = Noted(@, outcome')]
         /\ NumberAgree(decl, slot', Noted(log.number, outcome'))
         /\ outcome'.err # NoError => slot' = slot
<1>. DEFINE n == DecodeNumber(w, decl, slot)
            o == Outcome(Blank(n))
<1>1. NumberAgree(decl, slot, log.number)
  BY DEF IInv
<1>2. NumberContract(decl, slot, n)
  BY <1>1, DecodeNumberContract DEF NumberAgree
<1>3. DecodeAny(w, decl, slot) = Blank(n)
  BY DEF DecodeAny
<1>4. /\ slot' = Blank(n).slot /\ outcome' = o
      /\ log' = [log EXCEPT !.number = Promise!Noted(@, o)]
  <2>1. slot' = Blank(n).slot /\ outcome' = o /\ log' = LoggedBy(w, Blank(n))
    BY <1>3 DEF Decode
  <2>. HIDE DEF n
  <2>. QED
    BY <2>1 DEF LoggedBy
<1>5. /\ o = IF n.present THEN Promise!Value(n.val) ELSE Promise!Failure(n.err)
      /\ o.err = n.err /\ Blank(n).slot = n.slot
  BY <1>2, NumberOutcome
<1>6. o = Promise!PromisedNumber(w)
  BY <1>1, NumberIsPromised
<1>7. NumberAgree(decl, n.slot, Noted(log.number, o))
  BY <1>1, <1>2, NumberAgreeAfterCall
<1>. HIDE DEF n, o
<1>8. o \in OutcomeType
  BY <1>2, <1>5, OutcomeTypes DEF NumberContract
<1>9. n.err # NoError => n.slot = slot
  BY <1>2 DEF NumberContract
<1>. QED
  BY <1>4, <1>5, <1>6, <1>7, <1>8, <1>9, SameNoted

\* A decode of a decimal in parts.
LEMMA PartsCall ==
  ASSUME IInv, decl.kind = "parts", NEW w, IsWire(w), Decode(w)
  PROVE  LET e == intDecodeCall(w, decl.exp, slot.exp)
             m == intDecodeCall(e.wire, decl.mant, slot.mant)
         IN  /\ Visible(e) = Promise!PromisedExponent(w)
             /\ Visible(m) = Promise!PromisedMantissa(w)
             /\ outcome' = Promise!PromisedParts(w)
             /\ outcome' \in OutcomeType
             /\ slot' = [exp |-> e.slot, mant |-> IF e.present THEN m.slot ELSE slot.mant]
             /\ log' = [log EXCEPT !.exp = Noted(@, Visible(e)),
                                   !.mant = IF e.present THEN Noted(@, Visible(m)) ELSE @]
             /\ Agree(decl.exp, e.slot, Noted(log.exp, Visible(e)))
             /\ Agree(decl.mant, m.slot, Noted(log.mant, Visible(m)))
             /\ ~e.present => outcome'.err = e.err
             /\ e.present => e.err = NoError /\ outcome'.err = m.err
             /\ e.err # NoError => e.slot = slot.exp
             /\ m.err # NoError => m.slot = slot.mant
<1>. DEFINE e == intDecodeCall(w, decl.exp, slot.exp)
            m == intDecodeCall(e.wire, decl.mant, slot.mant)
            res == DecodeAny(w, decl, slot)
<1>1. /\ decl \in Parts(Int64) /\ slot = [exp |-> slot.exp, mant |-> slot.mant]
      /\ Agree(decl.exp, slot.exp, log.exp) /\ Agree(decl.mant, slot.mant, log.mant)
  BY DEF IInv
<1>2. /\ decl.exp \in AllFields /\ decl.exp.type = "int"
      /\ decl.mant \in AllFields /\ decl.mant.type = "int"
      /\ slot.exp \in Slots(decl.exp) /\ slot.mant \in Slots(decl.mant)
  BY <1>1, PartsAreFields DEF Agree
<1>3. /\ e = DecodeInteger(w, decl.exp, slot.exp)
      /\ m = DecodeInteger(e.wire, decl.mant, slot.mant)
  BY <1>2 DEF DecodeInteger
<1>4. e.wire = Rest(decl.exp, w) /\ IsWire(Rest(decl.exp, w))
  <2>1. e.wire = Rest(decl.exp, w)
    BY <1>2, <1>3, RestIsLeft
  <2>. QED
    BY <2>1 DEF IsWire, Rest
<1>5. /\ Contract(decl.exp, slot.exp, e) /\ Contract(decl.mant, slot.mant, m)
      /\ e.present /\ m.present =>
           /\ Outcome(res) = Promise!Value(Decimal(m.val, ToInt32(e.val)))
           /\ m.err = NoError
      /\ e.present /\ ~m.present => Outcome(res) = Promise!Failure(m.err) /\ m.err # NoError
      /\ ~e.present => Outcome(res) = Promise!Failure(e.err)
      /\ res.slot = [exp |-> e.slot, mant |-> IF e.present THEN m.slot ELSE slot.mant]
  BY <1>1, <1>2, PartsResult
<1>6. Visible(e) = Promise!PromisedExponent(w)
  <2>1. Visible(e) = Promised(decl.exp, log.exp, w)
    BY <1>1, <1>3, OutcomeIsPromised
  <2>. QED
    BY <2>1, SamePromise DEF Promise!PromisedExponent
<1>7. Visible(m) = Promise!PromisedMantissa(w)
  <2>1. Visible(m) = Promised(decl.mant, log.mant, Rest(decl.exp, w))
    <3>1. Visible(DecodeInteger(Rest(decl.exp, w), decl.mant, slot.mant))
            = Promised(decl.mant, log.mant, Rest(decl.exp, w))
      BY <1>1, <1>4, OutcomeIsPromised
    <3>. QED
      BY <1>3, <1>4, <3>1
  <2>2. Promise!Integer!Rest(decl.exp, w) = Rest(decl.exp, w)
    BY SameReading
  <2>3. Promise!PromisedMantissa(w) = Promised(decl.mant, log.mant, Rest(decl.exp, w))
    BY <2>2, SamePromise DEF Promise!PromisedMantissa
  <2>. QED
    BY <2>1, <2>3
<1>8. /\ Agree(decl.exp, e.slot, Noted(log.exp, Visible(e)))
      /\ Agree(decl.mant, m.slot, Noted(log.mant, Visible(m)))
  BY <1>1, <1>5, AgreeAfterCall
<1>9. slot' = res.slot /\ outcome' = Outcome(res) /\ log' = LoggedBy(w, res)
  BY DEF Decode
<1>10. LoggedBy(w, res) =
         [log EXCEPT !.exp = Noted(@, Visible(e)),
                     !.mant = IF e.present THEN Noted(@, Visible(m)) ELSE @]
  <2>1. LoggedBy(w, res) =
          [log EXCEPT !.exp = Promise!Noted(@, Outcome(e)),
                      !.mant = IF e.present THEN Promise!Noted(@, Outcome(m)) ELSE @]
    BY DEF LoggedBy
  <2>. HIDE DEF e, m, res
  <2>2. Promise!Noted(log.exp, Outcome(e)) = Noted(log.exp, Visible(e))
    BY SameNoted, OutcomeIsWhatIsVisible
  <2>3. Promise!Noted(log.mant, Outcome(m)) = Noted(log.mant, Visible(m))
    BY SameNoted, OutcomeIsWhatIsVisible
  <2>4. log = [number |-> log.number, exp |-> log.exp, mant |-> log.mant]
    BY DEF IInv
  <2>. QED
    BY <2>1, <2>2, <2>3, <2>4
<1>. HIDE DEF e, m, res
<1>11. /\ e.present \in BOOLEAN /\ m.present \in BOOLEAN
       /\ e.present => e.err = NoError
       /\ e.err # NoError => e.slot = slot.exp
       /\ m.err # NoError => m.slot = slot.mant
       /\ e.err \in Errors \cup {NoError} /\ m.err \in Errors \cup {NoError}
       /\ e.val \in Int64 /\ m.val \in Int64
  BY <1>2, <1>5 DEF Contract, Values
<1>12. ToInt32(e.val) \in Int32 /\ Promise!Narrow(e.val) = ToInt32(e.val)
  <2>1. e.val \in Int
    BY <1>11, WidthAssumption DEF Int64
  <2>. QED
    BY <2>1, NarrowAndWide
<1>13. /\ \A v : Promise!Value(v).err = NoError
       /\ \A x : Promise!Failure(x).err = x
  BY DEF Promise!Value, Promise!Failure, Promise!Returned, Promise!NoError, NoError
<1>14. Outcome(res) = Promise!PromisedParts(w)
  <2>1. /\ Visible(e).present = e.present /\ Visible(e).val = e.val /\ Visible(e).err = e.err
        /\ Visible(m).present = m.present /\ Visible(m).val = m.val /\ Visible(m).err = m.err
    BY DEF Visible, Returned
  <2>2. Promise!PromisedParts(w) =
          IF ~Visible(e).present THEN Promise!Failure(Visible(e).err)
          ELSE IF ~Visible(m).present THEN Promise!Failure(Visible(m).err)
          ELSE Promise!Value(Decimal(Visible(m).val, Promise!Narrow(Visible(e).val)))
    BY <1>6, <1>7 DEF Promise!PromisedParts, Promise!Failure, Promise!Decimal, Decimal
  <2>. QED
    BY <1>5, <1>11, <1>12, <2>1, <2>2
<1>15. Outcome(res) \in OutcomeType
  <2>1. Decimal(m.val, ToInt32(e.val)) \in Decimals
    BY <1>11, <1>12 DEF Decimal, Decimals
  <2>. QED
    BY <1>5, <1>11, <2>1, OutcomeTypes
<1>16. /\ ~e.present => Outcome(res).err = e.err
       /\ e.present => Outcome(res).err = m.err
  BY <1>5, <1>11, <1>13
<1>. QED
  BY <1>5, <1>6, <1>7, <1>8, <1>9, <1>10, <1>11, <1>14, <1>15, <1>16 DEF e, m

\* Every input of a decode is a wire.
LEMMA InputsAreWires ==
  ASSUME NEW w \in Promise!Inputs(decl)
  PROVE  IsWire(w)
BY DEF Promise!Inputs, IsWire

\* Fresh slots and no history.
Fresh ==
  /\ decl \in Declarations
  /\ slot = UndefinedSlots(decl)
  /\ input = Promise!NoInput
  /\ outcome = Promise!NoValue
  /\ log = Promise!EmptyLog

\* With those the invariant holds,
LEMMA FreshEstablishes == Fresh => IInv
<1>. SUFFICES ASSUME Fresh PROVE IInv
  OBVIOUS
<1>1. /\ log = [number |-> log.number, exp |-> log.exp, mant |-> log.mant]
      /\ log.number = <<>> /\ log.exp = <<>> /\ log.mant = <<>>
  BY DEF Fresh, Promise!EmptyLog
<1>2. outcome \in [present : BOOLEAN, val : Decimals,
                   err : Errors \cup {NoError}]
  BY OutcomeTypes DEF Fresh, OutcomeType
<1>3. CASE decl.kind = "number" /\ decl \in Numbers(Decimals)
  <2>1. slot = UndefinedNumber
    BY <1>3 DEF Fresh, UndefinedSlots
  <2>2. NumberAgree(decl, slot, log.number)
    BY <1>1, <1>3, <2>1, NumberAgreeAtFirst
  <2>3. slot \in SlotType
    BY <1>3, <2>2 DEF NumberAgree, NumberSlots, SlotType
  <2>. QED
    BY <1>1, <1>2, <1>3, <2>2, <2>3 DEF Fresh, IInv, TypeOK
<1>4. CASE decl.kind = "parts" /\ decl \in Parts(Int64)
  <2>1. slot = [exp |-> UndefinedSlot, mant |-> UndefinedSlot]
    BY <1>4 DEF Fresh, UndefinedSlots
  <2>2. /\ Agree(decl.exp, slot.exp, log.exp)
        /\ Agree(decl.mant, slot.mant, log.mant)
    <3>1. /\ decl.exp \in AllFields /\ decl.mant \in AllFields
          /\ slot.exp = UndefinedSlot /\ slot.mant = UndefinedSlot
      BY <1>4, <2>1, PartsAreFields
    <3>2. /\ Agree(decl.exp, UndefinedSlot, <<>>)
          /\ Agree(decl.mant, UndefinedSlot, <<>>)
      BY <3>1, AgreeAtFirst
    <3>. QED
      BY <1>1, <3>1, <3>2
  <2>3. slot \in SlotType
    BY <1>4, <2>1, <2>2 DEF Agree, SlotType
  <2>. QED
    BY <1>1, <1>2, <1>4, <2>1, <2>2, <2>3 DEF Fresh, IInv, TypeOK
<1>. QED
  BY <1>3, <1>4, TwoKinds DEF Fresh

\* so it does at first,
LEMMA InitEstablishes == Init => IInv
BY FreshEstablishes DEF Init, Fresh

\* after a reset,
LEMMA FreshAgain == Fresh' => IInv'
BY FreshEstablishes, PTL

\* and after every other step.
LEMMA NextPreserves == IInv /\ [Next]_vars => IInv'
<1>. SUFFICES ASSUME IInv, [Next]_vars PROVE IInv'
  OBVIOUS
<1>1. CASE Reset
  <2>1. /\ decl' \in Declarations /\ slot' = UndefinedSlots(decl)'
        /\ log' = Promise!EmptyLog /\ outcome' = Promise!NoValue
        /\ input' = Promise!NoInput
    BY <1>1 DEF Reset, IInv, TypeOK, UndefinedSlots, Promise!EmptyLog, Promise!NoValue,
                Promise!NoInput
  <2>. QED
    BY <2>1, FreshAgain DEF Fresh
<1>2. ASSUME NEW w \in Promise!Inputs(decl), Decode(w) PROVE IInv'
  <2>1. /\ decl' = decl /\ decl \in Declarations
        /\ input' \in Promise!Inputs(decl)
        /\ log = [number |-> log.number, exp |-> log.exp, mant |-> log.mant]
    BY <1>2 DEF Decode, IInv, TypeOK
  <2>2. CASE decl.kind = "number"
    <3>1. /\ outcome' \in OutcomeType
          /\ log' = [log EXCEPT !.number = Noted(@, outcome')]
          /\ NumberAgree(decl, slot', Noted(log.number, outcome'))
      BY <1>2, <2>2, InputsAreWires, NumberCall
    <3>2. log' = [number |-> log'.number, exp |-> log'.exp, mant |-> log'.mant]
      BY <2>1, <3>1
    <3>3. log'.number = Noted(log.number, outcome')
      BY <2>1, <3>1
    <3>4. NumberAgree(decl', slot', log'.number)
      BY <2>1, <3>1, <3>3
    <3>5. slot' \in [State : States, Val : Decimals]
      BY <3>4 DEF NumberAgree, NumberSlots
    <3>. QED
      BY <2>1, <2>2, <3>1, <3>2, <3>4, <3>5 DEF IInv, TypeOK, SlotType, OutcomeType
  <2>3. CASE decl.kind = "parts"
    <3>. DEFINE e == intDecodeCall(w, decl.exp, slot.exp)
                m == intDecodeCall(e.wire, decl.mant, slot.mant)
    <3>1. /\ outcome' \in OutcomeType
          /\ slot' = [exp |-> e.slot, mant |-> IF e.present THEN m.slot ELSE slot.mant]
          /\ log' = [log EXCEPT !.exp = Noted(@, Visible(e)),
                                !.mant = IF e.present THEN Noted(@, Visible(m)) ELSE @]
          /\ Agree(decl.exp, e.slot, Noted(log.exp, Visible(e)))
          /\ Agree(decl.mant, m.slot, Noted(log.mant, Visible(m)))
      BY <1>2, <2>3, InputsAreWires, PartsCall
    <3>. HIDE DEF e, m
    <3>2. /\ log' = [number |-> log'.number, exp |-> log'.exp, mant |-> log'.mant]
          /\ log'.exp = Noted(log.exp, Visible(e))
          /\ log'.mant = IF e.present THEN Noted(log.mant, Visible(m)) ELSE log.mant
      BY <2>1, <3>1
    <3>3. /\ slot' = [exp |-> slot'.exp, mant |-> slot'.mant]
          /\ slot'.exp = e.slot
          /\ slot'.mant = IF e.present THEN m.slot ELSE slot.mant
      BY <3>1
    <3>4. /\ decl \in Parts(Int64)
          /\ Agree(decl.mant, slot.mant, log.mant)
      BY <2>3 DEF IInv
    <3>5. /\ Agree(decl.exp, slot'.exp, log'.exp)
          /\ Agree(decl.mant, slot'.mant, log'.mant)
      BY <3>1, <3>2, <3>3, <3>4
    <3>6. slot' \in [exp : Slots(decl.exp), mant : Slots(decl.mant)]
      BY <3>3, <3>5 DEF Agree
    <3>7. decl.kind # "number"
      BY <2>3
    <3>. QED
      BY <2>1, <2>3, <3>1, <3>2, <3>3, <3>4, <3>5, <3>6, <3>7
         DEF IInv, TypeOK, SlotType, OutcomeType
  <2>. QED
    BY <2>1, <2>2, <2>3, TwoKinds
<1>3. CASE UNCHANGED vars
  BY <1>3 DEF IInv, TypeOK, SlotType, vars, Promise!Inputs, Promise!NoInput
<1>. QED
  BY <1>1, <1>2, <1>3 DEF Next

\* Hence it always holds.
LEMMA Invariance == Spec => []IInv
BY InitEstablishes, NextPreserves, PTL DEF Spec

-----------------------------------------------------------------------------
(* The theorems.                                                           *)

\* The types, as an invariant of the specification: above all, every decimal
\* that is delivered or kept fits in 64 and 32 bits.
THEOREM DecimalTypeCorrect == Spec => []TypeOK
<1>1. IInv => TypeOK
  BY DEF IInv
<1>. QED
  BY <1>1, Invariance, PTL

\* A decode that fails leaves the previous value of a number alone, and of the
\* parts of a decimal it can have moved the exponent only.
THEOREM FailuresMoveTheExponentOnly == Spec => FailuresBetweenParts
<1>1. IInv /\ [Next]_vars =>
        [outcome'.err # NoError =>
           IF decl.kind = "number" THEN slot' = slot
           ELSE /\ slot'.mant = slot.mant
                /\ slot'.exp # slot.exp => intDecodeCall(input', decl.exp, slot.exp).present]_vars
  <2>. SUFFICES ASSUME IInv, Next, outcome'.err # NoError
                PROVE  IF decl.kind = "number" THEN slot' = slot
                       ELSE /\ slot'.mant = slot.mant
                            /\ slot'.exp # slot.exp =>
                                 intDecodeCall(input', decl.exp, slot.exp).present
    OBVIOUS
  <2>1. ~Reset
    BY OutcomeTypes DEF Reset
  <2>2. PICK w \in Promise!Inputs(decl) : Decode(w)
    BY <2>1 DEF Next
  <2>3. CASE decl.kind = "number"
    BY <2>2, <2>3, InputsAreWires, NumberCall
  <2>4. CASE decl.kind = "parts"
    <3>. DEFINE e == intDecodeCall(w, decl.exp, slot.exp)
                m == intDecodeCall(e.wire, decl.mant, slot.mant)
    <3>1. /\ slot' = [exp |-> e.slot, mant |-> IF e.present THEN m.slot ELSE slot.mant]
          /\ ~e.present => outcome'.err = e.err
          /\ e.present => e.err = NoError /\ outcome'.err = m.err
          /\ e.err # NoError => e.slot = slot.exp
          /\ m.err # NoError => m.slot = slot.mant
      BY <2>2, <2>4, InputsAreWires, PartsCall
    <3>2. input' = w
      BY <2>2 DEF Decode
    <3>. HIDE DEF m
    <3>3. /\ slot'.mant = slot.mant
          /\ slot'.exp # slot.exp => e.present
      <4>. HIDE DEF e
      <4>. QED
        BY <3>1
    <3>. QED
      BY <2>4, <3>2, <3>3
  <2>. QED
    BY <2>3, <2>4, TwoKinds DEF IInv, TypeOK
<1>. QED
  BY <1>1, Invariance, PTL DEF Spec, FailuresBetweenParts

\* The slots implement the promise, of a number and of parts.
THEOREM DecimalKeepsPromise == Spec => PromiseKept
<1>1. Init => Promise!Init
  BY DEF Init, Promise!Init
<1>2. IInv /\ [Next]_vars => [Promise!Next]_(Promise!vars)
  <2>. SUFFICES ASSUME IInv, [Next]_vars PROVE [Promise!Next]_(Promise!vars)
    OBVIOUS
  <2>1. CASE Reset
    BY <2>1 DEF Reset, Promise!Next, Promise!Reset
  <2>2. ASSUME NEW w \in Promise!Inputs(decl), Decode(w)
        PROVE  Promise!Decode(w)
    <3>1. CASE decl.kind = "number"
      <4>1. /\ outcome' = Promise!PromisedNumber(w)
            /\ log' = [log EXCEPT !.number = Noted(@, outcome')]
        BY <2>2, <3>1, InputsAreWires, NumberCall
      <4>2. Promise!Promised(w) = Promise!PromisedNumber(w)
        BY <3>1 DEF Promise!Promised
      <4>3. log' = Promise!Logged(w)
        BY <3>1, <4>1, SameNoted DEF Promise!Logged
      <4>. QED
        BY <2>2, <4>1, <4>2, <4>3 DEF Decode, Promise!Decode
    <3>2. CASE decl.kind = "parts"
      <4>. DEFINE e == intDecodeCall(w, decl.exp, slot.exp)
                  m == intDecodeCall(e.wire, decl.mant, slot.mant)
      <4>1. /\ Visible(e) = Promise!PromisedExponent(w)
            /\ Visible(m) = Promise!PromisedMantissa(w)
            /\ outcome' = Promise!PromisedParts(w)
            /\ log' = [log EXCEPT !.exp = Noted(@, Visible(e)),
                                  !.mant = IF e.present THEN Noted(@, Visible(m)) ELSE @]
        BY <2>2, <3>2, InputsAreWires, PartsCall
      <4>2. Promise!Promised(w) = Promise!PromisedParts(w)
        BY <3>2 DEF Promise!Promised
      <4>. HIDE DEF e, m
      <4>3. Visible(e).present = e.present
        BY DEF Visible, Returned
      <4>4. log' = Promise!Logged(w)
        <5>. DEFINE pe == Promise!PromisedExponent(w)
                    pm == Promise!PromisedMantissa(w)
        <5>1. Promise!Logged(w) =
                [log EXCEPT !.exp = Promise!Noted(@, pe),
                            !.mant = IF pe.present THEN Promise!Noted(@, pm) ELSE @]
          BY <3>2 DEF Promise!Logged
        <5>2. Visible(e) = pe /\ Visible(m) = pm
          BY <4>1
        <5>. HIDE DEF pe, pm
        <5>3. log = [number |-> log.number, exp |-> log.exp, mant |-> log.mant]
          BY DEF IInv
        <5>. QED
          BY <4>1, <4>3, <5>1, <5>2, <5>3, SameNoted
      <4>. QED
        BY <2>2, <4>1, <4>2, <4>4 DEF Decode, Promise!Decode
    <3>. QED
      BY <3>1, <3>2, TwoKinds DEF IInv, TypeOK
  <2>3. CASE UNCHANGED vars
    BY <2>3 DEF vars, Promise!vars
  <2>. QED
    BY <2>1, <2>2, <2>3 DEF Next, Promise!Next
<1>. QED
  BY <1>1, <1>2, Invariance, PTL DEF Spec, PromiseKept, Promise!Spec

-----------------------------------------------------------------------------
(* A delta of the number is a delta of each part.                          *)

\* Whether an exponent is cut to 32 bits before the sum or after it.
LEMMA CutBeforeOrAfter ==
  ASSUME NEW a \in Int, NEW b \in Int, NEW d \in Int, ToInt32(a) = ToInt32(b)
  PROVE  ToInt32(ToInt64(a + d)) = ToInt32(b + ToInt32(d))
<1>. DEFINE t  == ToInt64(a + d)
            u  == ToInt32(t)
            d3 == ToInt32(d)
            c  == ToInt32(b)
            lo == -Half32
            hi == Half32 - 1
<1>1. /\ lo \in Int /\ hi \in Int /\ Mod32 \in Nat \ {0} /\ Mod32 = hi - lo + 1
      /\ Mod32 \in Int /\ Int64 \subseteq Int /\ Int32 \subseteq Int
  BY WidthAssumption DEF Mod32, Int64, Int32
<1>2. a + d \in Int
  OBVIOUS
<1>3. t \in Int /\ Congruent(a + d, t, Mod64)
  BY <1>1, <1>2, ConversionCongruence DEF Int64
<1>4. u \in lo .. hi /\ Congruent(t, u, Mod32)
  BY <1>3, ConversionCongruence
<1>5. u \in Int
  BY <1>1, <1>4
<1>6. /\ d3 \in lo .. hi /\ Congruent(d, d3, Mod32)
      /\ c \in lo .. hi /\ Congruent(b, c, Mod32) /\ Congruent(a, c, Mod32)
  BY ConversionCongruence
<1>7. d3 \in Int /\ c \in Int
  BY <1>1, <1>6
<1>. HIDE DEF t, u, d3, c, lo, hi
<1>8. Congruent(a + d, u, Mod32)
  BY <1>2, <1>3, <1>4, <1>5, NarrowingCongruence
<1>9. Congruent(b + d3, u, Mod32)
  <2>1. PICK p \in Int : (a + d) - u = Mod32 * p
    BY <1>8 DEF Congruent
  <2>2. PICK q \in Int : d - d3 = Mod32 * q
    BY <1>6 DEF Congruent
  <2>3. PICK r \in Int : b - c = Mod32 * r
    BY <1>6 DEF Congruent
  <2>4. PICK z \in Int : a - c = Mod32 * z
    BY <1>6 DEF Congruent
  <2>. DEFINE k == p - q + r - z
  <2>5. k \in Int
    OBVIOUS
  <2>6. Mod32 * k = Mod32 * p - Mod32 * q + Mod32 * r - Mod32 * z
    BY <1>1
  <2>7. (b + d3) - u = Mod32 * p - Mod32 * q + Mod32 * r - Mod32 * z
    <3>1. /\ Mod32 * p \in Int /\ Mod32 * q \in Int
          /\ Mod32 * r \in Int /\ Mod32 * z \in Int
      BY <1>1
    <3>. QED
      BY <1>5, <1>7, <2>1, <2>2, <2>3, <2>4, <3>1
  <2>. QED
    BY <2>5, <2>6, <2>7 DEF Congruent
<1>10. b + d3 \in Int
  BY <1>7
<1>11. Wrapped(lo, hi, b + d3) = u
  BY <1>1, <1>4, <1>9, <1>10, Representative
<1>. DEFINE x == ToInt32(b + d3)
<1>12. x \in lo .. hi /\ Congruent(b + d3, x, Mod32)
  BY <1>10, ConversionCongruence DEF lo, hi
<1>. HIDE DEF x
<1>13. Wrapped(lo, hi, b + d3) = x
  BY <1>1, <1>10, <1>12, Representative
<1>. QED
  BY <1>11, <1>13 DEF t, u, d3, x

\* The parts that a delta of a number can be declared as instead.
LEMMA AsPartsAreParts ==
  ASSUME decl \in Numbers(Decimals), NEW f,
         f = [kind |-> "parts", exp |-> AsParts.exp, mant |-> AsParts.mant]
  PROVE  /\ f \in Parts(Int64)
         /\ f.exp = AsParts.exp /\ f.mant = AsParts.mant
         /\ AsParts.exp.op = "Delta" /\ AsParts.exp.optional = decl.optional
         /\ AsParts.exp.hasInitial = decl.hasInitial
         /\ AsParts.exp.initial = decl.initial.exp
         /\ AsParts.mant.op = "Delta" /\ AsParts.mant.optional = FALSE
         /\ AsParts.mant.hasInitial = decl.hasInitial
         /\ AsParts.mant.initial = decl.initial.mant
<1>1. /\ decl.optional \in BOOLEAN /\ decl.hasInitial \in BOOLEAN
      /\ decl.initial \in Decimals /\ (~decl.hasInitial => decl.initial = Zero)
  BY NumberFacts DEF Numbers
<1>2. Int32 \subseteq Int64 /\ 0 \in Int64
  <2>1. PICK k \in 1 .. Half64 : Half64 = k * Half32
    BY WidthAssumption
  <2>2. Half32 <= Half64
    BY <2>1, WidthAssumption
  <2>. QED
    BY <2>2, WidthAssumption DEF Int32, Int64
<1>3. /\ decl.initial.exp \in Int64 /\ decl.initial.mant \in Int64
      /\ ~decl.hasInitial => decl.initial.exp = 0 /\ decl.initial.mant = 0
  BY <1>1, <1>2 DEF Decimals, Zero, Decimal
<1>4. /\ AsParts.exp \in IntegerParts(32, BOOLEAN, Int64)
      /\ AsParts.mant \in IntegerParts(64, {FALSE}, Int64)
  BY <1>1, <1>2, <1>3 DEF AsParts, IntegerParts, Operators
<1>5. f \in Parts(Int64) /\ f.exp = AsParts.exp /\ f.mant = AsParts.mant
  BY <1>4 DEF Parts
<1>. QED
  BY <1>5 DEF AsParts

\* What a delta of a part returns.
LEMMA PartReturns ==
  ASSUME NEW w, NEW f, NEW s, f.op = "Delta", s.State # "Empty"
  PROVE  LET d == readDelta(w, f.optional)
             e == intDecodeCall(w, f, s)
         IN  /\ e.wire = d.wire
             /\ d.err # NoError => ~e.present /\ e.err = d.err
             /\ d.err = NoError /\ d.null => ~e.present /\ e.err = NoError
             /\ d.err = NoError /\ ~d.null =>
                  e.present /\ e.val = ToInt64(intDeltaBase(f, s) + d.val)
<1>. DEFINE d == readDelta(w, f.optional)
            v == ToInt64(intDeltaBase(f, s) + d.val)
<1>1. intDecodeCall(w, f, s) = IF d.err # NoError THEN Fail(d.wire, s, d.err)
                           ELSE IF d.null THEN Absent(d.wire, s)
                           ELSE Present(d.wire, Assign(v), v)
  BY DEF intDecodeCall, DecodeIntDelta
<1>. HIDE DEF d, v
<1>2. LET e == intDecodeCall(w, f, s)
      IN  /\ e.wire = d.wire
          /\ d.err # NoError => ~e.present /\ e.err = d.err
          /\ d.err = NoError /\ d.null => ~e.present /\ e.err = NoError
          /\ d.err = NoError /\ ~d.null => e.present /\ e.val = v
  BY <1>1 DEF Fail, Absent, Present
<1>. QED
  BY <1>2 DEF d, v

\* In every state, and whatever the wider exponent has come to.
LEMMA ComponentsAgree == IInv => DeltaIsComponentwise
<1>. SUFFICES ASSUME IInv, decl.kind = "number", decl.op = "Delta",
                     NEW w \in Promise!Inputs(decl), NEW wide \in Int64,
                     ToInt32(wide) = slot.Val.exp
              PROVE  Outcome(Blank(DecodeParts(w, AsParts, PartsOfSlot(wide))))
                       = Outcome(Blank(DecodeNumber(w, decl, slot)))
  BY DEF DeltaIsComponentwise
<1>. DEFINE fe == AsParts.exp
            fm == AsParts.mant
            se == PartsOfSlot(wide).exp
            sm == PartsOfSlot(wide).mant
            f  == [kind |-> "parts", exp |-> fe, mant |-> fm]
            d  == readDelta(w, decl.optional)
            r  == ReadInt(d.wire)
            e  == intDecodeCall(w, fe, se)
            m  == intDecodeCall(e.wire, fm, sm)
            b  == decimalDeltaBase(decl, slot)
            out == Outcome(Blank(DecodeParts(w, AsParts, PartsOfSlot(wide))))
<1>1. /\ NumberAgree(decl, slot, log.number) /\ decl \in Numbers(Decimals)
      /\ slot.State \in States /\ slot.State # "Empty" /\ slot.Val \in Decimals
      /\ slot.State = "Undefined" => slot.Val = Zero
  BY DEF IInv, NumberAgree, NumberSlots, NumberRemembers, UndefinedNumber, Assign
<1>2. /\ se = [State |-> slot.State, Val |-> wide]
      /\ sm = [State |-> slot.State, Val |-> slot.Val.mant]
      /\ PartsOfSlot(wide) = [exp |-> se, mant |-> sm]
  BY DEF PartsOfSlot
<1>3. /\ f \in Parts(Int64) /\ f.exp = fe /\ f.mant = fm
      /\ fe.op = "Delta" /\ fe.optional = decl.optional
      /\ fe.hasInitial = decl.hasInitial /\ fe.initial = decl.initial.exp
      /\ fm.op = "Delta" /\ fm.optional = FALSE
      /\ fm.hasInitial = decl.hasInitial /\ fm.initial = decl.initial.mant
  BY <1>1, AsPartsAreParts
<1>4. se \in Slots(fe) /\ sm \in Slots(fm)
  <2>1. Values(fe) = Int64 /\ Values(fm) = Int64
    BY <1>3, PartsAreFields DEF Values
  <2>. QED
    BY <1>1, <1>2, <2>1 DEF Slots, Decimals
<1>5. out = Outcome(DecodeAny(w, f, PartsOfSlot(wide)))
  BY DEF DecodeAny, DecodeParts
<1>6. /\ e.present /\ m.present => out = Promise!Value(Decimal(m.val, ToInt32(e.val)))
      /\ e.present /\ ~m.present => out = Promise!Failure(m.err)
      /\ ~e.present => out = Promise!Failure(e.err)
  <2>. DEFINE q == PartsOfSlot(wide)
  <2>1. q.exp = se /\ q.mant = sm /\ q = [exp |-> q.exp, mant |-> q.mant]
    BY <1>2
  <2>. HIDE DEF q, f, fe, fm, se, sm, out
  <2>2. LET e1 == intDecodeCall(w, f.exp, q.exp)
            m1 == intDecodeCall(e1.wire, f.mant, q.mant)
        IN  /\ e1.present /\ m1.present =>
                 Outcome(DecodeAny(w, f, q)) = Promise!Value(Decimal(m1.val, ToInt32(e1.val)))
            /\ e1.present /\ ~m1.present =>
                 Outcome(DecodeAny(w, f, q)) = Promise!Failure(m1.err)
            /\ ~e1.present => Outcome(DecodeAny(w, f, q)) = Promise!Failure(e1.err)
    <3>1. /\ f \in Parts(Int64) /\ q = [exp |-> q.exp, mant |-> q.mant]
          /\ q.exp \in Slots(f.exp) /\ q.mant \in Slots(f.mant)
      BY <1>3, <1>4, <2>1
    <3>. QED
      BY <3>1, PartsResult
  <2>3. out = Outcome(DecodeAny(w, f, q))
    BY <1>5 DEF q, f
  <2>. QED
    BY <1>3, <2>1, <2>2, <2>3
<1>7. /\ e.wire = d.wire
      /\ d.err # NoError => ~e.present /\ e.err = d.err
      /\ d.err = NoError /\ d.null => ~e.present /\ e.err = NoError
      /\ d.err = NoError /\ ~d.null =>
           e.present /\ e.val = ToInt64(intDeltaBase(fe, se) + d.val)
  BY <1>1, <1>2, <1>3, PartReturns
<1>8. /\ r.err # NoError => ~m.present /\ m.err = r.err
      /\ r.err = NoError =>
           m.present /\ m.val = ToInt64(intDeltaBase(fm, sm) + r.val)
  <2>1. readDelta(e.wire, FALSE) = r
    BY <1>7 DEF readDelta
  <2>2. r.null = FALSE
    BY DEF ReadInt, ReadEntity
  <2>. HIDE DEF e, r, fm, sm
  <2>3. fm.op = "Delta" /\ sm.State # "Empty" /\ readDelta(e.wire, fm.optional) = r
    <3>1. fm.op = "Delta" /\ fm.optional = FALSE
      BY <1>3
    <3>2. sm.State = slot.State
      BY <1>2
    <3>3. readDelta(e.wire, fm.optional) = r
      BY <2>1, <3>1
    <3>. QED
      BY <1>1, <3>1, <3>2, <3>3
  <2>4. LET x == readDelta(e.wire, fm.optional)
        IN  /\ x.err # NoError => ~m.present /\ m.err = x.err
            /\ x.err = NoError /\ ~x.null =>
                 m.present /\ m.val = ToInt64(intDeltaBase(fm, sm) + x.val)
    BY <2>3, PartReturns
  <2>. QED
    BY <2>2, <2>3, <2>4
<1>9. Outcome(Blank(DecodeNumber(w, decl, slot))) =
        IF d.err # NoError THEN Promise!Failure(d.err)
        ELSE IF d.null THEN Promise!NoValue
        ELSE IF r.err # NoError THEN Promise!Failure(r.err)
        ELSE Promise!Value(Added(b, r.val, d.val))
  BY <1>1, DeltaReturns DEF DecodeNumber
<1>10. /\ ReadContract(d, Int64) /\ ReadContract(r, Int64)
  BY ScaledRead
<1>11. /\ intDeltaBase(fm, sm) = b.mant
       /\ intDeltaBase(fe, se) \in Int /\ b.exp \in Int
       /\ ToInt32(intDeltaBase(fe, se)) = ToInt32(b.exp)
  <2>1. /\ Int64 \subseteq Int /\ Int32 \subseteq Int
        /\ \A n \in Int32 : ToInt32(n) = n
    <3>1. ASSUME NEW n \in Int32 PROVE ToInt32(n) = n
      <4>. DEFINE lo == -Half32
                  hi == Half32 - 1
                  x == ToInt32(n)
      <4>1. /\ n \in lo .. hi /\ n \in Int /\ lo \in Int /\ hi \in Int
            /\ Mod32 \in Nat \ {0} /\ Mod32 = hi - lo + 1
        BY WidthAssumption DEF Int32, Mod32
      <4>2. x \in lo .. hi /\ Congruent(n, x, Mod32)
        BY <4>1, ConversionCongruence
      <4>3. Congruent(n, n, Mod32)
        BY <4>1 DEF Congruent
      <4>. HIDE DEF x, lo, hi
      <4>4. Wrapped(lo, hi, n) = x /\ Wrapped(lo, hi, n) = n
        BY <4>1, <4>2, <4>3, Representative
      <4>. QED
        BY <4>4 DEF x
    <3>. QED
      BY <3>1, WidthAssumption DEF Int64, Int32
  <2>2. /\ decl.initial \in Decimals /\ Zero \in Decimals
        /\ decl.initial.exp \in Int32 /\ slot.Val.exp \in Int32
        /\ Zero.exp = 0 /\ Zero.mant = 0 /\ 0 \in Int32
    BY <1>1, NumberFacts DEF Decimals, Zero, Decimal
  <2>3. b = IF slot.State = "Assigned" THEN slot.Val
            ELSE IF decl.hasInitial THEN decl.initial ELSE Zero
    BY DEF decimalDeltaBase
  <2>4. /\ intDeltaBase(fe, se) = IF slot.State = "Assigned" THEN wide
                                  ELSE IF decl.hasInitial THEN decl.initial.exp ELSE 0
        /\ intDeltaBase(fm, sm) = IF slot.State = "Assigned" THEN slot.Val.mant
                                  ELSE IF decl.hasInitial THEN decl.initial.mant ELSE 0
    BY <1>2, <1>3 DEF intDeltaBase
  <2>. HIDE DEF b, fe, se, fm, sm
  <2>. QED
    BY <2>1, <2>2, <2>3, <2>4
<1>12. d.err = NoError /\ ~d.null =>
         Decimal(ToInt64(intDeltaBase(fm, sm) + r.val),
                 ToInt32(ToInt64(intDeltaBase(fe, se) + d.val)))
           = Added(b, r.val, d.val)
  <2>1. d.val \in Int
    BY <1>10, WidthAssumption DEF ReadContract, Int64
  <2>. DEFINE x == intDeltaBase(fe, se)
              y == d.val
              z == b.exp
  <2>. HIDE DEF x, y, z
  <2>2. x \in Int /\ y \in Int /\ z \in Int /\ ToInt32(x) = ToInt32(z)
    BY <1>11, <2>1 DEF x, y, z
  <2>3. ToInt32(ToInt64(x + y)) = ToInt32(z + ToInt32(y))
    BY <2>2, CutBeforeOrAfter
  <2>. QED
    BY <1>11, <2>3 DEF Added, x, y, z
<1>13. d.null \in BOOLEAN /\ Promise!NoValue = Promise!Failure(NoError)
  BY <1>10 DEF ReadContract, Promise!NoValue, Promise!Failure, Promise!NoError, NoError
<1>. HIDE DEF out, d, e, r, m, b, fe, fm, se, sm
<1>14. CASE d.err # NoError
  BY <1>6, <1>7, <1>9, <1>14 DEF out
<1>15. CASE d.err = NoError /\ d.null
  BY <1>6, <1>7, <1>9, <1>13, <1>15 DEF out
<1>16. CASE d.err = NoError /\ ~d.null /\ r.err # NoError
  BY <1>6, <1>7, <1>8, <1>9, <1>16 DEF out
<1>17. CASE d.err = NoError /\ ~d.null /\ r.err = NoError
  BY <1>6, <1>7, <1>8, <1>9, <1>12, <1>17 DEF out
<1>. QED
  BY <1>13, <1>14, <1>15, <1>16, <1>17

\* A delta declared for the whole number decodes every wire as deltas of the
\* two parts do.
THEOREM DeltasAgree == Spec => []DeltaIsComponentwise
BY ComponentsAgree, Invariance, PTL
=============================================================================
