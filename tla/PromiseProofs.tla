---------------------------- MODULE PromiseProofs ----------------------------
(***************************************************************************)
(* The contract of DecodeInteger, for every pair of widths and every       *)
(* declaration: what the callers of the operator functions rely on.        *)
(*                                                                         *)
(* With it, the operators of fastcore keep the promises of Promises, for   *)
(* every history and every wire.  A field, a slot and a history in         *)
(* agreement are one state of any program that calls the operators,        *)
(* whatever the program does between the calls; so these lemmas serve the  *)
(* fields, the parts of decimals, the Router and the feed alike.           *)
(***************************************************************************)
EXTENDS Promises, TLAPS

-----------------------------------------------------------------------------
(* The contract.                                                           *)

\* Every declaration an integer field can have, the parts of a decimal included.
AllFields ==
  {f \in [type : {"uint", "int"}, op : Operators, width : {32, 64},
          optional : BOOLEAN, hasInitial : BOOLEAN, initial : Int] :
     f.initial \in Values(f)}

\* The fields of integer type are among them.
LEMMA DeclaredFields ==
  ASSUME NEW initials, initials \subseteq Int
  PROVE  Fields(initials) \subseteq AllFields
BY DEF AllFields, Fields

\* Only an optional copy or increment field can have an Empty slot.
EmptyIsLegal(f, s) ==
  s.State = "Empty" => f.optional /\ f.op \in {"Copy", "Increment"}

\* What a successful call leaves in the slot.
Kept(f, s, res) ==
  /\ f.op \in {"None", "Constant", "Default", "Tail"} => res.slot = s
  /\ f.op \in {"Copy", "Increment"} =>
       IF res.present THEN res.slot = Assign(res.val) ELSE res.slot.State = "Empty"
  /\ f.op = "Delta" =>
       res.slot = IF res.present THEN Assign(res.val) ELSE s

\* What a call with field f and slot s returns, res, may be.
Contract(f, s, res) ==
  /\ res.slot \in Slots(f)
  /\ res.present \in BOOLEAN
  /\ res.val \in Values(f)
  /\ res.err \in Errors \cup {NoError}
  /\ res.err # NoError => res.slot = s
  /\ res.err = NoError => res.present \/ f.optional
  /\ res.present => res.err = NoError
  /\ EmptyIsLegal(f, s) => EmptyIsLegal(f, res.slot) /\ res.err # ErrD6
  /\ res.err = NoError => Kept(f, s, res)

-----------------------------------------------------------------------------
(* Arithmetic: the conversions land in their types.                        *)

\* The remainder of a division lies below the divisor.
LEMMA ModRange ==
  ASSUME NEW m \in Nat \ {0}, NEW n \in Int
  PROVE  n % m \in 0 .. (m - 1)
  OBVIOUS

\* Each conversion yields a value of the type it converts to.
LEMMA ConversionTypes ==
  ASSUME NEW n \in Int
  PROVE  /\ ToUint64(n) \in Uint64
         /\ ToInt64(n) \in Int64
         /\ ToUint32(n) \in Uint64
         /\ ToInt32(n) \in Int64
<1>1. /\ 2 * Half64 \in Nat \ {0} /\ 2 * Half32 \in Nat \ {0}
      /\ Half64 \in Nat /\ Half32 \in Nat /\ Half32 <= Half64
  <2>1. PICK k \in 1 .. Half64 : Half64 = k * Half32
    BY WidthAssumption
  <2>. QED
    BY <2>1, WidthAssumption
<1>2. ASSUME NEW m \in Nat \ {0}, NEW k \in Int
      PROVE  k % m \in Int /\ 0 <= k % m /\ k % m <= m - 1
  BY ModRange
<1>3. /\ ToUint64(n) \in Uint64
      /\ ToInt64(n) \in Int64
  <2>. DEFINE m == 2 * Half64
  <2>1. m \in Nat \ {0} /\ n + Half64 \in Int
    BY <1>1
  <2>2. /\ n % m \in Int /\ 0 <= n % m /\ n % m <= m - 1
        /\ (n + Half64) % m \in Int
        /\ 0 <= (n + Half64) % m /\ (n + Half64) % m <= m - 1
    <3>. HIDE DEF m
    <3>. QED  BY <2>1, <1>2
  <2>. QED
    BY <1>1, <2>2 DEF ToUint64, ToInt64, Uint64, Int64
<1>4. /\ ToUint32(n) \in Uint64
      /\ ToInt32(n) \in Int64
  <2>. DEFINE m == 2 * Half32
  <2>1. m \in Nat \ {0} /\ n + Half32 \in Int
    BY <1>1
  <2>2. /\ n % m \in Int /\ 0 <= n % m /\ n % m <= m - 1
        /\ (n + Half32) % m \in Int
        /\ 0 <= (n + Half32) % m /\ (n + Half32) % m <= m - 1
    <3>. HIDE DEF m
    <3>. QED  BY <2>1, <1>2
  <2>. QED
    BY <1>1, <2>2 DEF ToUint32, ToInt32, Uint64, Int64
<1>. QED
  BY <1>3, <1>4

\* Incrementing a value wraps inside the 64-bit type.
LEMMA IncrementTypes ==
  ASSUME NEW v \in Int, NEW width
  PROVE  /\ wrapUint(ToUint64(v + 1), width) \in Uint64
         /\ wrapInt(ToInt64(v + 1), width) \in Int64
<1>1. Uint64 \subseteq Int /\ Int64 \subseteq Int
  BY WidthAssumption DEF Uint64, Int64
<1>2. ToUint64(v + 1) \in Uint64 /\ ToInt64(v + 1) \in Int64
  BY ConversionTypes
<1>3. QED
  BY <1>1, <1>2, ConversionTypes DEF wrapUint, wrapInt

\* Zero is a value of every type, and every value is an integer.
LEMMA ValuesFacts ==
  ASSUME NEW f
  PROVE  Values(f) \subseteq Int /\ 0 \in Values(f)
BY WidthAssumption DEF Values, Uint64, Int64

-----------------------------------------------------------------------------
(* Reading: what a read may return for a field of either type.             *)

ReadContract(rd, vals) ==
  /\ rd.null \in BOOLEAN
  /\ rd.val \in vals
  /\ rd.err \in {NoError, EndOfStream, Overflow}

\* An unsigned read returns an unsigned 64-bit value, or NULL if nullable.
LEMMA ReadUintForType ==
  ASSUME NEW w, NEW f
  PROVE  /\ ReadContract(ReadUintFor(w, f), Uint64)
         /\ ReadUintFor(w, f).err = NoError /\ ReadUintFor(w, f).null => f.optional
<1>. Uint64 \subseteq Nat /\ 0 \in Uint64
  BY WidthAssumption DEF Uint64
<1>1. /\ ReadContract(ReadUint(w), Uint64)
      /\ ~ReadUint(w).null
  BY DEF ReadContract, ReadUint, ReadEntity, NoError, EndOfStream, Overflow
<1>2. \A v \in Uint64 : v > 0 => v - 1 \in Uint64
  BY WidthAssumption DEF Uint64
<1>3. ReadContract(ReadNullableUint(w), Uint64)
  BY <1>1, <1>2 DEF ReadContract, ReadNullableUint, UndoNullableShift, ReadUint, ReadEntity
<1>. QED
  BY <1>1, <1>3 DEF ReadUintFor

\* A signed read returns a signed 64-bit value, or NULL if nullable.
LEMMA ReadIntForType ==
  ASSUME NEW w, NEW f
  PROVE  /\ ReadContract(ReadIntFor(w, f), Int64)
         /\ ReadIntFor(w, f).err = NoError /\ ReadIntFor(w, f).null => f.optional
         /\ ReadContract(readDelta(w, f.optional), Int64)
         /\ readDelta(w, f.optional).null => f.optional
<1>. Int64 \subseteq Int /\ 0 \in Int64
  BY WidthAssumption DEF Int64
<1>1. /\ ReadContract(ReadInt(w), Int64)
      /\ ~ReadInt(w).null
  BY DEF ReadContract, ReadInt, ReadEntity, NoError, EndOfStream, Overflow
<1>2. \A v \in Int64 : v > 0 => v - 1 \in Int64
  BY WidthAssumption DEF Int64
<1>3. ReadContract(ReadNullableInt(w), Int64)
  BY <1>1, <1>2 DEF ReadContract, ReadNullableInt, UndoNullableShift, ReadInt, ReadEntity
<1>. QED
  BY <1>1, <1>3 DEF ReadIntFor, readDelta

-----------------------------------------------------------------------------
(* The contract, first of the pieces the operators share.                  *)

\* Delivering what was read, with or without keeping it.
LEMMA DeliverContract ==
  ASSUME NEW f \in AllFields, NEW s \in Slots(f), NEW rd,
         ReadContract(rd, Values(f)),
         rd.err = NoError /\ rd.null => f.optional
  PROVE  /\ f.op \in {"None", "Default", "Tail"} => Contract(f, s, DeliverRead(rd, s))
         /\ f.op \in {"Copy", "Increment"} => Contract(f, s, DeliverAndKeep(rd, s))
<1>1. CASE rd.err # NoError
  BY <1>1, ValuesFacts
     DEF Contract, EmptyIsLegal, Kept, DeliverRead, DeliverAndKeep, Fail,
         ReadContract, Slots, Errors, NoError, EndOfStream, Overflow, ErrD5, ErrD6
<1>2. CASE rd.err = NoError /\ rd.null
  BY <1>2, ValuesFacts
     DEF Contract, EmptyIsLegal, Kept, DeliverRead, DeliverAndKeep, Absent,
         ReadContract, Slots, States, SetEmpty, Errors, NoError, EndOfStream,
         Overflow, ErrD5, ErrD6
<1>3. CASE rd.err = NoError /\ ~rd.null
  BY <1>3, ValuesFacts
     DEF Contract, EmptyIsLegal, Kept, DeliverRead, DeliverAndKeep, Present,
         ReadContract, Slots, States, Assign, Errors, NoError, EndOfStream,
         Overflow, ErrD5, ErrD6
<1>. QED
  BY <1>1, <1>2, <1>3

\* Answering from the previous value.
LEMMA ResolveContract ==
  ASSUME NEW f \in AllFields, NEW s \in Slots(f), NEW w,
         f.op \in {"Copy", "Increment"}
  PROVE  /\ Contract(f, s, resolveUintPrevious(w, f, s))
         /\ Contract(f, s, resolveIntPrevious(w, f, s))
         /\ s.State = "Undefined" => Contract(f, s, ResolveUndefined(w, f, s))
         /\ s.State = "Empty" => Contract(f, s, ResolveEmpty(w, f, s))
<1>1. f.initial \in Values(f) /\ f.optional \in BOOLEAN /\ f.hasInitial \in BOOLEAN
  BY DEF AllFields
<1>. QED
  BY ZenonT(40), <1>1, ValuesFacts
     DEF Contract, EmptyIsLegal, Kept, resolveUintPrevious, resolveIntPrevious,
         ResolveUndefined, ResolveEmpty, Present, Absent, Fail, Slots, States,
         SetEmpty, Assign, Errors, NoError, EndOfStream, Overflow, ErrD5, ErrD6

\* The contract of every unsigned operator.
LEMMA DecodeUintContract ==
  ASSUME NEW f \in AllFields, NEW s \in Slots(f), NEW w, f.type = "uint"
  PROVE  Contract(f, s, uintDecodeCall(w, f, s))
<1>1. /\ f.op \in Operators /\ f.optional \in BOOLEAN /\ f.hasInitial \in BOOLEAN
      /\ f.initial \in Values(f) /\ f.initial \in Int
      /\ Values(f) = Uint64
  BY ValuesFacts DEF AllFields, Values
<1>2. s.State \in States /\ s.Val \in Values(f) /\ s.Val \in Int
  BY ValuesFacts DEF Slots
<1>. DEFINE rd(x) == ReadUintFor(x, f)
<1>3. ASSUME NEW x
      PROVE  /\ f.op \in {"None", "Default", "Tail"} => Contract(f, s, DeliverRead(rd(x), s))
             /\ f.op \in {"Copy", "Increment"} => Contract(f, s, readUintPrevious(x, f, s))
  BY <1>1, ReadUintForType, DeliverContract DEF readUintPrevious
<1>4. ASSUME NEW x, f.op \in {"Constant", "Default"}
      PROVE  /\ Contract(f, s, Present(x, s, f.initial))
             /\ f.optional => Contract(f, s, Absent(x, s))
             /\ Contract(f, s, Fail(x, s, ErrD5))
  BY <1>1, <1>2, <1>4, ValuesFacts
     DEF Contract, EmptyIsLegal, Kept, Present, Absent, Fail, Errors, NoError,
         EndOfStream, Overflow, ErrD5, ErrD6
<1>5. CASE f.op \in {"None", "Tail"}
  BY <1>3, <1>5 DEF uintDecodeCall, DecodeUintNone
<1>6. CASE f.op = "Constant"
  BY <1>1, <1>4, <1>6 DEF uintDecodeCall, DecodeUintConstant
<1>7. CASE f.op = "Default"
  BY <1>1, <1>3, <1>4, <1>7 DEF uintDecodeCall, DecodeUintDefault
<1>8. CASE f.op = "Copy"
  BY <1>3, <1>8, ResolveContract DEF uintDecodeCall, DecodeUintCopy
<1>9. CASE f.op = "Increment"
  <2>. DEFINE next == wrapUint(ToUint64(s.Val + 1), f.width)
  <2>1. next \in Values(f)
    BY <1>1, <1>2, IncrementTypes
  <2>2. Contract(f, s, Present(AfterBit(w), Assign(next), next))
    BY <1>1, <1>9, <2>1
       DEF Contract, EmptyIsLegal, Kept, Present, Assign, Slots, States, Errors,
           NoError, EndOfStream, Overflow, ErrD5, ErrD6
  <2>3. uintDecodeCall(w, f, s) = DecodeUintIncrement(w, f, s)
    BY <1>9 DEF uintDecodeCall
  <2>. HIDE DEF next
  <2>. QED
    BY <1>2, <1>3, <1>9, <2>2, <2>3, ResolveContract
       DEF DecodeUintIncrement, States, next
<1>10. CASE f.op = "Delta"
  <2>. DEFINE d == readDelta(w, f.optional)
              v == ToUint64(uintDeltaBase(f, s) + d.val)
  <2>1. ReadContract(d, Int64) /\ (d.null => f.optional)
    BY <1>1, ReadIntForType
  <2>2. uintDeltaBase(f, s) \in Int /\ d.val \in Int
    BY <1>1, <1>2, <2>1, WidthAssumption DEF uintDeltaBase, ReadContract, Int64
  <2>3. v \in Values(f)
    BY <1>1, <2>2, ConversionTypes
  <2>4. uintDecodeCall(w, f, s) = DecodeUintDelta(w, f, s)
    BY <1>10 DEF uintDecodeCall
  <2>. HIDE DEF d, v
  <2>5. DecodeUintDelta(w, f, s) =
          IF d.err # NoError THEN Fail(d.wire, s, d.err)
          ELSE IF d.null THEN Absent(d.wire, s)
          ELSE IF s.State = "Empty" THEN Fail(d.wire, s, ErrD6)
          ELSE Present(d.wire, Assign(v), v)
    BY DEF DecodeUintDelta, d, v
  <2>. QED
    BY <1>1, <1>2, <1>10, <2>1, <2>3, <2>4, <2>5, ValuesFacts
       DEF Contract, EmptyIsLegal, Kept, ReadContract, Present, Fail, Absent, Assign,
           Slots, States, Errors, NoError, EndOfStream, Overflow, ErrD5, ErrD6
<1>. QED
  BY <1>1, <1>5, <1>6, <1>7, <1>8, <1>9, <1>10 DEF Operators

\* The contract of every signed operator.
LEMMA DecodeIntContract ==
  ASSUME NEW f \in AllFields, NEW s \in Slots(f), NEW w, f.type = "int"
  PROVE  Contract(f, s, intDecodeCall(w, f, s))
<1>1. /\ f.op \in Operators /\ f.optional \in BOOLEAN /\ f.hasInitial \in BOOLEAN
      /\ f.initial \in Values(f) /\ f.initial \in Int
      /\ Values(f) = Int64
  BY ValuesFacts DEF AllFields, Values
<1>2. s.State \in States /\ s.Val \in Values(f) /\ s.Val \in Int
  BY ValuesFacts DEF Slots
<1>. DEFINE rd(x) == ReadIntFor(x, f)
<1>3. ASSUME NEW x
      PROVE  /\ f.op \in {"None", "Default", "Tail"} => Contract(f, s, DeliverRead(rd(x), s))
             /\ f.op \in {"Copy", "Increment"} => Contract(f, s, readIntPrevious(x, f, s))
  BY <1>1, ReadIntForType, DeliverContract DEF readIntPrevious
<1>4. ASSUME NEW x, f.op \in {"Constant", "Default"}
      PROVE  /\ Contract(f, s, Present(x, s, f.initial))
             /\ f.optional => Contract(f, s, Absent(x, s))
             /\ Contract(f, s, Fail(x, s, ErrD5))
  BY <1>1, <1>2, <1>4, ValuesFacts
     DEF Contract, EmptyIsLegal, Kept, Present, Absent, Fail, Errors, NoError,
         EndOfStream, Overflow, ErrD5, ErrD6
<1>5. CASE f.op \in {"None", "Tail"}
  BY <1>3, <1>5 DEF intDecodeCall, DecodeIntNone
<1>6. CASE f.op = "Constant"
  BY <1>1, <1>4, <1>6 DEF intDecodeCall, DecodeIntConstant
<1>7. CASE f.op = "Default"
  BY <1>1, <1>3, <1>4, <1>7 DEF intDecodeCall, DecodeIntDefault
<1>8. CASE f.op = "Copy"
  BY <1>3, <1>8, ResolveContract DEF intDecodeCall, DecodeIntCopy
<1>9. CASE f.op = "Increment"
  <2>. DEFINE next == wrapInt(ToInt64(s.Val + 1), f.width)
  <2>1. next \in Values(f)
    BY <1>1, <1>2, IncrementTypes
  <2>2. Contract(f, s, Present(AfterBit(w), Assign(next), next))
    BY <1>1, <1>9, <2>1
       DEF Contract, EmptyIsLegal, Kept, Present, Assign, Slots, States, Errors,
           NoError, EndOfStream, Overflow, ErrD5, ErrD6
  <2>3. intDecodeCall(w, f, s) = DecodeIntIncrement(w, f, s)
    BY <1>9 DEF intDecodeCall
  <2>. HIDE DEF next
  <2>. QED
    BY <1>2, <1>3, <1>9, <2>2, <2>3, ResolveContract DEF DecodeIntIncrement, next
<1>10. CASE f.op = "Delta"
  <2>. DEFINE d == readDelta(w, f.optional)
              v == ToInt64(intDeltaBase(f, s) + d.val)
  <2>1. ReadContract(d, Int64) /\ (d.null => f.optional)
    BY <1>1, ReadIntForType
  <2>2. intDeltaBase(f, s) \in Int /\ d.val \in Int
    BY <1>1, <1>2, <2>1, WidthAssumption DEF intDeltaBase, ReadContract, Int64
  <2>3. v \in Values(f)
    BY <1>1, <2>2, ConversionTypes
  <2>4. intDecodeCall(w, f, s) = DecodeIntDelta(w, f, s)
    BY <1>10 DEF intDecodeCall
  <2>. HIDE DEF d, v
  <2>5. DecodeIntDelta(w, f, s) =
          IF d.err # NoError THEN Fail(d.wire, s, d.err)
          ELSE IF d.null THEN Absent(d.wire, s)
          ELSE IF s.State = "Empty" THEN Fail(d.wire, s, ErrD6)
          ELSE Present(d.wire, Assign(v), v)
    BY DEF DecodeIntDelta, d, v
  <2>. QED
    BY <1>1, <1>2, <1>10, <2>1, <2>3, <2>4, <2>5, ValuesFacts
       DEF Contract, EmptyIsLegal, Kept, ReadContract, Present, Fail, Absent, Assign,
           Slots, States, Errors, NoError, EndOfStream, Overflow, ErrD5, ErrD6
<1>. QED
  BY <1>1, <1>5, <1>6, <1>7, <1>8, <1>9, <1>10 DEF Operators

\* The contract of a decode of any integer field.
LEMMA DecodeIntegerContract ==
  ASSUME NEW f \in AllFields, NEW s \in Slots(f), NEW w
  PROVE  Contract(f, s, DecodeInteger(w, f, s))
BY DecodeUintContract, DecodeIntContract DEF DecodeInteger, AllFields

-----------------------------------------------------------------------------
(* What one more outcome makes of a history, whatever the outcomes are.    *)

\* If the field delivered a value since the reset, one was the latest.
HasLatest(l) ==
  PresentAt(l) # {} => \E i \in PresentAt(l) : \A j \in PresentAt(l) : j <= i

\* Delivering one more outcome: what is last, and where the values are.
LEMMA AppendFacts ==
  ASSUME NEW S, NEW s \in Seq(S), NEW e \in S
  PROVE  /\ Append(s, e) # <<>>
         /\ LastOutcome(Append(s, e)) = e
         /\ Append(s, e)[Len(s) + 1] = e
         /\ \A i \in 1 .. Len(s) : Append(s, e)[i] = s[i]
         /\ PresentAt(s) \subseteq 1 .. Len(s)
         /\ PresentAt(Append(s, e)) =
              IF e.present THEN PresentAt(s) \cup {Len(s) + 1} ELSE PresentAt(s)
<1>1. /\ Append(s, e) # <<>>
      /\ Len(Append(s, e)) = Len(s) + 1
      /\ Len(s) \in Nat
      /\ Append(s, e)[Len(s) + 1] = e
      /\ \A i \in 1 .. Len(s) : Append(s, e)[i] = s[i]
  OBVIOUS
<1>2. 1 .. (Len(s) + 1) = (1 .. Len(s)) \cup {Len(s) + 1}
  BY <1>1
<1>. QED
  BY <1>1, <1>2 DEF LastOutcome, PresentAt

\* The latest value is that of one more outcome, or else what it was before.
LEMMA LatestAfter ==
  ASSUME NEW S, NEW l \in Seq(S), HasLatest(l), NEW e \in S
  PROVE  /\ HasLatest(Append(l, e))
         /\ e.present => /\ PresentAt(Append(l, e)) # {}
                         /\ Latest(Append(l, e)) = e.val
         /\ ~e.present =>
              /\ PresentAt(Append(l, e)) = PresentAt(l)
              /\ PresentAt(l) # {} => Latest(Append(l, e)) = Latest(l)
<1>. DEFINE P == PresentAt(l)
            Q == PresentAt(Append(l, e))
            n == Len(l) + 1
<1>1. /\ n \in Nat
      /\ P \subseteq 1 .. Len(l)
      /\ Q = IF e.present THEN P \cup {n} ELSE P
      /\ Append(l, e)[n] = e
      /\ \A i \in 1 .. Len(l) : Append(l, e)[i] = l[i]
  BY AppendFacts
<1>2. /\ Latest(Append(l, e)) = Append(l, e)[CHOOSE i \in Q : \A j \in Q : j <= i].val
      /\ Latest(l) = l[CHOOSE i \in P : \A j \in P : j <= i].val
  BY DEF Latest
<1>3. CASE e.present
  <2>1. n \in Q /\ \A j \in Q : j <= n
    BY <1>1, <1>3
  <2>2. (CHOOSE i \in Q : \A j \in Q : j <= i) = n
    BY <2>1, <1>1, <1>3
  <2>. QED
    BY <1>1, <1>2, <1>3, <2>1, <2>2 DEF HasLatest
<1>4. CASE ~e.present
  <2>1. Q = P
    BY <1>1, <1>4
  <2>2. ASSUME P # {}
        PROVE  (CHOOSE i \in P : \A j \in P : j <= i) \in 1 .. Len(l)
    BY <2>2, <1>1 DEF HasLatest
  <2>. QED
    BY <1>1, <1>2, <1>4, <2>1, <2>2 DEF HasLatest
<1>. QED
  BY <1>3, <1>4

-----------------------------------------------------------------------------
(* A field, its slot and its history.                                      *)

\* A wire is a record of bits and entities, whatever those are.
IsWire(w) == w = [pm |-> w.pm, buf |-> w.buf]

\* The slot s of field f is what it should be after the history l.
Agree(f, s, l) ==
  /\ f \in AllFields
  /\ s \in Slots(f)
  /\ l \in Seq(Outcomes(f))
  /\ HasLatest(l)
  /\ EmptyIsLegal(f, s)
  /\ Remembers(f, s, l)

\* What the caller sees of a call.
Visible(res) == Returned(res.present, res.val, res.err)

\* The history after one more outcome.
Noted(l, out) == IF out.err = NoError THEN Append(l, out) ELSE l

-----------------------------------------------------------------------------
(* Agreement is kept.                                                      *)

\* An outcome that is visible is one of the field's.
LEMMA OutcomeIsVisible ==
  ASSUME NEW f, NEW s, NEW res, Contract(f, s, res)
  PROVE  /\ Visible(res) \in Outcomes(f)
         /\ Visible(res).present = res.present
         /\ Visible(res).val = res.val
         /\ Visible(res).err = res.err
BY DEF Contract, Outcomes, Visible, Returned

\* After a reset everything agrees.
LEMMA AgreeAtFirst ==
  ASSUME NEW f \in AllFields
  PROVE  Agree(f, UndefinedSlot, <<>>)
<1>1. PresentAt(<<>>) = {} /\ <<>> \in Seq(Outcomes(f))
  BY DEF PresentAt
<1>2. f.op \in Operators /\ 0 \in Values(f)
  BY ValuesFacts DEF AllFields
<1>. QED
  BY <1>1, <1>2
     DEF Agree, HasLatest, EmptyIsLegal, Remembers, Operators, Slots, States,
         UndefinedSlot

\* And after every call.
LEMMA AgreeAfterCall ==
  ASSUME NEW f, NEW s, NEW l, Agree(f, s, l), NEW res, Contract(f, s, res)
  PROVE  Agree(f, res.slot, Noted(l, Visible(res)))
<1>. DEFINE e == Visible(res)
<1>1. /\ e \in Outcomes(f) /\ e.err = res.err
      /\ e.present = res.present /\ e.val = res.val
  BY OutcomeIsVisible
<1>2. /\ f \in AllFields /\ f.op \in Operators
      /\ l \in Seq(Outcomes(f)) /\ HasLatest(l)
      /\ Remembers(f, s, l)
  BY DEF Agree, AllFields
<1>3. res.slot \in Slots(f) /\ EmptyIsLegal(f, res.slot)
  BY DEF Agree, Contract
<1>. HIDE DEF e
<1>4. CASE res.err # NoError
  <2>1. res.slot = s /\ Noted(l, e) = l
    BY <1>1, <1>4 DEF Contract, Noted
  <2>. QED
    BY <2>1 DEF e
<1>5. CASE res.err = NoError
  <2>1. Noted(l, e) = Append(l, e) /\ Kept(f, s, res)
    BY <1>1, <1>5 DEF Contract, Noted
  <2>2. Append(l, e) \in Seq(Outcomes(f)) /\ Append(l, e) # <<>> /\ LastOutcome(Append(l, e)) = e
    BY <1>1, <1>2, AppendFacts
  <2>3. ASSUME NEW k, PresentAt(k) # {}
        PROVE  LastValue(f, k) = Latest(k)
    BY <2>3 DEF LastValue, Latest
  <2>4. /\ HasLatest(Append(l, e))
        /\ e.present => /\ PresentAt(Append(l, e)) # {}
                        /\ LastValue(f, Append(l, e)) = e.val
        /\ ~e.present =>
             /\ PresentAt(Append(l, e)) = PresentAt(l)
             /\ PresentAt(l) # {} => LastValue(f, Append(l, e)) = LastValue(f, l)
    BY <1>1, <1>2, <2>3, LatestAfter
  <2>5. Remembers(f, res.slot, Append(l, e))
    BY <1>1, <1>2, <2>1, <2>2, <2>4 DEF Remembers, Kept, Operators
  <2>. QED
    BY <1>2, <1>3, <2>1, <2>2, <2>4, <2>5 DEF Agree, e
<1>. QED
  BY <1>4, <1>5

-----------------------------------------------------------------------------
(* The promise is stated with congruences, the code computes remainders.   *)

Mod64 == 2 * Half64
Mod32 == 2 * Half32

\* a and u differ by a multiple of m.
Congruent(a, u, m) == \E q \in Int : a - u = m * q

\* Every integer is a multiple of the divisor plus its remainder.
LEMMA Division ==
  ASSUME NEW m \in Nat \ {0}, NEW a \in Int
  PROVE  a \div m \in Int /\ a = m * (a \div m) + (a % m)
  OBVIOUS

\* A multiple leaves no remainder.
LEMMA MultipleMod ==
  ASSUME NEW m \in Nat \ {0}, NEW q \in Int
  PROVE  (m * q) % m = 0
  OBVIOUS

\* The only multiple closer to zero than the divisor is zero.
LEMMA SmallMultiple ==
  ASSUME NEW m \in Nat \ {0}, NEW q \in Int, m * q < m, -m < m * q
  PROVE  q = 0
<1>1. CASE q >= 1
  <2>1. m * q >= m
    BY <1>1
  <2>. QED
    BY <2>1
<1>2. CASE q <= -1
  <2>1. m * q <= -m
    BY <1>2
  <2>. QED
    BY <2>1
<1>. QED
  BY <1>1, <1>2

\* In an interval as long as the divisor, each integer has one representative.
LEMMA Representative ==
  ASSUME NEW lo \in Int, NEW hi \in Int, NEW m \in Nat \ {0}, m = hi - lo + 1,
         NEW a \in Int, NEW u \in lo .. hi, Congruent(a, u, m)
  PROVE  Wrapped(lo, hi, a) = u
<1>. PICK q \in Int : a - u = m * q
  BY DEF Congruent
<1>1. (a - u) % m = 0
  BY MultipleMod
<1>2. ASSUME NEW x \in lo .. hi, (a - x) % m = 0
      PROVE  x = u
  <2>1. PICK p \in Int : a - x = m * p + ((a - x) % m)
    <3>. DEFINE b == a - x
    <3>1. b \in Int
      OBVIOUS
    <3>. HIDE DEF b
    <3>2. b \div m \in Int /\ b = m * (b \div m) + (b % m)
      BY <3>1, Division
    <3>3. \E p \in Int : b = m * p + (b % m)
      BY <3>2
    <3>. QED
      BY <3>3 DEF b
  <2>2. m * (p - q) = u - x
    BY <1>2, <2>1
  <2>3. u - x < m /\ -m < u - x
    OBVIOUS
  <2>4. p - q = 0
    BY <2>2, <2>3, SmallMultiple
  <2>. QED
    BY <2>2, <2>4
<1>3. (CHOOSE x \in lo .. hi : (a - x) % m = 0) = u
  BY <1>1, <1>2
<1>. QED
  BY <1>3 DEF Wrapped

\* A remainder, shifted or not, is congruent to what was divided.
LEMMA RemainderCongruence ==
  ASSUME NEW n \in Int, NEW m \in Nat \ {0}, NEW h \in Int
  PROVE  /\ ((n + h) % m) - h \in -h .. (m - 1 - h)
         /\ Congruent(n, ((n + h) % m) - h, m)
<1>. DEFINE b == n + h
<1>1. b \in Int
  OBVIOUS
<1>. HIDE DEF b
<1>2. /\ b % m \in 0 .. (m - 1) /\ b % m \in Int
      /\ b \div m \in Int /\ b = m * (b \div m) + (b % m)
  BY <1>1, Division, ModRange
<1>3. n - ((b % m) - h) = m * (b \div m)
  BY <1>2 DEF b
<1>4. (b % m) - h \in -h .. (m - 1 - h)
  <2>. DEFINE z == b % m
  <2>1. z \in 0 .. (m - 1) /\ z \in Int
    BY <1>2
  <2>. HIDE DEF z
  <2>2. z - h \in -h .. (m - 1 - h)
    BY <2>1
  <2>. QED
    BY <2>2 DEF z
<1>5. Congruent(n, (b % m) - h, m)
  <2>1. \E q \in Int : n - ((b % m) - h) = m * q
    BY <1>2, <1>3
  <2>. QED
    BY <2>1 DEF Congruent
<1>. QED
  BY <1>4, <1>5 DEF b

\* A conversion yields the number of its type congruent to its argument.
LEMMA ConversionCongruence ==
  ASSUME NEW n \in Int
  PROVE  /\ ToUint64(n) \in 0 .. (Mod64 - 1) /\ Congruent(n, ToUint64(n), Mod64)
         /\ ToInt64(n) \in -Half64 .. (Half64 - 1) /\ Congruent(n, ToInt64(n), Mod64)
         /\ ToUint32(n) \in 0 .. (Mod32 - 1) /\ Congruent(n, ToUint32(n), Mod32)
         /\ ToInt32(n) \in -Half32 .. (Half32 - 1) /\ Congruent(n, ToInt32(n), Mod32)
<1>1. /\ Mod64 \in Nat \ {0} /\ Mod32 \in Nat \ {0}
      /\ Half64 \in Int /\ Half32 \in Int
      /\ Half64 - 1 = Mod64 - 1 - Half64 /\ Half32 - 1 = Mod32 - 1 - Half32
  BY WidthAssumption DEF Mod64, Mod32
<1>2. /\ ToInt64(n) = ((n + Half64) % Mod64) - Half64
      /\ ToInt32(n) = ((n + Half32) % Mod32) - Half32
      /\ ToUint64(n) = n % Mod64
      /\ ToUint32(n) = n % Mod32
  BY DEF ToInt64, ToInt32, ToUint64, ToUint32, Mod64, Mod32
<1>3. ASSUME NEW m \in Nat \ {0}
      PROVE  n % m \in 0 .. (m - 1) /\ Congruent(n, n % m, m)
  <2>1. n % m \in 0 .. (m - 1) /\ n \div m \in Int
        /\ n = m * (n \div m) + (n % m) /\ n % m \in Int
    BY Division, ModRange
  <2>2. n - (n % m) = m * (n \div m)
    BY <2>1
  <2>. QED
    BY <2>1, <2>2 DEF Congruent
<1>. QED
  BY <1>1, <1>2, <1>3, RemainderCongruence

\* Narrowing a number that was already brought into 64 bits still moves it by
\* a multiple of 2^32, because 2^32 divides 2^64.
LEMMA NarrowingCongruence ==
  ASSUME NEW a \in Int, NEW t \in Int, NEW u \in Int,
         Congruent(a, t, Mod64), Congruent(t, u, Mod32)
  PROVE  Congruent(a, u, Mod32)
<1>1. PICK k \in 1 .. Half64 : Half64 = k * Half32
  BY WidthAssumption
<1>2. PICK q \in Int : a - t = (2 * Half64) * q
  BY DEF Congruent, Mod64
<1>3. PICK p \in Int : t - u = (2 * Half32) * p
  BY DEF Congruent, Mod32
<1>4. Half32 \in Int /\ Half64 \in Int /\ k \in Int /\ k * q + p \in Int
  BY <1>1, WidthAssumption
<1>5. (2 * Half64) * q = (2 * Half32) * (k * q)
  BY <1>1, <1>4
<1>6. a - u = (2 * Half32) * (k * q + p)
  BY <1>2, <1>3, <1>4, <1>5
<1>. QED
  BY <1>4, <1>6 DEF Congruent, Mod32

\* How many values the field's declared type has.
Size(f) == Highest(f) - Lowest(f) + 1

Incremented(f, a) ==
  IF f.type = "uint" THEN wrapUint(ToUint64(a), f.width)
                     ELSE wrapInt(ToInt64(a), f.width)

\* What the increment computes from a is congruent to a, modulo the size of
\* the field's type, and lies in that type.
LEMMA IncrementCongruence ==
  ASSUME NEW f \in AllFields, NEW a \in Int
  PROVE  /\ Size(f) \in Nat \ {0}
         /\ Lowest(f) \in Int /\ Highest(f) \in Int
         /\ Incremented(f, a) \in Lowest(f) .. Highest(f)
         /\ Congruent(a, Incremented(f, a), Size(f))
<1>1. f.type \in {"uint", "int"} /\ f.width \in {32, 64}
  BY DEF AllFields
<1>2. /\ Half64 \in Nat \ {0} /\ Half32 \in Nat \ {0}
      /\ Mod64 \in Nat \ {0} /\ Mod32 \in Nat \ {0}
      /\ Mod64 = 2 * Half64 /\ Mod32 = 2 * Half32
  BY WidthAssumption DEF Mod64, Mod32
<1>3. /\ ToUint64(a) \in Int /\ ToInt64(a) \in Int
      /\ ToUint32(ToUint64(a)) \in 0 .. (Mod32 - 1)
      /\ ToInt32(ToInt64(a)) \in -Half32 .. (Half32 - 1)
      /\ Congruent(a, ToUint32(ToUint64(a)), Mod32)
      /\ Congruent(a, ToInt32(ToInt64(a)), Mod32)
  <2>1. ToUint64(a) \in Int /\ ToInt64(a) \in Int
    BY <1>2, ConversionCongruence
  <2>2. /\ ToUint32(ToUint64(a)) \in 0 .. (Mod32 - 1)
        /\ ToInt32(ToInt64(a)) \in -Half32 .. (Half32 - 1)
        /\ ToUint32(ToUint64(a)) \in Int /\ ToInt32(ToInt64(a)) \in Int
    BY <1>2, <2>1, ConversionCongruence
  <2>. QED
    BY <2>1, <2>2, ConversionCongruence, NarrowingCongruence
<1>4. CASE f.type = "uint" /\ f.width = 64
  <2>1. /\ Lowest(f) = 0 /\ Highest(f) = Mod64 - 1
        /\ Size(f) = Mod64 /\ Incremented(f, a) = ToUint64(a)
    BY <1>2, <1>4
       DEF Size, Lowest, Highest, wrapUint, Incremented
  <2>. QED
    BY <1>2, <2>1, ConversionCongruence
<1>5. CASE f.type = "int" /\ f.width = 64
  <2>1. /\ Lowest(f) = -Half64 /\ Highest(f) = Half64 - 1
        /\ Size(f) = Mod64 /\ Incremented(f, a) = ToInt64(a)
    BY <1>2, <1>5
       DEF Size, Lowest, Highest, wrapInt, Incremented
  <2>. QED
    BY <1>2, <2>1, ConversionCongruence
<1>6. CASE f.type = "uint" /\ f.width = 32
  <2>1. /\ Lowest(f) = 0 /\ Highest(f) = Mod32 - 1
        /\ Size(f) = Mod32 /\ Incremented(f, a) = ToUint32(ToUint64(a))
    BY <1>2, <1>6
       DEF Size, Lowest, Highest, wrapUint, Incremented
  <2>. QED
    BY <1>2, <1>3, <2>1
<1>7. CASE f.type = "int" /\ f.width = 32
  <2>1. /\ Lowest(f) = -Half32 /\ Highest(f) = Half32 - 1
        /\ Size(f) = Mod32 /\ Incremented(f, a) = ToInt32(ToInt64(a))
    BY <1>2, <1>7
       DEF Size, Lowest, Highest, wrapInt, Incremented
  <2>. QED
    BY <1>2, <1>3, <2>1
<1>. QED
  BY <1>1, <1>4, <1>5, <1>6, <1>7

\* The slot's increment is the successor in the cyclic order of the width.
LEMMA SuccessorIsIncrement ==
  ASSUME NEW f \in AllFields, NEW v \in Int
  PROVE  Successor(f, v) = Incremented(f, v + 1)
<1>. DEFINE a == v + 1
            lo == Lowest(f)
            hi == Highest(f)
            m == Size(f)
            u == Incremented(f, a)
<1>1. a \in Int
  OBVIOUS
<1>2. Successor(f, v) = Wrapped(lo, hi, a)
  BY DEF Successor
<1>3. m = hi - lo + 1
  BY DEF Size
<1>. HIDE DEF a
<1>4. m \in Nat \ {0} /\ lo \in Int /\ hi \in Int /\ u \in lo .. hi /\ Congruent(a, u, m)
  BY <1>1, IncrementCongruence
<1>. HIDE DEF lo, hi, m, u
<1>5. Wrapped(lo, hi, a) = u
  BY <1>1, <1>3, <1>4, Representative
<1>. QED
  BY <1>2, <1>5 DEF u, a

\* Adding a delta to a base in 64 bits is what the promise calls its sum.
LEMMA SumIsDelta ==
  ASSUME NEW f \in AllFields, NEW b \in Int, NEW d \in Int
  PROVE  Sum(f, b, d) =
           IF f.type = "uint" THEN ToUint64(b + d) ELSE ToInt64(b + d)
<1>. DEFINE a == b + d
            z == IF f.type = "uint" THEN ToUint64(a) ELSE ToInt64(a)
            lo == IF f.type = "uint" THEN 0 ELSE -Half64
            hi == IF f.type = "uint" THEN 2 * Half64 - 1 ELSE Half64 - 1
<1>1. a \in Int
  OBVIOUS
<1>2. /\ Mod64 \in Nat \ {0} /\ lo \in Int /\ hi \in Int /\ Mod64 = hi - lo + 1
      /\ 2 * Half64 - 1 = Mod64 - 1
  BY WidthAssumption DEF Mod64
<1>3. Sum(f, b, d) = Wrapped(lo, hi, a)
  BY DEF Sum
<1>. HIDE DEF a
<1>4. z \in lo .. hi /\ Congruent(a, z, Mod64)
  BY <1>1, <1>2, ConversionCongruence
<1>. HIDE DEF z, lo, hi
<1>5. Wrapped(lo, hi, a) = z
  BY <1>1, <1>2, <1>4, Representative
<1>. QED
  BY <1>3, <1>5 DEF z, a

-----------------------------------------------------------------------------
(* Every operator returns what is promised.                                *)

\* What a read delivers.
Delivered(rd) ==
  IF rd.err # NoError THEN [present |-> FALSE, val |-> 0, err |-> rd.err]
  ELSE IF rd.null THEN [present |-> FALSE, val |-> 0, err |-> NoError]
  ELSE [present |-> TRUE, val |-> rd.val, err |-> NoError]

\* What the next entity means to a field, when the numbers in fits can be read.
Meant(w, f, fits) ==
  LET n == Head(w.buf)
  IN  IF w.buf = <<>> THEN [present |-> FALSE, val |-> 0, err |-> EndOfStream]
      ELSE IF n \notin fits THEN [present |-> FALSE, val |-> 0, err |-> Overflow]
      ELSE IF ~f.optional THEN [present |-> TRUE, val |-> n, err |-> NoError]
      ELSE IF n = 0 THEN [present |-> FALSE, val |-> 0, err |-> NoError]
      ELSE IF n > 0 THEN [present |-> TRUE, val |-> n - 1, err |-> NoError]
      ELSE [present |-> TRUE, val |-> n, err |-> NoError]

\* Both ways to deliver a read show the same.
LEMMA DeliveredIsVisible ==
  ASSUME NEW rd, NEW s
  PROVE  /\ Visible(DeliverRead(rd, s)) = Delivered(rd)
         /\ Visible(DeliverAndKeep(rd, s)) = Delivered(rd)
BY DEF Visible, Returned, Delivered, DeliverRead, DeliverAndKeep, Present, Absent, Fail

\* A read delivers what was transmitted.
LEMMA ReadIsTransmitted ==
  ASSUME NEW f, f.type \in {"uint", "int"}, f.optional \in BOOLEAN, NEW w
  PROVE  /\ f.type = "uint" /\ f.op # "Delta" =>
              Delivered(ReadUintFor(w, f)) = Transmitted(f, w)
         /\ f.type = "int" =>
              Delivered(ReadIntFor(w, f)) = Transmitted(f, w)
         /\ f.type = "int" \/ f.op = "Delta" =>
              Delivered(readDelta(w, f.optional)) = Transmitted(f, w)
<1>1. Uint64 \subseteq Nat /\ Int64 \subseteq Int
  BY WidthAssumption DEF Uint64, Int64
<1>2. ASSUME NEW fits, fits \subseteq Int
      PROVE  Delivered(IF f.optional THEN UndoNullableShift(ReadEntity(w, fits))
                                     ELSE ReadEntity(w, fits))
             = Meant(w, f, fits)
  BY <1>2
     DEF Delivered, UndoNullableShift, ReadEntity, Meant, NoError, EndOfStream, Overflow
<1>3. Transmitted(f, w) =
        Meant(w, f, IF f.type = "int" \/ f.op = "Delta" THEN Int64 ELSE Uint64)
  BY <1>1 DEF Meant, Transmitted, IsSigned, Value,
              NoValue, Failure, Returned, NoError, EndOfStream, Overflow
<1>4. /\ Delivered(ReadUintFor(w, f)) = Meant(w, f, Uint64)
      /\ Delivered(ReadIntFor(w, f)) = Meant(w, f, Int64)
      /\ Delivered(readDelta(w, f.optional)) = Meant(w, f, Int64)
  <2>1. /\ ReadUintFor(w, f) = IF f.optional THEN UndoNullableShift(ReadEntity(w, Uint64))
                                             ELSE ReadEntity(w, Uint64)
        /\ ReadIntFor(w, f) = IF f.optional THEN UndoNullableShift(ReadEntity(w, Int64))
                                            ELSE ReadEntity(w, Int64)
        /\ readDelta(w, f.optional) = ReadIntFor(w, f)
    BY DEF ReadUintFor, ReadIntFor, readDelta, ReadUint, ReadInt,
           ReadNullableUint, ReadNullableInt
  <2>2. Uint64 \subseteq Int /\ Int64 \subseteq Int
    BY <1>1
  <2>. QED
    BY <1>2, <2>1, <2>2
<1>. QED
  BY <1>3, <1>4

\* Consuming a presence-map bit changes nothing about the entities.
LEMMA BitsAndEntities ==
  ASSUME NEW f, NEW w, IsWire(w)
  PROVE  Transmitted(f, AfterBit(w)) = Transmitted(f, w)
<1>1. AfterBit(w).buf = w.buf
  BY DEF AfterBit, IsWire
<1>. QED
  BY <1>1 DEF Transmitted

\* The vocabulary of the promise, spelled out.
LEMMA PromisedOutcomes ==
  ASSUME NEW f \in AllFields
  PROVE  /\ \A v : Value(v) = [present |-> TRUE, val |-> v, err |-> NoError]
         /\ NoValue = [present |-> FALSE, val |-> 0, err |-> NoError]
         /\ \A w, s : s.State = "Undefined" =>
              Visible(ResolveUndefined(w, f, s)) = Start(f)
         /\ \A w, s : Visible(Present(w, s, f.initial)) = Value(f.initial)
         /\ \A w, s : Visible(Absent(w, s)) = NoValue
         /\ \A w, s, v : Visible(Present(w, s, v)) = Value(v)
         /\ \A w, s : f.optional => Visible(ResolveEmpty(w, f, s)) = NoValue
         /\ Start(f) =
              IF f.hasInitial THEN Value(f.initial)
              ELSE IF f.optional THEN NoValue
              ELSE [present |-> FALSE, val |-> 0, err |-> ErrD5]
BY DEF Visible, ResolveUndefined, ResolveEmpty, Present, Absent, Fail,
       Value, NoValue, Failure, Returned, Start, NoError, ErrD5

\* The answer from the s is the answer from the history.
LEMMA ResolveIsImplied ==
  ASSUME NEW f, NEW s, NEW l, Agree(f, s, l), NEW w,
         f.op \in {"Copy", "Increment"}
  PROVE  /\ f.op = "Copy" =>
              /\ Visible(resolveUintPrevious(w, f, s)) = Implied(f, l)
              /\ Visible(resolveIntPrevious(w, f, s)) = Implied(f, l)
         /\ s.State # "Assigned" =>
              /\ Visible(resolveIntPrevious(w, f, s)) = Implied(f, l)
              /\ s.State = "Undefined" =>
                   Visible(ResolveUndefined(w, f, s)) = Implied(f, l)
              /\ s.State = "Empty" =>
                   Visible(ResolveEmpty(w, f, s)) = Implied(f, l)
         /\ f.op = "Increment" /\ s.State = "Assigned" =>
              Implied(f, l) = Value(Successor(f, s.Val))
<1>1. f \in AllFields /\ s.State \in States
  BY DEF Agree, Slots
<1>2. s = IF l = <<>> THEN UndefinedSlot
             ELSE IF LastOutcome(l).present THEN Assign(LastOutcome(l).val)
             ELSE s
  BY DEF Agree, Remembers
<1>3. l # <<>> /\ ~LastOutcome(l).present => s.State = "Empty"
  BY DEF Agree, Remembers
<1>4. s.State = "Empty" => f.optional
  BY DEF Agree, EmptyIsLegal
<1>5. Implied(f, l) =
        IF l = <<>> THEN Start(f)
        ELSE IF ~LastOutcome(l).present THEN NoValue
        ELSE IF f.op = "Copy" THEN Value(LastOutcome(l).val)
        ELSE Value(Successor(f, LastOutcome(l).val))
  BY DEF Implied
<1>6. CASE l = <<>>
  <2>1. s.State = "Undefined"
    BY <1>2, <1>6 DEF UndefinedSlot
  <2>. QED
    BY <1>1, <1>5, <1>6, <2>1, PromisedOutcomes
       DEF resolveUintPrevious, resolveIntPrevious
<1>7. CASE l # <<>> /\ ~LastOutcome(l).present
  <2>1. s.State = "Empty" /\ f.optional
    BY <1>3, <1>4, <1>7
  <2>. QED
    BY <1>1, <1>5, <1>7, <2>1, PromisedOutcomes
       DEF resolveUintPrevious, resolveIntPrevious
<1>8. CASE l # <<>> /\ LastOutcome(l).present
  <2>1. s.State = "Assigned" /\ s.Val = LastOutcome(l).val
    BY <1>2, <1>8 DEF Assign
  <2>. QED
    BY <1>1, <1>5, <1>8, <2>1, PromisedOutcomes
       DEF resolveUintPrevious, resolveIntPrevious
<1>. QED
  BY <1>6, <1>7, <1>8

\* The base of a delta is the latest value, and so is its sum.
LEMMA DeltaIsPromised ==
  ASSUME NEW f, NEW s, NEW l, Agree(f, s, l), NEW w, f.op = "Delta"
  PROVE  /\ f.type = "uint" =>
              Visible(DecodeUintDelta(w, f, s)) = Explicit(f, l, w)
         /\ f.type = "int" =>
              Visible(DecodeIntDelta(w, f, s)) = Explicit(f, l, w)
<1>. DEFINE rd == readDelta(w, f.optional)
            b == LastValue(f, l)
<1>1. /\ f \in AllFields /\ f.initial \in Int /\ s.Val \in Int
      /\ f.hasInitial \in BOOLEAN /\ s.State \in States
  BY ValuesFacts DEF Agree, AllFields, Slots
<1>2. s.State # "Empty"
  BY DEF Agree, EmptyIsLegal
<1>3. b \in Int /\ uintDeltaBase(f, s) = b /\ intDeltaBase(f, s) = b
  <2>1. CASE PresentAt(l) = {}
    <3>1. s = UndefinedSlot /\ b = IF f.hasInitial THEN f.initial ELSE 0
      BY <2>1 DEF Agree, Remembers, LastValue
    <3>. QED
      BY <1>1, <3>1 DEF uintDeltaBase, intDeltaBase, UndefinedSlot
  <2>2. CASE PresentAt(l) # {}
    <3>1. s = Assign(b)
      BY <2>2 DEF Agree, Remembers
    <3>. QED
      BY <1>1, <3>1 DEF uintDeltaBase, intDeltaBase, Assign
  <2>. QED
    BY <2>1, <2>2
<1>4. /\ ReadContract(rd, Int64)
      /\ Delivered(rd) = Transmitted(f, w)
      /\ rd.val \in Int
  <2>1. ReadContract(rd, Int64)
    BY ReadIntForType
  <2>2. Delivered(rd) = Transmitted(f, w)
    BY <1>1, ReadIsTransmitted DEF AllFields
  <2>3. Int64 \subseteq Int
    BY WidthAssumption DEF Int64
  <2>. QED
    BY <2>1, <2>2, <2>3 DEF ReadContract
<1>5. Explicit(f, l, w) =
        IF Transmitted(f, w).present
        THEN Value(Sum(f, b, Transmitted(f, w).val))
        ELSE Transmitted(f, w)
  BY DEF Explicit
<1>6. /\ f.type = "uint" => Sum(f, b, rd.val) = ToUint64(b + rd.val)
      /\ f.type = "int" => Sum(f, b, rd.val) = ToInt64(b + rd.val)
  BY <1>1, <1>3, <1>4, SumIsDelta
<1>7. /\ DecodeUintDelta(w, f, s) =
           IF rd.err # NoError THEN Fail(rd.wire, s, rd.err)
           ELSE IF rd.null THEN Absent(rd.wire, s)
           ELSE Present(rd.wire, Assign(ToUint64(b + rd.val)), ToUint64(b + rd.val))
      /\ DecodeIntDelta(w, f, s) =
           IF rd.err # NoError THEN Fail(rd.wire, s, rd.err)
           ELSE IF rd.null THEN Absent(rd.wire, s)
           ELSE Present(rd.wire, Assign(ToInt64(b + rd.val)), ToInt64(b + rd.val))
  BY <1>2, <1>3 DEF DecodeUintDelta, DecodeIntDelta
<1>. HIDE DEF rd, b
<1>8. CASE rd.err # NoError
  BY <1>4, <1>5, <1>7, <1>8 DEF Delivered, Visible, Returned, Fail
<1>9. CASE rd.err = NoError /\ rd.null
  BY <1>4, <1>5, <1>7, <1>9 DEF Delivered, Visible, Returned, Absent
<1>10. CASE rd.err = NoError /\ ~rd.null
  <2>1. /\ Transmitted(f, w).present
        /\ Transmitted(f, w).val = rd.val
    BY <1>4, <1>10 DEF Delivered
  <2>2. Explicit(f, l, w) = Value(Sum(f, b, rd.val))
    BY <1>5, <2>1
  <2>. QED
    BY <1>1, <1>6, <1>7, <1>10, <2>2, PromisedOutcomes
<1>. QED
  BY <1>4, <1>8, <1>9, <1>10 DEF ReadContract

\* Every call of an operator returns what is promised.
LEMMA OutcomeIsPromised ==
  ASSUME NEW f, NEW s, NEW l, Agree(f, s, l), NEW w, IsWire(w)
  PROVE  Visible(DecodeInteger(w, f, s)) = Promised(f, l, w)
<1>. DEFINE v == AfterBit(w)
<1>1. /\ f \in AllFields /\ f.op \in Operators /\ f.type \in {"uint", "int"}
      /\ f.optional \in BOOLEAN /\ f.hasInitial \in BOOLEAN
      /\ s \in Slots(f) /\ s.State \in States /\ s.Val \in Int
  BY ValuesFacts DEF Agree, AllFields, Slots
<1>2. Transmitted(f, v) = Transmitted(f, w)
  BY BitsAndEntities
<1>3. ASSUME NEW x
      PROVE  /\ f.type = "uint" /\ f.op # "Delta" =>
                  /\ Visible(DeliverRead(ReadUintFor(x, f), s)) = Transmitted(f, x)
                  /\ Visible(readUintPrevious(x, f, s)) = Transmitted(f, x)
             /\ f.type = "int" =>
                  /\ Visible(DeliverRead(ReadIntFor(x, f), s)) = Transmitted(f, x)
                  /\ Visible(readIntPrevious(x, f, s)) = Transmitted(f, x)
  BY <1>1, DeliveredIsVisible, ReadIsTransmitted DEF readUintPrevious, readIntPrevious
<1>4. Promised(f, l, w) =
        IF \/ f.op \in {"None", "Delta", "Tail"}
           \/ f.op = "Constant" /\ ~f.optional
           \/ f.op \notin {"None", "Delta", "Tail"} /\ PresenceBit(w)
        THEN Explicit(f, l, w) ELSE Implied(f, l)
  BY <1>2 DEF Promised, Selected
<1>5. Explicit(f, l, w) = IF f.op = "Constant" THEN Value(f.initial)
                              ELSE IF f.op = "Delta" THEN Explicit(f, l, w)
                              ELSE Transmitted(f, w)
  BY DEF Explicit
<1>6. Implied(f, l) = IF f.op = "Constant" THEN NoValue
                          ELSE IF f.op = "Default" THEN Start(f)
                          ELSE Implied(f, l)
  BY DEF Implied
<1>. HIDE DEF v
<1>7. CASE f.op \in {"None", "Tail"}
  BY <1>1, <1>3, <1>4, <1>5, <1>7
     DEF DecodeInteger, uintDecodeCall, intDecodeCall, DecodeUintNone, DecodeIntNone
<1>8. CASE f.op = "Constant"
  <2>1. DecodeInteger(w, f, s) =
          IF ~f.optional THEN Present(w, s, f.initial)
          ELSE IF PresenceBit(w) THEN Present(v, s, f.initial)
          ELSE Absent(v, s)
    BY <1>1, <1>8 DEF DecodeInteger, uintDecodeCall, intDecodeCall, DecodeUintConstant,
                      DecodeIntConstant, v
  <2>. QED
    BY <1>1, <1>4, <1>5, <1>6, <1>8, <2>1, PromisedOutcomes
<1>9. CASE f.op = "Default"
  <2>1. ~PresenceBit(w) => Visible(DecodeInteger(w, f, s)) = Start(f)
    BY <1>1, <1>9, PromisedOutcomes
       DEF DecodeInteger, uintDecodeCall, intDecodeCall, DecodeUintDefault,
           DecodeIntDefault, Visible, Returned, Fail
  <2>2. PresenceBit(w) =>
          Visible(DecodeInteger(w, f, s)) = Transmitted(f, w)
    BY <1>1, <1>2, <1>3, <1>9
       DEF DecodeInteger, uintDecodeCall, intDecodeCall, DecodeUintDefault,
           DecodeIntDefault, v
  <2>. QED
    BY <1>4, <1>5, <1>6, <1>9, <2>1, <2>2
<1>10. CASE f.op = "Copy"
  <2>1. ~PresenceBit(w) =>
          Visible(DecodeInteger(w, f, s)) = Implied(f, l)
    BY <1>1, <1>10, ResolveIsImplied
       DEF DecodeInteger, uintDecodeCall, intDecodeCall, DecodeUintCopy, DecodeIntCopy
  <2>2. PresenceBit(w) =>
          Visible(DecodeInteger(w, f, s)) = Transmitted(f, w)
    BY <1>1, <1>2, <1>3, <1>10
       DEF DecodeInteger, uintDecodeCall, intDecodeCall, DecodeUintCopy, DecodeIntCopy, v
  <2>. QED
    BY <1>4, <1>5, <1>10, <2>1, <2>2
<1>11. CASE f.op = "Increment"
  <2>1. ~PresenceBit(w) /\ s.State = "Assigned" =>
          Visible(DecodeInteger(w, f, s)) = Implied(f, l)
    <3>. SUFFICES ASSUME ~PresenceBit(w), s.State = "Assigned"
                  PROVE  Visible(DecodeInteger(w, f, s)) = Implied(f, l)
      OBVIOUS
    <3>. DEFINE next == Incremented(f, s.Val + 1)
    <3>1. DecodeInteger(w, f, s) = Present(v, Assign(next), next)
      BY <1>1, <1>11
         DEF DecodeInteger, uintDecodeCall, intDecodeCall, DecodeUintIncrement,
             DecodeIntIncrement, Incremented, v
    <3>2. Implied(f, l) = Value(Successor(f, s.Val))
      BY <1>11, ResolveIsImplied
    <3>3. Successor(f, s.Val) = next
      BY <1>1, SuccessorIsIncrement
    <3>. QED
      BY <1>1, <3>1, <3>2, <3>3, PromisedOutcomes
  <2>2. ~PresenceBit(w) /\ s.State # "Assigned" =>
          Visible(DecodeInteger(w, f, s)) = Implied(f, l)
    BY <1>1, <1>11, ResolveIsImplied
       DEF DecodeInteger, uintDecodeCall, intDecodeCall, DecodeUintIncrement,
           DecodeIntIncrement, States
  <2>3. PresenceBit(w) =>
          Visible(DecodeInteger(w, f, s)) = Transmitted(f, w)
    BY <1>1, <1>2, <1>3, <1>11
       DEF DecodeInteger, uintDecodeCall, intDecodeCall, DecodeUintIncrement,
           DecodeIntIncrement, v
  <2>. QED
    BY <1>4, <1>5, <1>11, <2>1, <2>2, <2>3
<1>12. CASE f.op = "Delta"
  BY <1>1, <1>4, <1>12, DeltaIsPromised
     DEF DecodeInteger, uintDecodeCall, intDecodeCall
<1>. QED
  BY <1>1, <1>7, <1>8, <1>9, <1>10, <1>11, <1>12 DEF Operators

\* A read takes an entity off the wire, when there is one, and nothing else.
LEMMA ReadLeaves ==
  ASSUME NEW w, NEW f, NEW s
  PROVE  /\ DeliverRead(ReadUintFor(w, f), s).wire = AfterEntity(w)
         /\ DeliverRead(ReadIntFor(w, f), s).wire = AfterEntity(w)
         /\ readUintPrevious(w, f, s).wire = AfterEntity(w)
         /\ readIntPrevious(w, f, s).wire = AfterEntity(w)
         /\ readDelta(w, f.optional).wire = AfterEntity(w)
<1>1. /\ ReadUintFor(w, f).wire = AfterEntity(w)
      /\ ReadIntFor(w, f).wire = AfterEntity(w)
      /\ readDelta(w, f.optional).wire = AfterEntity(w)
  BY DEF ReadUintFor, ReadIntFor, readDelta, ReadUint, ReadInt, ReadNullableUint,
         ReadNullableInt, UndoNullableShift, ReadEntity
<1>. QED
  BY <1>1 DEF DeliverRead, DeliverAndKeep, readUintPrevious, readIntPrevious,
              Present, Absent, Fail

\* Answering without an entity takes nothing more off the wire.
LEMMA ResolveLeaves ==
  ASSUME NEW w, NEW f, NEW s, s.State \in States
  PROVE  /\ resolveUintPrevious(w, f, s).wire = w
         /\ resolveIntPrevious(w, f, s).wire = w
         /\ ResolveUndefined(w, f, s).wire = w
         /\ ResolveEmpty(w, f, s).wire = w
BY DEF resolveUintPrevious, resolveIntPrevious, ResolveUndefined, ResolveEmpty,
       Present, Absent, Fail, States

\* Every call leaves the rest of the wire to the next field: success or not,
\* whatever the slot, it takes the field's bit and the field's entity.
LEMMA RestIsLeft ==
  ASSUME NEW f \in AllFields, NEW s \in Slots(f), NEW w, IsWire(w)
  PROVE  DecodeInteger(w, f, s).wire = Rest(f, w)
<1>. DEFINE v == AfterBit(w)
            x == AfterEntity(w)
            y == AfterEntity(v)
<1>1. /\ f.op \in Operators /\ f.optional \in BOOLEAN /\ f.hasInitial \in BOOLEAN
      /\ f.type \in {"uint", "int"} /\ s.State \in States
  BY DEF AllFields, Slots
<1>2. /\ v = [pm |-> IF w.pm # <<>> THEN Tail(w.pm) ELSE w.pm, buf |-> w.buf]
      /\ x = [pm |-> w.pm, buf |-> IF w.buf # <<>> THEN Tail(w.buf) ELSE w.buf]
      /\ y = [pm |-> v.pm, buf |-> IF w.buf # <<>> THEN Tail(w.buf) ELSE w.buf]
  BY DEF AfterBit, AfterEntity, IsWire
<1>3. /\ f.op \in {"None", "Delta", "Tail"} => Rest(f, w) = x
      /\ f.op = "Constant" => Rest(f, w) = IF f.optional THEN v ELSE w
      /\ f.op \in {"Default", "Copy", "Increment"} =>
           Rest(f, w) = IF PresenceBit(w) THEN y ELSE v
  <2>1. Rest(f, w) =
          IF IsSent(f, w) THEN IF OwnsBit(f) THEN y ELSE x
                          ELSE IF OwnsBit(f) THEN v ELSE w
    <3>1. w = [pm |-> w.pm, buf |-> w.buf] /\ v.pm = IF w.pm # <<>> THEN Tail(w.pm) ELSE w.pm
      BY <1>2 DEF IsWire
    <3>. HIDE DEF v, x, y
    <3>2. CASE IsSent(f, w) /\ OwnsBit(f)
      BY <1>2, <3>1, <3>2 DEF Rest
    <3>3. CASE IsSent(f, w) /\ ~OwnsBit(f)
      BY <1>2, <3>1, <3>3 DEF Rest
    <3>4. CASE ~IsSent(f, w) /\ OwnsBit(f)
      BY <1>2, <3>1, <3>4 DEF Rest
    <3>5. CASE ~IsSent(f, w) /\ ~OwnsBit(f)
      BY <1>2, <3>1, <3>5 DEF Rest
    <3>. QED
      BY <3>2, <3>3, <3>4, <3>5
  <2>. QED
    BY <1>1, <2>1 DEF OwnsBit, IsSent, Selected, Operators
<1>4. /\ readUintPrevious(v, f, s).wire = y /\ readIntPrevious(v, f, s).wire = y
      /\ DeliverRead(ReadUintFor(v, f), s).wire = y
      /\ DeliverRead(ReadIntFor(v, f), s).wire = y
      /\ DeliverRead(ReadUintFor(w, f), s).wire = x
      /\ DeliverRead(ReadIntFor(w, f), s).wire = x
      /\ readDelta(w, f.optional).wire = x
  BY ReadLeaves
<1>5. /\ resolveUintPrevious(v, f, s).wire = v
      /\ resolveIntPrevious(v, f, s).wire = v
      /\ ResolveUndefined(v, f, s).wire = v
      /\ ResolveEmpty(v, f, s).wire = v
  BY <1>1, ResolveLeaves
<1>6. \A u, z, e : /\ Present(u, s, z).wire = u
                  /\ Present(u, Assign(z), z).wire = u
                  /\ Absent(u, s).wire = u
                  /\ Fail(u, s, e).wire = u
  BY DEF Present, Absent, Fail
<1>. HIDE DEF v, x, y
<1>7. CASE f.op \in {"None", "Tail"}
  BY <1>1, <1>3, <1>4, <1>7
     DEF DecodeInteger, uintDecodeCall, intDecodeCall, DecodeUintNone, DecodeIntNone
<1>8. CASE f.op = "Constant"
  BY <1>1, <1>3, <1>6, <1>8
     DEF DecodeInteger, uintDecodeCall, intDecodeCall, DecodeUintConstant, DecodeIntConstant, v
<1>9. CASE f.op = "Default"
  BY <1>1, <1>3, <1>4, <1>6, <1>9
     DEF DecodeInteger, uintDecodeCall, intDecodeCall, DecodeUintDefault, DecodeIntDefault, v
<1>10. CASE f.op = "Copy"
  BY <1>1, <1>3, <1>4, <1>5, <1>10
     DEF DecodeInteger, uintDecodeCall, intDecodeCall, DecodeUintCopy, DecodeIntCopy, v
<1>11. CASE f.op = "Increment"
  <2>1. DecodeInteger(w, f, s).wire = IF PresenceBit(w) THEN y ELSE v
    BY <1>1, <1>4, <1>5, <1>6, <1>11
       DEF DecodeInteger, uintDecodeCall, intDecodeCall, DecodeUintIncrement,
           DecodeIntIncrement, States, v
  <2>. QED
    BY <1>3, <1>11, <2>1
<1>12. CASE f.op = "Delta"
  BY <1>1, <1>3, <1>4, <1>6, <1>12
     DEF DecodeInteger, uintDecodeCall, intDecodeCall, DecodeUintDelta, DecodeIntDelta
<1>. QED
  BY <1>1, <1>7, <1>8, <1>9, <1>10, <1>11, <1>12 DEF Operators
=============================================================================
