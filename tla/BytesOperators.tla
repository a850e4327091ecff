--------------------------- MODULE BytesOperators ---------------------------
(***************************************************************************)
(* The field operators on strings and byte vectors, by the contents they   *)
(* return; where those contents lie in memory is BytesField's business.    *)
(*                                                                         *)
(* A byte string is a sequence of numbers.  On the wire it is one entity:  *)
(* for an ASCII string the data bits of its bytes, at least one of them,   *)
(* for a Unicode string or a byte vector its bytes, or NULL in place of    *)
(* its length.  A delta is preceded by an integer, the subtraction length. *)
(*                                                                         *)
(* A field is [type, op, optional, hasInitial, initial], and its slot      *)
(* [State, Val |-> a byte string].                                         *)
(***************************************************************************)
EXTENDS IntegerOperators

CONSTANT NULL    \* a byte vector whose length preamble is NULL

Types == {"ascii", "unicode", "bytes"}

ErrD7       == "ErrD7"    \* subtraction longer than the base; empty tail
ErrOverlong == "ErrOverlong"
BytesErrors == Errors \cup {ErrD7, ErrOverlong}

UndefinedBytes == [State |-> "Undefined", Val |-> <<>>]

\* A result without a string carries the empty one.
Blank(res) == IF res.present THEN res ELSE [res EXCEPT !.val = <<>>]

DropFirst(s, n) == SubSeq(s, n + 1, Len(s))
DropLast(s, n)  == SubSeq(s, 1, Len(s) - n)

-----------------------------------------------------------------------------
(* ASCII entities.  A zero byte in front keeps NULL, the empty string and  *)
(* strings that begin with a NUL apart, and is refused where not needed.   *)

Read(w, val, null, err) == [wire |-> w, val |-> val, null |-> null, err |-> err]

StripPreamble(w, data) ==
  IF data = <<0>> THEN Read(w, <<>>, FALSE, NoError)
  ELSE IF Head(data) = 0 /\ data[2] # 0 THEN Read(w, <<>>, FALSE, ErrOverlong)
  ELSE IF Head(data) = 0 THEN Read(w, Tail(data), FALSE, NoError)
  ELSE Read(w, data, FALSE, NoError)

interpretASCII(w, data, nullable) ==
  IF ~nullable \/ Head(data) # 0 THEN StripPreamble(w, data)
  ELSE IF Len(data) = 1 THEN Read(w, <<>>, TRUE, NoError)
  ELSE IF data[2] # 0 THEN Read(w, <<>>, FALSE, ErrOverlong)
  ELSE StripPreamble(w, Tail(data))

\* Mutant: a single zero byte is NULL in mandatory fields too.
readBytesValue_Nullable(w, type, optional) ==
  IF w.buf = <<>> THEN Read(w, <<>>, FALSE, EndOfStream)
  ELSE IF type = "ascii" THEN interpretASCII(AfterEntity(w), Head(w.buf), TRUE)
  ELSE Read(AfterEntity(w), Head(w.buf), FALSE, NoError)

readBytesValue(w, type, optional) ==
  IF w.buf = <<>> THEN Read(w, <<>>, FALSE, EndOfStream)
  ELSE IF type = "ascii" THEN interpretASCII(AfterEntity(w), Head(w.buf), optional)
  ELSE IF optional /\ Head(w.buf) = NULL THEN Read(AfterEntity(w), <<>>, TRUE, NoError)
  ELSE Read(AfterEntity(w), Head(w.buf), FALSE, NoError)

-----------------------------------------------------------------------------
(* DecodeBytes.                                                            *)

BytesConstant(w, f, s) ==
  IF ~f.optional THEN Present(w, s, f.initial)
  ELSE IF PresenceBit(w) THEN Present(AfterBit(w), s, f.initial)
  ELSE Absent(AfterBit(w), s)

BytesDefault(w, f, s) ==
  IF PresenceBit(w) THEN DeliverRead(readBytesValue(AfterBit(w), f.type, f.optional), s)
  ELSE IF f.hasInitial THEN Present(AfterBit(w), s, f.initial)
  ELSE IF f.optional THEN Absent(AfterBit(w), s)
  ELSE Fail(AfterBit(w), s, ErrD5)

BytesCopy(w, f, s) ==
  CASE PresenceBit(w) ->
         DeliverAndKeep(readBytesValue(AfterBit(w), f.type, f.optional), s)
    [] ~PresenceBit(w) /\ s.State = "Assigned"  -> Present(AfterBit(w), s, s.Val)
    [] ~PresenceBit(w) /\ s.State = "Undefined" -> ResolveUndefined(AfterBit(w), f, s)
    [] ~PresenceBit(w) /\ s.State = "Empty"     -> ResolveEmpty(AfterBit(w), f, s)

-----------------------------------------------------------------------------
(* Delta: a subtraction length of zero or more takes bytes off the back    *)
(* and appends; a negative one takes one byte less than it says off the    *)
(* front and prepends.                                                     *)

applyStringDelta(base, subLen, part) ==
  IF subLen >= 0 THEN DropLast(base, subLen) \o part
                 ELSE part \o DropFirst(base, -subLen - 1)

\* What is taken off must be there.
Exceeds(base, subLen) ==
  IF subLen >= 0 THEN subLen > Len(base) ELSE -subLen - 1 > Len(base)

\* The base of a delta; an Empty previous value has none (ErrD6).
stringBase(f, s) ==
  IF s.State = "Assigned" THEN s.Val
  ELSE IF f.hasInitial THEN f.initial ELSE <<>>

BytesDelta(w, f, s) ==
  LET d    == readDelta(w, f.optional)
      part == readBytesValue(d.wire, f.type, FALSE)
      base == stringBase(f, s)
      v    == applyStringDelta(base, d.val, part.val)
  IN  IF d.err # NoError THEN Fail(d.wire, s, d.err)
      ELSE IF d.null THEN Absent(d.wire, s)
      ELSE IF part.err # NoError THEN Fail(part.wire, s, part.err)
      ELSE IF s.State = "Empty" THEN Fail(part.wire, s, ErrD6)
      ELSE IF Exceeds(base, d.val) THEN Fail(part.wire, s, ErrD7)
      ELSE Present(part.wire, Assign(v), v)

-----------------------------------------------------------------------------
(* Tail: the transmitted bytes replace as many at the back of the base.    *)

\* Mutant: an emptied field keeps its base.
tailBase_Stale(f, s) ==
  IF s.State # "Undefined" THEN s.Val
  ELSE IF f.hasInitial THEN f.initial ELSE <<>>

tailBase(f, s) ==
  IF s.State = "Assigned" THEN s.Val
  ELSE IF f.hasInitial THEN f.initial ELSE <<>>

applyTail(base, tail) ==
  IF Len(tail) >= Len(base) THEN tail ELSE DropLast(base, Len(tail)) \o tail

\* The errors of a mandatory tail differ from those of a copy.
BytesTail(w, f, s) ==
  LET rd == readBytesValue(AfterBit(w), "ascii", f.optional)
      v  == applyTail(tailBase(f, s), rd.val)
  IN  CASE PresenceBit(w) /\ (rd.err # NoError \/ rd.null) -> DeliverAndKeep(rd, s)
        [] PresenceBit(w) /\ rd.err = NoError /\ ~rd.null ->
             Present(rd.wire, Assign(v), v)
        [] ~PresenceBit(w) /\ s.State = "Assigned" -> Present(AfterBit(w), s, s.Val)
        [] ~PresenceBit(w) /\ s.State = "Undefined" ->
             IF f.hasInitial \/ f.optional THEN ResolveUndefined(AfterBit(w), f, s)
             ELSE Fail(AfterBit(w), s, ErrD6)
        [] ~PresenceBit(w) /\ s.State = "Empty" ->
             IF f.optional THEN Absent(AfterBit(w), s) ELSE Fail(AfterBit(w), s, ErrD7)

\* A string that declares increment compiles, and fails when it is decoded.
DecodeBytes(w, f, s) ==
  Blank(CASE f.op = "None" -> DeliverRead(readBytesValue(w, f.type, f.optional), s)
          [] f.op = "Constant"  -> BytesConstant(w, f, s)
          [] f.op = "Default"   -> BytesDefault(w, f, s)
          [] f.op = "Copy"      -> BytesCopy(w, f, s)
          [] f.op = "Delta"     -> BytesDelta(w, f, s)
          [] f.op = "Tail"      -> BytesTail(w, f, s)
          [] f.op = "Increment" -> Fail(w, s, ErrUnsupported))

BytesFields(types, initials) ==
  {f \in [type : types, op : Operators, optional : BOOLEAN,
          hasInitial : BOOLEAN, initial : initials \cup {<<>>}] :
     /\ f.op = "Constant" /\ f.type # "bytes" => f.hasInitial
     /\ f.op = "Tail" => f.type = "ascii"
     /\ f.op = "None" => ~f.hasInitial
     /\ IF f.hasInitial THEN f.initial \in initials ELSE f.initial = <<>>}
=============================================================================
