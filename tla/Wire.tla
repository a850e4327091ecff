-------------------------------- MODULE Wire --------------------------------
(***************************************************************************)
(* What one field sees of a FAST message: the presence-map bits that are   *)
(* still unread and the stop-bit entities that are still unread.  A wire   *)
(* is a record [pm, buf]; reading consumes a prefix of one or the other.   *)
(*                                                                         *)
(* An entity is the number its data bits encode, so it may be too wide for *)
(* the 64-bit accumulator of the reader: such a read fails with Overflow.  *)
(* One of more than ten groups fails with it too, whatever its number, and *)
(* stands here as a number too wide.  The reader then stays amid the       *)
(* entity, which here is gone: an operator that fails reads no further,    *)
(* and its message is given up.                                            *)
(* An empty buf is a message that was cut short: EndOfStream.              *)
(*                                                                         *)
(* The widths are scaled: 2 * Half64 stands for 2^64 and 2 * Half32 for    *)
(* 2^32, so that TLC meets the wrap-arounds with small numbers.            *)
(***************************************************************************)
EXTENDS Integers, Sequences

CONSTANTS Half64, Half32

ASSUME WidthAssumption ==
  /\ Half64 \in Nat \ {0}
  /\ Half32 \in Nat \ {0}
  /\ \E k \in 1 .. Half64 : Half64 = k * Half32

Uint64 == 0 .. (2 * Half64 - 1)
Int64  == -Half64 .. (Half64 - 1)

\* Go's conversions to a narrower or differently signed integer type.
ToUint64(n) == n % (2 * Half64)
ToInt64(n)  == ((n + Half64) % (2 * Half64)) - Half64
ToUint32(n) == n % (2 * Half32)
ToInt32(n)  == ((n + Half32) % (2 * Half32)) - Half32

NoError     == "nil"
EndOfStream == "ErrEndOfStream"
Overflow    == "ErrOverflow"

-----------------------------------------------------------------------------
(* The presence map: bits past the transmitted ones read as FALSE.         *)

PresenceBit(w) == w.pm # <<>> /\ Head(w.pm)
AfterBit(w)    == IF w.pm = <<>> THEN w ELSE [w EXCEPT !.pm = Tail(@)]

-----------------------------------------------------------------------------
(* Reads return [wire, val, null, err]; null and val mean nothing beside   *)
(* an error.  Both the failing and the succeeding read consume the entity. *)

AfterEntity(w) == IF w.buf = <<>> THEN w ELSE [w EXCEPT !.buf = Tail(@)]

\* Mutant: the tenth group is not checked for overflow.
ReadEntity_Unchecked(w, fits) ==
  [ wire |-> AfterEntity(w), null |-> FALSE,
    val  |-> IF w.buf # <<>> THEN Head(w.buf) ELSE 0,
    err  |-> IF w.buf = <<>> THEN EndOfStream ELSE NoError ]

ReadEntity(w, fits) ==
  [ wire |-> AfterEntity(w),
    null |-> FALSE,
    val  |-> IF w.buf # <<>> /\ Head(w.buf) \in fits THEN Head(w.buf) ELSE 0,
    err  |-> IF w.buf = <<>> THEN EndOfStream
             ELSE IF Head(w.buf) \in fits THEN NoError ELSE Overflow ]

ReadUint(w) == ReadEntity(w, Uint64)
ReadInt(w)  == ReadEntity(w, Int64)

\* Zero is NULL; what encodes a non-negative value was shifted up by one.
UndoNullableShift(rd) ==
  [rd EXCEPT !.null = rd.err = NoError /\ rd.val = 0,
             !.val  = IF rd.val > 0 THEN rd.val - 1 ELSE rd.val]

ReadNullableUint(w) == UndoNullableShift(ReadUint(w))
ReadNullableInt(w)  == UndoNullableShift(ReadInt(w))

readDelta(w, optional) == IF optional THEN ReadNullableInt(w) ELSE ReadInt(w)
=============================================================================
