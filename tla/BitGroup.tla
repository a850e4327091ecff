------------------------------ MODULE BitGroup ------------------------------
(***************************************************************************)
(* A FAST 1.2 bit group: fields of a few bits each, packed in the data     *)
(* bits of one entity and read one after the other by their widths.        *)
(*                                                                         *)
(* The sizes are scaled as in EntityReader: GroupBits stands for 7 and     *)
(* WordBits for 64.                                                        *)
(***************************************************************************)
EXTENDS Wire, SequencesExt

CONSTANTS GroupBits, WordBits,
          BitGroups   \* the entities that may arrive, as sequences of groups

BitGroupAssumption ==
  /\ GroupBits \in Nat \ {0} /\ Half64 = 2 ^ (WordBits - 1)
  /\ BitGroups \subseteq Seq(0 .. 2 ^ GroupBits - 1)

VARIABLES
  data,     \* the groups of the entity that is being read
  cursor,   \* the bits of it that have been read
  result,   \* what the last call returned
  call      \* history: the call, with the place and the width of what it read

vars == <<data, cursor, result, call>>

numBits == GroupBits * Len(data)

Returned(val, err) == [val |-> val, err |-> err]
NoCall == [kind |-> "none", from |-> 0, n |-> 0]

Bit(i) == (data[i \div GroupBits + 1] \div 2 ^ (GroupBits - 1 - (i % GroupBits))) % 2

-----------------------------------------------------------------------------
\* Mutant: the end is looked for one bit too late.
BitsAt_Late(n) ==
  IF n \notin 0 .. WordBits THEN Returned(0, Overflow)
  ELSE IF cursor + n > numBits + 1 THEN Returned(0, EndOfStream)
  ELSE LET Or(v, i) == ToUint64(2 * v + (IF cursor + i - 1 < numBits THEN Bit(cursor + i - 1) ELSE 0))
       IN  Returned(FoldLeft(Or, 0, [i \in 1 .. n |-> i]), NoError)

\* ReadBits, by what it returns.
BitsAt(n) ==
  IF n \notin 0 .. WordBits THEN Returned(0, Overflow)
  ELSE IF cursor + n > numBits THEN Returned(0, EndOfStream)
  ELSE LET Or(v, i) == ToUint64(2 * v + Bit(cursor + i - 1))
       IN  Returned(FoldLeft(Or, 0, [i \in 1 .. n |-> i]), NoError)

\* Mutant: a field of one bit has no sign.
SignExtended_Wide(u, n) ==
  IF n > 1 /\ (u \div 2 ^ (n - 1)) % 2 = 1
  THEN ToInt64(ToInt64(u) - ToInt64(2 ^ n)) ELSE ToInt64(u)

\* 1 << n is zero for the full width of the word, and the difference wraps.
SignExtended(u, n) ==
  IF n > 0 /\ (u \div 2 ^ (n - 1)) % 2 = 1
  THEN ToInt64(ToInt64(u) - ToInt64(2 ^ n)) ELSE ToInt64(u)

Init ==
  /\ data = <<>> /\ cursor = 0
  /\ result = Returned(0, NoError) /\ call = NoCall

\* An entity that is cut short has been written to the buffer, but the reader
\* of its bits is empty.
ReadBitGroup(gs, cut) ==
  /\ data' = IF cut THEN <<>> ELSE gs
  /\ cursor' = 0
  /\ result' = Returned(0, IF cut THEN EndOfStream ELSE NoError)
  /\ call' = NoCall

Moved(r, n) == cursor' = IF r.err = NoError THEN cursor + n ELSE cursor

ReadBits(n) ==
  LET r == BitsAt(n)
  IN  /\ result' = r /\ Moved(r, n)
      /\ call' = [kind |-> "bits", from |-> cursor, n |-> n]
      /\ UNCHANGED data

ReadBitsSigned(n) ==
  LET r == BitsAt(n)
  IN  /\ result' = IF r.err = NoError THEN [r EXCEPT !.val = SignExtended(@, n)] ELSE r
      /\ Moved(r, n)
      /\ call' = [kind |-> "signed", from |-> cursor, n |-> n]
      /\ UNCHANGED data

Next ==
  \/ \E gs \in BitGroups, cut \in BOOLEAN : ReadBitGroup(gs, cut)
  \/ \E n \in 0 .. WordBits + 1 : ReadBits(n) \/ ReadBitsSigned(n)

Spec == Init /\ [][Next]_vars

-----------------------------------------------------------------------------
\* The cursor stays inside the entity; a result is a word of its signedness.
TypeOK ==
  /\ data \in Seq(0 .. 2 ^ GroupBits - 1)
  /\ cursor \in 0 .. numBits
  /\ result.err \in {NoError, EndOfStream, Overflow}
  /\ result.val \in IF call.kind = "signed" THEN Int64 ELSE Uint64

\* The number whose binary digits are the data bits of the whole entity.
Whole == FoldLeft(LAMBDA n, g : n * 2 ^ GroupBits + g, 0, data)

\* The n bits from place k of it, as a number.
Slice(k, n) == (Whole \div 2 ^ (numBits - k - n)) % 2 ^ n

\* A read of n bits returns the next n bits of the entity, wherever they lie in
\* its bytes, as the number or the two's complement number they are, and moves
\* past them.
BitsComeInOrder ==
  call.kind # "none" /\ result.err = NoError =>
    LET u == Slice(call.from, call.n)
    IN  /\ cursor = call.from + call.n
        /\ result.val = IF call.kind = "signed" /\ 2 * u >= 2 ^ call.n /\ call.n > 0
                        THEN u - 2 ^ call.n ELSE u

\* A field that is too wide, for the word or for what the entity has left, is
\* refused, and leaves the fields after it where they were.
RefusalKeepsPlace ==
  call.kind # "none" =>
    /\ result.err # NoError => cursor = call.from
    /\ result.err = NoError <=> call.n <= WordBits /\ call.from + call.n <= numBits
=============================================================================
