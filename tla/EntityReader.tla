---------------------------- MODULE EntityReader ----------------------------
(***************************************************************************)
(* The loops of readEntityUnsigned and readEntitySigned, a byte a step.    *)
(*                                                                         *)
(* A stop-bit entity is a number cut into groups of data bits, the highest *)
(* first; the stop bit marks its last byte.  The reader accumulates it in  *)
(* a machine word.  The first groups cannot overflow the word, so they go  *)
(* unchecked; the group after them is checked, and no other is accepted.   *)
(*                                                                         *)
(* The sizes are scaled: GroupBits stands for 7 and WordBits for 64.  What *)
(* the word has to hold is the number, Exact(data), and what the reader    *)
(* does with it is what Wire says of an entity that encodes that number.   *)
(***************************************************************************)
EXTENDS Wire, SequencesExt

CONSTANTS GroupBits, WordBits

Unchecked == WordBits \div GroupBits    \* the groups that need no check: 9
Limit     == Unchecked + 1              \* the groups of the longest entity: 10

GroupAssumption ==
  /\ GroupBits \in Nat \ {0} /\ WordBits \in Nat \ {0, 1}
  /\ WordBits = Unchecked * GroupBits + 1
  /\ Half64 = 2 ^ (WordBits - 1)

VARIABLES
  signed,   \* which of the two readers is running
  groups,   \* the bytes it has consumed
  val,      \* the accumulator
  status,   \* Reading, or how the read returned: NoError or an error
  data      \* history: the data bits of the bytes consumed

vars == <<signed, groups, val, status, data>>

Base    == 2 ^ GroupBits
Group   == 0 .. Base - 1
Reading == "reading"

-----------------------------------------------------------------------------
(* Machine words: shifts drop what leaves the word on the left, and the    *)
(* right shift of a signed word is arithmetic.                             *)

Word(n)  == IF signed THEN ToInt64(n) ELSE ToUint64(n)
ShiftLeft(n)  == Word(n * Base)
ShiftRight(n) == n \div Base

\* The first group of a signed entity is extended with its sign bit.
SignExtended(b) == IF b >= Base \div 2 THEN b - Base ELSE b

FirstGroup(b) == IF signed THEN SignExtended(b) ELSE b

\* Mutant: the unsigned reader compares with the wrong power of two.
LosesBits_Late ==
  IF signed THEN ShiftRight(ShiftLeft(val)) # val
            ELSE val > 2 * ShiftRight(2 * Half64 - 1)

\* Whether one more group would push significant bits out of the word.
LosesBits ==
  IF signed THEN ShiftRight(ShiftLeft(val)) # val
            ELSE val > ShiftRight(2 * Half64 - 1)

-----------------------------------------------------------------------------
Init ==
  /\ signed \in BOOLEAN
  /\ groups = 0 /\ val = 0 /\ data = <<>>
  /\ status = Reading

\* The accumulator takes a byte in, and its stop bit ends the read.
Accumulate(v, b, stop) ==
  /\ val' = v
  /\ status' = IF stop THEN NoError ELSE Reading
  /\ groups' = groups + 1
  /\ data' = Append(data, b)
  /\ UNCHANGED signed

First(b, stop) ==
  /\ status = Reading /\ groups = 0
  /\ Accumulate(FirstGroup(b), b, stop)

More(b, stop) ==
  /\ status = Reading
  /\ groups > 0 /\ groups < Unchecked
  /\ Accumulate(ShiftLeft(val) + b, b, stop)

Checked(b, stop) ==
  /\ status = Reading
  /\ groups >= Unchecked /\ groups < Limit /\ ~LosesBits
  /\ Accumulate(ShiftLeft(val) + b, b, stop)

\* Mutant: the loop goes on after an overflow.
Refused_GoesOn(b) ==
  /\ status = Reading
  /\ groups >= Unchecked /\ (groups >= Limit \/ LosesBits)
  /\ Accumulate(ShiftLeft(val) + b, b, FALSE)

\* The byte that is refused is consumed; what the entity has left is not.
Refused(b) ==
  /\ status = Reading
  /\ groups >= Unchecked /\ (groups >= Limit \/ LosesBits)
  /\ status' = Overflow /\ val' = 0
  /\ groups' = groups + 1
  /\ data' = Append(data, b)
  /\ UNCHANGED signed

CutShort ==
  /\ status = Reading
  /\ status' = EndOfStream /\ val' = 0
  /\ UNCHANGED <<signed, groups, data>>

\* The caller reads its next entity.
Again ==
  /\ status # Reading
  /\ signed' \in BOOLEAN
  /\ groups' = 0 /\ val' = 0 /\ data' = <<>>
  /\ status' = Reading

Byte(b) ==
  \/ \E stop \in BOOLEAN : First(b, stop) \/ More(b, stop) \/ Checked(b, stop)
  \/ Refused(b)

Next == Again \/ CutShort \/ \E b \in Group : Byte(b)

Spec == Init /\ [][Next]_vars

-----------------------------------------------------------------------------
(* The number that groups of data bits encode.                             *)

Exact(gs) ==
  LET lead == IF signed THEN SignExtended(Head(gs)) ELSE Head(gs)
  IN  FoldLeft(LAMBDA n, b : n * Base + b, lead, Tail(gs))

\* What Wire says of an entity that encodes this number.
AsWire ==
  LET w == [pm |-> <<>>, buf |-> <<Exact(data)>>]
  IN  IF signed THEN ReadInt(w) ELSE ReadUint(w)

TypeOK ==
  /\ signed \in BOOLEAN
  /\ groups \in 0 .. Limit + 1
  /\ val \in IF signed THEN Int64 ELSE Uint64
  /\ status \in {Reading, NoError, EndOfStream, Overflow}
  /\ data \in Seq(Group) /\ Len(data) = groups

\* A read delivers exactly the number that was encoded, at whatever length it
\* was encoded, and it refuses only numbers that no word holds and entities
\* longer than any number needs; the bound of the unchecked loop and the two
\* different checks of the last group are what decides this.
ExactOrRefused ==
  /\ status = NoError  => AsWire.err = NoError /\ AsWire.val = val
  /\ status = Overflow => groups > Limit \/ AsWire.err = Overflow
=============================================================================
