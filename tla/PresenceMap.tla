---------------------------- MODULE PresenceMap ----------------------------
(***************************************************************************)
(* Presence maps as the runtime keeps them: the first groups packed in a   *)
(* machine word that Next shifts, the others spilled into a buffer that    *)
(* belongs to the decoder and is used again for every later map of its     *)
(* segment.  Segments nest, so several maps are in use at once.            *)
(*                                                                         *)
(* A group is the seven data bits of one byte.  The sizes are scaled:      *)
(* GroupBits stands for 7 and Packed, the groups the word takes, for 9.    *)
(* The count of bits consumed, which only tests ask for, is left out.      *)
(***************************************************************************)
EXTENDS Integers, SequencesExt

CONSTANTS GroupBits, Packed,
          Segments,   \* the segments of a template that have a map
          Maps,       \* the maps that may arrive, as sequences of groups
          MaxDepth    \* how deep segments nest

MapAssumption ==
  /\ GroupBits \in Nat \ {0} /\ Packed \in Nat \ {0} /\ MaxDepth \in Nat
  /\ Maps \subseteq Seq(0 .. 2 ^ GroupBits - 1) \ {<<>>}

VARIABLES
  pmap,   \* the decoder's buffers: for each, the groups last spilled there
  open,   \* the maps in use, outermost first
  bit     \* what Next returned last

vars == <<pmap, open, bit>>

MapWordBits == Packed * GroupBits + 1
Least(a, b) == IF a <= b THEN a ELSE b

\* Mutant: one buffer for all the maps of a decoder.
Buf_Shared(seg) == CHOOSE s \in Segments : TRUE

\* Each segment has a buffer of its own.
Buf(seg) == seg

-----------------------------------------------------------------------------
(* ReadPMAP.                                                               *)

\* One more group below those already in the word.
Pack(acc, g) ==
  [bits |-> acc.bits + g * 2 ^ (MapWordBits - GroupBits - acc.n),
   n    |-> acc.n + GroupBits]

Word(gs) ==
  FoldLeft(Pack, [bits |-> 0, n |-> 0], SubSeq(gs, 1, Least(Len(gs), Packed)))

Spilled(gs) == SubSeq(gs, Packed + 1, Len(gs))

\* The groups are appended to the emptied buffer: they overwrite its start.
Overwritten(buf, gs) ==
  Spilled(gs) \o SubSeq(buf, Len(Spilled(gs)) + 1, Len(buf))

PMAP(seg, gs) ==
  [bits |-> Word(gs).bits, n |-> Word(gs).n, buf |-> Buf(seg),
   extLen |-> Len(Spilled(gs)), extPos |-> 0, seg |-> seg]

-----------------------------------------------------------------------------
(* PMAP.Next.                                                              *)

Exhausted(p) == p.n = 0 /\ p.extPos >= p.extLen

\* Mutant: a group is loaded one bit too low.
Loaded_Low(p) ==
  IF p.n > 0 THEN p
  ELSE [p EXCEPT !.bits = pmap[p.buf][p.extPos + 1] * 2 ^ (MapWordBits - GroupBits - 1),
                 !.extPos = @ + 1, !.n = GroupBits]

\* The word is filled again when it is drained.
Loaded(p) ==
  IF p.n > 0 THEN p
  ELSE [p EXCEPT !.bits = pmap[p.buf][p.extPos + 1] * 2 ^ (MapWordBits - GroupBits),
                 !.extPos = @ + 1, !.n = GroupBits]

TopBit(p) == p.bits \div 2 ^ (MapWordBits - 1) = 1

\* Mutant: the word is wider than it is taken to be.
Shifted_Wide(p) == [p EXCEPT !.bits = @ * 2, !.n = @ - 1]

Shifted(p) ==
  [p EXCEPT !.bits = (@ * 2) % 2 ^ MapWordBits, !.n = @ - 1]

-----------------------------------------------------------------------------
Init ==
  /\ pmap = [s \in Segments |-> <<>>]
  /\ open = <<>>
  /\ bit = FALSE

\* A segment's method starts and reads its map.  A segment does not contain
\* itself, so its buffer is not in use.
Open(seg, gs) ==
  /\ Len(open) < MaxDepth
  /\ \A i \in DOMAIN open : open[i].seg # seg
  /\ open' = Append(open, PMAP(seg, gs))
  /\ pmap' = [pmap EXCEPT ![Buf(seg)] = Overwritten(@, gs)]
  /\ UNCHANGED bit

\* The frame ends inside a map: its groups are in the buffer all the same,
\* and the error returns from every method.
CutShort(seg, gs) ==
  /\ Len(open) < MaxDepth
  /\ \A i \in DOMAIN open : open[i].seg # seg
  /\ open' = <<>>
  /\ pmap' = [pmap EXCEPT ![Buf(seg)] = Overwritten(@, gs)]
  /\ UNCHANGED bit

NextBit ==
  LET top  == Len(open)
      p    == open[top]
      full == Loaded(p)
  IN  /\ open # <<>>
      /\ IF Exhausted(p)
         THEN bit' = FALSE /\ UNCHANGED open
         ELSE /\ bit' = TopBit(full)
              /\ open' = [open EXCEPT ![top] = Shifted(full)]
      /\ UNCHANGED pmap

Leave ==
  /\ open # <<>>
  /\ open' = SubSeq(open, 1, Len(open) - 1)
  /\ UNCHANGED <<pmap, bit>>

Next ==
  \/ NextBit \/ Leave
  \/ \E seg \in Segments, gs \in Maps : Open(seg, gs) \/ CutShort(seg, gs)

Spec == Init /\ [][Next]_vars

-----------------------------------------------------------------------------
\* The bits that Next has still to return: those in the word, then those of
\* the groups that the buffer holds now.
InWord(p)   == [i \in 1 .. p.n |-> (p.bits \div 2 ^ (MapWordBits - i)) % 2 = 1]
InBuffer(p) == SubSeq(pmap[p.buf], p.extPos + 1, p.extLen)

Sequence == INSTANCE BitSequence WITH unread <- <<>>

Unread == [i \in DOMAIN open |->
            InWord(open[i]) \o Sequence!BitsSent(InBuffer(open[i]))]

Promise == INSTANCE BitSequence WITH unread <- Unread

\* The buffers hold what the open maps may still load from them.
TypeOK ==
  /\ pmap \in [Segments -> Seq(0 .. 2 ^ GroupBits - 1)]
  /\ bit \in BOOLEAN
  /\ \A i \in DOMAIN open : LET p == open[i] IN
       /\ p.seg \in Segments
       /\ p.bits \in 0 .. 2 ^ MapWordBits - 1
       /\ p.n \in 0 .. Packed * GroupBits
       /\ p.extPos \in 0 .. p.extLen /\ p.extLen <= Len(pmap[p.buf])

\* Nothing is set below the unread bits of the word, so that a bit is never
\* taken for one of the next group, and a drained word is all zeros.
WordIsClean ==
  \A i \in DOMAIN open : open[i].bits % 2 ^ (MapWordBits - open[i].n) = 0

\* Whatever nests and whatever is cut short, every open map goes on returning
\* the bits it was sent, and FALSE past its end.
BitsAreKept == Promise!Spec
=============================================================================
