---------------------------- MODULE BitSequence ----------------------------
(***************************************************************************)
(* What a presence map promises: the bits that were sent, in order, and    *)
(* FALSE for ever after; and the maps of nested segments do not disturb    *)
(* those of the segments around them.  There are no buffers here.          *)
(***************************************************************************)
EXTENDS Integers, Sequences

CONSTANTS GroupBits,   \* the bits of a group, which is one byte of a map
          Maps,        \* the maps that may arrive, as sequences of groups
          MaxDepth     \* bound on the maps that are open at once

VARIABLES unread,   \* the bits still unread of each open map, outermost first
          bit       \* what was read last

vars == <<unread, bit>>

\* The data bits of a byte, most significant first.
BitOf(group, i) == (group \div 2 ^ (GroupBits - i)) % 2 = 1

BitsSent(gs) ==
  [k \in 1 .. GroupBits * Len(gs) |->
     BitOf(gs[(k - 1) \div GroupBits + 1], ((k - 1) % GroupBits) + 1)]

Init == unread = <<>> /\ bit = FALSE

Open(gs) ==
  /\ Len(unread) < MaxDepth
  /\ unread' = Append(unread, BitsSent(gs))
  /\ UNCHANGED bit

AfterBit(bits) == IF bits = <<>> THEN <<>> ELSE Tail(bits)

ReadBit ==
  LET top == Len(unread)
  IN  /\ unread # <<>>
      /\ bit' = (unread[top] # <<>> /\ Head(unread[top]))
      /\ unread' = [unread EXCEPT ![top] = AfterBit(@)]

Close ==
  /\ unread # <<>>
  /\ unread' = SubSeq(unread, 1, Len(unread) - 1)
  /\ UNCHANGED bit

\* An error returns from every open segment at once.
Abandon == unread' = <<>> /\ UNCHANGED bit

Next == ReadBit \/ Close \/ Abandon \/ \E gs \in Maps : Open(gs)

Spec == Init /\ [][Next]_vars
=============================================================================
