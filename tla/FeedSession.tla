----------------------------- MODULE FeedSession -----------------------------
(***************************************************************************)
(* A feed: a peer that encodes messages against a history of its own, a    *)
(* channel that loses and repeats datagrams, and a Router that decodes     *)
(* what arrives.  Nothing flows back, so the peer never learns what was    *)
(* lost, and the Router cannot tell.  What sets them right again is the    *)
(* reset message, or a value that is transmitted.                          *)
(*                                                                         *)
(* A datagram is one message: the reset, a message of a template that the  *)
(* Router knows, with one field, or one of a template that it does not     *)
(* know.  The peer is not part of the code: it is any encoder of which     *)
(* PreviousValue is the decoder.                                           *)
(***************************************************************************)
EXTENDS Promises

CONSTANTS
  Feeds,        \* the template sets: each a function from ids to declarations
  Initials,     \* the initial values of their declarations
  ResetID,      \* the id of the reset message
  Foreign,      \* an id of the feed that the Router does not know
  MaxInFlight   \* bound on the datagrams in the channel

ASSUME FeedAssumption ==
  /\ Initials \subseteq Int
  /\ \A feed \in Feeds : /\ DOMAIN feed \subseteq Uint64 \ {ResetID, Foreign}
                         /\ \A t \in DOMAIN feed : feed[t] \in Fields(Initials)
  /\ {ResetID, Foreign} \subseteq Uint64 /\ ResetID \notin {0, Foreign}
  /\ MaxInFlight \in Nat \ {0}

VARIABLES
  feed,       \* the declarations of the templates' fields, by template id
  sentId,     \* the peer: the last id since its last reset
  logs,       \* the peer: what each field was since then
  channel,    \* the datagrams in flight, oldest first
  tidSlot,    \* the Router's dictionary entry of the template id
  slots,      \* and those of the fields
  got,        \* what the last call of Decode returned
  meant,      \* history: what the peer meant by it, if that can be claimed
  known       \* history: the entries that are what the peer takes them to be

vars == <<feed, sentId, logs, channel, tidSlot, slots, got, meant, known>>
peer == <<sentId, logs>>

NoId  == -1
TheId == -1    \* stands in known for the entry of the template id

Result(kind, id, present, val) ==
  [kind |-> kind, id |-> id, present |-> present, val |-> val]
Refusal == Result("error", NoId, FALSE, 0)
Control == Result("control", NoId, FALSE, 0)
NoClaim == Result("none", NoId, FALSE, 0)

-----------------------------------------------------------------------------
(* The peer.                                                               *)

\* The encodings of a field that its decoder understands, and no byte more.
Encodings(f, l) ==
  {w \in Inputs(f) : /\ Promised(f, l, w).err = NoError
                     /\ OwnsBit(f) <=> w.pm # <<>>
                     /\ IsSent(f, w) <=> w.buf # <<>>}

\* As much of a history as a promise looks back to, the last outcome and the
\* last that was present, once o has been added to it.
Remember(l, o) ==
  IF o.present \/ l = <<>> THEN <<o>>
  ELSE IF Head(l).present THEN <<Head(l), o>> ELSE <<o>>

\* An id is a copy field: it may be left out if it is that of the message
\* before.
Framed(t, sends, w) ==
  [pm |-> <<sends>> \o w.pm, buf |-> IF sends THEN <<t>> \o w.buf ELSE w.buf]

Datagram(t, sends, w, m) ==
  [id |-> t, sends |-> sends, wire |-> Framed(t, sends, w), body |-> w,
   means |-> m, again |-> FALSE]

Send(d) == Len(channel) < MaxInFlight /\ channel' = Append(channel, d)

SendMessage(t, sends) ==
  /\ sends \/ sentId = t
  /\ \E w \in Encodings(feed[t], logs[t]) :
       LET o == Promised(feed[t], logs[t], w)
       IN  /\ Send(Datagram(t, sends, w, Result("message", t, o.present, o.val)))
           /\ logs' = [logs EXCEPT ![t] = Remember(@, o)]
  /\ sentId' = t
  /\ UNCHANGED <<feed, tidSlot, slots, got, meant, known>>

SendForeign(sends) ==
  /\ sends \/ sentId = Foreign
  /\ Send(Datagram(Foreign, sends, NoInput, Refusal))
  /\ sentId' = Foreign
  /\ UNCHANGED <<feed, logs, tidSlot, slots, got, meant, known>>

\* The reset message, after which the peer starts its histories again.
SendReset ==
  /\ Send(Datagram(ResetID, TRUE, NoInput, Control))
  /\ sentId' = NoId /\ logs' = [t \in DOMAIN feed |-> <<>>]
  /\ UNCHANGED <<feed, tidSlot, slots, got, meant, known>>

-----------------------------------------------------------------------------
(* The Router.                                                             *)

templateId ==
  [type |-> "uint", op |-> "Copy", width |-> 32, optional |-> FALSE,
   hasInitial |-> FALSE, initial |-> 0]

NoSlots == [t \in DOMAIN feed |-> UndefinedSlot]

\* Mutant: the dictionaries of the templates are not reset.
DecodeControl_IdOnly(r) ==
  /\ r.err = NoError /\ r.val = ResetID
  /\ tidSlot' = UndefinedSlot /\ slots' = slots /\ got' = Control

DecodeControl(r) ==
  /\ r.err = NoError /\ r.val = ResetID
  /\ tidSlot' = UndefinedSlot /\ slots' = NoSlots /\ got' = Control

DecodeRefused(r) ==
  /\ r.err # NoError \/ r.val \notin {ResetID} \cup DOMAIN feed
  /\ tidSlot' = r.slot /\ slots' = slots /\ got' = Refusal

DecodeBody(r) ==
  /\ r.err = NoError /\ r.val \in DOMAIN feed
  /\ LET res == DecodeInteger(r.wire, feed[r.val], slots[r.val])
     IN  /\ tidSlot' = r.slot /\ slots' = [slots EXCEPT ![r.val] = res.slot]
         /\ got' = IF res.err # NoError THEN Refusal
                   ELSE Result("message", r.val, res.present, res.val)

Decode(w) ==
  LET r == DecodeUint(w, templateId, tidSlot)
  IN  DecodeControl(r) \/ DecodeRefused(r) \/ DecodeBody(r)

-----------------------------------------------------------------------------
(* The channel, and what can be known after a datagram.                    *)

Memoryless == {t \in DOMAIN feed : feed[t].op \in {"None", "Constant", "Default", "Tail"}}
Everything == {TheId} \cup DOMAIN feed

\* Whether a datagram says all there is to know of an entry, whatever was
\* there before.
Establishes(d) ==
  d.id \in DOMAIN feed /\ feed[d.id].op \in {"Copy", "Increment"} /\ PresenceBit(d.body)

\* Whether decoding a datagram twice comes to the same as decoding it once.
Repeatable(d) ==
  \/ d.id \in {ResetID, Foreign} \cup Memoryless
  \/ feed[d.id].op = "Copy" \/ Establishes(d)

IdIsKnown(d) == d.sends \/ TheId \in known

\* What is known after d has arrived.  A message of an unknown template is
\* decoded as one of the template that the Router has in mind, and may spoil
\* the dictionary of that one too.
KnownAfter(d) ==
  IF d.id = ResetID THEN Everything
  ELSE IF ~IdIsKnown(d) THEN Memoryless \cup (known \ {d.id, tidSlot.Val})
  ELSE known \cup {TheId} \cup (IF Establishes(d) THEN {d.id} ELSE {})

KnownAfterLoss(d) ==
  IF d.id = ResetID THEN Memoryless
  ELSE Memoryless \cup (known \ ({d.id} \cup IF d.sends THEN {TheId} ELSE {}))

\* Whether what d is decoded to can be relied upon.
Sound(d) ==
  /\ IdIsKnown(d)
  /\ d.id \in {ResetID, Foreign} \cup known \/ Establishes(d)
  /\ d.again => Repeatable(d)

Arrive(d) ==
  /\ Decode(d.wire)
  /\ meant' = IF Sound(d) THEN d.means ELSE NoClaim
  /\ known' = IF d.again /\ ~Repeatable(d) THEN KnownAfter(d) \ {d.id} ELSE KnownAfter(d)
  /\ UNCHANGED <<feed, peer>>

Deliver == channel # <<>> /\ Arrive(Head(channel)) /\ channel' = Tail(channel)

Repeat ==
  /\ channel # <<>> /\ Arrive(Head(channel))
  /\ channel' = [channel EXCEPT ![1].again = TRUE]

Lose ==
  /\ channel # <<>> /\ ~Head(channel).again
  /\ channel' = Tail(channel)
  /\ known' = KnownAfterLoss(Head(channel))
  /\ UNCHANGED <<feed, peer, tidSlot, slots, got, meant>>

-----------------------------------------------------------------------------
Init ==
  /\ feed \in Feeds
  /\ sentId = NoId /\ logs = [t \in DOMAIN feed |-> <<>>]
  /\ channel = <<>>
  /\ tidSlot = UndefinedSlot /\ slots = NoSlots
  /\ got = NoClaim /\ meant = NoClaim /\ known = Everything

Next ==
  \/ \E t \in DOMAIN feed, sends \in BOOLEAN : SendMessage(t, sends)
  \/ \E sends \in BOOLEAN : SendForeign(sends)
  \/ SendReset \/ Deliver \/ Repeat \/ Lose

Spec == Init /\ [][Next]_vars

-----------------------------------------------------------------------------
\* Besides the types: whatever is lost, no mandatory field is left empty.
TypeOK ==
  /\ sentId \in {NoId, Foreign} \cup DOMAIN feed
  /\ Len(channel) <= MaxInFlight
  /\ tidSlot \in Slots(templateId)
  /\ \A t \in DOMAIN feed : /\ slots[t] \in Slots(feed[t])
                            /\ slots[t].State = "Empty" => feed[t].optional
  /\ known \subseteq Everything

\* What can be relied upon is decoded as it was sent, and refused only if the
\* Router does not have its template: any message while nothing has been lost
\* since a reset, a memoryless field always, a copy or an increment again from
\* the next value that is transmitted, a delta from the next reset; and a lost
\* message of one template does not disturb another.
WhatIsKnownIsRight == meant # NoClaim => got = meant

\* When everything has arrived, an entry that is known is exactly what the peer
\* takes it to be, though each of the two has only its own history.
MemoriesAgree ==
  channel = <<>> =>
    /\ TheId \in known =>
         tidSlot = IF sentId = NoId THEN UndefinedSlot ELSE Assign(sentId)
    /\ \A t \in known \cap DOMAIN feed : Remembers(feed[t], slots[t], logs[t])
=============================================================================
