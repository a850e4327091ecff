------------------------------- MODULE Router -------------------------------
(***************************************************************************)
(* The generated Router and the template decoders it owns, decoding frame  *)
(* after frame into message structs it reuses.                             *)
(*                                                                         *)
(* A call of Decode is a stack of activations, one per generated method    *)
(* that is running, innermost first.  Each generated statement is one      *)
(* action.  The bytes of a frame are met one at a time: left counts those  *)
(* still unread, every entity is one byte long, and its value, like every  *)
(* bit of a presence map that is on the wire, is chosen when it is read    *)
(* (nothing reads either of them twice).                                   *)
(*                                                                         *)
(* A place is a path: a template id, which names the message, followed by  *)
(* <<segment, step, k>>, where k is 0 for a field, a group or a sequence   *)
(* and the index of the element for what lies inside one.  Values are left *)
(* out of the structs; what is kept is which Has flags are set, the length *)
(* and the capacity of each slice, and (fresh) what this call has written. *)
(***************************************************************************)
EXTENDS Templates, FiniteSets, SequencesExt

CONSTANTS ResetID,    \* the id of the feed's reset message, 0 for none
          MaxFrame,   \* bound on the bytes of a frame
          Numbers     \* the values an entity on the wire may have

ASSUME RouterAssumption ==
  /\ ResetID \in Nat /\ MaxFrame \in Nat /\ Numbers \subseteq Int
  /\ IsFiniteSet(DOMAIN Segment)

VARIABLES
  tidSlot,   \* the dictionary entry of the template id
  dict,      \* the entries of the template decoders
  has,       \* the places whose Has flag is TRUE
  len, cap,  \* the slices of the messages: length and capacity by place
  stack,     \* the activations of the call in progress
  left,      \* the bytes of the frame not yet read
  ret,       \* what the last call returned
  fresh,     \* history: the places written by the last call
  latest,    \* history: the last template id read since the reset
  seen,      \* history: the segments decoded since the reset
  elements   \* history: the elements this call took on from decoded lengths

messages == <<has, len, cap>>
history  == <<fresh, latest, seen, elements>>
vars     == <<tidSlot, dict, messages, stack, left, ret, history>>

NoId == -1
Returns == {"none", "message", "control", "error"}

templateId ==
  [type |-> "uint", op |-> "Copy", width |-> 32, optional |-> FALSE,
   hasInitial |-> FALSE, initial |-> 0]

EmptyDict == [id \in Slotted |-> UndefinedSlot]

Init ==
  /\ tidSlot = UndefinedSlot /\ dict = EmptyDict
  /\ has = {} /\ len = <<>> /\ cap = <<>>
  /\ stack = <<>> /\ left = 0 /\ ret = "none"
  /\ fresh = {} /\ latest = NoId /\ seen = {} /\ elements = 0

-----------------------------------------------------------------------------
(* The caller.                                                             *)

Idle == stack = <<>>

\* Reader.Reset: the next frame.  What is left of the last one is dropped.
NewFrame(n) ==
  /\ Idle
  /\ left' = n
  /\ UNCHANGED <<tidSlot, dict, messages, stack, ret, history>>

\* Router.Reset, as a whole: the caller's, and that of the control message.
\* Mutant: the template decoders are left out of the reset.
ResetDictionaries_IdOnly ==
  /\ tidSlot' = UndefinedSlot /\ dict' = dict
  /\ latest' = NoId /\ seen' = {}

ResetDictionaries ==
  /\ tidSlot' = UndefinedSlot
  /\ dict' = EmptyDict
  /\ latest' = NoId /\ seen' = {}

Reset ==
  /\ Idle
  /\ ResetDictionaries
  /\ UNCHANGED <<messages, stack, left, ret, fresh, elements>>

-----------------------------------------------------------------------------
(* Activations and places.                                                 *)

Activation(s, at, carried, used) ==
  [seg     |-> s,        \* the segment
   at      |-> at,       \* the place of the struct it decodes into
   pc      |-> 1,        \* the step it is at
   next    |-> 0,        \* the element it is at, 0 outside a sequence
   carried |-> carried,  \* whether its presence map is on the wire
   used    |-> used,     \* the bits of it read so far
   from    |-> left]     \* the bytes there were when it was called

Top     == Head(stack)
Body  == Segment[Top.seg]
Ended   == Top.pc > Len(Body)
Current == Body[Top.pc]
Slot    == <<Top.seg, Top.pc>>

\* The place of the current step, or of the k-th element of its sequence.
Part(k) == Append(Top.at, <<Top.seg, Top.pc, k>>)
Here    == Part(0)

SliceLen(c) == IF c \in DOMAIN len THEN len[c] ELSE 0
SliceCap(c) == IF c \in DOMAIN cap THEN cap[c] ELSE 0

\* Whether a place lies in an element of the slice at c.
InSlice(c, p) ==
  /\ Len(p) >= Len(c)
  /\ Front(SubSeq(p, 1, Len(c))) = Front(c)
  /\ p[Len(c)][1] = Last(c)[1] /\ p[Len(c)][2] = Last(c)[2] /\ p[Len(c)][3] > 0

Outside(c, places) == {p \in places : ~InSlice(c, p)}

\* The flags a segment's method clears before its first step.
Cleared(s, at) == {Append(at, <<s, i, 0>>) : i \in optionalHasFields(s)}

ToNext(used) == [Top EXCEPT !.pc = @ + 1, !.next = 0, !.used = used]
Continue(a)  == stack' = <<a>> \o Tail(stack)
Return(what) == stack' = <<>> /\ ret' = what /\ elements' = 0

\* An error abandons every activation.  What they wrote stays written.
Abandon == Return("error") /\ fresh' = {}

-----------------------------------------------------------------------------
(* Reading.                                                                *)

\* The bits the map of an activation can answer with: an absent map has none.
Bits(a) == IF a.carried THEN BOOLEAN ELSE {FALSE}

WireOf(b, n, bytes) ==
  [pm |-> <<b>>, buf |-> IF bytes = 0 THEN <<>> ELSE <<n>>]

LeftAfter(w, bytes) == IF bytes > 0 /\ w.buf = <<>> THEN bytes - 1 ELSE bytes
UsedAfter(w)        == IF w.pm = <<>> THEN Top.used + 1 ELSE Top.used

Stored(id)     == IF id \in Slotted THEN dict[id] ELSE UndefinedSlot
Store(id, s)   == dict' = IF id \in Slotted THEN [dict EXCEPT ![id] = s] ELSE dict

-----------------------------------------------------------------------------
(* Router.Decode up to its switch: the message's presence map, then the    *)
(* template id, a copy field on the first bit of that map.                 *)

TemplateId(b, n) == DecodeUint(WireOf(b, n, left - 1), templateId, tidSlot)

Begin(r) ==
  /\ Idle /\ left > 0
  /\ left' = LeftAfter(r.wire, left - 1)

DecodeAtEnd ==
  /\ Idle /\ left = 0
  /\ Abandon
  /\ UNCHANGED <<tidSlot, dict, messages, left, latest, seen>>

DecodeNoId(r) ==
  /\ Begin(r)
  /\ r.err # NoError
  /\ tidSlot' = r.slot
  /\ Abandon
  /\ UNCHANGED <<dict, messages, latest, seen>>

DecodeControl(r) ==
  /\ Begin(r)
  /\ r.err = NoError /\ ResetID # 0 /\ r.val = ResetID
  /\ ResetDictionaries
  /\ Return("control") /\ fresh' = {}
  /\ UNCHANGED messages

\* Mutant: an unknown id is not kept as the previous value.
DecodeUnknown_Forgetful(r) ==
  /\ Begin(r)
  /\ r.err = NoError /\ ~(ResetID # 0 /\ r.val = ResetID)
  /\ r.val \notin DOMAIN Template
  /\ tidSlot' = tidSlot /\ latest' = r.val
  /\ Abandon
  /\ UNCHANGED <<dict, messages, seen>>

DecodeUnknown(r) ==
  /\ Begin(r)
  /\ r.err = NoError /\ ~(ResetID # 0 /\ r.val = ResetID)
  /\ r.val \notin DOMAIN Template
  /\ tidSlot' = r.slot /\ latest' = r.val
  /\ Abandon
  /\ UNCHANGED <<dict, messages, seen>>

\* The body gets the rest of the map, and clears its flags.
DecodeKnown(r) ==
  /\ Begin(r)
  /\ r.err = NoError /\ ~(ResetID # 0 /\ r.val = ResetID)
  /\ r.val \in DOMAIN Template
  /\ tidSlot' = r.slot /\ latest' = r.val
  /\ stack' = <<Activation(Template[r.val], <<r.val>>, TRUE, 1)>>
  /\ has' = has \ Cleared(Template[r.val], <<r.val>>)
  /\ fresh' = {<<r.val>>} /\ seen' = seen \cup {Template[r.val]}
  /\ ret' = "none"
  /\ UNCHANGED <<dict, len, cap, elements>>

Decode ==
  \/ DecodeAtEnd
  \/ \E b \in BOOLEAN, n \in Numbers :
       LET r == TemplateId(b, n)
       IN  \/ DecodeNoId(r) \/ DecodeControl(r)
           \/ DecodeUnknown(r) \/ DecodeKnown(r)

-----------------------------------------------------------------------------
(* The statements of a generated method.                                   *)

Running(kind) == ~Idle /\ ~Ended /\ Current.kind = kind

FieldStep(b, n) ==
  /\ Running("field") /\ b \in Bits(Top)
  /\ LET f == Current.decl
         r == DecodeInteger(WireOf(b, n, left), f, Stored(Slot))
     IN  /\ left' = LeftAfter(r.wire, left)
         /\ Store(Slot, r.slot)
         /\ IF r.err # NoError THEN Abandon /\ UNCHANGED has
            ELSE /\ Continue(ToNext(UsedAfter(r.wire)))
                 /\ fresh' = IF r.present THEN fresh \cup {Here} ELSE fresh
                 /\ has' = IF r.present /\ f.optional THEN has \cup {Here} ELSE has
                 /\ UNCHANGED <<ret, elements>>
  /\ UNCHANGED <<tidSlot, len, cap, latest, seen>>

\* A nested method: it reads its own presence map if its segment carries one,
\* and clears its flags.  flags is what has is at the call.
Call(s, at, caller, flags) ==
  IF segmentNeedsPMAP(s) /\ left = 0
  THEN Abandon /\ has' = flags /\ UNCHANGED <<left, seen>>
  ELSE /\ left' = IF segmentNeedsPMAP(s) THEN left - 1 ELSE left
       /\ stack' = <<Activation(s, at, segmentNeedsPMAP(s), 0), caller>> \o Tail(stack)
       /\ has' = flags \ Cleared(s, at)
       /\ fresh' = fresh \cup {at} /\ seen' = seen \cup {s}
       /\ UNCHANGED <<ret, elements>>

GroupStep(b) ==
  /\ Running("group") /\ b \in Bits(Top)
  /\ LET used == IF Current.optional THEN Top.used + 1 ELSE Top.used
     IN  IF Current.optional /\ ~b
         THEN /\ Continue(ToNext(used))
              /\ UNCHANGED <<has, left, ret, fresh, seen, elements>>
         ELSE Call(Current.seg, Here, ToNext(used),
                   IF Current.optional THEN has \cup {Here} ELSE has)
  /\ UNCHANGED <<tidSlot, dict, len, cap, latest>>

\* Mutant: the slice is never given a new array.
Resize_NoGrowth(n) ==
  /\ len' = [p \in DOMAIN len \cup {Here} |-> IF p = Here THEN n ELSE len[p]]
  /\ cap' = [p \in DOMAIN len' |-> SliceCap(p)]
  /\ UNCHANGED has

\* The slice takes n elements: the old ones again while they fit, else new ones.
Resize(n) ==
  IF SliceCap(Here) < n
  THEN LET kept == Outside(Here, DOMAIN len)
       IN  /\ len' = [p \in kept \cup {Here} |-> IF p = Here THEN n ELSE len[p]]
           /\ cap' = [p \in kept \cup {Here} |-> IF p = Here THEN n ELSE cap[p]]
           /\ has' = Outside(Here, has)
  ELSE /\ len' = [p \in DOMAIN len \cup {Here} |-> IF p = Here THEN n ELSE len[p]]
       /\ cap' = [p \in DOMAIN len' |-> SliceCap(p)]
       /\ UNCHANGED has

EnterSequence(n, used) ==
  /\ Resize(n)
  /\ Continue([Top EXCEPT !.next = 1, !.used = used])
  /\ fresh' = fresh \cup {Here}

\* Mutant: an absent sequence keeps its slice.
SkipSequence_KeepsSlice(used) ==
  /\ Continue(ToNext(used))
  /\ fresh' = fresh \cup {Here}
  /\ UNCHANGED messages

\* An absent sequence is an empty one.
SkipSequence(used) ==
  /\ Resize(0)
  /\ Continue(ToNext(used))
  /\ fresh' = fresh \cup {Here}

\* Mutant: the bytes that remain are not looked at.
LengthFits_Unchecked(n, bytes) == TRUE

LengthFits(n, bytes) == n <= bytes

LengthStep(b, n) ==
  /\ Running("sequence") /\ Top.next = 0 /\ IsWireLength(Current)
  /\ b \in Bits(Top)
  /\ LET r == uintDecodeCall(WireOf(b, n, left), Current.decl, Stored(Slot))
     IN  /\ left' = LeftAfter(r.wire, left)
         /\ Store(Slot, r.slot)
         /\ IF r.err # NoError \/ (r.present /\ ~LengthFits(r.val, left'))
            THEN Abandon /\ UNCHANGED messages
            ELSE /\ IF r.present THEN EnterSequence(r.val, UsedAfter(r.wire))
                    ELSE SkipSequence(UsedAfter(r.wire))
                 /\ elements' = elements + r.val
                 /\ UNCHANGED ret
  /\ UNCHANGED <<tidSlot, latest, seen>>

ConstantLengthStep(b) ==
  /\ Running("sequence") /\ Top.next = 0 /\ IsConstantLength(Current)
  /\ b \in Bits(Top)
  /\ LET f == Current.decl
     IN  IF f.optional
         THEN IF b THEN EnterSequence(f.initial, Top.used + 1)
              ELSE SkipSequence(Top.used + 1)
         ELSE EnterSequence(f.initial, Top.used)
  /\ UNCHANGED <<tidSlot, dict, left, ret, latest, seen, elements>>

\* Mutant: the loop does not go on to the next element.
ElementStep_Stuck ==
  /\ Running("sequence") /\ Top.next \in 1 .. SliceLen(Here)
  /\ Call(Current.seg, Part(Top.next), Top, has)
  /\ UNCHANGED <<tidSlot, dict, len, cap, latest>>

ElementStep ==
  /\ Running("sequence") /\ Top.next \in 1 .. SliceLen(Here)
  /\ Call(Current.seg, Part(Top.next), [Top EXCEPT !.next = @ + 1], has)
  /\ UNCHANGED <<tidSlot, dict, len, cap, latest>>

SequenceEnd ==
  /\ Running("sequence") /\ Top.next > SliceLen(Here)
  /\ Continue(ToNext(Top.used))
  /\ UNCHANGED <<tidSlot, dict, messages, left, ret, history>>

Leave ==
  /\ ~Idle /\ Ended
  /\ IF Len(stack) = 1 THEN Return("message")
     ELSE stack' = Tail(stack) /\ UNCHANGED <<ret, elements>>
  /\ UNCHANGED <<tidSlot, dict, messages, left, fresh, latest, seen>>

Step ==
  \/ \E b \in BOOLEAN, n \in Numbers : FieldStep(b, n) \/ LengthStep(b, n)
  \/ \E b \in BOOLEAN : GroupStep(b) \/ ConstantLengthStep(b)
  \/ ElementStep \/ SequenceEnd \/ Leave

Next ==
  \/ \E n \in 0 .. MaxFrame : NewFrame(n)
  \/ Reset \/ Decode \/ Step

Spec == Init /\ [][Next]_vars

\* The decoder is sequential code: once called, it runs on.
FairSpec == Spec /\ WF_vars(Step)
-----------------------------------------------------------------------------
IsPlace(p) ==
  /\ p # <<>> /\ p[1] \in DOMAIN Template
  /\ \A i \in 2 .. Len(p) : <<p[i][1], p[i][2]>> \in Steps /\ p[i][3] \in Nat

TypeOK ==
  /\ tidSlot \in Slots(templateId)
  /\ DOMAIN dict = Slotted
  /\ \A id \in Slotted : dict[id] \in Slots(At(id).decl)
  /\ \A p \in has \cup DOMAIN len \cup fresh : IsPlace(p)
  /\ DOMAIN len = DOMAIN cap
  /\ \A p \in DOMAIN len : len[p] \in 0 .. cap[p] /\ cap[p] \in Nat
  /\ \A i \in DOMAIN stack :
       /\ stack[i].seg \in DOMAIN Segment /\ IsPlace(stack[i].at)
       /\ stack[i].pc \in 1 .. Len(Segment[stack[i].seg]) + 1
       /\ stack[i].next \in Nat /\ stack[i].carried \in BOOLEAN
       /\ stack[i].used \in Nat /\ stack[i].from \in 0 .. MaxFrame
  /\ left \in 0 .. MaxFrame
  /\ ret \in Returns
  /\ latest \in Uint64 \cup {NoId}
  /\ seen \subseteq DOMAIN Segment
  /\ elements \in Nat

\* The segment that is decoded into a place that can have one.
SegmentAt(p) ==
  IF Len(p) = 1 THEN Template[p[1]] ELSE At(<<Last(p)[1], Last(p)[2]>>).seg

IsStruct(p) ==
  Len(p) > 1 => Last(p)[3] > 0 \/ At(<<Last(p)[1], Last(p)[2]>>).kind = "group"

\* What the struct at p shows of its i-th instruction is of this call: a field
\* is written unless its flag says absent, a group is decoded unless its flag
\* says absent, every element up to the length is decoded.
ShowsThisCall(p, i) ==
  LET in == Segment[SegmentAt(p)][i]
      c(k) == Append(p, <<SegmentAt(p), i, k>>)
  IN  IF in.kind = "sequence"
      THEN \A k \in 0 .. SliceLen(c(0)) : c(k) \in fresh
      ELSE c(0) \in fresh <=> (HasFlag(in) => c(0) \in has)

\* A returned message never shows anything of an earlier message, although its
\* structs and slices are reused and an earlier call may have died half way.
MessageIsOfThisCall ==
  Idle /\ ret = "message" =>
    \A p \in {q \in fresh : IsStruct(q)} :
      \A i \in DOMAIN Segment[SegmentAt(p)] : ShowsThisCall(p, i)

\* A step claims a bit in vain if nothing takes it: a tail on a number is in
\* the generator's list, and is decoded as no operator, which takes none.
ClaimsInVain(in) == in.kind # "group" /\ in.decl.op = "Tail"
TakesPMAPBit(in) == StepUsesPMAPBit(in) /\ ~ClaimsInVain(in)

TakesBits(a) ==
  Len(a.at) = 1 \/ \E i \in DOMAIN Segment[a.seg] : TakesPMAPBit(Segment[a.seg][i])

\* The generator's decision whether a segment has a presence map on the wire
\* agrees with the operators: no bit is ever asked of a map that is not there,
\* and a map that is there has been read from by the end of the segment,
\* unless all the steps that claim a bit of it do so in vain.
PresenceMapsAgree ==
  \A i \in DOMAIN stack :
    LET a == stack[i]
    IN  /\ ~a.carried => a.used = 0
        /\ a.carried /\ a.pc > Len(Segment[a.seg]) => (a.used > 0 <=> TakesBits(a))

\* A body that runs is that of the last template id the feed sent since the
\* dictionaries were reset, known or not: an unknown id is not forgotten, so
\* the messages that leave their id out after it are not misread.
RoutedByLatestId ==
  /\ ~Idle => latest \in DOMAIN Template /\ stack[Len(stack)].seg = Template[latest]
  /\ tidSlot = IF latest = NoId THEN UndefinedSlot ELSE Assign(latest)

\* No previous value outlives a reset, in whichever template it is.
DictionaryIsOfThisEpoch ==
  \A id \in Slotted : dict[id].State # "Undefined" => id[1] \in seen

\* The elements a call takes on are paid for by the bytes of its frame, even
\* where elements cost none: a frame of L bytes buys at most L(L - 1)/2 for
\* each sequence that a segment can have.
WireLengths(s) == Cardinality({i \in DOMAIN Segment[s] : IsWireLength(Segment[s][i])})
WorkIsPaidFor ==
  ~Idle => LET bytes == Last(stack).from
               each  == Max({WireLengths(s) : s \in DOMAIN Segment})
           IN  2 * elements <= each * bytes * (bytes - 1)

\* Whatever the frame holds, and however deep the loops over elements that read
\* nothing, a call returns: again and again the Router is between calls.
CallsReturn == []<>Idle

\* The reason the generated code gives for comparing a sequence's length with
\* the bytes that remain: "Every element costs at least one byte to encode".
EveryElementCostsAByte ==
  [][Len(stack) > 1 /\ Leave /\ Last(Top.at)[3] > 0 => left < Top.from]_vars
=============================================================================
