-------------------------- MODULE FeedSessionProofs --------------------------
(***************************************************************************)
(* Theorems about FeedSession, for every pair of widths, every template    *)
(* set, and any number of datagrams in flight.                             *)
(*                                                                         *)
(* The argument: each datagram leads the peer from one view (its id and    *)
(* its histories) to the next, so the datagrams in flight join the view    *)
(* that the Router is at to the view that the peer has now.  What is known *)
(* agrees with the former.                                                 *)
(***************************************************************************)
EXTENDS FeedSession, PromiseProofs, SequenceTheorems

-----------------------------------------------------------------------------
(* Histories that are cut to what a promise looks back to.                 *)

\* A history that Remember has cut: one outcome, or a value and an absence.
Short(l) ==
  \/ l = <<>>
  \/ \E a : l = <<a>>
  \/ \E a, b : l = <<a, b>> /\ a.present /\ ~b.present

\* Where the values are in a history of one or two outcomes.
LEMMA ValuesInShort ==
  ASSUME NEW a, NEW b, ~b.present
  PROVE  /\ PresentAt(<<a>>) = IF a.present THEN {1} ELSE {}
         /\ PresentAt(<<a, b>>) = IF a.present THEN {1} ELSE {}
         /\ HasLatest(<<a>>) /\ HasLatest(<<a, b>>)
         /\ a.present => Latest(<<a>>) = a.val /\ Latest(<<a, b>>) = a.val
<1>1. PresentAt(<<a>>) = IF a.present THEN {1} ELSE {}
  <2>1. Len(<<a>>) = 1 /\ <<a>>[1] = a /\ 1 .. 1 = {1}
    OBVIOUS
  <2>. QED
    BY <2>1 DEF PresentAt
<1>2. PresentAt(<<a, b>>) = IF a.present THEN {1} ELSE {}
  <2>1. Len(<<a, b>>) = 2 /\ <<a, b>>[1] = a /\ <<a, b>>[2] = b /\ 1 .. 2 = {1, 2}
    OBVIOUS
  <2>. QED
    BY <2>1 DEF PresentAt
<1>3. \A P : P = {1} => (CHOOSE i \in P : \A j \in P : j <= i) = 1
  OBVIOUS
<1>4. /\ Latest(<<a>>) = <<a>>[CHOOSE i \in PresentAt(<<a>>) : \A j \in PresentAt(<<a>>) : j <= i].val
      /\ Latest(<<a, b>>) =
           <<a, b>>[CHOOSE i \in PresentAt(<<a, b>>) : \A j \in PresentAt(<<a, b>>) : j <= i].val
  BY DEF Latest
<1>. QED
  BY <1>1, <1>2, <1>3, <1>4 DEF HasLatest

\* Cutting a history does not change what there is in it to remember.
LEMMA CutKeeps ==
  ASSUME NEW f, NEW l \in Seq(Outcomes(f)), Short(l), HasLatest(l),
         NEW o \in Outcomes(f)
  PROVE  LET k == Remember(l, o)
         IN  /\ k \in Seq(Outcomes(f)) /\ k # <<>> /\ LastOutcome(k) = o
             /\ Short(k) /\ HasLatest(k)
             /\ PresentAt(k) = {} <=> PresentAt(Append(l, o)) = {}
             /\ PresentAt(k) # {} => Latest(k) = Latest(Append(l, o))
<1>. DEFINE k == Remember(l, o)
            after == Append(l, o)
<1>1. /\ o.present => PresentAt(after) # {} /\ Latest(after) = o.val
      /\ ~o.present => /\ PresentAt(after) = PresentAt(l)
                       /\ PresentAt(l) # {} => Latest(after) = Latest(l)
  BY LatestAfter
<1>2. \A x \in Outcomes(f) :
        /\ <<x>> \in Seq(Outcomes(f)) /\ <<x>> # <<>> /\ LastOutcome(<<x>>) = x
        /\ <<x, o>> \in Seq(Outcomes(f)) /\ <<x, o>> # <<>> /\ LastOutcome(<<x, o>>) = o
  BY DEF LastOutcome
<1>3. o.present \in BOOLEAN
  BY DEF Outcomes
<1>. HIDE DEF after
<1>4. CASE o.present
  <2>1. k = <<o>>
    BY <1>4 DEF Remember
  <2>2. \E b : ~b.present
    <3>1. ~[present |-> FALSE].present
      OBVIOUS
    <3>. QED
      BY <3>1
  <2>3. PresentAt(<<o>>) = {1} /\ HasLatest(<<o>>) /\ Latest(<<o>>) = o.val
    BY <1>4, <2>2, ValuesInShort
  <2>. QED
    BY <1>1, <1>2, <1>4, <2>1, <2>3 DEF Short, after
<1>5. CASE ~o.present /\ l = <<>>
  <2>1. k = <<o>>
    BY <1>5 DEF Remember
  <2>2. PresentAt(<<o>>) = {} /\ HasLatest(<<o>>)
    BY <1>5, ValuesInShort
  <2>3. PresentAt(l) = {}
    BY <1>5 DEF PresentAt
  <2>. QED
    BY <1>1, <1>2, <1>5, <2>1, <2>2, <2>3 DEF Short, after
<1>6. CASE ~o.present /\ l # <<>>
  <2>1. PICK a : l = <<a>> \/ \E b : l = <<a, b>> /\ a.present /\ ~b.present
    BY <1>6 DEF Short
  <2>2. Head(l) = a /\ a \in Outcomes(f)
    <3>1. Head(l) \in Outcomes(f)
      BY <1>6
    <3>. QED
      BY <2>1, <3>1
  <2>3. /\ PresentAt(l) = IF a.present THEN {1} ELSE {}
        /\ a.present => Latest(l) = a.val
    BY <1>6, <2>1, ValuesInShort
  <2>4. CASE a.present
    <3>1. k = <<a, o>>
      BY <1>6, <2>2, <2>4 DEF Remember
    <3>2. PresentAt(<<a, o>>) = {1} /\ HasLatest(<<a, o>>) /\ Latest(<<a, o>>) = a.val
      BY <1>6, <2>4, ValuesInShort
    <3>. QED
      BY <1>1, <1>2, <1>6, <2>2, <2>3, <2>4, <3>1, <3>2 DEF Short, after
  <2>5. CASE ~a.present
    <3>1. k = <<o>>
      BY <1>6, <2>2, <2>5 DEF Remember
    <3>2. PresentAt(<<o>>) = {} /\ HasLatest(<<o>>)
      BY <1>6, ValuesInShort
    <3>. QED
      BY <1>1, <1>2, <1>6, <2>3, <2>5, <3>1, <3>2 DEF Short, after
  <2>. QED
    BY <2>4, <2>5
<1>. QED
  BY <1>4, <1>5, <1>6

-----------------------------------------------------------------------------
(* One field: what a datagram does to a slot, and to the peer's history.   *)

\* The peer's history is one that some decoder could have followed.
HasHistory(f, l) == Short(l) /\ \E s : Agree(f, s, l)

\* What is true of a slot even where nothing is known of its value.
Legal(f, s) ==
  /\ s \in Slots(f)
  /\ EmptyIsLegal(f, s)
  /\ f.op \in {"None", "Constant", "Default", "Tail"} => s = UndefinedSlot

\* The peer's history, and that of a slot that agrees with it, start empty.
LEMMA FirstHistory ==
  ASSUME NEW f \in AllFields
  PROVE  HasHistory(f, <<>>) /\ Legal(f, UndefinedSlot) /\ Agree(f, UndefinedSlot, <<>>)
BY AgreeAtFirst DEF HasHistory, Short, Legal, Agree

\* A slot that agrees with a history agrees with it when it is cut.
LEMMA CutAgrees ==
  ASSUME NEW f, NEW s, NEW l \in Seq(Outcomes(f)), Short(l), HasLatest(l),
         NEW o \in Outcomes(f), Agree(f, s, Append(l, o))
  PROVE  Agree(f, s, Remember(l, o)) /\ Short(Remember(l, o))
<1>. DEFINE k == Remember(l, o)
            after == Append(l, o)
<1>1. /\ k \in Seq(Outcomes(f)) /\ k # <<>> /\ LastOutcome(k) = o
      /\ Short(k) /\ HasLatest(k)
      /\ PresentAt(k) = {} <=> PresentAt(after) = {}
      /\ PresentAt(k) # {} => Latest(k) = Latest(after)
  BY CutKeeps
<1>2. after # <<>> /\ LastOutcome(after) = o
  BY AppendFacts
<1>3. PresentAt(k) # {} => LastValue(f, k) = LastValue(f, after)
  BY <1>1 DEF LastValue
<1>. HIDE DEF k, after
<1>4. Remembers(f, s, k) <=> Remembers(f, s, after)
  <2>1. f.op \in Operators
    BY DEF Agree, AllFields
  <2>. QED
    BY <1>1, <1>2, <1>3, <2>1 DEF Remembers, Operators
<1>5. Agree(f, s, after) /\ Short(k)
  BY <1>1 DEF after
<1>6. Agree(f, s, k)
  BY <1>1, <1>4, <1>5 DEF Agree
<1>. QED
  BY <1>5, <1>6 DEF k

\* A message, decoded with a slot that agrees with the peer's history, is what
\* was meant, and leaves a slot that agrees with the history after it.
LEMMA KnownIsDecoded ==
  ASSUME NEW f, NEW s, NEW l, Agree(f, s, l), Short(l), NEW w, IsWire(w),
         Promised(f, l, w).err = NoError
  PROVE  LET o == Promised(f, l, w)
             res == DecodeInteger(w, f, s)
         IN  /\ Visible(res) = o /\ o \in Outcomes(f)
             /\ Agree(f, res.slot, Remember(l, o))
             /\ Short(Remember(l, o))
<1>. DEFINE o == Promised(f, l, w)
            res == DecodeInteger(w, f, s)
<1>1. Visible(res) = o
  BY OutcomeIsPromised
<1>2. Contract(f, s, res)
  BY DecodeIntegerContract DEF Agree
<1>. HIDE DEF res
<1>3. o \in Outcomes(f)
  BY <1>1, <1>2, OutcomeIsVisible
<1>4. Agree(f, res.slot, Noted(l, Visible(res)))
  BY <1>2, AgreeAfterCall
<1>5. Noted(l, Visible(res)) = Append(l, o)
  BY <1>1 DEF Noted
<1>6. l \in Seq(Outcomes(f)) /\ HasLatest(l)
  BY DEF Agree
<1>. HIDE DEF o
<1>7. Agree(f, res.slot, Remember(l, o)) /\ Short(Remember(l, o))
  BY <1>3, <1>4, <1>5, <1>6, CutAgrees
<1>. QED
  BY <1>1, <1>3, <1>7 DEF o, res

\* The peer's history goes on being one.
LEMMA HistoryGoesOn ==
  ASSUME NEW f, NEW l, HasHistory(f, l), NEW w, IsWire(w),
         Promised(f, l, w).err = NoError
  PROVE  LET o == Promised(f, l, w)
         IN  o \in Outcomes(f) /\ HasHistory(f, Remember(l, o))
<1>. PICK s : Agree(f, s, l)
  BY DEF HasHistory
<1>. QED
  BY KnownIsDecoded DEF HasHistory

\* Where the operator keeps no more than the last outcome, a slot of which
\* nothing is known is right again once the outcome is.
LEMMA RightAgain ==
  ASSUME NEW f \in AllFields, NEW s, Legal(f, s), NEW l, HasHistory(f, l),
         f.op # "Delta", NEW w, IsWire(w), Promised(f, l, w).err = NoError,
         Visible(DecodeInteger(w, f, s)) = Promised(f, l, w)
  PROVE  Agree(f, DecodeInteger(w, f, s).slot, Remember(l, Promised(f, l, w)))
<1>. DEFINE o == Promised(f, l, w)
            res == DecodeInteger(w, f, s)
            k == Remember(l, o)
<1>1. Contract(f, s, res)
  BY DecodeIntegerContract DEF Legal
<1>2. PICK t : Agree(f, t, k)
  <2>1. HasHistory(f, k)
    BY HistoryGoesOn
  <2>. QED
    BY <2>1 DEF HasHistory
<1>. HIDE DEF res
<1>3. /\ res.err = NoError /\ res.present = o.present /\ res.val = o.val
      /\ o \in Outcomes(f)
  BY <1>1, OutcomeIsVisible DEF res
<1>4. k # <<>> /\ LastOutcome(k) = o
  <2>1. PICK z : Agree(f, z, l)
    BY DEF HasHistory
  <2>2. l \in Seq(Outcomes(f)) /\ HasLatest(l) /\ Short(l)
    BY <2>1 DEF Agree, HasHistory
  <2>. HIDE DEF o
  <2>. QED
    BY <1>3, <2>2, CutKeeps
<1>. HIDE DEF o, k
<1>5. Kept(f, s, res) /\ f.op \in Operators
  BY <1>1, <1>3 DEF Contract, AllFields
<1>6. Remembers(f, res.slot, k)
  BY <1>3, <1>4, <1>5 DEF Remembers, Kept, Operators, Legal
<1>7. EmptyIsLegal(f, res.slot) /\ res.slot \in Slots(f)
  BY <1>1 DEF Contract, Legal
<1>8. Agree(f, res.slot, k)
  BY <1>2, <1>6, <1>7 DEF Agree
<1>. QED
  BY <1>8 DEF k, o, res

\* A copy or an increment whose value is transmitted needs no previous value.
LEMMA TransmittedIsDecoded ==
  ASSUME NEW f \in AllFields, f.op \in {"Copy", "Increment"},
         NEW s, NEW l, NEW w, IsWire(w), PresenceBit(w)
  PROVE  Visible(DecodeInteger(w, f, s)) = Promised(f, l, w)
<1>1. f.type \in {"uint", "int"} /\ f.optional \in BOOLEAN
  BY DEF AllFields
<1>2. Promised(f, l, w) = Transmitted(f, w)
  BY DEF Promised, Selected, Explicit
<1>3. DecodeInteger(w, f, s) =
        IF f.type = "uint" THEN DeliverAndKeep(ReadUintFor(AfterBit(w), f), s)
                           ELSE DeliverAndKeep(ReadIntFor(AfterBit(w), f), s)
  BY <1>1 DEF DecodeInteger, uintDecodeCall, intDecodeCall, DecodeUintCopy, DecodeIntCopy,
              DecodeUintIncrement, DecodeIntIncrement, readUintPrevious, readIntPrevious
<1>4. Visible(DecodeInteger(w, f, s)) = Transmitted(f, AfterBit(w))
  BY <1>1, <1>3, DeliveredIsVisible, ReadIsTransmitted
<1>. QED
  BY <1>2, <1>4, BitsAndEntities

\* Decoding a datagram twice delivers the same twice, where it is repeatable.
LEMMA RepeatedPromise ==
  ASSUME NEW f \in AllFields, NEW l, NEW w, HasHistory(f, l), IsWire(w),
         Promised(f, l, w).err = NoError,
         \/ f.op \in {"None", "Constant", "Default", "Tail", "Copy"}
         \/ f.op = "Increment" /\ PresenceBit(w)
  PROVE  Promised(f, Remember(l, Promised(f, l, w)), w) = Promised(f, l, w)
<1>. DEFINE o == Promised(f, l, w)
            k == Remember(l, o)
<1>1. f.op \in Operators
  BY DEF AllFields
<1>2. k # <<>> /\ LastOutcome(k) = o
  <2>1. PICK z : Agree(f, z, l)
    BY DEF HasHistory
  <2>2. l \in Seq(Outcomes(f)) /\ HasLatest(l) /\ Short(l) /\ o \in Outcomes(f)
    BY <2>1, HistoryGoesOn DEF Agree, HasHistory
  <2>. HIDE DEF o
  <2>. QED
    BY <2>2, CutKeeps
<1>3. CASE Selected(f, w)
  <2>1. Explicit(f, k, w) = Explicit(f, l, w)
    BY DEF Explicit
  <2>. QED
    BY <1>3, <2>1 DEF Promised
<1>4. CASE ~Selected(f, w)
  <2>1. o = Implied(f, l) /\ Promised(f, k, w) = Implied(f, k) /\ f.op # "Increment"
    BY <1>1, <1>4 DEF Promised, Selected
  <2>2. CASE f.op # "Copy"
    <3>. HIDE DEF o, k
    <3>1. f.op \in {"Constant", "Default"}
      BY <1>1, <1>4, <2>1, <2>2 DEF Operators, Selected
    <3>2. Implied(f, k) = Implied(f, l)
      BY <3>1 DEF Implied
    <3>. QED
      BY <2>1, <3>2 DEF o, k
  <2>3. CASE f.op = "Copy"
    <3>1. o = IF l = <<>> THEN Start(f)
              ELSE IF ~LastOutcome(l).present THEN NoValue ELSE Value(LastOutcome(l).val)
      BY <2>1, <2>3 DEF Implied
    <3>2. \/ o = NoValue /\ ~o.present
          \/ \E v : o = Value(v) /\ o.present /\ o.val = v
      <4>. HIDE DEF o
      <4>1. o.err = NoError
        BY DEF o
      <4>2. NoValue.present = FALSE /\ \A v : Value(v).present = TRUE /\ Value(v).val = v
        BY DEF NoValue, Value, Returned
      <4>3. Failure(ErrD5).err # NoError
        BY DEF Failure, Returned, ErrD5, NoError
      <4>. QED
        BY <3>1, <4>1, <4>2, <4>3 DEF Start
    <3>. HIDE DEF o, k
    <3>3. Implied(f, k) = IF ~o.present THEN NoValue ELSE Value(o.val)
      BY <1>2, <2>3 DEF Implied
    <3>4. Implied(f, k) = o
      BY <3>2, <3>3
    <3>. QED
      BY <2>1, <3>4 DEF o, k
  <2>. QED
    BY <2>2, <2>3
<1>. QED
  BY <1>3, <1>4

-----------------------------------------------------------------------------
(* The peer's views.  fd is the template set, v a view, d a datagram.      *)

Wires == [pm : Seq(BOOLEAN), buf : Seq(Int)]

Results ==
  [kind : {"error", "control", "message"}, id : Int, present : BOOLEAN, val : Int]

Datagrams ==
  [id : Int, sends : BOOLEAN, wire : Wires, body : Wires,
   means : Results, again : BOOLEAN]

\* What the peer takes the dictionary to be: its id, and the history of each field.
View(id, l) == [id |-> id, logs |-> l]

FirstView(fd) == View(NoId, [t \in DOMAIN fd |-> <<>>])

IsView(fd, v) ==
  /\ v.id \in {NoId, Foreign} \cup DOMAIN fd
  /\ v.logs = [t \in DOMAIN fd |-> v.logs[t]]
  /\ \A t \in DOMAIN fd : HasHistory(fd[t], v.logs[t])

\* The outcome that the peer means by a message.
Outcome(fd, v, d) == Promised(fd[d.id], v.logs[d.id], d.body)

\* The view that the peer goes on with.
After(fd, v, d) ==
  IF d.id = ResetID THEN FirstView(fd)
  ELSE IF d.id = Foreign THEN View(Foreign, v.logs)
  ELSE View(d.id, [v.logs EXCEPT ![d.id] = Remember(@, Outcome(fd, v, d))])

\* The datagrams that a peer at v may send.
Sent(fd, v, d) ==
  /\ d.sends \in BOOLEAN
  /\ d.body \in Wires
  /\ d.wire = Framed(d.id, d.sends, d.body)
  /\ ~d.sends => d.id = v.id
  /\ \/ d.id = ResetID /\ d.sends /\ d.means = Control
     \/ d.id = Foreign /\ d.means = Refusal
     \/ /\ d.id \in DOMAIN fd
        /\ Outcome(fd, v, d).err = NoError
        /\ d.means = Result("message", d.id, Outcome(fd, v, d).present, Outcome(fd, v, d).val)

IdSlot(id) == IF id = NoId THEN UndefinedSlot ELSE Assign(id)

\* What is known, of the dictionary of a Router, is as the view has it.
Matches(fd, kn, tid, sl, v) ==
  /\ TheId \in kn => tid = IdSlot(v.id)
  /\ \A t \in kn \cap DOMAIN fd : Agree(fd[t], sl[t], v.logs[t])

\* The Router's dictionary, whatever was lost.
RouterOK ==
  /\ feed \in Feeds
  /\ tidSlot = UndefinedSlot \/ \E i \in Uint64 \ {ResetID} : tidSlot = Assign(i)
  /\ slots = [t \in DOMAIN feed |-> slots[t]]
  /\ \A t \in DOMAIN feed : Legal(feed[t], slots[t])
  /\ known \subseteq Everything

\* What is assumed of the template sets.
LEMMA FeedFacts ==
  ASSUME NEW fd \in Feeds
  PROVE  /\ DOMAIN fd \subseteq Uint64 /\ Uint64 \subseteq Nat /\ NoId \notin Uint64
         /\ ResetID \notin DOMAIN fd /\ Foreign \notin DOMAIN fd
         /\ ResetID \in Uint64 /\ Foreign \in Uint64 /\ ResetID # Foreign
         /\ \A t \in DOMAIN fd : fd[t] \in AllFields
<1>1. /\ DOMAIN fd \subseteq Uint64 \ {ResetID, Foreign}
      /\ \A t \in DOMAIN fd : fd[t] \in Fields(Initials)
      /\ Initials \subseteq Int
      /\ ResetID \in Uint64 /\ Foreign \in Uint64 /\ ResetID # Foreign
  BY FeedAssumption
<1>2. Fields(Initials) \subseteq AllFields
  BY <1>1, DeclaredFields
<1>3. Uint64 \subseteq Nat /\ NoId \notin Uint64
  BY WidthAssumption DEF Uint64, NoId
<1>. QED
  BY <1>1, <1>2, <1>3

\* The first view is one, and everything matches it after a reset.
LEMMA FirstViewMatches ==
  ASSUME NEW fd \in Feeds, NEW kn, NEW sl, sl = [t \in DOMAIN fd |-> UndefinedSlot]
  PROVE  /\ IsView(fd, FirstView(fd))
         /\ Matches(fd, kn, UndefinedSlot, sl, FirstView(fd))
         /\ \A t \in DOMAIN fd : Legal(fd[t], sl[t])
<1>1. \A t \in DOMAIN fd : /\ HasHistory(fd[t], <<>>)
                           /\ Legal(fd[t], UndefinedSlot)
                           /\ Agree(fd[t], UndefinedSlot, <<>>)
  BY FeedFacts, FirstHistory
<1>. QED
  BY <1>1 DEF IsView, Matches, FirstView, View, IdSlot

\* A datagram leads from view to view.
LEMMA AfterIsView ==
  ASSUME NEW fd \in Feeds, NEW v, IsView(fd, v), NEW d, Sent(fd, v, d)
  PROVE  /\ IsView(fd, After(fd, v, d))
         /\ d.id # ResetID => After(fd, v, d).id = d.id
         /\ \A t \in DOMAIN fd \ {d.id} :
              d.id # ResetID => After(fd, v, d).logs[t] = v.logs[t]
         /\ d.id \in DOMAIN fd =>
              /\ HasHistory(fd[d.id], v.logs[d.id])
              /\ Outcome(fd, v, d).err = NoError
              /\ After(fd, v, d).logs[d.id] = Remember(v.logs[d.id], Outcome(fd, v, d))
<1>1. /\ ResetID \notin DOMAIN fd /\ Foreign \notin DOMAIN fd /\ ResetID # Foreign
      /\ \A t \in DOMAIN fd : fd[t] \in AllFields
  BY FeedFacts
<1>2. CASE d.id = ResetID
  BY <1>1, <1>2, FirstViewMatches DEF After
<1>3. CASE d.id = Foreign
  BY <1>1, <1>3 DEF After, View, IsView
<1>4. CASE d.id \in DOMAIN fd
  <2>. DEFINE o == Outcome(fd, v, d)
              k == Remember(v.logs[d.id], o)
  <2>1. After(fd, v, d) = View(d.id, [v.logs EXCEPT ![d.id] = k])
    BY <1>1, <1>4 DEF After
  <2>2. HasHistory(fd[d.id], v.logs[d.id]) /\ o.err = NoError
    BY <1>1, <1>4 DEF IsView, Sent
  <2>3. IsWire(d.body)
    BY DEF Sent, Wires, IsWire
  <2>4. HasHistory(fd[d.id], k)
    BY <2>2, <2>3, HistoryGoesOn DEF Outcome
  <2>5. v.logs = [t \in DOMAIN fd |-> v.logs[t]]
    BY DEF IsView
  <2>. HIDE DEF o, k
  <2>6. [v.logs EXCEPT ![d.id] = k] = [t \in DOMAIN fd |-> IF t = d.id THEN k ELSE v.logs[t]]
    BY <1>4, <2>5
  <2>7. /\ After(fd, v, d).id = d.id
        /\ After(fd, v, d).logs = [t \in DOMAIN fd |-> IF t = d.id THEN k ELSE v.logs[t]]
    BY <2>1, <2>6 DEF View
  <2>. QED
    BY <1>1, <1>4, <2>2, <2>4, <2>7 DEF IsView, o, k
<1>. QED
  BY <1>2, <1>3, <1>4 DEF Sent

-----------------------------------------------------------------------------
(* A datagram arrives.                                                     *)

\* The first bit of a message's map, and the id that goes with it.
LEMMA FramesOpen ==
  ASSUME NEW w \in Wires, NEW t, NEW sends \in BOOLEAN
  PROVE  LET x == Framed(t, sends, w)
         IN  /\ PresenceBit(x) = sends
             /\ AfterBit(x) = [pm |-> w.pm, buf |-> IF sends THEN <<t>> \o w.buf ELSE w.buf]
             /\ sends => /\ AfterBit(x).buf # <<>> /\ Head(AfterBit(x).buf) = t
                         /\ AfterEntity(AfterBit(x)) = w
             /\ ~sends => AfterBit(x) = w
<1>. DEFINE x == Framed(t, sends, w)
            b == IF sends THEN <<t>> \o w.buf ELSE w.buf
<1>1. /\ w = [pm |-> w.pm, buf |-> w.buf]
      /\ w.pm \in Seq(BOOLEAN) /\ w.buf \in Seq(Int)
  BY DEF Wires
<1>2. ASSUME NEW S, NEW e \in S, NEW s \in Seq(S)
      PROVE  <<e>> \o s # <<>> /\ Head(<<e>> \o s) = e /\ Tail(<<e>> \o s) = s
  <2>. DEFINE p == <<e>> \o s
  <2>1. <<e>> \in Seq(S) /\ Len(<<e>>) = 1 /\ <<e>>[1] = e /\ Len(s) \in Nat
    OBVIOUS
  <2>. HIDE DEF p
  <2>2. /\ p \in Seq(S) /\ Len(p) = 1 + Len(s)
        /\ \A i \in 1 .. 1 + Len(s) : p[i] = IF i <= 1 THEN <<e>>[i] ELSE s[i - 1]
    BY <2>1, ConcatProperties DEF p
  <2>3. p # <<>> /\ Head(p) = e
    BY <2>1, <2>2
  <2>4. /\ Tail(p) \in Seq(S) /\ Len(Tail(p)) = Len(s)
        /\ \A i \in 1 .. Len(s) : Tail(p)[i] = p[i + 1]
    BY <2>1, <2>2, <2>3, HeadTailProperties
  <2>5. \A i \in 1 .. Len(s) : p[i + 1] = s[i]
    BY <2>1, <2>2
  <2>6. Tail(p) = s
    BY <2>4, <2>5, SeqEqual
  <2>. QED
    BY <2>3, <2>6 DEF p
<1>3. <<sends>> \o w.pm # <<>> /\ Head(<<sends>> \o w.pm) = sends
      /\ Tail(<<sends>> \o w.pm) = w.pm
  BY <1>1, <1>2
<1>4. <<t>> \o w.buf # <<>> /\ Head(<<t>> \o w.buf) = t /\ Tail(<<t>> \o w.buf) = w.buf
  <2>1. w.buf \in Seq(Int \cup {t})
    BY <1>1, SeqMonotonic
  <2>. QED
    BY <1>2, <2>1
<1>5. x = [pm |-> <<sends>> \o w.pm, buf |-> b]
  BY DEF Framed
<1>. HIDE DEF x
<1>6. PresenceBit(x) = sends /\ AfterBit(x) = [pm |-> w.pm, buf |-> b]
  BY <1>3, <1>5 DEF PresenceBit, AfterBit
<1>7. CASE sends
  <2>1. AfterBit(x) = [pm |-> w.pm, buf |-> <<t>> \o w.buf]
    BY <1>6, <1>7
  <2>2. /\ AfterBit(x).buf # <<>> /\ Head(AfterBit(x).buf) = t
        /\ AfterEntity(AfterBit(x)) = w
    BY SMTT(20), <1>1, <1>4, <2>1 DEF AfterEntity
  <2>3. /\ PresenceBit(x) = sends
        /\ AfterBit(x) = [pm |-> w.pm, buf |-> IF sends THEN <<t>> \o w.buf ELSE w.buf]
    BY <1>6
  <2>. QED
    BY <1>7, <2>2, <2>3 DEF x
<1>8. CASE ~sends
  BY <1>1, <1>6, <1>8 DEF x
<1>. QED
  BY <1>7, <1>8

\* The id that the Router reads is the one that was sent.
LEMMA SentIdIsRead ==
  ASSUME NEW w \in Wires, NEW t \in Uint64, NEW s
  PROVE  DecodeUint(Framed(t, TRUE, w), templateId, s) = Present(w, Assign(t), t)
<1>. DEFINE x == Framed(t, TRUE, w)
            v == AfterBit(x)
            rd == ReadUintFor(v, templateId)
<1>1. PresenceBit(x) /\ v.buf # <<>> /\ Head(v.buf) = t /\ AfterEntity(v) = w
  BY FramesOpen
<1>. HIDE DEF x
<1>2. DecodeUint(x, templateId, s) = DeliverAndKeep(rd, s)
  BY <1>1 DEF DecodeUint, uintDecodeCall, DecodeUintCopy, readUintPrevious, templateId
<1>. HIDE DEF v
<1>3. rd = [wire |-> w, null |-> FALSE, val |-> t, err |-> NoError]
  BY <1>1 DEF ReadUintFor, ReadUint, ReadEntity, templateId
<1>. HIDE DEF rd
<1>4. DeliverAndKeep(rd, s) = Present(w, Assign(t), t)
  BY <1>3 DEF DeliverAndKeep
<1>. QED
  BY <1>2, <1>4 DEF x

\* If none was sent, it is the one that the Router has in mind.
LEMMA OmittedIdIsRead ==
  ASSUME NEW w \in Wires, NEW t, NEW s, s = UndefinedSlot \/ \E i : s = Assign(i)
  PROVE  DecodeUint(Framed(t, FALSE, w), templateId, s) =
           IF s = UndefinedSlot THEN Fail(w, s, ErrD5) ELSE Present(w, s, s.Val)
<1>. DEFINE x == Framed(t, FALSE, w)
<1>1. ~PresenceBit(x) /\ AfterBit(x) = w
  BY FramesOpen
<1>. HIDE DEF x
<1>2. DecodeUint(x, templateId, s) = resolveUintPrevious(w, templateId, s)
  BY <1>1 DEF DecodeUint, uintDecodeCall, DecodeUintCopy, templateId
<1>3. resolveUintPrevious(w, templateId, s) =
        IF s = UndefinedSlot THEN Fail(w, s, ErrD5) ELSE Present(w, s, s.Val)
  BY DEF resolveUintPrevious, ResolveUndefined, templateId, UndefinedSlot, Assign
<1>. QED
  BY <1>2, <1>3 DEF x

\* Whatever a message of a template is decoded to, its slot stays legal.
LEMMA LegalAfter ==
  ASSUME NEW f \in AllFields, NEW s, Legal(f, s), NEW w
  PROVE  Legal(f, DecodeInteger(w, f, s).slot)
<1>. DEFINE res == DecodeInteger(w, f, s)
<1>1. Contract(f, s, res)
  BY DecodeIntegerContract DEF Legal
<1>. HIDE DEF res
<1>2. f.op \in {"None", "Constant", "Default", "Tail"} => res.slot = s
  BY <1>1 DEF Contract, Kept
<1>3. Legal(f, res.slot)
  BY <1>1, <1>2 DEF Contract, Legal
<1>. QED
  BY <1>3 DEF res

\* A message of a known template: the slot that decodes it agrees with the
\* peer before the message, or, when the message is a repetition, after it.
\* Or nothing is known of the slot, and the value is transmitted.
LEMMA MessageIsDecoded ==
  ASSUME NEW f \in AllFields, NEW s, Legal(f, s), NEW l, HasHistory(f, l),
         NEW w, IsWire(w), Promised(f, l, w).err = NoError,
         \/ Agree(f, s, l)
         \/ /\ Agree(f, s, Remember(l, Promised(f, l, w)))
            /\ f.op \in {"None", "Constant", "Default", "Tail", "Copy"}
         \/ f.op \in {"Copy", "Increment"} /\ PresenceBit(w)
  PROVE  /\ Visible(DecodeInteger(w, f, s)) = Promised(f, l, w)
         /\ Agree(f, DecodeInteger(w, f, s).slot, Remember(l, Promised(f, l, w)))
<1>1. CASE Agree(f, s, l)
  BY <1>1, KnownIsDecoded DEF HasHistory
<1>2. CASE /\ Agree(f, s, Remember(l, Promised(f, l, w)))
           /\ f.op \in {"None", "Constant", "Default", "Tail", "Copy"}
  <2>1. Visible(DecodeInteger(w, f, s)) = Promised(f, Remember(l, Promised(f, l, w)), w)
    BY <1>2, OutcomeIsPromised
  <2>2. Promised(f, Remember(l, Promised(f, l, w)), w) = Promised(f, l, w)
    BY <1>2, RepeatedPromise
  <2>3. Visible(DecodeInteger(w, f, s)) = Promised(f, l, w) /\ f.op # "Delta"
    BY <1>2, <2>1, <2>2
  <2>. QED
    BY <2>3, RightAgain
<1>3. CASE f.op \in {"Copy", "Increment"} /\ PresenceBit(w)
  <2>1. Visible(DecodeInteger(w, f, s)) = Promised(f, l, w) /\ f.op # "Delta"
    BY <1>3, TransmittedIsDecoded
  <2>. QED
    BY <2>1, RightAgain
<1>. QED
  BY <1>1, <1>2, <1>3

\* The Router, before a datagram that the peer sent at the view v.
Meets(v, d) ==
  /\ RouterOK
  /\ IsView(feed, v) /\ Sent(feed, v, d) /\ d.again \in BOOLEAN
  /\ Matches(feed, known, tidSlot, slots, IF d.again THEN After(feed, v, d) ELSE v)

\* What is sent has an id, and no two kinds of datagrams share one.
LEMMA SentIds ==
  ASSUME NEW fd \in Feeds, NEW v, NEW d, Sent(fd, v, d)
  PROVE  /\ d.id \in Uint64 /\ d.id # NoId
         /\ d.id = ResetID => d.sends /\ d.means = Control
         /\ d.id = Foreign => d.means = Refusal
         /\ d.id \in DOMAIN fd =>
              d.means = Result("message", d.id, Outcome(fd, v, d).present, Outcome(fd, v, d).val)
         /\ d.id \in {ResetID, Foreign} \cup DOMAIN fd
BY FeedFacts DEF Sent

\* An id that the Router knows, or is told, is read as it was meant.
LEMMA KnownIdIsRead ==
  ASSUME NEW v, NEW d, Meets(v, d), IdIsKnown(d)
  PROVE  LET r == DecodeUint(d.wire, templateId, tidSlot)
         IN  r.err = NoError /\ r.val = d.id /\ r.slot = Assign(d.id) /\ r.wire = d.body
<1>1. /\ feed \in Feeds /\ Sent(feed, v, d) /\ IsView(feed, v)
      /\ tidSlot = UndefinedSlot \/ \E i : tidSlot = Assign(i)
  BY DEF Meets, RouterOK
<1>2. /\ d.id \in Uint64 /\ d.id # NoId
      /\ d.id = ResetID => d.sends
  BY <1>1, SentIds
<1>3. /\ d.sends \in BOOLEAN /\ d.body \in Wires
      /\ d.wire = Framed(d.id, d.sends, d.body)
      /\ ~d.sends => d.id = v.id
  BY <1>1 DEF Sent
<1>4. CASE d.sends
  <2>1. DecodeUint(d.wire, templateId, tidSlot) = Present(d.body, Assign(d.id), d.id)
    BY <1>2, <1>3, <1>4, SentIdIsRead
  <2>. QED
    BY <2>1 DEF Present
<1>5. CASE ~d.sends
  <2>1. After(feed, v, d).id = d.id
    BY <1>1, <1>2, <1>5, AfterIsView
  <2>2. tidSlot = IdSlot(d.id)
    BY <1>3, <1>5, <2>1 DEF Meets, Matches, IdIsKnown
  <2>3. tidSlot = Assign(d.id) /\ tidSlot # UndefinedSlot /\ tidSlot.Val = d.id
    BY <1>2, <2>2 DEF IdSlot, Assign, UndefinedSlot
  <2>4. d.wire = Framed(d.id, FALSE, d.body)
    BY <1>3, <1>5
  <2>5. DecodeUint(Framed(d.id, FALSE, d.body), templateId, tidSlot) =
          IF tidSlot = UndefinedSlot THEN Fail(d.body, tidSlot, ErrD5)
          ELSE Present(d.body, tidSlot, tidSlot.Val)
    BY <1>1, <1>3, OmittedIdIsRead
  <2>6. DecodeUint(d.wire, templateId, tidSlot) = Present(d.body, tidSlot, tidSlot.Val)
    BY <2>3, <2>4, <2>5
  <2>. QED
    BY <2>3, <2>6 DEF Present
<1>. QED
  BY <1>3, <1>4, <1>5

\* A field without memory agrees with the peer whatever was lost.
LEMMA MemorylessAgrees ==
  ASSUME NEW f, NEW s, Legal(f, s), NEW l, HasHistory(f, l),
         f.op \in {"None", "Constant", "Default", "Tail"}
  PROVE  Agree(f, s, l)
<1>. PICK z : Agree(f, z, l)
  BY DEF HasHistory
<1>1. s = UndefinedSlot /\ z = UndefinedSlot
  BY DEF Legal, Agree, Remembers
<1>. QED
  BY <1>1

\* The reset message sets everything right.
LEMMA ResetArrives ==
  ASSUME NEW v, NEW d, Meets(v, d), Arrive(d), d.id = ResetID
  PROVE  /\ RouterOK'
         /\ Matches(feed, known', tidSlot', slots', After(feed, v, d))
         /\ meant' # NoClaim => got' = meant'
<1>1. feed \in Feeds /\ Sent(feed, v, d) /\ feed' = feed
  BY DEF Meets, RouterOK, Arrive
<1>2. d.sends /\ d.means = Control /\ IdIsKnown(d)
  BY <1>1, SentIds DEF IdIsKnown
<1>. DEFINE r == DecodeUint(d.wire, templateId, tidSlot)
<1>3. r.err = NoError /\ r.val = ResetID
  BY <1>2, KnownIdIsRead
<1>4. DecodeControl(r) \/ DecodeRefused(r) \/ DecodeBody(r)
  BY DEF Arrive, Decode
<1>. HIDE DEF r
<1>5. tidSlot' = UndefinedSlot /\ slots' = NoSlots /\ got' = Control
  BY <1>1, <1>3, <1>4, FeedFacts DEF DecodeControl, DecodeRefused, DecodeBody
<1>6. known' = Everything /\ meant' \in {Control, NoClaim}
  BY <1>2 DEF Arrive, Repeatable, KnownAfter
<1>7. After(feed, v, d) = FirstView(feed)
  BY DEF After
<1>8. slots' = [t \in DOMAIN feed |-> UndefinedSlot]
  BY <1>5 DEF NoSlots
<1>9. /\ Matches(feed, known', UndefinedSlot, slots', FirstView(feed))
      /\ \A t \in DOMAIN feed : Legal(feed[t], slots'[t])
  BY <1>1, <1>8, FirstViewMatches
<1>10. RouterOK'
  BY <1>1, <1>5, <1>6, <1>8, <1>9 DEF RouterOK, Everything
<1>. QED
  BY <1>5, <1>6, <1>7, <1>9, <1>10

\* A message of an unknown template, whose id the Router knows, is refused.
LEMMA ForeignArrives ==
  ASSUME NEW v, NEW d, Meets(v, d), Arrive(d), d.id = Foreign, IdIsKnown(d)
  PROVE  /\ RouterOK'
         /\ Matches(feed, known', tidSlot', slots', After(feed, v, d))
         /\ meant' # NoClaim => got' = meant'
<1>1. feed \in Feeds /\ Sent(feed, v, d) /\ feed' = feed
  BY DEF Meets, RouterOK, Arrive
<1>2. /\ Foreign \notin DOMAIN feed /\ Foreign # ResetID
      /\ Foreign \in Uint64 \ {ResetID} /\ Foreign # NoId
  BY <1>1, FeedFacts
<1>3. d.means = Refusal
  BY <1>1, SentIds
<1>. DEFINE r == DecodeUint(d.wire, templateId, tidSlot)
<1>4. r.err = NoError /\ r.val = Foreign /\ r.slot = Assign(Foreign)
  BY KnownIdIsRead
<1>5. DecodeControl(r) \/ DecodeRefused(r) \/ DecodeBody(r)
  BY DEF Arrive, Decode
<1>. HIDE DEF r
<1>6. tidSlot' = Assign(Foreign) /\ slots' = slots /\ got' = Refusal
  BY <1>2, <1>4, <1>5 DEF DecodeControl, DecodeRefused, DecodeBody
<1>7. known' = known \cup {TheId} /\ meant' \in {Refusal, NoClaim}
  BY <1>2, <1>3 DEF Arrive, Repeatable, KnownAfter, Establishes
<1>8. After(feed, v, d) = View(Foreign, v.logs)
  BY <1>2 DEF After
<1>9. After(feed, v, d).id = Foreign /\ After(feed, v, d).logs = v.logs
  BY <1>8 DEF View
<1>10. \A t \in known' \cap DOMAIN feed : Agree(feed[t], slots'[t], After(feed, v, d).logs[t])
  <2>1. ASSUME NEW t \in known' \cap DOMAIN feed
        PROVE  t \in known
    BY <1>1, <1>7, FeedFacts DEF TheId, NoId
  <2>. QED
    BY <1>6, <1>9, <2>1 DEF Meets, Matches
<1>11. Matches(feed, known', tidSlot', slots', After(feed, v, d))
  BY <1>2, <1>6, <1>9, <1>10 DEF Matches, IdSlot
<1>12. RouterOK'
  BY <1>1, <1>2, <1>6, <1>7 DEF RouterOK, Everything, Meets
<1>. QED
  BY <1>6, <1>7, <1>11, <1>12

\* A message of a template, whose id the Router knows, is decoded as it was
\* meant, and its slot is right, if the slot was right or the value is sent.
LEMMA MessageArrives ==
  ASSUME NEW v, NEW d, Meets(v, d), Arrive(d), d.id \in DOMAIN feed, IdIsKnown(d)
  PROVE  /\ RouterOK'
         /\ Matches(feed, known', tidSlot', slots', After(feed, v, d))
         /\ meant' # NoClaim => got' = meant'
<1>. DEFINE f == feed[d.id]
            l == v.logs[d.id]
            o == Outcome(feed, v, d)
            k == Remember(l, o)
            res == DecodeInteger(d.body, f, slots[d.id])
<1>1. /\ feed \in Feeds /\ Sent(feed, v, d) /\ feed' = feed /\ IsView(feed, v)
      /\ Legal(f, slots[d.id]) /\ slots = [t \in DOMAIN feed |-> slots[t]]
      /\ \A t \in DOMAIN feed : Legal(feed[t], slots[t])
      /\ known \subseteq Everything
      /\ d.again \in BOOLEAN
  BY DEF Meets, RouterOK, Arrive
<1>2. /\ ResetID \notin DOMAIN feed /\ Foreign \notin DOMAIN feed
      /\ d.id \in Uint64 \ {ResetID} /\ d.id # NoId /\ f \in AllFields
  BY <1>1, SentIds, FeedFacts
<1>3. /\ IsWire(d.body)
      /\ d.means = Result("message", d.id, o.present, o.val)
  BY <1>1, SentIds DEF Sent, Wires, IsWire
<1>4. /\ After(feed, v, d).id = d.id
      /\ \A t \in DOMAIN feed \ {d.id} : After(feed, v, d).logs[t] = v.logs[t]
      /\ HasHistory(f, l) /\ o.err = NoError
      /\ After(feed, v, d).logs[d.id] = k
  BY <1>1, <1>2, AfterIsView
<1>5. o = Promised(f, l, d.body)
  BY DEF Outcome
<1>6. /\ tidSlot' = Assign(d.id) /\ slots' = [slots EXCEPT ![d.id] = res.slot]
      /\ got' = IF res.err # NoError THEN Refusal
                ELSE Result("message", d.id, res.present, res.val)
  <2>. DEFINE r == DecodeUint(d.wire, templateId, tidSlot)
  <2>1. r.err = NoError /\ r.val = d.id /\ r.slot = Assign(d.id) /\ r.wire = d.body
    BY KnownIdIsRead
  <2>2. DecodeControl(r) \/ DecodeRefused(r) \/ DecodeBody(r)
    BY DEF Arrive, Decode
  <2>. HIDE DEF r, res
  <2>3. DecodeBody(r)
    BY <1>2, <2>1, <2>2 DEF DecodeControl, DecodeRefused
  <2>. QED
    BY <2>1, <2>3 DEF DecodeBody, res
<1>. DEFINE sound == (d.id \in known \/ Establishes(d)) /\ (d.again => Repeatable(d))
<1>7. /\ meant' # NoClaim => sound /\ meant' = d.means
      /\ d.id \in known' => sound
      /\ \A t \in known' \cap DOMAIN feed : t # d.id => t \in known
      /\ known' \subseteq Everything
  <2>1. KnownAfter(d) = known \cup {TheId} \cup (IF Establishes(d) THEN {d.id} ELSE {})
    BY <1>2 DEF KnownAfter
  <2>2. TheId \notin DOMAIN feed
    BY <1>1, FeedFacts DEF TheId, NoId
  <2>3. Establishes(d) => Repeatable(d)
    BY DEF Repeatable
  <2>4. Sound(d) => sound
    BY <1>2 DEF Sound
  <2>5. /\ meant' = IF Sound(d) THEN d.means ELSE NoClaim
        /\ known' = IF d.again /\ ~Repeatable(d) THEN KnownAfter(d) \ {d.id} ELSE KnownAfter(d)
    BY DEF Arrive
  <2>. QED
    BY <1>1, <2>1, <2>2, <2>3, <2>4, <2>5 DEF Everything, TheId
<1>8. ASSUME sound
      PROVE  Visible(res) = o /\ Agree(f, res.slot, k)
  <2>1. \/ Agree(f, slots[d.id], l)
        \/ Agree(f, slots[d.id], k) /\ f.op \in {"None", "Constant", "Default", "Tail", "Copy"}
        \/ f.op \in {"Copy", "Increment"} /\ PresenceBit(d.body)
    <3>1. CASE Establishes(d)
      BY <3>1 DEF Establishes
    <3>2. CASE ~Establishes(d) /\ ~d.again
      BY <1>8, <3>2 DEF Meets, Matches
    <3>3. CASE ~Establishes(d) /\ d.again
      <4>1. f.op \in {"None", "Constant", "Default", "Tail", "Copy"}
        BY <1>2, <1>8, <3>3 DEF Repeatable, Memoryless
      <4>2. Agree(f, slots[d.id], After(feed, v, d).logs[d.id])
        BY <1>8, <3>3 DEF Meets, Matches
      <4>. QED
        BY <1>4, <4>1, <4>2
    <3>. QED
      BY <3>1, <3>2, <3>3
  <2>. HIDE DEF f, l, o, k, res
  <2>2. CASE Agree(f, slots[d.id], l)
    BY <1>1, <1>2, <1>3, <1>4, <1>5, <2>2, MessageIsDecoded DEF k, res
  <2>3. CASE Agree(f, slots[d.id], k) /\ f.op \in {"None", "Constant", "Default", "Tail", "Copy"}
    BY <1>1, <1>2, <1>3, <1>4, <1>5, <2>3, MessageIsDecoded DEF k, res
  <2>4. CASE f.op \in {"Copy", "Increment"} /\ PresenceBit(d.body)
    BY <1>1, <1>2, <1>3, <1>4, <1>5, <2>4, MessageIsDecoded DEF k, res
  <2>. QED
    BY <2>1, <2>2, <2>3, <2>4
<1>9. Legal(f, res.slot)
  BY <1>1, <1>2, LegalAfter
<1>. HIDE DEF f, l, o, k, res, sound
<1>10. slots' = [t \in DOMAIN feed |-> IF t = d.id THEN res.slot ELSE slots[t]]
  BY <1>1, <1>6
<1>11. Matches(feed, known', tidSlot', slots', After(feed, v, d))
  <2>1. ASSUME NEW t \in known' \cap DOMAIN feed
        PROVE  Agree(feed[t], slots'[t], After(feed, v, d).logs[t])
    <3>1. CASE t = d.id
      BY <1>4, <1>7, <1>8, <1>10, <3>1 DEF f
    <3>2. CASE t # d.id
      <4>1. t \in known /\ slots'[t] = slots[t] /\ After(feed, v, d).logs[t] = v.logs[t]
        BY <1>4, <1>7, <1>10, <3>2
      <4>. QED
        BY <4>1 DEF Meets, Matches
    <3>. QED
      BY <3>1, <3>2
  <2>. QED
    BY <1>2, <1>4, <1>6, <2>1 DEF Matches, IdSlot
<1>12. RouterOK'
  <2>1. \A t \in DOMAIN feed : Legal(feed[t], slots'[t])
    BY <1>1, <1>9, <1>10 DEF f
  <2>. QED
    BY <1>1, <1>2, <1>6, <1>7, <1>10, <2>1 DEF RouterOK, Everything
<1>13. ASSUME meant' # NoClaim
       PROVE  got' = meant'
  <2>1. Visible(res) = o /\ meant' = d.means
    BY <1>7, <1>8, <1>13
  <2>2. res.present = o.present /\ res.val = o.val /\ res.err = o.err
    BY <2>1 DEF Visible, Returned
  <2>. QED
    BY <1>3, <1>4, <1>6, <2>1, <2>2
<1>. QED
  BY <1>11, <1>12, <1>13

\* A message whose id the Router does not know may be decoded as one of another
\* template, and then spoils no more than the slot of that one.
LEMMA UnknownIdArrives ==
  ASSUME NEW v, NEW d, Meets(v, d), Arrive(d), ~IdIsKnown(d)
  PROVE  /\ RouterOK'
         /\ Matches(feed, known', tidSlot', slots', After(feed, v, d))
         /\ meant' # NoClaim => got' = meant'
<1>1. /\ feed \in Feeds /\ Sent(feed, v, d) /\ feed' = feed /\ IsView(feed, v)
      /\ slots = [t \in DOMAIN feed |-> slots[t]]
      /\ \A t \in DOMAIN feed : Legal(feed[t], slots[t])
      /\ known \subseteq Everything
      /\ tidSlot = UndefinedSlot \/ \E i \in Uint64 \ {ResetID} : tidSlot = Assign(i)
  BY DEF Meets, RouterOK, Arrive
<1>2. /\ d.sends = FALSE /\ TheId \notin known
      /\ d.body \in Wires /\ d.wire = Framed(d.id, FALSE, d.body)
      /\ d.id # ResetID
  BY <1>1, SentIds DEF IdIsKnown, Sent
<1>3. /\ TheId \notin DOMAIN feed
      /\ \A t \in DOMAIN feed : feed[t] \in AllFields
  BY <1>1, FeedFacts DEF TheId, NoId
<1>. DEFINE r == DecodeUint(d.wire, templateId, tidSlot)
<1>4. /\ r.slot = tidSlot
      /\ tidSlot = UndefinedSlot => r.err # NoError
      /\ tidSlot # UndefinedSlot => r.val = tidSlot.Val /\ r.val # ResetID
  <2>1. tidSlot = UndefinedSlot \/ \E i : tidSlot = Assign(i)
    BY <1>1
  <2>2. DecodeUint(Framed(d.id, FALSE, d.body), templateId, tidSlot) =
          IF tidSlot = UndefinedSlot THEN Fail(d.body, tidSlot, ErrD5)
          ELSE Present(d.body, tidSlot, tidSlot.Val)
    BY <1>2, <2>1, OmittedIdIsRead
  <2>3. r = IF tidSlot = UndefinedSlot THEN Fail(d.body, tidSlot, ErrD5)
            ELSE Present(d.body, tidSlot, tidSlot.Val)
    BY <1>2, <2>2
  <2>4. tidSlot # UndefinedSlot => tidSlot.Val # ResetID
    BY <1>1 DEF Assign
  <2>. HIDE DEF r
  <2>. QED
    BY <2>3, <2>4 DEF Fail, Present, ErrD5, NoError
<1>5. DecodeControl(r) \/ DecodeRefused(r) \/ DecodeBody(r)
  BY DEF Arrive, Decode
<1>. HIDE DEF r
<1>6. /\ tidSlot' = tidSlot
      /\ slots' = [t \in DOMAIN feed |-> slots'[t]]
      /\ \A t \in DOMAIN feed : Legal(feed[t], slots'[t])
      /\ \A t \in DOMAIN feed : t # tidSlot.Val => slots'[t] = slots[t]
  <2>1. CASE DecodeControl(r)
    BY <1>4, <2>1 DEF DecodeControl
  <2>2. CASE DecodeRefused(r)
    BY <1>1, <1>4, <2>2 DEF DecodeRefused
  <2>3. CASE DecodeBody(r)
    <3>. DEFINE i == tidSlot.Val
                res == DecodeInteger(r.wire, feed[i], slots[i])
    <3>1. i \in DOMAIN feed /\ tidSlot' = tidSlot /\ slots' = [slots EXCEPT ![i] = res.slot]
      BY <1>4, <2>3 DEF DecodeBody
    <3>2. Legal(feed[i], res.slot)
      BY <1>1, <1>3, <3>1, LegalAfter
    <3>. HIDE DEF i, res
    <3>3. slots' = [t \in DOMAIN feed |-> IF t = i THEN res.slot ELSE slots[t]]
      BY <1>1, <3>1
    <3>. QED
      BY <1>1, <3>1, <3>2, <3>3 DEF i
  <2>. QED
    BY <1>5, <2>1, <2>2, <2>3
<1>7. /\ known' \subseteq Memoryless \cup (known \ {d.id, tidSlot.Val})
      /\ Memoryless \subseteq DOMAIN feed
      /\ meant' = NoClaim
  BY <1>2 DEF Arrive, KnownAfter, Sound, Memoryless
<1>8. /\ IsView(feed, After(feed, v, d))
      /\ \A t \in DOMAIN feed \ {d.id} : After(feed, v, d).logs[t] = v.logs[t]
  BY <1>1, <1>2, AfterIsView
<1>9. ASSUME NEW t \in known' \cap DOMAIN feed
      PROVE  Agree(feed[t], slots'[t], After(feed, v, d).logs[t])
  <2>1. CASE t \in Memoryless
    BY <1>6, <1>8, <2>1, MemorylessAgrees DEF Memoryless, IsView
  <2>2. CASE t \notin Memoryless
    <3>1. t \in known /\ slots'[t] = slots[t] /\ After(feed, v, d).logs[t] = v.logs[t]
      BY <1>6, <1>7, <1>8, <2>2
    <3>. QED
      BY <3>1 DEF Meets, Matches
  <2>. QED
    BY <2>1, <2>2
<1>10. Matches(feed, known', tidSlot', slots', After(feed, v, d))
  BY <1>2, <1>3, <1>7, <1>9 DEF Matches
<1>11. RouterOK'
  BY <1>1, <1>6, <1>7 DEF RouterOK, Everything
<1>. QED
  BY <1>7, <1>10, <1>11

\* Whatever arrives leaves the Router at the view after it.
LEMMA Arrival ==
  ASSUME NEW v, NEW d, Meets(v, d), Arrive(d)
  PROVE  /\ RouterOK'
         /\ Matches(feed, known', tidSlot', slots', After(feed, v, d))
         /\ meant' # NoClaim => got' = meant'
<1>1. feed \in Feeds /\ Sent(feed, v, d)
  BY DEF Meets, RouterOK
<1>2. d.id = ResetID \/ d.id = Foreign \/ d.id \in DOMAIN feed
  BY <1>1, SentIds
<1>. QED
  BY <1>2, ResetArrives, ForeignArrives, MessageArrives, UnknownIdArrives

\* And so does what is lost: what is still known of the Router is as the peer
\* has it, although the peer has gone on.
LEMMA Loss ==
  ASSUME NEW v, NEW d, Meets(v, d), ~d.again, known' = KnownAfterLoss(d),
         UNCHANGED <<feed, tidSlot, slots>>
  PROVE  RouterOK' /\ Matches(feed, known', tidSlot', slots', After(feed, v, d))
<1>1. /\ feed \in Feeds /\ Sent(feed, v, d) /\ feed' = feed /\ IsView(feed, v)
      /\ \A t \in DOMAIN feed : Legal(feed[t], slots[t])
      /\ known \subseteq Everything
      /\ tidSlot' = tidSlot /\ slots' = slots
      /\ Matches(feed, known, tidSlot, slots, v)
  BY DEF Meets, RouterOK
<1>2. /\ TheId \notin DOMAIN feed
      /\ Memoryless \subseteq DOMAIN feed
  BY <1>1, FeedFacts DEF TheId, NoId, Memoryless
<1>3. /\ IsView(feed, After(feed, v, d))
      /\ d.id # ResetID => /\ After(feed, v, d).id = d.id
                           /\ \A t \in DOMAIN feed \ {d.id} :
                                After(feed, v, d).logs[t] = v.logs[t]
      /\ ~d.sends => d.id = v.id
  BY <1>1, AfterIsView DEF Sent
<1>4. /\ \A t \in known' : t \in Memoryless \/ (t \in known /\ d.id # ResetID /\ t # d.id)
      /\ TheId \in known' => TheId \in known /\ ~d.sends /\ d.id # ResetID
  BY <1>2 DEF KnownAfterLoss
<1>5. ASSUME NEW t \in known' \cap DOMAIN feed
      PROVE  Agree(feed[t], slots'[t], After(feed, v, d).logs[t])
  <2>1. CASE t \in Memoryless
    BY <1>1, <1>3, <2>1, MemorylessAgrees DEF Memoryless, IsView
  <2>2. CASE t \notin Memoryless
    <3>1. t \in known /\ After(feed, v, d).logs[t] = v.logs[t]
      BY <1>3, <1>4, <2>2
    <3>. QED
      BY <1>1, <3>1 DEF Matches
  <2>. QED
    BY <2>1, <2>2
<1>6. Matches(feed, known', tidSlot', slots', After(feed, v, d))
  BY <1>1, <1>3, <1>4, <1>5 DEF Matches
<1>7. RouterOK'
  BY <1>1, <1>2, <1>4 DEF RouterOK, Everything, Meets
<1>. QED
  BY <1>6, <1>7

-----------------------------------------------------------------------------
(* The invariant: the datagrams in flight lead from the view that the      *)
(* Router is at to the one that the peer has.                              *)

Chain(views) ==
  /\ \A i \in 1 .. Len(channel) + 1 : IsView(feed, views[i])
  /\ \A i \in 1 .. Len(channel) :
       /\ Sent(feed, views[i], channel[i])
       /\ views[i + 1] = After(feed, views[i], channel[i])
       /\ i > 1 => ~channel[i].again
  /\ views[Len(channel) + 1] = View(sentId, logs)
  /\ Matches(feed, known, tidSlot, slots,
             IF channel # <<>> /\ channel[1].again THEN views[2] ELSE views[1])

IInv ==
  /\ RouterOK
  /\ channel \in Seq(Datagrams) /\ Len(channel) <= MaxInFlight
  /\ WhatIsKnownIsRight
  /\ \E views : Chain(views)

\* The parts of a datagram, and of one that is marked as a repetition.
LEMMA DatagramParts ==
  ASSUME NEW id \in Int, NEW sends \in BOOLEAN, NEW w \in Wires,
         NEW m \in Results
  PROVE  LET d == Datagram(id, sends, w, m)
         IN  /\ d \in Datagrams /\ d.id = id /\ d.sends = sends /\ d.body = w
             /\ d.wire = Framed(id, sends, w) /\ d.means = m /\ d.again = FALSE
<1>1. <<sends>> \o w.pm \in Seq(BOOLEAN) /\ <<id>> \o w.buf \in Seq(Int) /\ w.buf \in Seq(Int)
  <2>1. w.pm \in Seq(BOOLEAN) /\ w.buf \in Seq(Int)
    BY DEF Wires
  <2>2. <<sends>> \in Seq(BOOLEAN) /\ <<id>> \in Seq(Int)
    OBVIOUS
  <2>. QED
    BY <2>1, <2>2, ConcatProperties
<1>2. Framed(id, sends, w) \in Wires
  BY <1>1 DEF Framed, Wires
<1>. DEFINE x == Framed(id, sends, w)
<1>. HIDE DEF x
<1>3. Datagram(id, sends, w, m) =
        [id |-> id, sends |-> sends, wire |-> x, body |-> w, means |-> m, again |-> FALSE]
  BY DEF Datagram, x
<1>4. x \in Wires
  BY <1>2 DEF x
<1>. QED
  BY <1>3, <1>4 DEF Datagrams, x

\* Repeating a datagram changes nothing about it but the mark.
LEMMA RepetitionParts ==
  ASSUME NEW d \in Datagrams
  PROVE  LET e == [d EXCEPT !.again = TRUE]
         IN  /\ e \in Datagrams /\ e.again = TRUE
             /\ \A fd, v : /\ After(fd, v, e) = After(fd, v, d)
                           /\ Sent(fd, v, d) => Sent(fd, v, e)
<1>. DEFINE e == [d EXCEPT !.again = TRUE]
<1>1. /\ e \in Datagrams /\ e.again = TRUE /\ e.id = d.id /\ e.sends = d.sends
      /\ e.wire = d.wire /\ e.body = d.body /\ e.means = d.means
  BY DEF Datagrams
<1>. HIDE DEF e
<1>2. \A fd, v : Outcome(fd, v, e) = Outcome(fd, v, d)
  BY <1>1 DEF Outcome
<1>3. \A fd, v : After(fd, v, e) = After(fd, v, d)
  BY <1>1, <1>2 DEF After
<1>4. ASSUME NEW fd, NEW v, Sent(fd, v, d)
      PROVE  Sent(fd, v, e)
  BY <1>1, <1>2, <1>4 DEF Sent
<1>. QED
  BY <1>1, <1>3, <1>4 DEF e

\* In the chain, the Router meets its next datagram.
LEMMA ChainMeets ==
  ASSUME NEW views, RouterOK, Chain(views), channel \in Seq(Datagrams), channel # <<>>
  PROVE  /\ Meets(views[1], channel[1])
         /\ channel[1] \in Datagrams /\ Head(channel) = channel[1]
         /\ views[2] = After(feed, views[1], channel[1])
<1>1. /\ 1 \in 1 .. Len(channel) /\ 1 \in 1 .. Len(channel) + 1
      /\ channel[1] \in Datagrams /\ Head(channel) = channel[1]
  OBVIOUS
<1>2. channel[1].again \in BOOLEAN
  BY <1>1 DEF Datagrams
<1>3. /\ IsView(feed, views[1]) /\ Sent(feed, views[1], channel[1])
      /\ views[1 + 1] = After(feed, views[1], channel[1])
  BY <1>1 DEF Chain
<1>4. Matches(feed, known, tidSlot, slots,
              IF channel[1].again THEN views[2] ELSE views[1])
  BY DEF Chain
<1>. QED
  BY <1>1, <1>2, <1>3, <1>4 DEF Meets

\* A datagram that leaves the channel takes its view along.
LEMMA ChainShrinks ==
  ASSUME NEW views, Chain(views), channel \in Seq(Datagrams), channel # <<>>,
         Matches(feed, known', tidSlot', slots', views[2]),
         channel' = Tail(channel), UNCHANGED <<feed, peer>>
  PROVE  \E next : Chain(next)'
<1>. DEFINE n == Len(channel)
<1>1. /\ n \in Nat \ {0} /\ channel' \in Seq(Datagrams) /\ Len(channel') = n - 1
      /\ \A i \in 1 .. n - 1 : channel'[i] = channel[i + 1]
  BY HeadTailProperties
<1>2. feed' = feed /\ sentId' = sentId /\ logs' = logs
  BY DEF peer
<1>3. /\ \A i \in 1 .. n + 1 : IsView(feed, views[i])
      /\ \A i \in 1 .. n : /\ Sent(feed, views[i], channel[i])
                           /\ views[i + 1] = After(feed, views[i], channel[i])
                           /\ i > 1 => ~channel[i].again
      /\ views[n + 1] = View(sentId, logs)
  BY DEF Chain
<1>. HIDE DEF n
<1>4. PICK next : \A i \in 1 .. n : next[i] = views[i + 1]
  <2>1. \A i \in 1 .. n : [j \in 1 .. n |-> views[j + 1]][i] = views[i + 1]
    OBVIOUS
  <2>. QED
    BY <2>1
<1>5. \A i \in 1 .. n : IsView(feed', next[i])
  BY <1>1, <1>2, <1>3, <1>4
<1>6. ASSUME NEW i \in 1 .. n - 1
      PROVE  /\ Sent(feed', next[i], channel'[i])
             /\ next[i + 1] = After(feed', next[i], channel'[i])
             /\ ~channel'[i].again
  <2>1. /\ i \in 1 .. n /\ i + 1 \in 1 .. n /\ i + 1 > 1
        /\ channel'[i] = channel[i + 1]
    BY <1>1
  <2>2. next[i] = views[i + 1] /\ next[i + 1] = views[(i + 1) + 1]
    BY <1>4, <2>1
  <2>3. /\ Sent(feed, views[i + 1], channel[i + 1])
        /\ views[(i + 1) + 1] = After(feed, views[i + 1], channel[i + 1])
        /\ ~channel[i + 1].again
    BY <1>3, <2>1
  <2>. QED
    BY <1>2, <2>1, <2>2, <2>3
<1>7. next[(n - 1) + 1] = View(sentId', logs')
  BY <1>1, <1>2, <1>3, <1>4
<1>8. Matches(feed', known', tidSlot', slots',
              IF channel' # <<>> /\ channel'[1].again THEN next[2] ELSE next[1])
  <2>1. channel' # <<>> => 1 \in 1 .. n - 1
    BY <1>1
  <2>2. ~(channel' # <<>> /\ channel'[1].again)
    BY <1>6, <2>1
  <2>. QED
    BY <1>1, <1>2, <1>4, <2>2
<1>9. Chain(next)'
  <2>1. Len(channel') + 1 = n /\ (n - 1) + 1 = n
    BY <1>1
  <2>. QED
    BY <1>1, <1>5, <1>6, <1>7, <1>8, <2>1 DEF Chain
<1>. QED
  BY <1>9

\* A datagram that is sent takes the chain on to the peer's next view.
LEMMA ChainGrows ==
  ASSUME NEW views, RouterOK, Chain(views), channel \in Seq(Datagrams),
         NEW d \in Datagrams, ~d.again, Sent(feed, View(sentId, logs), d),
         channel' = Append(channel, d),
         View(sentId', logs') = After(feed, View(sentId, logs), d),
         UNCHANGED <<feed, tidSlot, slots, known>>
  PROVE  \E next : Chain(next)'
<1>. DEFINE n == Len(channel)
<1>1. /\ n \in Nat /\ channel' \in Seq(Datagrams) /\ Len(channel') = n + 1
      /\ \A i \in 1 .. n : channel'[i] = channel[i]
      /\ channel'[n + 1] = d
      /\ channel = <<>> <=> n = 0
  BY AppendProperties
<1>2. feed' = feed /\ tidSlot' = tidSlot /\ slots' = slots /\ known' = known /\ feed \in Feeds
  BY DEF RouterOK
<1>3. /\ \A i \in 1 .. n + 1 : IsView(feed, views[i])
      /\ \A i \in 1 .. n : /\ Sent(feed, views[i], channel[i])
                           /\ views[i + 1] = After(feed, views[i], channel[i])
                           /\ i > 1 => ~channel[i].again
      /\ views[n + 1] = View(sentId, logs)
      /\ Matches(feed, known, tidSlot, slots,
                 IF channel # <<>> /\ channel[1].again THEN views[2] ELSE views[1])
  BY DEF Chain
<1>. HIDE DEF n
<1>4. PICK next : /\ \A i \in 1 .. n + 1 : next[i] = views[i]
                  /\ next[n + 2] = View(sentId', logs')
  <2>1. PICK last : last = View(sentId', logs')
    OBVIOUS
  <2>. DEFINE f == [i \in 1 .. n + 2 |-> IF i = n + 2 THEN last ELSE views[i]]
  <2>2. (\A i \in 1 .. n + 1 : f[i] = views[i]) /\ f[n + 2] = last
    BY <1>1
  <2>. QED
    BY <2>1, <2>2
<1>5. IsView(feed, View(sentId', logs'))
  BY <1>1, <1>2, <1>3, AfterIsView
<1>6. \A i \in 1 .. n + 2 : IsView(feed, next[i])
  BY <1>1, <1>3, <1>4, <1>5
<1>7. ASSUME NEW i \in 1 .. n + 1
      PROVE  /\ Sent(feed, next[i], channel'[i])
             /\ next[i + 1] = After(feed, next[i], channel'[i])
             /\ i > 1 => ~channel'[i].again
  <2>1. CASE i = n + 1
    <3>1. next[i] = View(sentId, logs) /\ next[i + 1] = View(sentId', logs') /\ channel'[i] = d
      <4>1. i + 1 = n + 2
        BY <1>1, <2>1
      <4>. QED
        BY <1>1, <1>3, <1>4, <2>1, <4>1
    <3>. QED
      BY <3>1
  <2>2. CASE i # n + 1
    <3>1. i \in 1 .. n /\ i + 1 \in 1 .. n + 1
      BY <1>1, <2>2
    <3>2. next[i] = views[i] /\ next[i + 1] = views[i + 1] /\ channel'[i] = channel[i]
      BY <1>1, <1>4, <3>1
    <3>. QED
      BY <1>3, <3>1, <3>2
  <2>. QED
    BY <2>1, <2>2
<1>8. Matches(feed, known, tidSlot, slots,
              IF channel' # <<>> /\ channel'[1].again THEN next[2] ELSE next[1])
  <2>1. CASE n = 0
    <3>1. channel'[1] = d /\ next[1] = views[1]
      BY <1>1, <1>4, <2>1
    <3>. QED
      BY <1>1, <1>3, <2>1, <3>1
  <2>2. CASE n # 0
    <3>1. 1 \in 1 .. n /\ 1 \in 1 .. n + 1 /\ 2 \in 1 .. n + 1
      BY <1>1, <2>2
    <3>2. /\ channel'[1] = channel[1] /\ next[1] = views[1] /\ next[2] = views[2]
          /\ channel' # <<>> /\ channel # <<>>
      BY <1>1, <1>4, <2>2, <3>1
    <3>. QED
      BY <1>3, <3>2
  <2>. QED
    BY <2>1, <2>2
<1>9. Chain(next)'
  <2>1. Len(channel') = n + 1 /\ (n + 1) + 1 = n + 2
    BY <1>1
  <2>. QED
    BY <1>2, <1>4, <1>6, <1>7, <1>8, <2>1 DEF Chain
<1>. QED
  BY <1>9

\* A datagram that is repeated stays, and is marked.
LEMMA ChainRepeats ==
  ASSUME NEW views, Chain(views), channel \in Seq(Datagrams), channel # <<>>,
         Matches(feed, known', tidSlot', slots', views[2]),
         channel' = [channel EXCEPT ![1].again = TRUE], UNCHANGED <<feed, peer>>
  PROVE  Chain(views)' /\ channel' \in Seq(Datagrams) /\ Len(channel') = Len(channel)
<1>. DEFINE n == Len(channel)
<1>1. PICK e : e = [channel[1] EXCEPT !.again = TRUE]
  OBVIOUS
<1>2. n \in Nat /\ 1 \in 1 .. n /\ channel[1] \in Datagrams
  OBVIOUS
<1>3. /\ e \in Datagrams /\ e.again = TRUE
      /\ \A fd, v : /\ After(fd, v, e) = After(fd, v, channel[1])
                    /\ Sent(fd, v, channel[1]) => Sent(fd, v, e)
  BY <1>1, <1>2, RepetitionParts
<1>4. /\ channel' \in Seq(Datagrams) /\ Len(channel') = n
      /\ channel'[1] = e
      /\ \A i \in 1 .. n : i # 1 => channel'[i] = channel[i]
  <2>1. channel' = [channel EXCEPT ![1] = e]
    BY <1>1
  <2>2. ASSUME NEW s \in Seq(Datagrams), 1 \in 1 .. Len(s)
        PROVE  LET z == [s EXCEPT ![1] = e]
               IN  /\ z \in Seq(Datagrams) /\ Len(z) = Len(s) /\ z[1] = e
                   /\ \A i \in 1 .. Len(s) : i # 1 => z[i] = s[i]
    BY <1>3, <2>2, ExceptSeq
  <2>. QED
    BY <1>2, <2>1, <2>2
<1>5. feed' = feed /\ sentId' = sentId /\ logs' = logs
  BY DEF peer
<1>6. /\ \A i \in 1 .. n + 1 : IsView(feed, views[i])
      /\ \A i \in 1 .. n : /\ Sent(feed, views[i], channel[i])
                           /\ views[i + 1] = After(feed, views[i], channel[i])
                           /\ i > 1 => ~channel[i].again
      /\ views[n + 1] = View(sentId, logs)
  BY DEF Chain
<1>. HIDE DEF n
<1>7. ASSUME NEW i \in 1 .. n
      PROVE  /\ Sent(feed, views[i], channel'[i])
             /\ views[i + 1] = After(feed, views[i], channel'[i])
             /\ i > 1 => ~channel'[i].again
  <2>1. CASE i = 1
    <3>1. /\ Sent(feed, views[1], channel[1])
          /\ views[1 + 1] = After(feed, views[1], channel[1])
      BY <1>2, <1>6
    <3>2. Sent(feed, views[1], e) /\ views[1 + 1] = After(feed, views[1], e)
      BY <1>3, <3>1
    <3>3. channel'[i] = e /\ views[i] = views[1] /\ views[i + 1] = views[1 + 1] /\ ~(i > 1)
      BY <1>4, <2>1
    <3>. QED
      BY <3>2, <3>3
  <2>2. CASE i # 1
    BY <1>4, <1>6, <2>2
  <2>. QED
    BY <2>1, <2>2
<1>8. channel' # <<>> /\ channel'[1].again
  BY <1>2, <1>3, <1>4
<1>9. Chain(views)'
  <2>1. \A i \in 1 .. Len(channel') + 1 : IsView(feed', views[i])
    BY <1>4, <1>5, <1>6
  <2>2. views[Len(channel') + 1] = View(sentId', logs')
    BY <1>4, <1>5, <1>6
  <2>3. \A i \in 1 .. Len(channel') :
          /\ Sent(feed', views[i], channel'[i])
          /\ views[i + 1] = After(feed', views[i], channel'[i])
          /\ i > 1 => ~channel'[i].again
    BY <1>4, <1>5, <1>7
  <2>. QED
    BY <1>8, <2>1, <2>2, <2>3 DEF Chain
<1>. QED
  BY <1>4, <1>9 DEF n

-----------------------------------------------------------------------------
(* The invariant holds at first, and is kept.                              *)

\* Nothing has been sent yet, and everything is known.
LEMMA FirstInvariant == Init => IInv
<1>. SUFFICES ASSUME Init
              PROVE  IInv
  OBVIOUS
<1>1. /\ feed \in Feeds /\ channel = <<>> /\ tidSlot = UndefinedSlot
      /\ slots = [t \in DOMAIN feed |-> UndefinedSlot] /\ known = Everything
      /\ meant = NoClaim
  BY DEF Init, NoSlots
<1>2. View(sentId, logs) = FirstView(feed)
  BY DEF Init, FirstView
<1>3. /\ IsView(feed, FirstView(feed))
      /\ Matches(feed, known, UndefinedSlot, slots, FirstView(feed))
      /\ \A t \in DOMAIN feed : Legal(feed[t], slots[t])
  BY <1>1, FirstViewMatches
<1>4. RouterOK
  BY <1>1, <1>3 DEF RouterOK
<1>5. PICK views : views = [i \in {1} |-> FirstView(feed)]
  OBVIOUS
<1>6. views[1] = FirstView(feed)
  BY <1>5
<1>7. Len(channel) = 0 /\ channel \in Seq(Datagrams) /\ MaxInFlight \in Nat
  BY <1>1, FeedAssumption
<1>8. Chain(views)
  <2>1. 1 .. 0 + 1 = {1} /\ 1 .. 0 = {} /\ 0 + 1 = 1
    OBVIOUS
  <2>2. Matches(feed, known, tidSlot, slots, views[1])
    BY <1>1, <1>3, <1>6
  <2>. QED
    BY <1>1, <1>2, <1>3, <1>6, <1>7, <2>1, <2>2 DEF Chain
<1>. QED
  BY <1>1, <1>4, <1>7, <1>8 DEF IInv, WhatIsKnownIsRight

\* A message of a template is one that the peer may send.
LEMMA MessageIsSent ==
  ASSUME IInv, NEW t \in DOMAIN feed, NEW sends \in BOOLEAN, SendMessage(t, sends)
  PROVE  IInv'
<1>. PICK views : Chain(views)
  BY DEF IInv
<1>. PICK w \in Encodings(feed[t], logs[t]) :
       LET o == Promised(feed[t], logs[t], w)
       IN  /\ Send(Datagram(t, sends, w, Result("message", t, o.present, o.val)))
           /\ logs' = [logs EXCEPT ![t] = Remember(@, o)]
  BY DEF SendMessage
<1>. DEFINE o == Promised(feed[t], logs[t], w)
            m == Result("message", t, o.present, o.val)
<1>. PICK d : d = Datagram(t, sends, w, m)
  OBVIOUS
<1>1. /\ sends \/ sentId = t
      /\ sentId' = t /\ logs' = [logs EXCEPT ![t] = Remember(@, o)]
      /\ Len(channel) < MaxInFlight /\ channel' = Append(channel, d)
      /\ UNCHANGED <<feed, tidSlot, slots, got, meant, known>>
  BY DEF SendMessage, Send
<1>2. /\ RouterOK /\ feed \in Feeds /\ channel \in Seq(Datagrams)
      /\ t \in Int /\ t # ResetID /\ t # Foreign
  BY FeedFacts DEF IInv, RouterOK
<1>3. w \in Wires /\ o.err = NoError
  <2>1. w \in Inputs(feed[t]) /\ o.err = NoError
    BY DEF Encodings
  <2>2. IntegerEntities(feed[t]) \subseteq Int
    BY WidthAssumption DEF IntegerEntities
  <2>3. {<<>>, <<TRUE>>, <<FALSE>>} \subseteq Seq(BOOLEAN)
    OBVIOUS
  <2>4. {<<>>} \cup {<<e>> : e \in IntegerEntities(feed[t])} \subseteq Seq(Int)
    <3>1. \A e \in Int : <<e>> \in Seq(Int)
      OBVIOUS
    <3>2. <<>> \in Seq(Int)
      OBVIOUS
    <3>. QED
      BY <2>2, <3>1, <3>2, Zenon
  <2>. QED
    BY <2>1, <2>3, <2>4 DEF Inputs, Wires
<1>4. IsView(feed, View(sentId, logs))
  <2>1. Len(channel) + 1 \in 1 .. Len(channel) + 1
    BY <1>2
  <2>. QED
    BY <2>1 DEF Chain
<1>5. View(sentId, logs).id = sentId /\ View(sentId, logs).logs = logs
  BY DEF View
<1>6. o.present \in BOOLEAN /\ o.val \in Int
  <2>1. HasHistory(feed[t], logs[t]) /\ IsWire(w) /\ feed[t] \in AllFields
    BY <1>2, <1>3, <1>4, <1>5, FeedFacts DEF IsView, IsWire, Wires
  <2>2. o \in Outcomes(feed[t])
    BY <1>3, <2>1, HistoryGoesOn
  <2>3. Values(feed[t]) \subseteq Int
    BY WidthAssumption DEF Values, Uint64, Int64
  <2>. HIDE DEF o
  <2>. QED
    BY <2>2, <2>3 DEF Outcomes
<1>. HIDE DEF o
<1>7. m \in Results
  BY <1>2, <1>6 DEF Result, Results
<1>. HIDE DEF m
<1>8. /\ d \in Datagrams /\ d.id = t /\ d.sends = sends /\ d.body = w
      /\ d.wire = Framed(t, sends, w) /\ d.means = m /\ d.again = FALSE
  <2>1. LET x == Datagram(t, sends, w, m)
        IN  /\ x \in Datagrams /\ x.id = t /\ x.sends = sends /\ x.body = w
            /\ x.wire = Framed(t, sends, w) /\ x.means = m /\ x.again = FALSE
    <3>1. t \in Int /\ w \in Wires /\ m \in Results /\ sends \in BOOLEAN
      BY <1>2, <1>3, <1>7
    <3>2. \A id \in Int, b \in BOOLEAN, y \in Wires, z \in Results :
            LET x == Datagram(id, b, y, z)
            IN  /\ x \in Datagrams /\ x.id = id /\ x.sends = b /\ x.body = y
                /\ x.wire = Framed(id, b, y) /\ x.means = z /\ x.again = FALSE
      BY DatagramParts
    <3>. QED
      BY <3>1, <3>2
  <2>. QED
    BY <2>1
<1>9. Outcome(feed, View(sentId, logs), d) = o
  BY <1>5, <1>8 DEF Outcome, o
<1>10. Sent(feed, View(sentId, logs), d)
  BY <1>1, <1>3, <1>5, <1>8, <1>9 DEF Sent, m
<1>11. View(sentId', logs') = After(feed, View(sentId, logs), d)
  BY <1>1, <1>2, <1>5, <1>8, <1>9 DEF After
<1>12. \E next : Chain(next)'
  BY <1>1, <1>2, <1>8, <1>10, <1>11, ChainGrows
<1>13. RouterOK' /\ WhatIsKnownIsRight'
  BY <1>1 DEF IInv, RouterOK, WhatIsKnownIsRight, Everything
<1>14. channel' \in Seq(Datagrams) /\ Len(channel') <= MaxInFlight
  <2>1. Len(channel') = Len(channel) + 1 /\ channel' \in Seq(Datagrams)
    BY <1>1, <1>2, <1>8, AppendProperties
  <2>. QED
    BY <1>1, <1>2, <2>1, FeedAssumption
<1>. QED
  BY <1>12, <1>13, <1>14 DEF IInv

\* So are the reset and a message of an unknown template, which carry nothing
\* of a template's.
LEMMA FrameIsSent ==
  ASSUME IInv, NEW id, NEW sends \in BOOLEAN, NEW m \in Results,
         Send(Datagram(id, sends, NoInput, m)),
         \/ id = ResetID /\ sends /\ m = Control
         \/ id = Foreign /\ m = Refusal,
         sends \/ sentId = id,
         View(sentId', logs') =
           IF id = ResetID THEN FirstView(feed) ELSE View(Foreign, logs),
         UNCHANGED <<feed, tidSlot, slots, got, meant, known>>
  PROVE  IInv'
<1>. PICK views : Chain(views)
  BY DEF IInv
<1>. PICK d : d = Datagram(id, sends, NoInput, m)
  OBVIOUS
<1>1. Len(channel) < MaxInFlight /\ channel' = Append(channel, d)
  BY DEF Send
<1>2. /\ RouterOK /\ channel \in Seq(Datagrams) /\ id \in Int /\ ResetID # Foreign
  BY FeedFacts DEF IInv, RouterOK
<1>3. NoInput \in Wires
  BY DEF NoInput, Wires
<1>4. /\ d \in Datagrams /\ d.id = id /\ d.sends = sends /\ d.body = NoInput
      /\ d.wire = Framed(id, sends, NoInput) /\ d.means = m /\ d.again = FALSE
  <2>1. \A i \in Int, b \in BOOLEAN, y \in Wires, z \in Results :
          LET x == Datagram(i, b, y, z)
          IN  /\ x \in Datagrams /\ x.id = i /\ x.sends = b /\ x.body = y
              /\ x.wire = Framed(i, b, y) /\ x.means = z /\ x.again = FALSE
    BY DatagramParts
  <2>. QED
    BY <1>2, <1>3, <2>1
<1>5. View(sentId, logs).id = sentId /\ View(sentId, logs).logs = logs
  BY DEF View
<1>6. Sent(feed, View(sentId, logs), d)
  BY <1>3, <1>4, <1>5 DEF Sent
<1>7. View(sentId', logs') = After(feed, View(sentId, logs), d)
  BY <1>2, <1>4, <1>5 DEF After
<1>8. \E next : Chain(next)'
  BY <1>1, <1>2, <1>4, <1>6, <1>7, ChainGrows
<1>9. RouterOK' /\ WhatIsKnownIsRight'
  BY DEF IInv, RouterOK, WhatIsKnownIsRight, Everything
<1>10. channel' \in Seq(Datagrams) /\ Len(channel') <= MaxInFlight
  <2>1. Len(channel') = Len(channel) + 1 /\ channel' \in Seq(Datagrams)
    BY <1>1, <1>2, <1>4, AppendProperties
  <2>. QED
    BY <1>1, <1>2, <2>1, FeedAssumption
<1>. QED
  BY <1>8, <1>9, <1>10 DEF IInv

\* A datagram that arrives for the last time.
LEMMA DeliverKeeps == IInv /\ Deliver => IInv'
<1>. SUFFICES ASSUME IInv, Deliver
              PROVE  IInv'
  OBVIOUS
<1>. PICK views : Chain(views)
  BY DEF IInv
<1>. PICK d : d = channel[1]
  OBVIOUS
<1>1. RouterOK /\ channel \in Seq(Datagrams) /\ channel # <<>> /\ Len(channel) <= MaxInFlight
  BY DEF IInv, Deliver
<1>2. /\ Meets(views[1], d) /\ Head(channel) = d
      /\ views[2] = After(feed, views[1], d)
  BY <1>1, ChainMeets
<1>3. Arrive(d) /\ channel' = Tail(channel) /\ UNCHANGED <<feed, peer>>
  BY <1>2 DEF Deliver, Arrive
<1>4. /\ RouterOK'
      /\ Matches(feed, known', tidSlot', slots', views[2])
      /\ meant' # NoClaim => got' = meant'
  BY <1>2, <1>3, Arrival
<1>5. \E next : Chain(next)'
  BY <1>1, <1>3, <1>4, ChainShrinks
<1>6. channel' \in Seq(Datagrams) /\ Len(channel') <= MaxInFlight
  <2>1. Len(channel') = Len(channel) - 1 /\ channel' \in Seq(Datagrams) /\ Len(channel) \in Nat
    BY <1>1, <1>3, HeadTailProperties
  <2>. QED
    BY <1>1, <2>1, FeedAssumption
<1>. QED
  BY <1>4, <1>5, <1>6 DEF IInv, WhatIsKnownIsRight

\* A datagram that will arrive again.
LEMMA RepeatKeeps == IInv /\ Repeat => IInv'
<1>. SUFFICES ASSUME IInv, Repeat
              PROVE  IInv'
  OBVIOUS
<1>. PICK views : Chain(views)
  BY DEF IInv
<1>. PICK d : d = channel[1]
  OBVIOUS
<1>1. RouterOK /\ channel \in Seq(Datagrams) /\ channel # <<>> /\ Len(channel) <= MaxInFlight
  BY DEF IInv, Repeat
<1>2. /\ Meets(views[1], d) /\ Head(channel) = d
      /\ views[2] = After(feed, views[1], d)
  BY <1>1, ChainMeets
<1>3. /\ Arrive(d) /\ channel' = [channel EXCEPT ![1].again = TRUE]
      /\ UNCHANGED <<feed, peer>>
  BY <1>2 DEF Repeat, Arrive
<1>4. /\ RouterOK'
      /\ Matches(feed, known', tidSlot', slots', views[2])
      /\ meant' # NoClaim => got' = meant'
  BY <1>2, <1>3, Arrival
<1>5. Chain(views)' /\ channel' \in Seq(Datagrams) /\ Len(channel') = Len(channel)
  BY <1>1, <1>3, <1>4, ChainRepeats
<1>. QED
  BY <1>1, <1>4, <1>5 DEF IInv, WhatIsKnownIsRight

\* A datagram that is lost.
LEMMA LoseKeeps == IInv /\ Lose => IInv'
<1>. SUFFICES ASSUME IInv, Lose
              PROVE  IInv'
  OBVIOUS
<1>. PICK views : Chain(views)
  BY DEF IInv
<1>. PICK d : d = channel[1]
  OBVIOUS
<1>1. RouterOK /\ channel \in Seq(Datagrams) /\ channel # <<>> /\ Len(channel) <= MaxInFlight
  BY DEF IInv, Lose
<1>2. /\ Meets(views[1], d) /\ Head(channel) = d
      /\ views[2] = After(feed, views[1], d)
  BY <1>1, ChainMeets
<1>3. /\ ~d.again /\ known' = KnownAfterLoss(d) /\ channel' = Tail(channel)
      /\ UNCHANGED <<feed, peer>> /\ UNCHANGED <<feed, tidSlot, slots>>
      /\ UNCHANGED <<got, meant>>
  BY <1>2 DEF Lose
<1>4. RouterOK' /\ Matches(feed, known', tidSlot', slots', views[2])
  BY <1>2, <1>3, Loss
<1>5. \E next : Chain(next)'
  BY <1>1, <1>3, <1>4, ChainShrinks
<1>6. channel' \in Seq(Datagrams) /\ Len(channel') <= MaxInFlight
  <2>1. Len(channel') = Len(channel) - 1 /\ channel' \in Seq(Datagrams) /\ Len(channel) \in Nat
    BY <1>1, <1>3, HeadTailProperties
  <2>. QED
    BY <1>1, <2>1, FeedAssumption
<1>. QED
  BY <1>3, <1>4, <1>5, <1>6 DEF IInv, WhatIsKnownIsRight

\* Every step keeps the invariant.
LEMMA InvariantKept == IInv /\ [Next]_vars => IInv'
<1>. SUFFICES ASSUME IInv, [Next]_vars
              PROVE  IInv'
  OBVIOUS
<1>1. ASSUME NEW t \in DOMAIN feed, NEW sends \in BOOLEAN, SendMessage(t, sends)
      PROVE  IInv'
  BY <1>1, MessageIsSent
<1>2. ASSUME NEW sends \in BOOLEAN, SendForeign(sends)
      PROVE  IInv'
  <2>1. /\ sends \/ sentId = Foreign
        /\ Send(Datagram(Foreign, sends, NoInput, Refusal))
        /\ sentId' = Foreign /\ logs' = logs
        /\ UNCHANGED <<feed, tidSlot, slots, got, meant, known>>
    BY <1>2 DEF SendForeign
  <2>2. Refusal \in Results
    BY DEF Refusal, Result, Results, NoId
  <2>3. View(sentId', logs') = IF Foreign = ResetID THEN FirstView(feed) ELSE View(Foreign, logs)
    BY <2>1, FeedAssumption
  <2>. QED
    BY <2>1, <2>2, <2>3, FrameIsSent
<1>3. CASE SendReset
  <2>1. /\ Send(Datagram(ResetID, TRUE, NoInput, Control))
        /\ View(sentId', logs') = FirstView(feed)
        /\ UNCHANGED <<feed, tidSlot, slots, got, meant, known>>
    BY <1>3 DEF SendReset, FirstView
  <2>2. Control \in Results
    BY DEF Control, Result, Results, NoId
  <2>. QED
    BY <2>1, <2>2, FrameIsSent
<1>4. CASE Deliver
  BY <1>4, DeliverKeeps
<1>5. CASE Repeat
  BY <1>5, RepeatKeeps
<1>6. CASE Lose
  BY <1>6, LoseKeeps
<1>7. CASE UNCHANGED vars
  <2>1. UNCHANGED <<feed, sentId, logs, channel, tidSlot, slots, got, meant, known>>
    BY <1>7 DEF vars
  <2>2. RouterOK' /\ WhatIsKnownIsRight'
    BY <2>1 DEF IInv, RouterOK, WhatIsKnownIsRight, Everything
  <2>3. ASSUME NEW views, Chain(views)
        PROVE  Chain(views)'
    BY <2>1, <2>3 DEF Chain
  <2>. QED
    BY <2>1, <2>2, <2>3 DEF IInv
<1>. QED
  BY <1>1, <1>2, <1>3, <1>4, <1>5, <1>6, <1>7 DEF Next

\* The invariant is inductive.
LEMMA Invariance == Spec => []IInv
BY FirstInvariant, InvariantKept, PTL DEF Spec

-----------------------------------------------------------------------------
(* What the runs check, for every template set and every channel.          *)

\* The Router's dictionary stays in its types whatever is lost or repeated, and
\* no entry of a mandatory field is ever emptied.
THEOREM TypesKept == Spec => []TypeOK
<1>1. IInv => TypeOK
  <2>. SUFFICES ASSUME IInv
                PROVE  TypeOK
    OBVIOUS
  <2>. PICK views : Chain(views)
    BY DEF IInv
  <2>1. /\ RouterOK /\ feed \in Feeds /\ Len(channel) <= MaxInFlight
        /\ channel \in Seq(Datagrams)
    BY DEF IInv, RouterOK
  <2>2. IsView(feed, View(sentId, logs))
    <3>1. Len(channel) + 1 \in 1 .. Len(channel) + 1
      BY <2>1
    <3>. QED
      BY <3>1 DEF Chain
  <2>3. sentId \in {NoId, Foreign} \cup DOMAIN feed
    BY <2>2 DEF IsView, View
  <2>4. tidSlot \in Slots(templateId)
    BY <2>1, WidthAssumption
       DEF RouterOK, Slots, States, Values, templateId, UndefinedSlot, Assign, Uint64
  <2>5. \A t \in DOMAIN feed : /\ slots[t] \in Slots(feed[t])
                               /\ slots[t].State = "Empty" => feed[t].optional
    BY <2>1 DEF RouterOK, Legal, EmptyIsLegal
  <2>. QED
    BY <2>1, <2>3, <2>4, <2>5 DEF TypeOK, RouterOK
<1>. QED
  BY <1>1, Invariance, PTL

\* Whatever is lost or repeated: a message that can be relied upon is returned
\* by Decode as the peer meant it.
THEOREM KnownIsRight == Spec => []WhatIsKnownIsRight
<1>1. IInv => WhatIsKnownIsRight
  BY DEF IInv
<1>. QED
  BY <1>1, Invariance, PTL

\* When everything has arrived, each entry of the Router's dictionary that is
\* known is what the peer takes it to be.
THEOREM MemoriesAgreeAlways == Spec => []MemoriesAgree
<1>1. IInv => MemoriesAgree
  <2>. SUFFICES ASSUME IInv, channel = <<>>
                PROVE  /\ TheId \in known =>
                            tidSlot = IF sentId = NoId THEN UndefinedSlot ELSE Assign(sentId)
                       /\ \A t \in known \cap DOMAIN feed :
                            Remembers(feed[t], slots[t], logs[t])
    BY DEF MemoriesAgree
  <2>. PICK views : Chain(views)
    BY DEF IInv
  <2>1. Len(channel) = 0
    OBVIOUS
  <2>2. views[0 + 1] = View(sentId, logs) /\ Matches(feed, known, tidSlot, slots, views[1])
    BY <2>1 DEF Chain
  <2>3. Matches(feed, known, tidSlot, slots, View(sentId, logs))
    BY <2>2
  <2>. QED
    BY <2>3 DEF Matches, View, IdSlot, Agree
<1>. QED
  BY <1>1, Invariance, PTL

-----------------------------------------------------------------------------
(* What can be relied upon is not too little: while nothing is lost or     *)
(* repeated, it is everything.                                             *)

\* The steps of a feed whose channel is perfect.
PerfectNext ==
  \/ \E t \in DOMAIN feed, sends \in BOOLEAN : SendMessage(t, sends)
  \/ \E sends \in BOOLEAN : SendForeign(sends)
  \/ SendReset \/ Deliver

Perfect == known = Everything /\ (channel # <<>> => ~channel[1].again)

\* Sending adds a datagram that has not arrived yet.
LEMMA SendKeepsPerfect ==
  ASSUME IInv, Perfect, NEW id, NEW sends, NEW w, NEW m,
         Send(Datagram(id, sends, w, m)), UNCHANGED <<feed, known>>
  PROVE  Perfect'
<1>. PICK d : d = Datagram(id, sends, w, m)
  OBVIOUS
<1>1. ~d.again /\ channel' = Append(channel, d)
  BY DEF Send, Datagram
<1>2. channel \in Seq(Datagrams)
  BY DEF IInv
<1>3. channel'[1] = IF channel = <<>> THEN d ELSE channel[1]
  BY <1>1, <1>2
<1>. QED
  BY <1>1, <1>3 DEF Perfect, Everything

\* While everything is known, what arrives is decoded as it was meant.
LEMMA PerfectDeliver ==
  ASSUME IInv, Perfect, Deliver
  PROVE  Perfect' /\ got' = Head(channel).means
<1>. PICK views : Chain(views)
  BY DEF IInv
<1>. PICK d : d = channel[1]
  OBVIOUS
<1>1. RouterOK /\ feed \in Feeds /\ channel \in Seq(Datagrams) /\ channel # <<>>
  BY DEF IInv, RouterOK, Deliver
<1>2. Meets(views[1], d) /\ Head(channel) = d /\ d \in Datagrams
  BY <1>1, ChainMeets
<1>3. /\ ~d.again /\ known = Everything
      /\ d.id \in {ResetID, Foreign} \cup DOMAIN feed
  BY <1>1, <1>2, SentIds DEF Perfect, Meets
<1>4. Arrive(d) /\ channel' = Tail(channel) /\ feed' = feed
  BY <1>2 DEF Deliver, Arrive
<1>5. Sound(d) /\ IdIsKnown(d)
  BY <1>3 DEF Sound, IdIsKnown, Everything
<1>6. known' = Everything /\ meant' = d.means
  <2>1. KnownAfter(d) = Everything
    BY <1>3, <1>5 DEF KnownAfter, Everything, Establishes
  <2>. QED
    BY <1>3, <1>4, <1>5, <2>1 DEF Arrive
<1>7. d.means # NoClaim
  BY <1>2 DEF Datagrams, Results, NoClaim, Result
<1>8. got' = d.means
  BY <1>2, <1>4, <1>6, <1>7, Arrival
<1>9. channel' # <<>> => ~channel'[1].again
  <2>1. /\ channel' # <<>> => /\ 2 \in 1 .. Len(channel) /\ 2 > 1
                              /\ channel'[1] = channel[2]
    BY <1>1, <1>4
  <2>. QED
    BY <2>1 DEF Chain
<1>10. Everything' = Everything
  BY <1>4 DEF Everything
<1>. QED
  BY <1>2, <1>6, <1>8, <1>9, <1>10 DEF Perfect

\* On a channel that loses and repeats nothing, every call of Decode returns
\* what the peer meant by the datagram: a message, the reset, or the refusal of
\* a template that the Router does not have.
THEOREM PerfectChannel ==
  Init /\ [][PerfectNext]_vars => [][Deliver => got' = Head(channel).means]_vars
<1>1. Init => IInv /\ Perfect
  BY FirstInvariant DEF Init, Perfect
<1>2. IInv /\ Perfect /\ [PerfectNext]_vars => (IInv /\ Perfect)'
  <2>. SUFFICES ASSUME IInv, Perfect, [PerfectNext]_vars
                PROVE  (IInv /\ Perfect)'
    OBVIOUS
  <2>1. IInv'
    BY InvariantKept DEF PerfectNext, Next
  <2>2. ASSUME NEW t \in DOMAIN feed, NEW sends \in BOOLEAN, SendMessage(t, sends)
        PROVE  Perfect'
    <3>1. PICK w \in Encodings(feed[t], logs[t]) :
            LET o == Promised(feed[t], logs[t], w)
            IN  Send(Datagram(t, sends, w, Result("message", t, o.present, o.val)))
      BY <2>2 DEF SendMessage
    <3>2. UNCHANGED <<feed, known>>
      BY <2>2 DEF SendMessage
    <3>. QED
      BY <3>1, <3>2, SendKeepsPerfect
  <2>3. ASSUME NEW sends \in BOOLEAN, SendForeign(sends)
        PROVE  Perfect'
    <3>1. Send(Datagram(Foreign, sends, NoInput, Refusal)) /\ UNCHANGED <<feed, known>>
      BY <2>3 DEF SendForeign
    <3>. QED
      BY <3>1, SendKeepsPerfect
  <2>4. CASE SendReset
    <3>1. Send(Datagram(ResetID, TRUE, NoInput, Control)) /\ UNCHANGED <<feed, known>>
      BY <2>4 DEF SendReset
    <3>. QED
      BY <2>1, <3>1, SendKeepsPerfect
  <2>5. CASE Deliver
    BY <2>1, <2>5, PerfectDeliver
  <2>6. CASE UNCHANGED vars
    BY <2>1, <2>6 DEF vars, Perfect, Everything
  <2>. QED
    BY <2>1, <2>2, <2>3, <2>4, <2>5, <2>6 DEF PerfectNext
<1>3. IInv /\ Perfect /\ [PerfectNext]_vars => [Deliver => got' = Head(channel).means]_vars
  BY PerfectDeliver
<1>. QED
  BY <1>1, <1>2, <1>3, PTL
=============================================================================
