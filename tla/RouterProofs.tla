---------------------------- MODULE RouterProofs ----------------------------
(***************************************************************************)
(* Theorems about Router, for every set of templates, every feed and every *)
(* bound on a frame.                                                       *)
(*                                                                         *)
(* The argument: the runtime consumes a presence-map bit exactly where the *)
(* generator says that a step claims one, a tail on a number excepted      *)
(* (BitIsReadAsGenerated); that and the contract of DecodeInteger are all  *)
(* a step needs.  The properties are not inductive: what a step writes     *)
(* depends on the activations below it, so StackOK describes them, and Inv *)
(* carries everything together.                                            *)
(*                                                                         *)
(* That the work of a call is bounded needs an account, WorkInv: what each *)
(* running method has still to ask for, added up along the stack, is paid  *)
(* with the byte of its map, and a length without a map with its own byte. *)
(***************************************************************************)
EXTENDS Router, PromiseProofs, FiniteSetTheorems, SequenceTheorems

IsSequence(s) == s \in Seq({s[i] : i \in DOMAIN s})

\* A place that is a sequence, so that a component can be appended to it.
IsPath(p) == IsSequence(p) /\ IsPlace(p)

IsActivation(a) ==
  /\ DOMAIN a = {"seg", "at", "pc", "next", "carried", "used", "from"}
  /\ a.seg \in DOMAIN Segment /\ IsPath(a.at)
  /\ a.pc \in 1 .. Len(Segment[a.seg]) + 1
  /\ a.next \in Nat /\ a.carried \in BOOLEAN /\ a.used \in Nat
  /\ a.from \in 0 .. MaxFrame

\* A map on the wire was read, or a step to come will read it, or nothing ever
\* will: inside its loop a sequence has already read the bit of its length.
BitsAreSpent(a) ==
  /\ ~a.carried => a.used = 0 /\ ~segmentNeedsPMAP(a.seg)
  /\ a.used > 0 => TakesBits(a)
  /\ a.carried /\ TakesBits(a) =>
       \/ a.used > 0
       \/ \E i \in DOMAIN Segment[a.seg] :
            /\ i >= a.pc /\ (i = a.pc => a.next = 0)
            /\ TakesPMAPBit(Segment[a.seg][i])

StackOK ==
  /\ IsSequence(stack)
  /\ \A i \in DOMAIN stack :
       IsActivation(stack[i]) /\ BitsAreSpent(stack[i]) /\ stack[i].seg \in seen

DictOK ==
  /\ DOMAIN dict = Slotted
  /\ \A id \in Slotted : dict[id] \in Slots(At(id).decl)

SlicesOK ==
  /\ \A p \in has \cup DOMAIN len : IsPlace(p)
  /\ DOMAIN len = DOMAIN cap
  /\ \A p \in DOMAIN len : len[p] \in 0 .. cap[p] /\ cap[p] \in Nat

CallOK ==
  /\ tidSlot \in Slots(templateId)
  /\ \A p \in fresh : IsPlace(p)
  /\ left \in 0 .. MaxFrame /\ ret \in Returns
  /\ latest \in Uint64 \cup {NoId} /\ seen \subseteq DOMAIN Segment
  /\ elements \in Nat

Inv ==
  /\ DictOK /\ SlicesOK /\ CallOK /\ StackOK
  /\ RoutedByLatestId /\ DictionaryIsOfThisEpoch

-----------------------------------------------------------------------------
(* Presence-map bits.                                                      *)

\* What the generator decides from a field's declaration alone is what the
\* operator function does to the map, whatever is transmitted and whether or
\* not the decode fails: the bit is consumed exactly when one was claimed, but
\* for a tail.
LEMMA BitIsReadAsGenerated ==
  ASSUME NEW f \in AllFields, NEW s \in Slots(f), NEW b, NEW buf,
         NEW w, w = [pm |-> <<b>>, buf |-> buf]
  PROVE  DecodeInteger(w, f, s).wire.pm =
           IF opUsesPMAPBit(f.op, f.optional) /\ f.op # "Tail" THEN <<>> ELSE <<b>>
<1>1. /\ f.op \in Operators /\ f.optional \in BOOLEAN /\ s.State \in States
      /\ f.type \in {"uint", "int"}
  BY DEF AllFields, Slots
<1>2. AfterBit(w) = [pm |-> <<>>, buf |-> buf]
  BY DEF AfterBit
<1>3. ASSUME NEW x, x \in {w, AfterBit(w)}
      PROVE  /\ ReadUintFor(x, f).wire.pm = x.pm
             /\ ReadIntFor(x, f).wire.pm = x.pm
             /\ readDelta(x, f.optional).wire.pm = x.pm
  <2>1. AfterEntity(x).pm = x.pm
    BY <1>2, <1>3 DEF AfterEntity
  <2>. QED
    BY <2>1 DEF ReadUintFor, ReadIntFor, readDelta, ReadUint, ReadInt, ReadNullableUint,
                ReadNullableInt, UndoNullableShift, ReadEntity
<1>4. ASSUME NEW rd, NEW v, NEW e
      PROVE  /\ DeliverRead(rd, s).wire = rd.wire
             /\ DeliverAndKeep(rd, s).wire = rd.wire
             /\ Fail(rd.wire, v, e).wire = rd.wire
  BY DEF DeliverRead, DeliverAndKeep, Present, Absent, Fail
<1>5. ASSUME NEW x
      PROVE  /\ resolveUintPrevious(x, f, s).wire = x
             /\ resolveIntPrevious(x, f, s).wire = x
             /\ ResolveUndefined(x, f, s).wire = x
             /\ ResolveEmpty(x, f, s).wire = x
             /\ \A v, e : /\ Present(x, v, e).wire = x
                          /\ Absent(x, v).wire = x
                          /\ Fail(x, v, e).wire = x
  BY <1>1 DEF resolveUintPrevious, resolveIntPrevious, ResolveUndefined, ResolveEmpty,
              Present, Absent, Fail, States
<1>6. CASE f.op \in {"None", "Tail"}
  <2>1. DecodeInteger(w, f, s) =
          IF f.type = "uint" THEN DecodeUintNone(w, f, s) ELSE DecodeIntNone(w, f, s)
    BY <1>6 DEF DecodeInteger, uintDecodeCall, intDecodeCall
  <2>2. DecodeUintNone(w, f, s).wire.pm = w.pm /\ DecodeIntNone(w, f, s).wire.pm = w.pm
    BY <1>3, <1>4 DEF DecodeUintNone, DecodeIntNone
  <2>3. ~(opUsesPMAPBit(f.op, f.optional) /\ f.op # "Tail")
    BY <1>6 DEF opUsesPMAPBit
  <2>4. w.pm = <<b>>
    OBVIOUS
  <2>. QED
    BY <2>1, <2>2, <2>3, <2>4
<1>7. CASE f.op = "Constant"
  <2>1. DecodeInteger(w, f, s) =
          IF f.type = "uint" THEN DecodeUintConstant(w, f, s) ELSE DecodeIntConstant(w, f, s)
    BY <1>7 DEF DecodeInteger, uintDecodeCall, intDecodeCall
  <2>2. /\ DecodeUintConstant(w, f, s).wire = IF f.optional THEN AfterBit(w) ELSE w
        /\ DecodeIntConstant(w, f, s).wire = IF f.optional THEN AfterBit(w) ELSE w
    BY <1>1 DEF DecodeUintConstant, DecodeIntConstant, Present, Absent
  <2>. QED
    BY <1>1, <1>2, <1>7, <2>1, <2>2 DEF opUsesPMAPBit
<1>8. CASE f.op = "Default"
  <2>1. DecodeInteger(w, f, s) =
          IF f.type = "uint" THEN DecodeUintDefault(w, f, s) ELSE DecodeIntDefault(w, f, s)
    BY <1>8 DEF DecodeInteger, uintDecodeCall, intDecodeCall
  <2>2. DecodeUintDefault(w, f, s).wire \in {AfterBit(w), ReadUintFor(AfterBit(w), f).wire}
    BY <1>1, <1>4, <1>5 DEF DecodeUintDefault
  <2>3. DecodeIntDefault(w, f, s).wire \in {AfterBit(w), ReadIntFor(AfterBit(w), f).wire}
    BY <1>1, <1>4, <1>5 DEF DecodeIntDefault
  <2>. QED
    BY <1>2, <1>3, <1>8, <2>1, <2>2, <2>3 DEF opUsesPMAPBit
<1>9. CASE f.op = "Copy"
  <2>1. DecodeInteger(w, f, s) =
          IF f.type = "uint" THEN DecodeUintCopy(w, f, s) ELSE DecodeIntCopy(w, f, s)
    BY <1>9 DEF DecodeInteger, uintDecodeCall, intDecodeCall
  <2>2. DecodeUintCopy(w, f, s).wire \in {AfterBit(w), ReadUintFor(AfterBit(w), f).wire}
    BY <1>1, <1>4, <1>5 DEF DecodeUintCopy, readUintPrevious
  <2>3. DecodeIntCopy(w, f, s).wire \in {AfterBit(w), ReadIntFor(AfterBit(w), f).wire}
    BY <1>1, <1>4, <1>5 DEF DecodeIntCopy, readIntPrevious
  <2>. QED
    BY <1>2, <1>3, <1>9, <2>1, <2>2, <2>3 DEF opUsesPMAPBit
<1>10. CASE f.op = "Increment"
  <2>1. DecodeInteger(w, f, s) =
          IF f.type = "uint" THEN DecodeUintIncrement(w, f, s) ELSE DecodeIntIncrement(w, f, s)
    BY <1>10 DEF DecodeInteger, uintDecodeCall, intDecodeCall
  <2>. DEFINE Known(r) == r.wire \in {AfterBit(w), ReadUintFor(AfterBit(w), f).wire,
                                    ReadIntFor(AfterBit(w), f).wire}
  <2>2. /\ \A v, e : Known(Present(AfterBit(w), v, e))
        /\ Known(ResolveUndefined(AfterBit(w), f, s))
        /\ Known(ResolveEmpty(AfterBit(w), f, s))
        /\ Known(resolveIntPrevious(AfterBit(w), f, s))
        /\ Known(readUintPrevious(AfterBit(w), f, s))
        /\ Known(readIntPrevious(AfterBit(w), f, s))
    BY <1>4, <1>5 DEF readUintPrevious, readIntPrevious
  <2>. HIDE DEF Known
  <2>3. Known(DecodeUintIncrement(w, f, s)) /\ Known(DecodeIntIncrement(w, f, s))
    BY <1>1, <2>2 DEF DecodeUintIncrement, DecodeIntIncrement, States
  <2>. QED
    BY <1>2, <1>3, <1>10, <2>1, <2>3 DEF opUsesPMAPBit, Known
<1>11. CASE f.op = "Delta"
  <2>1. DecodeInteger(w, f, s) =
          IF f.type = "uint" THEN DecodeUintDelta(w, f, s) ELSE DecodeIntDelta(w, f, s)
    BY <1>11 DEF DecodeInteger, uintDecodeCall, intDecodeCall
  <2>. DEFINE d == readDelta(w, f.optional)
              u == ToUint64(uintDeltaBase(f, s) + d.val)
              i == ToInt64(intDeltaBase(f, s) + d.val)
  <2>. HIDE DEF d, u, i
  <2>2. /\ DecodeUintDelta(w, f, s) =
             IF d.err # NoError THEN Fail(d.wire, s, d.err)
             ELSE IF d.null THEN Absent(d.wire, s)
             ELSE IF s.State = "Empty" THEN Fail(d.wire, s, ErrD6)
             ELSE Present(d.wire, Assign(u), u)
        /\ DecodeIntDelta(w, f, s) =
             IF d.err # NoError THEN Fail(d.wire, s, d.err)
             ELSE IF d.null THEN Absent(d.wire, s)
             ELSE IF s.State = "Empty" THEN Fail(d.wire, s, ErrD6)
             ELSE Present(d.wire, Assign(i), i)
    BY DEF DecodeUintDelta, DecodeIntDelta, d, u, i
  <2>3. /\ DecodeUintDelta(w, f, s).wire = d.wire
        /\ DecodeIntDelta(w, f, s).wire = d.wire
    BY <1>5, <2>2
  <2>. QED
    BY <1>3, <1>11, <2>1, <2>3 DEF opUsesPMAPBit, d
<1>. QED
  BY <1>1, <1>6, <1>7, <1>8, <1>9, <1>10, <1>11 DEF Operators

-----------------------------------------------------------------------------
(* Templates, places and activations.                                      *)

\* What is declared of an instruction.
LEMMA InstructionFacts ==
  ASSUME NEW in \in Instructions
  PROVE  /\ in.kind \in {"field", "group", "sequence"}
         /\ in.kind # "group" => in.decl \in AllFields
         /\ in.kind = "sequence" => in.decl.type = "uint"
         /\ in.kind # "field" => in.seg \in DOMAIN Segment
         /\ in.kind = "group" => in.optional \in BOOLEAN
BY DeclaredFields DEF Instructions

\* Every step of a segment is an instruction, found again by its name.
LEMMA StepFacts ==
  ASSUME NEW s \in DOMAIN Segment, NEW i \in 1 .. Len(Segment[s])
  PROVE  /\ i \in DOMAIN Segment[s]
         /\ Segment[s][i] \in Instructions
         /\ <<s, i>> \in Steps
         /\ At(<<s, i>>) = Segment[s][i]
<1>1. Segment[s] \in Seq(Instructions)
  BY TemplatesAssumption
<1>2. i \in DOMAIN Segment[s] /\ Segment[s][i] \in Instructions
  BY <1>1
<1>. QED
  BY <1>2 DEF Steps, At

\* A sequence is a sequence over what it contains.
LEMMA SequenceOverItself ==
  ASSUME NEW S, NEW s \in Seq(S)
  PROVE  IsSequence(s)
<1>1. Len(s) \in Nat /\ DOMAIN s = 1 .. Len(s)
  OBVIOUS
<1>2. s \in [1 .. Len(s) -> {s[i] : i \in DOMAIN s}]
  BY <1>1
<1>. QED
  BY <1>1, <1>2 DEF IsSequence

\* A step of the struct at a place has a place.
LEMMA AppendPath ==
  ASSUME NEW p, IsPath(p), NEW s \in DOMAIN Segment, NEW i \in 1 .. Len(Segment[s]),
         NEW k \in Nat
  PROVE  IsPath(Append(p, <<s, i, k>>)) /\ Len(Append(p, <<s, i, k>>)) # 1
<1>. DEFINE c == <<s, i, k>>
            S == {p[j] : j \in DOMAIN p}
            q == Append(p, c)
<1>1. p \in Seq(S)
  BY DEF IsPath, IsSequence
<1>. HIDE DEF S
<1>2. /\ q \in Seq(S \cup {c}) /\ Len(q) = Len(p) + 1 /\ Len(p) \in Nat
      /\ \A j \in 1 .. Len(p) : q[j] = p[j]
      /\ q[Len(p) + 1] = c
  BY <1>1
<1>3. IsSequence(q)
  BY <1>2, SequenceOverItself
<1>4. p # <<>> /\ Len(p) >= 1
  BY <1>1 DEF IsPath, IsPlace
<1>5. q # <<>> /\ q[1] = p[1]
  BY <1>2, <1>4
<1>6. <<c[1], c[2]>> \in Steps /\ c[3] \in Nat
  BY StepFacts
<1>7. ASSUME NEW j \in 2 .. Len(q)
      PROVE  <<q[j][1], q[j][2]>> \in Steps /\ q[j][3] \in Nat
  <2>1. CASE j = Len(p) + 1
    BY <1>2, <1>6, <2>1
  <2>2. CASE j # Len(p) + 1
    <3>1. j \in 2 .. Len(p) /\ q[j] = p[j]
      BY <1>2, <2>2
    <3>. QED
      BY <3>1 DEF IsPath, IsPlace
  <2>. QED
    BY <2>1, <2>2
<1>. QED
  BY <1>2, <1>3, <1>4, <1>5, <1>7 DEF IsPath, IsPlace

\* The message of a template has a place.
LEMMA MessagePath ==
  ASSUME NEW id \in DOMAIN Template
  PROVE  IsPath(<<id>>)
<1>1. <<id>> \in Seq({id}) /\ Len(<<id>>) = 1 /\ <<id>>[1] = id
  OBVIOUS
<1>2. IsSequence(<<id>>)
  BY <1>1, SequenceOverItself
<1>3. IsPlace(<<id>>)
  BY <1>1 DEF IsPlace
<1>. QED
  BY <1>2, <1>3 DEF IsPath

\* The method of a segment starts with a map to spend, if it has one to read.
LEMMA CalledActivation ==
  ASSUME NEW s \in DOMAIN Segment, NEW at, IsPath(at), Len(at) # 1,
         left \in 0 .. MaxFrame
  PROVE  LET a == Activation(s, at, segmentNeedsPMAP(s), 0)
         IN  IsActivation(a) /\ BitsAreSpent(a) /\ a.seg = s
<1>. DEFINE a == Activation(s, at, segmentNeedsPMAP(s), 0)
<1>1. Segment[s] \in Seq(Instructions)
  BY TemplatesAssumption
<1>2. /\ a.seg = s /\ a.at = at /\ a.pc = 1 /\ a.next = 0 /\ a.used = 0
      /\ a.carried = segmentNeedsPMAP(s) /\ a.from = left
  BY DEF Activation
<1>3. DOMAIN a = {"seg", "at", "pc", "next", "carried", "used", "from"}
  BY DEF Activation
<1>4. segmentNeedsPMAP(s) \in BOOLEAN
  BY DEF segmentNeedsPMAP
<1>. HIDE DEF a
<1>5. IsActivation(a)
  BY <1>1, <1>2, <1>3, <1>4 DEF IsActivation
<1>6. ASSUME TakesBits(a)
      PROVE  \E i \in DOMAIN Segment[s] : i >= 1 /\ TakesPMAPBit(Segment[s][i])
  BY <1>1, <1>2, <1>6 DEF TakesBits
<1>7. BitsAreSpent(a)
  BY <1>2, <1>4, <1>6 DEF BitsAreSpent
<1>. QED
  BY <1>2, <1>5, <1>7 DEF a

\* A step spends the bit it takes: a sequence does so before its first element.
Spends(a, used) ==
  LET takes == TakesPMAPBit(Segment[a.seg][a.pc])
  IN  /\ used = a.used \/ (takes /\ used = a.used + 1)
      /\ a.next = 0 /\ takes => used = a.used + 1

\* Going on to the next statement, after the bit of this one if it claims one.
LEMMA NextStatement ==
  ASSUME NEW a, IsActivation(a), BitsAreSpent(a), a.pc <= Len(Segment[a.seg]),
         NEW used \in Nat, Spends(a, used)
  PROVE  LET b == [a EXCEPT !.pc = @ + 1, !.next = 0, !.used = used]
         IN  IsActivation(b) /\ BitsAreSpent(b) /\ b.seg = a.seg
<1>. DEFINE b == [a EXCEPT !.pc = @ + 1, !.next = 0, !.used = used]
<1>1. /\ DOMAIN b = DOMAIN a
      /\ b.seg = a.seg /\ b.at = a.at /\ b.pc = a.pc + 1 /\ b.next = 0
      /\ b.carried = a.carried /\ b.used = used /\ b.from = a.from
  BY DEF IsActivation
<1>. HIDE DEF b
<1>2. Segment[a.seg] \in Seq(Instructions)
  BY TemplatesAssumption DEF IsActivation
<1>3. IsActivation(b)
  BY <1>1, <1>2 DEF IsActivation
<1>4. a.pc \in DOMAIN Segment[a.seg] /\ a.pc \in Nat /\ a.next \in Nat /\ a.used \in Nat
  BY <1>2 DEF IsActivation
<1>5. ASSUME ~a.carried PROVE used = 0 /\ ~segmentNeedsPMAP(a.seg)
  BY <1>4, <1>5 DEF BitsAreSpent, segmentNeedsPMAP, Spends, TakesPMAPBit
<1>6. ASSUME a.carried, used = 0, TakesBits(a)
      PROVE  \E i \in DOMAIN Segment[a.seg] :
               i >= b.pc /\ (i = b.pc => b.next = 0) /\ TakesPMAPBit(Segment[a.seg][i])
  <2>1. a.used = 0 /\ ~(a.next = 0 /\ TakesPMAPBit(Segment[a.seg][a.pc]))
    BY <1>4, <1>6 DEF Spends
  <2>2. PICK i \in DOMAIN Segment[a.seg] :
          i >= a.pc /\ (i = a.pc => a.next = 0) /\ TakesPMAPBit(Segment[a.seg][i])
    BY <1>6, <2>1 DEF BitsAreSpent
  <2>3. i # a.pc /\ i \in Nat
    BY <1>2, <2>1, <2>2
  <2>. QED
    BY <1>1, <1>4, <2>2, <2>3
<1>7. b.used > 0 \/ used = 0
  BY <1>1
<1>8. (TakesBits(b) <=> TakesBits(a)) /\ (used > 0 => TakesBits(a))
  BY <1>1, <1>4 DEF TakesBits, BitsAreSpent, Spends
<1>9. BitsAreSpent(b)
  BY <1>1, <1>5, <1>6, <1>7, <1>8 DEF BitsAreSpent
<1>. QED
  BY <1>1, <1>3, <1>9 DEF b

\* Staying at a sequence, with one more element taken on: the bit of its
\* length is read before the first of them.
LEMMA NextElement ==
  ASSUME NEW a, IsActivation(a), BitsAreSpent(a), a.pc <= Len(Segment[a.seg]),
         NEW next \in Nat \ {0}, NEW used \in Nat, Spends(a, used)
  PROVE  LET b == [a EXCEPT !.next = next, !.used = used]
         IN  IsActivation(b) /\ BitsAreSpent(b) /\ b.seg = a.seg
<1>. DEFINE b == [a EXCEPT !.next = next, !.used = used]
<1>1. /\ DOMAIN b = DOMAIN a
      /\ b.seg = a.seg /\ b.at = a.at /\ b.pc = a.pc /\ b.next = next
      /\ b.carried = a.carried /\ b.used = used /\ b.from = a.from
  BY DEF IsActivation
<1>. HIDE DEF b
<1>2. Segment[a.seg] \in Seq(Instructions)
  BY TemplatesAssumption DEF IsActivation
<1>3. IsActivation(b)
  BY <1>1, <1>2 DEF IsActivation
<1>4. a.pc \in DOMAIN Segment[a.seg] /\ a.pc \in Nat /\ a.next \in Nat /\ a.used \in Nat
  BY <1>2 DEF IsActivation
<1>5. ASSUME ~a.carried PROVE used = 0 /\ ~segmentNeedsPMAP(a.seg)
  BY <1>4, <1>5 DEF BitsAreSpent, segmentNeedsPMAP, Spends, TakesPMAPBit
<1>6. ASSUME a.carried, used = 0, TakesBits(a)
      PROVE  \E i \in DOMAIN Segment[a.seg] :
               i >= b.pc /\ (i = b.pc => b.next = 0) /\ TakesPMAPBit(Segment[a.seg][i])
  <2>1. a.used = 0 /\ ~(a.next = 0 /\ TakesPMAPBit(Segment[a.seg][a.pc]))
    BY <1>4, <1>6 DEF Spends
  <2>2. PICK i \in DOMAIN Segment[a.seg] :
          i >= a.pc /\ (i = a.pc => a.next = 0) /\ TakesPMAPBit(Segment[a.seg][i])
    BY <1>6, <2>1 DEF BitsAreSpent
  <2>3. i # a.pc /\ i \in Nat
    BY <1>2, <2>1, <2>2
  <2>. QED
    BY <1>1, <1>4, <2>2, <2>3
<1>7. b.used > 0 \/ used = 0
  BY <1>1
<1>8. (TakesBits(b) <=> TakesBits(a)) /\ (used > 0 => TakesBits(a))
  BY <1>1, <1>4 DEF TakesBits, BitsAreSpent, Spends
<1>9. BitsAreSpent(b)
  BY <1>1, <1>5, <1>6, <1>7, <1>8 DEF BitsAreSpent
<1>. QED
  BY <1>1, <1>3, <1>9 DEF b

-----------------------------------------------------------------------------
(* The three ways a stack can change without becoming empty.               *)

\* The segment of the activation at the bottom.
Bottom == stack[Len(stack)].seg

\* A stack is a sequence, and its innermost activation is described by StackOK.
LEMMA StackFacts ==
  ASSUME StackOK
  PROVE  /\ Len(stack) \in Nat /\ DOMAIN stack = 1 .. Len(stack)
         /\ Idle <=> Len(stack) = 0
         /\ ~Idle => Top = stack[1] /\ IsActivation(Top) /\ BitsAreSpent(Top)
                     /\ Top.seg \in seen
<1>. DEFINE S == {stack[i] : i \in DOMAIN stack}
<1>1. stack \in Seq(S)
  BY DEF StackOK, IsSequence
<1>. HIDE DEF S
<1>2. /\ Len(stack) \in Nat /\ DOMAIN stack = 1 .. Len(stack)
      /\ stack = <<>> <=> Len(stack) = 0
      /\ stack # <<>> => Head(stack) = stack[1]
  BY <1>1
<1>. QED
  BY <1>2 DEF StackOK, Idle, Top

\* The innermost activation moves on.
LEMMA StackContinues ==
  ASSUME StackOK, ~Idle, NEW a, Continue(a), a.seg = Top.seg,
         IsActivation(a), BitsAreSpent(a), seen' = seen
  PROVE  StackOK' /\ ~Idle' /\ Bottom' = Bottom
<1>. DEFINE S == {stack[i] : i \in DOMAIN stack}
<1>1. stack \in Seq(S) /\ stack # <<>> /\ Len(stack) \in Nat /\ Len(stack) > 0
  BY StackFacts DEF StackOK, IsSequence, Idle
<1>2. DOMAIN stack = 1 .. Len(stack)
  BY StackFacts
<1>. HIDE DEF S
<1>3. /\ stack' \in Seq(S \cup {a}) /\ Len(stack') = Len(stack)
      /\ stack'[1] = a
      /\ \A i \in 2 .. Len(stack) : stack'[i] = stack[i]
  BY <1>1 DEF Continue
<1>4. IsSequence(stack')
  BY <1>3, SequenceOverItself
<1>5. ASSUME NEW i \in DOMAIN stack'
      PROVE  /\ IsActivation(stack'[i]) /\ BitsAreSpent(stack'[i])
             /\ stack'[i].seg = stack[i].seg /\ i \in DOMAIN stack
  <2>1. i \in 1 .. Len(stack)
    BY <1>3
  <2>2. CASE i = 1
    BY <1>1, <1>2, <1>3, <2>1, <2>2, StackFacts
  <2>3. CASE i # 1
    BY <1>2, <1>3, <2>1, <2>3 DEF StackOK
  <2>. QED
    BY <2>2, <2>3
<1>6. ~Idle'
  BY <1>1, <1>3 DEF Idle
<1>7. Bottom' = Bottom
  <2>1. Len(stack) \in DOMAIN stack'
    BY <1>1, <1>3
  <2>. QED
    BY <1>3, <1>5, <2>1 DEF Bottom
<1>8. \A i \in DOMAIN stack' : stack'[i].seg \in seen'
  BY <1>5 DEF StackOK
<1>. QED
  BY <1>4, <1>5, <1>6, <1>7, <1>8 DEF StackOK, IsSequence, IsActivation, BitsAreSpent

\* A method is called.
LEMMA StackGrows ==
  ASSUME StackOK, ~Idle, NEW a, NEW c, stack' = <<c, a>> \o Tail(stack),
         a.seg = Top.seg, IsActivation(a), BitsAreSpent(a),
         IsActivation(c), BitsAreSpent(c), seen' = seen \cup {c.seg}
  PROVE  StackOK' /\ ~Idle' /\ Bottom' = Bottom
<1>. DEFINE S == {stack[i] : i \in DOMAIN stack}
<1>1. stack \in Seq(S) /\ stack # <<>> /\ Len(stack) \in Nat /\ Len(stack) > 0
  BY StackFacts DEF StackOK, IsSequence, Idle
<1>2. DOMAIN stack = 1 .. Len(stack)
  BY StackFacts
<1>. HIDE DEF S
<1>3. /\ stack' \in Seq(S \cup {a, c}) /\ Len(stack') = Len(stack) + 1
      /\ stack'[1] = c /\ stack'[2] = a
      /\ \A i \in 3 .. Len(stack) + 1 : stack'[i] = stack[i - 1]
  BY <1>1
<1>4. IsSequence(stack')
  BY <1>3, SequenceOverItself
<1>5. ASSUME NEW i \in DOMAIN stack', i # 1
      PROVE  /\ IsActivation(stack'[i]) /\ BitsAreSpent(stack'[i])
             /\ stack'[i].seg = stack[i - 1].seg /\ i - 1 \in DOMAIN stack
  <2>1. i \in 2 .. Len(stack) + 1
    BY <1>1, <1>3, <1>5
  <2>2. CASE i = 2
    BY <1>1, <1>2, <1>3, <2>1, <2>2, StackFacts
  <2>3. CASE i # 2
    <3>1. i \in 3 .. Len(stack) + 1 /\ i - 1 \in DOMAIN stack
      BY <1>1, <1>2, <2>1, <2>3
    <3>. QED
      BY <1>3, <3>1 DEF StackOK
  <2>. QED
    BY <2>2, <2>3
<1>6. ~Idle'
  BY <1>1, <1>3 DEF Idle
<1>7. Bottom' = Bottom
  <2>1. Len(stack') \in DOMAIN stack' /\ Len(stack') # 1 /\ Len(stack') - 1 = Len(stack)
    BY <1>1, <1>3
  <2>. QED
    BY <1>5, <2>1 DEF Bottom
<1>8. \A i \in DOMAIN stack' : stack'[i].seg \in seen'
  BY <1>3, <1>5 DEF StackOK
<1>9. \A i \in DOMAIN stack' : IsActivation(stack'[i]) /\ BitsAreSpent(stack'[i])
  BY <1>3, <1>5
<1>. QED
  BY <1>4, <1>6, <1>7, <1>8, <1>9 DEF StackOK, IsSequence, IsActivation, BitsAreSpent

\* A method returns to its caller.
LEMMA StackShrinks ==
  ASSUME StackOK, ~Idle, Len(stack) # 1, stack' = Tail(stack), seen' = seen
  PROVE  StackOK' /\ ~Idle' /\ Bottom' = Bottom
<1>. DEFINE S == {stack[i] : i \in DOMAIN stack}
<1>0. stack \in Seq(S) /\ stack # <<>>
  BY DEF StackOK, IsSequence, Idle
<1>. HIDE DEF S
<1>1. stack \in Seq(S) /\ stack # <<>> /\ Len(stack) \in Nat /\ Len(stack) > 1
  BY <1>0
<1>2. DOMAIN stack = 1 .. Len(stack)
  BY StackFacts
<1>3. /\ stack' \in Seq(S) /\ Len(stack') = Len(stack) - 1
      /\ \A i \in 1 .. Len(stack) - 1 : stack'[i] = stack[i + 1]
  BY <1>1
<1>4. IsSequence(stack')
  BY <1>3, SequenceOverItself
<1>5. ASSUME NEW i \in DOMAIN stack'
      PROVE  stack'[i] = stack[i + 1] /\ i + 1 \in DOMAIN stack
  BY <1>1, <1>2, <1>3
<1>6. ~Idle'
  BY <1>1, <1>3 DEF Idle
<1>7. Bottom' = Bottom
  <2>1. Len(stack') \in DOMAIN stack' /\ Len(stack') + 1 = Len(stack)
    BY <1>1, <1>3
  <2>. QED
    BY <1>5, <2>1 DEF Bottom
<1>8. \A i \in DOMAIN stack' :
        IsActivation(stack'[i]) /\ BitsAreSpent(stack'[i]) /\ stack'[i].seg \in seen'
  BY <1>5 DEF StackOK
<1>. QED
  BY <1>4, <1>6, <1>7, <1>8 DEF StackOK, IsSequence, IsActivation, BitsAreSpent

\* A call has returned.
LEMMA StackEmpties ==
  ASSUME stack' = <<>>
  PROVE  StackOK' /\ Idle'
<1>1. IsSequence(<<>>) /\ DOMAIN <<>> = {}
  BY DEF IsSequence
<1>. QED
  BY <1>1 DEF StackOK, IsSequence, Idle

\* The stack after the innermost method moves on.
LEMMA ContinueShape ==
  ASSUME StackOK, ~Idle, NEW b, Continue(b)
  PROVE  /\ Len(stack) \in Nat \ {0} /\ DOMAIN stack = 1 .. Len(stack)
         /\ DOMAIN stack' = 1 .. Len(stack) /\ Len(stack') = Len(stack)
         /\ stack'[1] = b
         /\ \A j \in 2 .. Len(stack) : stack'[j] = stack[j]
<1>. DEFINE S == {stack[i] : i \in DOMAIN stack}
<1>1. stack \in Seq(S) /\ stack # <<>> /\ Len(stack) \in Nat /\ Len(stack) > 0
  BY StackFacts DEF StackOK, IsSequence, Idle
<1>2. DOMAIN stack = 1 .. Len(stack)
  BY StackFacts
<1>. HIDE DEF S
<1>3. /\ stack' \in Seq(S \cup {b}) /\ Len(stack') = Len(stack)
      /\ stack'[1] = b
      /\ \A i \in 2 .. Len(stack) : stack'[i] = stack[i]
  BY <1>1 DEF Continue
<1>. QED
  BY <1>1, <1>2, <1>3

\* The stack after a call.
LEMMA CallShape ==
  ASSUME StackOK, ~Idle, NEW c, NEW b, stack' = <<c, b>> \o Tail(stack)
  PROVE  /\ Len(stack) \in Nat \ {0} /\ DOMAIN stack = 1 .. Len(stack)
         /\ DOMAIN stack' = 1 .. Len(stack) + 1 /\ Len(stack') = Len(stack) + 1
         /\ stack'[1] = c /\ stack'[2] = b
         /\ \A j \in 3 .. Len(stack) + 1 : stack'[j] = stack[j - 1]
<1>. DEFINE S == {stack[i] : i \in DOMAIN stack}
<1>1. stack \in Seq(S) /\ stack # <<>> /\ Len(stack) \in Nat /\ Len(stack) > 0
  BY StackFacts DEF StackOK, IsSequence, Idle
<1>2. DOMAIN stack = 1 .. Len(stack)
  BY StackFacts
<1>. HIDE DEF S
<1>3. /\ stack' \in Seq(S \cup {b, c}) /\ Len(stack') = Len(stack) + 1
      /\ stack'[1] = c /\ stack'[2] = b
      /\ \A i \in 3 .. Len(stack) + 1 : stack'[i] = stack[i - 1]
  BY <1>1
<1>. QED
  BY <1>1, <1>2, <1>3

\* The stack after a nested method has returned.
LEMMA ReturnShape ==
  ASSUME StackOK, ~Idle, Len(stack) # 1, stack' = Tail(stack)
  PROVE  /\ Len(stack) \in Nat \ {0, 1} /\ DOMAIN stack = 1 .. Len(stack)
         /\ DOMAIN stack' = 1 .. Len(stack) - 1 /\ Len(stack') = Len(stack) - 1
         /\ \A j \in 1 .. Len(stack) - 1 : stack'[j] = stack[j + 1]
<1>. DEFINE S == {stack[i] : i \in DOMAIN stack}
<1>1. stack \in Seq(S) /\ stack # <<>>
  BY DEF StackOK, IsSequence, Idle
<1>2. DOMAIN stack = 1 .. Len(stack)
  BY StackFacts
<1>. HIDE DEF S
<1>3. Len(stack) \in Nat \ {0, 1}
  BY <1>1
<1>4. /\ stack' \in Seq(S) /\ Len(stack') = Len(stack) - 1
      /\ \A i \in 1 .. Len(stack) - 1 : stack'[i] = stack[i + 1]
  BY <1>1, <1>3
<1>. QED
  BY <1>2, <1>3, <1>4

\* A method that moves on or calls another does not end the call.
LEMMA NotEmptied ==
  ASSUME StackOK, ~Idle,
         (\E b : Continue(b)) \/ (\E c, b : stack' = <<c, b>> \o Tail(stack))
  PROVE  ~Idle'
<1>1. 1 \in DOMAIN stack'
  <2>1. CASE \E b : Continue(b)
    BY <2>1, ContinueShape
  <2>2. CASE \E c, b : stack' = <<c, b>> \o Tail(stack)
    BY <2>2, CallShape
  <2>. QED
    BY <2>1, <2>2
<1>2. DOMAIN <<>> = {}
  OBVIOUS
<1>. QED
  BY <1>1, <1>2 DEF Idle

-----------------------------------------------------------------------------
(* What a statement can rely on.                                           *)

\* Where the statement of a running method is, and what it may be.
LEMMA StatementFacts ==
  ASSUME StackOK, ~Idle, ~Ended
  PROVE  /\ IsActivation(Top) /\ BitsAreSpent(Top) /\ Top.seg \in seen
         /\ Top.seg \in DOMAIN Segment /\ Top.pc \in 1 .. Len(Segment[Top.seg])
         /\ Top.pc <= Len(Segment[Top.seg]) /\ Top.used \in Nat /\ Top.next \in Nat
         /\ Current = Segment[Top.seg][Top.pc]
         /\ Current \in Instructions /\ Slot \in Steps /\ At(Slot) = Current
         /\ Slot[1] = Top.seg
         /\ \A k \in Nat : IsPath(Part(k)) /\ IsPlace(Part(k)) /\ Len(Part(k)) # 1
<1>1. IsActivation(Top) /\ BitsAreSpent(Top) /\ Top.seg \in seen
  BY StackFacts
<1>2. Segment[Top.seg] \in Seq(Instructions)
  BY <1>1, TemplatesAssumption DEF IsActivation
<1>3. /\ Top.seg \in DOMAIN Segment /\ Top.pc \in 1 .. Len(Segment[Top.seg])
      /\ Top.pc <= Len(Segment[Top.seg]) /\ Top.used \in Nat /\ Top.next \in Nat
  BY <1>1, <1>2 DEF IsActivation, Ended, Body
<1>4. Current = Segment[Top.seg][Top.pc] /\ Slot = <<Top.seg, Top.pc>>
  BY DEF Current, Body, Slot
<1>5. Current \in Instructions /\ Slot \in Steps /\ At(Slot) = Current
  BY <1>3, <1>4, StepFacts
<1>6. ASSUME NEW k \in Nat
      PROVE  IsPath(Part(k)) /\ IsPlace(Part(k)) /\ Len(Part(k)) # 1
  <2>1. IsPath(Append(Top.at, <<Top.seg, Top.pc, k>>)) /\
        Len(Append(Top.at, <<Top.seg, Top.pc, k>>)) # 1
    BY <1>1, <1>3, AppendPath DEF IsActivation
  <2>. QED
    BY <2>1 DEF Part, IsPath
<1>. QED
  BY <1>1, <1>3, <1>4, <1>5, <1>6

\* The dictionary entry of a statement fits its field, and so does whatever
\* its decode puts there; the entry is of a segment decoded since the reset.
LEMMA EntryFacts ==
  ASSUME Inv, ~Idle, ~Ended, Current.kind # "group"
  PROVE  /\ Current.decl \in AllFields
         /\ Stored(Slot) \in Slots(Current.decl)
         /\ \A s \in Slots(Current.decl) :
              Store(Slot, s) /\ seen' = seen => DictOK' /\ DictionaryIsOfThisEpoch'
<1>1. /\ Current \in Instructions /\ At(Slot) = Current /\ Slot[1] = Top.seg
      /\ Top.seg \in seen
  BY StatementFacts DEF Inv
<1>2. Current.decl \in AllFields
  BY <1>1, InstructionFacts
<1>3. UndefinedSlot \in Slots(Current.decl)
  BY ValuesFacts DEF UndefinedSlot, Slots, States
<1>4. Stored(Slot) \in Slots(Current.decl)
  BY <1>1, <1>3 DEF Inv, DictOK, Stored
<1>5. ASSUME NEW s \in Slots(Current.decl), Store(Slot, s), seen' = seen
      PROVE  DictOK' /\ DictionaryIsOfThisEpoch'
  <2>1. /\ DOMAIN dict' = Slotted
        /\ \A id \in Slotted : dict'[id] = IF id = Slot THEN s ELSE dict[id]
    BY <1>5 DEF Inv, DictOK, Store
  <2>2. DictOK'
    BY <1>1, <2>1 DEF Inv, DictOK
  <2>3. DictionaryIsOfThisEpoch'
    BY <1>1, <1>5, <2>1 DEF Inv, DictionaryIsOfThisEpoch
  <2>. QED
    BY <2>2, <2>3
<1>. QED
  BY <1>2, <1>4, <1>5

\* What a decode of the current field leaves behind.
LEMMA FieldFacts ==
  ASSUME Inv, ~Idle, ~Ended, Current.kind # "group", NEW b, NEW n,
         NEW r, r = DecodeInteger(WireOf(b, n, left), Current.decl, Stored(Slot))
  PROVE  /\ r.slot \in Slots(Current.decl) /\ r.val \in Values(Current.decl)
         /\ UsedAfter(r.wire) =
              IF opUsesPMAPBit(Current.decl.op, Current.decl.optional) /\ Current.decl.op # "Tail"
              THEN Top.used + 1 ELSE Top.used
         /\ UsedAfter(r.wire) \in Nat
         /\ LeftAfter(r.wire, left) \in 0 .. MaxFrame
<1>1. Current.decl \in AllFields /\ Stored(Slot) \in Slots(Current.decl)
  BY EntryFacts
<1>2. Contract(Current.decl, Stored(Slot), r)
  BY <1>1, DecodeIntegerContract
<1>3. r.wire.pm = IF opUsesPMAPBit(Current.decl.op, Current.decl.optional) /\ Current.decl.op # "Tail"
                  THEN <<>> ELSE <<b>>
  <2>. DEFINE buf == IF left = 0 THEN <<>> ELSE <<n>>
  <2>1. WireOf(b, n, left) = [pm |-> <<b>>, buf |-> buf]
    BY DEF WireOf
  <2>. HIDE DEF buf
  <2>. QED
    BY <1>1, <2>1, BitIsReadAsGenerated
<1>4. Top.used \in Nat
  BY StatementFacts DEF Inv
<1>5. LeftAfter(r.wire, left) \in 0 .. MaxFrame
  BY RouterAssumption DEF LeftAfter, Inv, CallOK
<1>. QED
  BY <1>2, <1>3, <1>4, <1>5 DEF Contract, UsedAfter

\* Whatever its length, a slice keeps within its capacity.
LEMMA ResizeKeeps ==
  ASSUME SlicesOK, IsPlace(Here), NEW n \in Nat, Resize(n)
  PROVE  SlicesOK'
<1>. DEFINE h == Here
            kept == Outside(h, DOMAIN len)
<1>1. SliceCap(h) \in Nat /\ \A p \in DOMAIN len : SliceCap(p) = cap[p]
  BY DEF SlicesOK, SliceCap
<1>2. kept \subseteq DOMAIN len /\ Outside(h, has) \subseteq has
  BY DEF Outside
<1>3. /\ IsPlace(h)
      /\ IF SliceCap(h) < n
         THEN /\ len' = [p \in kept \cup {h} |-> IF p = h THEN n ELSE len[p]]
              /\ cap' = [p \in kept \cup {h} |-> IF p = h THEN n ELSE cap[p]]
              /\ has' = Outside(h, has)
         ELSE /\ len' = [p \in DOMAIN len \cup {h} |-> IF p = h THEN n ELSE len[p]]
              /\ cap' = [p \in DOMAIN len' |-> SliceCap(p)]
              /\ has' = has
  BY DEF Resize
<1>. HIDE DEF h, kept
<1>4. CASE SliceCap(h) < n
  BY <1>2, <1>3, <1>4 DEF SlicesOK
<1>5. CASE ~(SliceCap(h) < n)
  <2>1. n \in 0 .. SliceCap(h)
    BY <1>1, <1>5
  <2>2. DOMAIN len' = DOMAIN len \cup {h} /\ DOMAIN cap' = DOMAIN len' /\ has' = has
    BY <1>3, <1>5
  <2>3. ASSUME NEW p \in DOMAIN len'
        PROVE  len'[p] \in 0 .. cap'[p] /\ cap'[p] \in Nat
    BY <1>1, <1>3, <1>5, <2>1, <2>2 DEF SlicesOK
  <2>. QED
    BY <1>3, <2>2, <2>3 DEF SlicesOK
<1>. QED
  BY <1>4, <1>5

-----------------------------------------------------------------------------
(* Every statement preserves the invariant.                                *)

\* No statement touches the template id's entry, and only the end of the call
\* removes the activation at the bottom.
LEMMA StillRouted ==
  ASSUME Inv, UNCHANGED <<tidSlot, latest>>, ~Idle' => ~Idle /\ Bottom' = Bottom
  PROVE  RoutedByLatestId'
BY DEF Inv, RoutedByLatestId, Bottom

\* Returning, in whatever way.
LEMMA Returning ==
  ASSUME Inv, NEW what \in Returns, Return(what), UNCHANGED <<tidSlot, latest>>
  PROVE  StackOK' /\ RoutedByLatestId' /\ ret' \in Returns /\ elements' \in Nat
<1>1. StackOK' /\ Idle'
  BY StackEmpties DEF Return
<1>2. RoutedByLatestId'
  BY <1>1, StillRouted
<1>. QED
  BY <1>1, <1>2 DEF Return

\* A field: its slot, its place and one bit, or nothing but its slot.
LEMMA FieldStepKeeps ==
  ASSUME Inv, NEW b, NEW n, FieldStep(b, n)
  PROVE  Inv'
<1>. DEFINE r == DecodeInteger(WireOf(b, n, left), Current.decl, Stored(Slot))
<1>1. /\ ~Idle /\ ~Ended /\ Current.kind = "field"
      /\ left' = LeftAfter(r.wire, left) /\ Store(Slot, r.slot)
      /\ IF r.err # NoError THEN Abandon /\ UNCHANGED has
         ELSE /\ Continue(ToNext(UsedAfter(r.wire)))
              /\ fresh' = (IF r.present THEN fresh \cup {Here} ELSE fresh)
              /\ has' = (IF r.present /\ Current.decl.optional
                         THEN has \cup {Here} ELSE has)
              /\ UNCHANGED <<ret, elements>>
      /\ UNCHANGED <<tidSlot, len, cap, latest, seen>>
  BY DEF FieldStep, Running
<1>2. /\ r.slot \in Slots(Current.decl)
      /\ UsedAfter(r.wire) =
           IF opUsesPMAPBit(Current.decl.op, Current.decl.optional) /\ Current.decl.op # "Tail"
           THEN Top.used + 1 ELSE Top.used
      /\ UsedAfter(r.wire) \in Nat
      /\ LeftAfter(r.wire, left) \in 0 .. MaxFrame
  BY <1>1, FieldFacts
<1>. HIDE DEF r
<1>3. DictOK' /\ DictionaryIsOfThisEpoch'
  BY <1>1, <1>2, EntryFacts
<1>4. StackOK' /\ RoutedByLatestId' /\ ret' \in Returns /\ elements' \in Nat
  <2>1. CASE r.err # NoError
    BY <1>1, <2>1, Returning DEF Abandon, Returns
  <2>2. CASE r.err = NoError
    <3>. DEFINE used == UsedAfter(r.wire)
    <3>1. Spends(Top, used)
      <4>1. TakesPMAPBit(Current) <=>
              opUsesPMAPBit(Current.decl.op, Current.decl.optional) /\ Current.decl.op # "Tail"
        BY <1>1 DEF TakesPMAPBit, ClaimsInVain, StepUsesPMAPBit
      <4>. QED
        BY <1>1, <1>2, <4>1, StatementFacts DEF Inv, Spends
    <3>2. /\ IsActivation(ToNext(used)) /\ BitsAreSpent(ToNext(used))
          /\ ToNext(used).seg = Top.seg
      BY <1>1, <1>2, <3>1, StatementFacts, NextStatement DEF Inv, ToNext
    <3>3. StackOK' /\ ~Idle' /\ Bottom' = Bottom
      BY <1>1, <2>2, <3>2, StackContinues DEF Inv
    <3>4. RoutedByLatestId'
      BY <1>1, <3>3, StillRouted
    <3>. QED
      BY <1>1, <2>2, <3>3, <3>4 DEF Inv, CallOK
  <2>. QED
    BY <2>1, <2>2
<1>5. IsPlace(Here)
  BY <1>1, StatementFacts DEF Inv, Here
<1>6. SlicesOK'
  BY <1>1, <1>5 DEF Inv, SlicesOK, Abandon
<1>7. CallOK'
  BY <1>1, <1>2, <1>4, <1>5 DEF Inv, CallOK, Abandon
<1>. QED
  BY <1>3, <1>4, <1>6, <1>7 DEF Inv

\* A nested method is called, or the frame ends before its map.
LEMMA CallKeeps ==
  ASSUME Inv, ~Idle, NEW s \in DOMAIN Segment, NEW at, IsPath(at), Len(at) # 1,
         NEW caller, IsActivation(caller), BitsAreSpent(caller), caller.seg = Top.seg,
         NEW flags, \A p \in flags : IsPlace(p),
         Call(s, at, caller, flags), UNCHANGED <<tidSlot, dict, len, cap, latest>>
  PROVE  Inv'
<1>. DEFINE needs == segmentNeedsPMAP(s)
            callee == Activation(s, at, needs, 0)
<1>1. IsActivation(callee) /\ BitsAreSpent(callee) /\ callee.seg = s
  BY CalledActivation DEF Inv, CallOK
<1>2. IF needs /\ left = 0
      THEN Abandon /\ has' = flags /\ UNCHANGED <<left, seen>>
      ELSE /\ left' = IF needs THEN left - 1 ELSE left
           /\ stack' = <<callee, caller>> \o Tail(stack)
           /\ has' = flags \ Cleared(s, at)
           /\ fresh' = fresh \cup {at} /\ seen' = seen \cup {s}
           /\ UNCHANGED <<ret, elements>>
  BY DEF Call
<1>. HIDE DEF needs, callee
<1>3. seen \subseteq seen' /\ seen' \subseteq DOMAIN Segment
  BY <1>2 DEF Inv, CallOK
<1>4. DictOK' /\ DictionaryIsOfThisEpoch'
  BY <1>3 DEF Inv, DictOK, DictionaryIsOfThisEpoch
<1>5. SlicesOK'
  <2>1. has' \subseteq flags
    BY <1>2
  <2>. QED
    BY <2>1 DEF Inv, SlicesOK
<1>6. left' \in 0 .. MaxFrame
  BY <1>2, RouterAssumption DEF Inv, CallOK
<1>7. StackOK' /\ RoutedByLatestId' /\ ret' \in Returns /\ elements' \in Nat
  <2>1. CASE needs /\ left = 0
    BY <1>2, <2>1, Returning DEF Abandon, Returns
  <2>2. CASE ~(needs /\ left = 0)
    <3>1. StackOK' /\ ~Idle' /\ Bottom' = Bottom
      BY <1>1, <1>2, <2>2, StackGrows DEF Inv
    <3>2. RoutedByLatestId'
      BY <3>1, StillRouted
    <3>. QED
      BY <1>2, <2>2, <3>1, <3>2 DEF Inv, CallOK
  <2>. QED
    BY <2>1, <2>2
<1>8. CallOK'
  <2>1. \A p \in fresh' : IsPlace(p)
    BY <1>2 DEF Inv, CallOK, Abandon, IsPath
  <2>. QED
    BY <1>3, <1>6, <1>7, <2>1 DEF Inv, CallOK
<1>. QED
  BY <1>4, <1>5, <1>7, <1>8 DEF Inv

\* A group: skipped by its bit, or its method called.
LEMMA GroupStepKeeps ==
  ASSUME Inv, NEW b, GroupStep(b)
  PROVE  Inv'
<1>. DEFINE used == IF Current.optional THEN Top.used + 1 ELSE Top.used
            flags == IF Current.optional THEN has \cup {Here} ELSE has
<1>1. /\ ~Idle /\ ~Ended /\ Current.kind = "group"
      /\ IF Current.optional /\ ~b
         THEN /\ Continue(ToNext(used))
              /\ UNCHANGED <<has, left, ret, fresh, seen, elements>>
         ELSE Call(Current.seg, Here, ToNext(used), flags)
      /\ UNCHANGED <<tidSlot, dict, len, cap, latest>>
  BY DEF GroupStep, Running
<1>2. /\ Current \in Instructions /\ Top.used \in Nat
      /\ Current = Segment[Top.seg][Top.pc]
      /\ IsActivation(Top) /\ BitsAreSpent(Top) /\ Top.pc <= Len(Segment[Top.seg])
      /\ IsPath(Here) /\ IsPlace(Here) /\ Len(Here) # 1
  BY <1>1, StatementFacts DEF Inv, Here
<1>3. used \in Nat /\ Spends(Top, used)
  <2>1. (TakesPMAPBit(Current) <=> Current.optional) /\ Current.optional \in BOOLEAN
    BY <1>1, <1>2, InstructionFacts DEF TakesPMAPBit, ClaimsInVain, StepUsesPMAPBit
  <2>. QED
    BY <1>2, <2>1 DEF Spends
<1>4. \A p \in flags : IsPlace(p)
  BY <1>2 DEF Inv, SlicesOK
<1>. HIDE DEF used, flags
<1>5. /\ IsActivation(ToNext(used)) /\ BitsAreSpent(ToNext(used))
      /\ ToNext(used).seg = Top.seg
  BY <1>2, <1>3, NextStatement DEF ToNext
<1>6. CASE Current.optional /\ ~b
  <2>1. StackOK' /\ ~Idle' /\ Bottom' = Bottom
    BY <1>1, <1>5, <1>6, StackContinues DEF Inv
  <2>2. RoutedByLatestId'
    BY <1>1, <2>1, StillRouted
  <2>. QED
    BY <1>1, <1>6, <2>1, <2>2
       DEF Inv, DictOK, SlicesOK, CallOK, DictionaryIsOfThisEpoch
<1>7. CASE ~(Current.optional /\ ~b)
  BY <1>1, <1>2, <1>4, <1>5, <1>7, InstructionFacts, CallKeeps
<1>. QED
  BY <1>6, <1>7

\* The next element of a sequence.
LEMMA ElementStepKeeps ==
  ASSUME Inv, ElementStep
  PROVE  Inv'
<1>1. /\ ~Idle /\ ~Ended /\ Current.kind = "sequence" /\ Top.next \in 1 .. SliceLen(Here)
      /\ Call(Current.seg, Part(Top.next), [Top EXCEPT !.next = @ + 1], has)
      /\ UNCHANGED <<tidSlot, dict, len, cap, latest>>
  BY DEF ElementStep, Running
<1>2. /\ Current \in Instructions /\ Top.used \in Nat /\ Top.next \in Nat
      /\ IsActivation(Top) /\ BitsAreSpent(Top) /\ Top.pc <= Len(Segment[Top.seg])
      /\ IsPath(Part(Top.next)) /\ Len(Part(Top.next)) # 1
  BY <1>1, StatementFacts DEF Inv
<1>3. Top.next # 0
  BY <1>1, <1>2 DEF Inv, SlicesOK, SliceLen
<1>. DEFINE next == Top.next + 1
            a == [Top EXCEPT !.next = next, !.used = Top.used]
<1>4. next \in Nat \ {0} /\ Spends(Top, Top.used)
  BY <1>2, <1>3 DEF Spends
<1>5. [Top EXCEPT !.next = @ + 1] = a
  BY <1>2 DEF IsActivation
<1>6. IsActivation(a) /\ BitsAreSpent(a) /\ a.seg = Top.seg
  <2>. HIDE DEF next
  <2>. QED
    BY <1>2, <1>4, NextElement
<1>. HIDE DEF a, next
<1>7. \A p \in has : IsPlace(p)
  BY DEF Inv, SlicesOK
<1>. QED
  BY <1>1, <1>2, <1>5, <1>6, <1>7, InstructionFacts, CallKeeps

\* After the last element.
LEMMA SequenceEndKeeps ==
  ASSUME Inv, SequenceEnd
  PROVE  Inv'
<1>1. /\ ~Idle /\ ~Ended /\ Current.kind = "sequence" /\ Top.next > SliceLen(Here)
      /\ Continue(ToNext(Top.used))
      /\ UNCHANGED <<tidSlot, dict, messages, left, ret, history>>
  BY DEF SequenceEnd, Running
<1>2. /\ Top.used \in Nat /\ Top.next \in Nat
      /\ IsActivation(Top) /\ BitsAreSpent(Top) /\ Top.pc <= Len(Segment[Top.seg])
  BY <1>1, StatementFacts DEF Inv
<1>3. Top.next # 0
  BY <1>1, <1>2 DEF Inv, SlicesOK, SliceLen
<1>4. /\ IsActivation(ToNext(Top.used)) /\ BitsAreSpent(ToNext(Top.used))
      /\ ToNext(Top.used).seg = Top.seg
  <2>1. Spends(Top, Top.used)
    BY <1>3 DEF Spends
  <2>. QED
    BY <1>2, <2>1, NextStatement DEF ToNext
<1>5. StackOK' /\ ~Idle' /\ Bottom' = Bottom
  BY <1>1, <1>4, StackContinues DEF Inv, history
<1>6. RoutedByLatestId'
  BY <1>1, <1>5, StillRouted DEF history
<1>. QED
  BY <1>1, <1>5, <1>6
     DEF Inv, DictOK, SlicesOK, CallOK, DictionaryIsOfThisEpoch, messages, history

\* The end of a method, and of the call if it is the body of the message.
LEMMA LeaveKeeps ==
  ASSUME Inv, Leave
  PROVE  Inv'
<1>1. /\ ~Idle
      /\ IF Len(stack) = 1 THEN Return("message")
         ELSE stack' = Tail(stack) /\ UNCHANGED <<ret, elements>>
      /\ UNCHANGED <<tidSlot, dict, messages, left, fresh, latest, seen>>
  BY DEF Leave
<1>2. StackOK' /\ RoutedByLatestId' /\ ret' \in Returns /\ elements' \in Nat
  <2>1. CASE Len(stack) = 1
    BY <1>1, <2>1, Returning DEF Returns
  <2>2. CASE Len(stack) # 1
    <3>1. StackOK' /\ ~Idle' /\ Bottom' = Bottom
      BY <1>1, <2>2, StackShrinks DEF Inv
    <3>2. RoutedByLatestId'
      BY <1>1, <3>1, StillRouted
    <3>. QED
      BY <1>1, <2>2, <3>1, <3>2 DEF Inv, CallOK
  <2>. QED
    BY <2>1, <2>2
<1>. QED
  BY <1>1, <1>2 DEF Inv, DictOK, SlicesOK, CallOK, DictionaryIsOfThisEpoch, messages

\* The loop over the elements begins, or there is none to go through.
LEMMA SequenceKeeps ==
  ASSUME Inv, ~Idle, ~Ended, NEW used \in Nat, Spends(Top, used),
         UNCHANGED <<tidSlot, latest, seen>>,
         SkipSequence(used) \/ \E n \in Nat : EnterSequence(n, used)
  PROVE  /\ StackOK' /\ RoutedByLatestId' /\ SlicesOK'
         /\ \A p \in fresh' : IsPlace(p)
<1>1. /\ IsActivation(Top) /\ BitsAreSpent(Top) /\ Top.pc <= Len(Segment[Top.seg])
      /\ IsPlace(Here)
  BY StatementFacts DEF Inv, Here
<1>2. PICK n, a :
        /\ n \in Nat
        /\ Resize(n) /\ Continue(a) /\ fresh' = fresh \cup {Here}
        /\ IsActivation(a) /\ BitsAreSpent(a) /\ a.seg = Top.seg
  <2>1. CASE SkipSequence(used)
    <3>1. /\ IsActivation(ToNext(used)) /\ BitsAreSpent(ToNext(used))
          /\ ToNext(used).seg = Top.seg
      BY <1>1, NextStatement DEF ToNext
    <3>. QED
      BY <2>1, <3>1 DEF SkipSequence
  <2>2. CASE \E n \in Nat : EnterSequence(n, used)
    <3>. DEFINE first == 1
                a == [Top EXCEPT !.next = first, !.used = used]
    <3>1. IsActivation(a) /\ BitsAreSpent(a) /\ a.seg = Top.seg
      <4>1. first \in Nat \ {0}
        OBVIOUS
      <4>. HIDE DEF first
      <4>. QED
        BY <1>1, <4>1, NextElement
    <3>2. PICK n \in Nat : EnterSequence(n, used)
      BY <2>2
    <3>3. Resize(n) /\ Continue(a) /\ fresh' = fresh \cup {Here}
      BY <3>2 DEF EnterSequence
    <3>. HIDE DEF a
    <3>. QED
      BY <3>1, <3>3
  <2>. QED
    BY <2>1, <2>2
<1>3. StackOK' /\ ~Idle' /\ Bottom' = Bottom
  BY <1>2, StackContinues DEF Inv
<1>4. RoutedByLatestId'
  BY <1>3, StillRouted
<1>5. SlicesOK'
  BY <1>1, <1>2, ResizeKeeps DEF Inv
<1>6. \A p \in fresh' : IsPlace(p)
  BY <1>1, <1>2 DEF Inv, CallOK
<1>. QED
  BY <1>3, <1>4, <1>5, <1>6

\* A length off the wire or out of the dictionary.
LEMMA LengthStepKeeps ==
  ASSUME Inv, NEW b, NEW n, LengthStep(b, n)
  PROVE  Inv'
<1>. DEFINE r == DecodeInteger(WireOf(b, n, left), Current.decl, Stored(Slot))
            used == UsedAfter(r.wire)
            refused == r.err # NoError \/ (r.present /\ ~LengthFits(r.val, left'))
<1>1. ~Idle /\ ~Ended /\ Current.kind = "sequence" /\ Top.next = 0
  BY DEF LengthStep, Running
<1>2. Current \in Instructions /\ Current = Segment[Top.seg][Top.pc]
  BY <1>1, StatementFacts DEF Inv
<1>3. Current.decl.type = "uint" /\ Current.decl \in AllFields
  BY <1>1, <1>2, InstructionFacts
<1>4. uintDecodeCall(WireOf(b, n, left), Current.decl, Stored(Slot)) = r
  BY <1>3 DEF DecodeInteger
<1>5. /\ left' = LeftAfter(r.wire, left) /\ Store(Slot, r.slot)
      /\ IF refused THEN Abandon /\ UNCHANGED messages
         ELSE /\ IF r.present THEN EnterSequence(r.val, used) ELSE SkipSequence(used)
              /\ elements' = elements + r.val
              /\ UNCHANGED ret
      /\ UNCHANGED <<tidSlot, latest, seen>>
  BY <1>4 DEF LengthStep
<1>6. /\ r.slot \in Slots(Current.decl) /\ r.val \in Values(Current.decl)
      /\ used = IF opUsesPMAPBit(Current.decl.op, Current.decl.optional) /\ Current.decl.op # "Tail"
                THEN Top.used + 1 ELSE Top.used
      /\ used \in Nat
      /\ LeftAfter(r.wire, left) \in 0 .. MaxFrame
  BY <1>1, FieldFacts
<1>. HIDE DEF r, used, refused
<1>7. r.val \in Nat
  BY <1>3, <1>6, WidthAssumption DEF Values, Uint64
<1>8. DictOK' /\ DictionaryIsOfThisEpoch'
  BY <1>1, <1>5, <1>6, EntryFacts
<1>9. Spends(Top, used)
  <2>1. TakesPMAPBit(Current) <=>
          opUsesPMAPBit(Current.decl.op, Current.decl.optional) /\ Current.decl.op # "Tail"
    BY <1>1 DEF TakesPMAPBit, ClaimsInVain, StepUsesPMAPBit
  <2>. QED
    BY <1>2, <1>6, <2>1 DEF Spends
<1>10. CASE refused
  <2>1. StackOK' /\ RoutedByLatestId' /\ ret' \in Returns /\ elements' \in Nat
    BY <1>5, <1>10, Returning DEF Abandon, Returns
  <2>. QED
    BY <1>5, <1>6, <1>8, <1>10, <2>1
       DEF Inv, SlicesOK, CallOK, Abandon, messages
<1>11. CASE ~refused
  <2>1. /\ StackOK' /\ RoutedByLatestId' /\ SlicesOK'
        /\ \A p \in fresh' : IsPlace(p)
    BY <1>1, <1>5, <1>6, <1>7, <1>9, <1>11, SequenceKeeps
  <2>. QED
    BY <1>5, <1>6, <1>7, <1>8, <1>11, <2>1 DEF Inv, CallOK
<1>. QED
  BY <1>10, <1>11

\* A length the generator wrote down.
LEMMA ConstantLengthStepKeeps ==
  ASSUME Inv, NEW b, ConstantLengthStep(b)
  PROVE  Inv'
<1>. DEFINE f == Current.decl
            used == IF f.optional THEN Top.used + 1 ELSE Top.used
<1>1. /\ ~Idle /\ ~Ended /\ Current.kind = "sequence" /\ Top.next = 0
      /\ f.op = "Constant"
      /\ EnterSequence(f.initial, used) \/ SkipSequence(used)
      /\ UNCHANGED <<tidSlot, dict, left, ret, latest, seen, elements>>
  BY DEF ConstantLengthStep, Running, IsConstantLength
<1>2. /\ Current \in Instructions /\ Current = Segment[Top.seg][Top.pc]
      /\ Top.used \in Nat
  BY <1>1, StatementFacts DEF Inv
<1>3. f.type = "uint" /\ f \in AllFields
  BY <1>1, <1>2, InstructionFacts
<1>4. f.initial \in Nat /\ f.optional \in BOOLEAN
  BY <1>3, WidthAssumption DEF AllFields, Values, Uint64
<1>5. used \in Nat /\ Spends(Top, used)
  <2>1. TakesPMAPBit(Current) = f.optional
    <3>1. Current.kind # "group" /\ f.op = "Constant" /\ f.optional \in BOOLEAN
      BY <1>1, <1>4
    <3>2. ~ClaimsInVain(Current)
      BY <3>1 DEF ClaimsInVain
    <3>3. StepUsesPMAPBit(Current) = f.optional
      BY <3>1 DEF StepUsesPMAPBit, opUsesPMAPBit
    <3>. QED
      BY <3>1, <3>2, <3>3 DEF TakesPMAPBit
  <2>2. used \in Nat
    BY <1>2
  <2>3. /\ used = Top.used \/ (f.optional /\ used = Top.used + 1)
        /\ f.optional => used = Top.used + 1
    OBVIOUS
  <2>. HIDE DEF f, used
  <2>. QED
    BY <1>2, <2>1, <2>2, <2>3 DEF Spends
<1>. HIDE DEF f, used
<1>6. /\ StackOK' /\ RoutedByLatestId' /\ SlicesOK'
      /\ \A p \in fresh' : IsPlace(p)
  BY <1>1, <1>4, <1>5, SequenceKeeps
<1>. QED
  BY <1>1, <1>6 DEF Inv, DictOK, CallOK, DictionaryIsOfThisEpoch

-----------------------------------------------------------------------------
(* Every operation of the caller preserves the invariant.                  *)

\* What Router.Decode can read where the template id is.
LEMMA TemplateIdFacts ==
  ASSUME Inv, NEW b, NEW n, NEW r, r = TemplateId(b, n), left > 0
  PROVE  /\ r.err # NoError => r.slot = tidSlot
         /\ r.err = NoError => r.slot = Assign(r.val) /\ r.val \in Uint64
         /\ r.slot \in Slots(templateId)
         /\ LeftAfter(r.wire, left - 1) \in 0 .. MaxFrame
<1>1. /\ templateId \in AllFields /\ templateId.type = "uint"
      /\ templateId.op = "Copy" /\ ~templateId.optional
  BY WidthAssumption DEF templateId, AllFields, Operators, Values, Uint64
<1>2. Contract(templateId, tidSlot, r)
  <2>1. tidSlot \in Slots(templateId)
    BY DEF Inv, CallOK
  <2>2. r = DecodeInteger(WireOf(b, n, left - 1), templateId, tidSlot)
    BY <1>1 DEF TemplateId, DecodeUint, DecodeInteger, uintDecodeCall
  <2>. QED
    BY <1>1, <2>1, <2>2, DecodeIntegerContract
<1>3. LeftAfter(r.wire, left - 1) \in 0 .. MaxFrame
  BY RouterAssumption DEF LeftAfter, Inv, CallOK
<1>. QED
  BY <1>1, <1>2, <1>3 DEF Contract, Kept, Values

\* The dictionaries are as new.
LEMMA ResetKeeps ==
  ASSUME Inv, ResetDictionaries, Idle'
  PROVE  /\ DictOK' /\ DictionaryIsOfThisEpoch' /\ RoutedByLatestId'
         /\ tidSlot' \in Slots(templateId) /\ latest' = NoId /\ seen' = {}
<1>1. \A f : UndefinedSlot \in Slots(f)
  BY ValuesFacts DEF UndefinedSlot, Slots, States
<1>2. /\ tidSlot' = UndefinedSlot /\ latest' = NoId /\ seen' = {}
      /\ dict' = [id \in Slotted |-> UndefinedSlot]
  BY DEF ResetDictionaries, EmptyDict
<1>3. DictOK'
  BY <1>1, <1>2 DEF DictOK
<1>4. DictionaryIsOfThisEpoch'
  BY <1>2 DEF DictionaryIsOfThisEpoch, UndefinedSlot
<1>5. RoutedByLatestId'
  BY <1>2 DEF RoutedByLatestId
<1>. QED
  BY <1>1, <1>2, <1>3, <1>4, <1>5

\* The next frame changes only how many bytes are left.
LEMMA NewFrameKeeps ==
  ASSUME Inv, NEW n \in 0 .. MaxFrame, NewFrame(n)
  PROVE  Inv'
BY DEF NewFrame, Inv, DictOK, SlicesOK, CallOK, StackOK, IsSequence, RoutedByLatestId,
       DictionaryIsOfThisEpoch, Idle, messages, history

\* Router.Reset called from outside.
LEMMA ResetStepKeeps ==
  ASSUME Inv, Reset
  PROVE  Inv'
<1>1. /\ stack = <<>> /\ stack' = <<>> /\ ResetDictionaries
      /\ UNCHANGED <<messages, left, ret, fresh, elements>>
  BY DEF Reset, Idle
<1>2. StackOK' /\ Idle'
  BY <1>1, StackEmpties
<1>3. /\ DictOK' /\ DictionaryIsOfThisEpoch' /\ RoutedByLatestId'
      /\ tidSlot' \in Slots(templateId) /\ latest' = NoId /\ seen' = {}
  BY <1>1, <1>2, ResetKeeps
<1>. QED
  BY <1>1, <1>2, <1>3 DEF Inv, SlicesOK, CallOK, messages

\* A call on an empty frame.
LEMMA DecodeAtEndKeeps ==
  ASSUME Inv, DecodeAtEnd
  PROVE  Inv'
<1>1. Return("error") /\ fresh' = {} /\ UNCHANGED <<tidSlot, dict, messages, left, latest, seen>>
  BY DEF DecodeAtEnd, Abandon
<1>2. StackOK' /\ RoutedByLatestId' /\ ret' \in Returns /\ elements' \in Nat
  BY <1>1, Returning DEF Returns
<1>. QED
  BY <1>1, <1>2 DEF Inv, DictOK, SlicesOK, CallOK, DictionaryIsOfThisEpoch, messages

\* An id that could not be read, or that names no template: nothing is decoded.
LEMMA DecodeRefusedKeeps ==
  ASSUME Inv, NEW b, NEW n, NEW r, r = TemplateId(b, n), DecodeNoId(r) \/ DecodeUnknown(r)
  PROVE  Inv'
<1>1. /\ left > 0 /\ left' = LeftAfter(r.wire, left - 1)
      /\ Return("error") /\ fresh' = {} /\ tidSlot' = r.slot
      /\ UNCHANGED <<dict, messages, seen>>
      /\ \/ r.err # NoError /\ latest' = latest
         \/ r.err = NoError /\ latest' = r.val
  BY DEF DecodeNoId, DecodeUnknown, Begin, Abandon
<1>2. /\ r.err # NoError => r.slot = tidSlot
      /\ r.err = NoError => r.slot = Assign(r.val) /\ r.val \in Uint64
      /\ r.slot \in Slots(templateId)
      /\ LeftAfter(r.wire, left - 1) \in 0 .. MaxFrame
  BY <1>1, TemplateIdFacts
<1>3. StackOK' /\ Idle'
  BY <1>1, StackEmpties DEF Return
<1>4. NoId \notin Uint64
  BY WidthAssumption DEF NoId, Uint64
<1>5. RoutedByLatestId'
  BY <1>1, <1>2, <1>3, <1>4 DEF Inv, RoutedByLatestId
<1>6. CallOK'
  BY <1>1, <1>2 DEF Inv, CallOK, Return, Returns
<1>. QED
  BY <1>1, <1>3, <1>5, <1>6 DEF Inv, DictOK, SlicesOK, DictionaryIsOfThisEpoch, messages

\* The control message resets and returns no message.
LEMMA DecodeControlKeeps ==
  ASSUME Inv, NEW b, NEW n, NEW r, r = TemplateId(b, n), DecodeControl(r)
  PROVE  Inv'
<1>1. /\ left > 0 /\ left' = LeftAfter(r.wire, left - 1)
      /\ ResetDictionaries /\ Return("control") /\ fresh' = {} /\ UNCHANGED messages
  BY DEF DecodeControl, Begin
<1>2. LeftAfter(r.wire, left - 1) \in 0 .. MaxFrame
  BY <1>1, TemplateIdFacts
<1>3. StackOK' /\ Idle'
  BY <1>1, StackEmpties DEF Return
<1>4. /\ DictOK' /\ DictionaryIsOfThisEpoch' /\ RoutedByLatestId'
      /\ tidSlot' \in Slots(templateId) /\ latest' = NoId /\ seen' = {}
  BY <1>1, <1>3, ResetKeeps
<1>. QED
  BY <1>1, <1>2, <1>3, <1>4 DEF Inv, SlicesOK, CallOK, Return, Returns, messages

\* The message's own map answered the template id, so a bit of it is spent.
LEMMA DecodeKnownKeeps ==
  ASSUME Inv, NEW b, NEW n, NEW r, r = TemplateId(b, n), DecodeKnown(r)
  PROVE  Inv'
<1>. DEFINE s == Template[r.val]
            at == <<r.val>>
            a == Activation(s, at, TRUE, 1)
<1>1. /\ Idle /\ left > 0 /\ left' = LeftAfter(r.wire, left - 1)
      /\ r.err = NoError /\ r.val \in DOMAIN Template
      /\ tidSlot' = r.slot /\ latest' = r.val /\ stack' = <<a>>
      /\ has' = has \ Cleared(s, at)
      /\ fresh' = {at} /\ seen' = seen \cup {s} /\ ret' = "none"
      /\ UNCHANGED <<dict, len, cap, elements>>
  BY DEF DecodeKnown, Begin
<1>2. /\ r.slot = Assign(r.val) /\ r.val \in Uint64 /\ r.slot \in Slots(templateId)
      /\ LeftAfter(r.wire, left - 1) \in 0 .. MaxFrame
  BY <1>1, TemplateIdFacts
<1>3. s \in DOMAIN Segment /\ IsPath(at)
  BY <1>1, TemplatesAssumption, MessagePath
<1>4. IsActivation(a) /\ BitsAreSpent(a) /\ a.seg = s
  <2>1. /\ DOMAIN a = {"seg", "at", "pc", "next", "carried", "used", "from"}
        /\ a.seg = s /\ a.at = at /\ a.pc = 1 /\ a.next = 0
        /\ a.carried /\ a.carried \in BOOLEAN /\ a.used = 1 /\ a.from = left
    BY DEF Activation
  <2>2. left \in 0 .. MaxFrame /\ Segment[s] \in Seq(Instructions)
    BY <1>3, TemplatesAssumption DEF Inv, CallOK
  <2>. HIDE DEF a, s, at
  <2>3. IsActivation(a)
    BY <1>3, <2>1, <2>2 DEF IsActivation
  <2>4. BitsAreSpent(a)
    <3>1. Len(a.at) = 1
      BY <2>1 DEF at
    <3>. QED
      BY <2>1, <3>1 DEF BitsAreSpent, TakesBits
  <2>. QED
    BY <2>1, <2>3, <2>4
<1>. HIDE DEF a, s, at
<1>5. stack' \in Seq({a}) /\ Len(stack') = 1 /\ stack'[1] = a /\ DOMAIN stack' = {1}
  BY <1>1
<1>6. IsSequence(stack')
  BY <1>5, SequenceOverItself
<1>7. StackOK'
  <2>1. \A i \in DOMAIN stack' :
          IsActivation(stack'[i]) /\ BitsAreSpent(stack'[i]) /\ stack'[i].seg \in seen'
    BY <1>1, <1>4, <1>5
  <2>. QED
    BY <1>6, <2>1 DEF StackOK, IsSequence, IsActivation, BitsAreSpent
<1>8. RoutedByLatestId'
  <2>1. NoId \notin Uint64
    BY WidthAssumption DEF NoId, Uint64
  <2>. QED
    BY <1>1, <1>2, <1>4, <1>5, <2>1 DEF RoutedByLatestId, s
<1>9. CallOK'
  BY <1>1, <1>2, <1>3 DEF Inv, CallOK, Returns, IsPath
<1>. QED
  BY <1>1, <1>7, <1>8, <1>9 DEF Inv, DictOK, SlicesOK, DictionaryIsOfThisEpoch

-----------------------------------------------------------------------------
(* The theorems.                                                           *)

\* A new Router satisfies Inv.
LEMMA InitiallyInv == Init => Inv
<1>. SUFFICES ASSUME Init PROVE Inv
  OBVIOUS
<1>1. \A f : UndefinedSlot \in Slots(f)
  BY ValuesFacts DEF UndefinedSlot, Slots, States
<1>2. StackOK /\ Idle
  BY DEF Init, StackOK, IsSequence, Idle
<1>3. DictOK /\ DictionaryIsOfThisEpoch
  BY <1>1 DEF Init, EmptyDict, DictOK, DictionaryIsOfThisEpoch, UndefinedSlot
<1>4. RoutedByLatestId
  BY <1>2 DEF Init, RoutedByLatestId
<1>5. SlicesOK /\ CallOK
  BY <1>1, RouterAssumption DEF Init, SlicesOK, CallOK, Returns
<1>. QED
  BY <1>2, <1>3, <1>4, <1>5 DEF Inv

\* Every action preserves Inv.
LEMMA InvIsInductive == Inv /\ [Next]_vars => Inv'
<1>. SUFFICES ASSUME Inv, [Next]_vars PROVE Inv'
  OBVIOUS
<1>1. ASSUME NEW n \in 0 .. MaxFrame, NewFrame(n) PROVE Inv'
  BY <1>1, NewFrameKeeps
<1>2. CASE Reset
  BY <1>2, ResetStepKeeps
<1>3. CASE Decode
  <2>1. CASE DecodeAtEnd
    BY <2>1, DecodeAtEndKeeps
  <2>2. ASSUME NEW b \in BOOLEAN, NEW n \in Numbers, NEW r, r = TemplateId(b, n),
               DecodeNoId(r) \/ DecodeControl(r) \/ DecodeUnknown(r) \/ DecodeKnown(r)
        PROVE  Inv'
    BY <2>2, DecodeRefusedKeeps, DecodeControlKeeps, DecodeKnownKeeps
  <2>. QED
    BY <1>3, <2>1, <2>2 DEF Decode
<1>4. CASE Step
  <2>1. ASSUME NEW b \in BOOLEAN, NEW n \in Numbers, FieldStep(b, n) \/ LengthStep(b, n)
        PROVE  Inv'
    BY <2>1, FieldStepKeeps, LengthStepKeeps
  <2>2. ASSUME NEW b \in BOOLEAN, GroupStep(b) \/ ConstantLengthStep(b)
        PROVE  Inv'
    BY <2>2, GroupStepKeeps, ConstantLengthStepKeeps
  <2>3. CASE ElementStep \/ SequenceEnd \/ Leave
    BY <2>3, ElementStepKeeps, SequenceEndKeeps, LeaveKeeps
  <2>. QED
    BY <1>4, <2>1, <2>2, <2>3 DEF Step
<1>5. CASE UNCHANGED vars
  BY <1>5 DEF vars, messages, history, Inv, DictOK, SlicesOK, CallOK, StackOK, IsSequence,
              RoutedByLatestId, DictionaryIsOfThisEpoch, Idle
<1>. QED
  BY <1>1, <1>2, <1>3, <1>4, <1>5 DEF Next

\* Inv holds in every behaviour.
LEMMA Invariance == Spec => []Inv
BY InitiallyInv, InvIsInductive, PTL DEF Spec

\* The types, and that slices never exceed their capacity.
THEOREM RouterTypeCorrect == Spec => []TypeOK
<1>1. Inv => TypeOK
  BY DEF Inv, DictOK, SlicesOK, CallOK, StackOK, IsActivation, IsPath, TypeOK
<1>. QED
  BY <1>1, Invariance, PTL

\* Whatever unknown ids, resets and failures came before, a body that runs is
\* that of the last template id the feed sent.
THEOREM BodiesAreRouted == Spec => []RoutedByLatestId
<1>1. Inv => RoutedByLatestId
  BY DEF Inv
<1>. QED
  BY <1>1, Invariance, PTL

\* A reset reaches every dictionary entry of every template.
THEOREM ResetForgetsAll == Spec => []DictionaryIsOfThisEpoch
<1>1. Inv => DictionaryIsOfThisEpoch
  BY DEF Inv
<1>. QED
  BY <1>1, Invariance, PTL

\* Generator and runtime agree on every presence map, for every template set,
\* those with a tail on a number included: no bit is asked of a map that is not
\* on the wire, and a map that is on the wire is read from if and only if it is
\* the message's or one of its claims is not such a tail.
THEOREM MapsAgree == Spec => []PresenceMapsAgree
<1>1. Inv => PresenceMapsAgree
  <2>. SUFFICES ASSUME Inv, NEW i \in DOMAIN stack
                PROVE  /\ ~stack[i].carried => stack[i].used = 0
                       /\ stack[i].carried /\ stack[i].pc > Len(Segment[stack[i].seg])
                            => (stack[i].used > 0 <=> TakesBits(stack[i]))
    BY DEF PresenceMapsAgree
  <2>. DEFINE a == stack[i]
  <2>1. IsActivation(a) /\ BitsAreSpent(a)
    BY DEF Inv, StackOK
  <2>. HIDE DEF a
  <2>2. Segment[a.seg] \in Seq(Instructions)
    BY <2>1, TemplatesAssumption DEF IsActivation
  <2>3. /\ ~a.carried => a.used = 0
        /\ a.carried /\ a.pc > Len(Segment[a.seg]) => (a.used > 0 <=> TakesBits(a))
    BY <2>1, <2>2 DEF IsActivation, BitsAreSpent
  <2>. QED
    BY <2>3 DEF a
<1>. QED
  BY <1>1, Invariance, PTL

-----------------------------------------------------------------------------
(* The work of a call: what a frame can pay for, and what is still owed.   *)

\* A finite set of numbers has a greatest, which is what Max chooses.
LEMMA GreatestExists ==
  ASSUME NEW S, IsFiniteSet(S), S \subseteq Nat, S # {}
  PROVE  Max(S) \in S /\ \A x \in S : x <= Max(S)
<1>. DEFINE Greatest(U, m) == m \in U /\ \A x \in U : m >= x
            T == {U \in FiniteSubsetsOf(S) : U # {} /\ ~\E m : Greatest(U, m)}
<1>1. \E m : Greatest(S, m)
  <2>1. SUFFICES ASSUME ~\E m : Greatest(S, m) PROVE FALSE
    OBVIOUS
  <2>2. FiniteSubsetsOf(S) = SUBSET S
    BY FS_FiniteSubsetsOfFinite
  <2>3. S \in T /\ T \subseteq FiniteSubsetsOf(S) /\ T # {}
    BY <2>1, <2>2
  <2>4. IsWellFoundedOn(StrictSubsetOrdering(S), FiniteSubsetsOf(S))
    BY FS_StrictSubsetOrderingWellFounded
  <2>. HIDE DEF T
  <2>5. PICK U \in T : \A V \in T : ~(<<V, U>> \in StrictSubsetOrdering(S))
    BY <2>3, <2>4, WFMin
  <2>6. U \subseteq S /\ U # {} /\ ~\E m : Greatest(U, m)
    BY <2>2, <2>5 DEF T
  <2>7. PICK x : x \in U
    BY <2>6
  <2>. DEFINE V == U \ {x}
  <2>8. V \subseteq S /\ <<V, U>> \in StrictSubsetOrdering(S)
    BY <2>6, <2>7 DEF StrictSubsetOrdering
  <2>9. V \notin T
    BY <2>5, <2>8
  <2>10. V # {}
    <3>1. ASSUME V = {} PROVE Greatest(U, x)
      BY <2>6, <2>7, <3>1
    <3>. QED
      BY <2>6, <3>1
  <2>11. PICK m : Greatest(V, m)
    BY <2>2, <2>8, <2>9, <2>10 DEF T
  <2>12. Greatest(U, IF m >= x THEN m ELSE x)
    BY <2>6, <2>7, <2>11
  <2>. QED
    BY <2>6, <2>12
<1>2. Greatest(S, Max(S))
  BY <1>1 DEF Max
<1>. QED
  BY <1>2

\* The number of wire lengths of the segment that has most of them.
Each == Max({WireLengths(s) : s \in DOMAIN Segment})

\* It is at least that of every segment.
LEMMA EachFacts ==
  ASSUME NEW s \in DOMAIN Segment, IsFiniteSet(DOMAIN Segment)
  PROVE  /\ IsFiniteSet(DOMAIN Segment[s])
         /\ Each \in Nat /\ WireLengths(s) \in Nat /\ WireLengths(s) <= Each
<1>. DEFINE S == {WireLengths(t) : t \in DOMAIN Segment}
            f == [t \in DOMAIN Segment |-> WireLengths(t)]
<1>1. ASSUME NEW t \in DOMAIN Segment
      PROVE  IsFiniteSet(DOMAIN Segment[t]) /\ WireLengths(t) \in Nat
  <2>1. Segment[t] \in Seq(Instructions)
    BY TemplatesAssumption
  <2>2. DOMAIN Segment[t] = 1 .. Len(Segment[t]) /\ Len(Segment[t]) \in Nat
    BY <2>1
  <2>3. IsFiniteSet(DOMAIN Segment[t])
    BY <2>2, FS_Interval
  <2>. DEFINE W == {i \in DOMAIN Segment[t] : IsWireLength(Segment[t][i])}
  <2>4. IsFiniteSet(W)
    BY <2>3, FS_Subset
  <2>. QED
    BY <2>3, <2>4, FS_CardinalityType DEF WireLengths
<1>2. f \in Surjection(DOMAIN Segment, S)
  BY DEF Surjection
<1>3. IsFiniteSet(S)
  BY <1>2, FS_Surjection
<1>4. S \subseteq Nat /\ WireLengths(s) \in S
  BY <1>1
<1>. HIDE DEF S, f
<1>5. Max(S) \in S /\ WireLengths(s) <= Max(S)
  BY <1>3, <1>4, GreatestExists
<1>. QED
  BY <1>1, <1>4, <1>5 DEF Each, S

\* Twice the elements that so many bytes can pay for.
Worth(l) == Each * (l * (l - 1))

\* The wire lengths that an activation has still to read.
ToSize(a) ==
  {i \in DOMAIN Segment[a.seg] :
     /\ IsWireLength(Segment[a.seg][i])
     /\ i > a.pc \/ (i = a.pc /\ a.next = 0)}

\* The map of an activation pays for each of them as many elements as there
\* were bytes after its first.  Without a map every length is read off the wire
\* and pays for itself.
Owes(a) == IF a.carried THEN Cardinality(ToSize(a)) * (a.from - 1) ELSE 0

\* f adds up what the n activations of st owe: f[j] is for the j-th and all
\* that it runs in.
AddsUp(f, n, st) ==
  /\ f \in [1 .. n + 1 -> Nat] /\ f[n + 1] = 0
  /\ \A j \in 1 .. n : f[j] = f[j + 1] + Owes(st[j])

\* What was taken on, what can still be asked for and what l more bytes can pay
\* for are within what the frame was worth.
Paid(n, st, el, l) ==
  /\ \A j \in 1 .. n : st[j].carried => l < st[j].from
  /\ \E f : AddsUp(f, n, st) /\ 2 * (el + f[1]) + Worth(l) <= Worth(st[n].from)

WorkInv ==
  /\ Inv
  /\ Idle => elements = 0
  /\ ~Idle => Paid(Len(stack), stack, elements, left)

\* One byte more or less.
LEMMA WorthFacts ==
  ASSUME Each \in Nat, NEW l \in Nat
  PROVE  /\ Worth(l) \in Nat
         /\ l > 0 => /\ Each * (l - 1) \in Nat
                     /\ Worth(l) = Worth(l - 1) + 2 * (Each * (l - 1))
                     /\ Worth(l - 1) \in Nat /\ Worth(l - 1) <= Worth(l)
<1>1. ASSUME NEW e \in Nat, NEW k \in Nat
      PROVE  e * k \in Nat
  BY <1>1
<1>2. PICK e \in Nat : e = Each
  OBVIOUS
<1>3. \A k \in Nat : e * k \in Nat
  BY <1>1
<1>4. ASSUME NEW m \in Nat
      PROVE  m * (m - 1) \in Nat
  <2>1. CASE m = 0
    BY <2>1
  <2>2. CASE m > 0
    BY <1>1, <2>2
  <2>. QED
    BY <2>1, <2>2
<1>5. \A m \in Nat : Worth(m) \in Nat
  BY <1>2, <1>3, <1>4 DEF Worth
<1>6. ASSUME l > 0
      PROVE  e * (l * (l - 1)) = e * ((l - 1) * ((l - 1) - 1)) + 2 * (e * (l - 1))
  BY <1>6
<1>7. ASSUME l > 0
      PROVE  Each * (l - 1) \in Nat
  BY <1>2, <1>3, <1>7
<1>8. ASSUME l > 0
      PROVE  Worth(l) = Worth(l - 1) + 2 * (Each * (l - 1))
  BY <1>2, <1>6, <1>8 DEF Worth
<1>9. l > 0 => Worth(l - 1) \in Nat
  BY <1>5
<1>. HIDE DEF Worth
<1>10. l > 0 => Worth(l - 1) <= Worth(l)
  BY <1>5, <1>7, <1>8, <1>9
<1>. QED
  BY <1>5, <1>7, <1>8, <1>9, <1>10

\* What an activation can owe.
LEMMA OwesFacts ==
  ASSUME NEW a, IsActivation(a), a.carried => a.from > 0, IsFiniteSet(DOMAIN Segment)
  PROVE  /\ Owes(a) \in Nat
         /\ a.carried => Owes(a) <= Each * (a.from - 1)
         /\ ~a.carried => Owes(a) = 0
         /\ IsFiniteSet(ToSize(a)) /\ Cardinality(ToSize(a)) \in Nat
         /\ ToSize(a) # {} => Each > 0
<1>. DEFINE W == {i \in DOMAIN Segment[a.seg] : IsWireLength(Segment[a.seg][i])}
<1>1. /\ a.seg \in DOMAIN Segment /\ a.from \in Nat /\ a.carried \in BOOLEAN
  BY RouterAssumption DEF IsActivation
<1>2. /\ Each \in Nat /\ IsFiniteSet(DOMAIN Segment[a.seg])
      /\ Cardinality(W) <= Each
  BY <1>1, EachFacts DEF WireLengths
<1>3. IsFiniteSet(W) /\ Cardinality(W) \in Nat
  BY <1>2, FS_Subset, FS_CardinalityType
<1>4. ToSize(a) \subseteq W
  BY DEF ToSize
<1>. HIDE DEF W
<1>5. IsFiniteSet(ToSize(a)) /\ Cardinality(ToSize(a)) <= Cardinality(W)
  BY <1>3, <1>4, FS_Subset
<1>6. Cardinality(ToSize(a)) \in Nat
  BY <1>5, FS_CardinalityType
<1>7. Cardinality(ToSize(a)) <= Each
  BY <1>2, <1>3, <1>5, <1>6
<1>8. ToSize(a) # {} => Cardinality(ToSize(a)) # 0
  BY <1>5, FS_EmptySet
<1>9. ASSUME NEW k \in Nat, NEW e \in Nat, k <= e, NEW m \in Nat
      PROVE  k * m \in Nat /\ k * m <= e * m
  BY <1>9
<1>10. ASSUME a.carried
       PROVE  Owes(a) \in Nat /\ Owes(a) <= Each * (a.from - 1)
  <2>1. a.from - 1 \in Nat
    BY <1>1, <1>10
  <2>. QED
    BY <1>2, <1>6, <1>7, <1>9, <1>10, <2>1 DEF Owes
<1>11. ~a.carried => Owes(a) = 0
  BY DEF Owes
<1>. QED
  BY <1>2, <1>5, <1>6, <1>7, <1>8, <1>10, <1>11

\* The activation b is a, further on.
Further(a, b) ==
  /\ IsActivation(b) /\ b.seg = a.seg /\ b.carried = a.carried /\ b.from = a.from
  /\ \/ b.pc = a.pc + 1 /\ b.next = 0
     \/ b.pc = a.pc /\ b.next > 0

\* It owes no more, and less by the length it has read.
LEMMA OwesLess ==
  ASSUME NEW a, IsActivation(a), a.carried => a.from > 0, IsFiniteSet(DOMAIN Segment),
         NEW b, Further(a, b)
  PROVE  /\ Owes(b) \in Nat /\ Owes(b) <= Owes(a)
         /\ a.pc \in ToSize(a) /\ a.carried => Owes(b) = Owes(a) - (a.from - 1)
<1>1. /\ Segment[a.seg] \in Seq(Instructions) /\ a.from \in Nat
      /\ a.pc \in Nat /\ a.next \in Nat /\ a.carried \in BOOLEAN
      /\ b.next \in Nat /\ b.seg = a.seg /\ b.carried = a.carried /\ b.from = a.from
      /\ IsActivation(b)
  BY TemplatesAssumption, RouterAssumption DEF IsActivation, Further
<1>2. DOMAIN Segment[a.seg] \subseteq Nat
  BY <1>1
<1>3. ToSize(b) = ToSize(a) \ {a.pc}
  BY <1>1, <1>2 DEF ToSize, Further
<1>4. /\ Owes(a) \in Nat /\ IsFiniteSet(ToSize(a)) /\ Cardinality(ToSize(a)) \in Nat
      /\ Owes(b) \in Nat
  BY <1>1, OwesFacts
<1>5. Cardinality(ToSize(b)) =
        IF a.pc \in ToSize(a) THEN Cardinality(ToSize(a)) - 1 ELSE Cardinality(ToSize(a))
  BY <1>3, <1>4, FS_RemoveElement
<1>6. ASSUME a.carried, a.pc \in ToSize(a)
      PROVE  Owes(b) = Owes(a) - (a.from - 1)
  <2>1. PICK k \in Nat : k = Cardinality(ToSize(a))
    BY <1>4
  <2>2. PICK m \in Nat : m = a.from - 1
    BY <1>1, <1>6
  <2>3. Owes(a) = k * m /\ Owes(b) = (k - 1) * m
    BY <1>1, <1>5, <1>6, <2>1, <2>2 DEF Owes
  <2>4. (k - 1) * m = k * m - m
    OBVIOUS
  <2>. QED
    BY <2>2, <2>3, <2>4
<1>7. ASSUME ~(a.carried /\ a.pc \in ToSize(a))
      PROVE  Owes(b) = Owes(a)
  BY <1>1, <1>5, <1>7 DEF Owes
<1>. QED
  BY <1>1, <1>4, <1>6, <1>7

-----------------------------------------------------------------------------
(* Sums over the stack.                                                    *)

\* A sum is a number, of which the first activation has its part.
LEMMA SumFacts ==
  ASSUME NEW n \in Nat \ {0}, NEW st, NEW f, AddsUp(f, n, st)
  PROVE  f[1] \in Nat /\ f[2] \in Nat /\ f[1] = f[2] + Owes(st[1])
<1>1. 1 \in 1 .. n + 1 /\ 2 \in 1 .. n + 1 /\ 1 \in 1 .. n /\ 1 + 1 = 2
  OBVIOUS
<1>. QED
  BY <1>1 DEF AddsUp

\* How one stack comes from another: with another top, one more activation,
\* or one less.
Replaced(n, st, st2) == \A j \in 2 .. n : st2[j] = st[j]
Pushed(n, st, st2)   == \A j \in 2 .. n + 1 : st2[j] = st[j - 1]
Popped(n, st, st2)   == \A j \in 1 .. n : st2[j] = st[j + 1]

\* The sum after the first activation has changed.
LEMMA SumMoves ==
  ASSUME NEW n \in Nat \ {0}, NEW st, NEW st2, Replaced(n, st, st2),
         NEW f, AddsUp(f, n, st), Owes(st2[1]) \in Nat
  PROVE  \E g : AddsUp(g, n, st2) /\ g[1] = f[2] + Owes(st2[1])
<1>. DEFINE v == f[2] + Owes(st2[1])
            g == [f EXCEPT ![1] = v]
<1>1. f \in [1 .. n + 1 -> Nat] /\ v \in Nat
  BY SumFacts DEF AddsUp
<1>. HIDE DEF v
<1>2. /\ g \in [1 .. n + 1 -> Nat] /\ g[1] = v
      /\ \A j \in 2 .. n + 1 : g[j] = f[j]
  BY <1>1
<1>. HIDE DEF g
<1>3. g[n + 1] = 0
  BY <1>2 DEF AddsUp
<1>4. ASSUME NEW j \in 1 .. n
      PROVE  g[j] = g[j + 1] + Owes(st2[j])
  <2>1. g[j + 1] = f[j + 1]
    BY <1>2
  <2>2. CASE j = 1
    BY <1>2, <2>1, <2>2 DEF v
  <2>3. CASE j # 1
    <3>1. j \in 2 .. n /\ j \in 2 .. n + 1 /\ st2[j] = st[j]
      BY <2>3 DEF Replaced
    <3>2. f[j] = f[j + 1] + Owes(st[j])
      BY DEF AddsUp
    <3>. QED
      BY <1>2, <2>1, <3>1, <3>2
  <2>. QED
    BY <2>2, <2>3
<1>5. AddsUp(g, n, st2)
  BY <1>2, <1>3, <1>4 DEF AddsUp
<1>. QED
  BY <1>2, <1>5 DEF v

\* The sum with one more activation.
LEMMA SumGrows ==
  ASSUME NEW n \in Nat, NEW st, NEW st2, Pushed(n, st, st2),
         NEW f, AddsUp(f, n, st), Owes(st2[1]) \in Nat
  PROVE  \E g : AddsUp(g, n + 1, st2) /\ g[1] = f[1] + Owes(st2[1])
<1>. DEFINE v == f[1] + Owes(st2[1])
            g == [j \in 1 .. (n + 1) + 1 |-> IF j = 1 THEN v ELSE f[j - 1]]
<1>1. f \in [1 .. n + 1 -> Nat] /\ v \in Nat
  <2>1. f \in [1 .. n + 1 -> Nat] /\ 1 \in 1 .. n + 1
    BY DEF AddsUp
  <2>. QED
    BY <2>1
<1>. HIDE DEF v
<1>2. ASSUME NEW j \in 1 .. (n + 1) + 1, j # 1
      PROVE  j - 1 \in 1 .. n + 1
  BY <1>2
<1>3. g \in [1 .. (n + 1) + 1 -> Nat]
  BY <1>1, <1>2
<1>4. /\ g[1] = v
      /\ \A j \in 1 .. n + 1 : g[j + 1] = f[j]
  OBVIOUS
<1>. HIDE DEF g
<1>5. g[(n + 1) + 1] = 0
  BY <1>4 DEF AddsUp
<1>6. ASSUME NEW j \in 1 .. n + 1
      PROVE  g[j] = g[j + 1] + Owes(st2[j])
  <2>1. CASE j = 1
    BY <1>4, <2>1 DEF v
  <2>2. CASE j # 1
    <3>1. PICK k \in 1 .. n : j = k + 1
      BY <2>2
    <3>2. g[k + 1] = f[k] /\ g[(k + 1) + 1] = f[k + 1]
      BY <1>4
    <3>3. st2[k + 1] = st[k]
      <4>1. k + 1 \in 2 .. n + 1 /\ (k + 1) - 1 = k
        OBVIOUS
      <4>. QED
        BY <4>1 DEF Pushed
    <3>4. f[k] = f[k + 1] + Owes(st[k])
      BY DEF AddsUp
    <3>. QED
      BY <3>1, <3>2, <3>3, <3>4
  <2>. QED
    BY <2>1, <2>2
<1>7. AddsUp(g, n + 1, st2)
  BY <1>3, <1>5, <1>6 DEF AddsUp
<1>. QED
  BY <1>4, <1>7 DEF v

\* The sum without the first activation.
LEMMA SumShrinks ==
  ASSUME NEW n \in Nat, NEW st, NEW st2, Popped(n, st, st2),
         NEW f, AddsUp(f, n + 1, st)
  PROVE  \E g : AddsUp(g, n, st2) /\ g[1] = f[2]
<1>. DEFINE g == [j \in 1 .. n + 1 |-> f[j + 1]]
<1>1. /\ f \in [1 .. (n + 1) + 1 -> Nat] /\ f[(n + 1) + 1] = 0
      /\ \A j \in 1 .. n + 1 : f[j] = f[j + 1] + Owes(st[j])
  BY DEF AddsUp
<1>2. g \in [1 .. n + 1 -> Nat] /\ \A j \in 1 .. n + 1 : g[j] = f[j + 1]
  BY <1>1
<1>. HIDE DEF g
<1>3. g[n + 1] = 0 /\ g[1] = f[1 + 1]
  BY <1>1, <1>2
<1>4. ASSUME NEW j \in 1 .. n
      PROVE  g[j] = g[j + 1] + Owes(st2[j])
  <2>1. g[j] = f[j + 1] /\ g[j + 1] = f[(j + 1) + 1]
    BY <1>2
  <2>2. f[j + 1] = f[(j + 1) + 1] + Owes(st[j + 1])
    BY <1>1
  <2>3. st2[j] = st[j + 1]
    BY DEF Popped
  <2>. QED
    BY <2>1, <2>2, <2>3
<1>5. AddsUp(g, n, st2)
  BY <1>2, <1>3, <1>4 DEF AddsUp
<1>. QED
  BY <1>3, <1>5

\* The innermost activation goes further, and what it takes on it pays for.
LEMMA PaidMoves ==
  ASSUME Each \in Nat, NEW n \in Nat \ {0}, NEW st, NEW st2,
         NEW a, a = st[1], NEW b, b = st2[1], Replaced(n, st, st2),
         b.from = a.from, b.carried = a.carried, Owes(a) \in Nat, Owes(b) \in Nat,
         \A j \in 1 .. n : st[j].from \in Nat,
         NEW el \in Nat, NEW el2 \in Nat, NEW l \in Nat, NEW l2 \in Nat, l2 <= l,
         Paid(n, st, el, l),
         2 * (el2 + Owes(b)) + Worth(l2) <= 2 * (el + Owes(a)) + Worth(l)
  PROVE  Paid(n, st2, el2, l2)
<1>1. PICK f : AddsUp(f, n, st) /\ 2 * (el + f[1]) + Worth(l) <= Worth(st[n].from)
  BY DEF Paid
<1>2. PICK g : AddsUp(g, n, st2) /\ g[1] = f[2] + Owes(b)
  BY <1>1, SumMoves
<1>3. f[1] \in Nat /\ f[2] \in Nat /\ f[1] = f[2] + Owes(a)
  BY <1>1, SumFacts
<1>4. \A j \in 1 .. n : st2[j].from = st[j].from /\ st2[j].carried = st[j].carried
  <2>. SUFFICES ASSUME NEW j \in 1 .. n
                PROVE  st2[j].from = st[j].from /\ st2[j].carried = st[j].carried
    OBVIOUS
  <2>1. CASE j = 1
    BY <2>1
  <2>2. CASE j # 1
    <3>1. j \in 2 .. n
      BY <2>2
    <3>. QED
      BY <3>1 DEF Replaced
  <2>. QED
    BY <2>1, <2>2
<1>5. n \in 1 .. n
  OBVIOUS
<1>6. Worth(l) \in Nat /\ Worth(l2) \in Nat /\ Worth(st[n].from) \in Nat
  <2>1. st[n].from \in Nat
    BY <1>5
  <2>. QED
    BY <2>1, WorthFacts
<1>7. 2 * (el2 + g[1]) + Worth(l2) <= Worth(st2[n].from)
  <2>1. st2[n].from = st[n].from
    BY <1>4, <1>5
  <2>. QED
    BY <1>1, <1>2, <1>3, <1>6, <2>1
<1>8. \A j \in 1 .. n : st2[j].carried => l2 < st2[j].from
  BY <1>4 DEF Paid
<1>. QED
  BY <1>2, <1>7, <1>8 DEF Paid

\* A method is called, and pays with its map, if it has one.
LEMMA PaidCalls ==
  ASSUME Each \in Nat, NEW n \in Nat \ {0}, NEW st, NEW st2, NEW c, c = st2[1],
         Pushed(n, st, st2),
         Owes(c) \in Nat, \A j \in 1 .. n : st[j].from \in Nat, Owes(st[1]) \in Nat,
         NEW el \in Nat, NEW l \in Nat, NEW l2 \in Nat, l2 <= l,
         c.carried => l2 < c.from,
         2 * Owes(c) + Worth(l2) <= Worth(l),
         Paid(n, st, el, l)
  PROVE  Paid(n + 1, st2, el, l2)
<1>1. PICK f : AddsUp(f, n, st) /\ 2 * (el + f[1]) + Worth(l) <= Worth(st[n].from)
  BY DEF Paid
<1>2. PICK g : AddsUp(g, n + 1, st2) /\ g[1] = f[1] + Owes(c)
  BY <1>1, SumGrows
<1>3. f[1] \in Nat
  BY <1>1, SumFacts
<1>4. n \in 1 .. n /\ n + 1 \in 2 .. n + 1 /\ (n + 1) - 1 = n
  OBVIOUS
<1>5. Worth(l) \in Nat /\ Worth(l2) \in Nat /\ Worth(st[n].from) \in Nat
  BY <1>4, WorthFacts
<1>6. 2 * (el + g[1]) + Worth(l2) <= Worth(st2[n + 1].from)
  <2>1. st2[n + 1] = st[n]
    BY <1>4 DEF Pushed
  <2>. QED
    BY <1>1, <1>2, <1>3, <1>5, <2>1
<1>7. ASSUME NEW j \in 1 .. n + 1, st2[j].carried
      PROVE  l2 < st2[j].from
  <2>1. CASE j = 1
    BY <1>7, <2>1
  <2>2. CASE j # 1
    <3>1. j \in 2 .. n + 1 /\ j - 1 \in 1 .. n
      BY <2>2
    <3>2. st2[j] = st[j - 1] /\ st[j - 1].from \in Nat
      BY <3>1 DEF Pushed
    <3>3. l < st[j - 1].from
      BY <1>7, <3>1, <3>2 DEF Paid
    <3>. QED
      BY <3>2, <3>3
  <2>. QED
    BY <2>1, <2>2
<1>. QED
  BY <1>2, <1>6, <1>7 DEF Paid

\* A method returns, and what it owed is forgiven.
LEMMA PaidLeaves ==
  ASSUME Each \in Nat, NEW n \in Nat \ {0}, NEW st, NEW st2,
         Popped(n, st, st2),
         Owes(st[1]) \in Nat, \A j \in 1 .. n + 1 : st[j].from \in Nat,
         NEW el \in Nat, NEW l \in Nat, Paid(n + 1, st, el, l)
  PROVE  Paid(n, st2, el, l)
<1>1. PICK f : /\ AddsUp(f, n + 1, st)
               /\ 2 * (el + f[1]) + Worth(l) <= Worth(st[n + 1].from)
  BY DEF Paid
<1>2. PICK g : AddsUp(g, n, st2) /\ g[1] = f[2]
  BY <1>1, SumShrinks
<1>3. f[1] \in Nat /\ f[2] \in Nat /\ f[1] = f[2] + Owes(st[1])
  BY <1>1, SumFacts
<1>4. n \in 1 .. n /\ n + 1 \in 1 .. n + 1
  OBVIOUS
<1>5. Worth(l) \in Nat /\ Worth(st[n + 1].from) \in Nat
  <2>1. st[n + 1].from \in Nat
    BY <1>4
  <2>. QED
    BY <2>1, WorthFacts
<1>6. 2 * (el + g[1]) + Worth(l) <= Worth(st2[n].from)
  <2>1. st2[n] = st[n + 1]
    BY <1>4 DEF Popped
  <2>. QED
    BY <1>1, <1>2, <1>3, <1>5, <2>1
<1>7. ASSUME NEW j \in 1 .. n, st2[j].carried
      PROVE  l < st2[j].from
  <2>1. j + 1 \in 1 .. n + 1 /\ st2[j] = st[j + 1]
    BY DEF Popped
  <2>. QED
    BY <1>7, <2>1 DEF Paid
<1>. QED
  BY <1>2, <1>6, <1>7 DEF Paid

\* The body of a message starts with the whole frame to spend.
LEMMA PaidStarts ==
  ASSUME Each \in Nat, NEW st, NEW c, st[1] = c, Owes(c) \in Nat, c.from \in Nat,
         NEW l \in Nat, l < c.from, 2 * Owes(c) + Worth(l) <= Worth(c.from)
  PROVE  Paid(1, st, 0, l)
<1>. DEFINE g == [j \in 1 .. 2 |-> IF j = 1 THEN Owes(c) ELSE 0]
<1>1. g \in [1 .. 2 -> Nat] /\ g[1] = Owes(c) /\ g[2] = 0
  OBVIOUS
<1>. HIDE DEF g
<1>2. AddsUp(g, 1, st)
  <2>1. ASSUME NEW j \in 1 .. 1
        PROVE  j = 1 /\ j + 1 = 2
    OBVIOUS
  <2>2. \A j \in 1 .. 1 : g[j] = g[j + 1] + Owes(st[j])
    BY <1>1, <2>1
  <2>3. 1 + 1 = 2
    OBVIOUS
  <2>. QED
    BY <1>1, <2>2, <2>3 DEF AddsUp
<1>3. 2 * (0 + g[1]) + Worth(l) <= Worth(st[1].from)
  BY <1>1
<1>4. \A j \in 1 .. 1 : st[j].carried => l < st[j].from
  OBVIOUS
<1>. QED
  BY <1>2, <1>3, <1>4 DEF Paid

-----------------------------------------------------------------------------
(* Every statement pays for the elements it takes on.                      *)

\* What is taken on, asked for and left are numbers.
LEMMA WorkFacts ==
  ASSUME Inv, ~Idle, Paid(Len(stack), stack, elements, left)
  PROVE  /\ Each \in Nat /\ left \in Nat /\ elements \in Nat
         /\ \A j \in 1 .. Len(stack) : stack[j].from \in Nat
         /\ Top = stack[1] /\ IsActivation(Top) /\ Top.from \in Nat
         /\ Top.carried => left < Top.from /\ Top.from > 0
         /\ Owes(Top) \in Nat
<1>1. /\ Len(stack) \in Nat /\ DOMAIN stack = 1 .. Len(stack) /\ Len(stack) # 0
      /\ Top = stack[1] /\ IsActivation(Top)
  BY StackFacts DEF Inv
<1>2. \A j \in 1 .. Len(stack) : IsActivation(stack[j])
  BY <1>1 DEF Inv, StackOK
<1>3. \A j \in 1 .. Len(stack) : stack[j].from \in Nat
  BY <1>2, RouterAssumption DEF IsActivation
<1>4. left \in Nat /\ elements \in Nat
  BY RouterAssumption DEF Inv, CallOK
<1>5. 1 \in 1 .. Len(stack) /\ Top.from \in Nat
  BY <1>1, <1>3
<1>6. Top.carried => left < Top.from
  BY <1>1, <1>5 DEF Paid
<1>7. Top.carried => Top.from > 0
  BY <1>4, <1>5, <1>6
<1>8. Owes(Top) \in Nat
  BY <1>1, <1>7, OwesFacts, RouterAssumption
<1>9. Each \in Nat
  BY <1>1, EachFacts, RouterAssumption DEF IsActivation
<1>. QED
  BY <1>1, <1>3, <1>4, <1>5, <1>6, <1>7, <1>8, <1>9

\* A statement that goes further, and pays for what it takes on.
LEMMA ContinuePays ==
  ASSUME Inv, ~Idle, Paid(Len(stack), stack, elements, left),
         NEW b, Continue(b), Further(Top, b),
         NEW el \in Nat, elements' = el, NEW l \in Nat, left' = l, l <= left,
         2 * (el + Owes(b)) + Worth(l) <= 2 * (elements + Owes(Top)) + Worth(left)
  PROVE  Paid(Len(stack'), stack', elements', left')
<1>1. /\ Len(stack) \in Nat \ {0} /\ Len(stack') = Len(stack) /\ stack'[1] = b
      /\ Replaced(Len(stack), stack, stack')
  BY ContinueShape DEF Inv, Replaced
<1>2. /\ Each \in Nat /\ left \in Nat /\ elements \in Nat
      /\ \A j \in 1 .. Len(stack) : stack[j].from \in Nat
      /\ Top = stack[1] /\ IsActivation(Top)
      /\ (Top.carried => Top.from > 0)
      /\ Owes(Top) \in Nat
  BY WorkFacts
<1>3. Owes(b) \in Nat
  BY <1>2, OwesLess, RouterAssumption
<1>4. b.from = Top.from /\ b.carried = Top.carried
  BY DEF Further
<1>5. PICK n : n = Len(stack)
  OBVIOUS
<1>6. /\ n \in Nat \ {0} /\ Replaced(n, stack, stack') /\ Paid(n, stack, elements, left)
      /\ \A j \in 1 .. n : stack[j].from \in Nat
  BY <1>1, <1>2, <1>5
<1>7. Paid(n, stack', el, l)
  BY <1>1, <1>2, <1>3, <1>4, <1>6, PaidMoves
<1>. QED
  BY <1>1, <1>5, <1>7

\* A statement that takes nothing on.
LEMMA PlainStepPays ==
  ASSUME Inv, ~Idle, Paid(Len(stack), stack, elements, left),
         NEW b, Continue(b), Further(Top, b), elements' = elements,
         left' = left \/ (left > 0 /\ left' = left - 1)
  PROVE  Paid(Len(stack'), stack', elements', left')
<1>1. /\ Each \in Nat /\ left \in Nat /\ elements \in Nat
      /\ IsActivation(Top) /\ (Top.carried => Top.from > 0)
      /\ Owes(Top) \in Nat
  BY WorkFacts
<1>2. Owes(b) \in Nat /\ Owes(b) <= Owes(Top)
  BY <1>1, OwesLess, RouterAssumption
<1>3. PICK el, l : el = elements /\ l = left'
  OBVIOUS
<1>4. /\ el \in Nat /\ l \in Nat /\ l <= left
      /\ Worth(left) \in Nat /\ Worth(l) \in Nat /\ Worth(l) <= Worth(left)
  <2>1. /\ Worth(left) \in Nat
        /\ left > 0 => Worth(left - 1) \in Nat /\ Worth(left - 1) <= Worth(left)
    BY <1>1, WorthFacts
  <2>2. el \in Nat /\ l \in Nat /\ l <= left
    BY <1>1, <1>3
  <2>3. l = left \/ (left > 0 /\ l = left - 1)
    BY <1>3
  <2>. QED
    BY <2>1, <2>2, <2>3
<1>5. 2 * (el + Owes(b)) + Worth(l) <= 2 * (elements + Owes(Top)) + Worth(left)
  BY <1>1, <1>2, <1>3, <1>4
<1>. QED
  BY <1>3, <1>4, <1>5, ContinuePays

\* A method that is called, with a map that pays for its lengths or without.
LEMMA CallPays ==
  ASSUME Inv, ~Idle, Paid(Len(stack), stack, elements, left),
         NEW s \in DOMAIN Segment, NEW at, IsPath(at), Len(at) # 1, NEW b, Further(Top, b), NEW flags,
         Call(s, at, b, flags), ~Idle'
  PROVE  Paid(Len(stack'), stack', elements', left')
<1>. DEFINE needs == segmentNeedsPMAP(s)
            callee == Activation(s, at, needs, 0)
<1>1. /\ ~(needs /\ left = 0)
      /\ left' = IF needs THEN left - 1 ELSE left
      /\ stack' = <<callee, b>> \o Tail(stack)
      /\ elements' = elements
  BY DEF Call, Abandon, Return, Idle
<1>2. IsActivation(callee) /\ callee.carried = needs /\ callee.from = left
  <2>1. IsActivation(callee)
    BY CalledActivation DEF Inv, CallOK
  <2>. QED
    BY <2>1 DEF Activation
<1>. HIDE DEF callee, needs
<1>3. /\ Each \in Nat /\ left \in Nat /\ elements \in Nat
      /\ \A j \in 1 .. Len(stack) : stack[j].from \in Nat
      /\ Top = stack[1] /\ IsActivation(Top)
      /\ (Top.carried => Top.from > 0)
      /\ Owes(Top) \in Nat
  BY WorkFacts
<1>4. /\ Owes(b) \in Nat /\ Owes(b) <= Owes(Top)
      /\ b.from = Top.from /\ b.carried = Top.carried
  BY <1>3, OwesLess, RouterAssumption DEF Further
<1>5. PICK l, c : l = left' /\ c = callee
  OBVIOUS
<1>6. needs \in BOOLEAN
  BY <1>2 DEF IsActivation
<1>7. /\ l \in Nat /\ l <= left /\ (c.carried => l < c.from)
      /\ Worth(left) \in Nat /\ Worth(l) \in Nat
      /\ Owes(c) \in Nat /\ 2 * Owes(c) + Worth(l) <= Worth(left)
  <2>1. /\ Owes(c) \in Nat /\ (c.carried => Owes(c) <= Each * (left - 1))
        /\ (~c.carried => Owes(c) = 0)
    <3>1. IsActivation(c) /\ c.from = left /\ (c.carried => c.from > 0)
      BY <1>1, <1>2, <1>3, <1>5
    <3>2. /\ Owes(c) \in Nat /\ (c.carried => Owes(c) <= Each * (c.from - 1))
          /\ (~c.carried => Owes(c) = 0)
      BY <3>1, OwesFacts, RouterAssumption
    <3>. QED
      BY <3>1, <3>2
  <2>2. CASE needs
    <3>1. left > 0 /\ l = left - 1
      BY <1>1, <1>3, <1>5, <2>2
    <3>2. /\ Each * (left - 1) \in Nat /\ Worth(left) \in Nat /\ Worth(l) \in Nat
          /\ Worth(left) = Worth(l) + 2 * (Each * (left - 1))
      BY <1>3, <3>1, WorthFacts
    <3>3. PICK e \in Nat : e = Each * (left - 1)
      BY <3>2
    <3>4. Owes(c) <= e /\ Worth(left) = Worth(l) + 2 * e
      BY <1>2, <1>5, <2>1, <2>2, <3>2, <3>3
    <3>5. c.from = left /\ l \in Nat /\ l <= left /\ l < c.from
      BY <1>2, <1>3, <1>5, <3>1
    <3>6. Owes(c) \in Nat /\ 2 * Owes(c) + Worth(l) <= Worth(left)
      BY <2>1, <3>2, <3>3, <3>4
    <3>. QED
      BY <3>2, <3>5, <3>6
  <2>3. CASE ~needs
    <3>1. l = left /\ Owes(c) = 0 /\ ~c.carried
      BY <1>1, <1>2, <1>5, <2>1, <2>3
    <3>2. Worth(left) \in Nat
      BY <1>3, WorthFacts
    <3>. QED
      BY <1>3, <3>1, <3>2
  <2>. QED
    BY <2>2, <2>3
<1>8. PICK n : n = Len(stack)
  OBVIOUS
<1>9. /\ n \in Nat \ {0} /\ Len(stack') = n + 1 /\ stack'[1] = c /\ stack'[2] = b
      /\ \A j \in 3 .. n + 1 : stack'[j] = stack[j - 1]
      /\ Paid(n, stack, elements, left)
      /\ \A j \in 1 .. n : stack[j].from \in Nat
  BY <1>1, <1>3, <1>5, <1>8, CallShape DEF Inv
<1>10. PICK m : m = [j \in 1 .. n |-> IF j = 1 THEN b ELSE stack[j]]
  OBVIOUS
<1>11. m[1] = b /\ \A j \in 2 .. n : m[j] = stack[j]
  BY <1>9, <1>10
<1>12. Paid(n, m, elements, left)
  <2>1. Worth(left) \in Nat
    BY <1>3, WorthFacts
  <2>2. 2 * (elements + Owes(b)) + Worth(left) <= 2 * (elements + Owes(Top)) + Worth(left)
    BY <1>3, <1>4, <2>1
  <2>3. Replaced(n, stack, m)
    BY <1>11 DEF Replaced
  <2>4. left <= left
    BY <1>3
  <2>. QED
    BY <1>3, <1>4, <1>9, <1>11, <2>2, <2>3, <2>4, PaidMoves
<1>13. Pushed(n, m, stack')
  <2>. SUFFICES ASSUME NEW j \in 2 .. n + 1
                PROVE  stack'[j] = m[j - 1]
    BY DEF Pushed
  <2>1. CASE j = 2
    BY <1>9, <1>11, <2>1
  <2>2. CASE j # 2
    <3>1. j \in 3 .. n + 1 /\ j - 1 \in 2 .. n
      BY <1>9, <2>2
    <3>. QED
      BY <1>9, <1>11, <3>1
  <2>. QED
    BY <2>1, <2>2
<1>14. \A j \in 1 .. n : m[j].from \in Nat
  <2>. SUFFICES ASSUME NEW j \in 1 .. n
                PROVE  m[j].from \in Nat
    OBVIOUS
  <2>1. CASE j = 1
    <3>1. 1 \in 1 .. n
      BY <1>9
    <3>. QED
      BY <1>3, <1>4, <1>9, <1>11, <2>1, <3>1
  <2>2. CASE j # 1
    <3>1. j \in 2 .. n
      BY <1>9, <2>2
    <3>. QED
      BY <1>9, <1>11, <3>1
  <2>. QED
    BY <2>1, <2>2
<1>15. Paid(n + 1, stack', elements, l)
  BY <1>2, <1>3, <1>4, <1>5, <1>7, <1>9, <1>11, <1>12, <1>13, <1>14, PaidCalls
<1>. QED
  BY <1>1, <1>5, <1>9, <1>15

\* A method that returns to its caller.
LEMMA ReturnPays ==
  ASSUME Inv, ~Idle, Paid(Len(stack), stack, elements, left), Len(stack) # 1,
         stack' = Tail(stack), elements' = elements, left' = left
  PROVE  Paid(Len(stack'), stack', elements', left')
<1>1. /\ Each \in Nat /\ left \in Nat /\ elements \in Nat
      /\ \A j \in 1 .. Len(stack) : stack[j].from \in Nat
      /\ Top = stack[1] /\ Owes(Top) \in Nat
  BY WorkFacts
<1>2. PICK n : n = Len(stack) - 1
  OBVIOUS
<1>3. /\ n \in Nat \ {0} /\ Len(stack) = n + 1 /\ Len(stack') = n
      /\ \A j \in 1 .. n : stack'[j] = stack[j + 1]
  BY <1>2, ReturnShape DEF Inv
<1>4. /\ Popped(n, stack, stack') /\ Paid(n + 1, stack, elements, left)
      /\ \A j \in 1 .. n + 1 : stack[j].from \in Nat
  BY <1>1, <1>3 DEF Popped
<1>5. Paid(n, stack', elements, left)
  BY <1>1, <1>3, <1>4, PaidLeaves
<1>. QED
  BY <1>3, <1>5

\* A result that delivers nothing delivers zero.
ZeroUnlessPresent(r) == r.present \/ r.val = 0

LEMMA AbsentIsZero ==
  ASSUME NEW f \in AllFields, NEW s \in Slots(f), NEW w, f.type = "uint"
  PROVE  ZeroUnlessPresent(DecodeInteger(w, f, s))
<1>1. f.op \in Operators /\ f.optional \in BOOLEAN /\ s.State \in States
  BY DEF AllFields, Slots
<1>2. ASSUME NEW x, NEW t, NEW v, NEW e
      PROVE  /\ ZeroUnlessPresent(Present(x, t, v))
             /\ ZeroUnlessPresent(Absent(x, t))
             /\ ZeroUnlessPresent(Fail(x, t, e))
  BY DEF ZeroUnlessPresent, Present, Absent, Fail
<1>3. ASSUME NEW x
      PROVE  /\ ZeroUnlessPresent(ResolveUndefined(x, f, s))
             /\ ZeroUnlessPresent(ResolveEmpty(x, f, s))
             /\ \A rd : /\ ZeroUnlessPresent(DeliverRead(rd, s))
                        /\ ZeroUnlessPresent(DeliverAndKeep(rd, s))
  BY <1>2 DEF ResolveUndefined, ResolveEmpty, DeliverRead, DeliverAndKeep
<1>4. ASSUME NEW x
      PROVE  /\ ZeroUnlessPresent(readUintPrevious(x, f, s))
             /\ ZeroUnlessPresent(resolveUintPrevious(x, f, s))
  BY <1>1, <1>2, <1>3 DEF readUintPrevious, resolveUintPrevious, States
<1>. DEFINE d == DecodeInteger(w, f, s)
<1>5. d = uintDecodeCall(w, f, s)
  BY DEF DecodeInteger
<1>. SUFFICES ZeroUnlessPresent(d)
  OBVIOUS
<1>. HIDE DEF d
<1>6. CASE f.op \in {"None", "Tail"}
  <2>1. d = DecodeUintNone(w, f, s)
    BY <1>5, <1>6 DEF uintDecodeCall
  <2>. QED
    BY <1>3, <2>1 DEF DecodeUintNone
<1>7. CASE f.op = "Constant"
  <2>1. d = DecodeUintConstant(w, f, s)
    BY <1>5, <1>7 DEF uintDecodeCall
  <2>. QED
    BY <1>2, <2>1 DEF DecodeUintConstant
<1>8. CASE f.op = "Default"
  <2>1. d = DecodeUintDefault(w, f, s)
    BY <1>5, <1>8 DEF uintDecodeCall
  <2>. QED
    BY <1>2, <1>3, <2>1 DEF DecodeUintDefault
<1>9. CASE f.op = "Copy"
  <2>1. d = DecodeUintCopy(w, f, s)
    BY <1>5, <1>9 DEF uintDecodeCall
  <2>. QED
    BY <1>4, <2>1 DEF DecodeUintCopy
<1>10. CASE f.op = "Increment"
  <2>1. ZeroUnlessPresent(DecodeUintIncrement(w, f, s))
    BY <1>1, <1>2, <1>3, <1>4 DEF DecodeUintIncrement, States
  <2>2. d = DecodeUintIncrement(w, f, s)
    BY <1>5, <1>10 DEF uintDecodeCall
  <2>. QED
    BY <2>1, <2>2
<1>11. CASE f.op = "Delta"
  <2>1. ZeroUnlessPresent(DecodeUintDelta(w, f, s))
    BY <1>2 DEF DecodeUintDelta
  <2>2. d = DecodeUintDelta(w, f, s)
    BY <1>5, <1>11 DEF uintDecodeCall
  <2>. QED
    BY <2>1, <2>2
<1>. QED
  BY <1>1, <1>6, <1>7, <1>8, <1>9, <1>10, <1>11 DEF Operators

\* Without a presence-map bit a length comes off the wire, a byte of it.
LEMMA LengthCostsAByte ==
  ASSUME NEW f \in AllFields, NEW s, f.type = "uint", f.op # "Constant",
         ~opUsesPMAPBit(f.op, f.optional), NEW b, NEW n, NEW bytes \in Nat,
         NEW r, r = DecodeInteger(WireOf(b, n, bytes), f, s), r.err = NoError
  PROVE  bytes > 0 /\ LeftAfter(r.wire, bytes) = bytes - 1
<1>. DEFINE w == WireOf(b, n, bytes)
<1>1. f.op \in {"None", "Delta"} /\ f.optional \in BOOLEAN
  BY DEF AllFields, Operators, opUsesPMAPBit
<1>2. r = uintDecodeCall(w, f, s)
  BY DEF DecodeInteger
<1>3. w.buf = IF bytes = 0 THEN <<>> ELSE <<n>>
  BY DEF WireOf
<1>4. Tail(<<n>>) = <<>> /\ <<n>> # <<>>
  OBVIOUS
<1>5. AfterEntity(w).buf = <<>>
  <2>1. w = [pm |-> <<b>>, buf |-> IF bytes = 0 THEN <<>> ELSE <<n>>]
    BY DEF WireOf
  <2>. QED
    BY <1>4, <2>1 DEF AfterEntity
<1>. HIDE DEF w
<1>6. ASSUME NEW rd, rd \in {ReadUintFor(w, f), readDelta(w, f.optional)}
      PROVE  /\ rd.wire = AfterEntity(w)
             /\ rd.err = NoError => w.buf # <<>>
  <2>1. ASSUME NEW fits
        PROVE  /\ ReadEntity(w, fits).wire = AfterEntity(w)
               /\ ReadEntity(w, fits).err = NoError => w.buf # <<>>
    BY DEF ReadEntity, EndOfStream, NoError
  <2>2. ASSUME NEW fits
        PROVE  LET e == ReadEntity(w, fits)
                   u == UndoNullableShift(e)
               IN  u.wire = e.wire /\ u.err = e.err
    BY DEF ReadEntity, UndoNullableShift
  <2>3. \E fits : rd \in {ReadEntity(w, fits), UndoNullableShift(ReadEntity(w, fits))}
    BY <1>6 DEF ReadUintFor, readDelta, ReadUint, ReadInt, ReadNullableUint, ReadNullableInt
  <2>. QED
    BY <2>1, <2>2, <2>3
<1>7. ASSUME NEW rd
      PROVE  /\ DeliverRead(rd, s).wire = rd.wire
             /\ DeliverRead(rd, s).err = NoError => rd.err = NoError
  BY DEF DeliverRead, Fail, Absent, Present
<1>8. r.wire = AfterEntity(w) /\ w.buf # <<>>
  <2>1. CASE f.op = "None"
    <3>1. r = DeliverRead(ReadUintFor(w, f), s)
      BY <1>2, <2>1 DEF uintDecodeCall, DecodeUintNone
    <3>. QED
      BY <1>6, <1>7, <3>1
  <2>2. CASE f.op = "Delta"
    <3>. DEFINE d == readDelta(w, f.optional)
    <3>1. r = DecodeUintDelta(w, f, s)
      BY <1>2, <2>2 DEF uintDecodeCall
    <3>2. r.wire = d.wire /\ (d.err # NoError => r.err = d.err)
      BY <3>1 DEF DecodeUintDelta, Fail, Absent, Present
    <3>. QED
      BY <1>6, <3>2
  <2>. QED
    BY <1>1, <2>1, <2>2
<1>9. bytes > 0 /\ r.wire.buf = <<>>
  BY <1>3, <1>5, <1>8
<1>. QED
  BY <1>9 DEF LeftAfter

\* What a statement does to its activation: on to the next statement.
LEMMA NextIsFurther ==
  ASSUME NEW a, IsActivation(a), a.pc <= Len(Segment[a.seg]), NEW used \in Nat
  PROVE  Further(a, [a EXCEPT !.pc = @ + 1, !.next = 0, !.used = used])
<1>. DEFINE b == [a EXCEPT !.pc = @ + 1, !.next = 0, !.used = used]
<1>1. /\ DOMAIN b = DOMAIN a
      /\ b.seg = a.seg /\ b.at = a.at /\ b.pc = a.pc + 1 /\ b.next = 0
      /\ b.carried = a.carried /\ b.used = used /\ b.from = a.from
  BY DEF IsActivation
<1>. HIDE DEF b
<1>2. Segment[a.seg] \in Seq(Instructions)
  BY TemplatesAssumption DEF IsActivation
<1>3. IsActivation(b)
  BY <1>1, <1>2 DEF IsActivation
<1>4. Further(a, b)
  BY <1>1, <1>3 DEF Further
<1>. QED
  BY <1>4 DEF b

\* Or to an element of its sequence.
LEMMA ElementIsFurther ==
  ASSUME NEW a, IsActivation(a), NEW next \in Nat \ {0}
  PROVE  /\ Further(a, [a EXCEPT !.next = next])
         /\ \A used \in Nat : Further(a, [a EXCEPT !.next = next, !.used = used])
<1>1. ASSUME NEW b, DOMAIN b = DOMAIN a, b.used \in Nat,
             b.seg = a.seg, b.at = a.at, b.pc = a.pc, b.next = next,
             b.carried = a.carried, b.from = a.from
      PROVE  Further(a, b)
  <2>1. IsActivation(b)
    BY <1>1 DEF IsActivation
  <2>2. next > 0
    OBVIOUS
  <2>. QED
    BY <1>1, <2>1, <2>2 DEF Further
<1>2. Further(a, [a EXCEPT !.next = next])
  <2>. DEFINE b == [a EXCEPT !.next = next]
  <2>1. /\ DOMAIN b = DOMAIN a /\ b.used \in Nat
        /\ b.seg = a.seg /\ b.at = a.at /\ b.pc = a.pc /\ b.next = next
        /\ b.carried = a.carried /\ b.from = a.from
    BY DEF IsActivation
  <2>. HIDE DEF b
  <2>2. Further(a, b)
    BY <1>1, <2>1
  <2>. QED
    BY <2>2 DEF b
<1>3. ASSUME NEW used \in Nat
      PROVE  Further(a, [a EXCEPT !.next = next, !.used = used])
  <2>. DEFINE b == [a EXCEPT !.next = next, !.used = used]
  <2>1. /\ DOMAIN b = DOMAIN a /\ b.used \in Nat
        /\ b.seg = a.seg /\ b.at = a.at /\ b.pc = a.pc /\ b.next = next
        /\ b.carried = a.carried /\ b.from = a.from
    BY DEF IsActivation
  <2>. HIDE DEF b
  <2>2. Further(a, b)
    BY <1>1, <2>1
  <2>. QED
    BY <2>2 DEF b
<1>. QED
  BY <1>2, <1>3

\* A read takes one byte, or there is none to take.
LEMMA ReadOrNot ==
  ASSUME NEW w, NEW bytes
  PROVE  LeftAfter(w, bytes) = bytes \/ (bytes > 0 /\ LeftAfter(w, bytes) = bytes - 1)
BY DEF LeftAfter

\* A field takes nothing on.
LEMMA FieldIsPaid ==
  ASSUME Inv, NEW b, NEW n, FieldStep(b, n), ~Idle',
         Paid(Len(stack), stack, elements, left)
  PROVE  Paid(Len(stack'), stack', elements', left')
<1>. DEFINE r == DecodeInteger(WireOf(b, n, left), Current.decl, Stored(Slot))
            a == ToNext(UsedAfter(r.wire))
<1>1. /\ ~Idle /\ ~Ended /\ Current.kind # "group" /\ Continue(a) /\ elements' = elements
      /\ left' = LeftAfter(r.wire, left)
  BY DEF FieldStep, Running, Abandon, Return, Idle
<1>2. UsedAfter(r.wire) \in Nat
  BY <1>1, FieldFacts
<1>3. IsActivation(Top) /\ Top.pc <= Len(Segment[Top.seg])
  BY <1>1, StatementFacts DEF Inv
<1>4. Further(Top, a)
  BY <1>2, <1>3, NextIsFurther DEF ToNext
<1>5. left' = left \/ (left > 0 /\ left' = left - 1)
  BY <1>1, ReadOrNot
<1>. HIDE DEF a, r
<1>. QED
  BY <1>1, <1>4, <1>5, PlainStepPays

\* Neither does a group, and its map pays for the lengths in it.
LEMMA GroupIsPaid ==
  ASSUME Inv, NEW d, GroupStep(d), ~Idle', Paid(Len(stack), stack, elements, left)
  PROVE  Paid(Len(stack'), stack', elements', left')
<1>. DEFINE used == IF Current.optional THEN Top.used + 1 ELSE Top.used
            flags == IF Current.optional THEN has \cup {Here} ELSE has
            b == ToNext(used)
<1>1. /\ ~Idle /\ ~Ended /\ Current.kind = "group"
      /\ IF Current.optional /\ ~d
         THEN Continue(b) /\ elements' = elements /\ left' = left
         ELSE Call(Current.seg, Here, b, flags)
  BY DEF GroupStep, Running
<1>2. /\ IsActivation(Top) /\ Top.used \in Nat /\ Top.pc <= Len(Segment[Top.seg])
      /\ IsPath(Here) /\ Len(Here) # 1 /\ Current.seg \in DOMAIN Segment
  BY <1>1, StatementFacts, InstructionFacts DEF Inv, Here
<1>3. Further(Top, b)
  <2>1. used \in Nat
    BY <1>2
  <2>. HIDE DEF used
  <2>. QED
    BY <1>2, <2>1, NextIsFurther DEF ToNext
<1>. HIDE DEF b, flags
<1>4. CASE Current.optional /\ ~d
  BY <1>1, <1>3, <1>4, PlainStepPays
<1>5. CASE ~(Current.optional /\ ~d)
  BY <1>1, <1>2, <1>3, <1>5, CallPays
<1>. QED
  BY <1>4, <1>5

\* An element of a sequence is called like a group.
LEMMA ElementIsPaid ==
  ASSUME Inv, ElementStep, ~Idle', Paid(Len(stack), stack, elements, left)
  PROVE  Paid(Len(stack'), stack', elements', left')
<1>. DEFINE next == Top.next + 1
            b == [Top EXCEPT !.next = next]
<1>1. /\ ~Idle /\ ~Ended /\ Current.kind = "sequence"
      /\ Call(Current.seg, Part(Top.next), b, has)
  BY DEF ElementStep, Running
<1>2. /\ IsActivation(Top) /\ Top.next \in Nat /\ Top.pc <= Len(Segment[Top.seg])
      /\ Top.used \in Nat /\ Current.seg \in DOMAIN Segment
      /\ IsPath(Part(Top.next)) /\ Len(Part(Top.next)) # 1
  BY <1>1, StatementFacts, InstructionFacts DEF Inv
<1>3. Further(Top, b)
  <2>1. next \in Nat \ {0}
    BY <1>2
  <2>. HIDE DEF next
  <2>. QED
    BY <1>2, <2>1, ElementIsFurther
<1>. HIDE DEF b
<1>. QED
  BY <1>1, <1>2, <1>3, CallPays

\* The end of a loop.
LEMMA SequenceEndIsPaid ==
  ASSUME Inv, SequenceEnd, Paid(Len(stack), stack, elements, left)
  PROVE  Paid(Len(stack'), stack', elements', left')
<1>. DEFINE b == ToNext(Top.used)
<1>1. ~Idle /\ ~Ended /\ Continue(b) /\ elements' = elements /\ left' = left
  BY DEF SequenceEnd, Running, history
<1>2. IsActivation(Top) /\ Top.used \in Nat /\ Top.pc <= Len(Segment[Top.seg])
  BY <1>1, StatementFacts DEF Inv
<1>3. Further(Top, b)
  BY <1>2, NextIsFurther DEF ToNext
<1>. HIDE DEF b
<1>. QED
  BY <1>1, <1>3, PlainStepPays

\* What both kinds of length do to the stack.
LEMMA SizingGoesFurther ==
  ASSUME Inv, ~Idle, ~Ended, NEW used \in Nat,
         SkipSequence(used) \/ \E n : EnterSequence(n, used)
  PROVE  \E b : Continue(b) /\ Further(Top, b)
<1>1. IsActivation(Top) /\ Top.pc <= Len(Segment[Top.seg])
  BY StatementFacts DEF Inv
<1>2. CASE SkipSequence(used)
  <2>1. Continue(ToNext(used))
    BY <1>2 DEF SkipSequence
  <2>2. Further(Top, ToNext(used))
    BY <1>1, NextIsFurther DEF ToNext
  <2>. QED
    BY <2>1, <2>2
<1>3. CASE \E n : EnterSequence(n, used)
  <2>. DEFINE first == 1
              b == [Top EXCEPT !.next = first, !.used = used]
  <2>1. Continue(b) /\ first \in Nat \ {0}
    BY <1>3 DEF EnterSequence
  <2>. HIDE DEF first
  <2>2. Further(Top, b)
    BY <1>1, <2>1, ElementIsFurther
  <2>. QED
    BY <2>1, <2>2
<1>. QED
  BY <1>2, <1>3

\* A constant length takes on nothing that was decoded.
LEMMA ConstantLengthIsPaid ==
  ASSUME Inv, NEW d, ConstantLengthStep(d), Paid(Len(stack), stack, elements, left)
  PROVE  Paid(Len(stack'), stack', elements', left')
<1>. DEFINE used == IF Current.decl.optional THEN Top.used + 1 ELSE Top.used
<1>1. /\ ~Idle /\ ~Ended /\ elements' = elements /\ left' = left
      /\ SkipSequence(used) \/ \E n : EnterSequence(n, used)
  BY DEF ConstantLengthStep, Running
<1>2. used \in Nat
  BY <1>1, StatementFacts DEF Inv
<1>. HIDE DEF used
<1>3. PICK b : Continue(b) /\ Further(Top, b)
  BY <1>1, <1>2, SizingGoesFurther
<1>. QED
  BY <1>1, <1>3, PlainStepPays

\* A length that is decoded pays for its elements, with the byte it was read
\* from or with the map that has let it out of the dictionary.
LEMMA LengthIsPaid ==
  ASSUME Inv, NEW b, NEW n, LengthStep(b, n), ~Idle',
         Paid(Len(stack), stack, elements, left)
  PROVE  Paid(Len(stack'), stack', elements', left')
<1>. DEFINE r == DecodeInteger(WireOf(b, n, left), Current.decl, Stored(Slot))
            used == UsedAfter(r.wire)
<1>1. ~Idle /\ ~Ended /\ Current.kind = "sequence" /\ Top.next = 0 /\ IsWireLength(Current)
  BY DEF LengthStep, Running
<1>2. /\ Current \in Instructions /\ Current = Segment[Top.seg][Top.pc]
      /\ Top.pc \in 1 .. Len(Segment[Top.seg]) /\ Top.seg \in DOMAIN Segment
      /\ BitsAreSpent(Top)
  BY <1>1, StatementFacts DEF Inv
<1>3. /\ Current.decl.type = "uint" /\ Current.decl \in AllFields
      /\ Current.decl.op # "Constant" /\ Stored(Slot) \in Slots(Current.decl)
  BY <1>1, <1>2, InstructionFacts, EntryFacts DEF IsWireLength
<1>4. uintDecodeCall(WireOf(b, n, left), Current.decl, Stored(Slot)) = r
  BY <1>3 DEF DecodeInteger
<1>5. /\ left' = LeftAfter(r.wire, left)
      /\ r.err = NoError /\ (r.present => r.val <= left')
      /\ SkipSequence(used) \/ \E m : EnterSequence(m, used)
      /\ elements' = elements + r.val
  BY <1>4 DEF LengthStep, Abandon, Return, Idle, LengthFits
<1>6. /\ r.val \in Values(Current.decl) /\ used \in Nat
      /\ ZeroUnlessPresent(r)
  BY <1>1, <1>3, FieldFacts, AbsentIsZero
<1>7. r.val \in Nat
  BY <1>3, <1>6, WidthAssumption DEF Values, Uint64
<1>8. PICK a : Continue(a) /\ Further(Top, a)
  BY <1>1, <1>5, <1>6, SizingGoesFurther
<1>9. /\ Each \in Nat /\ left \in Nat /\ elements \in Nat
      /\ IsActivation(Top) /\ Top.from \in Nat
      /\ (Top.carried => left < Top.from /\ Top.from > 0)
      /\ Owes(Top) \in Nat
  BY <1>1, WorkFacts
<1>10. Top.pc \in ToSize(Top) /\ Top.carried \in BOOLEAN
  <2>1. Top.pc \in DOMAIN Segment[Top.seg]
    BY <1>2, StepFacts
  <2>. QED
    BY <1>1, <1>2, <1>9, <2>1 DEF ToSize, IsActivation
<1>11. PICK v, l, el : v = r.val /\ l = left' /\ el = elements'
  OBVIOUS
<1>12. l = left \/ (left > 0 /\ l = left - 1)
  BY <1>5, <1>11, ReadOrNot
<1>13. /\ l \in Nat /\ l <= left /\ v \in Nat /\ v <= l /\ el = elements + v /\ el \in Nat
  <2>1. v = 0 \/ v <= l
    BY <1>5, <1>6, <1>11 DEF ZeroUnlessPresent
  <2>. QED
    BY <1>5, <1>7, <1>9, <1>11, <1>12, <2>1
<1>14. CASE Top.carried
  <2>1. Owes(a) \in Nat /\ Owes(a) = Owes(Top) - (Top.from - 1)
    BY <1>8, <1>9, <1>10, <1>14, OwesLess, RouterAssumption
  <2>2. Worth(l) \in Nat /\ Worth(left) \in Nat /\ Worth(l) <= Worth(left)
    <3>1. /\ Worth(left) \in Nat
          /\ left > 0 => Worth(left - 1) \in Nat /\ Worth(left - 1) <= Worth(left)
      BY <1>9, WorthFacts
    <3>. QED
      BY <1>12, <3>1
  <2>3. v <= Top.from - 1
    BY <1>9, <1>13, <1>14
  <2>4. 2 * (el + Owes(a)) + Worth(l) <= 2 * (elements + Owes(Top)) + Worth(left)
    <3>1. /\ el = elements + v /\ elements \in Nat /\ v \in Nat /\ v <= Top.from - 1
          /\ Owes(a) \in Nat /\ Owes(Top) \in Nat /\ Top.from \in Nat
          /\ Owes(a) = Owes(Top) - (Top.from - 1)
          /\ Worth(l) \in Nat /\ Worth(left) \in Nat /\ Worth(l) <= Worth(left)
      BY <1>9, <1>13, <2>1, <2>2, <2>3
    <3>. HIDE DEF r, used
    <3>. QED
      BY ONLY <3>1
  <2>5. l = left' /\ el = elements' /\ l \in Nat /\ el \in Nat /\ l <= left
    BY <1>11, <1>13
  <2>. HIDE DEF r, used
  <2>. QED
    BY <1>1, <1>8, <2>4, <2>5, ContinuePays
<1>15. CASE ~Top.carried
  <2>1. ~StepUsesPMAPBit(Current)
    <3>1. ~segmentNeedsPMAP(Top.seg) /\ Top.pc \in DOMAIN Segment[Top.seg]
      BY <1>2, <1>15, StepFacts DEF BitsAreSpent
    <3>. QED
      BY <1>2, <3>1 DEF segmentNeedsPMAP
  <2>2. ~opUsesPMAPBit(Current.decl.op, Current.decl.optional)
    BY <1>1, <2>1 DEF StepUsesPMAPBit
  <2>3. left > 0 /\ l = left - 1
    <3>1. PICK f, s, k, x : /\ f = Current.decl /\ s = Stored(Slot) /\ k = left
                            /\ x = DecodeInteger(WireOf(b, n, k), f, s) /\ x = r
      OBVIOUS
    <3>2. /\ f \in AllFields /\ f.type = "uint" /\ f.op # "Constant"
          /\ ~opUsesPMAPBit(f.op, f.optional) /\ k \in Nat /\ x.err = NoError
          /\ x = DecodeInteger(WireOf(b, n, k), f, s)
      BY <1>3, <1>5, <1>9, <2>2, <3>1
    <3>3. k > 0 /\ LeftAfter(x.wire, k) = k - 1
      <4>. HIDE DEF r
      <4>. QED
        BY <3>2, LengthCostsAByte
    <3>4. LeftAfter(r.wire, left) = LeftAfter(x.wire, k)
      BY <3>1
    <3>. QED
      BY <1>5, <1>11, <3>1, <3>3, <3>4
  <2>4. Owes(Top) = 0 /\ Owes(a) = 0
    BY <1>8, <1>15 DEF Owes, Further
  <2>5. /\ Worth(left) \in Nat /\ Worth(l) \in Nat
        /\ Worth(left) = Worth(l) + 2 * (Each * l)
    BY <1>9, <2>3, WorthFacts
  <2>6. Each > 0
    BY <1>9, <1>10, OwesFacts, RouterAssumption
  <2>7. PICK p \in Nat : p = Each * l /\ l <= p
    <3>1. ASSUME NEW e \in Nat, e > 0, NEW k \in Nat
          PROVE  e * k \in Nat /\ k <= e * k
      BY <3>1
    <3>. QED
      BY <1>9, <1>13, <2>6, <3>1
  <2>8. 2 * (el + Owes(a)) + Worth(l) <= 2 * (elements + Owes(Top)) + Worth(left)
    BY SMTT(20), <1>9, <1>13, <2>4, <2>5, <2>7
  <2>9. l = left' /\ el = elements' /\ l \in Nat /\ el \in Nat /\ l <= left
    BY <1>11, <1>13
  <2>. HIDE DEF r, used
  <2>. QED
    BY <1>1, <1>8, <2>8, <2>9, ContinuePays
<1>. QED
  BY <1>10, <1>14, <1>15

\* The body of a message has the whole frame to spend.
LEMMA KnownIsPaid ==
  ASSUME Inv, elements = 0, NEW b, NEW n, NEW r, r = TemplateId(b, n), DecodeKnown(r)
  PROVE  Paid(Len(stack'), stack', elements', left')
<1>. DEFINE a == Activation(Template[r.val], <<r.val>>, TRUE, 1)
<1>1. /\ left > 0 /\ left' = LeftAfter(r.wire, left - 1)
      /\ stack' = <<a>> /\ elements' = 0 /\ r.val \in DOMAIN Template
  BY DEF DecodeKnown, Begin
<1>2. a.carried /\ a.from = left /\ a.seg = Template[r.val]
  BY DEF Activation
<1>3. stack'[1] = a /\ Len(stack') = 1 /\ 1 \in DOMAIN stack'
  BY <1>1
<1>. HIDE DEF a
<1>4. IsActivation(a)
  <2>1. Inv'
    BY DecodeKnownKeeps
  <2>2. \A j \in DOMAIN stack' : IsActivation(stack'[j])
    BY <2>1 DEF Inv, StackOK, IsActivation
  <2>. QED
    BY <1>3, <2>2
<1>5. left \in Nat /\ Each \in Nat
  BY <1>4, EachFacts, RouterAssumption DEF Inv, CallOK, IsActivation
<1>6. PICK l, c : l = left' /\ c = a
  OBVIOUS
<1>7. l \in Nat /\ l < left /\ (l = left - 1 \/ (left - 1 > 0 /\ l = (left - 1) - 1))
  <2>1. l = left - 1 \/ (left - 1 > 0 /\ l = (left - 1) - 1)
    BY <1>1, <1>6, ReadOrNot
  <2>. QED
    BY <1>1, <1>5, <2>1
<1>8. Owes(c) \in Nat /\ Owes(c) <= Each * (left - 1)
  <2>1. IsActivation(c) /\ c.carried /\ c.from = left /\ c.from > 0
    BY <1>1, <1>2, <1>4, <1>6
  <2>2. Owes(c) \in Nat /\ Owes(c) <= Each * (c.from - 1)
    BY <2>1, OwesFacts, RouterAssumption
  <2>. QED
    BY <2>1, <2>2
<1>9. Worth(l) \in Nat /\ Worth(l) <= Worth(left - 1) /\ Worth(left - 1) \in Nat
  <2>1. PICK k \in Nat : k = left - 1
    BY <1>1, <1>5
  <2>2. /\ Worth(k) \in Nat
        /\ k > 0 => Worth(k - 1) \in Nat /\ Worth(k - 1) <= Worth(k)
    BY <1>5, WorthFacts
  <2>. QED
    BY <1>7, <2>1, <2>2
<1>10. 2 * Owes(c) + Worth(l) <= Worth(left)
  <2>1. /\ Each * (left - 1) \in Nat /\ Worth(left) \in Nat
        /\ Worth(left) = Worth(left - 1) + 2 * (Each * (left - 1))
    BY <1>1, <1>5, WorthFacts
  <2>2. PICK e \in Nat : e = Each * (left - 1)
    BY <2>1
  <2>3. Owes(c) <= e /\ Worth(left) = Worth(left - 1) + 2 * e
    BY <1>8, <2>1, <2>2
  <2>. QED
    BY <1>8, <1>9, <2>1, <2>3
<1>11. stack'[1] = c /\ c.from = left
  BY <1>2, <1>3, <1>6
<1>12. Paid(1, stack', 0, l)
  BY <1>5, <1>7, <1>8, <1>10, <1>11, PaidStarts
<1>. QED
  BY <1>1, <1>3, <1>6, <1>12

\* Nothing is owed when nothing runs.
LEMMA InitiallyWorkInv == Init => WorkInv
BY InitiallyInv DEF Init, WorkInv, Idle

\* A statement returns with nothing taken on, or is paid for.
LEMMA StepKeepsWorkInv ==
  ASSUME WorkInv, Inv', Step
  PROVE  WorkInv'
<1>1. Inv /\ StackOK /\ (~Idle => Paid(Len(stack), stack, elements, left))
  BY DEF WorkInv, Inv
<1>2. ASSUME \/ Return("error") \/ Return("message") \/ ~Idle',
             ~Idle' => Paid(Len(stack'), stack', elements', left')
      PROVE  WorkInv'
  BY <1>2 DEF Return, WorkInv, Idle
<1>3. ASSUME NEW b \in BOOLEAN, NEW n \in Numbers, FieldStep(b, n)
      PROVE  WorkInv'
  <2>1. ~Idle /\ (Return("error") \/ \E a : Continue(a))
    BY <1>3 DEF FieldStep, Running, Abandon
  <2>2. Return("error") \/ ~Idle'
    BY <1>1, <2>1, NotEmptied
  <2>. QED
    BY <1>1, <1>2, <1>3, <2>1, <2>2, FieldIsPaid
<1>4. ASSUME NEW b \in BOOLEAN, NEW n \in Numbers, LengthStep(b, n)
      PROVE  WorkInv'
  <2>1. ~Idle /\ (Return("error") \/ \E a : Continue(a))
    BY <1>4 DEF LengthStep, Running, Abandon, SkipSequence, EnterSequence
  <2>2. Return("error") \/ ~Idle'
    BY <1>1, <2>1, NotEmptied
  <2>. QED
    BY <1>1, <1>2, <1>4, <2>1, <2>2, LengthIsPaid
<1>5. ASSUME NEW b \in BOOLEAN, ConstantLengthStep(b)
      PROVE  WorkInv'
  <2>1. ~Idle /\ \E a : Continue(a)
    BY <1>5 DEF ConstantLengthStep, Running, SkipSequence, EnterSequence
  <2>2. ~Idle'
    BY <1>1, <2>1, NotEmptied
  <2>. QED
    BY <1>1, <1>2, <1>5, <2>1, <2>2, ConstantLengthIsPaid
<1>6. ASSUME NEW b \in BOOLEAN, GroupStep(b)
      PROVE  WorkInv'
  <2>1. ~Idle /\ (\/ Return("error")
                  \/ \E a : Continue(a)
                  \/ \E c, a : stack' = <<c, a>> \o Tail(stack))
    BY <1>6 DEF GroupStep, Running, Call, Abandon
  <2>2. Return("error") \/ ~Idle'
    BY <1>1, <2>1, NotEmptied
  <2>. QED
    BY <1>1, <1>2, <1>6, <2>1, <2>2, GroupIsPaid
<1>7. CASE ElementStep
  <2>1. ~Idle /\ (Return("error") \/ \E c, a : stack' = <<c, a>> \o Tail(stack))
    BY <1>7 DEF ElementStep, Running, Call, Abandon
  <2>2. Return("error") \/ ~Idle'
    BY <1>1, <2>1, NotEmptied
  <2>. QED
    BY <1>1, <1>2, <1>7, <2>1, <2>2, ElementIsPaid
<1>8. CASE SequenceEnd
  <2>1. ~Idle /\ \E a : Continue(a)
    BY <1>8 DEF SequenceEnd, Running
  <2>2. ~Idle'
    BY <1>1, <2>1, NotEmptied
  <2>. QED
    BY <1>1, <1>2, <1>8, <2>1, <2>2, SequenceEndIsPaid
<1>9. CASE Leave
  <2>1. /\ ~Idle /\ left' = left
        /\ \/ Return("message")
           \/ Len(stack) # 1 /\ stack' = Tail(stack) /\ elements' = elements
    BY <1>9 DEF Leave
  <2>2. CASE Return("message")
    BY <1>2, <2>2 DEF Return, Idle
  <2>3. CASE Len(stack) # 1 /\ stack' = Tail(stack) /\ elements' = elements
    <3>1. ~Idle'
      BY <1>1, <2>1, <2>3, StackShrinks, <1>9 DEF Leave
    <3>2. Paid(Len(stack'), stack', elements', left')
      BY <1>1, <2>1, <2>3, ReturnPays
    <3>. QED
      BY <1>2, <3>1, <3>2
  <2>. QED
    BY <2>1, <2>2, <2>3
<1>. QED
  BY <1>3, <1>4, <1>5, <1>6, <1>7, <1>8, <1>9 DEF Step

\* And so does everything the caller does.
LEMMA WorkInvIsInductive == WorkInv /\ [Next]_vars => WorkInv'
<1>. SUFFICES ASSUME WorkInv, [Next]_vars PROVE WorkInv'
  OBVIOUS
<1>1. Inv'
  BY InvIsInductive DEF WorkInv
<1>2. ASSUME Idle', elements' = 0
      PROVE  WorkInv'
  BY <1>1, <1>2 DEF WorkInv
<1>3. CASE (\E n \in 0 .. MaxFrame : NewFrame(n)) \/ Reset
  <2>1. Idle' /\ elements' = 0
    BY <1>3 DEF NewFrame, Reset, WorkInv, Idle, history
  <2>. QED
    BY <1>2, <2>1
<1>4. CASE Decode
  <2>1. CASE DecodeAtEnd
    BY <1>2, <2>1 DEF DecodeAtEnd, Abandon, Return, Idle
  <2>2. ASSUME NEW r, DecodeNoId(r) \/ DecodeControl(r) \/ DecodeUnknown(r)
        PROVE  WorkInv'
    BY <1>2, <2>2 DEF DecodeNoId, DecodeControl, DecodeUnknown, Abandon, Return, Idle
  <2>3. ASSUME NEW b \in BOOLEAN, NEW n \in Numbers, DecodeKnown(TemplateId(b, n))
        PROVE  WorkInv'
    <3>1. PICK r : r = TemplateId(b, n)
      OBVIOUS
    <3>2. DecodeKnown(r) /\ Inv /\ elements = 0
      BY <2>3, <3>1 DEF DecodeKnown, Begin, WorkInv
    <3>3. Paid(Len(stack'), stack', elements', left')
      BY <3>1, <3>2, KnownIsPaid
    <3>4. ~Idle'
      BY <3>2 DEF DecodeKnown, Idle
    <3>. QED
      BY <1>1, <3>3, <3>4 DEF WorkInv
  <2>. QED
    BY <1>4, <2>1, <2>2, <2>3 DEF Decode
<1>5. CASE Step
  BY <1>1, <1>5, StepKeepsWorkInv
<1>6. CASE UNCHANGED vars
  <2>1. /\ stack' = stack /\ elements' = elements /\ left' = left
        /\ Idle' <=> Idle
    BY <1>6 DEF vars, history, Idle
  <2>. QED
    BY <1>1, <2>1 DEF WorkInv
<1>. QED
  BY <1>3, <1>4, <1>5, <1>6 DEF Next

-----------------------------------------------------------------------------
(* The theorem about work.                                                 *)

\* Whatever lengths a frame claims, of whatever templates, the elements that a
\* call takes on for them are paid for by the bytes of the frame, although an
\* element may cost none.
THEOREM WorkHasABound == Spec => []WorkIsPaidFor
<1>1. WorkInv => WorkIsPaidFor
  <2>. SUFFICES ASSUME WorkInv, ~Idle
                PROVE  2 * elements <= Each * Last(stack).from * (Last(stack).from - 1)
    BY DEF WorkIsPaidFor, Each
  <2>1. Inv /\ Paid(Len(stack), stack, elements, left)
    BY DEF WorkInv
  <2>2. /\ Each \in Nat /\ left \in Nat /\ elements \in Nat
        /\ \A j \in 1 .. Len(stack) : stack[j].from \in Nat
    BY <2>1, WorkFacts
  <2>3. Len(stack) \in Nat \ {0}
    BY <2>1, StackFacts DEF Inv
  <2>4. PICK f : /\ AddsUp(f, Len(stack), stack)
                 /\ 2 * (elements + f[1]) + Worth(left) <= Worth(stack[Len(stack)].from)
    BY <2>1 DEF Paid
  <2>5. f[1] \in Nat
    BY <2>3, <2>4, SumFacts
  <2>6. PICK from \in Nat : from = Last(stack).from /\ from = stack[Len(stack)].from
    <3>1. Len(stack) \in 1 .. Len(stack)
      BY <2>3
    <3>. QED
      BY <2>2, <3>1 DEF Last
  <2>7. Worth(left) \in Nat /\ Worth(from) \in Nat
    BY <2>2, WorthFacts
  <2>8. 2 * elements <= Worth(from)
    BY <2>2, <2>4, <2>5, <2>6, <2>7
  <2>9. Worth(from) = Each * from * (from - 1)
    BY <2>2 DEF Worth
  <2>. QED
    BY <2>6, <2>8, <2>9
<1>. QED
  BY <1>1, InitiallyWorkInv, WorkInvIsInductive, PTL DEF Spec

-----------------------------------------------------------------------------
(***************************************************************************)
(* A returned message is of the call that returned it: the theorem for     *)
(* MessageIsOfThisCall of Router, for every set of templates and every     *)
(* feed.                                                                   *)
(*                                                                         *)
(* While a call runs, its structs are half old and half new.  Good says    *)
(* where the border is: at the statement of each running method.  What     *)
(* lies before it shows this call, what lies after it has no flag set and  *)
(* no place written.  It is stated of explicit arguments (the stack, what  *)
(* is fresh, the flags and the lengths), so that the lemmas are about      *)
(* values, and a step of Router is one application of them.                *)
(***************************************************************************)
\* The place of the k-th part of the i-th instruction of the struct at p.
Child(p, i, k) == Append(p, <<SegmentAt(p), i, k>>)

LenOf(ln, c) == IF c \in DOMAIN ln THEN ln[c] ELSE 0

\* ShowsThisCall, of given flags, lengths and writes.
Shows(fr, hs, ln, p, i) ==
  LET in == Segment[SegmentAt(p)][i]
  IN  IF in.kind = "sequence"
      THEN \A k \in 0 .. LenOf(ln, Child(p, i, 0)) : Child(p, i, k) \in fr
      ELSE Child(p, i, 0) \in fr <=> (HasFlag(in) => Child(p, i, 0) \in hs)

\* q lies inside the struct at p.
Below(p, q) == Len(p) < Len(q) /\ \A m \in 1 .. Len(p) : q[m] = p[m]

\* The activation has been at the part e of its struct.
Passed(a, e) == e[2] < a.pc \/ (e[2] = a.pc /\ e[3] < a.next)

\* A running method and what it has written: all it has passed and no more.
Level(a, fr, hs) ==
  /\ IsActivation(a)
  /\ a.at \in fr /\ IsStruct(a.at) /\ SegmentAt(a.at) = a.seg
  /\ a.next > 0 =>
       a.pc \in DOMAIN Segment[a.seg] /\ Segment[a.seg][a.pc].kind = "sequence"
  /\ \A k \in 0 .. a.next - 1 : Child(a.at, a.pc, k) \in fr
  /\ \A i \in DOMAIN Segment[a.seg] :
       i >= a.pc /\ HasFlag(Segment[a.seg][i]) => Child(a.at, i, 0) \notin hs
  /\ \A p \in fr : Below(a.at, p) => Passed(a, p[Len(a.at) + 1])

\* A method decodes into the struct of the one that called it.
Nested(st) ==
  \A i, j \in DOMAIN st : i < j => Below(st[j].at, st[i].at)

\* The i-th instruction of the struct at p is still to be finished.
Pending(st, p, i) == \E j \in DOMAIN st : st[j].at = p /\ i >= st[j].pc

Shown(st, fr, hs, ln) ==
  \A p \in fr : IsStruct(p) =>
    \A i \in DOMAIN Segment[SegmentAt(p)] :
      Pending(st, p, i) \/ Shows(fr, hs, ln, p, i)

Good(st, fr, hs, ln) ==
  /\ \A p \in fr : IsPath(p)
  /\ \A j \in DOMAIN st : Level(st[j], fr, hs)
  /\ Nested(st)
  /\ Shown(st, fr, hs, ln)

MessageInv ==
  /\ Inv
  /\ ~Idle => Good(stack, fresh, has, len)
  /\ MessageIsOfThisCall

-----------------------------------------------------------------------------
(* Places.                                                                 *)

\* A path is as long as it is, and one more component makes it longer.
LEMMA PathFacts ==
  ASSUME NEW p, IsPath(p), NEW e
  PROVE  /\ Len(p) \in Nat /\ Len(p) >= 1 /\ DOMAIN p = 1 .. Len(p)
         /\ Len(Append(p, e)) = Len(p) + 1
         /\ DOMAIN Append(p, e) = 1 .. Len(p) + 1
         /\ \A m \in 1 .. Len(p) : Append(p, e)[m] = p[m]
         /\ Append(p, e)[Len(p) + 1] = e
         /\ Last(Append(p, e)) = e
<1>. DEFINE S == {p[j] : j \in DOMAIN p}
<1>1. p \in Seq(S) /\ p # <<>>
  BY DEF IsPath, IsSequence, IsPlace
<1>. HIDE DEF S
<1>2. /\ Len(p) \in Nat /\ Len(p) >= 1 /\ DOMAIN p = 1 .. Len(p)
      /\ Len(Append(p, e)) = Len(p) + 1
      /\ \A m \in 1 .. Len(p) : Append(p, e)[m] = p[m]
      /\ Append(p, e)[Len(p) + 1] = e
  BY <1>1
<1>3. Append(p, e) \in Seq(S \cup {e})
  BY <1>1
<1>. HIDE DEF S
<1>4. DOMAIN Append(p, e) = 1 .. Len(Append(p, e))
  BY <1>3
<1>5. Last(Append(p, e)) = e
  BY <1>2 DEF Last
<1>. QED
  BY <1>2, <1>4, <1>5

\* Two paths with the same components are one.
LEMMA SamePath ==
  ASSUME NEW p, IsPath(p), NEW q, IsPath(q), Len(p) = Len(q),
         \A m \in 1 .. Len(p) : p[m] = q[m]
  PROVE  p = q
<1>. DEFINE S == {p[j] : j \in DOMAIN p}
            T == {q[j] : j \in DOMAIN q}
<1>1. p \in Seq(S) /\ q \in Seq(T)
  BY DEF IsPath, IsSequence
<1>. HIDE DEF S, T
<1>2. p \in Seq(S \cup T) /\ q \in Seq(S \cup T)
  BY <1>1
<1>. QED
  BY <1>2, SeqEqual

\* Places of different parts are different.
LEMMA AppendIsInjective ==
  ASSUME NEW p, IsPath(p), NEW q, IsPath(q), NEW d, NEW e, Append(p, d) = Append(q, e)
  PROVE  p = q /\ d = e
<1>1. Len(p) = Len(q)
  BY PathFacts
<1>2. \A m \in 1 .. Len(p) : p[m] = q[m]
  BY <1>1, PathFacts
<1>. QED
  BY <1>1, <1>2, PathFacts, SamePath

\* A part lies inside its struct, and inside all that its struct lies inside.
LEMMA BelowFacts ==
  ASSUME NEW p, IsPath(p), NEW e
  PROVE  /\ Below(p, Append(p, e))
         /\ ~Below(p, p)
         /\ \A o : IsPath(o) /\ Below(o, p) =>
              /\ Below(o, Append(p, e))
              /\ Append(p, e)[Len(o) + 1] = p[Len(o) + 1]
         /\ \A q : IsPath(q) /\ Below(Append(p, e), q) =>
              Below(p, q) /\ q[Len(p) + 1] = e
<1>1. Below(p, Append(p, e)) /\ ~Below(p, p)
  BY PathFacts DEF Below
<1>2. ASSUME NEW o, IsPath(o), Below(o, p)
      PROVE  /\ Below(o, Append(p, e))
             /\ Append(p, e)[Len(o) + 1] = p[Len(o) + 1]
  <2>1. /\ Len(o) \in Nat /\ Len(p) \in Nat /\ Len(Append(p, e)) = Len(p) + 1
        /\ \A m \in 1 .. Len(p) : Append(p, e)[m] = p[m]
    BY <1>2, PathFacts
  <2>. QED
    BY <1>2, <2>1 DEF Below
<1>3. ASSUME NEW q, IsPath(q), Below(Append(p, e), q)
      PROVE  Below(p, q) /\ q[Len(p) + 1] = e
  <2>1. /\ Len(q) \in Nat /\ Len(p) \in Nat /\ Len(Append(p, e)) = Len(p) + 1
        /\ \A m \in 1 .. Len(p) : Append(p, e)[m] = p[m]
        /\ Append(p, e)[Len(p) + 1] = e
    BY <1>3, PathFacts
  <2>. QED
    BY <1>3, <2>1 DEF Below
<1>. QED
  BY <1>1, <1>2, <1>3

\* A struct that lies inside another is not it, and inside is transitive.
LEMMA BelowIsAnOrder ==
  ASSUME NEW o, IsPath(o), NEW p, IsPath(p), NEW q, IsPath(q), Below(o, p)
  PROVE  /\ o # p
         /\ Below(p, q) => Below(o, q) /\ q[Len(o) + 1] = p[Len(o) + 1]
BY PathFacts DEF Below

\* The part of a struct: where it is, what is decoded into it, and whether
\* that is a struct.
LEMMA ChildFacts ==
  ASSUME NEW p, IsPath(p), SegmentAt(p) \in DOMAIN Segment,
         NEW i \in DOMAIN Segment[SegmentAt(p)], NEW k \in Nat
  PROVE  /\ IsPath(Child(p, i, k))
         /\ SegmentAt(Child(p, i, k)) = Segment[SegmentAt(p)][i].seg
         /\ IsStruct(Child(p, i, k)) <=>
              k > 0 \/ Segment[SegmentAt(p)][i].kind = "group"
<1>. DEFINE s == SegmentAt(p)
            q == Append(p, <<s, i, k>>)
<1>1. i \in 1 .. Len(Segment[s]) /\ s \in DOMAIN Segment
  BY TemplatesAssumption
<1>2. Child(p, i, k) = q
  BY DEF Child
<1>. HIDE DEF s
<1>3. At(<<s, i>>) = Segment[s][i]
  BY <1>1, StepFacts
<1>4. IsPath(q)
  BY <1>1, AppendPath
<1>5. Len(q) = Len(p) + 1 /\ Len(p) \in Nat /\ Len(p) >= 1 /\ Last(q) = <<s, i, k>>
  BY PathFacts
<1>. HIDE DEF q
<1>6. Len(q) # 1 /\ Len(q) > 1
  BY <1>5
<1>7. <<Last(q)[1], Last(q)[2]>> = <<s, i>> /\ Last(q)[3] = k
  BY <1>5
<1>8. SegmentAt(q) = Segment[s][i].seg
  BY <1>3, <1>6, <1>7 DEF SegmentAt
<1>9. IsStruct(q) <=> k > 0 \/ Segment[s][i].kind = "group"
  BY <1>3, <1>6, <1>7 DEF IsStruct
<1>. QED
  BY <1>2, <1>4, <1>8, <1>9 DEF s

\* What lies inside a struct at p has a component for its part there.
LEMMA PartFacts ==
  ASSUME NEW p, IsPath(p), NEW q, IsPath(q), Len(p) < Len(q)
  PROVE  LET e == q[Len(p) + 1]
         IN  <<e[1], e[2]>> \in Steps /\ e[2] \in Nat /\ e[3] \in Nat
<1>1. Len(p) + 1 \in 2 .. Len(q)
  BY PathFacts
<1>2. <<q[Len(p) + 1][1], q[Len(p) + 1][2]>> \in Steps /\ q[Len(p) + 1][3] \in Nat
  BY <1>1 DEF IsPath, IsPlace
<1>3. ASSUME NEW x, NEW y, <<x, y>> \in Steps
      PROVE  y \in Nat
  <2>1. PICK s \in DOMAIN Segment : y \in DOMAIN Segment[s]
    BY <1>3 DEF Steps
  <2>2. Segment[s] \in Seq(Instructions)
    BY TemplatesAssumption
  <2>. QED
    BY <2>1, <2>2
<1>. QED
  BY <1>2, <1>3

\* Different parts have different places.
LEMMA ChildIsInjective ==
  ASSUME NEW p, IsPath(p), NEW q, IsPath(q), NEW i, NEW j, NEW k, NEW l,
         Child(p, i, k) = Child(q, j, l)
  PROVE  p = q /\ i = j /\ k = l
<1>1. p = q /\ <<SegmentAt(p), i, k>> = <<SegmentAt(q), j, l>>
  BY AppendIsInjective DEF Child
<1>. QED
  BY <1>1

-----------------------------------------------------------------------------
(* What a step leaves alone.                                               *)

\* What is written about one part takes nothing from what another shows.
LEMMA Apart ==
  ASSUME NEW fr, NEW fr2, NEW hs, NEW hs2, NEW ln, NEW ln2,
         NEW at, IsPath(at), NEW i0, NEW k0, NEW p, IsPath(p), NEW i,
         p # at \/ i # i0,
         fr \subseteq fr2, fr2 \subseteq fr \cup {Child(at, i0, k0)},
         Child(p, i, 0) \in hs2 <=> Child(p, i, 0) \in hs,
         LenOf(ln2, Child(p, i, 0)) = LenOf(ln, Child(p, i, 0)),
         Shows(fr, hs, ln, p, i)
  PROVE  Shows(fr2, hs2, ln2, p, i)
<1>1. Child(p, i, 0) # Child(at, i0, k0)
  BY ChildIsInjective
<1>2. Child(p, i, 0) \in fr2 <=> Child(p, i, 0) \in fr
  BY <1>1
<1>3. CASE Segment[SegmentAt(p)][i].kind = "sequence"
  BY <1>3 DEF Shows
<1>4. CASE Segment[SegmentAt(p)][i].kind # "sequence"
  BY <1>2, <1>4 DEF Shows
<1>. QED
  BY <1>3, <1>4

\* The callers of the running method do not notice what it writes.
LEMMA LowerLevel ==
  ASSUME NEW a, NEW fr, NEW fr2, NEW hs, NEW hs2,
         Level(a, fr, hs),
         NEW at \in fr, IsPath(at), Below(a.at, at), NEW i0, NEW k0,
         fr \subseteq fr2, fr2 \subseteq fr \cup {Child(at, i0, k0)},
         hs2 \subseteq hs \cup {Child(at, i0, 0)}
  PROVE  Level(a, fr2, hs2)
<1>1. IsPath(a.at)
  BY DEF Level, IsActivation
<1>2. a.at # at
  BY <1>1, BelowIsAnOrder
<1>3. \A i : Child(a.at, i, 0) # Child(at, i0, 0)
  BY <1>1, <1>2, ChildIsInjective
<1>4. ASSUME NEW p \in fr2, Below(a.at, p)
      PROVE  Passed(a, p[Len(a.at) + 1])
  <2>1. CASE p \in fr
    BY <1>4, <2>1 DEF Level
  <2>2. CASE p = Child(at, i0, k0)
    <3>1. p[Len(a.at) + 1] = at[Len(a.at) + 1]
      BY <1>1, <2>2, BelowFacts DEF Child
    <3>2. Passed(a, at[Len(a.at) + 1])
      BY DEF Level
    <3>. QED
      BY <3>1, <3>2
  <2>. QED
    BY <2>1, <2>2
<1>. QED
  BY <1>3, <1>4 DEF Level

\* The running method goes on to its next statement, or its next element.
LEMMA MovedLevel ==
  ASSUME NEW a, NEW fr, NEW fr2, NEW hs, NEW hs2,
         Level(a, fr, hs), a.pc \in DOMAIN Segment[a.seg],
         \A p \in fr : IsPath(p),
         NEW b, IsActivation(b), b.at = a.at, b.seg = a.seg,
         NEW k0 \in Nat,
         fr \subseteq fr2, fr2 \subseteq fr \cup {Child(a.at, a.pc, k0)},
         \/ /\ b.pc = a.pc + 1 /\ b.next = 0
            /\ hs2 \subseteq hs \cup {Child(a.at, a.pc, 0)}
         \/ /\ b.pc = a.pc /\ b.next = a.next + 1 /\ k0 = a.next
            /\ Segment[a.seg][a.pc].kind = "sequence"
            /\ Child(a.at, a.pc, k0) \in fr2
            /\ hs2 \subseteq hs
  PROVE  Level(b, fr2, hs2)
<1>1. /\ IsPath(a.at) /\ a.pc \in Nat /\ a.next \in Nat
      /\ a.at \in fr /\ IsStruct(a.at) /\ SegmentAt(a.at) = a.seg
      /\ \A k \in 0 .. a.next - 1 : Child(a.at, a.pc, k) \in fr
      /\ \A i \in DOMAIN Segment[a.seg] :
           i >= a.pc /\ HasFlag(Segment[a.seg][i]) => Child(a.at, i, 0) \notin hs
      /\ \A p \in fr : Below(a.at, p) => Passed(a, p[Len(a.at) + 1])
  BY DEF Level, IsActivation
<1>2. b.next > 0 =>
        b.pc \in DOMAIN Segment[b.seg] /\ Segment[b.seg][b.pc].kind = "sequence"
  OBVIOUS
<1>3. \A k \in 0 .. b.next - 1 : Child(b.at, b.pc, k) \in fr2
  BY <1>1
<1>4. ASSUME NEW i \in DOMAIN Segment[b.seg], i >= b.pc, HasFlag(Segment[b.seg][i])
      PROVE  Child(b.at, i, 0) \notin hs2
  <2>1. CASE b.pc = a.pc + 1 /\ hs2 \subseteq hs \cup {Child(a.at, a.pc, 0)}
    <3>0. i \in Nat
      BY TemplatesAssumption, <1>4 DEF IsActivation
    <3>1. i > a.pc /\ i # a.pc
      BY <1>1, <1>4, <2>1, <3>0
    <3>2. Child(a.at, i, 0) # Child(a.at, a.pc, 0)
      BY <1>1, <3>1, ChildIsInjective
    <3>. QED
      BY <1>1, <1>4, <2>1, <3>0, <3>1, <3>2
  <2>2. CASE b.pc = a.pc /\ hs2 \subseteq hs
    BY <1>1, <1>4, <2>2
  <2>. QED
    BY <2>1, <2>2
<1>5. ASSUME NEW p \in fr2, Below(b.at, p)
      PROVE  Passed(b, p[Len(b.at) + 1])
  <2>1. CASE p \in fr
    <3>. DEFINE e == p[Len(a.at) + 1]
    <3>1. e[2] < a.pc \/ (e[2] = a.pc /\ e[3] < a.next)
      BY <1>1, <1>5, <2>1 DEF Passed
    <3>0. e[2] \in Nat /\ e[3] \in Nat
      BY <1>1, <1>5, <2>1, PartFacts DEF Below
    <3>. HIDE DEF e
    <3>2. e[2] < b.pc \/ (e[2] = b.pc /\ e[3] < b.next)
      <4>1. CASE b.pc = a.pc + 1
        BY <1>1, <3>0, <3>1, <4>1
      <4>2. CASE b.pc = a.pc /\ b.next = a.next + 1
        BY <1>1, <3>0, <3>1, <4>2
      <4>. QED
        BY <4>1, <4>2
    <3>. QED
      BY <3>2 DEF Passed, e
  <2>2. CASE p = Child(a.at, a.pc, k0)
    <3>1. p[Len(b.at) + 1] = <<SegmentAt(a.at), a.pc, k0>>
      BY <1>1, <2>2, PathFacts DEF Child
    <3>2. a.pc < b.pc \/ (a.pc = b.pc /\ k0 < b.next)
      BY <1>1
    <3>. QED
      BY <3>1, <3>2 DEF Passed
  <2>. QED
    BY <2>1, <2>2
<1>. QED
  BY <1>1, <1>2, <1>3, <1>4, <1>5 DEF Level

\* The part a running method comes to is not written yet.
LEMMA NextPartIsNew ==
  ASSUME NEW a, NEW fr, NEW hs, Level(a, fr, hs)
  PROVE  Child(a.at, a.pc, a.next) \notin fr
<1>. DEFINE e == <<SegmentAt(a.at), a.pc, a.next>>
            c == Append(a.at, e)
<1>1. /\ IsPath(a.at) /\ a.pc \in Nat /\ a.next \in Nat
      /\ \A p \in fr : Below(a.at, p) => Passed(a, p[Len(a.at) + 1])
  BY DEF Level, IsActivation
<1>2. Child(a.at, a.pc, a.next) = c /\ ~Passed(a, e)
  BY <1>1 DEF Child, Passed
<1>. HIDE DEF e
<1>3. Below(a.at, c) /\ c[Len(a.at) + 1] = e
  BY <1>1, BelowFacts, PathFacts
<1>. QED
  BY <1>1, <1>2, <1>3

\* A method that is called finds nothing written inside its struct, and clears
\* the flags it may set.
LEMMA CalledLevel ==
  ASSUME NEW a, NEW fr, NEW fr2, NEW hs, NEW hs2,
         Level(a, fr, hs), a.pc \in DOMAIN Segment[a.seg],
         \A p \in fr : IsPath(p),
         Segment[a.seg][a.pc].kind = "group" \/ a.next > 0,
         NEW c, IsActivation(c), c.at = Child(a.at, a.pc, a.next),
         c.seg = Segment[a.seg][a.pc].seg, c.pc = 1, c.next = 0,
         fr2 = fr \cup {c.at}, hs2 \cap Cleared(c.seg, c.at) = {}
  PROVE  Level(c, fr2, hs2)
<1>1. /\ IsPath(a.at) /\ a.pc \in Nat /\ a.next \in Nat /\ a.seg \in DOMAIN Segment
      /\ SegmentAt(a.at) = a.seg
      /\ \A p \in fr : Below(a.at, p) => Passed(a, p[Len(a.at) + 1])
  BY DEF Level, IsActivation
<1>2. IsPath(c.at) /\ SegmentAt(c.at) = c.seg /\ IsStruct(c.at)
  BY <1>1, ChildFacts
<1>. DEFINE e == <<SegmentAt(a.at), a.pc, a.next>>
<1>3. c.at = Append(a.at, e)
  BY DEF Child
<1>4. ~Passed(a, e)
  BY <1>1 DEF Passed
<1>. HIDE DEF e
<1>5. ASSUME NEW p \in fr2, Below(c.at, p)
      PROVE  FALSE
  <2>1. p # c.at
    BY <1>2, <1>5, BelowIsAnOrder
  <2>2. p \in fr /\ IsPath(p)
    BY <2>1
  <2>3. Below(a.at, p) /\ p[Len(a.at) + 1] = e
    BY <1>1, <1>3, <1>5, <2>2, BelowFacts
  <2>. QED
    BY <1>1, <1>4, <2>2, <2>3
<1>6. ASSUME NEW i \in DOMAIN Segment[c.seg], HasFlag(Segment[c.seg][i])
      PROVE  Child(c.at, i, 0) \notin hs2
  <2>1. Child(c.at, i, 0) \in Cleared(c.seg, c.at)
    BY <1>2, <1>6 DEF Child, Cleared, optionalHasFields
  <2>. QED
    BY <2>1
<1>7. \A k \in 0 .. c.next - 1 : Child(c.at, c.pc, k) \in fr2
  OBVIOUS
<1>8. /\ IsActivation(c) /\ c.at \in fr2 /\ ~(c.next > 0)
      /\ IsStruct(c.at) /\ SegmentAt(c.at) = c.seg
  BY <1>2
<1>9. \A i \in DOMAIN Segment[c.seg] :
        i >= c.pc /\ HasFlag(Segment[c.seg][i]) => Child(c.at, i, 0) \notin hs2
  BY <1>6
<1>10. \A p \in fr2 : Below(c.at, p) => Passed(c, p[Len(c.at) + 1])
  BY <1>5
<1>. QED
  BY ONLY <1>7, <1>8, <1>9, <1>10 DEF Level

\* Apart from the i0-th part of the struct at at, a step changes no flag and no
\* length of what is written.
Separate(fr, at, i0, hs, hs2, ln, ln2) ==
  \A p \in fr : \A i : p # at \/ i # i0 =>
    /\ Child(p, i, 0) \in hs2 <=> Child(p, i, 0) \in hs
    /\ LenOf(ln2, Child(p, i, 0)) = LenOf(ln, Child(p, i, 0))

\* Apart from that part, what is no longer pending, and was not, is shown.
StillShown(st, st2, fr, fr2, hs2, ln2, at, i0) ==
  \A p \in fr : IsStruct(p) => \A i \in DOMAIN Segment[SegmentAt(p)] :
    p # at \/ i # i0 =>
      \/ Pending(st, p, i) /\ ~Pending(st2, p, i)
      \/ Pending(st2, p, i) \/ Shows(fr2, hs2, ln2, p, i)

\* What a step writes about one part leaves all else shown that was.
LEMMA ShownAgain ==
  ASSUME NEW st, NEW st2, NEW fr, NEW fr2, NEW hs, NEW hs2, NEW ln, NEW ln2,
         \A q \in fr : IsPath(q), Shown(st, fr, hs, ln),
         NEW at, IsPath(at), NEW i0, NEW k0,
         fr \subseteq fr2, fr2 \subseteq fr \cup {Child(at, i0, k0)},
         Separate(fr, at, i0, hs, hs2, ln, ln2)
  PROVE  StillShown(st, st2, fr, fr2, hs2, ln2, at, i0)
<1>. SUFFICES ASSUME NEW p \in fr, IsStruct(p), NEW i \in DOMAIN Segment[SegmentAt(p)],
                     p # at \/ i # i0, ~Pending(st, p, i)
              PROVE  Shows(fr2, hs2, ln2, p, i)
  BY DEF StillShown
<1>1. Shows(fr, hs, ln, p, i)
  BY DEF Shown
<1>2. /\ Child(p, i, 0) \in hs2 <=> Child(p, i, 0) \in hs
      /\ LenOf(ln2, Child(p, i, 0)) = LenOf(ln, Child(p, i, 0))
  BY DEF Separate
<1>. QED
  BY <1>1, <1>2, Apart

-----------------------------------------------------------------------------
(* Good, from step to step.                                                *)

\* The innermost method moves on, past a statement that it has finished or to
\* the first element of a sequence.
LEMMA GoodMoves ==
  ASSUME NEW n \in Nat \ {0}, NEW st, DOMAIN st = 1 .. n, NEW st2, DOMAIN st2 = 1 .. n,
         NEW fr, NEW fr2, NEW hs, NEW hs2, NEW ln, NEW ln2,
         Good(st, fr, hs, ln),
         NEW a, a = st[1], NEW b, b = st2[1], \A j \in 2 .. n : st2[j] = st[j],
         a.pc \in DOMAIN Segment[a.seg],
         IsActivation(b), b.at = a.at, b.seg = a.seg,
         fr \subseteq fr2, fr2 \subseteq fr \cup {Child(a.at, a.pc, 0)},
         Segment[a.seg][a.pc].kind = "group" => fr2 = fr,
         hs2 \subseteq hs \cup {Child(a.at, a.pc, 0)},
         Separate(fr, a.at, a.pc, hs, hs2, ln, ln2),
         \/ /\ b.pc = a.pc + 1 /\ b.next = 0
            /\ Shows(fr2, hs2, ln2, a.at, a.pc)
         \/ /\ b.pc = a.pc /\ b.next = 1 /\ a.next = 0
            /\ Segment[a.seg][a.pc].kind = "sequence"
            /\ Child(a.at, a.pc, 0) \in fr2
            /\ hs2 \subseteq hs
  PROVE  Good(st2, fr2, hs2, ln2)
<1>1. /\ \A p \in fr : IsPath(p)
      /\ \A j \in 1 .. n : Level(st[j], fr, hs)
      /\ \A i, j \in 1 .. n : i < j => Below(st[j].at, st[i].at)
      /\ Shown(st, fr, hs, ln)
  BY DEF Good, Nested
<1>2. 1 \in 1 .. n /\ \A j \in 2 .. n : j \in 1 .. n /\ 1 < j
  OBVIOUS
<1>3. /\ IsPath(a.at) /\ a.pc \in Nat /\ a.next \in Nat /\ a.seg \in DOMAIN Segment
      /\ a.at \in fr /\ SegmentAt(a.at) = a.seg /\ Level(a, fr, hs)
  <2>1. Level(a, fr, hs)
    BY <1>1, <1>2
  <2>2. IsActivation(a) /\ a.at \in fr /\ SegmentAt(a.at) = a.seg
    BY <2>1 DEF Level
  <2>. QED
    BY <2>1, <2>2 DEF IsActivation
<1>4. /\ IsPath(Child(a.at, a.pc, 0))
      /\ IsStruct(Child(a.at, a.pc, 0)) <=> Segment[a.seg][a.pc].kind = "group"
  BY <1>3, ChildFacts
<1>5. \A p \in fr2 : IsPath(p)
  BY <1>1, <1>4
<1>6. Level(b, fr2, hs2)
  <2>1. \/ /\ b.pc = a.pc + 1 /\ b.next = 0
           /\ hs2 \subseteq hs \cup {Child(a.at, a.pc, 0)}
        \/ /\ b.pc = a.pc /\ b.next = a.next + 1 /\ 0 = a.next
           /\ Segment[a.seg][a.pc].kind = "sequence"
           /\ Child(a.at, a.pc, 0) \in fr2
           /\ hs2 \subseteq hs
    BY <1>3
  <2>. QED
    BY <1>1, <1>3, <2>1, MovedLevel
<1>7. ASSUME NEW j \in 2 .. n
      PROVE  Level(st2[j], fr2, hs2)
  <2>1. Level(st[j], fr, hs) /\ Below(st[j].at, a.at) /\ a.at \in fr /\ IsPath(a.at)
    BY <1>1, <1>2, <1>3
  <2>2. PICK k : /\ fr \subseteq fr2 /\ fr2 \subseteq fr \cup {Child(a.at, a.pc, k)}
                 /\ hs2 \subseteq hs \cup {Child(a.at, a.pc, 0)}
    OBVIOUS
  <2>. QED
    BY <2>1, <2>2, LowerLevel
<1>8. \A j \in 1 .. n : st2[j].at = st[j].at
  BY <1>2
<1>9. Nested(st2)
  BY <1>1, <1>8 DEF Nested
<1>10. StillShown(st, st2, fr, fr2, hs2, ln2, a.at, a.pc)
  BY <1>1, <1>3, ShownAgain
<1>11. ASSUME NEW p \in fr2, IsStruct(p), NEW i \in DOMAIN Segment[SegmentAt(p)]
       PROVE  Pending(st2, p, i) \/ Shows(fr2, hs2, ln2, p, i)
  <2>1. p \in fr
    BY <1>4, <1>11
  <2>2. CASE p = a.at /\ i = a.pc
    <3>1. b.pc = a.pc => Pending(st2, p, i)
      BY <1>2, <1>3, <2>2 DEF Pending
    <3>. QED
      BY <2>2, <3>1
  <2>3. CASE p # a.at \/ i # a.pc
    <3>1. ASSUME Pending(st, p, i)
          PROVE  Pending(st2, p, i)
      <4>1. PICK j \in 1 .. n : st[j].at = p /\ i >= st[j].pc
        BY <3>1 DEF Pending
      <4>2. CASE j = 1
        <5>1. i \in Nat
          BY <1>3, <2>3, <4>1, <4>2, TemplatesAssumption
        <5>2. i >= b.pc
          BY <1>3, <2>3, <4>1, <4>2, <5>1
        <5>. QED
          BY <1>2, <4>1, <4>2, <5>2 DEF Pending
      <4>3. CASE j \in 2 .. n
        BY <4>1, <4>3 DEF Pending
      <4>. QED
        BY <4>2, <4>3
    <3>. QED
      BY <1>10, <1>11, <2>1, <2>3, <3>1 DEF StillShown
  <2>. QED
    BY <2>2, <2>3
<1>12. \A j \in 1 .. n : Level(st2[j], fr2, hs2)
  BY <1>2, <1>6, <1>7
<1>. QED
  BY <1>5, <1>9, <1>11, <1>12 DEF Good, Shown

\* The struct of a called method is written, with none of its flags set.
Enters(c, fr, fr2, hs2) ==
  fr2 = fr \cup {c.at} /\ hs2 \cap Cleared(c.seg, c.at) = {}

\* The caller has the group behind it, with its flag, or is at the next element.
CallerMoves(a, b, fr2, hs, hs2, ln) ==
  \/ /\ b.pc = a.pc + 1 /\ b.next = 0
     /\ Segment[a.seg][a.pc].kind = "group"
     /\ hs2 \subseteq hs \cup {Child(a.at, a.pc, 0)}
     /\ Shows(fr2, hs2, ln, a.at, a.pc)
  \/ /\ b.pc = a.pc /\ b.next = a.next + 1 /\ a.next > 0
     /\ Segment[a.seg][a.pc].kind = "sequence"
     /\ hs2 \subseteq hs

\* A method is called: on a group that is then behind its caller, or on the
\* next element of a sequence.
LEMMA GoodCalls ==
  ASSUME NEW n \in Nat \ {0}, NEW st, DOMAIN st = 1 .. n,
         NEW st2, DOMAIN st2 = 1 .. n + 1,
         NEW fr, NEW fr2, NEW hs, NEW hs2, NEW ln,
         Good(st, fr, hs, ln),
         NEW a, a = st[1], NEW c, c = st2[1], NEW b, b = st2[2],
         \A j \in 3 .. n + 1 : st2[j] = st[j - 1],
         a.pc \in DOMAIN Segment[a.seg],
         IsActivation(b), b.at = a.at, b.seg = a.seg,
         IsActivation(c), c.at = Child(a.at, a.pc, a.next),
         c.seg = Segment[a.seg][a.pc].seg, c.pc = 1, c.next = 0,
         Enters(c, fr, fr2, hs2),
         Separate(fr, a.at, a.pc, hs, hs2, ln, ln),
         CallerMoves(a, b, fr2, hs, hs2, ln)
  PROVE  Good(st2, fr2, hs2, ln)
<1>. \/ /\ b.pc = a.pc + 1 /\ b.next = 0
        /\ Segment[a.seg][a.pc].kind = "group"
        /\ hs2 \subseteq hs \cup {Child(a.at, a.pc, 0)}
        /\ Shows(fr2, hs2, ln, a.at, a.pc)
     \/ /\ b.pc = a.pc /\ b.next = a.next + 1 /\ a.next > 0
        /\ Segment[a.seg][a.pc].kind = "sequence"
        /\ hs2 \subseteq hs
  BY DEF CallerMoves
<1>0. fr2 = fr \cup {c.at} /\ hs2 \cap Cleared(c.seg, c.at) = {}
  BY DEF Enters
<1>1. /\ \A p \in fr : IsPath(p)
      /\ \A j \in 1 .. n : Level(st[j], fr, hs)
      /\ \A i, j \in 1 .. n : i < j => Below(st[j].at, st[i].at)
      /\ Shown(st, fr, hs, ln)
  BY DEF Good, Nested
<1>2. /\ 1 \in 1 .. n /\ 1 \in 1 .. n + 1 /\ 2 \in 1 .. n + 1
      /\ \A j \in 3 .. n + 1 : j - 1 \in 2 .. n /\ j - 1 \in 1 .. n /\ 1 < j - 1
      /\ \A j \in 1 .. n + 1 : j = 1 \/ j = 2 \/ j \in 3 .. n + 1
  OBVIOUS
<1>3. /\ IsPath(a.at) /\ a.pc \in Nat /\ a.next \in Nat /\ a.seg \in DOMAIN Segment
      /\ a.at \in fr /\ SegmentAt(a.at) = a.seg /\ Level(a, fr, hs)
  <2>1. Level(a, fr, hs)
    BY <1>1, <1>2
  <2>2. IsActivation(a) /\ a.at \in fr /\ SegmentAt(a.at) = a.seg
    BY <2>1 DEF Level
  <2>. QED
    BY <2>1, <2>2 DEF IsActivation
<1>4. IsPath(c.at) /\ SegmentAt(c.at) = c.seg
  BY <1>3, ChildFacts
<1>5. \A p \in fr2 : IsPath(p)
  BY <1>0, <1>1, <1>4
<1>6. Level(c, fr2, hs2)
  BY <1>0, <1>1, <1>3, CalledLevel
<1>7. Level(b, fr2, hs2)
  <2>1. \/ /\ b.pc = a.pc + 1 /\ b.next = 0
           /\ hs2 \subseteq hs \cup {Child(a.at, a.pc, 0)}
        \/ /\ b.pc = a.pc /\ b.next = a.next + 1
           /\ Segment[a.seg][a.pc].kind = "sequence"
           /\ Child(a.at, a.pc, a.next) \in fr2
           /\ hs2 \subseteq hs
    BY <1>0
  <2>2. fr \subseteq fr2 /\ fr2 \subseteq fr \cup {Child(a.at, a.pc, a.next)}
    BY <1>0
  <2>. QED
    BY <1>1, <1>3, <2>1, <2>2, MovedLevel
<1>8. ASSUME NEW j \in 2 .. n
      PROVE  Level(st[j], fr2, hs2)
  <2>1. Level(st[j], fr, hs) /\ Below(st[j].at, a.at) /\ a.at \in fr /\ IsPath(a.at)
    BY <1>1, <1>2, <1>3
  <2>2. /\ fr \subseteq fr2 /\ fr2 \subseteq fr \cup {Child(a.at, a.pc, a.next)}
        /\ hs2 \subseteq hs \cup {Child(a.at, a.pc, 0)}
    BY <1>0
  <2>. QED
    BY ONLY <2>1, <2>2, LowerLevel
<1>9. \A j \in 1 .. n + 1 : Level(st2[j], fr2, hs2)
  BY <1>2, <1>6, <1>7, <1>8
<1>10. Nested(st2)
  <2>1. \A j \in 1 .. n : st2[j + 1].at = st[j].at /\ IsPath(st[j].at)
    <3>1. ASSUME NEW j \in 1 .. n
          PROVE  st2[j + 1].at = st[j].at
      <4>1. CASE j = 1
        BY <4>1
      <4>2. CASE j # 1
        <5>1. j + 1 \in 3 .. n + 1 /\ (j + 1) - 1 = j
          BY <4>2
        <5>2. st2[j + 1] = st[(j + 1) - 1]
          BY <5>1
        <5>. QED
          BY <5>1, <5>2
      <4>. QED
        BY <4>1, <4>2
    <3>2. \A j \in 1 .. n : IsPath(st[j].at)
      BY <1>1 DEF Level, IsActivation
    <3>. QED
      BY <3>1, <3>2
  <2>2. Below(a.at, c.at)
    <3>. DEFINE e == <<SegmentAt(a.at), a.pc, a.next>>
    <3>1. c.at = Append(a.at, e)
      BY DEF Child
    <3>. HIDE DEF e
    <3>. QED
      BY <1>3, <3>1, BelowFacts
  <2>3. ASSUME NEW j \in 1 .. n
        PROVE  Below(st[j].at, c.at)
    <3>1. CASE j = 1
      BY <2>2, <3>1
    <3>2. CASE j # 1
      <4>1. Below(st[j].at, a.at)
        BY <1>1, <1>2, <3>2
      <4>. QED
        BY <1>3, <1>4, <2>1, <2>2, <4>1, BelowIsAnOrder
    <3>. QED
      BY <3>1, <3>2
  <2>4. ASSUME NEW i \in 1 .. n + 1, NEW j \in 1 .. n + 1, i < j
        PROVE  Below(st2[j].at, st2[i].at)
    <3>1. j - 1 \in 1 .. n /\ st2[j].at = st[j - 1].at
      BY <2>1, <2>4
    <3>2. CASE i = 1
      BY <2>3, <3>1, <3>2
    <3>3. CASE i # 1
      <4>1. i - 1 \in 1 .. n /\ st2[i].at = st[i - 1].at /\ i - 1 < j - 1
        BY <2>1, <2>4, <3>3
      <4>. QED
        BY <1>1, <3>1, <4>1
    <3>. QED
      BY <3>2, <3>3
  <2>. QED
    BY <2>4 DEF Nested
<1>11. StillShown(st, st2, fr, fr2, hs2, ln, a.at, a.pc)
  <2>1. fr \subseteq fr2 /\ fr2 \subseteq fr \cup {Child(a.at, a.pc, a.next)}
    BY <1>0
  <2>. QED
    BY <1>1, <1>3, <2>1, ShownAgain
<1>12. ASSUME NEW p \in fr2, IsStruct(p), NEW i \in DOMAIN Segment[SegmentAt(p)]
       PROVE  Pending(st2, p, i) \/ Shows(fr2, hs2, ln, p, i)
  <2>1. CASE p = c.at
    <3>1. i >= c.pc
      BY <1>4, <1>12, <2>1, TemplatesAssumption DEF IsActivation
    <3>. QED
      BY <1>2, <2>1, <3>1 DEF Pending
  <2>2. CASE p = a.at /\ i = a.pc
    <3>1. b.pc = a.pc => Pending(st2, p, i)
      BY <1>2, <1>3, <2>2 DEF Pending
    <3>. QED
      BY <2>2, <3>1
  <2>3. CASE p \in fr /\ (p # a.at \/ i # a.pc)
    <3>1. ASSUME Pending(st, p, i)
          PROVE  Pending(st2, p, i)
      <4>1. PICK j \in 1 .. n : st[j].at = p /\ i >= st[j].pc
        BY <3>1 DEF Pending
      <4>2. CASE j = 1
        <5>1. i \in Nat
          BY <1>3, <2>3, <4>1, <4>2, TemplatesAssumption
        <5>2. i >= b.pc
          BY <1>3, <2>3, <4>1, <4>2, <5>1
        <5>. QED
          BY <1>2, <4>1, <4>2, <5>2 DEF Pending
      <4>3. CASE j # 1
        <5>1. j + 1 \in 3 .. n + 1 /\ j + 1 \in 1 .. n + 1 /\ (j + 1) - 1 = j
          BY <4>3
        <5>2. st2[j + 1] = st[j]
          BY <5>1
        <5>. QED
          BY <4>1, <5>1, <5>2 DEF Pending
      <4>. QED
        BY <4>2, <4>3
    <3>. QED
      BY <1>11, <1>12, <2>3, <3>1 DEF StillShown
  <2>. QED
    BY <1>0, <1>12, <2>1, <2>2, <2>3
<1>. QED
  BY <1>5, <1>9, <1>10, <1>12 DEF Good, Shown

\* Nothing of a method that has gone through all its statements is pending.
LEMMA EndedIsShown ==
  ASSUME NEW st, 1 \in DOMAIN st, NEW p, NEW i,
         IsActivation(st[1]), st[1].pc = Len(Segment[st[1].seg]) + 1,
         SegmentAt(st[1].at) = st[1].seg,
         i \in DOMAIN Segment[SegmentAt(p)], Pending(st, p, i)
  PROVE  \E j \in DOMAIN st : j # 1 /\ st[j].at = p /\ i >= st[j].pc
<1>1. PICK j \in DOMAIN st : st[j].at = p /\ i >= st[j].pc
  BY DEF Pending
<1>2. ASSUME j = 1
      PROVE  FALSE
  <2>1. Segment[st[1].seg] \in Seq(Instructions)
    BY TemplatesAssumption DEF IsActivation
  <2>. QED
    BY <1>1, <1>2, <2>1
<1>. QED
  BY <1>1, <1>2

\* A method returns to its caller.
LEMMA GoodLeaves ==
  ASSUME NEW n \in Nat \ {0, 1}, NEW st, DOMAIN st = 1 .. n,
         NEW st2, DOMAIN st2 = 1 .. n - 1, \A j \in 1 .. n - 1 : st2[j] = st[j + 1],
         NEW fr, NEW hs, NEW ln, Good(st, fr, hs, ln),
         st[1].pc = Len(Segment[st[1].seg]) + 1
  PROVE  Good(st2, fr, hs, ln)
<1>1. /\ \A p \in fr : IsPath(p)
      /\ \A j \in 1 .. n : Level(st[j], fr, hs)
      /\ \A i, j \in 1 .. n : i < j => Below(st[j].at, st[i].at)
      /\ Shown(st, fr, hs, ln)
  BY DEF Good, Nested
<1>2. 1 \in 1 .. n /\ \A j \in 1 .. n - 1 : j + 1 \in 1 .. n
  OBVIOUS
<1>3. \A j \in 1 .. n - 1 : Level(st2[j], fr, hs)
  BY <1>1, <1>2
<1>4. Nested(st2)
  <2>1. ASSUME NEW i \in 1 .. n - 1, NEW j \in 1 .. n - 1, i < j
        PROVE  Below(st2[j].at, st2[i].at)
    <3>1. i + 1 < j + 1
      BY <2>1
    <3>. QED
      BY <1>1, <1>2, <3>1
  <2>. QED
    BY <2>1 DEF Nested
<1>5. ASSUME NEW p \in fr, IsStruct(p), NEW i \in DOMAIN Segment[SegmentAt(p)],
             Pending(st, p, i)
      PROVE  Pending(st2, p, i)
  <2>1. IsActivation(st[1]) /\ SegmentAt(st[1].at) = st[1].seg
    BY <1>1, <1>2 DEF Level
  <2>2. PICK j \in 1 .. n : j # 1 /\ st[j].at = p /\ i >= st[j].pc
    BY <1>2, <1>5, <2>1, EndedIsShown
  <2>3. j - 1 \in 1 .. n - 1 /\ (j - 1) + 1 = j
    BY <2>2
  <2>4. st2[j - 1] = st[j]
    BY <2>3
  <2>. QED
    BY <2>2, <2>3, <2>4 DEF Pending
<1>6. Shown(st2, fr, hs, ln)
  BY <1>1, <1>5 DEF Shown
<1>. QED
  BY <1>1, <1>3, <1>4, <1>6 DEF Good

\* When the body of a message returns, all of the message is of this call.
LEMMA GoodEnds ==
  ASSUME NEW st, DOMAIN st = {1}, NEW fr, NEW hs, NEW ln, Good(st, fr, hs, ln),
         st[1].pc = Len(Segment[st[1].seg]) + 1
  PROVE  \A p \in fr : IsStruct(p) =>
           \A i \in DOMAIN Segment[SegmentAt(p)] : Shows(fr, hs, ln, p, i)
<1>1. IsActivation(st[1]) /\ SegmentAt(st[1].at) = st[1].seg
  BY DEF Good, Level
<1>2. ASSUME NEW p \in fr, IsStruct(p), NEW i \in DOMAIN Segment[SegmentAt(p)]
      PROVE  ~Pending(st, p, i)
  BY <1>1, EndedIsShown
<1>. QED
  BY <1>2 DEF Good, Shown

\* The body of a message starts with nothing written but the message itself.
LEMMA GoodStarts ==
  ASSUME NEW st, DOMAIN st = {1}, NEW hs, NEW ln,
         NEW c, c = st[1], IsActivation(c), c.pc = 1, c.next = 0,
         NEW id \in DOMAIN Template, c.at = <<id>>, c.seg = Template[id],
         hs \cap Cleared(c.seg, c.at) = {}
  PROVE  Good(st, {c.at}, hs, ln)
<1>1. IsPath(c.at) /\ Len(c.at) = 1 /\ c.at[1] = id
  BY MessagePath
<1>2. SegmentAt(c.at) = c.seg /\ IsStruct(c.at)
  BY <1>1 DEF SegmentAt, IsStruct
<1>3. ASSUME NEW i \in DOMAIN Segment[c.seg], HasFlag(Segment[c.seg][i])
      PROVE  Child(c.at, i, 0) \notin hs
  <2>1. Child(c.at, i, 0) \in Cleared(c.seg, c.at)
    BY <1>2, <1>3 DEF Child, Cleared, optionalHasFields
  <2>. QED
    BY <2>1
<1>4. ~Below(c.at, c.at)
  BY <1>1, BelowFacts
<1>5. \A k \in 0 .. c.next - 1 : FALSE
  OBVIOUS
<1>6. Level(c, {c.at}, hs)
  BY <1>2, <1>3, <1>4, <1>5 DEF Level
<1>7. Nested(st)
  BY DEF Nested
<1>8. ASSUME NEW i \in DOMAIN Segment[c.seg]
      PROVE  Pending(st, c.at, i)
  <2>1. i >= 1
    BY <1>8, TemplatesAssumption DEF IsActivation
  <2>. QED
    BY <2>1 DEF Pending
<1>. QED
  BY <1>1, <1>2, <1>6, <1>7, <1>8 DEF Good, Shown

-----------------------------------------------------------------------------
(* The steps of Router, as those lemmas need them.                         *)

\* Where the statement of a running method is, in terms of Good.
LEMMA BorderFacts ==
  ASSUME Inv, ~Idle, ~Ended, Good(stack, fresh, has, len)
  PROVE  /\ Top = stack[1] /\ IsActivation(Top) /\ Level(Top, fresh, has)
         /\ Top.pc \in DOMAIN Segment[Top.seg]
         /\ Top.pc \in Nat /\ Top.next \in Nat /\ Top.used \in Nat
         /\ Top.seg \in DOMAIN Segment /\ SegmentAt(Top.at) = Top.seg
         /\ Current = Segment[Top.seg][Top.pc] /\ Current \in Instructions
         /\ IsPath(Top.at) /\ Top.at \in fresh
         /\ \A p \in fresh : IsPath(p)
         /\ \A k : Part(k) = Child(Top.at, Top.pc, k)
         /\ Here = Child(Top.at, Top.pc, 0)
         /\ Top.next = 0 => Here \notin fresh
         /\ HasFlag(Current) => Here \notin has
<1>1. /\ IsActivation(Top) /\ Top.seg \in DOMAIN Segment
      /\ Top.pc \in 1 .. Len(Segment[Top.seg])
      /\ Current = Segment[Top.seg][Top.pc] /\ Current \in Instructions
      /\ Top = stack[1] /\ 1 \in DOMAIN stack
  BY StatementFacts, StackFacts DEF Inv
<1>2. Segment[Top.seg] \in Seq(Instructions)
  BY <1>1, TemplatesAssumption
<1>3. /\ Top.pc \in DOMAIN Segment[Top.seg] /\ Top.pc \in Nat
      /\ Top.next \in Nat /\ Top.used \in Nat /\ IsPath(Top.at)
  BY <1>1, <1>2 DEF IsActivation
<1>4. Level(Top, fresh, has) /\ \A p \in fresh : IsPath(p)
  BY <1>1 DEF Good
<1>5. SegmentAt(Top.at) = Top.seg /\ Top.at \in fresh
  BY <1>4 DEF Level
<1>6. \A k : Part(k) = Child(Top.at, Top.pc, k)
  BY <1>5 DEF Part, Child
<1>7. Here = Child(Top.at, Top.pc, 0)
  BY <1>6 DEF Here
<1>8. ASSUME Top.next = 0, Here \in fresh
      PROVE  FALSE
  <2>1. /\ Here = Append(Top.at, <<Top.seg, Top.pc, 0>>)
    BY <1>5, <1>7 DEF Child
  <2>2. Below(Top.at, Here) /\ Here[Len(Top.at) + 1] = <<Top.seg, Top.pc, 0>>
    BY <1>3, <2>1, BelowFacts, PathFacts
  <2>3. Passed(Top, <<Top.seg, Top.pc, 0>>)
    BY <1>4, <1>8, <2>2 DEF Level
  <2>. QED
    BY <1>3, <1>8, <2>3 DEF Passed
<1>9. ASSUME HasFlag(Current)
      PROVE  Here \notin has
  <2>1. Top.pc >= Top.pc
    BY <1>3
  <2>. QED
    BY <1>1, <1>3, <1>4, <1>7, <1>9, <2>1 DEF Level
<1>. QED
  BY <1>1, <1>3, <1>4, <1>5, <1>6, <1>7, <1>8, <1>9

-----------------------------------------------------------------------------
(* Slices.                                                                 *)

\* All but the last of the first components of a path.
LEMMA FrontFacts ==
  ASSUME NEW q, NEW l \in Nat
  PROVE  /\ \A m \in 1 .. l : Front(SubSeq(q, 1, l + 1))[m] = q[m]
         /\ Len(q) = l + 1 => \A m \in 1 .. l : Front(q)[m] = q[m]
<1>. DEFINE S == {q[j] : j \in 1 .. l + 1}
            g == SubSeq(q, 1, l + 1)
<1>0. \A i \in 1 .. l + 1 : q[i] \in S
  OBVIOUS
<1>. HIDE DEF S
<1>1. Len(g) = l + 1 /\ \A m \in 1 .. l + 1 : g[m] = q[m]
  BY <1>0, SubSeqProperties
<1>2. \A m \in 1 .. l : SubSeq(q, 1, l)[m] = q[m]
  BY <1>0, SubSeqProperties
<1>. HIDE DEF g
<1>3. \A i \in 1 .. l : g[i] \in S
  BY <1>0, <1>1
<1>4. \A m \in 1 .. l : SubSeq(g, 1, l)[m] = g[m]
  BY <1>3, SubSeqProperties
<1>5. Front(g) = SubSeq(g, 1, l)
  BY <1>1 DEF Front
<1>6. Len(q) = l + 1 => Front(q) = SubSeq(q, 1, l)
  BY DEF Front
<1>7. \A m \in 1 .. l : Front(g)[m] = q[m]
  BY <1>1, <1>4, <1>5
<1>. QED
  BY <1>2, <1>6, <1>7 DEF g

\* Nothing the call has written a struct at has a part in a slice that the
\* running method is about to size.
LEMMA NotInTheSlice ==
  ASSUME NEW a, NEW fr, NEW hs, Level(a, fr, hs), a.next = 0,
         \A p \in fr : IsPath(p), NEW p \in fr, NEW i
  PROVE  ~InSlice(Child(a.at, a.pc, 0), Child(p, i, 0))
<1>. DEFINE c == Child(a.at, a.pc, 0)
            q == Child(p, i, 0)
            l == Len(a.at)
            d == <<SegmentAt(a.at), a.pc, 0>>
            e == <<SegmentAt(p), i, 0>>
<1>. SUFFICES ASSUME InSlice(c, q) PROVE FALSE
  OBVIOUS
<1>1. /\ IsPath(a.at) /\ IsPath(p) /\ a.pc \in Nat
      /\ Below(a.at, p) => Passed(a, p[l + 1])
  BY DEF Level, IsActivation
<1>2. c = Append(a.at, d) /\ q = Append(p, e) /\ e[3] = 0 /\ d[2] = a.pc
  BY DEF Child
<1>. HIDE DEF c, q, l, d, e
<1>3. /\ l \in Nat /\ l >= 1 /\ Len(c) = l + 1 /\ c[l + 1] = d /\ Last(c) = d
      /\ \A m \in 1 .. l : c[m] = a.at[m]
      /\ Len(p) \in Nat /\ Len(q) = Len(p) + 1 /\ q[Len(p) + 1] = e
      /\ \A m \in 1 .. Len(p) : q[m] = p[m]
  BY <1>1, <1>2, PathFacts DEF l
<1>4. /\ l <= Len(p) /\ Front(SubSeq(q, 1, l + 1)) = Front(c)
      /\ q[l + 1][2] = a.pc /\ q[l + 1][3] > 0
  BY <1>2, <1>3 DEF InSlice
<1>5. CASE l = Len(p)
  BY <1>2, <1>3, <1>4, <1>5
<1>6. CASE l < Len(p)
  <2>1. /\ \A m \in 1 .. l : Front(SubSeq(q, 1, l + 1))[m] = q[m]
        /\ \A m \in 1 .. l : Front(c)[m] = c[m]
    BY <1>3, FrontFacts
  <2>2. \A m \in 1 .. l : p[m] = a.at[m]
    BY <1>3, <1>4, <1>6, <2>1
  <2>3. Below(a.at, p)
    BY <1>6, <2>2 DEF Below, l
  <2>4. q[l + 1] = p[l + 1]
    BY <1>3, <1>6
  <2>5. p[l + 1][2] < a.pc \/ (p[l + 1][2] = a.pc /\ p[l + 1][3] < 0)
    BY <1>1, <2>3 DEF Passed
  <2>6. p[l + 1][2] = a.pc /\ p[l + 1][3] > 0 /\ p[l + 1][3] \in Nat
    BY <1>1, <1>4, <1>6, <2>4, PartFacts DEF l
  <2>. QED
    BY <1>1, <2>5, <2>6
<1>. QED
  BY <1>3, <1>4, <1>5, <1>6

\* Sizing a slice forgets what its old elements held, and nothing else.
LEMMA ResizeSeparates ==
  ASSUME Inv, ~Idle, ~Ended, Good(stack, fresh, has, len), Top.next = 0,
         NEW n, Resize(n)
  PROVE  /\ Separate(fresh, Top.at, Top.pc, has, has', len, len')
         /\ has' \subseteq has /\ LenOf(len', Here) = n
<1>. DEFINE h == Here
            kept == Outside(h, DOMAIN len)
<1>1. /\ \/ has' = Outside(h, has) /\ DOMAIN len' = kept \cup {h}
         \/ has' = has /\ DOMAIN len' = DOMAIN len \cup {h}
      /\ \A x \in DOMAIN len' : len'[x] = IF x = h THEN n ELSE len[x]
  BY DEF Resize
<1>2. kept \subseteq DOMAIN len /\ Outside(h, has) \subseteq has
  BY DEF Outside
<1>3. /\ Level(Top, fresh, has) /\ \A p \in fresh : IsPath(p)
      /\ IsPath(Top.at) /\ h = Child(Top.at, Top.pc, 0)
  BY BorderFacts
<1>. HIDE DEF h, kept
<1>4. ASSUME NEW p \in fresh, NEW i, p # Top.at \/ i # Top.pc
      PROVE  /\ Child(p, i, 0) \in has' <=> Child(p, i, 0) \in has
             /\ LenOf(len', Child(p, i, 0)) = LenOf(len, Child(p, i, 0))
  <2>. DEFINE q == Child(p, i, 0)
  <2>1. ~InSlice(h, q)
    BY <1>3, NotInTheSlice
  <2>2. q # h
    BY <1>3, <1>4, ChildIsInjective
  <2>. HIDE DEF q
  <2>3. q \in has' <=> q \in has
    BY <1>1, <2>1 DEF Outside
  <2>4. q \in DOMAIN len' <=> q \in DOMAIN len
    BY <1>1, <2>1, <2>2 DEF Outside, kept
  <2>5. LenOf(len', q) = LenOf(len, q)
    BY <1>1, <2>2, <2>4 DEF LenOf
  <2>. QED
    BY <2>3, <2>5 DEF q
<1>5. Separate(fresh, Top.at, Top.pc, has, has', len, len')
  BY <1>4 DEF Separate
<1>6. LenOf(len', h) = n
  BY <1>1 DEF LenOf
<1>. QED
  BY <1>1, <1>2, <1>5, <1>6 DEF h

\* Setting the flag of the current part, or none, with no change of length.
LEMMA FlagSeparates ==
  ASSUME NEW fr, \A p \in fr : IsPath(p), NEW at, IsPath(at), NEW i0, NEW hs, NEW hs2,
         NEW ln, hs \subseteq hs2, hs2 \subseteq hs \cup {Child(at, i0, 0)}
  PROVE  Separate(fr, at, i0, hs, hs2, ln, ln)
<1>1. ASSUME NEW p \in fr, NEW i, p # at \/ i # i0
      PROVE  Child(p, i, 0) # Child(at, i0, 0)
  BY <1>1, ChildIsInjective
<1>. QED
  BY <1>1 DEF Separate

\* Clearing the flags of a struct that nothing was written in.
LEMMA ClearingSeparates ==
  ASSUME NEW fr, \A p \in fr : IsPath(p), NEW at, NEW i0, NEW hs, NEW flags,
         NEW ln, Separate(fr, at, i0, hs, flags, ln, ln),
         NEW s, NEW c, IsPath(c), c \notin fr
  PROVE  Separate(fr, at, i0, hs, flags \ Cleared(s, c), ln, ln)
<1>1. ASSUME NEW p \in fr, NEW i
      PROVE  Child(p, i, 0) \notin Cleared(s, c)
  <2>1. SUFFICES ASSUME NEW j, Child(p, i, 0) = Append(c, <<s, j, 0>>)
                 PROVE  FALSE
    BY DEF Cleared
  <2>2. p = c
    BY <2>1, AppendIsInjective DEF Child
  <2>. QED
    BY <2>2
<1>. QED
  BY <1>1 DEF Separate

\* What the struct at p shows, of the state.
LEMMA ShowsIsOfTheState ==
  ASSUME NEW p, NEW i
  PROVE  /\ ShowsThisCall(p, i) <=> Shows(fresh, has, len, p, i)
         /\ ShowsThisCall(p, i)' <=> Shows(fresh', has', len', p, i)
BY DEF ShowsThisCall, Shows, Child, LenOf, SliceLen

-----------------------------------------------------------------------------
(* Every statement keeps Good.                                             *)

\* The running method moves on.
LEMMA MovesOn ==
  ASSUME Inv, ~Idle, ~Ended, Good(stack, fresh, has, len), StackOK',
         NEW b, Continue(b), b.at = Top.at, b.seg = Top.seg,
         fresh \subseteq fresh', fresh' \subseteq fresh \cup {Here},
         Current.kind = "group" => fresh' = fresh,
         has' \subseteq has \cup {Here},
         Separate(fresh, Top.at, Top.pc, has, has', len, len'),
         \/ /\ b.pc = Top.pc + 1 /\ b.next = 0
            /\ Shows(fresh', has', len', Top.at, Top.pc)
         \/ /\ b.pc = Top.pc /\ b.next = 1 /\ Top.next = 0
            /\ Current.kind = "sequence"
            /\ Here \in fresh'
            /\ has' \subseteq has
  PROVE  Good(stack', fresh', has', len')
<1>1. /\ Len(stack) \in Nat \ {0} /\ DOMAIN stack = 1 .. Len(stack)
      /\ DOMAIN stack' = 1 .. Len(stack) /\ stack'[1] = b
      /\ \A j \in 2 .. Len(stack) : stack'[j] = stack[j]
  BY ContinueShape DEF Inv
<1>2. /\ Top = stack[1] /\ Top.pc \in DOMAIN Segment[Top.seg]
      /\ Here = Child(Top.at, Top.pc, 0)
      /\ Current = Segment[Top.seg][Top.pc]
  BY BorderFacts
<1>3. IsActivation(b)
  <2>1. 1 \in DOMAIN stack'
    BY <1>1
  <2>2. \A j \in DOMAIN stack' : IsActivation(stack'[j])
    BY DEF StackOK, IsActivation
  <2>. QED
    BY <1>1, <2>1, <2>2
<1>4. PICK n : n = Len(stack)
  OBVIOUS
<1>5. /\ n \in Nat \ {0} /\ DOMAIN stack = 1 .. n /\ DOMAIN stack' = 1 .. n
      /\ \A j \in 2 .. n : stack'[j] = stack[j]
  BY <1>1, <1>4
<1>. QED
  BY <1>1, <1>2, <1>3, <1>5, GoodMoves

\* What a statement does to the activation it belongs to.
LEMMA ToNextFacts ==
  ASSUME NEW a, IsActivation(a), NEW used
  PROVE  LET b == [a EXCEPT !.pc = @ + 1, !.next = 0, !.used = used]
         IN  b.at = a.at /\ b.seg = a.seg /\ b.pc = a.pc + 1 /\ b.next = 0
BY DEF IsActivation

\* And what entering a sequence does to it.
LEMMA FirstElementFacts ==
  ASSUME NEW a, IsActivation(a), NEW used, NEW next
  PROVE  LET b == [a EXCEPT !.next = next, !.used = used]
         IN  b.at = a.at /\ b.seg = a.seg /\ b.pc = a.pc /\ b.next = next
BY DEF IsActivation

\* A field: written with its flag, or neither.
LEMMA FieldKeepsGood ==
  ASSUME Inv, Good(stack, fresh, has, len), StackOK',
         NEW b, NEW n, FieldStep(b, n), ~Idle'
  PROVE  Good(stack', fresh', has', len')
<1>. DEFINE r == DecodeInteger(WireOf(b, n, left), Current.decl, Stored(Slot))
            a == ToNext(UsedAfter(r.wire))
<1>1. /\ ~Idle /\ ~Ended /\ Current.kind = "field"
      /\ IF r.err # NoError THEN Abandon /\ UNCHANGED has
         ELSE /\ Continue(a)
              /\ fresh' = (IF r.present THEN fresh \cup {Here} ELSE fresh)
              /\ has' = (IF r.present /\ Current.decl.optional
                         THEN has \cup {Here} ELSE has)
              /\ UNCHANGED <<ret, elements>>
      /\ len' = len
  BY DEF FieldStep, Running
<1>2. Contract(Current.decl, Stored(Slot), r)
  BY <1>1, EntryFacts, DecodeIntegerContract
<1>3. r.err = NoError
  BY <1>1 DEF Abandon, Return, Idle
<1>4. r.present \/ Current.decl.optional
  BY <1>2, <1>3 DEF Contract
<1>5. /\ IsActivation(Top) /\ Current = Segment[Top.seg][Top.pc]
      /\ SegmentAt(Top.at) = Top.seg
      /\ IsPath(Top.at) /\ \A p \in fresh : IsPath(p)
      /\ Here = Child(Top.at, Top.pc, 0)
      /\ Top.next = 0
      /\ Here \notin fresh /\ (HasFlag(Current) => Here \notin has)
  <2>1. Top.next = 0
    BY <1>1, BorderFacts DEF Level
  <2>. QED
    BY <1>1, <2>1, BorderFacts
<1>6. a.at = Top.at /\ a.seg = Top.seg /\ a.pc = Top.pc + 1 /\ a.next = 0
  BY <1>5, ToNextFacts DEF ToNext
<1>. HIDE DEF r, a
<1>7. HasFlag(Current) <=> Current.decl.optional
  BY <1>1 DEF HasFlag
<1>8. Here \in fresh' <=> (HasFlag(Current) => Here \in has')
  BY <1>1, <1>3, <1>4, <1>5, <1>7
<1>9. Shows(fresh', has', len', Top.at, Top.pc)
  BY <1>1, <1>5, <1>8 DEF Shows
<1>10. /\ fresh \subseteq fresh' /\ fresh' \subseteq fresh \cup {Here}
       /\ has \subseteq has' /\ has' \subseteq has \cup {Here}
       /\ Continue(a)
  BY <1>1, <1>3
<1>11. Separate(fresh, Top.at, Top.pc, has, has', len, len')
  BY <1>1, <1>5, <1>10, FlagSeparates
<1>. QED
  BY <1>1, <1>6, <1>9, <1>10, <1>11, MovesOn

\* A sequence that is given its length.
LEMMA SizingKeepsGood ==
  ASSUME Inv, ~Idle, ~Ended, Good(stack, fresh, has, len), StackOK',
         Current.kind = "sequence", Top.next = 0, NEW used,
         SkipSequence(used) \/ \E n : EnterSequence(n, used)
  PROVE  Good(stack', fresh', has', len')
<1>1. /\ IsActivation(Top) /\ Current = Segment[Top.seg][Top.pc]
      /\ SegmentAt(Top.at) = Top.seg
      /\ Here = Child(Top.at, Top.pc, 0)
  BY BorderFacts
<1>2. CASE SkipSequence(used)
  <2>. DEFINE b == ToNext(used)
  <2>1. /\ Resize(0) /\ Continue(b) /\ fresh' = fresh \cup {Here}
    BY <1>2 DEF SkipSequence
  <2>2. b.at = Top.at /\ b.seg = Top.seg /\ b.pc = Top.pc + 1 /\ b.next = 0
    BY <1>1, ToNextFacts DEF ToNext
  <2>. HIDE DEF b
  <2>3. /\ Separate(fresh, Top.at, Top.pc, has, has', len, len')
        /\ has' \subseteq has /\ LenOf(len', Here) = 0
    BY <2>1, ResizeSeparates
  <2>4. Shows(fresh', has', len', Top.at, Top.pc)
    <3>1. \A k \in 0 .. 0 : Child(Top.at, Top.pc, k) \in fresh'
      BY <1>1, <2>1
    <3>. QED
      BY <1>1, <2>3, <3>1 DEF Shows
  <2>. QED
    BY <2>1, <2>2, <2>3, <2>4, MovesOn
<1>3. CASE \E n : EnterSequence(n, used)
  <2>1. PICK n : EnterSequence(n, used)
    BY <1>3
  <2>. DEFINE first == 1
              b == [Top EXCEPT !.next = first, !.used = used]
  <2>2. /\ Resize(n) /\ Continue(b) /\ fresh' = fresh \cup {Here}
    BY <2>1 DEF EnterSequence
  <2>3. b.at = Top.at /\ b.seg = Top.seg /\ b.pc = Top.pc /\ b.next = first
    <3>. HIDE DEF first
    <3>. QED
      BY <1>1, FirstElementFacts
  <2>. HIDE DEF b
  <2>4. /\ Separate(fresh, Top.at, Top.pc, has, has', len, len')
        /\ has' \subseteq has
    BY <2>2, ResizeSeparates
  <2>. QED
    BY <2>2, <2>3, <2>4, MovesOn
<1>. QED
  BY <1>2, <1>3

\* A sequence of which all elements are decoded.
LEMMA SequenceEndKeepsGood ==
  ASSUME Inv, Good(stack, fresh, has, len), StackOK', SequenceEnd
  PROVE  Good(stack', fresh', has', len')
<1>. DEFINE b == ToNext(Top.used)
<1>1. /\ ~Idle /\ ~Ended /\ Current.kind = "sequence" /\ Top.next > SliceLen(Here)
      /\ Continue(b)
      /\ has' = has /\ len' = len /\ fresh' = fresh
  BY DEF SequenceEnd, Running, messages, history
<1>2. /\ IsActivation(Top) /\ Current = Segment[Top.seg][Top.pc]
      /\ SegmentAt(Top.at) = Top.seg
      /\ IsPath(Top.at) /\ \A p \in fresh : IsPath(p)
      /\ Here = Child(Top.at, Top.pc, 0)
      /\ Top.next \in Nat /\ Level(Top, fresh, has)
  BY <1>1, BorderFacts
<1>3. b.at = Top.at /\ b.seg = Top.seg /\ b.pc = Top.pc + 1 /\ b.next = 0
  BY <1>2, ToNextFacts DEF ToNext
<1>. HIDE DEF b
<1>4. SliceLen(Here) = LenOf(len, Here) /\ SliceLen(Here) \in Nat
  BY DEF SliceLen, LenOf, Inv, SlicesOK
<1>5. \A k \in 0 .. LenOf(len, Here) : Child(Top.at, Top.pc, k) \in fresh
  BY <1>1, <1>2, <1>4 DEF Level
<1>6. Shows(fresh', has', len', Top.at, Top.pc)
  BY <1>1, <1>2, <1>5 DEF Shows
<1>7. Separate(fresh, Top.at, Top.pc, has, has', len, len')
  BY <1>1, <1>2, FlagSeparates
<1>. QED
  BY <1>1, <1>3, <1>6, <1>7, MovesOn

\* A method is called.
LEMMA CallKeepsGood ==
  ASSUME Inv, ~Idle, ~Ended, Good(stack, fresh, has, len), StackOK', ~Idle', len' = len,
         NEW b, b.at = Top.at, b.seg = Top.seg, NEW flags,
         Call(Current.seg, Part(Top.next), b, flags),
         \/ /\ b.pc = Top.pc + 1 /\ b.next = 0
            /\ Current.kind = "group"
            /\ flags = (IF Current.optional THEN has \cup {Here} ELSE has)
         \/ /\ b.pc = Top.pc /\ b.next = Top.next + 1 /\ Top.next > 0
            /\ Current.kind = "sequence"
            /\ flags = has
  PROVE  Good(stack', fresh', has', len')
<1>. DEFINE s == Current.seg
            at == Part(Top.next)
            c == Activation(s, at, segmentNeedsPMAP(s), 0)
<1>1. /\ Top = stack[1] /\ Level(Top, fresh, has) /\ IsActivation(Top)
      /\ Top.pc \in DOMAIN Segment[Top.seg] /\ Top.pc \in Nat /\ Top.next \in Nat
      /\ Top.seg \in DOMAIN Segment /\ SegmentAt(Top.at) = Top.seg
      /\ Current = Segment[Top.seg][Top.pc]
      /\ IsPath(Top.at) /\ \A p \in fresh : IsPath(p)
      /\ at = Child(Top.at, Top.pc, Top.next)
      /\ Here = Child(Top.at, Top.pc, 0)
  BY BorderFacts
<1>2. /\ stack' = <<c, b>> \o Tail(stack)
      /\ has' = flags \ Cleared(s, at)
      /\ fresh' = fresh \cup {at}
  BY DEF Call, Abandon, Return, Idle
<1>3. c.seg = s /\ c.at = at /\ c.pc = 1 /\ c.next = 0
  BY DEF Activation
<1>. HIDE DEF c, s, at
<1>4. PICK n : n = Len(stack)
  OBVIOUS
<1>5. /\ n \in Nat \ {0} /\ DOMAIN stack = 1 .. n
      /\ DOMAIN stack' = 1 .. n + 1
      /\ stack'[1] = c /\ stack'[2] = b
      /\ \A j \in 3 .. n + 1 : stack'[j] = stack[j - 1]
  BY <1>2, <1>4, CallShape DEF Inv
<1>6. IsActivation(b) /\ IsActivation(c)
  <2>1. 1 \in DOMAIN stack' /\ 2 \in DOMAIN stack'
    BY <1>5
  <2>2. \A j \in DOMAIN stack' : IsActivation(stack'[j])
    BY DEF StackOK, IsActivation
  <2>. QED
    BY <1>5, <2>1, <2>2
<1>7. Top.next = 0 \/ Current.kind = "sequence"
  BY <1>1 DEF Level
<1>8. Level(Top, fresh, has) /\ (Current.kind = "group" \/ Top.next > 0)
  BY <1>1, <1>7
<1>9. at \notin fresh /\ IsPath(at)
  BY <1>1, <1>3, <1>6, NextPartIsNew DEF IsActivation
<1>10. Separate(fresh, Top.at, Top.pc, has, has', len, len)
  <2>1. has \subseteq flags /\ flags \subseteq has \cup {Child(Top.at, Top.pc, 0)}
    BY <1>1
  <2>2. Separate(fresh, Top.at, Top.pc, has, flags, len, len)
    BY <1>1, <2>1, FlagSeparates
  <2>3. Separate(fresh, Top.at, Top.pc, has, flags \ Cleared(s, at), len, len)
    BY <1>1, <1>9, <2>2, ClearingSeparates
  <2>. QED
    BY <1>2, <2>3
<1>11. \/ /\ b.pc = Top.pc + 1 /\ b.next = 0
          /\ Current.kind = "group"
          /\ has' \subseteq has \cup {Child(Top.at, Top.pc, 0)}
          /\ Shows(fresh', has', len, Top.at, Top.pc)
       \/ /\ b.pc = Top.pc /\ b.next = Top.next + 1 /\ Top.next > 0
          /\ Current.kind = "sequence"
          /\ has' \subseteq has
  <2>1. CASE Current.kind = "group"
    <3>1. /\ b.pc = Top.pc + 1 /\ b.next = 0 /\ Top.next = 0
          /\ flags = (IF Current.optional THEN has \cup {Here} ELSE has)
      BY <1>7, <2>1
    <3>2. at = Here
      BY <1>1, <3>1
    <3>3. Here \notin Cleared(s, at)
      <4>1. SUFFICES ASSUME NEW j, Here = Append(Here, <<s, j, 0>>)
                     PROVE  FALSE
        BY <3>2 DEF Cleared
      <4>2. Below(Here, Here)
        BY <1>9, <3>2, <4>1, BelowFacts
      <4>. QED
        BY <1>9, <3>2, <4>2, BelowFacts
    <3>4. HasFlag(Current) <=> Current.optional
      BY <2>1 DEF HasFlag
    <3>5. Here \in fresh' /\ (HasFlag(Current) => Here \in has')
      BY <1>2, <3>1, <3>2, <3>3, <3>4
    <3>6. Shows(fresh', has', len, Top.at, Top.pc)
      BY <1>1, <2>1, <3>5 DEF Shows
    <3>7. has' \subseteq has \cup {Here}
      BY <1>2, <3>1
    <3>. QED
      BY <1>1, <2>1, <3>1, <3>6, <3>7
  <2>2. CASE Current.kind # "group"
    BY <1>2, <2>2
  <2>. QED
    BY <2>1, <2>2
<1>12. /\ fresh' = fresh \cup {c.at} /\ has' \cap Cleared(c.seg, c.at) = {}
       /\ c.at = Child(Top.at, Top.pc, Top.next)
       /\ c.seg = Segment[Top.seg][Top.pc].seg
  BY <1>1, <1>2, <1>3 DEF s
<1>13. Good(stack', fresh', has', len)
  <2>1. PICK a : a = Top
    OBVIOUS
  <2>2. a = stack[1] /\ a.pc \in DOMAIN Segment[a.seg] /\ b.at = a.at /\ b.seg = a.seg
    BY <1>1, <2>1
  <2>3. Separate(fresh, a.at, a.pc, has, has', len, len)
    BY <1>10, <2>1
  <2>4. /\ c.at = Child(a.at, a.pc, a.next) /\ c.seg = Segment[a.seg][a.pc].seg
        /\ c.pc = 1 /\ c.next = 0
        /\ Enters(c, fresh, fresh', has')
    BY <1>3, <1>12, <2>1 DEF Enters
  <2>5. CallerMoves(a, b, fresh', has, has', len)
    BY <1>1, <1>11, <2>1 DEF CallerMoves
  <2>6. Good(stack, fresh, has, len)
    OBVIOUS
  <2>. QED
    BY ONLY <1>5, <1>6, <2>2, <2>3, <2>4, <2>5, <2>6, GoodCalls
<1>. QED
  BY <1>13

\* A group: skipped, or its method called.
LEMMA GroupKeepsGood ==
  ASSUME Inv, Good(stack, fresh, has, len), StackOK', NEW d, GroupStep(d), ~Idle'
  PROVE  Good(stack', fresh', has', len')
<1>. DEFINE used == IF Current.optional THEN Top.used + 1 ELSE Top.used
            flags == IF Current.optional THEN has \cup {Here} ELSE has
            b == ToNext(used)
<1>1. /\ ~Idle /\ ~Ended /\ Current.kind = "group"
      /\ IF Current.optional /\ ~d
         THEN Continue(b) /\ has' = has /\ fresh' = fresh
         ELSE Call(Current.seg, Here, b, flags)
      /\ len' = len
  BY DEF GroupStep, Running
<1>2. /\ IsActivation(Top) /\ Current = Segment[Top.seg][Top.pc]
      /\ SegmentAt(Top.at) = Top.seg
      /\ IsPath(Top.at) /\ \A p \in fresh : IsPath(p)
      /\ Here = Child(Top.at, Top.pc, 0)
      /\ Top.next = 0 /\ Here = Part(Top.next)
      /\ Here \notin fresh /\ (HasFlag(Current) => Here \notin has)
  <2>1. Top.next = 0
    BY <1>1, BorderFacts DEF Level
  <2>. QED
    BY <1>1, <2>1, BorderFacts DEF Here
<1>3. b.at = Top.at /\ b.seg = Top.seg /\ b.pc = Top.pc + 1 /\ b.next = 0
  BY <1>2, ToNextFacts DEF ToNext
<1>. HIDE DEF b
<1>4. CASE Current.optional /\ ~d
  <2>1. HasFlag(Current)
    BY <1>1, <1>4 DEF HasFlag
  <2>2. Shows(fresh', has', len', Top.at, Top.pc)
    BY <1>1, <1>2, <1>4, <2>1 DEF Shows
  <2>3. Separate(fresh, Top.at, Top.pc, has, has', len, len')
    BY <1>1, <1>2, <1>4, FlagSeparates
  <2>. QED
    BY <1>1, <1>3, <1>4, <2>2, <2>3, MovesOn
<1>5. CASE ~(Current.optional /\ ~d)
  <2>1. Call(Current.seg, Part(Top.next), b, flags)
    BY <1>1, <1>2, <1>5
  <2>. QED
    BY <1>1, <1>3, <2>1, CallKeepsGood
<1>. QED
  BY <1>4, <1>5

\* The next element of a sequence.
LEMMA ElementKeepsGood ==
  ASSUME Inv, Good(stack, fresh, has, len), StackOK', ElementStep, ~Idle'
  PROVE  Good(stack', fresh', has', len')
<1>. DEFINE b == [Top EXCEPT !.next = @ + 1]
<1>1. /\ ~Idle /\ ~Ended /\ Current.kind = "sequence" /\ Top.next \in 1 .. SliceLen(Here)
      /\ Call(Current.seg, Part(Top.next), b, has)
      /\ len' = len
  BY DEF ElementStep, Running
<1>2. IsActivation(Top) /\ Top.next \in Nat
  BY <1>1, BorderFacts
<1>3. b.at = Top.at /\ b.seg = Top.seg /\ b.pc = Top.pc /\ b.next = Top.next + 1
  BY <1>2 DEF IsActivation
<1>. HIDE DEF b
<1>4. SliceLen(Here) \in Nat
  BY DEF SliceLen, Inv, SlicesOK
<1>5. Top.next > 0
  BY <1>1, <1>4
<1>. QED
  BY <1>1, <1>3, <1>5, CallKeepsGood

\* A method returns, and then the whole message is of this call or its caller
\* goes on.
LEMMA LeaveKeepsGood ==
  ASSUME Inv, Good(stack, fresh, has, len), Leave
  PROVE  /\ ~Idle' => Good(stack', fresh', has', len')
         /\ MessageIsOfThisCall'
<1>1. /\ ~Idle /\ Ended
      /\ IF Len(stack) = 1 THEN Return("message") ELSE stack' = Tail(stack)
      /\ has' = has /\ len' = len /\ fresh' = fresh
  BY DEF Leave, messages
<1>2. /\ Top = stack[1] /\ IsActivation(Top)
      /\ Len(stack) \in Nat /\ DOMAIN stack = 1 .. Len(stack)
  BY <1>1, StackFacts DEF Inv
<1>3. stack[1].pc = Len(Segment[stack[1].seg]) + 1
  <2>1. Segment[Top.seg] \in Seq(Instructions)
    BY <1>2, TemplatesAssumption DEF IsActivation
  <2>2. Top.pc > Len(Segment[Top.seg]) /\ Top.pc \in 1 .. Len(Segment[Top.seg]) + 1
    BY <1>1, <1>2 DEF Ended, Body, IsActivation
  <2>3. Top.pc = Len(Segment[Top.seg]) + 1
    BY <2>1, <2>2
  <2>. QED
    BY <1>2, <2>3
<1>4. CASE Len(stack) = 1
  <2>1. Idle'
    BY <1>1, <1>4 DEF Return, Idle
  <2>2. DOMAIN stack = {1}
    BY <1>2, <1>4
  <2>3. \A p \in fresh : IsStruct(p) =>
          \A i \in DOMAIN Segment[SegmentAt(p)] : Shows(fresh, has, len, p, i)
    BY <1>3, <2>2, GoodEnds
  <2>4. \A p \in fresh' : IsStruct(p) =>
          \A i \in DOMAIN Segment[SegmentAt(p)] : ShowsThisCall(p, i)'
    BY <1>1, <2>3, ShowsIsOfTheState
  <2>5. MessageIsOfThisCall'
    BY <2>4 DEF MessageIsOfThisCall, IsStruct, SegmentAt
  <2>. QED
    BY <2>1, <2>5
<1>5. CASE Len(stack) # 1
  <2>1. PICK n : n = Len(stack)
    OBVIOUS
  <2>2. /\ n \in Nat \ {0, 1} /\ DOMAIN stack = 1 .. n
        /\ DOMAIN stack' = 1 .. n - 1
        /\ \A j \in 1 .. n - 1 : stack'[j] = stack[j + 1]
    BY <1>1, <1>5, <2>1, ReturnShape DEF Inv
  <2>3. Good(stack', fresh, has, len)
    BY <1>3, <2>2, GoodLeaves
  <2>4. ~Idle'
    <3>1. 1 \in DOMAIN stack' /\ DOMAIN <<>> = {}
      BY <2>2
    <3>. QED
      BY <3>1 DEF Idle
  <2>. QED
    BY <1>1, <2>3, <2>4 DEF MessageIsOfThisCall
<1>. QED
  BY <1>4, <1>5

\* A message begins.
LEMMA KnownStartsGood ==
  ASSUME StackOK', NEW r, DecodeKnown(r)
  PROVE  Good(stack', fresh', has', len') /\ ~Idle'
<1>. DEFINE s == Template[r.val]
            at == <<r.val>>
            c == Activation(s, at, TRUE, 1)
<1>1. /\ r.val \in DOMAIN Template /\ stack' = <<c>>
      /\ has' = has \ Cleared(s, at) /\ fresh' = {at}
  BY DEF DecodeKnown
<1>2. c.seg = s /\ c.at = at /\ c.pc = 1 /\ c.next = 0
  BY DEF Activation
<1>. HIDE DEF c
<1>3. DOMAIN stack' = {1} /\ stack'[1] = c
  BY <1>1
<1>4. IsActivation(c)
  <2>1. \A j \in DOMAIN stack' : IsActivation(stack'[j])
    BY DEF StackOK, IsActivation
  <2>. QED
    BY <1>3, <2>1
<1>5. has' \cap Cleared(c.seg, c.at) = {} /\ fresh' = {c.at}
  BY <1>1, <1>2
<1>6. ~Idle'
  BY <1>1 DEF Idle
<1>7. Good(stack', {c.at}, has', len')
  BY <1>1, <1>2, <1>3, <1>4, <1>5, GoodStarts
<1>. QED
  BY <1>5, <1>6, <1>7

-----------------------------------------------------------------------------
(* The theorem.                                                            *)

\* A new Router has no message to show.
LEMMA InitiallyMessageInv == Init => MessageInv
BY InitiallyInv DEF Init, MessageInv, MessageIsOfThisCall, Idle

\* What MessageInv asks of a step: an error promises nothing, and a call that
\* goes on is described by Good.
LEMMA AfterAStep ==
  ASSUME Inv', Abandon \/ ~Idle', ~Idle' => Good(stack', fresh', has', len')
  PROVE  MessageInv'
<1>1. Idle' => ret' = "error"
  BY DEF Abandon, Return
<1>2. MessageIsOfThisCall'
  BY <1>1 DEF MessageIsOfThisCall
<1>. QED
  BY <1>2 DEF MessageInv

\* Every statement of a running method preserves MessageInv.
LEMMA StepKeepsMessageInv ==
  ASSUME MessageInv, Inv', Step
  PROVE  MessageInv'
<1>1. Inv /\ StackOK /\ StackOK'
  BY DEF MessageInv, Inv
<1>2. ~Idle => Good(stack, fresh, has, len)
  BY DEF MessageInv
<1>3. ASSUME NEW b \in BOOLEAN, NEW n \in Numbers, FieldStep(b, n)
      PROVE  MessageInv'
  <2>1. ~Idle /\ (Abandon \/ \E a : Continue(a))
    BY <1>3 DEF FieldStep, Running
  <2>2. Abandon \/ ~Idle'
    BY <1>1, <2>1, NotEmptied
  <2>3. ~Idle' => Good(stack', fresh', has', len')
    BY <1>1, <1>2, <1>3, <2>1, FieldKeepsGood
  <2>. QED
    BY <2>2, <2>3, AfterAStep
<1>4. ASSUME ~Idle, ~Ended, Current.kind = "sequence", Top.next = 0,
             \/ Abandon
             \/ \E used : SkipSequence(used) \/ \E m : EnterSequence(m, used)
      PROVE  MessageInv'
  <2>1. Abandon \/ \E a : Continue(a)
    BY <1>4 DEF SkipSequence, EnterSequence
  <2>2. Abandon \/ ~Idle'
    BY <1>1, <1>4, <2>1, NotEmptied
  <2>3. Abandon => Idle'
    BY DEF Abandon, Return, Idle
  <2>4. ~Idle' => Good(stack', fresh', has', len')
    BY <1>1, <1>2, <1>4, <2>3, SizingKeepsGood
  <2>. QED
    BY <2>2, <2>4, AfterAStep
<1>5. ASSUME NEW b \in BOOLEAN, NEW n \in Numbers, LengthStep(b, n)
      PROVE  MessageInv'
  <2>1. ~Idle /\ ~Ended /\ Current.kind = "sequence" /\ Top.next = 0
    BY <1>5 DEF LengthStep, Running
  <2>2. \/ Abandon
        \/ \E used : SkipSequence(used) \/ \E m : EnterSequence(m, used)
    BY <1>5 DEF LengthStep
  <2>. QED
    BY <1>4, <2>1, <2>2
<1>6. ASSUME NEW b \in BOOLEAN, ConstantLengthStep(b)
      PROVE  MessageInv'
  <2>1. ~Idle /\ ~Ended /\ Current.kind = "sequence" /\ Top.next = 0
    BY <1>6 DEF ConstantLengthStep, Running
  <2>2. \E used : SkipSequence(used) \/ \E m : EnterSequence(m, used)
    BY <1>6 DEF ConstantLengthStep
  <2>. QED
    BY <1>4, <2>1, <2>2
<1>7. ASSUME NEW b \in BOOLEAN, GroupStep(b)
      PROVE  MessageInv'
  <2>1. ~Idle /\ (\/ Abandon
                  \/ \E a : Continue(a)
                  \/ \E c, a : stack' = <<c, a>> \o Tail(stack))
    BY <1>7 DEF GroupStep, Running, Call
  <2>2. Abandon \/ ~Idle'
    BY <1>1, <2>1, NotEmptied
  <2>3. ~Idle' => Good(stack', fresh', has', len')
    BY <1>1, <1>2, <1>7, <2>1, GroupKeepsGood
  <2>. QED
    BY <2>2, <2>3, AfterAStep
<1>8. CASE ElementStep
  <2>1. ~Idle /\ (Abandon \/ \E c, a : stack' = <<c, a>> \o Tail(stack))
    BY <1>8 DEF ElementStep, Running, Call
  <2>2. Abandon \/ ~Idle'
    BY <1>1, <2>1, NotEmptied
  <2>3. ~Idle' => Good(stack', fresh', has', len')
    BY <1>1, <1>2, <1>8, <2>1, ElementKeepsGood
  <2>. QED
    BY <2>2, <2>3, AfterAStep
<1>9. CASE SequenceEnd
  <2>1. ~Idle /\ \E a : Continue(a)
    BY <1>9 DEF SequenceEnd, Running
  <2>2. ~Idle'
    BY <1>1, <2>1, NotEmptied
  <2>3. Good(stack', fresh', has', len')
    BY <1>1, <1>2, <1>9, <2>1, SequenceEndKeepsGood
  <2>. QED
    BY <2>2, <2>3, AfterAStep
<1>10. CASE Leave
  <2>1. ~Idle
    BY <1>10 DEF Leave
  <2>2. /\ ~Idle' => Good(stack', fresh', has', len')
        /\ MessageIsOfThisCall'
    BY <1>1, <1>2, <1>10, <2>1, LeaveKeepsGood
  <2>. QED
    BY <2>2 DEF MessageInv
<1>. QED
  BY <1>3, <1>5, <1>6, <1>7, <1>8, <1>9, <1>10 DEF Step

\* Every step of the caller, and the start of a call, preserve MessageInv.
LEMMA MessageInvIsInductive == MessageInv /\ [Next]_vars => MessageInv'
<1>. SUFFICES ASSUME MessageInv, [Next]_vars PROVE MessageInv'
  OBVIOUS
<1>1. Inv'
  BY InvIsInductive DEF MessageInv
<1>2. ASSUME stack' = stack, fresh' = fresh, has' = has, len' = len, ret' = ret
      PROVE  MessageInv'
  <2>1. ~Idle' => Good(stack', fresh', has', len')
    BY <1>2 DEF MessageInv, Idle
  <2>2. MessageIsOfThisCall'
    BY <1>2 DEF MessageInv, MessageIsOfThisCall, Idle, ShowsThisCall, SliceLen,
                IsStruct, SegmentAt
  <2>. QED
    BY <1>1, <2>1, <2>2 DEF MessageInv
<1>3. ASSUME Idle', ret' # "message"
      PROVE  MessageInv'
  BY <1>1, <1>3 DEF MessageInv, MessageIsOfThisCall
<1>4. CASE (\E n \in 0 .. MaxFrame : NewFrame(n)) \/ Reset \/ UNCHANGED vars
  BY <1>2, <1>4 DEF NewFrame, Reset, vars, messages, history
<1>5. CASE Decode
  <2>1. CASE DecodeAtEnd
    BY <1>3, <2>1 DEF DecodeAtEnd, Abandon, Return, Idle
  <2>2. ASSUME NEW r, DecodeNoId(r) \/ DecodeControl(r) \/ DecodeUnknown(r)
        PROVE  MessageInv'
    BY <1>3, <2>2 DEF DecodeNoId, DecodeControl, DecodeUnknown, Abandon, Return, Idle
  <2>3. ASSUME NEW r, DecodeKnown(r)
        PROVE  MessageInv'
    <3>1. Good(stack', fresh', has', len') /\ ~Idle'
      BY <1>1, <2>3, KnownStartsGood DEF Inv
    <3>. QED
      BY <1>1, <3>1, AfterAStep
  <2>. QED
    BY <1>5, <2>1, <2>2, <2>3 DEF Decode
<1>6. CASE Step
  BY <1>1, <1>6, StepKeepsMessageInv
<1>. QED
  BY <1>4, <1>5, <1>6 DEF Next

\* A returned message never shows anything of an earlier message, for every set
\* of templates and every feed: its structs and slices are reused, and earlier
\* calls may have failed half way.
THEOREM NothingOldIsShown == Spec => []MessageIsOfThisCall
<1>1. MessageInv => MessageIsOfThisCall
  BY DEF MessageInv
<1>. QED
  BY <1>1, InitiallyMessageInv, MessageInvIsInductive, PTL DEF Spec
=============================================================================
