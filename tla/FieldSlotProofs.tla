-------------------------- MODULE FieldSlotProofs --------------------------
(***************************************************************************)
(* Theorems about FieldSlot, for every pair of widths, every set of        *)
(* initial values and every bound on the log.                              *)
(*                                                                         *)
(* The argument: a decode is one call of an operator's function, and the   *)
(* lemmas of PromiseProofs say what such a call does to a slot that agrees *)
(* with its history, and what it returns.  The entry that takes the        *)
(* operator as an argument makes the same call or refuses a tail.          *)
(***************************************************************************)
EXTENDS FieldSlot, PromiseProofs

-----------------------------------------------------------------------------
(* The inductive invariant: the slot agrees with the log.  It is stronger  *)
(* than TypeOK and SlotRemembersDelivery together, in that a log with a    *)
(* value in it has a last one.                                             *)

IInv ==
  /\ TypeOK
  /\ Agree(field, slot, log)

\* The field is one that can be declared.
LEMMA FieldIsDeclared ==
  ASSUME field \in Fields(Initials)
  PROVE  field \in AllFields
BY BoundAssumption, DeclaredFields

\* The two ways of calling differ in a tail only.
LEMMA ResultsOfDecode ==
  ASSUME NEW w
  PROVE  Results(w) \subseteq
           {DecodeInteger(w, field, slot)} \cup
           (IF field.op = "Tail" THEN {Fail(w, slot, ErrUnsupported)} ELSE {})
BY DEF Results, DispatchInteger, DecodeInteger, DecodeUint, DecodeInt

\* A refusal satisfies the contract too.
LEMMA RefusalContract ==
  ASSUME IInv, NEW w
  PROVE  Contract(field, slot, Fail(w, slot, ErrUnsupported))
BY ValuesFacts
   DEF IInv, Agree, Contract, EmptyIsLegal, Fail, Errors, NoError, ErrUnsupported, ErrD6

\* A decode is a call that satisfies the contract, seen by its caller.
LEMMA DecodeIsCall ==
  ASSUME IInv, NEW w, Decode(w)
  PROVE  \E res \in Results(w) :
           /\ Contract(field, slot, res)
           /\ slot' = res.slot
           /\ outcome' = Visible(res)
           /\ outcome' \in Outcomes(field)
           /\ /\ outcome'.present = res.present
              /\ outcome'.val = res.val
              /\ outcome'.err = res.err
           /\ log' = Noted(log, outcome')
           /\ field' = field
<1>1. PICK res \in Results(w) :
        /\ slot' = res.slot
        /\ outcome' = Returned(res.present, res.val, res.err)
        /\ log' = IF res.err = NoError THEN Append(log, outcome') ELSE log
        /\ field' = field
  BY DEF Decode
<1>2. Contract(field, slot, res)
  <2>1. Contract(field, slot, DecodeInteger(w, field, slot))
    BY DecodeIntegerContract DEF IInv, Agree
  <2>. QED
    BY <2>1, ResultsOfDecode, RefusalContract
<1>3. outcome' = Visible(res)
  BY <1>1 DEF Visible
<1>4. /\ outcome' \in Outcomes(field)
      /\ outcome'.present = res.present
      /\ outcome'.val = res.val
      /\ outcome'.err = res.err
  BY <1>2, <1>3, OutcomeIsVisible
<1>. QED
  BY <1>1, <1>2, <1>3, <1>4 DEF Noted

\* Nothing in an outcome that says no value is an error.
LEMMA NoValueIsOutcome ==
  ASSUME NEW f
  PROVE  NoValue \in Outcomes(f) /\ NoValue.err = NoError
BY ValuesFacts DEF NoValue, Returned, Outcomes

\* The invariant holds at first and after a reset,
LEMMA InitEstablishes == Init => IInv
<1>. SUFFICES ASSUME Init PROVE IInv
  OBVIOUS
<1>1. field \in AllFields
  BY FieldIsDeclared DEF Init
<1>2. Agree(field, UndefinedSlot, <<>>)
  BY <1>1, AgreeAtFirst
<1>. QED
  BY <1>2, NoValueIsOutcome DEF Init, IInv, TypeOK, Agree

\* and after every other step.
LEMMA NextPreserves == IInv /\ [Next]_vars => IInv'
<1>. SUFFICES ASSUME IInv, [Next]_vars PROVE IInv'
  OBVIOUS
<1>1. CASE Reset
  <2>1. Agree(field, UndefinedSlot, <<>>)
    BY AgreeAtFirst DEF IInv, Agree
  <2>. QED
    BY <1>1, <2>1, NoValueIsOutcome DEF Reset, IInv, TypeOK, Agree
<1>2. ASSUME NEW w \in Inputs(field), Decode(w) PROVE IInv'
  <2>1. Agree(field, slot', log') /\ outcome' \in Outcomes(field) /\ field' = field
    BY <1>2, DecodeIsCall, AgreeAfterCall DEF IInv
  <2>2. input' \in Inputs(field)
    BY <1>2 DEF Decode
  <2>. QED
    BY <2>1, <2>2 DEF IInv, TypeOK, Agree
<1>3. CASE UNCHANGED vars
  BY <1>3 DEF IInv, TypeOK, vars
<1>. QED
  BY <1>1, <1>2, <1>3 DEF Next

\* Hence it always holds.
LEMMA Invariance == Spec => []IInv
BY InitEstablishes, NextPreserves, PTL DEF Spec

-----------------------------------------------------------------------------
(* The invariants.                                                         *)

\* The types, as an invariant of the specification.
THEOREM TypeCorrect == Spec => []TypeOK
<1>1. IInv => TypeOK
  BY DEF IInv
<1>. QED
  BY <1>1, Invariance, PTL

\* The slot is the memory the operator needs, and no more.
THEOREM SlotIsTheHistory == Spec => []SlotRemembersDelivery
<1>1. IInv => SlotRemembersDelivery
  BY DEF IInv, Agree, SlotRemembersDelivery
<1>. QED
  BY <1>1, Invariance, PTL

\* No decode ever fails with ErrD6, whatever is transmitted: only optional
\* fields can have an Empty previous value.
THEOREM D6IsUnreachable == Spec => []NeverD6
<1>1. Init => NeverD6
  BY NoValueIsOutcome DEF Init, NeverD6, UndefinedSlot, NoError, ErrD6
<1>2. IInv /\ NeverD6 /\ [Next]_vars => NeverD6'
  <2>. SUFFICES ASSUME IInv, NeverD6, [Next]_vars PROVE NeverD6'
    OBVIOUS
  <2>1. CASE Reset
    BY <2>1, NoValueIsOutcome DEF Reset, NeverD6, UndefinedSlot, NoError, ErrD6
  <2>2. ASSUME NEW w \in Inputs(field), Decode(w) PROVE NeverD6'
    BY <2>2, DecodeIsCall DEF IInv, Agree, Contract, EmptyIsLegal, NeverD6
  <2>3. CASE UNCHANGED vars
    BY <2>3 DEF NeverD6, vars
  <2>. QED
    BY <2>1, <2>2, <2>3 DEF Next
<1>. QED
  BY <1>1, <1>2, Invariance, PTL DEF Spec

\* A message that decodes has every mandatory field.
THEOREM MandatoryFieldsArePresent == Spec => []MandatoryIsPresent
<1>1. Init => MandatoryIsPresent
  BY DEF Init, MandatoryIsPresent
<1>2. IInv /\ MandatoryIsPresent /\ [Next]_vars => MandatoryIsPresent'
  <2>. SUFFICES ASSUME IInv, MandatoryIsPresent, [Next]_vars
                PROVE  MandatoryIsPresent'
    OBVIOUS
  <2>1. CASE Reset
    BY <2>1 DEF Reset, MandatoryIsPresent
  <2>2. ASSUME NEW w \in Inputs(field), Decode(w)
        PROVE  MandatoryIsPresent'
    BY <2>2, DecodeIsCall
       DEF Contract, MandatoryIsPresent, NoValue, Returned, NoError
  <2>3. CASE UNCHANGED vars
    BY <2>3 DEF MandatoryIsPresent, vars
  <2>. QED
    BY <2>1, <2>2, <2>3 DEF Next
<1>. QED
  BY <1>1, <1>2, Invariance, PTL DEF Spec

\* A decode that fails leaves the previous value as it found it.
THEOREM FailureIsHarmless == Spec => FailureKeepsSlot
<1>1. IInv /\ [Next]_vars => [outcome'.err # NoError => slot' = slot]_vars
  <2>. SUFFICES ASSUME IInv, Next, outcome'.err # NoError
                PROVE  slot' = slot
    OBVIOUS
  <2>1. ~Reset
    BY NoValueIsOutcome DEF Reset
  <2>2. PICK w \in Inputs(field) : Decode(w)
    BY <2>1 DEF Next
  <2>. QED
    BY <2>2, DecodeIsCall DEF Contract
<1>. QED
  BY <1>1, Invariance, PTL DEF Spec, FailureKeepsSlot

-----------------------------------------------------------------------------
(* The slot implements the promise.                                        *)

\* The promise is made in the same words by either module.
LEMMA SamePromise ==
  ASSUME NEW f, NEW l, NEW w
  PROVE  /\ Promise!Promised(f, l, w) = Promised(f, l, w)
         /\ Promise!Inputs(f) = Inputs(f)
         /\ Promise!NoInput = NoInput /\ Promise!NoValue = NoValue
         /\ Promise!NoError = NoError
         /\ Promise!Failure(Promise!ErrUnsupported) = Failure(ErrUnsupported)
         /\ Promise!Fields(Initials) = Fields(Initials)
<1>1. Promise!Transmitted(f, w) = Transmitted(f, w)
  BY DEF Promise!Transmitted, Transmitted, Promise!IsSigned, IsSigned, Promise!Value,
         Value, Promise!NoValue, NoValue, Promise!Failure, Failure, Promise!Returned,
         Returned, Promise!NoError, NoError, Promise!EndOfStream, EndOfStream,
         Promise!Overflow, Overflow, Promise!Int64, Int64, Promise!Uint64, Uint64
<1>2. Promise!LastValue(f, l) = LastValue(f, l)
  BY DEF Promise!LastValue, LastValue, Promise!PresentAt, PresentAt, Promise!Latest, Latest
<1>3. \A v : Promise!Successor(f, v) = Successor(f, v)
  BY DEF Promise!Successor, Successor, Promise!Wrapped, Wrapped, Promise!Lowest,
         Lowest, Promise!Highest, Highest
<1>. QED
  BY <1>1, <1>2, <1>3
  DEF Promise!Promised, Promised, Promise!Selected, Selected, Promise!PresenceBit,
      PresenceBit, Promise!Explicit, Explicit, Promise!Implied, Implied,
      Promise!Sum, Sum, Promise!Wrapped, Wrapped, Promise!LastOutcome, LastOutcome,
      Promise!Start, Start, Promise!Value, Value, Promise!NoValue, NoValue,
      Promise!Failure, Failure, Promise!Returned, Returned, Promise!NoError, NoError,
      Promise!ErrD5, ErrD5, Promise!Inputs, Inputs,
      Promise!IntegerEntities, IntegerEntities,
      Promise!IsSigned, IsSigned, Promise!NoInput, NoInput, Promise!Fields, Fields,
      Promise!ErrUnsupported, ErrUnsupported,
      Promise!Operators, Operators, Promise!Values, Values, Promise!Uint64, Uint64,
      Promise!Int64, Int64

\* Whatever was delivered since the reset determines, with the wire, the next
\* outcome.
THEOREM SlotKeepsPromise == Spec => PromiseKept
<1>1. Init => Promise!Init
  BY SamePromise DEF Init, Promise!Init
<1>2. IInv /\ [Next]_vars => [Promise!Next]_(Promise!vars)
  <2>. SUFFICES ASSUME IInv, [Next]_vars PROVE [Promise!Next]_(Promise!vars)
    OBVIOUS
  <2>1. CASE Reset
    BY <2>1, SamePromise DEF Reset, Promise!Next, Promise!Reset
  <2>2. ASSUME NEW w \in Inputs(field), Decode(w)
        PROVE  Promise!Decode(w) \/ Promise!Refuse(w)
    <3>1. /\ Len(log) < MaxDeliveries /\ input' = w
          /\ log' = Noted(log, outcome') /\ field' = field
      BY <2>2, DecodeIsCall DEF Decode
    <3>2. CASE outcome' = Visible(DecodeInteger(w, field, slot))
      <4>1. IsWire(w)
        BY DEF IsWire, Inputs
      <4>2. outcome' = Promise!Promised(field, log, w)
        BY <3>2, <4>1, OutcomeIsPromised, SamePromise DEF IInv
      <4>. QED
        BY <3>1, <4>2, SamePromise DEF Promise!Decode, Noted
    <3>3. CASE /\ field.op = "Tail"
               /\ outcome' = Visible(Fail(w, slot, ErrUnsupported))
      <4>1. outcome' = Failure(ErrUnsupported) /\ outcome'.err # NoError
        BY <3>3 DEF Visible, Fail, Failure, Returned, ErrUnsupported, NoError
      <4>. QED
        BY <3>1, <3>3, <4>1, SamePromise DEF Promise!Refuse, Noted
    <3>. QED
      BY <2>2, <3>2, <3>3, DecodeIsCall, ResultsOfDecode
  <2>3. CASE UNCHANGED vars
    BY <2>3 DEF vars, Promise!vars
  <2>. QED
    BY <2>1, <2>2, <2>3, SamePromise DEF Next, Promise!Next
<1>. QED
  BY <1>1, <1>2, Invariance, PTL DEF Spec, PromiseKept, Promise!Spec
=============================================================================
