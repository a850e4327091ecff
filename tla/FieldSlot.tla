----------------------------- MODULE FieldSlot -----------------------------
(***************************************************************************)
(* One integer field and its dictionary slot through any sequence of       *)
(* decodes and dictionary resets, the way a generated decoder drives it:   *)
(* one slot per field, used by that field alone, with one operator.  A     *)
(* decode calls the operator's own function, or goes through the entry     *)
(* that takes the operator as an argument.                                 *)
(*                                                                         *)
(* log is a history variable: the outcomes delivered since the last reset. *)
(* No decode reads it.                                                     *)
(***************************************************************************)
EXTENDS Promises

CONSTANTS Initials, MaxDeliveries

ASSUME BoundAssumption == Initials \subseteq Int /\ MaxDeliveries \in Nat

VARIABLES field, slot, input, outcome, log

vars == <<field, slot, input, outcome, log>>

Promise == INSTANCE PreviousValue

Init ==
  /\ field \in Fields(Initials)
  /\ slot = UndefinedSlot
  /\ input = NoInput
  /\ outcome = NoValue
  /\ log = <<>>

\* What a decode of w may return, by either way of calling.
Results(w) == {DecodeInteger(w, field, slot), DispatchInteger(w, field, slot)}

Decode(w) == \E res \in Results(w) :
  /\ Len(log) < MaxDeliveries
  /\ slot' = res.slot
  /\ input' = w
  /\ outcome' = Returned(res.present, res.val, res.err)
  /\ log' = IF res.err = NoError THEN Append(log, outcome') ELSE log
  /\ UNCHANGED field

Reset ==
  /\ slot' = UndefinedSlot
  /\ input' = NoInput
  /\ outcome' = NoValue
  /\ log' = <<>>
  /\ UNCHANGED field

Next == Reset \/ \E w \in Inputs(field) : Decode(w)

Spec == Init /\ [][Next]_vars

-----------------------------------------------------------------------------
TypeOK ==
  /\ field \in Fields(Initials)
  /\ slot \in Slots(field)
  /\ input \in Inputs(field) \cup {NoInput}
  /\ outcome \in Outcomes(field)
  /\ log \in Seq(Outcomes(field))

\* The previous value is Empty only in an optional field (dict.go says so of
\* State), and only where the operator can empty it; so ErrD6, the error of an
\* empty mandatory field or of a delta on an empty value, is never returned.
NeverD6 ==
  /\ slot.State = "Empty" => field.optional /\ field.op \in {"Copy", "Increment"}
  /\ outcome.err # ErrD6

\* The slot is exactly the memory the operator needs: for copy and increment
\* the last outcome since the reset, for delta the last value present since
\* the reset, for the rest nothing.
SlotRemembersDelivery == Remembers(field, slot, log)

\* A mandatory field never comes back absent without an error, whatever the
\* wire and the history: a message that decodes has all its mandatory fields.
MandatoryIsPresent ==
  outcome # NoValue \/ input = NoInput \/ field.optional

\* A decode that fails leaves the previous value exactly as it found it, so
\* a failing field can be retried without having advanced.
FailureKeepsSlot == [][outcome'.err # NoError => slot' = slot]_vars

\* Slot and operators implement the promise made in terms of the history.
PromiseKept == Promise!Spec
=============================================================================
