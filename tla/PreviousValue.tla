--------------------------- MODULE PreviousValue ---------------------------
(***************************************************************************)
(* A field that keeps its promise for ever, and has nothing to remember    *)
(* but what it delivered.  FieldSlot implements this with one slot of a    *)
(* state and a value.                                                      *)
(***************************************************************************)
EXTENDS Promises

CONSTANTS Initials,        \* initial values the declarations may use
          MaxDeliveries    \* bound on the outcomes between two resets

VARIABLES field,    \* the declaration, fixed
          input,    \* the wire of the last decode
          outcome,  \* what the last decode returned
          log       \* the outcomes delivered since the last reset

vars == <<field, input, outcome, log>>

Init ==
  /\ field \in Fields(Initials)
  /\ input = NoInput
  /\ outcome = NoValue
  /\ log = <<>>

Decode(w) ==
  /\ Len(log) < MaxDeliveries
  /\ input' = w
  /\ outcome' = Promised(field, log, w)
  /\ log' = IF outcome'.err = NoError THEN Append(log, outcome') ELSE log
  /\ UNCHANGED field

\* A caller who passes the operator along is refused a tail, unread.
Refuse(w) ==
  /\ field.op = "Tail" /\ Len(log) < MaxDeliveries
  /\ input' = w
  /\ outcome' = Failure(ErrUnsupported)
  /\ UNCHANGED <<field, log>>

Reset ==
  /\ input' = NoInput
  /\ outcome' = NoValue
  /\ log' = <<>>
  /\ UNCHANGED field

Next == Reset \/ \E w \in Inputs(field) : Decode(w) \/ Refuse(w)

Spec == Init /\ [][Next]_vars
=============================================================================
