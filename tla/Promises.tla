------------------------------ MODULE Promises ------------------------------
(***************************************************************************)
(* What the field operators promise, with no slot in sight: the outcome of *)
(* a decode depends only on what is transmitted and on l, the outcomes     *)
(* that the field has delivered since the last dictionary reset.           *)
(*                                                                         *)
(*   copy       delivers the last outcome again                            *)
(*   increment  delivers the successor of the last outcome, in the cyclic  *)
(*              order of the declared width; an absent outcome stays absent*)
(*   delta      adds to the last value that was present, skipping absences *)
(*   the others look at no previous outcome at all; a tail, which no       *)
(*              integer has, is none                                       *)
(***************************************************************************)
EXTENDS IntegerOperators, Histories

Returned(present, val, err) == [present |-> present, val |-> val, err |-> err]
Value(v)   == Returned(TRUE, v, NoError)
NoValue    == Returned(FALSE, 0, NoError)
Failure(e) == Returned(FALSE, 0, e)

Outcomes(f) == [present : BOOLEAN, val : Values(f), err : Errors \cup {NoError}]

-----------------------------------------------------------------------------
(* What is transmitted for the field.                                      *)

\* The operators that own a presence-map bit, and the fields that read it.
Selected(f, w) ==
  \/ f.op \in {"None", "Delta", "Tail"}
  \/ f.op = "Constant" /\ ~f.optional
  \/ f.op \notin {"None", "Delta", "Tail"} /\ PresenceBit(w)

IsSigned(f) == f.type = "int" \/ f.op = "Delta"

Transmitted(f, w) ==
  LET n    == Head(w.buf)
      fits == IF IsSigned(f) THEN Int64 ELSE Uint64
  IN  IF w.buf = <<>> THEN Failure(EndOfStream)
      ELSE IF n \notin fits THEN Failure(Overflow)
      ELSE IF ~f.optional THEN Value(n)
      ELSE IF n = 0 THEN NoValue
      ELSE IF n > 0 THEN Value(n - 1) ELSE Value(n)

-----------------------------------------------------------------------------
(* What it owes when its value is not transmitted; l is its history.       *)

Start(f) ==
  IF f.hasInitial THEN Value(f.initial)
  ELSE IF f.optional THEN NoValue ELSE Failure(ErrD5)

Highest(f) ==
  CASE f.type = "uint" /\ f.width = 32 -> 2 * Half32 - 1
    [] f.type = "uint" /\ f.width = 64 -> 2 * Half64 - 1
    [] f.type = "int"  /\ f.width = 32 -> Half32 - 1
    [] f.type = "int"  /\ f.width = 64 -> Half64 - 1

Lowest(f) ==
  CASE f.type = "uint"                 -> 0
    [] f.type = "int" /\ f.width = 32  -> -Half32
    [] f.type = "int" /\ f.width = 64  -> -Half64

\* The number of an interval that n comes to when counting wraps around in it.
Wrapped(lo, hi, n) == CHOOSE u \in lo .. hi : (n - u) % (hi - lo + 1) = 0

\* The successor in the declared width; a value that was transmitted may lie
\* outside the declared width, and is brought back into it.
Successor(f, v) == Wrapped(Lowest(f), Highest(f), v + 1)

LastValue(f, l) ==
  IF PresentAt(l) = {}
  THEN IF f.hasInitial THEN f.initial ELSE 0
  ELSE Latest(l)

\* Adding a delta wraps in 64 bits, at either end.
Sum(f, v, d) ==
  IF f.type = "uint" THEN Wrapped(0, 2 * Half64 - 1, v + d)
                     ELSE Wrapped(-Half64, Half64 - 1, v + d)

Implied(f, l) ==
  IF f.op = "Constant" THEN NoValue
  ELSE IF f.op = "Default" \/ l = <<>> THEN Start(f)
  ELSE IF ~LastOutcome(l).present THEN NoValue
  ELSE IF f.op = "Copy" THEN Value(LastOutcome(l).val)
  ELSE Value(Successor(f, LastOutcome(l).val))

Explicit(f, l, w) ==
  IF f.op = "Constant" THEN Value(f.initial)
  ELSE IF f.op = "Delta" /\ Transmitted(f, w).present
       THEN Value(Sum(f, LastValue(f, l), Transmitted(f, w).val))
  ELSE Transmitted(f, w)

Promised(f, l, w) == IF Selected(f, w) THEN Explicit(f, l, w) ELSE Implied(f, l)

-----------------------------------------------------------------------------
(* What a field takes off the wire.                                        *)

OwnsBit(f) ==
  f.op \in {"Default", "Copy", "Increment"} \/ (f.op = "Constant" /\ f.optional)

IsSent(f, w) == f.op # "Constant" /\ Selected(f, w)

Rest(f, w) ==
  [pm  |-> IF OwnsBit(f) /\ w.pm # <<>> THEN Tail(w.pm) ELSE w.pm,
   buf |-> IF IsSent(f, w) /\ w.buf # <<>> THEN Tail(w.buf) ELSE w.buf]

\* The wires a decode can meet: any bit, and an entity, too wide a one, or
\* none because the message was cut short.
IntegerEntities(f) ==
  IF IsSigned(f) THEN -(Half64 + 1) .. Half64 ELSE 0 .. (2 * Half64)

Inputs(f) ==
  [pm  : {<<>>, <<TRUE>>, <<FALSE>>},
   buf : {<<>>} \cup {<<e>> : e \in IntegerEntities(f)}]

NoInput == [pm |-> <<>>, buf |-> <<>>]

-----------------------------------------------------------------------------
(* How a slot s keeps the promise for a history l: copy and increment need *)
(* the last outcome, delta the last value that was present, and the other  *)
(* operators need nothing.                                                 *)

Remembers(f, s, l) ==
  CASE f.op \in {"None", "Constant", "Default", "Tail"} -> s = UndefinedSlot
    [] f.op \in {"Copy", "Increment"} ->
         IF l = <<>> THEN s = UndefinedSlot
         ELSE IF LastOutcome(l).present THEN s = Assign(LastOutcome(l).val)
         ELSE s.State = "Empty"
    [] f.op = "Delta" ->
         IF PresentAt(l) = {} THEN s = UndefinedSlot
         ELSE s = Assign(LastValue(f, l))
=============================================================================
