-------------------------- MODULE PreviousDecimal --------------------------
(***************************************************************************)
(* What a decimal field promises, with no slot in sight.  A decimal with   *)
(* one operator depends on what was transmitted and on the decimals it has *)
(* delivered since the last reset.  A decimal in parts makes the promise   *)
(* of an integer for each part: the exponents have a history of their own, *)
(* and so have the mantissas, which are only ever asked for beside an      *)
(* exponent.  An exponent is history even if its mantissa then failed.     *)
(***************************************************************************)
EXTENDS DecimalOperators

CONSTANTS Declarations,    \* the declarations of the field, numbers or parts
          OnWire,          \* for each kind, the numbers that may be on the wire
          MaxDeliveries    \* for each kind, bound on the outcomes between resets

VARIABLES decl,     \* the declaration, fixed
          input,    \* the wire of the last decode
          outcome,  \* what the last decode returned
          log       \* the outcomes since the last reset, of the decimal or
                    \* of its parts

vars == <<decl, input, outcome, log>>

Integer == INSTANCE Promises

Returned(present, val, err) == [present |-> present, val |-> val, err |-> err]
Value(d)   == Returned(TRUE, d, NoError)
NoValue    == Returned(FALSE, Zero, NoError)
Failure(e) == Returned(FALSE, Zero, e)

\* The exponent of 32 bits that a wider one comes to.
Narrow(e) == Integer!Wrapped(-Half32, Half32 - 1, e)
Wide(m)   == Integer!Wrapped(-Half64, Half64 - 1, m)

-----------------------------------------------------------------------------
(* One operator for the number.                                            *)

Plain(optional) == [type |-> "int", op |-> "None", optional |-> optional]

\* An exponent, and unless that is NULL a mantissa.
Transmitted(w) ==
  LET e == Integer!Transmitted(Plain(decl.optional), w)
      m == Integer!Transmitted(Plain(FALSE), [w EXCEPT !.buf = Tail(@)])
  IN  IF e.err # NoError THEN Failure(e.err)
      ELSE IF ~e.present THEN NoValue
      ELSE IF m.err # NoError THEN Failure(m.err)
      ELSE Value(Decimal(m.val, Narrow(e.val)))

\* The last decimal delivered, however many absences came after it.
LastDecimal ==
  IF Integer!PresentAt(log.number) = {}
  THEN IF decl.hasInitial THEN decl.initial ELSE Zero
  ELSE Integer!Latest(log.number)

Sum(a, b) == Decimal(Wide(a.mant + b.mant), Narrow(a.exp + b.exp))

Start ==
  IF decl.hasInitial THEN Value(decl.initial)
  ELSE IF decl.optional THEN NoValue ELSE Failure(ErrD5)

Implied ==
  IF decl.op = "Constant" THEN NoValue
  ELSE IF decl.op = "Default" \/ log.number = <<>> THEN Start
  ELSE Integer!LastOutcome(log.number)

Explicit(w) ==
  IF decl.op = "Constant" THEN Value(decl.initial)
  ELSE IF decl.op = "Delta" /\ Transmitted(w).present
       THEN Value(Sum(LastDecimal, Transmitted(w).val))
  ELSE Transmitted(w)

PromisedNumber(w) ==
  IF decl.op \in {"Increment", "Tail"} THEN Failure(ErrUnsupported)
  ELSE IF Integer!Selected(decl, w) THEN Explicit(w) ELSE Implied

-----------------------------------------------------------------------------
(* An operator for each part.                                              *)

PromisedExponent(w) == Integer!Promised(decl.exp, log.exp, w)
PromisedMantissa(w) == Integer!Promised(decl.mant, log.mant, Integer!Rest(decl.exp, w))

PromisedParts(w) ==
  LET e == PromisedExponent(w)
      m == PromisedMantissa(w)
  IN  IF ~e.present THEN Returned(FALSE, Zero, e.err)
      ELSE IF ~m.present THEN Returned(FALSE, Zero, m.err)
      ELSE Value(Decimal(m.val, Narrow(e.val)))

-----------------------------------------------------------------------------
Promised(w) == IF decl.kind = "parts" THEN PromisedParts(w) ELSE PromisedNumber(w)

EmptyLog == [number |-> <<>>, exp |-> <<>>, mant |-> <<>>]

\* A history takes in the outcomes that are no errors.
Noted(history, out) == IF out.err = NoError THEN Append(history, out) ELSE history

Logged(w) ==
  IF decl.kind = "number" THEN [log EXCEPT !.number = Noted(@, PromisedNumber(w))]
  ELSE [log EXCEPT !.exp  = Noted(@, PromisedExponent(w)),
                   !.mant = IF PromisedExponent(w).present
                            THEN Noted(@, PromisedMantissa(w)) ELSE @]

Bits(f) ==
  IF f.kind = "parts"
  THEN (IF Integer!OwnsBit(f.exp) THEN 1 ELSE 0) + (IF Integer!OwnsBit(f.mant) THEN 1 ELSE 0)
  ELSE IF Integer!OwnsBit(f) THEN 1 ELSE 0

\* Both entities, one, or none because the message was cut short.
Inputs(f) ==
  [pm : [1 .. Bits(f) -> BOOLEAN], buf : UNION {[1 .. k -> OnWire[f.kind]] : k \in 0 .. 2}]

NoInput == [pm |-> <<>>, buf |-> <<>>]

Init ==
  /\ decl \in Declarations
  /\ input = NoInput
  /\ outcome = NoValue
  /\ log = EmptyLog

Decode(w) ==
  /\ \A h \in DOMAIN log : Len(log[h]) < MaxDeliveries[decl.kind]
  /\ input' = w
  /\ outcome' = Promised(w)
  /\ log' = Logged(w)
  /\ UNCHANGED decl

Reset ==
  /\ input' = NoInput
  /\ outcome' = NoValue
  /\ log' = EmptyLog
  /\ UNCHANGED decl

Next == Reset \/ \E w \in Inputs(decl) : Decode(w)

Spec == Init /\ [][Next]_vars
=============================================================================
