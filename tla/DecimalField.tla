---------------------------- MODULE DecimalField ----------------------------
(***************************************************************************)
(* One decimal field and its dictionary entries through any sequence of    *)
(* decodes and resets.  log is a history variable: no decode reads it.     *)
(***************************************************************************)
EXTENDS DecimalOperators

CONSTANTS Declarations, OnWire, MaxDeliveries

ASSUME DecimalAssumption ==
  /\ Declarations \subseteq Numbers(Decimals) \cup Parts(Int64)
  /\ OnWire \in [{"number", "parts"} -> SUBSET Int]
  /\ MaxDeliveries \in [{"number", "parts"} -> Nat]

VARIABLES decl, slot, input, outcome, log

vars == <<decl, slot, input, outcome, log>>

Promise == INSTANCE PreviousDecimal

Outcome(res) == Promise!Returned(res.present, res.val, res.err)

Init ==
  /\ decl \in Declarations
  /\ slot = UndefinedSlots(decl)
  /\ input = Promise!NoInput
  /\ outcome = Promise!NoValue
  /\ log = Promise!EmptyLog

\* The histories after a decode of w that returned res.
LoggedBy(w, res) ==
  IF decl.kind = "number"
  THEN [log EXCEPT !.number = Promise!Noted(@, Outcome(res))]
  ELSE LET e == intDecodeCall(w, decl.exp, slot.exp)
           m == intDecodeCall(e.wire, decl.mant, slot.mant)
       IN  [log EXCEPT !.exp  = Promise!Noted(@, Outcome(e)),
                       !.mant = IF e.present THEN Promise!Noted(@, Outcome(m)) ELSE @]

Decode(w) ==
  LET res == DecodeAny(w, decl, slot)
  IN  /\ \A h \in DOMAIN log : Len(log[h]) < MaxDeliveries[decl.kind]
      /\ slot' = res.slot
      /\ input' = w
      /\ outcome' = Outcome(res)
      /\ log' = LoggedBy(w, res)
      /\ UNCHANGED decl

Reset ==
  /\ slot' = UndefinedSlots(decl)
  /\ input' = Promise!NoInput
  /\ outcome' = Promise!NoValue
  /\ log' = Promise!EmptyLog
  /\ UNCHANGED decl

Next == Reset \/ \E w \in Promise!Inputs(decl) : Decode(w)

Spec == Init /\ [][Next]_vars

-----------------------------------------------------------------------------
SlotType ==
  IF decl.kind = "parts"
  THEN [exp : Slots(decl.exp), mant : Slots(decl.mant)]
  ELSE [State : States, Val : Decimals]

TypeOK ==
  /\ decl \in Declarations
  /\ slot \in SlotType
  /\ outcome \in [present : BOOLEAN, val : Decimals, err : Errors \cup {NoError}]
  /\ input \in Promise!Inputs(decl) \cup {Promise!NoInput}

\* A decimal with one operator fails as a whole: its previous value stays.  One
\* in parts can fail between them, and then, and only then, its exponent has
\* moved; its mantissa never has.
FailuresBetweenParts ==
  [][outcome'.err # NoError =>
       IF decl.kind = "number" THEN slot' = slot
       ELSE /\ slot'.mant = slot.mant
            /\ slot'.exp # slot.exp => intDecodeCall(input', decl.exp, slot.exp).present]_vars

\* A delta can be declared for the number or for both parts.  The two keep
\* their exponents differently, in 32 and in 64 bits, and yet decode every
\* wire alike, whatever the wider exponent has come to.
AsParts ==
  LET part(width, optional, initial) ==
        [type |-> "int", op |-> "Delta", width |-> width, optional |-> optional,
         hasInitial |-> decl.hasInitial, initial |-> initial]
  IN  [exp  |-> part(32, decl.optional, decl.initial.exp),
       mant |-> part(64, FALSE, decl.initial.mant)]

PartsOfSlot(wideExp) ==
  [exp  |-> [State |-> slot.State, Val |-> wideExp],
   mant |-> [State |-> slot.State, Val |-> slot.Val.mant]]

DeltaIsComponentwise ==
  decl.kind = "number" /\ decl.op = "Delta" =>
    \A w \in Promise!Inputs(decl), wide \in Int64 :
      ToInt32(wide) = slot.Val.exp =>
        Outcome(Blank(DecodeParts(w, AsParts, PartsOfSlot(wide))))
          = Outcome(Blank(DecodeNumber(w, decl, slot)))

\* The slots implement the promise made in terms of the histories.
PromiseKept == Promise!Spec
=============================================================================
