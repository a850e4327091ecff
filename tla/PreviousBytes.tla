--------------------------- MODULE PreviousBytes ---------------------------
(***************************************************************************)
(* What a string or byte-vector field promises, with no slot in sight: the *)
(* outcome of a decode depends on what was transmitted and on the outcomes *)
(* since the last reset.                                                   *)
(*                                                                         *)
(*   copy    delivers the last outcome again                               *)
(*   delta   edits the last string that was present, skipping absences     *)
(*   tail    overwrites the back of the last outcome, or of the initial    *)
(*           string where that was absent; untransmitted it is a copy      *)
(*                                                                         *)
(* An ASCII entity is understood by how strings are encoded: it carries    *)
(* the string, if there is one, of which it is the encoding.               *)
(***************************************************************************)
EXTENDS BytesOperators, Histories

CONSTANTS Declarations,    \* the declarations of the field
          Entities,        \* the ASCII entities that may be on the wire
          Vectors,         \* the strings that Unicode and vector fields carry
          Subtractions,    \* the subtraction lengths of deltas
          MaxDeliveries    \* bound on the outcomes between two resets

VARIABLES decl, input, outcome, log

vars == <<decl, input, outcome, log>>

Returned(present, val, err) == [present |-> present, val |-> val, err |-> err]
Value(s)   == Returned(TRUE, s, NoError)
NoValue    == Returned(FALSE, <<>>, NoError)
Failure(e) == Returned(FALSE, <<>>, e)

-----------------------------------------------------------------------------
(* How strings are encoded: the empty string and those that begin with a   *)
(* NUL need a zero byte in front, and a nullable one needs another, which  *)
(* leaves a single zero byte for NULL.                                     *)

NeedsPreamble(s) == s = <<>> \/ Head(s) = 0

Encoded(s, nullable) ==
  IF ~NeedsPreamble(s) THEN s
  ELSE IF nullable THEN <<0, 0>> \o s ELSE <<0>> \o s

Null == <<0>>

\* The strings an entity could be the encoding of are the ends of it.
Ends(entity) == {SubSeq(entity, k, Len(entity)) : k \in 1 .. Len(entity) + 1}

Understood(entity, nullable) ==
  LET meant == {s \in Ends(entity) : Encoded(s, nullable) = entity}
  IN  IF nullable /\ entity = Null THEN NoValue
      ELSE IF meant = {} THEN Failure(ErrOverlong)
      ELSE Value(CHOOSE s \in meant : TRUE)

Transmitted(buf, optional) ==
  IF buf = <<>> THEN Failure(EndOfStream)
  ELSE IF decl.type = "ascii" THEN Understood(Head(buf), optional)
  ELSE IF Head(buf) = NULL THEN NoValue ELSE Value(Head(buf))

-----------------------------------------------------------------------------
Selected(w) ==
  \/ decl.op \in {"None", "Delta"}
  \/ decl.op = "Constant" /\ ~decl.optional
  \/ decl.op \notin {"None", "Delta"} /\ w.pm # <<>> /\ Head(w.pm)

InitialString == IF decl.hasInitial THEN decl.initial ELSE <<>>

LastString ==
  IF PresentAt(log) = {} THEN InitialString ELSE Latest(log)

\* The string a tail overwrites.
TailBase ==
  IF log # <<>> /\ LastOutcome(log).present THEN LastOutcome(log).val ELSE InitialString

Overwritten(base, tail) ==
  LET kept == IF Len(base) > Len(tail) THEN Len(base) - Len(tail) ELSE 0
  IN  SubSeq(base, 1, kept) \o tail

\* A subtraction length counts from the back if it is not negative; -1 is no
\* bytes from the front, -2 one byte, and so on.
Edited(base, sub, part) ==
  LET gone == IF sub >= 0 THEN sub ELSE -1 - sub
  IN  IF gone > Len(base) THEN Failure(ErrD7)
      ELSE IF sub >= 0 THEN Value(SubSeq(base, 1, Len(base) - gone) \o part)
      ELSE Value(part \o SubSeq(base, gone + 1, Len(base)))

\* The length of a delta, when it is optional, leaves zero for NULL.
Subtraction(n) == IF decl.optional /\ n > 0 THEN n - 1 ELSE n

DeltaOf(w) ==
  LET part == Transmitted(Tail(w.buf), FALSE)
  IN  IF w.buf = <<>> THEN Failure(EndOfStream)
      ELSE IF Head(w.buf) \notin Int64 THEN Failure(Overflow)
      ELSE IF decl.optional /\ Head(w.buf) = 0 THEN NoValue
      ELSE IF part.err # NoError THEN part
      ELSE Edited(LastString, Subtraction(Head(w.buf)), part.val)

Explicit(w) ==
  LET sent == Transmitted(w.buf, decl.optional)
  IN  CASE decl.op = "Constant" -> Value(decl.initial)
        [] decl.op = "Delta" -> DeltaOf(w)
        [] decl.op = "Tail" /\ sent.present -> Value(Overwritten(TailBase, sent.val))
        [] decl.op = "Tail" /\ ~sent.present -> sent
        [] decl.op \in {"None", "Default", "Copy"} -> sent

\* A mandatory tail without an initial string reports the error of an empty
\* value, where copy and default report a missing initial one.
Start ==
  IF decl.hasInitial THEN Value(decl.initial)
  ELSE IF decl.optional THEN NoValue
  ELSE Failure(IF decl.op = "Tail" THEN ErrD6 ELSE ErrD5)

Implied ==
  IF decl.op = "Constant" THEN NoValue
  ELSE IF decl.op = "Default" \/ log = <<>> THEN Start
  ELSE LastOutcome(log)

Promised(w) ==
  IF decl.op = "Increment" THEN Failure(ErrUnsupported)
  ELSE IF Selected(w) THEN Explicit(w) ELSE Implied

-----------------------------------------------------------------------------
OwnsBit(f) == f.op \notin {"None", "Delta"} /\ (f.op = "Constant" => f.optional)

\* The entities a decode can meet: a NULL only where one is allowed.
Strings(f, nullable) ==
  IF f.type = "ascii" THEN Entities
  ELSE IF nullable THEN Vectors \cup {NULL} ELSE Vectors

Buffers(f) ==
  {<<>>} \cup
  IF f.op = "Delta"
  THEN {<<n>> : n \in Subtractions} \cup (Subtractions \X Strings(f, FALSE))
  ELSE {<<s>> : s \in Strings(f, f.optional)}

Inputs(f) ==
  [pm : IF OwnsBit(f) THEN {<<TRUE>>, <<FALSE>>} ELSE {<<>>}, buf : Buffers(f)]

NoInput == [pm |-> <<>>, buf |-> <<>>]

Init ==
  /\ decl \in Declarations
  /\ input = NoInput
  /\ outcome = NoValue
  /\ log = <<>>

Decode(w) ==
  /\ Len(log) < MaxDeliveries
  /\ input' = w
  /\ outcome' = Promised(w)
  /\ log' = IF outcome'.err = NoError THEN Append(log, outcome') ELSE log
  /\ UNCHANGED decl

Reset ==
  /\ input' = NoInput
  /\ outcome' = NoValue
  /\ log' = <<>>
  /\ UNCHANGED decl

Next == Reset \/ \E w \in Inputs(decl) : Decode(w)

Spec == Init /\ [][Next]_vars
=============================================================================
