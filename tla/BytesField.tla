----------------------------- MODULE BytesField -----------------------------
(***************************************************************************)
(* One string or byte-vector field of the elements of a sequence, with the *)
(* memory its values lie in.  The message goes on until the next reset.    *)
(*                                                                         *)
(* The slot owns an array, which it overwrites for every new value that    *)
(* fits and replaces by a longer one for a value that does not.  What the  *)
(* operators return is either a slice of that array or a slice of memory   *)
(* that nobody writes again while the message is in use.  A field of a     *)
(* string type takes a copy of it; a byte vector takes the slice.          *)
(*                                                                         *)
(* log, and the values beside the elements, are history variables.         *)
(***************************************************************************)
EXTENDS BytesOperators

CONSTANTS Declarations, Entities, Vectors, Subtractions, MaxDeliveries

ASSUME BytesAssumption ==
  /\ Subtractions \subseteq Int /\ MaxDeliveries \in Nat
  /\ Entities \cup Vectors \subseteq Seq(Nat) /\ <<>> \notin Entities
  /\ NULL \notin Vectors
  /\ Declarations \subseteq BytesFields(Types, Seq(Nat))

VARIABLES
  decl,      \* the declaration, fixed
  slot,      \* the dictionary entry
  arrays,    \* the arrays the slot has owned, the last one its own now
  elements,  \* the field in each element of the message: where its bytes lie,
             \* and what they were when it was decoded
  input, outcome, log

vars == <<decl, slot, arrays, elements, input, outcome, log>>

Promise == INSTANCE PreviousBytes

-----------------------------------------------------------------------------
(* Memory.  A slice is of one of the arrays, or (array 0) of its own.      *)

Slice(array, val) == [array |-> array, len |-> Len(val), own |-> val]

BytesAt(slice) ==
  IF slice.array = 0 THEN slice.own ELSE SubSeq(arrays[slice.array], 1, slice.len)

\* append(s.Val[:0], b...): into the array if it is long enough, else into a
\* new one, of at least the length that is needed.
Stored(val) ==
  LET own == Len(arrays)
      fits == own > 0 /\ Len(val) <= Len(arrays[own])
  IN  IF fits THEN [arrays EXCEPT ![own] = val \o DropFirst(@, Len(val))]
      ELSE Append(arrays, val)

\* A value that was not transmitted is the slot's own.
IsSlotsOwn(w) == decl.op \in {"Copy", "Tail"} /\ ~PresenceBit(w)

\* Mutant: no string is copied on its way into the message.
Taken_AsIs(w, val) == Slice(IF IsSlotsOwn(w) THEN Len(arrays') ELSE 0, val)

\* What the generated assignment puts in the message.
Taken(w, val) ==
  Slice(IF decl.type = "bytes" /\ IsSlotsOwn(w) THEN Len(arrays') ELSE 0, val)

-----------------------------------------------------------------------------
Init ==
  /\ decl \in Declarations
  /\ slot = UndefinedBytes
  /\ arrays = <<>> /\ elements = <<>>
  /\ input = Promise!NoInput
  /\ outcome = Promise!NoValue
  /\ log = <<>>

\* The next element of the message is decoded.
Decode(w) ==
  LET res == DecodeBytes(w, decl, slot)
  IN  /\ Len(log) < MaxDeliveries
      /\ slot' = res.slot
      /\ arrays' = IF res.slot.Val = slot.Val THEN arrays ELSE Stored(res.slot.Val)
      /\ elements' = IF res.present
                     THEN Append(elements, [at |-> Taken(w, res.val), val |-> res.val])
                     ELSE elements
      /\ input' = w
      /\ outcome' = Promise!Returned(res.present, res.val, res.err)
      /\ log' = IF res.err = NoError THEN Append(log, outcome') ELSE log
      /\ UNCHANGED decl

\* The array is kept for reuse; nothing refers to what it holds.
Emptied ==
  IF arrays = <<>> THEN <<>> ELSE <<[i \in 1 .. Len(arrays[Len(arrays)]) |-> 0]>>

\* A dictionary reset, and the start of the next message.
Reset ==
  /\ slot' = UndefinedBytes
  /\ arrays' = Emptied /\ elements' = <<>>
  /\ input' = Promise!NoInput
  /\ outcome' = Promise!NoValue
  /\ log' = <<>>
  /\ UNCHANGED decl

Next == Reset \/ \E w \in Promise!Inputs(decl) : Decode(w)

Spec == Init /\ [][Next]_vars

-----------------------------------------------------------------------------
\* The previous value is Empty in optional fields only, as dict.go says.
TypeOK ==
  /\ decl \in Declarations
  /\ slot.State \in States /\ slot.Val \in Seq(Nat)
  /\ slot.State = "Empty" => decl.optional
  /\ arrays \in Seq(Seq(Nat))
  /\ \A e \in DOMAIN elements : elements[e].at.array \in 0 .. Len(arrays)
  /\ input \in Promise!Inputs(decl) \cup {Promise!NoInput}
  /\ outcome \in [present : BOOLEAN, val : Seq(Nat), err : BytesErrors \cup {NoError}]

\* What an element of the message was decoded to is what it still says when
\* the caller gets the message: no later element, of the same field and so of
\* the same slot, has written over it.
ElementsKeepTheirBytes ==
  \A e \in DOMAIN elements : BytesAt(elements[e].at) = elements[e].val

\* A failing decode leaves the previous value: a subtraction that exceeds its
\* base, an overlong string or a missing part move nothing.
FailureKeepsSlot == [][outcome'.err # NoError => slot' = slot]_vars

\* Slot and operators implement the promise made in terms of the history.
PromiseKept == Promise!Spec
=============================================================================
