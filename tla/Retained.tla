------------------------------ MODULE Retained ------------------------------
(***************************************************************************)
(* A caller of the Router that retains a message the way the generated     *)
(* code tells it to: it copies the struct the Router returned.  A struct   *)
(* copy takes the slice headers with it and shares their arrays, until the *)
(* Router's own slice gets a new array because it has to grow.             *)
(***************************************************************************)
EXTENDS Router

VARIABLE kept    \* the lengths of the copy's slices that still share an array

keptVars == <<vars, kept>>

KeptInit == Init /\ kept = <<>>

\* v := *msg, for the message the last call returned.
CopyMessage ==
  /\ Idle /\ ret = "message"
  /\ kept' = [c \in {p \in DOMAIN len \cap fresh : SliceCap(p) > 0} |-> len[c]]
  /\ UNCHANGED vars

SameArray(c) == c \in DOMAIN cap' /\ cap'[c] = cap[c]

Decoder == Next /\ kept' = [c \in {p \in DOMAIN kept : SameArray(p)} |-> kept[c]]

KeptSpec == KeptInit /\ [][CopyMessage \/ Decoder]_keptVars /\ WF_vars(Step)

-----------------------------------------------------------------------------
\* The element of a slice, as the place of a struct.
Element(c, k) == Append(Front(c), <<Last(c)[1], Last(c)[2], k>>)

Enters(p) == Len(stack') > Len(stack) /\ Head(stack').at = p

\* What the comment on Router promises to a caller that makes a copy: later
\* calls leave what it holds alone.
CopyIsLeftAlone ==
  [][\A c \in DOMAIN kept : \A k \in 1 .. kept[c] : ~Enters(Element(c, k))]_keptVars
=============================================================================
