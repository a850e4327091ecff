----------------------------- MODULE Templates -----------------------------
(***************************************************************************)
(* What fastgen decides about a template before any message is decoded.    *)
(*                                                                         *)
(* A template is a tree of segments: its own body, the bodies of its       *)
(* groups, and the elements of its sequences.  Segment maps the name of a  *)
(* segment to its instructions; Template maps a template id to the name of *)
(* its body.  An instruction is                                            *)
(*   [kind |-> "field",    decl |-> an integer field]                      *)
(*   [kind |-> "group",    optional |-> BOOLEAN, seg |-> a segment]        *)
(*   [kind |-> "sequence", decl |-> its length field, seg |-> a segment]   *)
(* and the length field is optional exactly when the sequence is.          *)
(***************************************************************************)
EXTENDS IntegerOperators

CONSTANTS Segment, Template

Instructions ==
  LET decls == Fields(Int)
      segs  == DOMAIN Segment
  IN  [kind : {"field"}, decl : decls]
        \cup [kind : {"group"}, optional : BOOLEAN, seg : segs]
        \cup [kind : {"sequence"}, decl : {d \in decls : d.type = "uint"}, seg : segs]

ASSUME TemplatesAssumption ==
  /\ \A s \in DOMAIN Segment : Segment[s] \in Seq(Instructions)
  /\ \A id \in DOMAIN Template : id \in Nat /\ Template[id] \in DOMAIN Segment

\* One generated step, named by its segment and its place there.
Steps == UNION {{s} \X DOMAIN Segment[s] : s \in DOMAIN Segment}

At(id) == Segment[id[1]][id[2]]

IsWireLength(in)     == in.kind = "sequence" /\ in.decl.op # "Constant"
IsConstantLength(in) == in.kind = "sequence" /\ in.decl.op = "Constant"

\* The dictionary entries of a generated decoder: one per step that decodes an
\* integer.  All the elements of a sequence share those of their segment.
Slotted == {id \in Steps : At(id).kind # "group" /\ At(id).decl.op # "Constant"}

-----------------------------------------------------------------------------
(* Presence maps.                                                          *)

\* Mutants: an operator left out of the list.
opUsesPMAPBit_NoCopy(op, optional) ==
  op \in {"Default", "Increment", "Tail"} \/ (op = "Constant" /\ optional)

opUsesPMAPBit_NoDefault(op, optional) ==
  op \in {"Copy", "Increment", "Tail"} \/ (op = "Constant" /\ optional)

opUsesPMAPBit(op, optional) ==
  \/ op \in {"Default", "Copy", "Increment", "Tail"}
  \/ op = "Constant" /\ optional

\* Whether one step claims a bit of its segment's presence map.  A group's body
\* and a sequence's elements are segments of their own.
StepUsesPMAPBit(in) ==
  IF in.kind = "group" THEN in.optional
  ELSE opUsesPMAPBit(in.decl.op, in.decl.optional)

segmentNeedsPMAP(s) ==
  \E i \in DOMAIN Segment[s] : StepUsesPMAPBit(Segment[s][i])

-----------------------------------------------------------------------------
(* Has flags: cleared when a segment's method starts, for its own optional *)
(* fields and groups.  Sequences have no flag: absent is of length zero.   *)

HasFlag(in) ==
  \/ in.kind = "field" /\ in.decl.optional
  \/ in.kind = "group" /\ in.optional

\* Mutant: no flag is ever cleared.
optionalHasFields_None(s) == {}

optionalHasFields(s) == {i \in DOMAIN Segment[s] : HasFlag(Segment[s][i])}
=============================================================================
