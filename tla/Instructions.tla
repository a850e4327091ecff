---------------------------- MODULE Instructions ----------------------------
(***************************************************************************)
(* What the parser and the generator both say of instructions.             *)
(*                                                                         *)
(* An absent Go pointer is Nothing.  An instruction of kind "error" stands *)
(* for a returned error, one of kind "nil" for a nil *ast.Field: it is     *)
(* appended to a body like any other, since an interface that holds a nil  *)
(* pointer is not nil.                                                     *)
(***************************************************************************)
EXTENDS Integers, SequencesExt

Nothing  == [kind |-> "nothing"]
Error    == [kind |-> "error"]
NilField == [kind |-> "nil"]

Fails(instrs) == \E i \in DOMAIN instrs : instrs[i].kind = "error"

HasBody(in) == in.kind \in {"group", "sequence"}
HasParts(f) == f.exponent # Nothing \/ f.mantissa # Nothing

\* A number in an attribute is <<n>> if it is an integer, and <<m, e>> if it is
\* a decimal m * 10^e that is none.
IsInteger(text) == Len(text) = 1
=============================================================================
