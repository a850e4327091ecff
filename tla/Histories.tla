----------------------------- MODULE Histories -----------------------------
(***************************************************************************)
(* A history is the sequence of the outcomes of a field since the last     *)
(* dictionary reset, absent ones included, oldest first.                   *)
(***************************************************************************)
EXTENDS Integers, Sequences

LastOutcome(l) == l[Len(l)]

PresentAt(l) == {i \in 1 .. Len(l) : l[i].present}

\* The last value delivered, however many absences came after it.
Latest(l) == l[CHOOSE i \in PresentAt(l) : \A j \in PresentAt(l) : j <= i].val
=============================================================================
