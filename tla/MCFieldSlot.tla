---------------------------- MODULE MCFieldSlot ----------------------------
(***************************************************************************)
(* FieldSlot on a scaled machine: 2 * Half64 = 8 stands for 2^64 and       *)
(* 2 * Half32 = 4 for 2^32.                                                *)
(***************************************************************************)
EXTENDS FieldSlot

\* Zero, the top of the wide unsigned range, which no narrow field holds, and
\* the bottom of the signed range.
MCInitials == {0, 7, -4}
=============================================================================
