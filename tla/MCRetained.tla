----------------------------- MODULE MCRetained -----------------------------
(* Retained on the smallest message with a sequence: two frames suffice.    *)
EXTENDS Retained

MCNumbers == 0 .. 3

ListSegment ==
  [ List |-> << [kind |-> "sequence", seg |-> "Item",
                 decl |-> [type |-> "uint", op |-> "None", width |-> 32,
                           optional |-> FALSE, hasInitial |-> FALSE, initial |-> 0]] >>,
    Item |-> << [kind |-> "field",
                 decl |-> [type |-> "uint", op |-> "None", width |-> 64,
                           optional |-> FALSE, hasInitial |-> FALSE, initial |-> 0]] >> ]
ListTemplate == 1 :> "List"
=============================================================================
