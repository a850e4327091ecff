---------------------------- MODULE MCFeedSession ----------------------------
(***************************************************************************)
(* Feeds of two templates, every operator beside every other kind.         *)
(* 2 * Half64 = 4: the ids 1 and 2 are templates, 3 is the reset message   *)
(* and 0 a template that the Router does not know.                         *)
(***************************************************************************)
EXTENDS FeedSession

Integer(type, op, optional, initials) ==
  [type |-> type, op |-> op, width |-> 64, optional |-> optional,
   hasInitial |-> initials # {},
   initial |-> IF initials = {} THEN 0 ELSE CHOOSE v \in initials : TRUE]

Mandatory == FALSE
Optional  == TRUE

MCInitials == {0, 1}

Sequenced == Integer("uint", "Increment", Mandatory, {})
Moving    == Integer("int", "Delta", Optional, {})
Standing  == Integer("uint", "Copy", Optional, {1})
Usual     == Integer("uint", "Default", Optional, {1})

MCFeeds ==
  {<<Sequenced, Moving>>, <<Standing, Usual>>}
=============================================================================
