------------------------------ MODULE MCRouter ------------------------------
(***************************************************************************)
(* Template sets for the Router.  2 * Half64 = 4, so a template id is one  *)
(* of 0 .. 3: 3 is the reset message and 0 is known to no one.             *)
(***************************************************************************)
EXTENDS Router

Integer(type, op, optional, initials) ==
  [type |-> type, op |-> op, width |-> 64, optional |-> optional,
   hasInitial |-> initials # {},
   initial |-> IF initials = {} THEN 0 ELSE CHOOSE v \in initials : TRUE]

field(decl)         == [kind |-> "field", decl |-> decl]
group(optional, s)  == [kind |-> "group", optional |-> optional, seg |-> s]
sequence(length, s) == [kind |-> "sequence", decl |-> length, seg |-> s]

Mandatory == FALSE
Optional  == TRUE

MCNumbers == 0 .. 3

\* Sequences inside a sequence, the inner length in the dictionary: its element
\* is free, so one byte of map buys as many elements as there are bytes left.
NestSegment ==
  [ Book |-> << sequence(Integer("uint", "None", Mandatory, {}), "Level") >>,
    Level |-> << sequence(Integer("uint", "Copy", Optional, {}), "Tag") >>,
    Tag |-> << field(Integer("uint", "Constant", Mandatory, {1})) >> ]
NestTemplate == 1 :> "Book"

\* Two templates of one feed: every way to depend on an earlier message, and a
\* segment of each kind, with a presence map of its own, without one, and with
\* one that only a tail claims.
FeedSegment ==
  [ Quote |-> << field(Integer("uint", "Increment", Mandatory, {})),
                 group(Optional, "Price"), group(Mandatory, "Note") >>,
    Price |-> << field(Integer("int", "Delta", Optional, {})) >>,
    Note |-> << field(Integer("uint", "Tail", Mandatory, {})) >>,
    Trade |-> << group(Mandatory, "Party"),
                 sequence(Integer("uint", "Constant", Optional, {2}), "Fill") >>,
    Party |-> << field(Integer("uint", "Default", Optional, {1})) >>,
    Fill |-> << field(Integer("uint", "Constant", Mandatory, {1})) >> ]
FeedTemplate == (1 :> "Quote") @@ (2 :> "Trade")
=============================================================================
