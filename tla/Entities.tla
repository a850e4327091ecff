------------------------------ MODULE Entities ------------------------------
(***************************************************************************)
(* The runtime below the operators: stop-bit entities, presence maps, bit  *)
(* groups and timestamps.  They share no state, so each behaviour runs one *)
(* of them and leaves the others in their initial states.                  *)
(*                                                                         *)
(* A presence map is a component with groups of its own: they have the     *)
(* size of the others in the code, but a model may scale them otherwise.   *)
(***************************************************************************)
EXTENDS Integers, Sequences

CONSTANTS Half64, Half32,
          GroupBits, WordBits,                             \* EntityReader, BitGroup
          MapGroupBits, Packed, Segments, Maps, MaxDepth, \* PresenceMap
          BitGroups,                                      \* BitGroup
          Counts, Nanos, SecondsPerDay, UnixToInternal    \* Timestamps

VARIABLES part,
          signed, groups, val, status, data,    \* EntityReader
          pmap, open, bit,                     \* PresenceMap
          bits, cursor, result, call,          \* BitGroup
          count, unit, instant, duration       \* Timestamps

entityVars == <<signed, groups, val, status, data>>
mapVars    == <<pmap, open, bit>>
groupVars  == <<bits, cursor, result, call>>
timeVars   == <<count, unit, instant, duration>>

Entity == INSTANCE EntityReader
Map    == INSTANCE PresenceMap WITH GroupBits <- MapGroupBits
Bits   == INSTANCE BitGroup WITH data <- bits
Time   == INSTANCE Timestamps

\* What the parts assume of their constants.
ASSUME PartsAssumption ==
  /\ Entity!GroupAssumption /\ Map!MapAssumption
  /\ Bits!BitGroupAssumption /\ Time!UnitAssumption

Init ==
  /\ part \in {"entity", "map", "bit group", "time"}
  /\ Entity!Init /\ Map!Init /\ Bits!Init /\ Time!Init

Next ==
  \/ part = "entity" /\ Entity!Next /\ UNCHANGED <<part, mapVars, groupVars, timeVars>>
  \/ part = "map" /\ Map!Next /\ UNCHANGED <<part, entityVars, groupVars, timeVars>>
  \/ part = "bit group" /\ Bits!Next /\ UNCHANGED <<part, entityVars, mapVars, timeVars>>
  \/ part = "time" /\ Time!Next /\ UNCHANGED <<part, entityVars, mapVars, groupVars>>

vars == <<part, entityVars, mapVars, groupVars, timeVars>>

Spec == Init /\ [][Next]_vars

-----------------------------------------------------------------------------
(* The properties of the parts, by the names they have there.              *)

\* Words, buffers, cursors and results have the types of the Go variables.
TypeOK == Entity!TypeOK /\ Map!TypeOK /\ Bits!TypeOK

\* An entity that readEntityUnsigned or readEntitySigned delivers is the number
\* that was encoded, and one that it refuses fits no word or is too long.
ExactOrRefused == Entity!ExactOrRefused

\* The word that PMAP.Next shifts holds unread bits only, and zeros below them.
WordIsClean == Map!WordIsClean

\* The words and buffers of nested maps, used again for ever, implement the
\* sequences of bits that were sent.
BitsAreKept == Map!BitsAreKept

\* BitReader hands out the bits of an entity in order, as the numbers they are.
BitsComeInOrder == Bits!BitsComeInOrder

\* BitReader refuses what is too wide, and stays where it is.
RefusalKeepsPlace == Bits!RefusalKeepsPlace

\* TimestampUTC and Duration are exact, or off by whole turns of their word.
TimesAreExactOrTurned == Time!TimesAreExactOrTurned
=============================================================================
