----------------------------- MODULE MCEntities -----------------------------
(***************************************************************************)
(* EntityReader, BitGroup and Timestamps have groups of 3 bits and words   *)
(* of 10: three groups are unchecked and an entity has at most four.       *)
(* PresenceMap has groups of two bits and a word that packs two of them:   *)
(* maps of up to four groups spill up to two.                              *)
(***************************************************************************)
EXTENDS Entities

\* Maps that stay in the word, fill it, and spill one group or two; those
\* that spill differ in what they spill, in both places.
MCMaps == {<<0>>, <<1>>, <<2>>, <<1, 2>>, <<3, 0>>, <<2, 0, 1>>, <<0, 1, 2>>,
           <<2, 1, 0, 3>>, <<1, 2, 3, 1>>, <<0, 0, 0, 1>>}

\* Bit groups shorter than a word, longer, and with every pattern in a byte.
MCBitGroups == {<<g>> : g \in 0 .. 7}
                 \cup {<<5, 2>>, <<3, 6, 1>>, <<4, 7, 0, 5>>, <<7, 7, 7, 7>>, <<1, 2, 4, 3, 6>>}

\* Counts around every point at which some unit turns the word.
MCCounts == {b + d : b \in {-512, -256, -128, -64, -32, -16, 0, 16, 32, 64, 128, 256, 509},
                     d \in 0 .. 2}

\* A day of 4 seconds of 8 nanoseconds; the epoch is 100 seconds after the
\* year 1, so that the last hundred counts of seconds turn the word.
MCNanos == [Nanosecond |-> 1, Microsecond |-> 2, Millisecond |-> 4, Second |-> 8]
=============================================================================
