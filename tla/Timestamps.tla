----------------------------- MODULE Timestamps -----------------------------
(***************************************************************************)
(* FAST 1.2 timestamps: a count off the wire becomes an instant, or a      *)
(* duration, by multiplying it with its unit.                              *)
(*                                                                         *)
(* The units are scaled with the words.  An instant is what a time.Time    *)
(* keeps, a word of seconds since the year 1 and nanoseconds apart from    *)
(* them, as one number of nanoseconds since the year 1.                    *)
(***************************************************************************)
EXTENDS Wire

CONSTANTS Counts,         \* the counts that may arrive
          Nanos,          \* the nanoseconds of each unit up to the second
          SecondsPerDay,
          UnixToInternal  \* the seconds from the year 1 to the epoch, 1970

Units == {"Day", "Second", "Millisecond", "Microsecond", "Nanosecond"}

UnitAssumption ==
  /\ Counts \subseteq Int64
  /\ Nanos \in [Units \ {"Day"} -> Nat \ {0}]
  /\ SecondsPerDay \in Nat \ {0}
  \* A word of nanoseconds after the epoch is well within a word of seconds.
  /\ UnixToInternal \in Nat
  /\ ((Half64 - 1) \div Nanos.Second) + UnixToInternal < Half64

VARIABLES count, unit, instant, duration

vars == <<count, unit, instant, duration>>

\* time.Unix: whole seconds among the nanoseconds go to the seconds.
unix(sec, nsec) ==
  LET seconds == sec + (nsec \div Nanos.Second)
  IN  ToInt64(seconds + UnixToInternal) * Nanos.Second + (nsec % Nanos.Second)

\* Mutant: days are multiplied out to nanoseconds, like the small units.
TimestampUTC_Narrow(n, u) ==
  CASE u = "Day"    -> unix(0, ToInt64(n * SecondsPerDay * Nanos.Second))
    [] u = "Second" -> unix(n, 0)
    [] OTHER        -> unix(0, ToInt64(n * Nanos[u]))

\* Days and seconds are seconds in a word, the others nanoseconds in a word.
TimestampUTC(n, u) ==
  CASE u = "Day"    -> unix(ToInt64(n * SecondsPerDay), 0)
    [] u = "Second" -> unix(n, 0)
    [] OTHER        -> unix(0, ToInt64(n * Nanos[u]))

\* A duration is nanoseconds in a word, whatever the unit.
Duration(n, u) ==
  IF u = "Day" THEN ToInt64(n * SecondsPerDay * Nanos.Second) ELSE ToInt64(n * Nanos[u])

Init ==
  /\ count = 0 /\ unit = "Nanosecond"
  /\ instant = TimestampUTC(0, "Nanosecond") /\ duration = 0

Convert(n, u) ==
  /\ count' = n /\ unit' = u
  /\ instant' = TimestampUTC(n, u)
  /\ duration' = Duration(n, u)

Next == \E n \in Counts, u \in Units : Convert(n, u)

Spec == Init /\ [][Next]_vars

-----------------------------------------------------------------------------
\* What the count stands for, with no word in the way.
Exact == count * (IF unit = "Day" THEN SecondsPerDay * Nanos.Second ELSE Nanos[unit])

\* The instant that a timestamp stands for.
ExactInstant == Exact + UnixToInternal * Nanos.Second

\* A timestamp is exact as long as it is a word of nanoseconds since the epoch,
\* and in days or seconds, which go further, as long as its seconds since the
\* year 1 are a word; beyond that it is off by a whole number of turns of that
\* word, and never by anything else: of a count of seconds too, the last ones
\* are lost, to the distance from the year 1 to the epoch.
\* A duration is exact, or off, in nanoseconds for every unit.
TimesAreExactOrTurned ==
  LET turn == 2 * Half64 * (IF unit \in {"Day", "Second"} THEN Nanos.Second ELSE 1)
  IN  /\ (instant - ExactInstant) % turn = 0
      /\ Exact \in Int64 => instant = ExactInstant /\ duration = Exact
      /\ unit \in {"Day", "Second"} /\ ExactInstant \div Nanos.Second \in Int64
           => instant = ExactInstant
      /\ (duration - Exact) % (2 * Half64) = 0
=============================================================================
