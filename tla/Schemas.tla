------------------------------ MODULE Schemas ------------------------------
(***************************************************************************)
(* What the parser hands to the generator.                                 *)
(***************************************************************************)
EXTENDS Instructions

VARIABLES
  merged,    \* the templates of the files read so far, then of all of them
  phase      \* parsing, parsed, generated, or the reason why the run failed

ParserPhases ==
  {"parsing", "parsed", "bad template", "no templates", "cyclic reference"}
=============================================================================
