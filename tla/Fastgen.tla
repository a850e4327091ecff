------------------------------- MODULE Fastgen -------------------------------
(***************************************************************************)
(* The command fastgen: the parser reads the template files, the generator *)
(* goes over the merged templates one by one, and the code is written if   *)
(* neither of them failed.                                                 *)
(***************************************************************************)
EXTENDS TemplateParser, Generator

vars == <<readerVars, merged, phase, generatorVars>>

Init == ParserInit /\ GeneratorInit

Parsing    == Parse /\ UNCHANGED generatorVars
Generating == Generate /\ UNCHANGED readerVars

Next == Parsing \/ Generating

Spec == Init /\ [][Next]_vars

-----------------------------------------------------------------------------
(* What the generator gets.                                                *)

\* The instructions of a body, and those nested in them, are ones that the
\* parser can make.  This is what GeneratorProofs takes from the parser.
RECURSIVE WellFormed(_)
WellFormed(instrs) ==
  \A i \in DOMAIN instrs :
    /\ IsInstruction(instrs[i])
    /\ HasBody(instrs[i]) => WellFormed(instrs[i].instructions)

TypeOK ==
  /\ file \in 1 .. Len(files) + 1 /\ root \in Nat \ {0} /\ item \in Nat
  /\ phase \in ParserPhases \cup {"refused", "panicked", "generated"}
  /\ pass \in {"idle", "structs", "methods"}
  /\ \A i \in DOMAIN merged : /\ merged[i].name \in STRING /\ merged[i].id \in Seq(Nat)
                              /\ WellFormed(merged[i].body)

-----------------------------------------------------------------------------
(* Template references.                                                    *)

Names == {written[i].name : i \in DOMAIN written}

UniqueNames == \A i, j \in DOMAIN written : written[i].name = written[j].name => i = j

\* The body of the one template of this name, as it was written.
BodyOf(name) ==
  written[CHOOSE i \in DOMAIN written : written[i].name = name].body

IsStatic(in) == in.kind = "templateRef" /\ in.name \in Names

RECURSIVE References(_)
References(instrs) ==
  UNION {LET in == instrs[i]
         IN  IF IsStatic(in) THEN {in.name}
             ELSE IF HasBody(in) THEN References(in.instructions) ELSE {}
           : i \in DOMAIN instrs}

\* The templates that can be reached from these, in any number of steps.
RECURSIVE Reached(_)
Reached(names) ==
  LET more == names \cup UNION {References(BodyOf(n)) : n \in names}
  IN  IF more = names THEN names ELSE Reached(more)

Cyclic == \E n \in Names : n \in Reached(References(BodyOf(n)))

\* What a body stands for: each reference is the body of its template, whatever
\* file that is in and whichever was read first.
RECURSIVE Unfolded(_)
Unfolded(instrs) ==
  LET unfold(in) ==
        IF IsStatic(in) THEN Unfolded(BodyOf(in.name))
        ELSE IF HasBody(in)
        THEN <<[in EXCEPT !.instructions = Unfolded(@)]>>
        ELSE <<in>>
  IN  FlattenSeq(Mapped(unfold, instrs))

\* Inlining in place, per file and once more over all of them, gives every
\* template what it stands for: nothing is left out, inlined twice or taken
\* from a body that is expanded only half.
BodiesAreUnfolded ==
  phase \in {"parsed", "generated"} /\ UniqueNames /\ ~Cyclic =>
    \A i \in DOMAIN merged : merged[i].body = Unfolded(BodyOf(merged[i].name))

\* References are refused as cyclic exactly if a template contains itself, in
\* one file or through several; that a template is contained in two others, or
\* twice in one, is no cycle.
CyclesAreRefused ==
  UniqueNames =>
    /\ phase = "cyclic reference" => Cyclic
    /\ phase \in {"parsed", "generated"} => ~Cyclic

-----------------------------------------------------------------------------
(* Definitions.                                                            *)

RECURSIVE FieldsIn(_)
FieldsIn(instrs) ==
  UNION {LET in == instrs[i]
         IN  IF HasBody(in) THEN FieldsIn(in.instructions)
             ELSE IF in.kind = "field" THEN {in} ELSE {}
           : i \in DOMAIN instrs}

\* The definitions of a name before the k-th element of a <templates>.
DefinesBefore(e, k, name) ==
  {i \in 1 .. k - 1 : e.kids[i].tag = "define" /\ Attr(e.kids[i], "name") = name
                      /\ e.kids[i].kids # <<>>}

\* A field of a named type has the members of the last definition of that name
\* before it in its own file, and of no other file that was read before.
TypesComeFromTheirFile ==
  \A t \in Range(written) : \A f \in {g \in FieldsIn(t.body) : g.typeName # ""} :
    LET top  == files[t.file][1]
        defs == DefinesBefore(top, t.at, f.typeName)
    IN  /\ t.at > 0 /\ defs # {}
        /\ f.elements = assignElementValues(
             parseTypeElement(Head(top.kids[Max(defs)].kids)).elements, f.type)

\* What the parser does not know it skips, silently.
UnknownTypesAreSkipped == phase # "panicked"
=============================================================================
