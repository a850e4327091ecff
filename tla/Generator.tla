------------------------------ MODULE Generator ------------------------------
(***************************************************************************)
(* The generator over the merged templates.  It goes over the instructions *)
(* of each template twice, once for the structs, those of nested segments  *)
(* first, and once for the methods, that of a segment before the nested    *)
(* ones; in each pass it decides on its own about names and types.  The    *)
(* two passes are recursive functions, so a pass has a stack of calls.     *)
(***************************************************************************)
EXTENDS GeneratedCode, Schemas

VARIABLES
  blocks,   \* the code of the templates so far
  enums,    \* the members of the enum types they have asked for, by name
  source,   \* what is written: Nothing, or the whole of the code
  pass,     \* idle between two templates, or the pass over one: structs, methods
  calls,    \* the calls of the pass that have not returned, the innermost last
  code      \* the code of the template so far

generatorVars == <<blocks, enums, source, pass, calls, code>>

NoCode == [structs |-> {}, methods |-> {}, slots |-> {}, pmaps |-> {}]

\* A call for a segment: at is the instruction that it looks at next.
Call(name, segment) == [name |-> name, segment |-> segment, at |-> 1]

\* What the parser makes sure of, instruction by instruction: only integers
\* have a width, and only decimals have operators of parts, in place of one.
IsFieldOK(f) ==
  /\ f.kind = "field" /\ f.name \in STRING /\ f.optional \in BOOLEAN
  /\ f.width > 0 => f.type \in {"Int32", "UInt32"}
  /\ HasParts(f) => f.type = "Decimal" /\ f.op.kind = "None"

IsInstruction(in) ==
  CASE in.kind = "field" ->
         IsFieldOK(in) /\ \A i \in DOMAIN in.bitFields : IsFieldOK(in.bitFields[i])
    [] in.kind = "sequence" ->
         /\ in.name \in STRING /\ in.optional \in BOOLEAN
         /\ IsFieldOK(in.length) /\ in.length.type = "UInt32"
    [] in.kind = "group" -> in.name \in STRING /\ in.optional \in BOOLEAN
    [] OTHER -> in.kind = "templateRef" \/ in = NilField

GeneratorInit ==
  /\ blocks = <<>> /\ source = Nothing
  /\ enums = [name \in {} |-> <<>>]
  /\ pass = "idle" /\ calls = <<>> /\ code = NoCode

Template == merged[Len(blocks) + 1]

Top     == calls[Len(calls)]
Current == Top.segment[Top.at]
Later   == [calls EXCEPT ![Len(calls)].at = @ + 1]

In(p)        == phase = "parsed" /\ pass = p
Visiting(p)  == In(p) /\ calls # <<>> /\ Top.at <= Len(Top.segment)
Returning(p) == In(p) /\ calls # <<>> /\ Top.at > Len(Top.segment)

Stopped(why) == phase' = why /\ UNCHANGED <<enums, calls, code, pass>>

BeginTemplate ==
  /\ In("idle") /\ Len(blocks) < Len(merged)
  /\ pass' = "structs" /\ code' = NoCode
  /\ calls' = <<Call(exported(Template.name), Template.body)>>
  /\ UNCHANGED <<merged, phase, blocks, enums, source>>

\* Neither pass goes into an instruction that has no body.
SkipInstruction ==
  /\ Visiting("structs") \/ Visiting("methods")
  /\ ~HasBody(Current)
  /\ calls' = Later
  /\ UNCHANGED <<merged, phase, blocks, enums, source, pass, code>>

-----------------------------------------------------------------------------
(* The structs.                                                            *)

NestedStruct ==
  /\ Visiting("structs") /\ HasBody(Current)
  /\ calls' = Append(Later, Call(NestedName(Top.name, Current), Current.instructions))
  /\ UNCHANGED <<merged, phase, blocks, enums, source, pass, code>>

\* segment is kept for the properties: the instructions that it was made from.
Struct(name, segment) ==
  [name |-> name, segment |-> segment,
   fields |-> UNION {structFields(name, segment[i]) : i \in DOMAIN segment}]

Faults(name, segment) ==
  {i \in DOMAIN segment : StructFault(name, segment[i]) # "none"}

\* After its instructions, a call renders the struct of its own segment.
EndOfStruct ==
  /\ Returning("structs")
  /\ LET faults == Faults(Top.name, Top.segment)
     IN  IF faults # {} THEN Stopped(StructFault(Top.name, Top.segment[Min(faults)]))
         ELSE /\ code' = [code EXCEPT !.structs = @ \cup {Struct(Top.name, Top.segment)}]
              /\ enums' = Registered(enums, Top.name, Top.segment)
              /\ calls' = Front(calls)
              /\ UNCHANGED <<phase, pass>>
  /\ UNCHANGED <<merged, blocks, source>>

-----------------------------------------------------------------------------
(* The methods.                                                            *)

\* The buffer that a method reads its presence map into, if it has one.
MapBuffer(name, segment, topLevel) ==
  IF ~topLevel /\ segmentNeedsPMAP(segment) THEN Buffer("pmap", name) ELSE Nothing

Steps(name, segment) == [i \in DOMAIN segment |-> step(name, segment[i])]

Method(name, segment, topLevel) ==
  [name |-> name, segment |-> segment, topLevel |-> topLevel,
   buf |-> MapBuffer(name, segment, topLevel), resets |-> optionalHasFields(segment),
   steps |-> [i \in DOMAIN segment |-> step(name, segment[i]).st]]

\* A call renders the method of its own segment before the nested ones.
RenderMethod(name, segment, topLevel, stack) ==
  LET steps  == Steps(name, segment)
      method == Method(name, segment, topLevel)
  IN  IF Fails(steps) THEN Stopped("refused")
      ELSE /\ code' = [code EXCEPT
                !.methods = @ \cup {method},
                !.slots = @ \cup UNION {steps[i].slots : i \in DOMAIN segment},
                !.pmaps = @ \cup ({method.buf} \ {Nothing})
                            \cup UNION {steps[i].pmaps : i \in DOMAIN segment}]
           /\ enums' = Registered(enums, name, segment)
           /\ calls' = Append(stack, Call(name, segment))
           /\ pass' = "methods" /\ UNCHANGED phase

BeginMethods ==
  /\ In("structs") /\ calls = <<>>
  /\ RenderMethod(exported(Template.name), Template.body, TRUE, calls)
  /\ UNCHANGED <<merged, blocks, source>>

NestedMethod ==
  /\ Visiting("methods") /\ HasBody(Current)
  /\ RenderMethod(NestedName(Top.name, Current), Current.instructions, FALSE, Later)
  /\ UNCHANGED <<merged, blocks, source>>

EndOfMethod ==
  /\ Returning("methods")
  /\ calls' = Front(calls)
  /\ UNCHANGED <<merged, phase, blocks, enums, source, pass, code>>

-----------------------------------------------------------------------------
(* The templates.                                                          *)

Block == [name |-> exported(Template.name), structs |-> code.structs,
          methods |-> code.methods, slots |-> code.slots, pmaps |-> code.pmaps]

EndOfTemplate ==
  /\ In("methods") /\ calls = <<>>
  /\ blocks' = Append(blocks, Block) /\ pass' = "idle"
  /\ UNCHANGED <<merged, phase, enums, source, calls, code>>

RouterEntry(t) == [name |-> exported(t.name), id |-> t.id[1]]

Source ==
  [kind |-> "source", blocks |-> blocks, enums |-> buildEnumViews(enums),
   router |-> [i \in DOMAIN merged |-> RouterEntry(merged[i])]]

\* Mutant: a template that is refused does not stop the others.
WriteSource_Anyway ==
  /\ phase = "refused" \/ (In("idle") /\ Len(blocks) = Len(merged))
  /\ phase' = "generated" /\ source' = Source
  /\ UNCHANGED <<merged, blocks, enums, pass, calls, code>>

\* The rest of Generate, and the end of run.
WriteSource ==
  /\ In("idle") /\ Len(blocks) = Len(merged)
  /\ phase' = "generated" /\ source' = Source
  /\ UNCHANGED <<merged, blocks, enums, pass, calls, code>>

Generate ==
  \/ BeginTemplate \/ SkipInstruction \/ NestedStruct \/ EndOfStruct
  \/ BeginMethods \/ NestedMethod \/ EndOfMethod \/ EndOfTemplate \/ WriteSource

-----------------------------------------------------------------------------
\* Code is written once all templates went through both passes, for all of them
\* in their order or, when the parser or the generator fails, for none.
AllOrNothing ==
  /\ source # Nothing <=> phase = "generated"
  /\ source # Nothing =>
       /\ DOMAIN source.blocks = DOMAIN merged /\ DOMAIN source.router = DOMAIN merged
       /\ \A i \in DOMAIN merged : /\ source.blocks[i].name = exported(merged[i].name)
                                   /\ source.router[i] = RouterEntry(merged[i])

-----------------------------------------------------------------------------
(* Whether the code refers to what it declares.                            *)

Basic == {<<"int64">>, <<"uint64">>, <<"bool">>, <<"Decimal">>, <<"string">>,
          <<"[]byte">>, <<"time.Time">>}

\* What the runtime's decoding functions want of a slot.
SlotFor(kind) ==
  CASE kind \in {"fieldInt", "fieldDecimalIndividual"}   -> "IntSlot"
    [] kind \in {"fieldUint", "sequence"}                -> "UintSlot"
    [] kind \in {"fieldDecimal", "fieldDecimalDelta"}    -> "DecimalSlot"
    [] OTHER                                             -> "BytesSlot"

StructsOf(b)       == {s.name : s \in b.structs}
FieldsOf(b, name)  == UNION {s.fields : s \in {t \in b.structs : t.name = name}}
NestedMethodsOf(b) == {m.name : m \in {n \in b.methods : ~n.topLevel}}

IsSequence(st) == st.kind \in {"sequence", "sequenceConstant"}
CallsMethod(st) == IsSequence(st) \/ st.kind = "group"

\* Whether what a statement refers to is declared in the decoder b, and is of
\* the type that the statement takes it to be; fields are those of its struct.
\* A sequence has no flag.
StatementIsClosed(b, st, fields) ==
  /\ st.kind # "bitgroup" =>
       \E f \in fields : /\ f.name = st.field /\ f.type = st.type
                         /\ st.optional /\ ~IsSequence(st) => f.optional
  /\ \A i \in DOMAIN st.bits :
       \E f \in fields : f.name = st.bits[i].field /\ f.type = st.bits[i].type
  /\ \A s \in st.slots : Slot(s, SlotFor(st.kind)) \in b.slots
  /\ st.buf # Nothing => st.buf \in b.pmaps
  /\ CallsMethod(st) => st.method \in NestedMethodsOf(b) \cap StructsOf(b)

MethodIsClosed(b, m) ==
  LET fields == FieldsOf(b, m.name)
  IN  /\ m.name \in StructsOf(b)
      /\ \A r \in m.resets : \E f \in fields : f.name = r /\ f.optional
      /\ m.buf # Nothing => m.buf \in b.pmaps
      /\ \A i \in DOMAIN m.steps : StatementIsClosed(b, m.steps[i], fields)

DeclaredTypes(b, types) ==
  Basic \cup StructsOf(b) \cup {<<"[]">> \o n : n \in StructsOf(b)} \cup types

BlockIsClosed(b, types) ==
  /\ \A m \in b.methods : MethodIsClosed(b, m)
  /\ \A s \in b.structs : \A f \in s.fields : f.type \in DeclaredTypes(b, types)

\* The two passes over the instructions agree: whatever a method refers to, a
\* field, a flag, a slot, a buffer, another method or a type, is declared and
\* of the type it is used at.  gofmt, which is all that looks at the code when
\* it is generated, does not see it.
CodeIsClosed ==
  source # Nothing =>
    \A i \in DOMAIN source.blocks : BlockIsClosed(source.blocks[i], DOMAIN source.enums)

-----------------------------------------------------------------------------
(* Whether presence maps are read where they are used.                     *)

\* Whether a statement takes a bit of its method's map when it runs: by its
\* text, or because the function it calls does.
CallTakesBit(op, optional) ==
  op \in {"Default", "Copy", "Increment"} \/ (op = "Constant" /\ optional)

TakesBit(st) ==
  CASE st.kind \in {"fieldConstant", "group", "sequenceConstant"} -> st.optional
    [] st.kind = "fieldBytesTail" -> TRUE
    [] st.kind = "fieldDecimalIndividual" ->
         CallTakesBit(st.calls[1], st.optional) \/ CallTakesBit(st.calls[2], FALSE)
    [] st.kind \in {"fieldDecimal", "fieldBytes"} ->
         st.calls[1] # "Increment" /\ CallTakesBit(st.calls[1], st.optional)
    [] st.kind = "bitgroup" -> FALSE
    [] OTHER -> CallTakesBit(st.calls[1], st.optional)

\* The operators that a field of this type may have: numbers have no tail, and
\* what is no integer has no increment.
Applies(f) ==
  LET ops == {f.op.kind} \cup {p.kind : p \in {f.exponent, f.mantissa}}
  IN  /\ f.type \notin Strings \cup {"ByteVector"} => "Tail" \notin ops
      /\ f.op.kind = "Increment" => f.type \in Signed \cup Unsigned

OperatorsApply(segment) ==
  \A i \in DOMAIN segment :
    /\ IsField(segment[i]) => Applies(segment[i])
    /\ segment[i].kind = "sequence" => Applies(segment[i].length)

\* A nested method reads a presence map exactly if one of its statements takes
\* a bit, where the operators are ones the types have; and a statement never
\* takes a bit of a map that is not read, whatever the operators.
MapMatches(m) ==
  LET takes == \E i \in DOMAIN m.steps : TakesBit(m.steps[i])
  IN  /\ takes => m.buf # Nothing
      /\ OperatorsApply(m.segment) /\ m.buf # Nothing => takes

MapsMatchStatements ==
  \A k \in DOMAIN blocks : \A m \in blocks[k].methods : ~m.topLevel => MapMatches(m)
=============================================================================
