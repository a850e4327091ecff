--------------------------- MODULE TemplateParser ---------------------------
(***************************************************************************)
(* The template parser over one run of fastgen: it reads the files in the  *)
(* order in which they were named, each with a parser of its own, inlines  *)
(* the template references of each, merges the templates, and inlines once *)
(* more over the merged set.                                               *)
(*                                                                         *)
(* A file is the sequence of the root elements of its document; the        *)
(* children of <templates> are read one at a time.  A template is          *)
(* [name, id, body]; its namespaces, which nothing reads, are left out.    *)
(***************************************************************************)
EXTENDS TemplateSyntax, Schemas

CONSTANT Inputs   \* the command lines: each a sequence of files

VARIABLES
  files,     \* the files of this run
  file,      \* the file being read
  root,      \* the root element of it being read
  item,      \* the next child of <templates>, 0 outside one
  defines,   \* the definitions of the file, by name
  schema,    \* the templates of the file; Nothing before a root of its own
  written    \* history: the templates as they were read

readerVars == <<files, file, root, item, defines, schema, written>>

Schema(ts) == [kind |-> "schema", templates |-> ts]
NoDefines == [name \in {} |-> Nothing]

-----------------------------------------------------------------------------
(* Static template references.                                             *)

\* Mutant: what is nested is not looked at.
RECURSIVE expandRefs_Shallow(_, _, _)
expandRefs_Shallow(instrs, body, active) ==
  LET expanded(in) ==
        IF in.kind = "templateRef" /\ ~in.dynamic /\ in.name \in DOMAIN body
        THEN IF in.name \in active THEN <<Error>>
             ELSE expandRefs_Shallow(body[in.name], body, active \cup {in.name})
        ELSE <<in>>
  IN  Checked(FlattenSeq(Mapped(expanded, instrs)))

\* Mutant: a reference that closes a cycle is left where it is.
RECURSIVE expandRefs_KeepsCycle(_, _, _)
expandRefs_KeepsCycle(instrs, body, active) ==
  LET nested(in) == expandRefs_KeepsCycle(in.instructions, body, active)
      expanded(in) ==
        IF in.kind = "templateRef" /\ ~in.dynamic /\ in.name \in DOMAIN body
        THEN IF in.name \in active THEN <<in>>
             ELSE expandRefs_KeepsCycle(body[in.name], body, active \cup {in.name})
        ELSE IF HasBody(in)
        THEN <<[in EXCEPT !.instructions = nested(in)]>>
        ELSE <<in>>
  IN  Checked(FlattenSeq(Mapped(expanded, instrs)))

\* A reference becomes the instructions of its target, expanded in turn; active
\* are the templates whose instructions are being expanded.  A dynamic reference
\* and one whose target is not in the set stay.
RECURSIVE expandRefs(_, _, _)
expandRefs(instrs, body, active) ==
  LET nested(in) == expandRefs(in.instructions, body, active)
      expanded(in) ==
        IF in.kind = "templateRef" /\ ~in.dynamic /\ in.name \in DOMAIN body
        THEN IF in.name \in active THEN <<Error>>
             ELSE expandRefs(body[in.name], body, active \cup {in.name})
        ELSE IF HasBody(in)
        THEN IF Fails(nested(in)) THEN <<Error>>
             ELSE <<[in EXCEPT !.instructions = nested(in)]>>
        ELSE <<in>>
  IN  Checked(FlattenSeq(Mapped(expanded, instrs)))

\* The bodies by name: of several templates with one name, the last.
byName(ts) ==
  [n \in {ts[i].name : i \in DOMAIN ts} |->
     ts[Max({i \in DOMAIN ts : ts[i].name = n})].body]

\* One template after the other, in place: a later one finds the earlier ones
\* expanded already.
inlineStaticTemplateRefs(ts) ==
  LET inlined(acc, i) ==
        IF \E j \in DOMAIN acc : Fails(acc[j].body) THEN acc
        ELSE [acc EXCEPT ![i].body = expandRefs(@, byName(acc), {acc[i].name})]
  IN  FoldLeft(inlined, ts, [i \in DOMAIN ts |-> i])

\* Mutant: a template that could not be inlined is passed on.
Inlined_Always(ts) == TRUE

Inlined(ts) == \A i \in DOMAIN ts : ~Fails(ts[i].body)

\* The templates of a file whose names have not been seen.
New(ts) ==
  SelectSeq([i \in DOMAIN ts |-> [t |-> ts[i], at |-> i]],
            LAMBDA x : /\ \A j \in DOMAIN merged : merged[j].name # x.t.name
                       /\ \A j \in 1 .. x.at - 1 : ts[j].name # x.t.name)
Merge(ts) == merged \o [i \in DOMAIN New(ts) |-> New(ts)[i].t]

-----------------------------------------------------------------------------
ParserInit ==
  /\ files \in Inputs
  /\ file = 1 /\ root = 1 /\ item = 0
  /\ defines = NoDefines /\ schema = Nothing
  /\ merged = <<>> /\ phase = "parsing" /\ written = <<>>

Reading == phase = "parsing" /\ file <= Len(files)
Root    == files[file][root]
Item    == Root.kids[item]
InRoot(tag) == Reading /\ item = 0 /\ root <= Len(files[file]) /\ Root.tag = tag
InItem(tag) == Reading /\ item > 0 /\ item <= Len(Root.kids) /\ Item.tag = tag

Stop(reason) ==
  phase' = reason /\ UNCHANGED <<file, root, item, schema, merged, written>>

\* A template as it stands in its file, before any reference is inlined.
Written(t) == [file |-> file, at |-> item, name |-> t.name, body |-> t.body]

\* A template is parsed with the definitions that have been read before it.
parseTemplate(e) ==
  LET id == IF "id" \in DOMAIN e.attrs THEN parseID(e.attrs.id) ELSE <<0>>
  IN  [name |-> Attr(e, "name"), id |-> id,
       body |-> IF id = <<>> THEN <<Error>> ELSE parseInstructionList(e, defines)]

OpenTemplates ==
  /\ InRoot("templates")
  /\ schema' = Schema(<<>>) /\ item' = 1
  /\ UNCHANGED <<files, file, root, defines, merged, phase, written>>

ReadTemplate ==
  /\ InItem("template")
  /\ LET t == parseTemplate(Item)
     IN  IF Fails(t.body) THEN Stop("bad template")
         ELSE /\ schema' = Schema(Append(schema.templates, t)) /\ item' = item + 1
              /\ written' = Append(written, Written(t))
              /\ UNCHANGED <<file, root, merged, phase>>
  /\ UNCHANGED <<files, defines>>

\* A definition is its first child; one that has a name already is replaced.
ReadDefine ==
  /\ InItem("define")
  /\ item' = item + 1
  /\ defines' = IF Attr(Item, "name") = "" \/ Item.kids = <<>> THEN defines
                ELSE (Attr(Item, "name") :> parseTypeElement(Head(Item.kids))) @@ defines
  /\ UNCHANGED <<files, file, root, schema, merged, phase, written>>

SkipItem ==
  /\ Reading /\ item > 0 /\ item <= Len(Root.kids)
  /\ Item.tag \notin {"template", "define"}
  /\ item' = item + 1
  /\ UNCHANGED <<files, file, root, defines, schema, merged, phase, written>>

CloseTemplates ==
  /\ Reading /\ item > 0 /\ item > Len(Root.kids)
  /\ root' = root + 1 /\ item' = 0
  /\ UNCHANGED <<files, file, defines, schema, merged, phase, written>>

BareTemplate ==
  /\ InRoot("template")
  /\ LET t == parseTemplate(Root)
     IN  IF Fails(t.body) THEN Stop("bad template")
         ELSE /\ schema' = Schema(<<t>>) /\ root' = root + 1
              /\ written' = Append(written, Written(t))
              /\ UNCHANGED <<file, item, merged, phase>>
  /\ UNCHANGED <<files, defines>>

SkipRoot ==
  /\ Reading /\ item = 0 /\ root <= Len(files[file])
  /\ Root.tag \notin {"templates", "template"}
  /\ root' = root + 1
  /\ UNCHANGED <<files, file, item, defines, schema, merged, phase, written>>

\* Mutant: the definitions of a file are still there in the next.
EndOfFile_KeepsDefines ==
  /\ Reading /\ item = 0 /\ root > Len(files[file])
  /\ IF schema = Nothing THEN Stop("no templates")
     ELSE LET ts == inlineStaticTemplateRefs(schema.templates)
          IN  IF ~Inlined(ts) THEN Stop("cyclic reference")
              ELSE /\ merged' = Merge(ts) /\ schema' = Nothing
                   /\ file' = file + 1 /\ root' = 1
                   /\ UNCHANGED <<item, phase, written>>
  /\ UNCHANGED <<files, defines>>

\* The end of ParseBytes and a turn of the loop of ParseFiles.
EndOfFile ==
  /\ Reading /\ item = 0 /\ root > Len(files[file])
  /\ IF schema = Nothing THEN Stop("no templates") /\ UNCHANGED defines
     ELSE LET ts == inlineStaticTemplateRefs(schema.templates)
          IN  IF ~Inlined(ts) THEN Stop("cyclic reference") /\ UNCHANGED defines
              ELSE /\ merged' = Merge(ts) /\ schema' = Nothing
                   /\ file' = file + 1 /\ root' = 1 /\ defines' = NoDefines
                   /\ UNCHANGED <<item, phase, written>>
  /\ UNCHANGED files

EndOfFiles ==
  /\ phase = "parsing" /\ file > Len(files)
  /\ LET ts == inlineStaticTemplateRefs(merged)
     IN  IF ~Inlined(ts) THEN Stop("cyclic reference")
         ELSE merged' = ts /\ phase' = "parsed" /\ UNCHANGED <<file, root, item, schema, written>>
  /\ UNCHANGED <<files, defines>>

Parse ==
  \/ OpenTemplates \/ ReadTemplate \/ ReadDefine \/ SkipItem \/ CloseTemplates
  \/ BareTemplate \/ SkipRoot \/ EndOfFile \/ EndOfFiles
=============================================================================
