------------------------------ MODULE MCFastgen ------------------------------
(***************************************************************************)
(* Command lines for Fastgen, in families: graphs of references over three *)
(* templates and two files, definitions and their uses in every order, and *)
(* every kind of instruction with every operator.                          *)
(***************************************************************************)
EXTENDS Fastgen

MCMaxID == 9
MCWords == [OrderSide |-> <<"Order", "Side">>]

NoAttrs == [a \in {} |-> ""]

E(tag, attrs, kids)    == [tag |-> tag, attrs |-> attrs, kids |-> kids]
Named(tag, name, kids) == E(tag, [name |-> name], kids)
template(name, id, kids) == E("template", [name |-> name, id |-> <<id>>], kids)
Document(kids) == <<E("templates", NoAttrs, kids)>>
OneFile(kids)  == <<Document(kids)>>

Plain == Named("uInt32", "plain", <<>>)
ref(name) == Named("templateRef", name, <<>>)

-----------------------------------------------------------------------------
(* References.  The names are those of the templates; each body is a plain *)
(* field, a reference, one in a group, or two of them.                     *)

Abc  == <<"A", "B", "C">>
Refs == {ref(Abc[i]) : i \in 1 .. 3}
Bodies ==
  {<<Plain>>} \cup {<<r>> : r \in Refs}
    \cup {<<Plain, Named("group", "g", <<r>>)>> : r \in Refs}
    \cup {<<ref("A"), ref("B")>>, <<ref("B"), ref("C")>>,
          <<Named("sequence", "s", <<ref("C")>>), ref("C")>>}

ReferenceFamily ==
  UNION {LET a == template("A", 1, p[1])
             b == template("B", 2, p[2])
             c == template("C", 3, p[3])
         IN  {OneFile(<<a, b, c>>), <<Document(<<a>>), Document(<<b, c>>)>>,
              <<Document(<<c, b>>), Document(<<a>>)>>}
         : p \in Bodies \X Bodies \X Bodies}

-----------------------------------------------------------------------------
(* Definitions: two enums of one name, and templates that use it.          *)

Members(labels) == [i \in DOMAIN labels |-> Named("element", labels[i], <<>>)]
Two   == E("enum", NoAttrs, Members(<<"Buy", "Sell">>))
Three == E("enum", NoAttrs, Members(<<"Buy", "Sell", "Cross">>))

Side == Named("field", "side", <<Named("type", "Side", <<>>)>>)
define(type) == Named("define", "Side", <<type>>)

Items == {"two", "three", "use"}
AtPlace(what, f, i) ==
  CASE what = "two"   -> define(Two)
    [] what = "three" -> define(Three)
    [] what = "use"   -> template(<<Abc, <<"D", "E", "F">> >>[f][i], 3 * f + i - 3, <<Side>>)
FileOf(f, items) == Document([i \in DOMAIN items |-> AtPlace(items[i], f, i)])

UpTo(n) == UNION {[1 .. k -> Items] : k \in 1 .. n}
DefineFamily ==
  {<<FileOf(1, x), FileOf(2, y)>> : x \in UpTo(3), y \in UpTo(2)}

-----------------------------------------------------------------------------
(* Fields, lengths and bit groups, each in a segment of its own.           *)

Ops == {"constant", "default", "copy", "increment", "delta", "tail"}
Initial == {[value |-> v] : v \in {<<1>>, <<-1>>, <<15, -1>>, <<>>}}
Operators ==
  {<<>>} \cup {<<E(op, v, <<>>)>> : op \in Ops, v \in Initial \cup {NoAttrs}}
Presence == {"mandatory", "optional"}

Types ==
  {<<t, <<>>>> : t \in {"int32", "uInt64", "decimal", "string", "byteVector",
                        "boolean", "timestamp"}}
    \cup {<<t, Members(<<"Buy", "Sell">>)>> : t \in {"enum", "set"}}

InSegment(tag, in) == OneFile(<<template("T", 1, <<Named(tag, "part", <<in>>)>>)>>)

FieldFamily ==
  {InSegment("sequence", E(t[1], [name |-> "x", presence |-> p], t[2] \o op)) :
     t \in Types, p \in Presence, op \in Operators}
  \cup {InSegment("group", E("string", [name |-> "x", presence |-> p, charset |-> "unicode"], op)) :
     p \in Presence, op \in Operators}

PartOf(tag, op) == IF op = "" THEN <<>> ELSE <<Named(tag, "", <<E(op, NoAttrs, <<>>)>>)>>
PartsFamily ==
  {InSegment("group", E("decimal", [name |-> "x", presence |-> p],
                        PartOf("exponent", e) \o PartOf("mantissa", m))) :
     p \in Presence, e \in Ops \cup {""}, m \in Ops \cup {""}}

LengthFamily ==
  {InSegment("group", E("sequence", [name |-> "leg", presence |-> p],
                        <<Named("length", "n", op)>> \o <<in>>)) :
     p \in Presence, op \in Operators,
     in \in {Plain, E("group", [name |-> "inner", presence |-> "optional"], <<Plain>>)}}

Bits ==
  {<<Named("uInt3", "a", <<>>), Named("int2", "b", <<>>)>>,
   <<Named("boolean", "a", <<>>), Named("enum", "b", Members(<<"Buy", "Sell", "Cross">>))>>,
   <<Named("set", "a", Members(<<"Buy", "Sell">>)), Named("int32", "b", <<>>)>>,
   <<E("uInt1", [name |-> "a", presence |-> "optional"], <<>>)>>,
   <<Named("uInt1", "a", <<>>), Named("int16", "b", <<>>), ref("A")>>,
   <<Named("group", "a", <<Plain>>)>>, <<Named("bitGroup", "a", <<>>)>>,
   <<Named("uInt1", "a", <<>>), E("copy", NoAttrs, <<>>)>>, <<>>}
BitFamily ==
  {InSegment("group", E("bitGroup", [name |-> "bits", presence |-> p], b)) :
     p \in Presence, b \in Bits}

-----------------------------------------------------------------------------
(* The rest: documents that are refused, skipped over or cross-named.      *)

Typed(name, t) == Named("field", name, <<Named("type", t, <<>>)>>)
Order == template("Order", 1, <<Named("enum", "Side", Members(<<"Buy">>))>>)

OtherFamily ==
  { <<Document(<<Order>>) \o <<E("view", NoAttrs, <<>>)>>>>,
    <<<<E("view", NoAttrs, <<>>)>>>>,
    <<<<template("T", 1, <<Plain>>)>>, Document(<<template("U", 2, <<ref("T")>>)>>)>>,
    <<<<template("T", 10, <<Plain>>)>>>>,
    OneFile(<<E("template", [name |-> "T", id |-> <<>>], <<Plain>>)>>),
    OneFile(<<Named("template", "T", <<Plain>>), E("view", NoAttrs, <<>>)>>),
    OneFile(<<template("T", 1, <<E("uInt32", [name |-> "x", id |-> <<10>>], <<>>)>>)>>),
    OneFile(<<template("T", 1, <<ref("")>>)>>),
    OneFile(<<template("T", 1, <<Plain, Named("int16", "x", <<>>)>>)>>),
    OneFile(<<Named("define", "Side", <<E("group", NoAttrs, <<Plain>>)>>),
              template("T", 1, <<Side>>)>>),
    OneFile(<<Named("define", "OrderSide", <<Two>>), Named("define", "Side", <<>>),
              template("T", 2, <<Typed("side", "OrderSide")>>)>>),
    <<Document(<<template("A", 1, <<Plain>>), template("A", 2, <<ref("A")>>)>>),
      Document(<<template("A", 3, <<Plain, Plain>>), template("B", 4, <<ref("A")>>)>>)>> }

MCInputs ==
  ReferenceFamily \cup DefineFamily \cup FieldFamily \cup PartsFamily
    \cup LengthFamily \cup BitFamily \cup OtherFamily

\* A type that the parser does not know, between fields that it does.
UnknownInputs == {OneFile(<<template("T", 1, <<Plain, Named("int16", "x", <<>>), Plain>>)>>)}
=============================================================================
