# gofastdecoder in TLA+

A verification development for `gofastdecoder`, a decoder for the FAST protocol
(FIX Adapted for STreaming): `src/fastcore` is the runtime, `src/fastgen`
compiles XML templates to Go decoders that call it. The decoder is sequential
and persists nothing, but it is full of memory: every field has a previous
value in a dictionary that the next message depends on, message structs and
their slices are reused for ever, and any call may fail half way through. That
memory is what most of the modules are about; the others are about the
generator, whose decisions have to agree with what the runtime does, and about
the feed of which a decoder is the receiving end.

## Inventory

| component | state it keeps | operations | what makes it correct |
|---|---|---|---|
| stop-bit reader (`reader.go`) | buffer, position, scratch | read an unsigned, signed or nullable entity; `Reset`, `Remaining` | a number is read exactly or refused; a refused or truncated entity never yields a value |
| presence map (`pmap.go`) | 64-bit shift register, spilled groups, cursor | `ReadPMAP`, `Next` | bits come out in order, FALSE past the end; a nested map never clobbers its parent's |
| dictionary and integer operators (`dict.go`, `operator_int*.go`) | one slot per field: `Undefined`, `Empty` or `Assigned` with a value | none, constant, default, copy, increment, delta; `Reset` | the slot is exactly the memory the operator needs; failures leave it alone; wrap at the declared width |
| decimal operators (`operator_decimal.go`) | exponent and mantissa | none, constant, default, copy, delta; or one integer operator per component | both components move together |
| strings and byte vectors (`string.go`, `operator_string.go`) | a byte buffer per slot, the reader's scratch | none, constant, default, copy, delta, tail | NULL, empty and NUL-leading strings stay apart; returned slices are not overwritten while they are needed |
| FAST 1.2 primitives (`ext12.go`) | bit cursor | `ReadBits`, `ReadBitsSigned`, timestamps, durations | fields come out of the packed bits in order, a refusal does not move the ones after it; times are exact within their word |
| generated decoders (`gen.go`, `templates.go`) | slots, map buffers, message structs | one method per segment (body, group, element) | nothing of an earlier message shows; presence maps are read exactly where they are sent |
| generated Router (`templates.go`) | template-id slot, the decoders, one struct per template | `Decode`, `Reset`, the reset message | the body that runs is that of the latest id; a reset forgets everything; every call returns |
| generator (`gen.go`, `main.go`) | the code emitted so far, enum types by name | one block per template, structs and then methods; write the file | the two passes agree; maps are read where statements take bits; all templates are written or none |
| AST and parser (`ast.go`, `parser.go`) | definitions of the file, templates of the file and of the files before it | parse, resolve, inline references, merge files | a template becomes what its references stand for; exactly the cyclic ones are refused; definitions stay in their file |
| vector harness (`vectors/`), examples | none | tests; generated code | - |

How they interact: the caller hands a `Reader` over a datagram to
`Router.Decode`. The Router reads the message's presence map and the template
id (a copy field, so it may be left out), and calls the template's method,
which goes through its fields in order. Each field consumes a bit of the
innermost map, or an entity, or both, and reads and writes its slot. Groups and
the elements of sequences are methods of their own with, if one of their fields
needs it, a presence map of their own. An error returns through all of them at
once and leaves whatever they had already written. The generator is a command:
it reads the files one after the other, each with a parser of its own, inlines
the template references of each file and then once more those of the merged
set, emits a decoder per template, and writes the file if nothing failed.

What is hard is listed with its line in `PROJECT.json` under `hazards`:
previous values after failures, absences and resets; messages that leave their
id out; structs and slices that are reused; lengths that come off the wire or
out of the dictionary; arithmetic at both ends of two widths; decisions the
generator makes on its own about bytes the runtime reads, and twice about the
names in its output; definitions and references that cross files; datagrams that
never arrive or arrive twice. There is no concurrency, no persistence and no
retry in this code, so there are no hazards of that kind.

## Modules

| module | models | role |
|---|---|---|
| `Wire` | `reader.go`, `pmap.go` as one field sees them | what reads return and consume |
| `IntegerOperators` | `dict.go`, `operator_int.go`, `operator_int_signed.go` | one definition per Go function |
| `Histories` | - | pure: what is last in the outcomes of a field |
| `Promises` | - | pure: what an operator promises for a wire and a history |
| `PreviousValue` | - | abstract specification: a field that keeps its promise for ever |
| `FieldSlot` | a field and its slot, decoded and reset for ever | implements `PreviousValue` |
| `PromiseProofs` | - | the contract of the operators, lemmas on `Histories`; the operators keep the promise of a slot that agrees with its history |
| `FieldSlotProofs` | - | the theorems about `FieldSlot` |
| `Templates` | the generator's decisions (`gen.go`) | instructions, slots, presence maps, flags |
| `Router` | the generated Router and methods (`templates.go`) | composes `Templates` and `IntegerOperators` |
| `RouterProofs` | - | the theorems about `Router`: types, routing, presence maps, reset, the work of a call; a returned message shows nothing of an earlier call |
| `Retained` | a caller that copies a message | extends `Router` |
| `FeedSession` | a peer, a channel and the Router at its end | composes `IntegerOperators` with `Promises` |
| `FeedSessionProofs` | - | the theorems about `FeedSession` |
| `EntityReader` | the loops of `reader.go`, a byte a step | shows that `Wire`'s reads are what the bytes come to |
| `BitSequence` | - | abstract specification: nested maps as sequences of unread bits |
| `PresenceMap` | `pmap.go` and the buffers of the generated decoders | implements `BitSequence` |
| `BitGroup` | the bit cursor of `ext12.go` and the read of a bit group | compared with the digits of the whole entity |
| `Timestamps` | the conversions of `ext12.go` | compared with exact arithmetic |
| `Entities` | - | composes the four above, which share nothing |
| `EntitiesProofs` | - | the theorems about `Entities` |
| `DecimalOperators` | `operator_decimal.go`, and decimals in parts (`gen.go`, `templates.go`) | one definition per Go function |
| `PreviousDecimal` | - | abstract specification of decimals |
| `DecimalField` | a decimal and its slot or slots, for ever | implements `PreviousDecimal` |
| `DecimalFieldProofs` | - | the theorems about `DecimalField` |
| `BytesOperators` | `operator_string.go`, `string.go` | one definition per Go function |
| `PreviousBytes` | - | abstract specification of strings, with their encoding |
| `BytesField` | a string field, its slot's arrays and the elements of a message | implements `PreviousBytes` |
| `BytesFieldProofs` | - | the theorems about `BytesField` |
| `Instructions`, `Schemas` | - | what the parser and the generator share: instructions, and the templates that are handed over |
| `TemplateSyntax` | `parser.go`: elements to instructions; `ast.go` | pure: one definition per parser function |
| `TemplateParser` | `parser.go`: files, definitions, references, merging | a child of `<templates>` a step |
| `GeneratedCode` | `gen.go`, and what the texts of `templates.go` refer to | pure: the code for an instruction |
| `Generator` | `Generate` and the two passes of `gen.go` | a call or a return of a pass a step |
| `GeneratorProofs` | - | the theorems about `Generator` |
| `Fastgen` | `main.go` | composes the parser and the generator |
| `MC...` | - | instances for TLC |

### Wire and IntegerOperators

A wire is `[pm, buf]`: the unread bits of the presence map and the unread
entities. An entity is the number its data bits encode, and may be too wide for
64 bits. The definitions of `IntegerOperators` have the names of the Go
functions and take the wire, the declaration and the slot; they return
`[wire, slot, val, present, err]`: the results of the Go function and what it
leaves behind in reader, map and slot. The widths are constants, `2 * Half64`
for 2^64 and `2 * Half32` for 2^32, with the one assumption that the narrow
width divides the wide one.

An entity of more than ten groups is refused like one that is too wide, so to
`Wire` it is one; `EntityReader` has the groups. A refused read takes the entity
off the wire, where the code stays inside it: the operator reads no further, and
the message is given up.

A tail on a number is something the parser returns. There are two ways to decode
it, and both are here. The generated code has a call for each operator and none for
a tail, which falls to that of no operator (`uintDecodeCall`, `intDecodeCall`,
together `DecodeInteger`). The entries that take the operator when they run,
`DecodeUint` and `DecodeInt` (`DispatchInteger`), refuse it, unread.

### FieldSlot, Promises and PreviousValue

`FieldSlot` drives one field for ever: `Decode(w)` for any wire, by the generated
call or by the entry that takes the operator (`Results`), and `Reset`.
Generated decoders have one slot per field and one operator per slot, which is
why `field` is fixed in `Init`. `log` is a history variable with the outcomes
since the reset. `PreviousValue` is the same with no slot at all: its outcome is
`Promised(field, log, wire)`, or, for a tail, that of `Refuse`. `Promises` has that operator, for decimals and for
the feed as well, and `Remembers`, how a slot keeps it. Copy repeats the last outcome,
increment delivers its successor in the declared width, delta adds to the last
value that was present, and the others do not look back. It defines wrap-around
as the number of an interval that counting comes to, not as a mask or a cast.

### Templates and Router

A template is a tree of segments. `Templates` holds what the generator decides
from it: which steps own a slot, which segments have a presence map, which
flags a method clears. `Router` is a stack machine: an activation for every
generated method that is running, one action per generated statement
(`FieldStep`, `GroupStep`, `LengthStep`, `ConstantLengthStep`, `ElementStep`,
`SequenceEnd`, `Leave`), and one action for each outcome of `Decode`'s
prologue (`DecodeAtEnd`, `DecodeNoId`, `DecodeControl`, `DecodeUnknown`,
`DecodeKnown`). The caller brings frames (`NewFrame`) and resets (`Reset`).

What is abstracted: every entity and every presence map is one byte long; its
value, and each bit of a map, is chosen when it is read, since nothing reads
one twice; so a frame is only the number of bytes left, and every behaviour
over every frame content is covered. The structs keep their flags and slices,
not their values; `fresh` records the places the current call has written.
Slots keep their values, because a length can come out of one. Fields are
integers; an error is one outcome, whatever its text.

`Retained` adds a caller that keeps a struct copy of a returned message.

### FeedSession

`FeedSession` puts the Router at the end of a feed. The peer is not part of
the code: it is any encoder of which `Promised` is the decoder, so it may send
every encoding that the promise accepts for its own history, and may or may not
leave out an id that is that of the message before. It sends messages of
templates of one field, messages of a template the Router does not have, and
reset messages. The channel delivers in order, and may lose the oldest datagram
or deliver it again. Nothing flows back, so how long a datagram is under way
cannot be observed, and one in flight at a time is as good as several.
Datagrams do not overtake each other: nothing in the code would notice or undo
that, and FAST leaves the order to the transport.

The Router's actions are `DecodeControl`, `DecodeRefused` and `DecodeBody`, with
values this time: the id goes through `DecodeUint` as a copy field, the body
through `DecodeInteger`.

What can be claimed of the result after a loss is written down in `known`: the
dictionary entries that are still what the peer takes them to be. A lost message
removes the entry of its template, and that of the id if it carried one. While
the id is not known, a message without one spoils the entry of its own template
and that of the template it is taken for. A reset restores everything,
a transmitted value restores a copy or an increment, only a reset restores a
delta, and an operator without memory is always known. A repeated message is
harmless where decoding is idempotent. `known` is a history variable; no
action of the Router depends on it.

### EntityReader, PresenceMap, BitGroup and Timestamps

`Wire` takes a number, or a bit, off the wire at once. `EntityReader` is the
loop behind the number: it accumulates groups in a machine word of
`Unchecked * GroupBits + 1` bits (9, 7 and 64 in the code) and is compared with
`Wire`'s answer for the number the groups encode. The two readers refuse
differently, by comparing and by shifting back, and both are there.

`PresenceMap` is what is behind the bit: the word that `Next` shifts, and the
buffer into which longer maps spill. A decoder keeps a buffer for each segment
for ever; `pmap` keeps what was last in it, beyond the current map as well, and
a map that is cut short has written to it. `Unread` maps this to `BitSequence`,
in which an open map is the sequence of bits not yet read. `CutShort` empties
`open`, because the error returns from all methods.

`BitGroup` reads fields of any width, signed or not, out of the groups of an
entity, bit by bit as the code does. Its properties speak of the whole entity as
one number, of which a field is a slice of digits. `Timestamps` multiplies in
words what `Exact` multiplies in the integers: days and seconds are seconds in a
word, the smaller units nanoseconds in a word, and every duration nanoseconds.
`unix` is `time.Unix`: a `time.Time` keeps a word of seconds since the year 1, so
`UnixToInternal` (62135596800 in Go) is added to the seconds, and the last counts
of seconds turn that word although they are words themselves.

### DecimalField and BytesField

Both are built like `FieldSlot`, each with its abstract specification. A
decimal has one operator, or one for each part. In parts it is two integer
fields, and `PreviousDecimal` says so: exponent and mantissa keep the promise of
an integer field with histories of their own. The mantissa has an outcome only
where the exponent delivered one.

The operators on strings take the contents of a field; where the contents lie is
`BytesField`'s concern. `arrays` are the arrays the slot has had since the
reset. `Stored` overwrites the last one if the value fits and starts a new one
if it does not, as `append` does; it allocates exactly what is needed, where Go
may leave room, and then overwrites in more cases than the model. `Taken` is
what the generated assignment puts in a message: a copy for the string types, a
slice for a byte vector. `elements` are the fields of the current message, with
their original contents beside them.

`PreviousBytes` defines how a string is encoded, not how it is decoded: an
entity is understood as the string of which it is the encoding, and is refused
if it is none. Not separated from the end of the stream are a length preamble
that exceeds the buffer and one that overflows.

### TemplateSyntax, TemplateParser, GeneratedCode, Generator and Fastgen

A document is what `encoding/xml` makes of a well-formed one: elements with
attributes and children. `TemplateSyntax` has the two passes of the parser, from
element to raw instruction and from there to instruction; a raw instruction may
wait in a `<define>`. An error is an instruction of kind `error`, and the nil
`*ast.Field` that the parser returns for a type it does not know is one of kind
`nil`, because it is appended to the body like any other. A number in an attribute
is an integer or a decimal that is none (`IsInteger`), or it is no number: an initial
value of 1.5 is refused for an integer and taken for a decimal (`BadInitial`).

`TemplateParser` is the state of a run: the file, the root element and the child
being read, the definitions of this file, its templates, and the templates of
the files before. `ReadTemplate`, `ReadDefine` and `SkipItem` read one child of
`<templates>`; `OpenTemplates`, `CloseTemplates`, `BareTemplate` and `SkipRoot`
deal with the root elements, `EndOfFile` and `EndOfFiles` with the inlining per
file and over the merged set. `written` is a history variable with the templates
as they were read.

`GeneratedCode` is the code for one instruction, in the struct and in the method. A
name is the sequence of the words it is joined from. A statement has the kind of
the text template it is rendered with and what that text refers to: field, slot,
buffer, method, runtime call.

`Generator` is `templateBlock` over one template after the other. `renderStructs`
and `renderMethod` are recursive functions that do not see each other's results,
so a pass has a stack of calls, and a call the index of the instruction that it
has come to. `BeginTemplate` calls `renderStructs`; `NestedStruct` is a call for a
nested segment, before that of its own struct (`EndOfStruct`); `BeginMethods` and
`NestedMethod` render a method and then go on to the nested ones; `EndOfTemplate`
makes the block, and `WriteSource` is the rest of `Generate` and the end of `run`.
The properties are about what is written: the statements of the methods compared
with what the structs and the decoder declare (`CodeIsClosed`), with the maps that
the methods read (`MapsMatchStatements`), and the whole with the templates
(`AllOrNothing`).

`Fastgen` is the command: `Parsing`, then `Generating`. It has the properties of the
parser, which compare the inlined bodies with what the references of the written
templates stand for in any file (`Unfolded`).

## Runs

| run | instance | shows |
|---|---|---|
| `field_slot` | all 160 declarations over 8 unsigned and signed values, either way of calling, 3 deliveries between resets | slot and operators keep `PreviousValue`'s promise; the other properties of `FieldSlot` |
| `router_feed` | two templates; an optional group with a delta, a sequence with a map per element, a constant length, a group whose only step is a tail on a number; 5 bytes | routing and resets over any sequence of calls, failing ones included; reused structs show nothing old; maps are where the fields expect them |
| `router_nest` | sequence in a sequence, free elements, inner length in the dictionary, 5 bytes; fairness | the same for nested slices; the elements a frame can buy are bounded; every call returns |
| `feed_session` | an increment beside a delta, a copy beside a default, in words of 4 values; losses and repetitions without bound | what is known is decoded as it was sent; dictionaries agree wherever they should, and a reset or a transmitted value makes them agree again |
| `entities` | groups of 3 bits and a word of 10; maps of 2-bit groups, 2 of them packed; a day of 4 seconds of 8 ns, the epoch 100 s after the year 1 | reads are exact or refused; shift register and reused buffers implement sequences of bits; bit groups come out in order; times are exact or off by whole turns |
| `decimal_field` | every declaration with one operator, 3 deliveries; every pair of declarations for the parts, 2 deliveries | promise; a failing number moves nothing and a failing mantissa leaves only the exponent moved; the delta of a number is two integer deltas |
| `bytes_field` | every string declaration but copied vectors, bytes 0 to 2, 3 deliveries | promise, failures, and messages that keep their contents |
| `fastgen` | about 4,300 command lines, in families | inlining, cycles, definitions; the code declares what it refers to; maps are read where statements take bits; all or nothing is written |
| `copied_vector` | the copied vectors | violated: a later element overwrites an earlier one |
| `free_elements` | as `router_nest` | violated: elements may cost no byte |
| `retained_copy` | one sequence of one field, 4 bytes | violated: a struct copy does not retain a message |
| `unknown_type` | a field of a type the parser does not know | violated: the generator panics |

Bounds. With `Half64 = 4` and `Half32 = 2` every wrap of the arithmetic occurs:
an increment at both tops, a transmitted value wider than the declared width, a
delta past either end, an entity too wide for the reader. Three deliveries let
a delta skip an absence between two values, and copy and increment see every
pair of successive outcomes; the theorems drop the bound. In the Router runs
`2 * Half64 = 4`: ids 1 and 2 are templates, 3 is the reset, 0 is unknown. A
frame of 5 bytes holds map, id, length and the maps of two elements, or two
messages that leave their id out; frames follow one another without bound.
`feed_session` has the same numbers: an increment wraps within four messages,
and a loss can fall before, on and after every kind of datagram. Histories are cut
to what a promise looks back to (`Remember`), which makes the run finite without a
bound on its length. In `entities` three groups are unchecked, the fourth is checked and a fifth
refused, as are 9, 10 and 11 in the code. Maps stay in the
word, fill it, spill one group and spill two; bit groups are shorter and longer
than the word; counts lie on both sides of every point where a unit turns. The entities of `bytes_field` are
NULL, the empty string in both encodings, strings that begin with a NUL in
both, an overlong one, and strings shorter and longer than the initial one;
subtractions take bytes off either end of bases of up to eight bytes, and one is too
wide for the reader. In parts,
every integer operator meets every other; the behaviour of one over three
deliveries is `field_slot`'s. The command lines of `fastgen` are families:
every graph of references over three templates whose bodies hold none, one
(plain or in a group) or two, in one file and split over two in either order;
all orders of two definitions of one name and their uses, up to three in one
file and two in the next; every type, presence and operator, with every kind of
initial value, in a segment of its own, and the same for decimal parts, lengths
and bit groups; and the documents that are refused or skipped. Three templates
make every cycle of one, two and three steps, and a template contained in two
others. `MaxID` is 9, so 10 is refused. `MaxDeliveries`, `MaxDepth`,
`MaxFrame` and `MaxInFlight` are the only bounds on steps. In
`router_nest` 5 bytes are enough for a sequence of a sequence of elements that cost
nothing, so `CallsReturn` is about the loops that no byte pays for.

Deadlock is checked in every run except `fastgen` and `unknown_type`, where the
command ends. `CallsReturn` is checked under `WF_vars(Step)`: a call that is
running goes on, because the decoder is straight sequential code. Nothing is
assumed of the caller, of the peer or of the channel.

## Findings

Disagreements between the code and its own comments, each with the run that
shows it:

- *free_elements*: "Every element costs at least one byte to encode" is the
  reason given for refusing a length greater than the bytes that remain. An
  element with only mandatory constants costs none, so a legal message that
  ends in such elements is refused. What the check is for does hold: see
  `WorkIsPaidFor`.
- *copied_vector*: a byte vector with copy that was not transmitted is the
  slot's own slice, and is stored in the message as it is. In a sequence the next
  transmitted value overwrites it, while "the returned Message is [...] valid
  until the next Decode call" and "callers that retain it copy". Strings are
  copied, and deltas return arrays of their own: see `ElementsKeepTheirBytes`
  in `bytes_field`.
- *retained_copy*: "type-assert it and copy the value" does not retain a message
  that has a sequence, because the copy shares its arrays.
- *unknown_type*: "Unknown/extension type - skip silently" returns a nil
  `*ast.Field` as an `ast.Instruction`, which is not nil, so the field becomes
  part of the template and the generator dereferences it.

Noted while modelling, and in the model as the code has it, without a run:

- Enum types are shared by Go name over all templates and files
  (`gen.go:721-737`), while a `<define>` belongs to its file: of two definitions
  of one name with different members, the second is decoded by the constants of
  the first. `TypesComeFromTheirFile` is about the templates, where it is right.
- The comment on `opUsesPMAPBit` says that "default, copy, increment, and tail
  always" occupy a bit (`gen.go:316-318`). The parser returns a tail for a number as
  for any field (`parser.go:1107`, `1189`), and the code emitted for it is that of no
  operator (`gen.go:817`, `838`), which takes none. A segment with no other claim
  reads a map from which nothing is taken; in one with others the fields after the
  tail read bits that a peer who counts like the comment meant for the ones before.
  `router_feed` has such a segment. `PresenceMapsAgree` says what is true: no bit is
  ever asked of a map that is not there, and one that is there is read, unless all
  who claim its bits do so in vain. `MapsMatchStatements` is about operators that
  their types have.
- Of two templates of one name the first wins (`parser.go:46-47`), but a reference
  in the file of the second has been inlined from the second by then.
  `BodiesAreUnfolded` and `CyclesAreRefused` are therefore stated for unique names.
  When the name occurs twice in one file, a reference can be refused as cyclic
  that is none.
- A reference to an unknown template is an error by the comment at
  `parser.go:236-238`; the parser leaves it in the body and the generator refuses it.
- Two templates without an id give the generated `switch` two cases of 0, which
  does not compile.
- Accepted silently: the optional presence of a bit group; a group inside a bit
  group, which becomes a field of type uInt32; a bit group inside a `<field>` or a
  `<define>`, whose members are dropped; an operator that a type has not; an enum value
  too large for the bits the enum is given; an initial value of a decimal part
  that is no number. A `<define>` has to precede its use.
- The initial value of a sequence length that is not constant is read by
  `intInitial` (`gen.go:420`), so a negative one is passed on as a literal to a call
  that wants an unsigned one, where any other unsigned field is refused
  (`uintInitial`). `sequenceStep` has it as the code does; literals are not in the
  model, so no property tells.

## Proofs

`FieldSlotProofs` proves, for all widths, all declarations with any initial
values, and any number of deliveries:

- `TypeCorrect`, `D6IsUnreachable`, `MandatoryFieldsArePresent`,
  `FailureIsHarmless`: the properties of the run of the same names' definitions;
- `SlotIsTheHistory`: copy and increment keep the last outcome, delta the last
  value that was present, and nothing else is kept;
- `SlotKeepsPromise`: `Spec => Promise!Spec`. Every step maps to a step of
  `PreviousValue`, `Reset` to `Reset` and `Decode(w)` to `Decode(w)`, or, of a tail
  that is refused, to `Refuse(w)`.

The inductive invariant is that field, slot and log agree (`Agree` in
`PromiseProofs`): the slot is what `Remembers` says, an Empty one belongs to an
optional field, and a log with a value in it has a last one (`HasLatest`), which
`LastValue` chooses. Agreement is about a field, a slot and a history, not about
a specification, so the lemmas on it serve wherever an operator is called:
`AgreeAtFirst` and `AgreeAfterCall` say that it is kept, `OutcomeIsPromised`
what a call returns, `RestIsLeft` what it leaves on the wire for the next one.
Below them a contract for each operator says what it returns for a slot of its
type. The arithmetic is a small theory of representatives: the casts of `Wire`
and the intervals of `Promises` pick the same member of a class, and the narrow
width dividing the wide one makes the two moduli agree.

`DecimalFieldProofs` proves, for all widths, declarations, wires and bounds:

- `DecimalTypeCorrect`, `FailuresMoveTheExponentOnly`;
- `DecimalKeepsPromise`: `Spec => Promise!Spec`, for numbers and for parts;
- `DeltasAgree`: a delta of a number and deltas of its parts decode alike. It
  comes down to `CutBeforeOrAfter`: adding in 64 bits and cutting the sum to 32
  is the same as cutting what is added.

A decimal in parts makes two calls, and each slot agrees with its own history,
so the lemmas of `PromiseProofs` give both outcomes; `PartsCall` adds that the
second call finds the wire as the first has left it, and is made exactly when
the exponent is present. A decimal with one operator has a contract and an
agreement of its own (`NumberContract`, `NumberAgree`).

`BytesFieldProofs` proves, for strings and bytes of any length and value, and for
all widths, declarations, subtractions and bounds:

- `StringsTypeCorrect`, `FailuresKeepTheString`;
- `StringsKeepPromise`: `Spec => Promise!Spec`;
- `ElementsAreKept`: nothing that is decoded later overwrites an element of the
  message, provided that no byte vector is declared with copy
  (`NoCopiedVectors`). The proviso is the finding of `copied_vector`, and the
  theorem says that it is the only exception.

`PreviousBytes` encodes and the code decodes, so the first step is that a string
is an end of its encoding in one way only (`EncodedAs`, `UnderstoodAs`,
`RefusedAs`): from it, what is read is what was transmitted (`StringIsTransmitted`),
errors included. `EveryCallIsRight` has one lemma per operator that needs it
(copy, tail, delta) and speaks of a slot whose contents are what the history
says. `IInv` adds that agreement to the types. For the elements the invariant
is `CopiesOnly`: no element lies in an array of the slot, because what the
operators return is the slot's own only for a copy or a tail that was not
transmitted, and there is no tail on byte vectors.

`RouterProofs` proves, for every set of well-formed templates, every pair of widths,
every reset id and every bound on a frame:

- `RouterTypeCorrect`, `BodiesAreRouted`, `ResetForgetsAll`;
- `MapsAgree`: the generator decides whether a segment has a presence map from
  its declarations, the operators decide at run time how many bits they take,
  and the two agree, but for tails on numbers, which claim a bit and take none. No
  template set is excluded: a map that is on the wire is read from exactly if some
  step of its segment takes a bit (`TakesBits`), and none is asked of a map that
  is not. The lemma `BitIsReadAsGenerated` is the agreement for one field:
  `DecodeInteger` takes a bit exactly when `opUsesPMAPBit` says so and the
  operator is no tail, failing decodes included;
- `WorkHasABound`: the length check of a sequence does not bound what a call can be
  asked to do, since elements that cost nothing leave the bytes for the next length;
  but in all they buy at most L(L - 1)/2 elements for each length of a segment.

None of the first four is inductive: what a statement does depends on the activation
it runs in, and what a return exposes on the ones below. `Inv` adds `StackOK`:
the stack is a sequence of activations, each at a step of its segment, each of
a segment decoded since the reset, and each either without a map and with no
step that wants one, or with a map of which a bit was read, or a step to come
will read one, or no step does (`BitsAreSpent`; inside its loop a sequence has
read its bit).
`InvIsInductive` has one lemma per action.

`WorkIsPaidFor` compares what was taken on with the whole frame, and says nothing
of what a running method may still ask for. `WorkInv` keeps the account (`Paid`):
what was taken on, what every activation on the stack still `Owes`, added up along
it (`AddsUp`), and what the bytes that are left can buy (`Worth`) stay within what
the frame was worth. An activation owes one length for each sequence it has still to
size, if it has a map: that cost the byte before them all, and later lengths may come
out of the dictionary for nothing. An activation without a map owes nothing, since
each of its lengths is read off the wire and pays with its own byte
(`LengthCostsAByte`); that this is so is again the agreement of generator and
operators. What a method owed when it returns is forgiven (`PaidLeaves`).

The second part of `RouterProofs` proves, for the same templates, widths and bounds:

- `NothingOldIsShown`: what a returned message shows is of the call that returned
  it. Structs are reused, slices are cut and grown back, a call that fails leaves
  its message half written, and yet no flag, field or element of an earlier call
  is seen.

`MessageIsOfThisCall` speaks of calls that have returned, and nothing it says is
true while one runs: the struct is then half new and half old. `MessageInv` adds
where the border is, at the statement of each running method (`Good`). `Level`
says it of one activation: its struct was cleared in this call, no flag is set at
or after its statement, and of the parts it will come to none has been written.
`Nested` says that methods decode into the struct of their caller, and `Shown` that
whatever was written and is not `Pending` shows this call (`Shows`): a flag is set
exactly for what was written, and every element of a sequence, up to its length,
was written. The definitions take the stack, what is fresh, the flags and the
lengths as arguments, so the lemmas are about values: a statement moves the border
(`GoodMoves`), a call opens a border inside it (`GoodCalls`), a return closes one
(`GoodLeaves`, `GoodEnds`), each with what it may have changed on the way
(`Separate`). One lemma per action then says which of them it is. What is needed
of the code beyond its order is that clearing a struct clears all of its flags,
that growing a slice makes zero elements (`ResizeSeparates`), and that a decode
that failed or left nothing has no value (`DecodeIntegerContract`).

`FeedSessionProofs` proves, for every set of templates of one field, every pair of
widths, every two ids for the reset and the unknown template, and any number of
datagrams in flight (`MaxInFlight`, 1 in the run, is any bound):

- `TypesKept`, `KnownIsRight`, `MemoriesAgreeAlways`;
- `PerfectChannel`: if nothing is lost or repeated, every call of `Decode` returns
  what the peer meant. The other two speak of what is known, and this one says
  that all of it is until something is lost.

Nothing in the state of the feed relates the Router to the peer while datagrams
are in flight: each of the two has its own history, and they have gone apart. The
invariant says that the difference is what is in flight. A view is what the peer
takes the dictionary to be; each datagram was sent at one view and leads to the
next (`After`); and `Chain` says that there are views, one more than there are
datagrams, that lead from the one that the Router is at, in all that is known
(`Matches`), to the one that the peer has now. A datagram that arrives or is lost
takes a view off the front (`ChainShrinks`), one that is sent adds one at the end
(`ChainGrows`), and one that will be repeated leaves the Router at the second
(`ChainRepeats`). So only one datagram has to be looked at, and `Arrival` does
that, in four cases: a reset, a template that is unknown, a message, and an id
that is unknown. The case of a message is `MessageIsDecoded`, which rests on the
agreement of slot and history of `PromiseProofs`. It has three ways to be right: the slot agrees
with the history before the message; it agrees with the one after, and decoding
twice is decoding once (`RepeatedPromise`); or nothing is known and the value is
transmitted (`TransmittedIsDecoded`). What holds of a slot of which nothing is
known (`Legal`) is what makes the third way possible, and gives `TypesKept`. The
peer cuts its histories to what a promise looks back to, and `CutKeeps` says that
no promise changes by it.

`EntitiesProofs` proves, for every size of groups, words and presence maps, every
entity and map of any length, every nesting, and every count and unit:

- `TypesHold`, `EntitiesAreExact`, `WordStaysClean`, `GroupBitsComeInOrder`,
  `RefusalsKeepPlace`, `TimesHold`: the properties of the run `entities`;
- `MapsAreSequences`: `Spec => Promise!Spec` for presence maps. `ReadPMAP` maps to
  `Open`, `PMAP.Next` to `Next`, the end of a method and an error to theirs.

The code loops over bytes and bits; the model folds, and the proofs are about folds
of any length over sequences of any length. `Everywhere` is induction in the form
the provers can use, with a set in place of a predicate: a set of numbers that has
0 and all successors is `Nat`. Powers of two are defined by recursion, which needs
induction to be unfolded at all; `FoldsTo` and what follows it do the same for
`FoldLeft`, once, for the three folds there are (digits of a number, places of
bits in a word, groups packed in a word).

`ReadSoFar` says what the accumulator holds within a loop: exactly the number of the
groups read so far, which is one that as many groups can say, or else a word (`Within`).
The check at the limit is then right in both readers: comparing with a shifted
maximum and shifting back lose bits exactly for what no word holds (`Loses`).
`BitsSoFar` compares the cursor with the number of the whole entity: a
bit of a group is a digit of that number (`BitsAreDigits`), so an or of shifted
bits is a slice of its digits. `TimesSoFar` is the property with its types: two words
are turned one after the other, the product and then the seconds since the year 1,
which is one turn of the sum (`UnixSeconds`).
`MapSoFar` says that every open map fits (`MapFits`): its word is clean, and what has
spilled and is not yet loaded lies in its segment's buffer, whose owner it alone is.
`View` is what such a map will still return, the bits of the word and then those
in the buffer, and the refinement maps each open map to it: a read takes its
first bit, also when it is the one that refills the word (`NextBitIsRead`);
opening a map writes to a buffer of no open map, so the views of the others stay
(`OpenIsOpened`); `LeaveIsClose` and `CutShortIsAbandoned` are the ways out.

`GeneratorProofs` proves, for every number of templates, of any nesting and length,
with any instructions the parser can make, and for any names:

- `SourceIsClosed`: whatever the generated methods refer to, a field, a flag, a slot,
  a buffer, another method or a type, is declared, and of the type it is used at;
- `MapsAreRight`: a nested method reads a presence map exactly if one of its
  statements takes a bit, where the operators are ones its types have;
- `WholeOrNothing`: code is written for all templates, in order, or for none.

They are theorems about the generator after any parser, and what they take from
the parser is stated with them: `GeneratorSpec(Trees)` lets it do anything to the
templates until it is done, as long as their bodies are sequences over `Trees` and
the generator is left alone (`ParserStep`), and `Trees` is a set of instructions
with those nested in them, each of which `IsInstruction` (`Closed`): a width only
on integers, operators of parts only on decimals and in place of one operator, the
length of a sequence a `uInt32`. That is what `resolveField` and
`buildLengthField` make sure of; that they do is `TypeOK` in the run `fastgen`.
A set that is closed takes the place of an induction over trees: what is nested in
a tree of the set is over the set again, and that is all a pass looks at.

Per instruction the two passes agree. `StepDeclared` says that what a statement
refers to is declared by the struct's fields for that instruction, by its own slots
and buffers, or is the nested method; it needs that `goType` was not refused for
the field, and for a bit group that a positive width excludes the types on which
`goType` and the text disagree. `StepBit` says that it takes a bit exactly if
`segmentNeedsPMAP` counts on it. What is left is that both passes come to every
segment, under the same name, and that is not inductive, since the nested ones are
missing while a call runs. `IInv` (`GeneratorInvariant`) says what is
owed, and by whom: an instruction
that a call of the first pass has passed has its struct, or is the one for which the
call above it runs (`PassedInv`); a method that is called is there, or a call on
the stack has still to come to it (`CalleesInv`). A struct is rendered with all
those nested in it (`StructIsRight`), so the second pass finds a struct for every
method, and when the stack is empty nothing is owed (`BlockClosed`). The blocks
that are done stay right because enum types are only added (`MoreTypes`).

Assumed are the relation of the widths (`WidthAssumption`), the types of the
constants (`BoundAssumption`, `DecimalAssumption`, `BytesAssumption`,
`RouterAssumption`, `FeedAssumption`, `WordsAssumption`, and `PartsAssumption` of the four parts of
`Entities`) and that the templates are what
the parser can return (`TemplatesAssumption`: instructions of the three kinds with
any operator, tails included, naming segments that exist; `RouterAssumption`: finitely many of them). TLC evaluates all of them in the runs.

Model-checked only: liveness (`CallsReturn`), and of the run `fastgen` what is about
the parser: `BodiesAreUnfolded`, `CyclesAreRefused`, `TypesComeFromTheirFile` and
`TypeOK`. `TemplateSyntax`, `TemplateParser` and `Fastgen` build and expand trees by
recursion, and what a recursive definition makes of every tree takes an induction
that the provers cannot do.

## Not modelled

- Text, which literals parse and to what (among them `parseDecimal`), units, imports, gofmt and file handling
  of the generator; what `encoding/xml` makes of a document, and malformed ones. They
  are string processing without state.
- The attributes that nothing reads after parsing (namespaces, dictionary, key,
  ids of fields), and the calls that only report (`BitsConsumed`, `Buffer`, `Pos`).
- Decimals, strings and bit groups as steps of `Router`: what they add to it is
  what `FieldStep` does for an integer, and their own modules have the rest. A
  decoder that is called without a Router, for the same reason.
- The vector harness and the generated examples: test support, and instances of
  the generator's templates.

## Plan

In this order, the most important first; what is done is described above.

1. Done: the wire, the integer operators and their slot, `Templates` and `Router`,
   with their theorems.
2. Done: the bytes below them (`EntityReader`, `PresenceMap`, `BitGroup`,
   `Timestamps`), and the operators beside them (`DecimalField`, `BytesField`).
3. Done: the generator (`TemplateSyntax`, `TemplateParser`, `GeneratedCode`,
   `Generator`, `Fastgen`), and the feed (`FeedSession`).
4. Done: the theorems about `DecimalField` and `FeedSession`, on the lemmas of
   `PromiseProofs`, and those about `BytesField`.
5. Done: that messages are of their call (`NothingOldIsShown`).
6. Done: that the work of a call is bounded (`WorkHasABound`).
7. Done: the theorems about the bytes and bits below the operators (`EntitiesProofs`).
8. Done: the theorems about the generator, for all templates (`GeneratorProofs`).
