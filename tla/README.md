# A verification project for libbej

libbej converts between Redfish resources and BEJ (Binary Encoded JSON, DMTF
DSP0218). This directory holds TLA+ models of its decoder and its encoder, TLC
configurations that check them on small instances, and TLAPS proofs of the main
properties of both for every instance.

Paths below are relative to the repository; `tlc -config X.cfg M` checks the
module `M` of a run, `tlapm M.tla` the proofs of a module.

## The system

libbej is a library. It starts no thread and keeps no global state; every entry
point is one call on the caller's thread, with the caller's callbacks. What is
hard about it is not concurrency but that neither direction is recursive: nested
data is walked with an explicit stack that the caller owns, and everything a
recursive function would keep in its frames is saved and restored by hand.

| part | code | state it keeps | operations |
|------|------|----------------|------------|
| dictionary lookup | `src/bej_dictionary.c` | none | lookup by sequence number, by name |
| decoder core | `src/bej_decoder_core.c` | locals of one call, the caller's stack | `bejDecodePldmBlock`, `bejDecodePldmBlockWithPolicy` |
| JSON decoder | `src/bej_decoder_json.cpp` | `output`, `stack`, `isPrevAnnotated`, policy | `decode`, `getOutput`, `setTrailingDataPolicy` |
| resource tree | `src/bej_tree.c` | nodes, linked; the caller owns them | init, add, link, set, update flags, go to next child |
| encoder metadata | `src/bej_encoder_metadata.c` | sizes, sequence numbers and cursors in the nodes | `bejUpdateNodeMetadata` |
| encoder core | `src/bej_encoder_core.c` | the nodes' cursors, the caller's stack | `bejEncode` |
| JSON encoder | `src/bej_encoder_json.cpp` | `encodedPayload`, `stack` | `encode`, `getOutput` |
| numbers | `src/bej_common.c` | none | nnint and integer conversions |

How they interact:

- `BejDecoderJson::decode` calls the decoder core, which reads the two
  dictionaries and calls back: a callback per value and per start and end of a
  section, and four callbacks for the stack. The JSON decoder's callbacks append
  to one string and share one flag with each other.
- A caller links a tree, then `BejEncoderJson::encode` calls `bejEncode`, which
  walks the tree twice. The first walk writes metadata *into the caller's
  nodes*; the second reads it and hands bytes to `recvOutput`. Both use the same
  stack and the same cursors in the nodes.
- Both objects are used for one resource after another, and so are nodes.

What makes each part correct, and where it is hard to test:

- *Decoder core.* A stream is bytes of any origin. Ends of sections are compared
  for equality with the current offset, the end of a tuple only with the end of
  the payload, and lengths are 32-bit numbers. Must hold: what is accepted is
  nested; the name flag and the two dictionary offsets are always those of the
  innermost section, however many sections end on one byte; the decoder always
  moves forward and always returns; the limit on operations refuses no short
  stream; a callback's failure is the call's failure.
- *JSON decoder.* Text is written by callbacks before it is known what follows.
  Must hold: brackets match the decoder's stack at every step, what is written
  is the beginning of a JSON text, and all of one on success, also after a
  decode that failed half way.
- *Dictionary.* A lookup starts where the family of the property starts and must
  return the first match, and never an entry outside of the table.
- *Encoder.* Every length is computed before its value is written, in another
  walk, and a length takes more bytes itself from 256 on. Must hold: each length
  is the number of bytes that follow, the first fault is reported and nothing
  written, and both are independent of what earlier calls left in the nodes.
- *JSON encoder.* Must hold: what a call returns depends on its tree alone.
- *Numbers.* Leading bytes and trailing zeros are left out, and put back by the
  reader. Must hold: a number is read as what was written, and takes exactly the
  bytes that were computed for it beforehand.
- *Both directions together.* The encoder finds properties by name, the decoder
  by number, each with offsets into two dictionaries of its own. Must hold: what
  is encoded is decoded.

## Modules

| module | models | extends |
|--------|--------|---------|
| `BejDictionary` | what both lookups return | |
| `BejLookup` | the loop of both lookups, with its index and its 16-bit offset | `BejDictionary` |
| `BejDecoder` | one call of the decoder core | `BejDictionary` |
| `BejNesting` | what the decoder promises of its sections, without tuples or offsets; `BejDecoder` implements it | |
| `BejDecoderJson` | a `BejDecoderJson` that decodes block after block | `BejDecoder` |
| `BejNumbers` | nnint and integer conversions, over bytes of any width | |
| `BejNumberRoundTrip` | one number, real or whole: measured, written, read, printed | `BejNumbers` |
| `BejTree` | nodes and the operations that link them | `BejDictionary` |
| `BejEncoding` | what is derived from one node: place in the dictionaries, sizes, calls of `recvOutput` | `BejTree`, instance of `BejNumbers` |
| `BejEncoder` | one call of `bejEncode`, both walks | `BejEncoding` |
| `BejReference` | the encoding of a tree, and the status of one that has none, by recursion over its links | `BejEncoding` |
| `BejEncoderProperties` | which trees are well built, and what one call promises of them, against the reference | `BejEncoder`, `BejReference` |
| `BejEncoderJson` | a `BejEncoderJson` that encodes tree after tree | `BejEncoder` |
| `BejEncoderJsonProperties` | what each of its calls promises, against the reference | `BejEncoderJson`, `BejEncoderProperties` |
| `BejRoundTrip` | a tree built, encoded, and decoded | `BejEncoderProperties`, instance of `BejDecoder` |
| `BejInduction` | proofs only: induction over the naturals and along links, recursive functions, folds over sequences | |
| `BejDictionaryProofs` | proofs about `BejDictionary` and `BejLookup` | |
| `BejEncoderProofs` | proofs about `BejEncoder`, `BejReference` and `BejEncoderProperties` | |
| `BejEncoderJsonProofs` | proofs about `BejEncoderJson` and its properties | |
| `BejDecoderProofs`, `BejDecoderJsonProofs`, `BejNumbersProofs`, `BejRoundTripProofs` | proofs about the modules they are named after | |
| `MCBej*` | small instances | |

### The decoder

`BejDecoder` has the caller's arguments (`block`), the stream, the locals of
`bejDecode` under their own names, and the stack. `pc` says which function is
running:

| `pc` | code | actions |
|------|------|---------|
| `block` | `bejDecodePldmBlockWithPolicy` up to `bejDecode` | `bejDecodePldmBlockWithPolicy` |
| `root` | the first read of the root tuple, which delimits the payload | `ReadRoot` |
| `loop` | head of the loop: limit, read of a tuple, end | `ExceedMaxOperations`, `ReadTuple`, `LeaveLoop` |
| `handle` | the `bejHandle...` of the tuple's type | `bejHandleBejSet`, `bejHandleBejArray`, `bejHandleBejPropertyAnnotation`, `bejHandleBejNull`, `bejHandleBejEnum`, `bejHandleBejResourceLink`, `bejHandleScalar` |
| `ending`, `emptyEnding`, `finalEnding` | turns of the loop of `bejProcessEnding`, for its three kinds of caller | `EndSection`, `EndProperty`, `EndStream` |

One handler is one action, with all callbacks it makes (`calls` lists them, in
order); any callback in `FailingCallbacks` may return non-zero at any call, and
what has happened before it stays. The loop of `bejProcessEnding` is one action
per turn because a callback may fail in each. `emptyEnding` differs from
`ending` in that the caller ignores the result (lines 410 and 475).

A stream is not a string of bytes but a choice of tuples: which tuple is at an
offset is chosen when the offset is first read, and kept. A tuple carries what
the decoder looks at: the sizes of its header and of the nnint its value starts
with, its declared length, dictionary, sequence number, type and number.
Since no byte belongs to two tuples that are read, every choice is a stream
that exists. Lengths and offsets are `uint32_t` modulo the constant `U32`.

`BejDecoderJson` adds the text written, as pieces (`{`, `,`, a whole name, the
two halves of an annotated name, a value), and the flag. `decode` resets what
the code resets. `setTrailingDataPolicy` is the policy of the next block.
`Json` is an automaton that says whether pieces are the beginning of a JSON
text.

`BejNesting` is the abstract specification: an offset, the ends of the sections
it is in, and a verdict. What is read lies behind what was read before and ends
within the innermost section; a section is left where it ends and nowhere else;
zero is returned outside of all sections. If something ends outside of its
section the reader is lost, and must refuse in the end. `Nesting` in
`BejDecoder` is the refinement mapping and `ImplementsNesting` the property. An
invariant cannot say what it says of steps: that sections are left one by one,
innermost first, and none in passing.

### The encoder

A tree is a function from nodes to records with the links the code has, and the
trees of the runs are built with the calls of `src/bej_tree.c`. In `BejEncoder`,
`pc` is `call`, `metadata` (first walk), `header`, `root`, `encode` (second
walk), `done`. One action is one turn of a walk: one leaf, one parent entered, or
one parent left. `meta` holds `metaData` and the cursors; its first value is
arbitrary (`Garbage`), as the code initialises none of it when a node is built.
`output` is the list of calls of `recvOutput`, each with its kind, its size in
bytes and, for an nnint, what it says; the text of strings and the digits of
numbers are left out. `StackMayFail` and `OutputErrors` say which callbacks may
fail.

`BejReference` says what the output ought to be without sizes computed ahead,
stack or cursors: a value is written first, measured, and its length put in
front. It is a recursive function of *places* (a node, the dictionary of its
parent, its index, the offset its parent's children are looked up from) that
follows the links: first what is inside of a node, then what is behind it. It shares with the encoder the operators for one node (`EncodeSFL`,
`EncodeValue`, the lookup), so it tests the two walks and the sizes computed for
them, not the layout of a single tuple. That layout is what the round trip tests.

### Numbers

`BejNumbers` has the conversions of `src/bej_common.c`, the encoder's and the
decoder's, as operators on sequences of bytes. The values of a byte and the
bytes of a `uint64_t` are constants: `BejEncoding` takes its sizes from an
instance with 256 and 8, and `BejNumberRoundTrip` runs with bytes small enough
to go through every number. Their proofs are for every width. A real is a sign, a whole part and a decimal
fraction; `bejUpdateRealMetaData` takes it apart as the code does, the rounded
limit (`(double)INT64_MAX` is `INT64_MAX + 1`) and the undefined conversion of
numbers below `INT64_MIN` included (`Wholes`), and `callbackReal` puts it
together. How a binary double differs from the decimal its caller wrote is left
out.

### The round trip

`BejRoundTrip` composes both directions in one behaviour. In phase `build` a
caller calls the operations of `bej_tree.c` in any order: `InitNode` makes a set,
an array or an annotation, `LinkNode` puts a branch built earlier, however large,
below another node, `AddLeaf` makes a leaf and links it, as `bejTreeAdd...` do. So
a caller may go back to a parent it has left, work on several by turns, or link
children into a parent that is not linked itself, as the repository's tests do. It
initialises a node once, links it once and never below itself, and it may link
what the schema has room for. `places` says what each node is and whose child.
The tree is encoded when no node is left over and no annotation is empty
(`Complete`). In phase `encode` the steps are those of
`BejEncoder`, which the module extends. `DeliverBlock` turns the calls of
`recvOutput` into what the decoder reads: at the byte offset of every tuple, the
tuple that was written there, its nnints included. In phase `decode` the steps
are those of `BejDecoder`, an instance with variables of its own for what both
machines have, and `walk` collects what its callbacks are told. The decoder may
read from any offset, so nothing but the bytes connects the two. Which trees are
built is up to the schema (`Contents`, what can be in what): the types of the entries of the dictionaries, of which
`SchemaAssumption` asks that an entry for a set, an array or an enum has
children, and that the resource is a set.

### The lookups

`BejDictionary` says which entry a lookup ends at, as positions in a table, and
the encoder and the decoder are modelled with that. The code keeps two numbers
that ought to agree: `index`, which is compared with the number of entries, and
`propertyOffset`, with which an entry is read. `BejLookup` has both, as the code
does, and an entry is what is at the offset: behind the end of the table, or at
an offset that is none of an entry, it is anything (`Elsewhere`).
`LookupIsFirstMatch` says that the loop returns what `BejDictionary` says. Numbers
and lookups share no state; `MCBejPrimitives` puts both in one run, in which a
behaviour is one number or one lookup.

## What the runs check

Every passing run checks a property that a plausible bug of the code breaks:
for each property a mutant of a definition (written next to it and marked
`Bug:`) is named in `PROJECT.json`, with which TLC finds the property violated.

| run | question | result |
|-----|----------|--------|
| `nest` | any stream over 25 tuples, every callback may fail at any call: is what is accepted nested, is there one root, are names and dictionary offsets those of the innermost section, does every tuple move forward, is every step one of `BejNesting` | holds |
| `limit` | streams of the smallest tuples, and streams so long that the size of a count wraps: does the limit refuse only long streams, does every call return | holds |
| `ignored` | does a failed callback fail the call | violated, finding 1 |
| `session` | one JSON decoder, block after block: is the output the beginning of a JSON text, all of one on success, with brackets that follow the stack | holds |
| `unknown` | is the output JSON whenever `decode` returns zero | violated, finding 2 |
| `encode` | any arguments, stack and `recvOutput` may fail at any call: is the output the encoding of its tree, or its beginning, is the status that of the first faulty node, does the call return | holds |
| `objects` | one JSON encoder, tree after tree in the same nodes: does a call that begins with an empty stack add exactly the encoding, does a failed one add nothing | holds |
| `stale` | does the same object always encode correctly again | violated, finding 3 |
| `roundtrip` | any tree of up to five nodes the schema describes: is what is decoded what was encoded, does the decoder read only from where a tuple was written, is the tree well built at every step | holds |
| `families` | the same question for a schema with two arrays of sets | violated, finding 4 |
| `primitives` | every number of four small bytes, and reals at every limit: is it read as what was written, in exactly the bytes measured; any table of up to seven entries, from any offset: does the loop of a lookup find the first entry that matches, or none, although its offset wraps | holds |
| `sign` | is a negative real decoded as one | violated, finding 5 |

### Bounds, and why they are enough

*Decoder.* `U32 = 64` in place of 2^32: streams of up to 26 bytes stay well below
it, and lengths of 60 (`nest`) go past it, so both sides of every check of
overflow are reached. Headers are five bytes (one each of S, F and L with their
nnint lengths), or three, the smallest. Lengths of sections are chosen so that a
section holds none, one or two tuples exactly, or ends inside of a tuple, or
coincides with the end of the section around it; depth reaches four.
`MaxOperations` is 8 where the limit should not interfere and 3 in `limit`,
where streams go from shorter than three bytes per operation to longer. `U32` is
24 there, and a count may take 12 bytes in a stream of 12 or 13, so that offset
plus size passes 24 and comes back into the stream: that a decoder may go
backwards is real there, and only the limit on operations ends it. Two
dictionaries of nine and four entries have a set, an array of sets, an enum, and
an annotation with a child.

*JSON decoder.* The number of `decode` calls is not bounded: after a call the
object is in one of finitely many states. Strings and reals may be refused
(unterminated, too many zeros), no other callback fails, as in the code. The
tuples include ones that make a stream not `conforming` (a sequence number that
is not in the dictionary, an annotation of nothing), so that conforming streams
are a part of what is explored and not all of it.

*Lookup.* With `OffsetRange = 64` six entries have offsets, the last of them 62,
so that the offset behind it wraps to 8; a table of seven has an entry without
one. There are two kinds of entry, one whose name cannot be read, and a number
and a name that neither has; all tables of the two, all keys and all starting
offsets are gone through. What bytes that are no entry look like is chosen from
two entries, one with a key of the table and one with none.

*Encoder.* Trees have up to nine nodes and every type of node. A string of 1 and
of 193 to 256 bytes is nested in a set in an array in a set, so the lengths of
the string and of all three parents cross 255, each for another length of the
string. `Annotated` has an annotation inside of an annotation whose name is
found only among the top-level ones, which sets a flag in the first walk that
the second must write. A tree of `FaultyTrees` has two faults with different
statuses at two of three places, in a set, in an element of an array and in the
root behind both: every pair of statuses in both orders, so that a fault
passed over shows in the status. A fault is a real too large (`Unknown`), an enum
without options (`InvalidPropertyOffset`), or an option, a leaf or a set that is
not described (`UnknownProperty`), that set with a fault of another status inside.
In three more trees the root is what is wrong, or not of the usual type. Two kinds of garbage
are in the metadata, one with cursors into the tree. Each piece handed to
`recvOutput` may be refused, with a status that a `uint8_t` holds and with one
that it takes for zero (`Truncated`; the rest of the same real may then be refused
as well, `Interrupted`), and the starting offsets passed are at an entry, not at
one, and zero. `IndexRange = 2`, so that the third element of an array has the
index of the first. `objects` allows three calls (`MaxEncodes`): one that fails, one
that is affected, one to recover, over two roots in the same nodes, a tree
rebuilt in another order, and values set to ones that can and cannot be encoded.

*Round trip.* Five nodes are the fewest with which an annotated set inside of an
annotation, two elements of an array of sets, and a set behind a set occur, and
enough for two parents to be filled by turns and then linked to the root in either
order. The nodes other than the root are interchangeable (`SYMMETRY`): they differ
only in the order a caller takes them in, and nothing chooses among them. A
string has 300 bytes, so that the trees with one have lengths of three bytes and
those without have lengths of two. `IndexRange = 2`: the third element of an
array has the index of the first. The schema has a set, an array of sets, an
enum, an array of enums, every scalar type, numbers in another order than the
entries, a top-level annotation with a value and one with a set. Arrays directly
inside of arrays, an annotation with more than one value and annotations of the
properties of an annotation are not built; the first the decoder does not read
(see below), the others are left out to keep the trees few.

*Numbers.* `Byte = 8` and `IntBytes = 4`: 4096 unsigned and as many signed
numbers are gone through one by one, and the sign bit of every byte, the padding
byte and the highest bit of the word all occur. Reals have four decimals of
which three (`BEJ_REAL_PRECISION`) are encoded, all ten thousand fractions, and
whole parts around the limits of one byte, two bytes and the word. `MaxZeros` is
the precision, as in the code 100 is more than the precision can give. That the
widths are small costs nothing: the theorems about numbers hold for 256 and 8.

### Fairness

The only fairness assumed is `WF_vars(Next)`: both the decoder and the encoder
are calls on the caller's thread, and a thread that can run does. Callbacks are
assumed to return. Nothing is assumed about which choice is taken. A state that
has returned has no next step in `BejDecoder` and `BejEncoder` and deadlock is
not checked there; it is checked in `BejDecoderJson`, which goes on to the next
call, and not in `BejEncoderJson`, where the calls are bounded.

## What is proved

All theorems are for all values of the constants that meet the assumptions of
the modules: all dictionaries, blocks, tuples, trees, garbage and failing
callbacks.

| module | theorem | property | further assumption |
|--------|---------|----------|--------------------|
| `BejDictionaryProofs` | `LookupIsFirstMatchHolds` | `LookupIsFirstMatch` | |
| `BejDecoderProofs` | `TypeCorrect` | `TypeOK` | |
| | `NamesOnlyInSetsHolds` | `NamesOnlyInSets` | |
| | `ContextIsInnermostHolds` | `ContextIsInnermost` | |
| | `InvariantHolds` | `IInv`, the inductive invariant | `StreamsFit` |
| | `AcceptedIsNestedHolds` | `AcceptedIsNested` | `StreamsFit` |
| | `SingleRootHolds` | `SingleRoot` | `StreamsFit` |
| | `LimitOnlyForLongStreamsHolds` | `LimitOnlyForLongStreams` | `StreamsFit` |
| | `ProgressHolds` | `Progress` | `StreamsFit` |
| | `ImplementsNestingHolds` | `ImplementsNesting` | `StreamsFit` |
| `BejDecoderJsonProofs` | `JsonInvHolds` | `JsonInv`, the inductive invariant | `StreamsFit` |
| | `JsonTypeCorrect` | `JsonTypeOK` | `StreamsFit` |
| | `OutputIsJsonPrefixHolds` | `OutputIsJsonPrefix` | `StreamsFit` |
| | `BracketsFollowStackHolds` | `BracketsFollowStack` | `StreamsFit` |
| | `AcceptedIsJsonHolds` | `AcceptedIsJson` | `StreamsFit` |
| `BejNumbersProofs` | `NumberInvHolds` | `NumberInv`, the inductive invariant | |
| | `TypeCorrect` | `TypeOK` | |
| | `SizeIsExactHolds` | `SizeIsExact` | |
| | `IntegersSurviveHolds` | `IntegersSurvive` | |
| | `RealsSurviveHolds` | `RealsSurvive` | |
| `BejEncoderProofs` | `TypeCorrect` | `TypeOK` | |
| | `EncodeInvHolds` | `EncodeInv`, the inductive invariant | well-built trees |
| | `EncodingIsExactHolds` | `EncodingIsExact` | well-built trees |
| | `FirstErrorIsReturnedHolds` | `FirstErrorIsReturned` | well-built trees |
| | `OutputIsPrefixHolds` | `OutputIsPrefix` | well-built trees |
| `BejEncoderJsonProofs` | `FailureWritesNothingHolds` | `FailureWritesNothing` | `NothingFails` |
| | `CleanEncodeIsExactHolds` | `CleanEncodeIsExact` | well-built trees, `NothingFails` |
| `BejRoundTripProofs` | `RoundTripInvHolds` | `RoundTripInv`, the inductive invariant | |
| | `TreeIsWellBuiltHolds` | `TreeIsWellBuilt` | |
| | `ReadsWhatWasWrittenHolds` | `ReadsWhatWasWritten` | |

`StreamsFit` says that a block is at least 255 bytes shorter than 2^32: then the
size of a count (`bejGetNnintSize`, at most 255) cannot take an offset past the
largest `uint32_t`. The code does not check that sum, and the streams of `limit`
with counts of 12 bytes show that such counts take the decoder backwards, so that
without the assumption only termination is left. (`nest` has counts of two
bytes, for which `Progress` holds also in its small `U32`.) `NothingFails` says
that neither the stack nor `recvOutput` fails, which is so for the callbacks of
`BejEncoderJson`.

*Well-built trees* are those of `WellBuilt`, and that the caller's trees are such
is `TreesAssumption`, which TLC evaluates on every tree of `encode` and `objects`:
no node is linked from two places or below or behind itself (`LinkedOnce`,
`NoCycle`); `nChildren` is the length of the list of children
(`ChildrenCounted`); and the size of an integer is one that `bejIntLengthOfValue`
can return (`IntegersFit`, and `ValuesAssumption` for what a caller sets later).
The encoder relies on each of these: a node keeps one cursor and one size, so it
can be in one place only; the number of children that is written is `nChildren`,
what is written behind it is the list. Nothing is assumed of what the nodes'
metadata, cursors or flags hold, nor of how many children a node has: the element
behind the last that a `uint16_t` can count is written with the number 0, and the
reference says so too.

In the round trip nothing is assumed of the tree. The caller initialises and links
its nodes with the operations of `src/bej_tree.c` in any order, each node once and
none below itself, and `TreeIsWellBuiltHolds` says that this builds no others:
`TreesAssumption` is what the operations give a caller that keeps to these three
rules, and the code leaves it to the caller to keep to them.

*The decoder.* A handler is long, but what it does to the control state is one of
four kinds of step: it returns an error; it consumes a value; it enters a
section; it closes a section without elements. `HandlerSteps` reduces all seven
handlers to these four, and every invariant is then shown for four steps and not
seven handlers. `TypeCorrect` needs one fact beyond the types: in `handle`, the
tuple is one that `bejInitSFLVStruct` has accepted at this offset (`TupleInv`),
which is why no offset becomes negative.

`NamesOnlyInSets` is not inductive: leaving a section restores a flag from the
stack. `NamesInv` adds that each entry of the stack holds the flag that was right
outside of its section. `ContextIsInnermost` is not inductive for the same
reason: `ContextInv` says of each entry that the two dictionary offsets it keeps
are those of the sections below it, so that leaving any number of sections in one
loop ends with the right ones.

`AcceptedIsNested` is the reason for most of `IInv`. A tuple that overruns its
section is not refused, so the invariant has to say what its stack is then:
`Doomed`. The entry it overran ends before the current offset, offsets only
grow, an entry is popped only at equality, and hence that entry is never popped;
since the call returns zero only when the stack is empty, it does not. That
offsets only grow is `Progress`, which is why the whole group shares the
assumption. `IInv` also relates the number of operations to the offset (at least
three bytes each), from which `LimitOnlyForLongStreams` follows, and the bottom
of the stack to the payload, from which `SingleRoot` follows. The refinement uses
`IInv` for the one thing the abstract specification asks beyond equality: that
the stack is empty when zero is returned.

*The encoder.* `TypeCorrect` is the claim that two walks over pointers with a
cursor in each node never leave the caller's nodes, whatever garbage the cursors
hold before: a cursor is `NULL` or a node, only a node is pushed, and a node is
only looked at below a cursor that is not `NULL`. It also bounds the fields of 16
bits, which is where the lemma `LookupByNameReturnsFirst` comes in: what a lookup returns
is an entry of the table. `FailureWritesNothing` follows from `WrittenInv`:
nothing is written before the first walk has ended, and from the header on
nothing can fail; this does not depend on what an earlier call has left on the
stack.

*The encoder against the reference.* `EncodingIsExact` compares an iteration with
a recursion, so the invariant has to say at every turn which part of the recursion
is done. `FamilyExists` gives the set of places below the root: since a node is in
one place, a node of the tree and its place determine each other
(`PlacesUnique`), and a height that falls along every link bounds the recursion.
`Walking` says that the stack is a path of such places and that the cursor in each
node of it stands at one of the node's children or behind the last, whatever the
cursors hold that are not on the stack: entering a parent sets its cursor in both
walks, and forgetting that in the second is the mutant of `EncodingIsExact`. What
is left to do is then what is inside and behind of each cursor, from the top of
the stack to its bottom. `IsChain` says so for any function that is composed along
the stack, and `ChainNext` what becomes of it when the parent on top goes on, has
a child pushed above it, or is popped; it is used once for the statuses
(`StatusLeft`, first walk) and once for the pieces (`TuplesLeft`, second walk).

In the first walk, `FirstWalk` adds for every parent on the stack that its
`vSize` is the size of the reference's value up to its cursor (`Counted`), and for
every node the walk has left that its metadata is what `bejEncodeNode` needs to
write the reference's tuple (`Ready`, `Covered`). The lemma behind both is that
sizes add up: `Measure` is a fold, `Sums` splits it along a tuple, and `HeadSizes`
says for each type that the size computed ahead is that of what is written, for
which an nnint has to take the bytes `bejNnintEncodingSizeOfUInt` returns for it.
The second walk uses only that all nodes are `Ready`, and `Emits`: what was
written, with what is left, is the whole, but for integers whose loss nobody
noticed. The first walk may set the flag of a node in an annotation
(`bejTreeUpdateNodeFlags`); the invariant therefore speaks of the tree the caller
built, of which the nodes at any time are a copy with more flags (`Reflagged`), and
`SamePromise` shows that this changes neither the verdict nor the encoding.

`CleanEncodeIsExact` is the same invariant with what had been written before in
front (`CallInv` has it as a parameter) and with a new tree at each call. The
nodes' metadata at the start of a call is of any value there, so nothing about
earlier calls has to be known but that the stack is empty; when it is not, finding
3 shows what happens.

*Induction.* The induction theorems of the library take an operator as a
parameter, which the provers cannot instantiate. `BejInduction` proves induction
again for *sets* of naturals, from the well-foundedness of strict inclusion on
finite sets, and from it that a recursive function exists and obeys its equation
(`Recursion`) and that a fold over a sequence with one more element is one more
step of the fold (`FoldAppend`). `LinkInduction` and `LinkRecursion` are the same
for a recursion along links that end: that the reference's functions exist and
obey their equations is not taken for granted. These are what the text of the JSON
decoder, the brackets of its stack, the sums over bytes and the encodings of trees
are reasoned about with.

*The JSON decoder.* The automaton of JSON is a fold over the output, so every
callback is one or two steps of it. `OutputIsJsonPrefix` and `AcceptedIsJson` are
far from inductive: that a `}` may be written needs that the innermost thing open
is an object and that no name waits for its value. `ConformingInv` says it for
each place of the code: `Pending` what may come next between two tuples, which
depends on the section on top of the decoder's stack, on whether that section
ends here and on `isPrevAnnotated`; `Settled` that after a value the automaton is
either at its end or between two members. `AnnotationsInSets` is needed because an
annotation has no bracket of its own: when its one property has been written the
section that goes on is the set below. The proof uses from the decoder's `IInv`
that a section is never left where it does not end, hence `StreamsFit`. Which
callbacks can fail matters: `JsonCallbacksAssumption` says that only those for
strings and reals return anything but zero, as in the code, and `OutputInv` that
such a failure ends the decode; a bracket callback that failed inside of an empty
set would be ignored (finding 1) and the text would go on after it.

*Numbers.* `ReadNnint` and `ReadInt` in the proofs say that what is written is
read, for a byte with any even number of values and a word of any number of bytes
that a byte can count. Both rest on `ReadBytes`: the loop that adds up shifted
bytes returns the number modulo the power of the bytes read, shown by induction
on the bytes, with `DivProduct` (dividing twice is dividing by the product) as
the step. `IntegerLength` is the claim that `bejIntLengthOfValue` is never too
short and never too long for a signed number: the index the loop of the code ends
at is the least one from which all bytes are sign bytes, and the sign bit of the
byte below decides on one more. For reals, `FractionPrinted` shows that zeros
counted, digits measured and the limit of the precision put the same digits back.
`NumberInv` connects the four steps: what `measure` computed is what `encode`
writes and `decode` finds. The proof required an assumption stronger than the one
the runs had been given: an nnint of `IntBytes` bytes takes `IntBytes + 1`, and
that sum is a `uint8_t` (`bejGetNnintSize`), which must not wrap
(`WidthAssumption`; 9 < 256 in the code). The
assumptions on digits are `BEJ_REAL_PRECISION <= MaxZeros` (16 and 100 in the
code) and that a caller's fraction has at least the digits that are encoded.

*The lookups.* Two numbers run through a table, and only one is compared with its
end. `LookupInv` says that the offset is that of the entry at the index as long as
that entry has an offset, and that none of the entries with an offset before the
index matches. Behind the last of them the sum wraps and turns may follow that read
anything; the invariant says nothing of those, and the property does not need it: if
the entry to be found has an offset the loop has ended there, and if the table is
what has to be gone through its last entry has one.

*Building a tree.* `WellBuilt` alone is not inductive: that `lastChild` is the last
child and that a node to be linked is in no list yet are not in it. `Listed` says it,
with the parent of every node initialised so far, or `NULL` (`owner`), which the tree
itself does not hold: links stay within those nodes, everything in a list of children
has the list's owner, the last child is the only one without a sibling. `Added` is
what linking changes, and `AddedLinks` and `AddedWellBuilt` show that it keeps both.
A node that is linked may have a whole branch below it, so that no cycle arises
is not a matter of its being new: `Branch` is the set of what is below it, the
parent is outside, and the new links leave it in one place (`AddedNoCycle`).
Initialising a node makes a tree of its own (`FreshListed`, `FreshWellBuilt`).
The count is the delicate part: `SiblingCount` is a recursion over a
list that has just become longer at its far end.

*The round trip.* The encoder's theorem says that the output is the encoding of the
tree. `ReadsWhatWasWritten` needs the same output read from the front, by lengths.
`Reads` says of a tuple in a list of pieces that it has its pieces around it
(`Framed`) and that its value ends, and what is inside of it begins, at a boundary:
the start of a tuple or the end of the list (`Followed`). This holds of two lists
joined if it holds of each (`ReadableJoined`: offsets move, and a boundary at the end of the
first is one at the start of the second), and of a tuple around a list
(`TupleReadable`), hence of the encoding of a tree (`TreeReadable`), along its
links. `StreamWritten` turns pieces into the stream that `DeliverBlock` delivers
(`ChainedStream`): each tuple in it ends at a tuple or at the end. Then the decoder
is followed on any such stream: `ReaderInv` says that its offset is at a tuple or
at the end, and `DecoderKeeps` that each handler moves it either to the end of
the value or to its inside, and `bejProcessEnding` not at all. The limit on
operations, callbacks that fail and the return of an error need no case of their
own, since they end the call.

*Model-checked only.* `Termination` of both machines (liveness under fairness), and
`RoundTrip`, which no theorem can state of all constants: there are dictionaries
of which it is false (finding 4). What would have to be assumed of a schema is that
no lookup leaves its family, and then a proof has to compare the walk of a decoder
with a recursion over the tree.
The invariants with which the encoder is proved exact quantify over all trees and
are not themselves evaluated by TLC; their consequences are, in `encode` and
`objects`.

## Where code and comments disagree

1. `ignored`: the result of `bejProcessEnding` after an empty set or array is
   dropped (`src/bej_decoder_core.c:410`, 475), so a callback that fails there
   does not fail the call, against the comment at line 24. The proofs show that
   what is accepted after that is still nested.
2. `unknown`: `bejGetPropName` does not look at the result of its lookup
   (line 265). A property that is not in the dictionary is written without a
   name, and `decode` returns zero. `SuccessIsJson` fails for two more kinds of
   stream that are not `conforming`: a root set that announces no elements and
   has tuples behind its count is followed by them as further roots (line 402),
   and an annotation without a value.
3. `stale`: a call of `BejEncoderJson::encode` that fails leaves its open parents
   on the object's stack. The next call pops them after its own root and adds
   the root's size to them, which changes lengths in the nodes it is about to
   write when they are the same nodes; it returns zero.
4. `families`: an element of an array has no name, and names inside of it are
   looked up from where the *array's* children start
   (`src/bej_encoder_metadata.c:119`) to the end of the table. With
   `A: [{X}], B: [{Y, X}]`, whose families stand one behind the other, the `X` of
   an element of `B` is found in the family of `A`; its number is the one `Y` has
   in `B`, and `Y` is what the decoder reports. Both sides return zero. The schema
   of `roundtrip` has one array of sets, and there the round trip holds.
5. `sign`: -0.5 is written with the whole part 0 (line 293) and read as 0.5.

Two more disagreements have no run of their own. `bejEncodeInteger` returns the
status of `recvOutput` as a `uint8_t` (`src/bej_encoder_core.c:52`), so 256 is
taken for success; `encode` has that status among those that may be returned,
and `OutputIsPrefix` says that bytes of integers are all that can be missing
then. And output that was not taken is still there after a later call that
fails, against the comment of `getOutput`
(`include/libbej/bej_encoder_json.hpp:81`); `before` in `BejEncoderJson` is that
output, and `FailureWritesNothing` says that nothing is added to it.

## What is not modelled

- How a double is rounded: a real is the decimal its caller wrote. An exponent is
  never written, and never read in the runs.
- What strings and names spell, and escapes in JSON.
- The bytes of a dictionary. A dictionary is a list of entries, names included,
  with a flag for an entry whose name fails `bejValidatePropertyNameLength`.
- Tables with more entries than a `uint16_t` has offsets, beyond what `BejLookup`
  says of them: there, what is returned for an entry behind the last offset is
  read from anywhere. The other modules assume lookups that end at an entry with
  an offset.
- In the round trip, arrays directly inside of arrays: `bejHandleBejArray` looks
  up the number of the tuple (`src/bej_decoder_core.c:447`), which is an index
  there, where `bejHandleBejSet` asks whether it is an element first. The models
  of both sides do what the code does.
- Nodes of other types than `src/bej_tree.c` makes. The encoder has a branch for
  them (`src/bej_encoder_metadata.c:468`, `src/bej_encoder_core.c:216`) that no
  caller of these operations reaches.
- Callers that link a node twice, or below itself: the code does not look for
  that, and a tree so built is none.
- Build files, logging, and the tests.

## Plan

Done, in this order: `BejDictionary`, `BejDecoder` with proofs, `BejDecoderJson`,
`BejTree`/`BejEncoding`/`BejEncoder` with `BejReference`, `BejEncoderJson`;
then `BejNesting` and its refinement, `BejNumbers`, `BejNumberRoundTrip`,
`BejRoundTrip`, and the proofs of the refinement, of the context and of the
encoder; then `BejInduction` and the proofs about JSON text and about numbers; then
`BejReference` by recursion along links and the proofs that the encoder does what
it defines; then `BejLookup`, and the proofs about the lookups' loop, about the
operations of `BejTree` in any order, and about the bytes between encoder and
decoder.

What could follow:

1. `RoundTrip` as a theorem, for schemas in which no name of a family is found in
   another.
2. Exponents of reals on the decoder's side.
