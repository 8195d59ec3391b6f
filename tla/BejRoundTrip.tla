---------------------------- MODULE BejRoundTrip ----------------------------
(***************************************************************************)
(* A resource from tree to tree: the caller builds a tree with the         *)
(* operations of src/bej_tree.c, bejEncode writes it, and the bytes it has *)
(* written are the block bejDecodePldmBlock reads. The tree is any tree of *)
(* the caller's nodes the dictionaries have room for.                      *)
(*                                                                         *)
(* The encoder looks properties up by name and writes numbers; the decoder *)
(* looks them up by number and reports names. Each keeps an offset into    *)
(* each dictionary of its own while it walks, and nothing but the order of *)
(* the tuples and their lengths connects the two.                          *)
(*                                                                         *)
(* The encoder is the module this one extends, the decoder an instance     *)
(* with variables of its own where both have one of the same name.         *)
(***************************************************************************)
EXTENDS BejEncoderProperties

CONSTANTS
    First,              \* the node the resource is built from
    StringBytes,        \* the bytes of the caller's strings
    MainTypes,          \* the types of the entries of MainDict, by position
    AnnoTypes,          \* and of AnnoDict
    Blocks,             \* of BejDecoder: the other arguments of the decoder
    Tuples, U32, MaxOperations, FailingCallbacks

VARIABLES
    phase,      \* "build", "encode" or "decode"
    places,     \* of each node initialised so far: the thing it is, and its
                \* parent, NULL until it is linked
    walk,       \* the callbacks the decoder has made
    decPc, decRet, block, stream, sflv, payloadLen, addPropertyName, \* of BejDecoder
    mainDictPropOffset, annoDictPropOffset, encodedStreamOffset, decStack,
    operationCount, calls, decFailed, path, overran

Decoder == INSTANCE BejDecoder WITH
    pc <- decPc, ret <- decRet, stack <- decStack, failed <- decFailed

decoderState ==
    <<addPropertyName, mainDictPropOffset, annoDictPropOffset, encodedStreamOffset>>
decoderVars ==
    <<decPc, decRet, block, stream, sflv, payloadLen, decoderState, decStack,
      operationCount, calls, decFailed, path, overran>>
roundTripVars == <<vars, phase, places, walk, decoderVars>>

ASSUME RoundTripAssumption == First \in Nodes /\ StringBytes \in Nat

\* What the decoder takes for granted of its arguments.
ASSUME BlocksAssumption ==
    /\ U32 \in Nat \ {0}
    /\ Blocks \subseteq Decoder!BlockType

-----------------------------------------------------------------------------
(* The trees the dictionaries describe. The entries a child pointer points  *)
(* to end where the next one points to.                                     *)

Position(offset) == bejGetPropertyEntryIndex(offset) + 1

FamilyStarts(dict) ==
    {Position(DictionaryOf(dict)[i].child) : i \in DOMAIN DictionaryOf(dict)}

EntriesFrom(dict, offset) ==
    {i \in Position(offset) .. Len(DictionaryOf(dict)) :
        \A j \in Position(offset) + 1 .. i : j \notin FamilyStarts(dict)}

TypesOf(dict) == IF dict = "Primary" THEN MainTypes ELSE AnnoTypes

TypeOfEntry(dict, i) == TypesOf(dict)[i]

\* Every entry has a type, and those that need children have them. The first
\* entry of the schema dictionary is the resource.
ASSUME SchemaAssumption ==
    /\ \A dict \in SchemaTypes :
          /\ TypesOf(dict) \in [DOMAIN DictionaryOf(dict) -> ParentTypes \cup LeafTypes]
          /\ \A i \in DOMAIN DictionaryOf(dict) :
                TypeOfEntry(dict, i) \in {"Set", "Array", "Enum"} =>
                    bejValidatePropertyOffset(DictionaryOf(dict), DictionaryOf(dict)[i].child)
    /\ Len(MainDict) > 0 /\ MainTypes[1] = "Set"

\* What entry i of a dictionary describes, under a name: its type, and where
\* its children are described. An enum has one of the options its entry has
\* children for.
Described(dict, i, name) ==
    LET entry == DictionaryOf(dict)[i]
        options == IF TypeOfEntry(dict, i) = "Enum"
                   THEN {DictionaryOf(dict)[o].name : o \in EntriesFrom(dict, entry.child)}
                   ELSE {""}
    IN  {[name |-> name, type |-> TypeOfEntry(dict, i), dict |-> dict,
          child |-> entry.child, option |-> option] : option \in options}

Properties(dict, offset) ==
    UNION {Described(dict, i, DictionaryOf(dict)[i].name) : i \in EntriesFrom(dict, offset)}

TopLevelAnnotations == Properties("Annotation", bejDictGetFirstAnnotatedPropertyOffset)

\* Annotations of the properties of a set.
PropertyAnnotations(offset) ==
    {[name |-> MainDict[i].name, type |-> "PropertyAnnotation",
      dict |-> "Annotation", child |-> bejDictGetFirstAnnotatedPropertyOffset,
      option |-> ""] : i \in EntriesFrom("Primary", offset)}

\* What a set may contain, what an array may, and the value of an annotation.
PartsOf(type, dict, offset) ==
    CASE type = "Set" ->
            Properties(dict, offset) \cup TopLevelAnnotations
                \cup (IF dict = "Primary" THEN PropertyAnnotations(offset) ELSE {})
      [] type = "Array" -> Described(dict, Position(offset), "")
      [] type = "PropertyAnnotation" -> TopLevelAnnotations
      [] OTHER -> {}

Resource ==
    [name |-> MainDict[1].name, type |-> "Set", dict |-> "Primary",
     child |-> MainDict[1].child, option |-> ""]

\* What entry i of a dictionary describes contains these.
EntryParts(dict, i) == PartsOf(TypeOfEntry(dict, i), dict, DictionaryOf(dict)[i].child)

AllParts ==
    TopLevelAnnotations
        \cup UNION {UNION {EntryParts(dict, i) : i \in DOMAIN DictionaryOf(dict)} :
                      dict \in SchemaTypes}

Contents == [c \in {Resource} \cup AllParts |-> PartsOf(c.type, c.dict, c.child)]

-----------------------------------------------------------------------------
(* The caller builds a tree. It calls these operations in any order: a node  *)
(* may get children before or after it is linked itself, and one more after  *)
(* others have got theirs. It initialises each node once, links it once, and *)
(* no node below itself.                                                     *)

ChildrenOf(parent) == {n \in DOMAIN places : places[n].parent = parent}

IsAnnotation(c) == c.type = "PropertyAnnotation"

\* What may be linked to a node: to a set, what it does not have yet, to an
\* array, one more element, and to an annotation its value.
Addable(parent) ==
    LET thing == places[parent].thing
        present == {places[n].thing : n \in ChildrenOf(parent)}
    IN  {c \in Contents[thing] :
            CASE thing.type = "Set" ->
                    \A p \in present : <<p.name, IsAnnotation(p)>> # <<c.name, IsAnnotation(c)>>
              [] thing.type = "PropertyAnnotation" -> present = {}
              [] OTHER -> TRUE}

Placed(node, c, parent) ==
    [n \in DOMAIN places \cup {node} |->
        IF n = node THEN [thing |-> c, parent |-> parent] ELSE places[n]]

\* bejTreeInitSet, bejTreeInitArray and bejTreeInitPropertyAnnotated.
InitNode(node, c) ==
    /\ c.type \in ParentTypes
    /\ nodes' = bejTreeInitParent(nodes, node, c.name, c.type)
    /\ places' = Placed(node, c, NULL)

ValueFor(c) ==
    [NoValue EXCEPT !.option = c.option,
                    !.bytes = IF c.type = "String" THEN StringBytes ELSE 1]

\* bejTreeAddNull, bejTreeAddInteger, ..., which initialise a leaf and link it.
AddLeaf(parent, node, c) ==
    /\ c.type \in LeafTypes
    /\ nodes' = bejTreeAdd(nodes, parent, node, c.name, c.type, ValueFor(c))
    /\ places' = Placed(node, c, parent)

\* A node and all that is below it.
IsBranch(branch, node) ==
    /\ node \in branch
    /\ \A n \in DOMAIN places \ {node} : n \in branch <=> places[n].parent \in branch

\* bejTreeLinkChildToParent, called by the caller.
LinkNode(parent, node) ==
    /\ node # First /\ places[node].parent = NULL
    /\ \E branch \in SUBSET DOMAIN places : IsBranch(branch, node) /\ parent \notin branch
    /\ places[node].thing \in Addable(parent)
    /\ nodes' = bejTreeLinkChildToParent(nodes, parent, node)
    /\ places' = Placed(node, places[node].thing, parent)

BuildStep ==
    /\ phase = "build"
    /\ \/ \E node \in Nodes \ DOMAIN places, c \in AllParts : InitNode(node, c)
       \/ \E parent \in DOMAIN places :
             \E node \in Nodes \ DOMAIN places, c \in Addable(parent) : AddLeaf(parent, node, c)
       \/ \E parent, node \in DOMAIN places : LinkNode(parent, node)
    /\ UNCHANGED <<phase, pc, ret, call, meta, stack, output, failed, walk, decoderVars>>

\* Nothing is left over, and an annotation has a value.
Complete ==
    \A n \in DOMAIN places :
        /\ n # First => places[n].parent # NULL
        /\ IsAnnotation(places[n].thing) => ChildrenOf(n) # {}

FinishTree ==
    /\ phase = "build"
    /\ Complete
    /\ phase' = "encode"
    /\ UNCHANGED <<vars, places, walk, decoderVars>>

-----------------------------------------------------------------------------
(* The tree is encoded, and what has been written is a block to decode. *)

EncodeStep ==
    /\ phase = "encode"
    /\ Next
    /\ UNCHANGED <<phase, places, walk, decoderVars>>

BytesBefore(p) == Measure(SubSeq(output, 1, p - 1))

\* Every tuple written has one format, behind the two pieces of its sequence
\* number and before the two of its length.
Formats ==
    {p \in DOMAIN output : output[p].kind \in ParentTypes \cup LeafTypes}

OffsetOf(format) == BytesBefore(format - 2) - Decoder!PldmHeaderSize

\* The tuple a reader finds there, and the nnint at the start of its value.
TupleWritten(format) ==
    LET type == output[format].kind
        number == output[format - 1].value
        counted == type \in {"Set", "Array", "Enum"}
    IN  [hdr |-> BytesBefore(format + 3) - BytesBefore(format - 2),
         schema |-> IF number % 2 = 0 THEN "Primary" ELSE "Annotation",
         seq |-> (number \div 2) % 65536,
         ro |-> output[format].value = 1,
         type |-> type,
         len |-> output[format + 2].value,
         nnint |-> IF counted THEN output[format + 4].value ELSE 0,
         nnSize |-> IF counted THEN output[format + 4].size + 1 ELSE 0]

\* A block has a length of 32 bits.
DeliverBlock ==
    /\ phase = "encode"
    /\ ret = "OK" /\ ~failed
    /\ BytesBefore(Len(output) + 1) < U32
    /\ phase' = "decode"
    /\ block' = [block EXCEPT !.blockLength = BytesBefore(Len(output) + 1)]
    /\ stream' = [o \in {OffsetOf(p) : p \in Formats} |->
                     TupleWritten(CHOOSE p \in Formats : OffsetOf(p) = o)]
    /\ UNCHANGED <<vars, places, walk, decPc, decRet, sflv, payloadLen, decoderState,
                   decStack, operationCount, calls, decFailed, path, overran>>

-----------------------------------------------------------------------------
(* The block is decoded. *)

\* The option bejHandleBejEnum hands to its callback.
OptionName ==
    bejDictGetPropertyName(
        PropertyFound(DictionaryOf(sflv.schema),
                      Decoder!PropertyOf(sflv.schema, Decoder!ElementSeq).child, sflv.nnint))

Event(cb, prop, option, size) ==
    [cb |-> cb, prop |-> prop, option |-> option, size |-> size]

\* What a callback is told: its property, an option, the size of a value.
EventOf(c) ==
    Event(c.cb, c.prop, IF c.cb = "Enum" THEN OptionName ELSE "",
          IF c.cb \in Decoder!ScalarTypes THEN sflv.len ELSE 0)

Told(cs) ==
    LET events == [i \in DOMAIN cs |-> EventOf(cs[i])]
    IN  SelectSeq(events, LAMBDA e : e.cb \notin {"StackPush", "ReadonlyProperty"})

DecodeStep ==
    /\ phase = "decode"
    /\ Decoder!Next
    /\ walk' = walk \o Told(calls')
    /\ UNCHANGED <<vars, phase, places>>

-----------------------------------------------------------------------------
RoundTripInit ==
    /\ phase = "build"
    /\ pc = "call"
    /\ ret = "none"
    /\ call = [notNull |-> TRUE, root |-> First, start |-> 0] /\ call \in Calls
    /\ nodes = bejTreeInitParent(BlankTree, First, Resource.name, Resource.type)
    /\ places = [n \in {First} |-> [thing |-> Resource, parent |-> NULL]]
    /\ \E m \in Garbage : meta = [n \in Nodes |-> m]
    /\ stack = <<>>
    /\ output = <<>>
    /\ failed = FALSE
    /\ walk = <<>>
    /\ Decoder!Init

RoundTripNext == BuildStep \/ FinishTree \/ EncodeStep \/ DeliverBlock \/ DecodeStep

RoundTripSpec == RoundTripInit /\ [][RoundTripNext]_roundTripVars

-----------------------------------------------------------------------------
(* Properties. *)

\* The children of a node from one of them on.
Siblings ==
    LET from[child \in Pointers] ==
            IF child = NULL THEN <<>> ELSE <<child>> \o from[nodes[child].sibling]
    IN  from

LeafSize(node) ==
    IF node.type \in Decoder!ScalarTypes THEN LeafValueSize(node, 0) ELSE 0

\* The callbacks a tree calls for, by recursion over it: those of a node, whose
\* name is told or not.
WalkOf ==
    LET of[n \in Nodes, named \in BOOLEAN] ==
            LET node == nodes[n]
                name == IF named THEN node.name ELSE ""
                children == IF node.type \in ParentTypes
                            THEN Siblings[node.firstChild] ELSE <<>>
                inside == FlattenSeq(
                              [i \in DOMAIN children |->
                                  (IF i = 1 THEN <<>>
                                   ELSE << Event("PropertyEnd", "", "", 0) >>)
                                      \o of[children[i], node.type # "Array"]])
            IN  CASE node.type = "Set" ->
                        << Event("SetStart", name, "", 0) >> \o inside
                            \o << Event("SetEnd", "", "", 0) >>
                  [] node.type = "Array" ->
                        << Event("ArrayStart", name, "", 0) >> \o inside
                            \o << Event("ArrayEnd", "", "", 0) >>
                  [] node.type = "PropertyAnnotation" ->
                        << Event("Annotation", name, "", 0) >> \o inside
                  [] OTHER ->
                        << Event(node.type, name, node.value.option, LeafSize(node)) >>
    IN  of

\* What is encoded is decoded: the encoder accepts every tree the dictionaries
\* describe, the decoder accepts what it has written, and its callbacks are told
\* the names, the options, the sizes and the nesting of the tree, each once and
\* in order.
RoundTrip ==
    /\ pc = "done" => ret = "OK"
    /\ phase = "decode" /\ decPc = "done" => decRet = "OK" /\ walk = WalkOf[First, FALSE]

\* The offset the encoder keeps for the children of a node is the one of their
\* family (the comment of bejFindSeqNumAndChildDictOffset, lines 97-98), so that
\* a block which both sides accept is the resource that was encoded.
AcceptedIsSame ==
    phase = "decode" /\ decPc = "done" /\ decRet = "OK" => walk = WalkOf[First, FALSE]

\* The decoder never reads a tuple from where the encoder did not write one:
\* the offsets it computes from the lengths it reads are those the encoder
\* was at when it wrote.
ReadsWhatWasWritten ==
    phase = "decode"
        /\ (decPc = "root" \/ (decPc = "loop" /\ encodedStreamOffset < payloadLen))
        => encodedStreamOffset \in DOMAIN stream

\* What the encoder takes for granted of the trees it is handed: every list of
\* children ends, no node is in two of them, and each parent counts its own.
\* This is so after every operation of src/bej_tree.c on the nodes of a caller,
\* whichever node it initialises or links next and whether a branch is built from
\* its leaves up, from its top down or by turns with another: firstChild, lastChild
\* and nChildren are kept by hand in bejTreeLinkChildToParent (lines 116-130). The
\* caller initialises and links a node once, and never below itself.
TreeIsWellBuilt == WellBuilt(nodes)

=============================================================================
