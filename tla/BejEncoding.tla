---------------------------- MODULE BejEncoding ----------------------------
(***************************************************************************)
(* What the encoder derives from one node: its place in the dictionaries   *)
(* (src/bej_encoder_metadata.c), the size of what it occupies, and the     *)
(* calls of recvOutput that write it (src/bej_encoder_core.c).             *)
(*                                                                         *)
(* One call of recvOutput is a record, one piece of the output:            *)
(*                                                                         *)
(*   kind     "length" and "number", the two parts of an nnint;            *)
(*            the type of the node, for its format byte;                   *)
(*            "integer", a number written by bejEncodeInteger;             *)
(*            "data", other bytes                                          *)
(*   size     the bytes written                                            *)
(*   value    what an nnint says; 1 for a format with ro set; what a value *)
(*            of the resource spells is left out                           *)
(***************************************************************************)
EXTENDS BejTree

CONSTANTS
    AnnotationNames,    \* the names that start with "@"
    IndexRange          \* one more than the largest index of a child: 2^16

ASSUME AnnotationNamesAssumption == AnnotationNames \subseteq Names \ {""}

ASSUME IndexAssumption == IndexRange \in Nat \ {0} /\ 0 .. IndexRange - 1 \subseteq UInt16

-----------------------------------------------------------------------------
(* nnint *)

Numbers == INSTANCE BejNumbers WITH Byte <- 256, IntBytes <- 8

bejNnintLengthFieldOfUInt(v) == Numbers!bejNnintLengthFieldOfUInt(v)

bejNnintEncodingSizeOfUInt(v) == Numbers!bejNnintEncodingSizeOfUInt(v)

Piece(kind, size, value) == [kind |-> kind, size |-> size, value |-> value]

bejEncodeNnint(v) ==
    LET size == bejNnintLengthFieldOfUInt(v)
    IN  << Piece("length", 1, size), Piece("number", size, v) >>

-----------------------------------------------------------------------------
(* The place of a node in the dictionaries. *)

\* Below an annotation everything is looked up in the annotation dictionary, so
\* the code's redundancy check (the schema dictionary below the annotation
\* dictionary) never fails.
bejGetRelatedDictionary(parentDict, name) ==
    IF parentDict = "Annotation" \/ name \in AnnotationNames
    THEN "Annotation" ELSE "Primary"

\* status; and, when it is "OK", the sequence number, the dictionary, and the
\* offset the children of the node are looked up from. again says that the name
\* was looked up a second time, among the top-level annotations, which sets the
\* flag ro of the node whether or not it is found there.
bejFindSeqNumAndChildDictOffset(node, parentDict, index, start) ==
    LET dict == bejGetRelatedDictionary(parentDict, node.name)
        from == IF dict = parentDict THEN start
                ELSE bejDictGetFirstAnnotatedPropertyOffset
        again == /\ bejDictGetPropertyByName(DictionaryOf(dict), from, node.name) # "OK"
                 /\ dict = "Annotation" /\ parentDict = "Annotation"
        last == IF again THEN bejDictGetFirstAnnotatedPropertyOffset ELSE from
        status == bejDictGetPropertyByName(DictionaryOf(dict), last, node.name)
        property == PropertyNamed(DictionaryOf(dict), last, node.name)
    IN  IF node.name = ""
        THEN [status |-> "OK", seq |-> index, dict |-> parentDict,
              child |-> start, again |-> FALSE]
        ELSE IF status = "OK"
        THEN [status |-> "OK", seq |-> property.seq, dict |-> dict,
              child |-> property.child, again |-> again]
        ELSE [status |-> status, seq |-> 0, dict |-> dict, child |-> start,
              again |-> again]

\* *sequenceNumber, with the dictionary in bit 0.
SequenceNumber(found) == 2 * found.seq + (IF found.dict = "Annotation" THEN 1 ELSE 0)

\* The option of an enum is looked up among the children of its property, or
\* among those of its parent if it has no name.
OptionStatus(node, found) ==
    bejDictGetPropertyByName(DictionaryOf(found.dict), found.child, node.value.option)

OptionSeq(node, found) ==
    PropertyNamed(DictionaryOf(found.dict), found.child, node.value.option).seq

\* The status of bejUpdateLeafNodeMetaData.
LeafStatus(node, found) ==
    IF found.status # "OK" THEN found.status
    ELSE IF node.type = "Real" /\ node.value.tooLarge THEN "Unknown"
    ELSE IF node.type = "Enum" THEN OptionStatus(node, found)
    ELSE "OK"

-----------------------------------------------------------------------------
(* Sizes, as the metadata pass computes them before anything is written. *)

TupleFSize == 1

\* BEJ_TUPLE_L_SIZE_FOR_BEJ_INTEGER and BEJ_TUPLE_L_SIZE_FOR_BEJ_BOOL.
TupleLSizeForInteger == 2
TupleLSizeForBool == 2

LeafValueSize(node, optionSeq) ==
    CASE node.type \in {"Integer", "String"} -> node.value.bytes
      [] node.type = "Real" ->
            TupleLSizeForInteger + node.value.bytes
                + bejNnintEncodingSizeOfUInt(node.value.zeros)
                + bejNnintEncodingSizeOfUInt(node.value.fract)
                + bejNnintEncodingSizeOfUInt(0)
      [] node.type = "Enum" -> bejNnintEncodingSizeOfUInt(optionSeq)
      [] node.type = "Boolean" -> 1
      [] node.type = "Null" -> 0

LeafLengthSize(node, vSize) ==
    CASE node.type \in {"Integer", "Null"} -> TupleLSizeForInteger
      [] node.type = "Boolean" -> TupleLSizeForBool
      [] node.type \in {"String", "Real", "Enum"} -> bejNnintEncodingSizeOfUInt(vSize)

\* A set or an array has the number of its children before them.
CountSize(node) ==
    IF node.type = "PropertyAnnotation" THEN 0
    ELSE bejNnintEncodingSizeOfUInt(node.nChildren)

-----------------------------------------------------------------------------
(* What is written for a node. *)

bejEncodeFormat(node) == << Piece(node.type, 1, IF node.ro THEN 1 ELSE 0) >>

bejEncodeInteger(bytes) == << Piece("integer", bytes, 0) >>

\* Sequence number, format and length, the same for every type.
EncodeSFL(node, seq, vSize) ==
    bejEncodeNnint(seq) \o bejEncodeFormat(node) \o bejEncodeNnint(vSize)

EncodeValue(node, optionSeq, vSize) ==
    CASE node.type \in {"Set", "Array"} -> bejEncodeNnint(node.nChildren)
      [] node.type \in {"PropertyAnnotation", "Null"} -> <<>>
      [] node.type = "Integer" -> bejEncodeInteger(node.value.bytes)
      [] node.type = "Enum" -> bejEncodeNnint(optionSeq)
      [] node.type = "String" -> << Piece("data", vSize, 0) >>
      [] node.type = "Boolean" -> << Piece("data", 1, 0) >>
      [] node.type = "Real" ->
            bejEncodeNnint(node.value.bytes) \o bejEncodeInteger(node.value.bytes)
                \o bejEncodeNnint(node.value.zeros) \o bejEncodeNnint(node.value.fract)
                \o bejEncodeNnint(0)

bejEncodeNode(node, meta) ==
    EncodeSFL(node, meta.sequenceNumber, meta.vSize)
        \o EncodeValue(node, meta.enumValueSeq, meta.vSize)

\* bejVersion, reserved and schemaClass.
Header == << Piece("data", 4, 0), Piece("data", 2, 0), Piece("data", 1, 0) >>

=============================================================================
