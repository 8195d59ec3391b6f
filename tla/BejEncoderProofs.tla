-------------------------- MODULE BejEncoderProofs --------------------------
(***************************************************************************)
(* Theorems about one call of the encoder, for every pair of dictionaries, *)
(* every well-built tree, every index range, every error of the callbacks  *)
(* and whatever the nodes' metadata holds before the call: the two walks   *)
(* stay within the caller's nodes, no number they put into a node's        *)
(* metadata is one its field cannot hold, and they do what BejReference    *)
(* defines by recursion.                                                   *)
(***************************************************************************)
EXTENDS BejEncoderProperties, BejDictionaryProofs

-----------------------------------------------------------------------------
(* Sizes of numbers and the places of nodes.                                 *)

LEMMA NnintSizes ==
    ASSUME NEW v
    PROVE  bejNnintLengthFieldOfUInt(v) \in Nat /\ bejNnintEncodingSizeOfUInt(v) \in Nat
<1> DEFINE fits(k) == k = 8 \/ v < Numbers!Power(256, k)
           T == {k \in 1 .. 8 : fits(k)}
<1>1. 8 \in T
    OBVIOUS
<1>2. T \in SUBSET Nat /\ T # {}
    BY <1>1
<1>3. PICK x \in T : \A y \in T : x <= y
    <2> HIDE DEF T
    <2> QED BY <1>2, LeastNatural
<1>4. x \in 1 .. 8 /\ (x = 8 \/ v < Numbers!Power(256, x))
    OBVIOUS
<1>5. x = 1 \/ ~(v < Numbers!Power(256, x - 1))
    <2>1. ASSUME x # 1 PROVE x - 1 \in 1 .. 8 /\ ~(x <= x - 1)
        BY <1>4, <2>1
    <2>2. ASSUME x # 1 PROVE ~fits(x - 1)
        BY <1>3, <2>1, <2>2
    <2> QED BY <2>2
<1>6. bejNnintLengthFieldOfUInt(v) \in 1 .. 8
    <2>1. \E k \in 1 .. 8 :
             /\ k = 8 \/ v < Numbers!Power(256, k)
             /\ k = 1 \/ ~(v < Numbers!Power(256, k - 1))
        BY <1>4, <1>5
    <2> QED BY <2>1 DEF bejNnintLengthFieldOfUInt, Numbers!bejNnintLengthFieldOfUInt
<1>7. bejNnintLengthFieldOfUInt(v) \in Nat
    BY <1>6
<1> QED BY <1>7 DEF bejNnintLengthFieldOfUInt, bejNnintEncodingSizeOfUInt,
                    Numbers!bejNnintEncodingSizeOfUInt

\* A lookup by name in either dictionary.
LEMMA NamedType ==
    ASSUME NEW schema \in SchemaTypes, NEW start \in PropertyOffsets, NEW name
    PROVE  LET status == bejDictGetPropertyByName(DictionaryOf(schema), start, name)
               property == PropertyNamed(DictionaryOf(schema), start, name)
           IN  /\ status \in EncoderStatuses
               /\ status = "OK" => /\ property.seq \in UInt16
                                   /\ property.child \in PropertyOffsets
<1>1. DictionaryOf(schema) \in Seq(DictionaryEntry)
    BY DictionariesAssumption DEF DictionaryOf
<1>2. start \in Int
    <2>1. UInt16 \subseteq Nat
        BY DEF UInt16
    <2> QED BY <2>1 DEF PropertyOffsets
<1>3. ASSUME NEW entry \in DictionaryEntry
      PROVE  entry.child \in PropertyOffsets /\ entry.seq \in UInt16
    BY DEF DictionaryEntry
<1> QED BY <1>1, <1>2, <1>3, LookupByNameReturnsFirst DEF EncoderStatuses

LEMMA AnnotationsOffset == bejDictGetFirstAnnotatedPropertyOffset \in PropertyOffsets
<1>1. bejDictGetFirstAnnotatedPropertyOffset = 22
    BY DEF bejDictGetFirstAnnotatedPropertyOffset, HeaderSize, PropertySize
<1> QED BY <1>1 DEF PropertyOffsets, UInt16

FoundType(found) ==
    /\ found.status \in EncoderStatuses
    /\ found.seq \in Nat
    /\ found.dict \in SchemaTypes
    /\ found.child \in PropertyOffsets
    /\ SequenceNumber(found) \in Nat

LEMMA PlaceType ==
    ASSUME NEW node \in NodeType, NEW dict \in SchemaTypes, NEW index \in Nat,
           NEW start \in PropertyOffsets
    PROVE  FoundType(bejFindSeqNumAndChildDictOffset(node, dict, index, start))
<1> DEFINE related == bejGetRelatedDictionary(dict, node.name)
           annotations == bejDictGetFirstAnnotatedPropertyOffset
           from == IF related = dict THEN start ELSE annotations
           again == /\ bejDictGetPropertyByName(DictionaryOf(related), from, node.name) # "OK"
                    /\ related = "Annotation" /\ dict = "Annotation"
           last == IF again THEN annotations ELSE from
           status == bejDictGetPropertyByName(DictionaryOf(related), last, node.name)
           property == PropertyNamed(DictionaryOf(related), last, node.name)
           found == bejFindSeqNumAndChildDictOffset(node, dict, index, start)
<1>1. related \in SchemaTypes
    BY DEF bejGetRelatedDictionary, SchemaTypes
<1>2. annotations \in PropertyOffsets
    BY AnnotationsOffset
<1>3. last \in PropertyOffsets
    BY <1>2
<1>4. /\ status \in EncoderStatuses
      /\ status = "OK" => property.seq \in UInt16 /\ property.child \in PropertyOffsets
    <2> HIDE DEF related, last
    <2> QED BY <1>1, <1>3, NamedType
<1>5. UInt16 \subseteq Nat /\ 0 \in Nat
    BY DEF UInt16
<1>6. "OK" \in EncoderStatuses
    BY DEF EncoderStatuses
<1>7. \/ found = [status |-> "OK", seq |-> index, dict |-> dict, child |-> start,
                  again |-> FALSE]
      \/ /\ status = "OK"
         /\ found = [status |-> "OK", seq |-> property.seq, dict |-> related,
                     child |-> property.child, again |-> again]
      \/ found = [status |-> status, seq |-> 0, dict |-> related, child |-> start,
                  again |-> again]
    BY DEF bejFindSeqNumAndChildDictOffset
<1> HIDE DEF related, again, status, property, found
<1>8. /\ found.status \in EncoderStatuses
      /\ found.seq \in Nat
      /\ found.dict \in SchemaTypes
      /\ found.child \in PropertyOffsets
    <2>1. status = "OK" => property.seq \in Nat
        BY <1>4, <1>5
    <2> QED BY <1>1, <1>4, <1>5, <1>6, <1>7, <2>1
<1>9. SequenceNumber(found) \in Nat
    BY <1>8 DEF SequenceNumber
<1> QED BY <1>8, <1>9 DEF found, FoundType

\* The option of an enum that has been found.
LEMMA OptionType ==
    ASSUME NEW node \in NodeType, NEW found, FoundType(found)
    PROVE  /\ OptionStatus(node, found) \in EncoderStatuses
           /\ OptionStatus(node, found) = "OK" => OptionSeq(node, found) \in UInt16
<1>1. found.dict \in SchemaTypes /\ found.child \in PropertyOffsets
    BY DEF FoundType
<1> QED BY <1>1, NamedType DEF OptionStatus, OptionSeq

LEMMA LeafSizes ==
    ASSUME NEW node \in NodeType, node.type \in LeafTypes, NEW optionSeq, NEW size
    PROVE  LeafValueSize(node, optionSeq) \in Nat /\ LeafLengthSize(node, size) \in Nat
<1>1. node.value.bytes \in Nat
    BY DEF NodeType, ValueType
<1>2. \A v : bejNnintEncodingSizeOfUInt(v) \in Nat
    BY NnintSizes
<1>3. /\ TupleLSizeForInteger \in Nat /\ TupleLSizeForBool \in Nat
      /\ 0 \in Nat /\ 1 \in Nat
    BY DEF TupleLSizeForInteger, TupleLSizeForBool
<1>4. TupleLSizeForInteger + node.value.bytes
          + bejNnintEncodingSizeOfUInt(node.value.zeros)
          + bejNnintEncodingSizeOfUInt(node.value.fract)
          + bejNnintEncodingSizeOfUInt(0) \in Nat
    BY <1>1, <1>2, <1>3
<1>5. node.type \in {"Integer", "String", "Real", "Enum", "Boolean", "Null"}
    BY DEF LeafTypes
<1>6. LeafValueSize(node, optionSeq) \in Nat
    <2>1. CASE node.type = "Integer"
        BY <1>1, <2>1, Zenon DEF LeafValueSize
    <2>2. CASE node.type = "String"
        BY <1>1, <2>2, Zenon DEF LeafValueSize
    <2>3. CASE node.type = "Real"
        BY <1>4, <2>3 DEF LeafValueSize
    <2>4. CASE node.type = "Enum"
        BY <1>2, <2>4 DEF LeafValueSize
    <2>5. CASE node.type = "Boolean"
        BY <1>3, <2>5 DEF LeafValueSize
    <2>6. CASE node.type = "Null"
        BY <1>3, <2>6 DEF LeafValueSize
    <2> QED BY <1>5, <2>1, <2>2, <2>3, <2>4, <2>5, <2>6
<1>7. LeafLengthSize(node, size) \in Nat
    <2>1. CASE node.type \in {"Integer", "Null"}
        BY <1>3, <2>1 DEF LeafLengthSize
    <2>2. CASE node.type = "Boolean"
        BY <1>3, <2>2 DEF LeafLengthSize
    <2>3. CASE node.type \in {"String", "Real", "Enum"}
        BY <1>2, <2>3 DEF LeafLengthSize
    <2> QED BY <1>5, <2>1, <2>2, <2>3
<1> QED BY <1>6, <1>7

LEMMA CountType ==
    ASSUME NEW node
    PROVE  CountSize(node) \in Nat
BY NnintSizes DEF CountSize

-----------------------------------------------------------------------------
(* What is written is a sequence of pieces. *)

LEMMA PieceTyped ==
    ASSUME NEW kind \in PieceKinds, NEW size \in Nat, NEW value \in Nat
    PROVE  << Piece(kind, size, value) >> \in Seq(PieceType)
BY DEF Piece, PieceType

LEMMA PiecesJoined ==
    ASSUME NEW s \in Seq(PieceType), NEW t \in Seq(PieceType)
    PROVE  s \o t \in Seq(PieceType)
OBVIOUS

LEMMA NnintPieces ==
    ASSUME NEW v \in Nat
    PROVE  bejEncodeNnint(v) \in Seq(PieceType)
<1>1. "length" \in PieceKinds /\ "number" \in PieceKinds
    BY DEF PieceKinds
<1>2. bejNnintLengthFieldOfUInt(v) \in Nat
    BY NnintSizes
<1> QED BY <1>1, <1>2 DEF bejEncodeNnint, Piece, PieceType

LEMMA NodePieces ==
    ASSUME NEW node \in NodeType, NEW m \in MetaType
    PROVE  bejEncodeNode(node, m) \in Seq(PieceType)
<1>1. /\ node.type \in ParentTypes \cup LeafTypes
      /\ node.nChildren \in Nat
      /\ node.value.bytes \in Nat /\ node.value.zeros \in Nat /\ node.value.fract \in Nat
    BY DEF NodeType, ValueType
<1>2. /\ m.sequenceNumber \in Nat /\ m.vSize \in Nat /\ m.enumValueSeq \in UInt16
    BY DEF MetaType
<1>3. m.enumValueSeq \in Nat /\ 0 \in Nat /\ 1 \in Nat
    <2>1. UInt16 \subseteq Nat
        BY DEF UInt16
    <2> QED BY <1>2, <2>1
<1>4. node.type \in PieceKinds /\ "integer" \in PieceKinds /\ "data" \in PieceKinds
    BY <1>1 DEF PieceKinds
<1>5. bejEncodeFormat(node) \in Seq(PieceType)
    BY <1>3, <1>4, PieceTyped DEF bejEncodeFormat
<1>6. EncodeSFL(node, m.sequenceNumber, m.vSize) \in Seq(PieceType)
    <2>1. /\ bejEncodeNnint(m.sequenceNumber) \in Seq(PieceType)
          /\ bejEncodeNnint(m.vSize) \in Seq(PieceType)
        BY <1>2, NnintPieces
    <2> QED BY <1>5, <2>1, PiecesJoined DEF EncodeSFL
<1>7. bejEncodeInteger(node.value.bytes) \in Seq(PieceType)
    BY <1>1, <1>3, <1>4, PieceTyped DEF bejEncodeInteger
<1> DEFINE value == EncodeValue(node, m.enumValueSeq, m.vSize)
<1>8. value \in Seq(PieceType)
    <2>1. CASE node.type \in {"Set", "Array"}
        BY <1>1, <2>1, NnintPieces DEF EncodeValue
    <2>2. CASE node.type \in {"PropertyAnnotation", "Null"}
        <3>1. value = <<>>
            BY <2>2 DEF EncodeValue
        <3> QED BY <3>1
    <2>3. CASE node.type = "Integer"
        BY <1>7, <2>3, Zenon DEF EncodeValue
    <2>4. CASE node.type = "Enum"
        BY <1>3, <2>4, NnintPieces DEF EncodeValue
    <2>5. CASE node.type = "String"
        BY <1>2, <1>3, <1>4, <2>5, PieceTyped DEF EncodeValue
    <2>6. CASE node.type = "Boolean"
        BY <1>3, <1>4, <2>6, PieceTyped DEF EncodeValue
    <2>7. CASE node.type = "Real"
        <3>1. value = bejEncodeNnint(node.value.bytes)
                          \o bejEncodeInteger(node.value.bytes)
                          \o bejEncodeNnint(node.value.zeros)
                          \o bejEncodeNnint(node.value.fract)
                          \o bejEncodeNnint(0)
            BY <2>7 DEF EncodeValue
        <3>2. /\ bejEncodeNnint(node.value.bytes) \in Seq(PieceType)
              /\ bejEncodeNnint(node.value.zeros) \in Seq(PieceType)
              /\ bejEncodeNnint(node.value.fract) \in Seq(PieceType)
              /\ bejEncodeNnint(0) \in Seq(PieceType)
            BY <1>1, <1>3, NnintPieces
        <3> HIDE DEF value
        <3> QED BY <1>7, <3>1, <3>2, PiecesJoined
    <2> QED
        BY <1>1, <2>1, <2>2, <2>3, <2>4, <2>5, <2>6, <2>7 DEF ParentTypes, LeafTypes
<1> QED BY <1>6, <1>8, PiecesJoined DEF bejEncodeNode

LEMMA HeaderPieces == Header \in Seq(PieceType)
<1>1. "data" \in PieceKinds
    BY DEF PieceKinds
<1> QED BY <1>1 DEF Header, Piece, PieceType

-----------------------------------------------------------------------------
(* The metadata keeps its type. *)

Metas == [Nodes -> MetaType]

LEMMA AddSizeType ==
    ASSUME NEW m \in Metas, NEW parent \in Nodes, NEW node \in Nodes
    PROVE  AddSize(m, parent, node) \in Metas
<1>1. \A n \in Nodes : m[n] \in MetaType
    BY DEF Metas
<1>2. m[node].sflSize \in Nat /\ m[node].vSize \in Nat /\ m[parent].vSize \in Nat
    BY <1>1 DEF MetaType
<1> DEFINE size == m[parent].vSize + m[node].sflSize + m[node].vSize
<1>3. size \in Nat
    BY <1>2
<1>4. AddSize(m, parent, node) = [m EXCEPT ![parent] = [@ EXCEPT !.vSize = size]]
    BY DEF AddSize, Metas
<1> HIDE DEF size
<1>5. [m[parent] EXCEPT !.vSize = size] \in MetaType
    BY <1>1, <1>3 DEF MetaType
<1> QED BY <1>4, <1>5 DEF Metas

LEMMA LengthType ==
    ASSUME NEW m \in Metas, NEW node \in Nodes, NEW size \in Nat
    PROVE  [m EXCEPT ![node].sflSize = @ + size] \in Metas
<1>1. m[node] \in MetaType
    BY DEF Metas
<1>2. m[node].sflSize + size \in Nat
    BY <1>1 DEF MetaType
<1>3. [m[node] EXCEPT !.sflSize = @ + size] \in MetaType
    BY <1>1, <1>2 DEF MetaType
<1> QED BY <1>3 DEF Metas

LEMMA CursorType ==
    ASSUME NEW m \in Metas, NEW parent \in Nodes, NEW pointer \in Pointers
    PROVE  [m EXCEPT ![parent].nextChild = pointer] \in Metas
<1>1. m[parent] \in MetaType
    BY DEF Metas
<1>2. [m[parent] EXCEPT !.nextChild = pointer] \in MetaType
    BY <1>1 DEF MetaType
<1> QED BY <1>2 DEF Metas

LEMMA IndicesAreNaturals == UInt16 \subseteq Nat
BY DEF UInt16

LEMMA NextIndexType ==
    ASSUME NEW index \in UInt16
    PROVE  (index + 1) % IndexRange \in UInt16
<1>1. IndexRange \in Nat \ {0} /\ 0 .. IndexRange - 1 \subseteq UInt16
    BY IndexAssumption, Zenon
<1>2. index \in Nat
    BY IndicesAreNaturals, Zenon
<1>3. (index + 1) % IndexRange \in 0 .. IndexRange - 1
    <2>1. IndexRange \in Nat /\ IndexRange > 0
        BY <1>1
    <2> QED BY <1>2, <2>1
<1> QED BY <1>1, <1>3

LEMMA IndexType ==
    ASSUME NEW m \in Metas, NEW parent \in Nodes
    PROVE  [m EXCEPT ![parent].nextChildIndex = (@ + 1) % IndexRange] \in Metas
<1>1. m[parent] \in MetaType
    BY DEF Metas
<1>2. m[parent].nextChildIndex \in UInt16
    BY <1>1 DEF MetaType
<1>3. (m[parent].nextChildIndex + 1) % IndexRange \in UInt16
    BY <1>2, NextIndexType
<1>4. [m[parent] EXCEPT !.nextChildIndex = (@ + 1) % IndexRange] \in MetaType
    BY <1>1, <1>3 DEF MetaType
<1> QED BY <1>4 DEF Metas

LEMMA NextChildType ==
    ASSUME NEW m \in Metas, NEW parent \in Nodes, NEW child \in Nodes, nodes \in TreeType
    PROVE  bejParentGoToNextChild(m, parent, child) \in Metas
<1>1. nodes[child].sibling \in Pointers
    BY DEF TreeType, NodeType
<1> DEFINE moved == [m EXCEPT ![parent].nextChild = nodes[child].sibling]
<1>2. moved \in Metas
    BY <1>1, CursorType
<1>3. bejParentGoToNextChild(m, parent, child)
          = [moved EXCEPT ![parent].nextChildIndex = (@ + 1) % IndexRange]
    BY DEF bejParentGoToNextChild, Metas, MetaType
<1> HIDE DEF moved
<1> QED BY <1>2, <1>3, IndexType

LEMMA ResetCursorType ==
    ASSUME NEW m \in Metas, NEW node \in Nodes, nodes \in TreeType
    PROVE  ResetCursor(m, node) \in Metas
<1>1. nodes[node].firstChild \in Pointers
    BY DEF TreeType, NodeType
<1> QED BY <1>1, CursorType DEF ResetCursor

LEMMA SequenceNumberType ==
    ASSUME NEW m \in Metas, NEW node \in Nodes, NEW found, FoundType(found)
    PROVE  [m EXCEPT ![node].sequenceNumber = SequenceNumber(found)] \in Metas
<1>1. m[node] \in MetaType /\ SequenceNumber(found) \in Nat
    BY DEF Metas, FoundType
<1>2. [m[node] EXCEPT !.sequenceNumber = SequenceNumber(found)] \in MetaType
    BY <1>1 DEF MetaType
<1> QED BY <1>2 DEF Metas

LEMMA ParentMetaDataType ==
    ASSUME NEW m \in Metas, NEW node \in Nodes, nodes \in TreeType,
           NEW found, FoundType(found)
    PROVE  ParentMetaData(m, node, found) \in Metas
<1> DEFINE number == SequenceNumber(found)
           value == CountSize(nodes[node])
           size == bejNnintEncodingSizeOfUInt(number) + TupleFSize
           entry == [m[node] EXCEPT
                         !.sequenceNumber = number,
                         !.childrenDictPropOffset = found.child,
                         !.nextChild = nodes[node].firstChild,
                         !.nextChildIndex = 0,
                         !.dictionary = found.dict,
                         !.vSize = value,
                         !.sflSize = size]
<1>1. m[node] \in MetaType /\ nodes[node].firstChild \in Pointers
    BY DEF Metas, TreeType, NodeType
<1>2. number \in Nat /\ found.child \in PropertyOffsets /\ found.dict \in SchemaTypes
    BY DEF FoundType
<1>3. value \in Nat
    BY CountType
<1>4. size \in Nat
    <2> HIDE DEF number
    <2> QED BY NnintSizes DEF TupleFSize
<1>5. 0 \in UInt16
    BY DEF UInt16
<1>6. ParentMetaData(m, node, found) = [m EXCEPT ![node] = entry]
    BY DEF ParentMetaData, Metas
<1>7. entry \in MetaType
    <2> HIDE DEF number, value, size
    <2> QED BY <1>1, <1>2, <1>3, <1>4, <1>5 DEF MetaType
<1> HIDE DEF entry
<1> QED BY <1>6, <1>7 DEF Metas

LEMMA LeafMetaDataType ==
    ASSUME NEW m \in Metas, NEW leaf \in Nodes, nodes \in TreeType,
           nodes[leaf].type \in LeafTypes, NEW found, FoundType(found),
           LeafStatus(nodes[leaf], found) = "OK"
    PROVE  LeafMetaData(m, leaf, found) \in Metas
<1> DEFINE node == nodes[leaf]
           optionSeq == IF node.type = "Enum" THEN OptionSeq(node, found)
                        ELSE m[leaf].enumValueSeq
           value == LeafValueSize(node, optionSeq)
           number == SequenceNumber(found)
           size == bejNnintEncodingSizeOfUInt(number) + TupleFSize
                       + LeafLengthSize(node, value)
           entry == [m[leaf] EXCEPT !.sequenceNumber = number,
                                    !.enumValueSeq = optionSeq,
                                    !.vSize = value,
                                    !.sflSize = size]
<1>1. m[leaf] \in MetaType /\ node \in NodeType /\ number \in Nat
    BY DEF Metas, TreeType, FoundType
<1>2. optionSeq \in UInt16
    <2>1. CASE node.type = "Enum"
        <3>1. OptionStatus(node, found) = "OK"
            BY <2>1 DEF LeafStatus
        <3>2. OptionSeq(node, found) \in UInt16
            BY <1>1, <3>1, OptionType
        <3> QED BY <2>1, <3>2
    <2>2. CASE node.type # "Enum"
        BY <1>1, <2>2 DEF MetaType
    <2> QED BY <2>1, <2>2
<1>3. value \in Nat
    BY <1>1, LeafSizes
<1>4. size \in Nat
    <2>1. LeafLengthSize(node, value) \in Nat
        BY <1>1, LeafSizes
    <2> HIDE DEF number, value
    <2> QED BY <2>1, NnintSizes DEF TupleFSize
<1>5. LeafMetaData(m, leaf, found) = [m EXCEPT ![leaf] = entry]
    BY DEF LeafMetaData
<1>6. entry \in MetaType
    <2> HIDE DEF optionSeq, number, value, size
    <2> QED BY <1>1, <1>2, <1>3, <1>4 DEF MetaType
<1> HIDE DEF entry
<1> QED BY <1>5, <1>6 DEF Metas

-----------------------------------------------------------------------------
(* The walks. *)

LEMMA StackFacts ==
    ASSUME TypeOK, stack # <<>>
    PROVE  /\ Top \in Nodes
           /\ Pop(stack) \in Seq(Nodes)
           /\ Pop(stack) # <<>> => stack[Len(stack) - 1] \in Nodes
           /\ Child \in Pointers
<1>1. stack \in Seq(Nodes)
    BY DEF TypeOK
<1>2. /\ Top \in Nodes
      /\ Pop(stack) \in Seq(Nodes)
      /\ Pop(stack) # <<>> => stack[Len(stack) - 1] \in Nodes
    BY <1>1 DEF Top, Pop
<1>3. meta[Top] \in MetaType
    BY <1>2 DEF TypeOK
<1>4. Child \in Pointers
    BY <1>3 DEF Child, MetaType
<1> QED BY <1>2, <1>4

\* The child that is next, while there is one.
LEMMA ChildFacts ==
    ASSUME TypeOK, AtLeaf \/ AtParent
    PROVE  /\ stack # <<>> /\ Top \in Nodes /\ Child \in Nodes
           /\ nodes[Child] \in NodeType
           /\ meta[Child] \in MetaType
           /\ AtLeaf => nodes[Child].type \in LeafTypes
           /\ FoundType(FoundChild)
<1>1. stack # <<>> /\ Child # NULL
    BY DEF AtLeaf, AtParent
<1>2. Top \in Nodes /\ Child \in Nodes
    BY <1>1, StackFacts DEF Pointers
<1>3. nodes[Child] \in NodeType /\ meta[Child] \in MetaType /\ meta[Top] \in MetaType
    BY <1>2 DEF TypeOK, TreeType
<1>4. AtLeaf => nodes[Child].type \in LeafTypes
    BY <1>3 DEF AtLeaf, bejTreeIsParentType, NodeType
<1>5. /\ meta[Top].dictionary \in SchemaTypes
      /\ meta[Top].nextChildIndex \in UInt16
      /\ meta[Top].childrenDictPropOffset \in PropertyOffsets
    BY <1>3 DEF MetaType
<1>6. FoundType(FoundChild)
    <2>1. meta[Top].nextChildIndex \in Nat
        <3>1. UInt16 \subseteq Nat
            BY DEF UInt16
        <3> QED BY <1>5, <3>1
    <2> QED BY <1>3, <1>5, <2>1, PlaceType DEF FoundChild
<1> QED BY <1>1, <1>2, <1>3, <1>4, <1>6

\* A node with its flags updated is still a node.
LEMMA FlaggedTree ==
    ASSUME nodes \in TreeType, NEW node \in Nodes, NEW found, FlagNode(node, found)
    PROVE  nodes' \in TreeType
<1>1. [nodes[node] EXCEPT !.ro = TRUE] \in NodeType
    BY DEF TreeType, NodeType
<1>2. bejTreeUpdateNodeFlags(nodes, node, TRUE) \in TreeType
    BY <1>1 DEF bejTreeUpdateNodeFlags, TreeType
<1> QED BY <1>2 DEF FlagNode

LEMMA ShortenedType ==
    ASSUME NEW pieces \in Seq(PieceType), NEW sent \in Shortened(pieces)
    PROVE  sent \in Seq(PieceType)
<1>1. PICK i \in DOMAIN pieces :
          sent = SubSeq(pieces, 1, i - 1) \o SubSeq(pieces, i + 1, Len(pieces))
    BY DEF Shortened
<1>2. /\ SubSeq(pieces, 1, i - 1) \in Seq(PieceType)
      /\ SubSeq(pieces, i + 1, Len(pieces)) \in Seq(PieceType)
    OBVIOUS
<1> QED BY <1>1, <1>2, PiecesJoined

LEMMA InterruptedType ==
    ASSUME output \in Seq(PieceType), NEW pieces \in Seq(PieceType),
           Interrupted(pieces)
    PROVE  /\ output' \in Seq(PieceType)
           /\ pc' = "done" /\ ret' = "Callback" /\ failed' = TRUE
<1>1. PICK handed :
          /\ \E i \in DOMAIN pieces : handed = SubSeq(pieces, 1, i - 1)
          /\ \E sent \in {handed} \cup Shortened(handed) : output' = output \o sent
    BY DEF Interrupted
<1>2. handed \in Seq(PieceType)
    BY <1>1
<1>3. PICK sent \in Seq(PieceType) : output' = output \o sent
    BY <1>1, <1>2, ShortenedType
<1> QED BY <1>3, PiecesJoined DEF Interrupted, Return

LEMMA TruncatedType ==
    ASSUME output \in Seq(PieceType), NEW pieces \in Seq(PieceType),
           Truncated(pieces)
    PROVE  output' \in Seq(PieceType) /\ failed' = TRUE
BY ShortenedType, PiecesJoined DEF Truncated

-----------------------------------------------------------------------------
(* One step per action. *)

Stages == {"call", "metadata", "header", "root", "encode", "done"}

\* What a step has to establish, with ret and the stack apart.
LEMMA TypeFromParts ==
    ASSUME pc' \in Stages, ret' \in EncoderStatuses \cup {"none"}, call' \in Calls,
           nodes' \in TreeType, meta' \in Metas, stack' \in Seq(Nodes),
           output' \in Seq(PieceType), failed' \in BOOLEAN
    PROVE  TypeOK'
BY DEF TypeOK, Stages, Metas

LEMMA MetadataWalkStep ==
    ASSUME TypeOK, MetadataLeaf \/ MetadataParent \/ MetadataPop \/ MetadataDone
    PROVE  TypeOK'
<1> USE DEF Stages
<1>1. /\ pc \in Stages /\ ret \in EncoderStatuses \cup {"none"} /\ call \in Calls
      /\ nodes \in TreeType /\ meta \in Metas /\ stack \in Seq(Nodes)
      /\ output \in Seq(PieceType) /\ failed \in BOOLEAN
    BY DEF TypeOK, Metas
<1>2. "Callback" \in EncoderStatuses
    BY DEF EncoderStatuses
<1>3. CASE MetadataLeaf
    <2>1. /\ Child \in Nodes /\ Top \in Nodes /\ nodes[Child] \in NodeType
          /\ nodes[Child].type \in LeafTypes /\ FoundType(FoundChild)
        BY <1>3, ChildFacts DEF MetadataLeaf
    <2>2. nodes' \in TreeType
        BY <1>1, <1>3, <2>1, FlaggedTree DEF MetadataLeaf
    <2> DEFINE status == LeafStatus(nodes[Child], FoundChild)
    <2>3. status \in EncoderStatuses
        <3>1. {"OK", "Unknown"} \subseteq EncoderStatuses
            BY DEF EncoderStatuses
        <3>2. /\ FoundChild.status \in EncoderStatuses
              /\ OptionStatus(nodes[Child], FoundChild) \in EncoderStatuses
            BY <2>1, OptionType DEF FoundType
        <3> QED BY <3>1, <3>2 DEF LeafStatus
    <2>4. meta' \in Metas /\ pc' \in Stages /\ ret' \in EncoderStatuses \cup {"none"}
        <3>1. CASE status # "OK"
            <4>1. meta' \in Metas
                BY <1>1, <1>3, <2>1, <3>1, SequenceNumberType DEF MetadataLeaf
            <4>2. pc' = "done" /\ ret' = status
                BY <1>3, <3>1 DEF MetadataLeaf, Return
            <4> QED BY <2>3, <4>1, <4>2
        <3>2. CASE status = "OK"
            <4>1. LeafMetaData(meta, Child, FoundChild) \in Metas
                BY <1>1, <2>1, <3>2, LeafMetaDataType
            <4>2. AddSize(LeafMetaData(meta, Child, FoundChild), Top, Child) \in Metas
                BY <2>1, <4>1, AddSizeType
            <4>3. bejParentGoToNextChild(
                      AddSize(LeafMetaData(meta, Child, FoundChild), Top, Child),
                      Top, Child) \in Metas
                BY <1>1, <2>1, <4>2, NextChildType
            <4> QED BY <1>1, <1>3, <3>2, <4>3 DEF MetadataLeaf
        <3> QED BY <3>1, <3>2
    <2>5. call' = call /\ stack' = stack /\ output' = output /\ failed' = failed
        BY <1>3 DEF MetadataLeaf
    <2> QED BY <1>1, <2>2, <2>4, <2>5, TypeFromParts
<1>4. CASE MetadataParent
    <2>1. Child \in Nodes /\ Top \in Nodes /\ FoundType(FoundChild)
        BY <1>4, ChildFacts DEF MetadataParent
    <2>2. nodes' \in TreeType
        BY <1>1, <1>4, <2>1, FlaggedTree DEF MetadataParent
    <2> DEFINE updated == ParentMetaData(meta, Child, FoundChild)
    <2>3. updated \in Metas
        BY <1>1, <2>1, ParentMetaDataType
    <2>4. bejParentGoToNextChild(updated, Top, Child) \in Metas
        <3> HIDE DEF updated
        <3> QED BY <1>1, <2>1, <2>3, NextChildType
    <2>5. /\ meta' \in Metas /\ pc' \in Stages /\ ret' \in EncoderStatuses \cup {"none"}
          /\ stack' \in Seq(Nodes) /\ failed' \in BOOLEAN
        <3>1. CASE FoundChild.status # "OK"
            BY <1>1, <1>4, <2>1, <3>1 DEF MetadataParent, Return, FoundType
        <3>2. CASE FoundChild.status = "OK"
            <4>1. \/ /\ stack' = Append(stack, Child)
                     /\ meta' = bejParentGoToNextChild(updated, Top, Child)
                     /\ UNCHANGED <<pc, ret, failed>>
                  \/ /\ stack' = stack
                     /\ meta' = updated
                     /\ pc' = "done" /\ ret' = "Callback" /\ failed' = TRUE
                BY <1>4, <3>2 DEF MetadataParent, StackPush, Return
            <4> HIDE DEF updated
            <4>2. CASE stack' = Append(stack, Child)
                BY <1>1, <2>1, <2>4, <4>1, <4>2
            <4>3. CASE stack' = stack
                BY <1>1, <1>2, <2>3, <2>4, <4>1, <4>3
            <4> QED BY <4>1, <4>2, <4>3
        <3> QED BY <3>1, <3>2
    <2>6. call' = call /\ output' = output
        BY <1>4 DEF MetadataParent
    <2> QED BY <1>1, <2>2, <2>5, <2>6, TypeFromParts
<1>5. CASE MetadataPop
    <2>1. stack # <<>> /\ meta' = MetadataPopped(meta) /\ stack' = Pop(stack)
        BY <1>5 DEF MetadataPop, AtEnd
    <2>2. Top \in Nodes /\ Pop(stack) \in Seq(Nodes)
          /\ (Pop(stack) # <<>> => stack[Len(stack) - 1] \in Nodes)
        BY <2>1, StackFacts
    <2> DEFINE sized == [meta EXCEPT ![Top].sflSize =
                                @ + bejNnintEncodingSizeOfUInt(meta[Top].vSize)]
    <2>3. sized \in Metas
        BY <1>1, <2>2, NnintSizes, LengthType
    <2>4. meta' = IF Pop(stack) = <<>> THEN sized
                  ELSE AddSize(sized, stack[Len(stack) - 1], Top)
        BY <2>1 DEF MetadataPopped
    <2>5. meta' \in Metas
        <3> HIDE DEF sized
        <3>1. Pop(stack) # <<>> => AddSize(sized, stack[Len(stack) - 1], Top) \in Metas
            BY <2>2, <2>3, AddSizeType
        <3> QED BY <2>3, <2>4, <3>1
    <2>6. UNCHANGED <<pc, ret, call, nodes, output, failed>>
        BY <1>5 DEF MetadataPop
    <2> QED BY <1>1, <2>1, <2>2, <2>5, <2>6, TypeFromParts
<1>6. CASE MetadataDone
    BY <1>1, <1>6, TypeFromParts DEF MetadataDone
<1> QED BY <1>3, <1>4, <1>5, <1>6

LEMMA CallStep ==
    ASSUME TypeOK, bejEncode
    PROVE  TypeOK'
<1> USE DEF Stages
<1>1. /\ ret \in EncoderStatuses \cup {"none"} /\ call \in Calls
      /\ nodes \in TreeType /\ meta \in Metas /\ stack \in Seq(Nodes)
      /\ output \in Seq(PieceType) /\ failed \in BOOLEAN
    BY DEF TypeOK, Metas
<1>2. call \in CallType
    BY <1>1, CallerAssumption, Zenon
<1>3. call.root \in Nodes /\ call.start \in UInt16
    BY <1>2 DEF CallType
<1> DEFINE node == nodes[call.root]
           start == IF call.start = 0 THEN bejDictGetPropertyHeadOffset ELSE call.start
           found == bejFindSeqNumAndChildDictOffset(node, "Primary", 0, start)
           status == IF ~call.notNull THEN "NullParameter"
                     ELSE IF node.type # "Set" THEN "Unknown"
                     ELSE found.status
           updated == ParentMetaData(meta, call.root, found)
<1>4. FoundType(found)
    <2>1. bejDictGetPropertyHeadOffset \in PropertyOffsets /\ 0 \in Nat
        BY DEF bejDictGetPropertyHeadOffset, HeaderSize, PropertyOffsets, UInt16
    <2>2. start \in PropertyOffsets
        BY <1>3, <2>1 DEF PropertyOffsets
    <2>3. node \in NodeType
        BY <1>1, <1>3 DEF TreeType
    <2>4. "Primary" \in SchemaTypes
        BY DEF SchemaTypes
    <2> HIDE DEF start, node
    <2> QED BY <2>1, <2>2, <2>3, <2>4, PlaceType
<1>5. {"NullParameter", "Unknown", "Callback"} \subseteq EncoderStatuses
    BY DEF EncoderStatuses
<1>6. updated \in Metas
    <2> HIDE DEF found
    <2> QED BY <1>1, <1>3, <1>4, ParentMetaDataType
<1>7. \/ /\ status # "OK" /\ pc' = "done" /\ ret' = status
         /\ UNCHANGED <<meta, stack, failed>>
      \/ /\ meta' = updated
         /\ stack' = Append(stack, call.root)
         /\ pc' = "metadata" /\ UNCHANGED <<ret, failed>>
      \/ /\ meta' = updated
         /\ stack' = stack
         /\ pc' = "done" /\ ret' = "Callback" /\ failed' = TRUE
    BY DEF bejEncode, StackPush, Return
<1>8. UNCHANGED <<call, nodes, output>>
    BY DEF bejEncode
<1>9. status \in EncoderStatuses
    BY <1>4, <1>5 DEF FoundType
<1> HIDE DEF status, updated
<1>10. CASE meta' = meta /\ stack' = stack /\ pc' = "done" /\ ret' = status
                /\ failed' = failed
    BY <1>1, <1>8, <1>9, <1>10, TypeFromParts
<1>11. CASE meta' = updated /\ stack' = Append(stack, call.root)
                /\ pc' = "metadata" /\ ret' = ret /\ failed' = failed
    BY <1>1, <1>3, <1>6, <1>8, <1>11, TypeFromParts
<1>12. CASE meta' = updated /\ stack' = stack /\ pc' = "done" /\ ret' = "Callback"
                /\ failed' = TRUE
    BY <1>1, <1>5, <1>6, <1>8, <1>12, TypeFromParts
<1> QED BY <1>7, <1>10, <1>11, <1>12

\* A parent that is pushed by the second walk, with the metadata there is then.
LEMMA PushType ==
    ASSUME TypeOK, NEW node \in Nodes, NEW m \in Metas, bejPushParentToStack(node, m)
    PROVE  /\ pc' \in Stages /\ ret' \in EncoderStatuses \cup {"none"}
           /\ meta' \in Metas /\ stack' \in Seq(Nodes) /\ failed' \in BOOLEAN
<1> USE DEF Stages
<1>1. /\ ret \in EncoderStatuses \cup {"none"} /\ nodes \in TreeType
      /\ meta \in Metas /\ stack \in Seq(Nodes) /\ failed \in BOOLEAN
    BY DEF TypeOK, Metas
<1>2. "Callback" \in EncoderStatuses
    BY DEF EncoderStatuses
<1>3. ResetCursor(meta, node) \in Metas
    BY <1>1, ResetCursorType
<1>4. \/ /\ stack' = Append(stack, node) /\ meta' = m /\ pc' = "encode"
         /\ UNCHANGED <<ret, failed>>
      \/ /\ stack' = stack /\ meta' = ResetCursor(meta, node)
         /\ pc' = "done" /\ ret' = "Callback" /\ failed' = TRUE
    BY DEF bejPushParentToStack, StackPush, Return
<1>5. CASE stack' = Append(stack, node) /\ meta' = m /\ pc' = "encode"
               /\ ret' = ret /\ failed' = failed
    BY <1>1, <1>5
<1>6. CASE stack' = stack /\ meta' = ResetCursor(meta, node) /\ pc' = "done"
               /\ ret' = "Callback" /\ failed' = TRUE
    BY <1>1, <1>2, <1>3, <1>6
<1> QED BY <1>4, <1>5, <1>6

LEMMA EncodeWalkStep ==
    ASSUME TypeOK,
           EncodeHeader \/ EncodeRoot \/ EncodeParent \/ EncodeLeaf \/ EncodePop
               \/ EncodeDone
    PROVE  TypeOK'
<1> USE DEF Stages
<1>1. /\ pc \in Stages /\ ret \in EncoderStatuses \cup {"none"} /\ call \in Calls
      /\ nodes \in TreeType /\ meta \in Metas /\ stack \in Seq(Nodes)
      /\ output \in Seq(PieceType) /\ failed \in BOOLEAN
    BY DEF TypeOK, Metas
<1>2. "Callback" \in EncoderStatuses /\ "OK" \in EncoderStatuses
    BY DEF EncoderStatuses
<1>3. CASE EncodeHeader
    <2>1. CASE Received(Header) /\ pc' = "root" /\ UNCHANGED <<ret, failed>>
        <3>1. output' \in Seq(PieceType)
            BY <1>1, <2>1, HeaderPieces, PiecesJoined DEF Received
        <3> QED BY <1>1, <1>3, <2>1, <3>1, TypeFromParts DEF EncodeHeader
    <2>2. CASE Interrupted(Header)
        BY <1>1, <1>2, <1>3, <2>2, HeaderPieces, InterruptedType, TypeFromParts
        DEF EncodeHeader
    <2> QED BY <1>3, <2>1, <2>2 DEF EncodeHeader
<1>4. CASE EncodeRoot
    <2>1. call.root \in Nodes
        <3>1. call \in CallType
            BY <1>1, CallerAssumption, Zenon
        <3> QED BY <3>1 DEF CallType
    <2> DEFINE pieces == bejEncodeNode(nodes[call.root], meta[call.root])
    <2>2. pieces \in Seq(PieceType)
        <3>1. nodes[call.root] \in NodeType /\ meta[call.root] \in MetaType
            BY <1>1, <2>1 DEF TreeType, Metas
        <3> QED BY <3>1, NodePieces
    <2>3. ResetCursor(meta, call.root) \in Metas
        BY <1>1, <2>1, ResetCursorType
    <2>4. UNCHANGED <<call, nodes>>
        BY <1>4 DEF EncodeRoot
    <2>5. \/ /\ Received(pieces)
             /\ bejPushParentToStack(call.root, ResetCursor(meta, call.root))
          \/ Interrupted(pieces) /\ UNCHANGED <<meta, stack>>
        BY <1>4 DEF EncodeRoot
    <2> HIDE DEF pieces
    <2>6. CASE /\ Received(pieces)
               /\ bejPushParentToStack(call.root, ResetCursor(meta, call.root))
        <3>1. output' \in Seq(PieceType)
            BY <1>1, <2>2, <2>6, PiecesJoined DEF Received
        <3>2. /\ pc' \in Stages /\ ret' \in EncoderStatuses \cup {"none"}
              /\ meta' \in Metas /\ stack' \in Seq(Nodes) /\ failed' \in BOOLEAN
            BY <2>1, <2>3, <2>6, PushType
        <3> QED BY <1>1, <2>4, <3>1, <3>2, TypeFromParts
    <2>7. CASE Interrupted(pieces) /\ UNCHANGED <<meta, stack>>
        BY <1>1, <1>2, <2>2, <2>4, <2>7, InterruptedType, TypeFromParts
    <2> QED BY <2>5, <2>6, <2>7
<1>5. CASE EncodeParent
    <2>1. /\ Child \in Nodes /\ Top \in Nodes
          /\ nodes[Child] \in NodeType /\ meta[Child] \in MetaType
        BY <1>5, ChildFacts DEF EncodeParent
    <2> DEFINE pieces == bejEncodeNode(nodes[Child], meta[Child])
               m == bejParentGoToNextChild(ResetCursor(meta, Child), Top, Child)
    <2>2. pieces \in Seq(PieceType)
        BY <2>1, NodePieces
    <2>3. m \in Metas
        <3>1. ResetCursor(meta, Child) \in Metas
            BY <1>1, <2>1, ResetCursorType
        <3> QED BY <1>1, <2>1, <3>1, NextChildType
    <2>4. UNCHANGED <<call, nodes>>
        BY <1>5 DEF EncodeParent
    <2>5. \/ Received(pieces) /\ bejPushParentToStack(Child, m)
          \/ Interrupted(pieces) /\ UNCHANGED <<meta, stack>>
        BY <1>5 DEF EncodeParent
    <2> HIDE DEF pieces, m
    <2>6. CASE Received(pieces) /\ bejPushParentToStack(Child, m)
        <3>1. output' \in Seq(PieceType)
            BY <1>1, <2>2, <2>6, PiecesJoined DEF Received
        <3>2. /\ pc' \in Stages /\ ret' \in EncoderStatuses \cup {"none"}
              /\ meta' \in Metas /\ stack' \in Seq(Nodes) /\ failed' \in BOOLEAN
            BY <2>1, <2>3, <2>6, PushType
        <3> QED BY <1>1, <2>4, <3>1, <3>2, TypeFromParts
    <2>7. CASE Interrupted(pieces) /\ UNCHANGED <<meta, stack>>
        BY <1>1, <1>2, <2>2, <2>4, <2>7, InterruptedType, TypeFromParts
    <2> QED BY <2>5, <2>6, <2>7
<1>6. CASE EncodeLeaf
    <2>1. /\ Child \in Nodes /\ Top \in Nodes
          /\ nodes[Child] \in NodeType /\ meta[Child] \in MetaType
        BY <1>6, ChildFacts DEF EncodeLeaf
    <2> DEFINE pieces == bejEncodeNode(nodes[Child], meta[Child])
               m == bejParentGoToNextChild(meta, Top, Child)
    <2>2. pieces \in Seq(PieceType)
        BY <2>1, NodePieces
    <2>3. m \in Metas
        BY <1>1, <2>1, NextChildType
    <2>4. UNCHANGED <<call, nodes, stack>>
        BY <1>6 DEF EncodeLeaf
    <2>5. \/ Received(pieces) /\ meta' = m /\ UNCHANGED <<pc, ret, failed>>
          \/ Truncated(pieces) /\ meta' = m /\ UNCHANGED <<pc, ret>>
          \/ Interrupted(pieces) /\ UNCHANGED meta
        BY <1>6 DEF EncodeLeaf
    <2> HIDE DEF pieces, m
    <2>6. CASE Received(pieces) /\ meta' = m /\ UNCHANGED <<pc, ret, failed>>
        <3>1. output' \in Seq(PieceType)
            BY <1>1, <2>2, <2>6, PiecesJoined DEF Received
        <3> QED BY <1>1, <2>3, <2>4, <2>6, <3>1, TypeFromParts
    <2>7. CASE Truncated(pieces) /\ meta' = m /\ UNCHANGED <<pc, ret>>
        BY <1>1, <2>2, <2>3, <2>4, <2>7, TruncatedType, TypeFromParts
    <2>8. CASE Interrupted(pieces) /\ UNCHANGED meta
        BY <1>1, <1>2, <2>2, <2>4, <2>8, InterruptedType, TypeFromParts
    <2> QED BY <2>5, <2>6, <2>7, <2>8
<1>7. CASE EncodePop
    <2>1. Pop(stack) \in Seq(Nodes)
        BY <1>7, StackFacts DEF EncodePop, AtEnd
    <2> QED BY <1>1, <1>7, <2>1, TypeFromParts DEF EncodePop
<1>8. CASE EncodeDone
    BY <1>1, <1>2, <1>8, TypeFromParts DEF EncodeDone, Return
<1> QED BY <1>3, <1>4, <1>5, <1>6, <1>7, <1>8

LEMMA InitTyped ==
    ASSUME Init
    PROVE  TypeOK
<1>1. nodes \in TreeType
    BY CallerAssumption, Zenon DEF Init
<1>2. PICK m \in Garbage : meta = [n \in Nodes |-> m]
    BY DEF Init
<1>3. meta \in [Nodes -> MetaType]
    <2>1. Garbage \subseteq MetaType
        BY CallerAssumption, Zenon
    <2> QED BY <1>2, <2>1
<1>4. /\ pc = "call" /\ ret = "none" /\ call \in Calls
      /\ stack = <<>> /\ output = <<>> /\ failed = FALSE
    BY DEF Init
<1>5. stack \in Seq(Nodes) /\ output \in Seq(PieceType)
    BY <1>4
<1>6. failed \in BOOLEAN
    BY <1>4
<1> QED BY <1>1, <1>3, <1>4, <1>5, <1>6, Zenon DEF TypeOK

LEMMA NextTyped ==
    ASSUME TypeOK, [Next]_vars
    PROVE  TypeOK'
<1>1. CASE UNCHANGED vars
    BY <1>1 DEF vars, TypeOK
<1> QED BY <1>1, CallStep, MetadataWalkStep, EncodeWalkStep DEF Next

\* Whatever the caller has built and whatever the callbacks answer, both walks
\* of bejEncode stay within the nodes, the stack holds nodes only, and every
\* index and offset put into the metadata is one its 16 bits hold
\* (bejUpdateNodeMetadata, bejEncodeTree).
THEOREM TypeCorrect == Spec => []TypeOK
<1>1. Init => TypeOK
    BY InitTyped
<1>2. TypeOK /\ [Next]_vars => TypeOK'
    BY NextTyped
<1> QED BY <1>1, <1>2, PTL DEF Spec

-----------------------------------------------------------------------------
(* The recursion of BejReference comes to an end. *)

Ends == {at \in Places : at.node = NULL}

InsideOf(tree) == [at \in Places \ Ends |-> Inside(tree, at)]
BehindOf(tree) == [at \in Places \ Ends |-> Behind(tree, at)]

LEMMA PlaceParts ==
    ASSUME NEW at \in Places
    PROVE  /\ at.node \in Pointers /\ at.dict \in SchemaTypes
           /\ at.index \in Nat /\ at.start \in PropertyOffsets
           /\ at \notin Ends => at.node \in Nodes
           /\ at \in Ends <=> at.node = NULL
BY NodesAssumption DEF Places, Ends, Pointers

LEMMA LinkTypes ==
    ASSUME NEW tree \in TreeType, NEW n \in Nodes
    PROVE  /\ tree[n] \in NodeType
           /\ tree[n].sibling \in Pointers
           /\ tree[n].firstChild \in Pointers
           /\ FirstChild(tree, n) \in Pointers
BY DEF TreeType, NodeType, FirstChild, Pointers

LEMMA NextPlaces ==
    ASSUME NEW tree \in TreeType, NEW at \in Places \ Ends
    PROVE  /\ FoundType(Found(tree, at))
           /\ Inside(tree, at) \in Places
           /\ Inside(tree, at).node = FirstChild(tree, at.node)
           /\ Behind(tree, at) \in Places
           /\ Behind(tree, at).node = tree[at.node].sibling
<1>1. /\ at.node \in Nodes /\ at.dict \in SchemaTypes
      /\ at.index \in Nat /\ at.start \in PropertyOffsets
    BY PlaceParts
<1>2. /\ tree[at.node] \in NodeType /\ tree[at.node].sibling \in Pointers
      /\ FirstChild(tree, at.node) \in Pointers
    BY <1>1, LinkTypes
<1>3. FoundType(Found(tree, at))
    BY <1>1, <1>2, PlaceType DEF Found
<1>4. Found(tree, at).dict \in SchemaTypes /\ Found(tree, at).child \in PropertyOffsets
    BY <1>3 DEF FoundType
<1>5. Inside(tree, at) \in Places /\ Inside(tree, at).node = FirstChild(tree, at.node)
    BY <1>2, <1>4 DEF Inside, Places
<1>6. (at.index + 1) % IndexRange \in Nat
    BY <1>1, IndexAssumption
<1>7. Behind(tree, at) \in Places /\ Behind(tree, at).node = tree[at.node].sibling
    BY <1>1, <1>2, <1>6 DEF Behind, Places
<1> QED BY <1>3, <1>5, <1>7

LEMMA NodesLinked ==
    ASSUME NEW tree \in TreeType, NoCycle(tree), NEW S \in SUBSET Places, S # {}
    PROVE  \E at \in S : \/ at \in Ends
                         \/ Inside(tree, at) \notin S /\ Behind(tree, at) \notin S
<1> SUFFICES ASSUME \A at \in S : at \notin Ends
             PROVE  \E at \in S : Inside(tree, at) \notin S /\ Behind(tree, at) \notin S
    OBVIOUS
<1> DEFINE s == {at.node : at \in S}
<1>1. s \in SUBSET Nodes /\ s # {}
    BY PlaceParts
<1>2. PICK n \in s : FirstChild(tree, n) \notin s /\ tree[n].sibling \notin s
    <2> HIDE DEF s
    <2> QED BY <1>1 DEF NoCycle
<1>3. PICK at \in S : at.node = n
    OBVIOUS
<1>4. at \in Places \ Ends
    OBVIOUS
<1>5. Inside(tree, at).node \notin s /\ Behind(tree, at).node \notin s
    BY <1>2, <1>3, <1>4, NextPlaces
<1>6. Inside(tree, at) \notin S /\ Behind(tree, at) \notin S
    BY <1>5
<1> QED BY <1>6

LEMMA PlacesLinked ==
    ASSUME NEW tree \in TreeType, NoCycle(tree)
    PROVE  NoWayBack(Places, Ends, InsideOf(tree), BehindOf(tree))
<1>1. Ends \subseteq Places
    BY DEF Ends
<1>2. /\ InsideOf(tree) \in [Places \ Ends -> Places]
      /\ BehindOf(tree) \in [Places \ Ends -> Places]
    BY NextPlaces DEF InsideOf, BehindOf
<1>3. ASSUME NEW S \in SUBSET Places, S # {}
      PROVE  \E at \in S : \/ at \in Ends
                           \/ InsideOf(tree)[at] \notin S /\ BehindOf(tree)[at] \notin S
    <2>1. PICK at \in S : \/ at \in Ends
                          \/ Inside(tree, at) \notin S /\ Behind(tree, at) \notin S
        BY <1>3, NodesLinked
    <2>2. CASE at \in Ends
        BY <2>2
    <2>3. CASE at \notin Ends
        <3>1. InsideOf(tree)[at] = Inside(tree, at) /\ BehindOf(tree)[at] = Behind(tree, at)
            BY <2>3 DEF InsideOf, BehindOf
        <3> QED BY <2>1, <2>3, <3>1
    <2> QED BY <2>2, <2>3
<1> QED BY <1>1, <1>2, <1>3 DEF NoWayBack

\* Induction over places, in the words of BejReference.
LEMMA PlaceInduction ==
    ASSUME NEW tree \in TreeType, NoCycle(tree), NEW T \in SUBSET Places,
           \A at \in Ends : at \in T,
           \A at \in Places \ Ends :
              Inside(tree, at) \in T /\ Behind(tree, at) \in T => at \in T
    PROVE  T = Places
<1>1. NoWayBack(Places, Ends, InsideOf(tree), BehindOf(tree))
    BY PlacesLinked
<1>2. Ends \subseteq T
    OBVIOUS
<1>3. \A at \in Places \ Ends :
         InsideOf(tree)[at] \in T /\ BehindOf(tree)[at] \in T => at \in T
    BY DEF InsideOf, BehindOf
<1>4. T \in SUBSET Places
    OBVIOUS
<1> QED BY ONLY <1>1, <1>2, <1>3, <1>4, LinkInduction

-----------------------------------------------------------------------------
(* The size of what is written. *)

Sized(P) == \A p \in P : p.size \in Nat

SizeStep(P) == [total \in Nat |-> [p \in P |-> total + p.size]]

LEMMA MeasureFold ==
    ASSUME NEW P, Sized(P), NEW s \in Seq(P)
    PROVE  \E it : /\ OnSegments(it, Nat, 0, SizeStep(P), s)
                   /\ Measure(s) = it[1 .. Len(s)]
<1> DEFINE D == SUBSET DOMAIN s
           Fold(it) == it = [T \in D |-> IF T = {} THEN 0
                                         ELSE it[T \ {Max(T)}] + s[Max(T)].size]
           it == CHOOSE it : Fold(it)
<1>0. /\ DOMAIN s = 1 .. Len(s) /\ Len(s) \in Nat /\ \A k \in 1 .. Len(s) : s[k] \in P
      /\ \A p \in P : p.size \in Nat
    BY LenProperties DEF Sized
<1>s. SizeStep(P) \in [Nat -> [P -> Nat]]
    BY <1>0 DEF SizeStep
<1>1. PICK f : IsFold(f, Nat, 0, SizeStep(P), s)
    <2>1. 0 \in Nat
        OBVIOUS
    <2> QED BY <1>s, <2>1, FoldExists, Zenon
<1>2. Fold(f)
    <2>1. f \in [D -> Nat]
        BY <1>1 DEF IsFold
    <2>2. ASSUME NEW T \in D, T # {}
          PROVE  f[T] = f[T \ {Max(T)}] + s[Max(T)].size
        <3>1. Max(T) \in DOMAIN s
            BY <1>0, <2>2, MaxOfInterval
        <3>2. f[T \ {Max(T)}] \in Nat /\ s[Max(T)] \in P
            BY <1>0, <2>1, <3>1
        <3>3. f[T] = SizeStep(P)[f[T \ {Max(T)}]][s[Max(T)]]
            BY <1>1, <2>2 DEF IsFold
        <3> QED BY <3>2, <3>3 DEF SizeStep
    <2>3. f[{}] = 0
        BY <1>1 DEF IsFold
    <2> QED BY <2>1, <2>2, <2>3
<1>3. Fold(it)
    <2> HIDE DEF Fold
    <2> QED BY <1>2
<1>4. Measure(s) = it[DOMAIN s]
    BY DEF Measure, FoldLeft, MapThenFoldSet
<1>5. OnSegments(it, Nat, 0, SizeStep(P), s)
    <2> HIDE DEF it
    <2>1. it[{}] = 0
        BY <1>3
    <2>2. ASSUME NEW k \in 1 .. Len(s), it[1 .. k - 1] \in Nat
          PROVE  it[1 .. k] = SizeStep(P)[it[1 .. k - 1]][s[k]]
        <3>1. k \in Nat \ {0} /\ 1 .. k \in D
            BY <1>0
        <3>2. Max(1 .. k) = k /\ (1 .. k) \ {k} = 1 .. k - 1 /\ 1 .. k # {}
            BY <3>1, IntervalMax
        <3>3. it[1 .. k] = it[1 .. k - 1] + s[k].size
            BY <1>3, <3>1, <3>2
        <3> QED BY <1>0, <2>2, <3>3 DEF SizeStep
    <2> QED BY <2>1, <2>2 DEF OnSegments
<1> HIDE DEF it
<1> QED BY <1>0, <1>4, <1>5

LEMMA MeasureAppend ==
    ASSUME NEW P, Sized(P), NEW s \in Seq(P), NEW e \in P
    PROVE  Measure(s) \in Nat /\ Measure(Append(s, e)) = Measure(s) + e.size
<1>1. SizeStep(P) \in [Nat -> [P -> Nat]] /\ 0 \in Nat
    BY DEF SizeStep, Sized
<1>2. PICK it : OnSegments(it, Nat, 0, SizeStep(P), s) /\ Measure(s) = it[1 .. Len(s)]
    BY MeasureFold
<1>0. Append(s, e) \in Seq(P) /\ Len(Append(s, e)) = Len(s) + 1
    OBVIOUS
<1>3. PICK jt : /\ OnSegments(jt, Nat, 0, SizeStep(P), Append(s, e))
                /\ Measure(Append(s, e)) = jt[1 .. Len(Append(s, e))]
    BY <1>0, MeasureFold
<1>4. OneStepOn(it, jt, Nat, SizeStep(P), s, e)
    BY <1>1, <1>2, <1>3, FoldAppend, Zenon
<1> QED BY <1>0, <1>2, <1>3, <1>4 DEF OneStepOn, SizeStep

LEMMA MeasureEmpty == Measure(<<>>) = 0
<1>1. <<>> \in Seq({}) /\ Sized({}) /\ Len(<<>>) = 0 /\ 1 .. 0 = {}
    BY DEF Sized
<1>2. PICK it : OnSegments(it, Nat, 0, SizeStep({}), <<>>) /\ Measure(<<>>) = it[1 .. Len(<<>>)]
    BY <1>1, MeasureFold
<1> QED BY <1>1, <1>2 DEF OnSegments

LEMMA MeasureType ==
    ASSUME NEW P, Sized(P), NEW s \in Seq(P)
    PROVE  Measure(s) \in Nat
<1>1. CASE s = <<>>
    BY <1>1, MeasureEmpty
<1>2. CASE s # <<>>
    <2>1. s[1] \in P
        BY <1>2
    <2> QED BY <2>1, MeasureAppend
<1> QED BY <1>1, <1>2

LEMMA MeasureJoined ==
    ASSUME NEW P, Sized(P), NEW s \in Seq(P), NEW t \in Seq(P)
    PROVE  Measure(s \o t) = Measure(s) + Measure(t)
<1> DEFINE R == {n \in Nat : \A u \in Seq(P) :
                    Len(u) = n => Measure(s \o u) = Measure(s) + Measure(u)}
<1>0. Measure(s) \in Nat
    BY MeasureType
<1>1. 0 \in R
    <2>1. ASSUME NEW u \in Seq(P), Len(u) = 0
          PROVE  Measure(s \o u) = Measure(s) + Measure(u)
        <3>1. u = <<>> /\ s \o <<>> = s
            BY <2>1
        <3> QED BY <1>0, <3>1, MeasureEmpty
    <2> QED BY <2>1
<1>2. ASSUME NEW n \in R PROVE n + 1 \in R
    <2>0. n \in Nat /\ n + 1 \in Nat
        OBVIOUS
    <2>1. ASSUME NEW u \in Seq(P), Len(u) = n + 1
          PROVE  Measure(s \o u) = Measure(s) + Measure(u)
        <3> DEFINE v == SubSeq(u, 1, n)
                   e == u[n + 1]
        <3>1. v \in Seq(P) /\ Len(v) = n /\ e \in P /\ u = Append(v, e)
            BY <2>0, <2>1
        <3>2. s \o v \in Seq(P)
            BY <3>1
        <3>3. s \o u = Append(s \o v, e)
            <4> HIDE DEF v, e
            <4> QED BY <3>1
        <3>4. Measure(s \o v) = Measure(s) + Measure(v)
            <4> HIDE DEF v, e
            <4> QED BY <3>1
        <3> HIDE DEF v, e, R
        <3>5. /\ Measure(u) = Measure(v) + e.size
              /\ Measure(s \o u) = Measure(s \o v) + e.size
              /\ Measure(v) \in Nat /\ e.size \in Nat
            BY <3>1, <3>2, <3>3, MeasureAppend DEF Sized
        <3> QED BY <1>0, <3>4, <3>5
    <2> QED BY <2>0, <2>1
<1>3. R = Nat
    <2>1. R \in SUBSET Nat
        OBVIOUS
    <2> HIDE DEF R
    <2> QED BY <1>1, <1>2, <2>1, Induction
<1>4. Len(t) \in Nat /\ Len(t) \in R
    BY <1>3
<1> QED BY <1>4

-----------------------------------------------------------------------------
(* The recursive functions satisfy their equations. *)

LEMMA LeafStatusType ==
    ASSUME NEW tree \in TreeType, NEW at \in Places \ Ends
    PROVE  LeafStatus(tree[at.node], Found(tree, at)) \in EncoderStatuses
<1>1. tree[at.node] \in NodeType /\ FoundType(Found(tree, at))
    BY PlaceParts, LinkTypes, NextPlaces
<1>2. Found(tree, at).status \in EncoderStatuses
    BY <1>1 DEF FoundType
<1>3. OptionStatus(tree[at.node], Found(tree, at)) \in EncoderStatuses
    BY <1>1, OptionType
<1>4. {"OK", "Unknown"} \subseteq EncoderStatuses
    BY DEF EncoderStatuses
<1> QED BY <1>2, <1>3, <1>4 DEF LeafStatus

LEMMA StatusEquation ==
    ASSUME NEW tree \in TreeType, NoCycle(tree)
    PROVE  /\ \A at \in Places : StatusFrom(tree)[at] \in EncoderStatuses
           /\ \A at \in Ends : StatusFrom(tree)[at] = "OK"
           /\ \A at \in Places \ Ends :
                 StatusFrom(tree)[at] =
                     FirstFault(StatusAt(tree, StatusFrom(tree), at),
                                StatusFrom(tree)[Behind(tree, at)])
<1> DEFINE E == EncoderStatuses
           Own(at) == LeafStatus(tree[at.node], Found(tree, at))
           step == [at \in Places \ Ends |-> [u \in E |-> [v \in E |->
                       FirstFault(FirstFault(Own(at), u), v)]]]
           Body(f, at) == IF at.node = NULL THEN "OK"
                          ELSE FirstFault(StatusAt(tree, f, at), f[Behind(tree, at)])
           Eq(f) == f = [at \in Places |-> Body(f, at)]
<1>1. \A at \in Places \ Ends : Own(at) \in E
    BY LeafStatusType
<1> HIDE DEF Own
<1>2. step \in [Places \ Ends -> [E -> [E -> E]]] /\ "OK" \in E
    BY <1>1 DEF FirstFault, EncoderStatuses
<1>3. NoWayBack(Places, Ends, InsideOf(tree), BehindOf(tree))
    BY PlacesLinked
<1>4. PICK f : IsLinkRun(f, Places, Ends, InsideOf(tree), BehindOf(tree), E, "OK", step)
    <2> HIDE DEF step, E
    <2> QED BY ONLY <1>2, <1>3, LinkRecursion
<1>5. f \in [Places -> E]
    BY <1>4 DEF IsLinkRun
<1>6. ASSUME NEW at \in Places PROVE f[at] = Body(f, at)
    <2>1. CASE at \in Ends
        <3>1. f[at] = "OK"
            BY <1>4, <2>1 DEF IsLinkRun
        <3> QED BY <2>1, <3>1, PlaceParts
    <2>2. CASE at \notin Ends
        <3>1. at \in Places \ Ends /\ at.node # NULL
            BY <2>2, PlaceParts
        <3>2. InsideOf(tree)[at] = Inside(tree, at) /\ BehindOf(tree)[at] = Behind(tree, at)
            BY <3>1 DEF InsideOf, BehindOf
        <3>3. f[Inside(tree, at)] \in E /\ f[Behind(tree, at)] \in E
            BY <1>5, <3>1, NextPlaces
        <3>4. f[at] = step[at][f[Inside(tree, at)]][f[Behind(tree, at)]]
            <4> HIDE DEF step, E
            <4> QED BY <1>4, <3>1, <3>2 DEF IsLinkRun
        <3>5. f[at] = FirstFault(FirstFault(Own(at), f[Inside(tree, at)]), f[Behind(tree, at)])
            <4> HIDE DEF E
            <4> QED BY <3>1, <3>3, <3>4
        <3> QED BY <3>1, <3>5 DEF StatusAt, Own
    <2> QED BY <2>1, <2>2
<1>7. Eq(f)
    <2> HIDE DEF Body, E
    <2> QED BY <1>5, <1>6
<1>8. PICK g : g = (CHOOSE h : Eq(h))
    OBVIOUS
<1>9. Eq(g)
    <2> HIDE DEF Eq
    <2> QED BY <1>7, <1>8
<1>10. g = StatusFrom(tree)
    BY <1>8 DEF StatusFrom
<1>11. \A at \in Places : g[at] = Body(g, at)
    <2> HIDE DEF Body
    <2> QED BY <1>9
<1>12. \A at \in Ends : g[at] = "OK"
    BY <1>11, PlaceParts DEF Ends
<1>13. \A at \in Places \ Ends : g[at] = FirstFault(StatusAt(tree, g, at), g[Behind(tree, at)])
    BY <1>11, PlaceParts
<1>14. \A at \in Places : g[at] \in E
    <2> DEFINE T == {at \in Places : g[at] \in E}
    <2>1. \A at \in Ends : at \in T
        BY <1>2, <1>12 DEF Ends
    <2>2. ASSUME NEW at \in Places \ Ends, Inside(tree, at) \in T, Behind(tree, at) \in T
          PROVE  at \in T
        <3>1. g[Inside(tree, at)] \in E /\ g[Behind(tree, at)] \in E /\ Own(at) \in E
            BY <1>1, <2>2
        <3>2. g[at] = FirstFault(FirstFault(Own(at), g[Inside(tree, at)]), g[Behind(tree, at)])
            BY <1>13 DEF StatusAt, Own
        <3>3. g[at] \in E
            <4> HIDE DEF E
            <4> QED BY <3>1, <3>2 DEF FirstFault
        <3> QED BY <3>3
    <2>3. T \in SUBSET Places
        OBVIOUS
    <2>4. T = Places
        <3> HIDE DEF T
        <3> QED BY <2>1, <2>2, <2>3, PlaceInduction
    <2> QED BY <2>4
<1> QED BY <1>10, <1>12, <1>13, <1>14

\* Counting siblings.
SiblingOf(tree) == [n \in Pointers \ {NULL} |-> tree[n].sibling]

LEMMA SiblingsLinked ==
    ASSUME NEW tree \in TreeType, NoCycle(tree)
    PROVE  NoWayBack(Pointers, {NULL}, SiblingOf(tree), SiblingOf(tree))
<1>1. {NULL} \subseteq Pointers /\ Pointers \ {NULL} = Nodes
    BY NodesAssumption DEF Pointers
<1>2. SiblingOf(tree) \in [Pointers \ {NULL} -> Pointers]
    BY <1>1, LinkTypes DEF SiblingOf
<1>3. ASSUME NEW S \in SUBSET Pointers, S # {}
      PROVE  \E n \in S : n \in {NULL} \/ (SiblingOf(tree)[n] \notin S /\ SiblingOf(tree)[n] \notin S)
    <2>1. CASE NULL \in S
        BY <2>1
    <2>2. CASE NULL \notin S
        <3>1. S \in SUBSET Nodes
            BY <1>1, <2>2
        <3>2. PICK n \in S : tree[n].sibling \notin S
            BY <1>3, <3>1 DEF NoCycle
        <3>3. SiblingOf(tree)[n] = tree[n].sibling
            BY <1>1, <3>1 DEF SiblingOf
        <3> QED BY <3>2, <3>3
    <2> QED BY <2>1, <2>2
<1> QED BY <1>1, <1>2, <1>3 DEF NoWayBack

LEMMA CountEquation ==
    ASSUME NEW tree \in TreeType, NoCycle(tree)
    PROVE  /\ \A n \in Pointers : SiblingCount(tree)[n] \in Nat
           /\ SiblingCount(tree)[NULL] = 0
           /\ \A n \in Nodes : SiblingCount(tree)[n] = 1 + SiblingCount(tree)[tree[n].sibling]
<1> DEFINE step == [n \in Pointers \ {NULL} |-> [u \in Nat |-> [v \in Nat |-> 1 + u]]]
           Eq(f) == f = [n \in Pointers |-> IF n = NULL THEN 0 ELSE 1 + f[tree[n].sibling]]
<1>0. /\ NULL \in Pointers /\ Pointers \ {NULL} = Nodes /\ Nodes \subseteq Pointers
      /\ NULL \notin Nodes /\ \A n \in Nodes : tree[n].sibling \in Pointers
    BY NodesAssumption, LinkTypes DEF Pointers
<1>1. step \in [Pointers \ {NULL} -> [Nat -> [Nat -> Nat]]] /\ 0 \in Nat
    OBVIOUS
<1>2. NoWayBack(Pointers, {NULL}, SiblingOf(tree), SiblingOf(tree))
    BY SiblingsLinked
<1>3. PICK f : IsLinkRun(f, Pointers, {NULL}, SiblingOf(tree), SiblingOf(tree), Nat, 0, step)
    <2> HIDE DEF step
    <2> QED BY ONLY <1>1, <1>2, LinkRecursion
<1>4. f \in [Pointers -> Nat] /\ f[NULL] = 0
    BY <1>3 DEF IsLinkRun
<1>5. ASSUME NEW n \in Nodes PROVE f[n] = 1 + f[tree[n].sibling]
    <2>1. SiblingOf(tree)[n] = tree[n].sibling
        BY <1>0 DEF SiblingOf
    <2>2. f[tree[n].sibling] \in Nat
        BY <1>0, <1>4
    <2>3. f[n] = step[n][f[tree[n].sibling]][f[tree[n].sibling]]
        <3> HIDE DEF step
        <3> QED BY <1>0, <1>3, <2>1 DEF IsLinkRun
    <2> QED BY <1>0, <2>2, <2>3
<1>6. Eq(f)
    BY <1>0, <1>4, <1>5
<1>7. PICK g : g = (CHOOSE h : Eq(h))
    OBVIOUS
<1>8. Eq(g)
    <2> HIDE DEF Eq
    <2> QED BY <1>6, <1>7
<1>9. g = SiblingCount(tree)
    BY <1>7 DEF SiblingCount
<1>10. g[NULL] = 0 /\ \A n \in Nodes : g[n] = 1 + g[tree[n].sibling]
    BY <1>0, <1>8
<1>11. \A n \in Pointers : g[n] \in Nat
    <2> DEFINE T == {n \in Pointers : g[n] \in Nat}
    <2>1. T \in SUBSET Pointers /\ {NULL} \subseteq T
        BY <1>0, <1>10
    <2>2. \A n \in Pointers \ {NULL} :
             SiblingOf(tree)[n] \in T /\ SiblingOf(tree)[n] \in T => n \in T
        BY <1>0, <1>10 DEF SiblingOf
    <2>3. T = Pointers
        <3> HIDE DEF T
        <3> QED BY ONLY <1>2, <2>1, <2>2, LinkInduction
    <2> QED BY <2>3
<1> QED BY <1>9, <1>10, <1>11

-----------------------------------------------------------------------------
(* Pieces whose nnints say something in W. *)

PiecesOf(W) == [kind: PieceKinds, size: Nat, value: W]

LEMMA PiecesSized == \A W : Sized(PiecesOf(W))
BY DEF Sized, PiecesOf

LEMMA AllKinds ==
    /\ {"length", "number", "integer", "data"} \subseteq PieceKinds
    /\ ParentTypes \cup LeafTypes \subseteq PieceKinds
BY DEF PieceKinds

LEMMA OnePiece ==
    ASSUME NEW W, NEW kind \in PieceKinds, NEW size \in Nat, NEW value \in W
    PROVE  << Piece(kind, size, value) >> \in Seq(PiecesOf(W))
BY DEF Piece, PiecesOf

LEMMA Joined ==
    ASSUME NEW P, NEW s \in Seq(P), NEW t \in Seq(P)
    PROVE  s \o t \in Seq(P)
OBVIOUS

LEMMA NnintOf ==
    ASSUME NEW W, Nat \subseteq W, NEW v \in W
    PROVE  bejEncodeNnint(v) \in Seq(PiecesOf(W))
<1>1. bejNnintLengthFieldOfUInt(v) \in Nat
    BY NnintSizes
<1>2. bejNnintLengthFieldOfUInt(v) \in W
    BY <1>1
<1> DEFINE size == bejNnintLengthFieldOfUInt(v)
<1> HIDE DEF size
<1>3. Piece("length", 1, size) \in PiecesOf(W) /\ Piece("number", size, v) \in PiecesOf(W)
    BY <1>1, <1>2, AllKinds DEF Piece, PiecesOf, size
<1>4. bejEncodeNnint(v) = << Piece("length", 1, size), Piece("number", size, v) >>
    BY DEF bejEncodeNnint, size
<1> QED BY <1>3, <1>4

LEMMA ValueOf ==
    ASSUME NEW W, Nat \subseteq W, NEW node \in NodeType, NEW option \in W, NEW size \in Nat
    PROVE  EncodeValue(node, option, size) \in Seq(PiecesOf(W))
<1>1. /\ node.type \in ParentTypes \cup LeafTypes
      /\ node.nChildren \in Nat
      /\ node.value.bytes \in Nat /\ node.value.zeros \in Nat /\ node.value.fract \in Nat
      /\ 0 \in Nat /\ 1 \in Nat
    BY DEF NodeType, ValueType
<1>2. /\ node.nChildren \in W /\ node.value.bytes \in W /\ node.value.zeros \in W
      /\ node.value.fract \in W /\ 0 \in W
    BY <1>1
<1>3. bejEncodeInteger(node.value.bytes) \in Seq(PiecesOf(W))
    BY <1>1, <1>2, AllKinds, OnePiece DEF bejEncodeInteger
<1> DEFINE value == EncodeValue(node, option, size)
<1>4. CASE node.type \in {"Set", "Array"}
    BY <1>2, <1>4, NnintOf DEF EncodeValue
<1>5. CASE node.type \in {"PropertyAnnotation", "Null"}
    <2>1. value = <<>>
        BY <1>5 DEF EncodeValue
    <2> QED BY <2>1
<1>6. CASE node.type = "Integer"
    BY <1>3, <1>6, Zenon DEF EncodeValue
<1>7. CASE node.type = "Enum"
    BY <1>7, NnintOf DEF EncodeValue
<1>8. CASE node.type = "String"
    BY <1>2, <1>8, AllKinds, OnePiece DEF EncodeValue
<1>9. CASE node.type = "Boolean"
    BY <1>1, <1>2, <1>9, AllKinds, OnePiece DEF EncodeValue
<1>10. CASE node.type = "Real"
    <2>1. value = bejEncodeNnint(node.value.bytes)
                      \o bejEncodeInteger(node.value.bytes)
                      \o bejEncodeNnint(node.value.zeros)
                      \o bejEncodeNnint(node.value.fract)
                      \o bejEncodeNnint(0)
        BY <1>10 DEF EncodeValue
    <2>2. /\ bejEncodeNnint(node.value.bytes) \in Seq(PiecesOf(W))
          /\ bejEncodeNnint(node.value.zeros) \in Seq(PiecesOf(W))
          /\ bejEncodeNnint(node.value.fract) \in Seq(PiecesOf(W))
          /\ bejEncodeNnint(0) \in Seq(PiecesOf(W))
        BY <1>2, NnintOf
    <2> HIDE DEF value
    <2>3. value \in Seq(PiecesOf(W))
        BY <1>3, <2>1, <2>2, Joined
    <2> QED BY <2>3 DEF value
<1> QED BY <1>1, <1>4, <1>5, <1>6, <1>7, <1>8, <1>9, <1>10 DEF ParentTypes, LeafTypes

LEMMA SflOf ==
    ASSUME NEW W, Nat \subseteq W, NEW node, node.type \in ParentTypes \cup LeafTypes,
           NEW seq \in Nat, NEW size \in Nat
    PROVE  EncodeSFL(node, seq, size) \in Seq(PiecesOf(W))
<1>1. seq \in W /\ size \in W /\ 0 \in W /\ 1 \in W /\ 1 \in Nat
    OBVIOUS
<1>2. bejEncodeNnint(seq) \in Seq(PiecesOf(W)) /\ bejEncodeNnint(size) \in Seq(PiecesOf(W))
    BY <1>1, NnintOf
<1>3. bejEncodeFormat(node) \in Seq(PiecesOf(W))
    <2>1. node.type \in PieceKinds
        BY AllKinds
    <2>2. (IF node.ro THEN 1 ELSE 0) \in W
        BY <1>1
    <2> QED BY <1>1, <2>1, <2>2, OnePiece DEF bejEncodeFormat
<1> QED BY <1>2, <1>3, Joined DEF EncodeSFL

-----------------------------------------------------------------------------
(* The encoding of a tree. Of an enum whose option is not in the dictionary  *)
(* the reference says nothing that could be written.                         *)

Said(tree) == Nat \cup {OptionSeq(tree[at.node], Found(tree, at)) : at \in Places \ Ends}

Encodings(tree) == Seq(PiecesOf(Said(tree)))

\* The tuple of a node in which a sequence of tuples is.
TupleOver(tree, at, inside) ==
    LET value == ValueHead(tree, at) \o inside
    IN  EncodeSFL([tree[at.node] EXCEPT !.ro = @ \/ Found(tree, at).again],
                  SequenceNumber(Found(tree, at)), Measure(value))
            \o value

LEMMA TupleAtOver ==
    ASSUME NEW tree, NEW f, NEW at
    PROVE  TupleAt(tree, f, at) = TupleOver(tree, at, f[Inside(tree, at)])
BY DEF TupleAt, TupleOver

LEMMA HeadOf ==
    ASSUME NEW tree \in TreeType, NoCycle(tree), NEW at \in Places \ Ends
    PROVE  ValueHead(tree, at) \in Encodings(tree)
<1> DEFINE node == tree[at.node]
<1>1. node \in NodeType /\ node.firstChild \in Pointers
    BY PlaceParts, LinkTypes
<1>2. Nat \subseteq Said(tree) /\ 0 \in Nat /\ 0 \in Said(tree)
    BY DEF Said
<1>3. CASE node.type \in {"Set", "Array"}
    <2>1. SiblingCount(tree)[node.firstChild] \in Said(tree)
        BY <1>1, <1>2, CountEquation
    <2>2. bejEncodeNnint(SiblingCount(tree)[node.firstChild]) \in Encodings(tree)
        BY <1>2, <2>1, NnintOf DEF Encodings
    <2> QED BY <1>3, <2>2 DEF ValueHead
<1>4. CASE node.type = "Enum"
    <2>1. OptionSeq(node, Found(tree, at)) \in Said(tree)
        BY DEF Said
    <2>2. EncodeValue(node, OptionSeq(node, Found(tree, at)), 0) \in Encodings(tree)
        <3> HIDE DEF node
        <3> QED BY <1>1, <1>2, <2>1, ValueOf DEF Encodings
    <2> QED BY <1>4, <2>2 DEF ValueHead
<1>5. CASE node.type \notin {"Set", "Array", "Enum"}
    <2>1. node.value.bytes \in Nat
        BY <1>1 DEF NodeType, ValueType
    <2>2. EncodeValue(node, 0, node.value.bytes) \in Encodings(tree)
        <3> HIDE DEF node
        <3> QED BY <1>1, <1>2, <2>1, ValueOf DEF Encodings
    <2> QED BY <1>5, <2>2 DEF ValueHead
<1> QED BY <1>3, <1>4, <1>5

LEMMA TupleOverType ==
    ASSUME NEW tree \in TreeType, NoCycle(tree), NEW at \in Places \ Ends,
           NEW inside \in Encodings(tree)
    PROVE  TupleOver(tree, at, inside) \in Encodings(tree)
<1> DEFINE value == ValueHead(tree, at) \o inside
           node == [tree[at.node] EXCEPT !.ro = @ \/ Found(tree, at).again]
           seq == SequenceNumber(Found(tree, at))
<1>1. value \in Encodings(tree)
    BY HeadOf, Joined DEF Encodings
<1>2. Measure(value) \in Nat
    <2> HIDE DEF value
    <2> QED BY <1>1, MeasureType, PiecesSized DEF Encodings
<1>3. node.type \in ParentTypes \cup LeafTypes
    <2>1. tree[at.node] \in NodeType
        BY PlaceParts, LinkTypes
    <2> QED BY <2>1 DEF NodeType
<1>4. seq \in Nat
    BY NextPlaces DEF FoundType
<1>5. Nat \subseteq Said(tree)
    BY DEF Said
<1>6. TupleOver(tree, at, inside) = EncodeSFL(node, seq, Measure(value)) \o value
    BY DEF TupleOver
<1> HIDE DEF value, node, seq
<1>7. EncodeSFL(node, seq, Measure(value)) \in Encodings(tree)
    BY <1>2, <1>3, <1>4, <1>5, SflOf DEF Encodings
<1> QED BY <1>1, <1>6, <1>7, Joined DEF Encodings

LEMMA TuplesEquation ==
    ASSUME NEW tree \in TreeType, NoCycle(tree)
    PROVE  /\ \A at \in Places : TuplesFrom(tree)[at] \in Encodings(tree)
           /\ \A at \in Ends : TuplesFrom(tree)[at] = <<>>
           /\ \A at \in Places \ Ends :
                 TuplesFrom(tree)[at] =
                     TupleAt(tree, TuplesFrom(tree), at) \o TuplesFrom(tree)[Behind(tree, at)]
<1> DEFINE E == Encodings(tree)
           step == [at \in Places \ Ends |-> [u \in E |-> [v \in E |->
                       TupleOver(tree, at, u) \o v]]]
           Body(f, at) == IF at.node = NULL THEN <<>>
                          ELSE TupleAt(tree, f, at) \o f[Behind(tree, at)]
           Eq(f) == f = [at \in Places |-> Body(f, at)]
<1>1. ASSUME NEW at \in Places \ Ends, NEW u \in E, NEW v \in E
      PROVE  TupleOver(tree, at, u) \o v \in E
    BY TupleOverType, Joined DEF Encodings
<1>2. step \in [Places \ Ends -> [E -> [E -> E]]] /\ <<>> \in E
    <2>1. <<>> \in E
        BY DEF Encodings
    <2> HIDE DEF E
    <2> QED BY <1>1, <2>1
<1>3. NoWayBack(Places, Ends, InsideOf(tree), BehindOf(tree))
    BY PlacesLinked
<1>4. PICK f : IsLinkRun(f, Places, Ends, InsideOf(tree), BehindOf(tree), E, <<>>, step)
    <2> HIDE DEF step, E
    <2> QED BY ONLY <1>2, <1>3, LinkRecursion
<1>5. f \in [Places -> E]
    BY <1>4 DEF IsLinkRun
<1>6. ASSUME NEW at \in Places PROVE f[at] = Body(f, at)
    <2>1. CASE at \in Ends
        <3>1. f[at] = <<>>
            BY <1>4, <2>1 DEF IsLinkRun
        <3> QED BY <2>1, <3>1, PlaceParts
    <2>2. CASE at \notin Ends
        <3>1. at \in Places \ Ends /\ at.node # NULL
            BY <2>2, PlaceParts
        <3>2. InsideOf(tree)[at] = Inside(tree, at) /\ BehindOf(tree)[at] = Behind(tree, at)
            BY <3>1 DEF InsideOf, BehindOf
        <3>3. f[Inside(tree, at)] \in E /\ f[Behind(tree, at)] \in E
            BY <1>5, <3>1, NextPlaces
        <3>4. f[at] = step[at][f[Inside(tree, at)]][f[Behind(tree, at)]]
            <4> HIDE DEF step, E
            <4> QED BY <1>4, <3>1, <3>2 DEF IsLinkRun
        <3>5. f[at] = TupleOver(tree, at, f[Inside(tree, at)]) \o f[Behind(tree, at)]
            <4> HIDE DEF E
            <4> QED BY <3>1, <3>3, <3>4
        <3> QED BY <3>1, <3>5, TupleAtOver
    <2> QED BY <2>1, <2>2
<1>7. Eq(f)
    <2> HIDE DEF Body, E
    <2> QED BY <1>5, <1>6
<1>8. PICK g : g = (CHOOSE h : Eq(h))
    OBVIOUS
<1>9. Eq(g)
    <2> HIDE DEF Eq
    <2> QED BY <1>7, <1>8
<1>10. g = TuplesFrom(tree)
    BY <1>8 DEF TuplesFrom
<1>11. \A at \in Places : g[at] = Body(g, at)
    <2> HIDE DEF Body
    <2> QED BY <1>9
<1>12. \A at \in Ends : g[at] = <<>>
    BY <1>11, PlaceParts DEF Ends
<1>13. \A at \in Places \ Ends : g[at] = TupleAt(tree, g, at) \o g[Behind(tree, at)]
    BY <1>11, PlaceParts
<1>14. \A at \in Places : g[at] \in E
    <2> DEFINE T == {at \in Places : g[at] \in E}
    <2>1. \A at \in Ends : at \in T
        BY <1>2, <1>12 DEF Ends
    <2>2. ASSUME NEW at \in Places \ Ends, Inside(tree, at) \in T, Behind(tree, at) \in T
          PROVE  at \in T
        <3>1. g[Inside(tree, at)] \in E /\ g[Behind(tree, at)] \in E
            BY <2>2
        <3>2. g[at] = TupleOver(tree, at, g[Inside(tree, at)]) \o g[Behind(tree, at)]
            BY <1>13, TupleAtOver
        <3>3. g[at] \in E
            <4> HIDE DEF E
            <4> QED BY <1>1, <3>1, <3>2
        <3> QED BY <3>3
    <2>3. T \in SUBSET Places
        OBVIOUS
    <2>4. T = Places
        <3> HIDE DEF T
        <3> QED BY <2>1, <2>2, <2>3, PlaceInduction
    <2> QED BY <2>4
<1> QED BY <1>10, <1>12, <1>13, <1>14

-----------------------------------------------------------------------------
(* The sizes the first walk computes are those of what is written.           *)

\* A byte holds no power of 256 but the first.
LEMMA PowersOf256 ==
    \A n \in Nat \ {0} : Numbers!Power(256, n) \in Nat /\ Numbers!Power(256, n) >= 256
<1> DEFINE step == [n \in Nat |-> [x \in Nat |-> 256 * x]]
           Eq(f) == f = [k \in Nat |-> IF k = 0 THEN 1 ELSE 256 * f[k - 1]]
<1>1. step \in [Nat -> [Nat -> Nat]] /\ 1 \in Nat
    OBVIOUS
<1>2. PICK f : IsRun(f, Nat, 1, step)
    <2> HIDE DEF step
    <2> QED BY <1>1, Recursion
<1>3. Eq(f)
    <2>1. ASSUME NEW k \in Nat PROVE f[k] = IF k = 0 THEN 1 ELSE 256 * f[k - 1]
        <3>1. CASE k = 0
            BY <1>2, <3>1 DEF IsRun
        <3>2. CASE k # 0
            <4>1. k - 1 \in Nat /\ k - 1 + 1 = k
                BY <3>2
            <4>2. f[k] = step[k - 1][f[k - 1]] /\ f[k - 1] \in Nat
                BY <1>2, <4>1 DEF IsRun
            <4> QED BY <3>2, <4>1, <4>2
        <3> QED BY <3>1, <3>2
    <2> QED BY <1>2, <2>1 DEF IsRun
<1>4. PICK g : g = (CHOOSE h : Eq(h))
    OBVIOUS
<1>5. Eq(g)
    <2> HIDE DEF Eq
    <2> QED BY <1>3, <1>4
<1>6. g[0] = 1 /\ \A n \in Nat : g[n + 1] = 256 * g[n]
    BY <1>5
<1>7. \A n \in Nat : g[n] \in Nat /\ g[n] >= 1 /\ (n # 0 => g[n] >= 256)
    <2> DEFINE T == {n \in Nat : g[n] \in Nat /\ g[n] >= 1 /\ (n # 0 => g[n] >= 256)}
    <2>1. 0 \in T
        BY <1>6
    <2>2. ASSUME NEW n \in T PROVE n + 1 \in T
        <3>1. n \in Nat /\ g[n] \in Nat /\ g[n] >= 1 /\ g[n + 1] = 256 * g[n]
            BY <1>6
        <3>2. g[n + 1] \in Nat /\ g[n + 1] >= 256
            BY <3>1
        <3> QED BY <3>1, <3>2
    <2>3. T = Nat
        <3> HIDE DEF T
        <3>1. T \in SUBSET Nat
            BY DEF T
        <3> QED BY <2>1, <2>2, <3>1, Induction
    <2> QED BY <2>3
<1>8. \A n \in Nat : Numbers!Power(256, n) = g[n]
    BY <1>4 DEF Numbers!Power
<1> QED BY <1>7, <1>8

\* BEJ_TUPLE_L_SIZE_FOR_BEJ_INTEGER and BEJ_TUPLE_L_SIZE_FOR_BEJ_BOOL are right
\* for values of a byte's length.
LEMMA SmallNnint ==
    ASSUME NEW v \in 0 .. 255
    PROVE  bejNnintEncodingSizeOfUInt(v) = 2
<1> DEFINE Fits(k) == /\ k = 8 \/ v < Numbers!Power(256, k)
                      /\ k = 1 \/ ~(v < Numbers!Power(256, k - 1))
<1>1. Fits(1) /\ 1 \in 1 .. 8
    BY PowersOf256
<1>2. ASSUME NEW k \in 1 .. 8, Fits(k) PROVE k = 1
    <2> SUFFICES ASSUME k # 1 PROVE FALSE
        OBVIOUS
    <2>1. k - 1 \in Nat \ {0}
        OBVIOUS
    <2>2. Numbers!Power(256, k - 1) \in Nat /\ Numbers!Power(256, k - 1) >= 256
        BY <2>1, PowersOf256
    <2>3. ~(v < Numbers!Power(256, k - 1))
        BY <1>2
    <2> QED BY <2>2, <2>3
<1>3. (CHOOSE k \in 1 .. 8 : Fits(k)) = 1
    <2> HIDE DEF Fits
    <2> QED BY <1>1, <1>2
<1>4. bejNnintLengthFieldOfUInt(v) = CHOOSE k \in 1 .. 8 : Fits(k)
    BY DEF bejNnintLengthFieldOfUInt, Numbers!bejNnintLengthFieldOfUInt
<1>5. bejNnintLengthFieldOfUInt(v) = 1
    BY <1>3, <1>4
<1> QED BY <1>5 DEF bejNnintEncodingSizeOfUInt, Numbers!bejNnintEncodingSizeOfUInt,
                    bejNnintLengthFieldOfUInt

LEMMA MeasureOne ==
    ASSUME NEW kind, NEW size \in Nat, NEW value
    PROVE  Measure(<< Piece(kind, size, value) >>) = size
<1> DEFINE p == Piece(kind, size, value)
<1>1. Sized({p}) /\ p \in {p} /\ <<>> \in Seq({p}) /\ p.size = size
    BY DEF Sized, Piece
<1> HIDE DEF p
<1>2. <<p>> = Append(<<>>, p)
    OBVIOUS
<1>3. Measure(<<p>>) = Measure(<<>>) + p.size
    BY <1>1, <1>2, MeasureAppend
<1> QED BY <1>1, <1>3, MeasureEmpty DEF p

\* Whatever an nnint says, it takes the bytes that are computed for it.
LEMMA MeasureNnint ==
    ASSUME NEW v
    PROVE  Measure(bejEncodeNnint(v)) = bejNnintEncodingSizeOfUInt(v)
<1> DEFINE size == bejNnintLengthFieldOfUInt(v)
           p == Piece("length", 1, size)
           q == Piece("number", size, v)
<1>1. size \in Nat
    BY NnintSizes
<1>2. Sized({p, q}) /\ <<p>> \in Seq({p, q}) /\ p.size = 1 /\ q.size = size /\ q \in {p, q}
    BY <1>1 DEF Sized, Piece
<1>3. Measure(<<p>>) = 1
    BY <1>1, MeasureOne
<1>4. bejEncodeNnint(v) = <<p, q>>
    BY DEF bejEncodeNnint
<1>5. bejNnintEncodingSizeOfUInt(v) = size + 1
    BY DEF bejNnintEncodingSizeOfUInt, Numbers!bejNnintEncodingSizeOfUInt,
           bejNnintLengthFieldOfUInt
<1> HIDE DEF p, q, size
<1>6. <<p, q>> = Append(<<p>>, q)
    OBVIOUS
<1>7. Measure(Append(<<p>>, q)) = Measure(<<p>>) + q.size
    BY <1>2, MeasureAppend
<1>8. Measure(<<p, q>>) = 1 + size
    BY <1>2, <1>3, <1>6, <1>7
<1>9. 1 + size = size + 1
    BY <1>1
<1> QED BY ONLY <1>4, <1>5, <1>8, <1>9

LEMMA MeasureSfl ==
    ASSUME NEW node, node.type \in ParentTypes \cup LeafTypes, NEW seq \in Nat, NEW size \in Nat
    PROVE  Measure(EncodeSFL(node, seq, size)) =
               bejNnintEncodingSizeOfUInt(seq) + TupleFSize + bejNnintEncodingSizeOfUInt(size)
<1> DEFINE s == bejEncodeNnint(seq)
           f == bejEncodeFormat(node)
           l == bejEncodeNnint(size)
           P == PiecesOf(Nat)
<1>1. s \in Seq(P) /\ l \in Seq(P)
    BY NnintOf
<1>2. f \in Seq(P)
    <2>1. node.type \in PieceKinds /\ (IF node.ro THEN 1 ELSE 0) \in Nat /\ 1 \in Nat
        BY AllKinds
    <2> QED BY <2>1, OnePiece DEF bejEncodeFormat
<1>3. Measure(f) = 1
    BY MeasureOne DEF bejEncodeFormat
<1>4. /\ Measure(s) = bejNnintEncodingSizeOfUInt(seq)
      /\ Measure(l) = bejNnintEncodingSizeOfUInt(size)
    BY MeasureNnint
<1>5. EncodeSFL(node, seq, size) = (s \o f) \o l
    BY DEF EncodeSFL
<1>6. Sized(P)
    BY PiecesSized
<1> HIDE DEF s, f, l, P
<1>7. s \o f \in Seq(P)
    BY <1>1, <1>2
<1>8. Measure((s \o f) \o l) = Measure(s) + Measure(f) + Measure(l)
    <2>1. Measure((s \o f) \o l) = Measure(s \o f) + Measure(l)
        BY <1>1, <1>6, <1>7, MeasureJoined
    <2>2. Measure(s \o f) = Measure(s) + Measure(f)
        BY <1>1, <1>2, <1>6, MeasureJoined
    <2> QED BY <2>1, <2>2
<1> QED BY <1>3, <1>4, <1>5, <1>8 DEF TupleFSize

LEMMA MeasureInteger ==
    ASSUME NEW bytes \in Nat
    PROVE  Measure(bejEncodeInteger(bytes)) = bytes
BY MeasureOne DEF bejEncodeInteger

LEMMA RealSize ==
    ASSUME NEW tree \in TreeType, NoCycle(tree), IntegersFit(tree), NEW at \in Places \ Ends,
           tree[at.node].type = "Real"
    PROVE  Measure(ValueHead(tree, at)) = LeafValueSize(tree[at.node], 0)
<1> DEFINE node == tree[at.node]
           P == PiecesOf(Nat)
           a == bejEncodeNnint(node.value.bytes)
           b == bejEncodeInteger(node.value.bytes)
           c == bejEncodeNnint(node.value.zeros)
           d == bejEncodeNnint(node.value.fract)
           e == bejEncodeNnint(0)
           size(v) == bejNnintEncodingSizeOfUInt(v)
<1>1. node \in NodeType /\ at.node \in Nodes
    BY PlaceParts, LinkTypes
<1>2. /\ node.value.bytes \in Nat /\ node.value.zeros \in Nat /\ node.value.fract \in Nat
      /\ 0 \in Nat
    BY <1>1 DEF NodeType, ValueType
<1>3. a \in Seq(P) /\ c \in Seq(P) /\ d \in Seq(P) /\ e \in Seq(P)
    BY <1>2, NnintOf
<1>4. b \in Seq(P)
    BY <1>2, AllKinds, OnePiece DEF bejEncodeInteger
<1>5. /\ Measure(a) = 2
      /\ Measure(b) = node.value.bytes
      /\ Measure(c) = size(node.value.zeros)
      /\ Measure(d) = size(node.value.fract)
      /\ Measure(e) = size(0)
    <2>1. node.value.bytes \in 0 .. 255
        <3>1. \A n \in Nodes : tree[n].type \in {"Integer", "Real"} => tree[n].value.bytes <= 255
            BY DEF IntegersFit
        <3>2. node.value.bytes <= 255
            BY <1>1, <3>1
        <3>3. \A x \in Nat : x <= 255 => x \in 0 .. 255
            OBVIOUS
        <3> QED BY ONLY <1>2, <3>2, <3>3
    <2>2. size(node.value.bytes) = 2
        BY <2>1, SmallNnint
    <2> QED BY <1>2, <2>2, MeasureNnint, MeasureInteger
<1>6. ValueHead(tree, at) = a \o b \o c \o d \o e
    BY Zenon DEF ValueHead, EncodeValue
<1>7. LeafValueSize(node, 0) = 2 + node.value.bytes + size(node.value.zeros)
                                   + size(node.value.fract) + size(0)
    BY DEF LeafValueSize, TupleLSizeForInteger
<1> DEFINE s == a \o b
           t == s \o c
           u == t \o d
<1>8. Sized(P)
    BY PiecesSized
<1> HIDE DEF P, a, b, c, d, e
<1>9. s \in Seq(P) /\ Measure(s) = Measure(a) + Measure(b)
    BY <1>3, <1>4, <1>8, Joined, MeasureJoined
<1>10. t \in Seq(P) /\ Measure(t) = Measure(s) + Measure(c)
    <2> HIDE DEF s
    <2> QED BY <1>3, <1>8, <1>9, Joined, MeasureJoined
<1>11. u \in Seq(P) /\ Measure(u) = Measure(t) + Measure(d)
    <2> HIDE DEF s, t
    <2> QED BY <1>3, <1>8, <1>10, Joined, MeasureJoined
<1>12. Measure(u \o e) = Measure(u) + Measure(e)
    <2> HIDE DEF s, t, u
    <2> QED BY <1>3, <1>8, <1>11, MeasureJoined
<1>13. Measure(ValueHead(tree, at)) = 2 + node.value.bytes + size(node.value.zeros)
                                   + size(node.value.fract) + size(0)
    <2>1. ValueHead(tree, at) = u \o e
        BY <1>6
    <2> HIDE DEF s, t, u, node, size
    <2> QED BY <1>5, <1>9, <1>10, <1>11, <1>12, <2>1
<1> QED BY <1>7, <1>13

\* The size of what a value starts with (bejUpdateLeafNodeMetaData and
\* bejUpdateParentMetaData).
LEMMA HeadSizes ==
    ASSUME NEW tree \in TreeType, WellBuilt(tree), NEW at \in Places \ Ends
    PROVE  LET node == tree[at.node]
               option == OptionSeq(node, Found(tree, at))
               size == Measure(ValueHead(tree, at))
           IN  IF bejTreeIsParentType(node)
               THEN size = CountSize(node)
               ELSE /\ node.type = "Enum" => size = LeafValueSize(node, option)
                    /\ node.type # "Enum" => \A any : size = LeafValueSize(node, any)
                    /\ LeafLengthSize(node, size) = bejNnintEncodingSizeOfUInt(size)
<1> DEFINE node == tree[at.node]
           option == OptionSeq(node, Found(tree, at))
           size == Measure(ValueHead(tree, at))
<1>0. NoCycle(tree) /\ ChildrenCounted(tree) /\ IntegersFit(tree)
    BY DEF WellBuilt
<1>1. node \in NodeType /\ at.node \in Nodes
    BY PlaceParts, LinkTypes
<1>2. node.type \in ParentTypes \cup LeafTypes /\ node.value.bytes \in Nat /\ 0 \in Nat /\ 1 \in Nat
    BY <1>1 DEF NodeType, ValueType
<1>3. CASE node.type \in {"Set", "Array"}
    <2>1. bejTreeIsParentType(node) /\ node.nChildren = SiblingCount(tree)[node.firstChild]
        BY <1>0, <1>1, <1>3 DEF ChildrenCounted, bejTreeIsParentType, ParentTypes
    <2>2. ValueHead(tree, at) = bejEncodeNnint(node.nChildren)
        BY <1>3, <2>1 DEF ValueHead
    <2>3. CountSize(node) = bejNnintEncodingSizeOfUInt(node.nChildren)
        BY <1>3 DEF CountSize
    <2> QED BY <2>1, <2>2, <2>3, MeasureNnint
<1>4. CASE node.type = "PropertyAnnotation"
    <2>1. bejTreeIsParentType(node)
        BY <1>4 DEF bejTreeIsParentType, ParentTypes
    <2>2. ValueHead(tree, at) = <<>>
        BY <1>4 DEF ValueHead, EncodeValue
    <2>3. CountSize(node) = 0
        BY <1>4 DEF CountSize
    <2> QED BY <2>1, <2>2, <2>3, MeasureEmpty
<1>5. CASE node.type = "Enum"
    <2>1. ~bejTreeIsParentType(node)
        BY <1>5 DEF bejTreeIsParentType, ParentTypes
    <2>2. ValueHead(tree, at) = bejEncodeNnint(option)
        BY <1>5 DEF ValueHead, EncodeValue
    <2>3. LeafValueSize(node, option) = bejNnintEncodingSizeOfUInt(option)
        <3> HIDE DEF option
        <3> QED BY <1>5 DEF LeafValueSize
    <2>4. LeafLengthSize(node, size) = bejNnintEncodingSizeOfUInt(size)
        <3> HIDE DEF size
        <3> QED BY <1>5 DEF LeafLengthSize
    <2> QED BY <1>5, <2>1, <2>2, <2>3, <2>4, MeasureNnint
<1>6. CASE node.type = "Integer"
    <2>1. ~bejTreeIsParentType(node)
        BY <1>6 DEF bejTreeIsParentType, ParentTypes
    <2>2. ValueHead(tree, at) = bejEncodeInteger(node.value.bytes)
        BY <1>6, Zenon DEF ValueHead, EncodeValue
    <2>3. size = node.value.bytes
        BY <1>2, <2>2, MeasureInteger
    <2>4. \A any : LeafValueSize(node, any) = node.value.bytes
        BY <1>6, Zenon DEF LeafValueSize
    <2>5. size \in 0 .. 255
        <3>1. node.value.bytes <= 255
            BY <1>0, <1>1, <1>6 DEF IntegersFit
        <3> HIDE DEF size, node
        <3> QED BY <1>2, <2>3, <3>1
    <2>6. LeafLengthSize(node, size) = 2
        <3> HIDE DEF size
        <3> QED BY <1>6 DEF LeafLengthSize, TupleLSizeForInteger
    <2> QED BY <1>6, <2>1, <2>3, <2>4, <2>5, <2>6, SmallNnint
<1>7. CASE node.type = "String"
    <2>1. ~bejTreeIsParentType(node)
        BY <1>7 DEF bejTreeIsParentType, ParentTypes
    <2>2. ValueHead(tree, at) = << Piece("data", node.value.bytes, 0) >>
        BY <1>7 DEF ValueHead, EncodeValue
    <2>3. size = node.value.bytes
        BY <1>2, <2>2, MeasureOne
    <2>4. \A any : LeafValueSize(node, any) = node.value.bytes
        BY <1>7, Zenon DEF LeafValueSize
    <2>5. LeafLengthSize(node, size) = bejNnintEncodingSizeOfUInt(size)
        <3> HIDE DEF size
        <3> QED BY <1>7 DEF LeafLengthSize
    <2> QED BY <1>7, <2>1, <2>3, <2>4, <2>5
<1>8. CASE node.type = "Boolean"
    <2>1. ~bejTreeIsParentType(node)
        BY <1>8 DEF bejTreeIsParentType, ParentTypes
    <2>2. ValueHead(tree, at) = << Piece("data", 1, 0) >>
        BY <1>8 DEF ValueHead, EncodeValue
    <2>3. size = 1
        BY <1>2, <2>2, MeasureOne
    <2>4. \A any : LeafValueSize(node, any) = 1
        BY <1>8 DEF LeafValueSize
    <2>5. LeafLengthSize(node, size) = 2 /\ size \in 0 .. 255
        <3>1. size \in 0 .. 255
            BY <2>3
        <3> HIDE DEF size
        <3> QED BY <1>8, <3>1 DEF LeafLengthSize, TupleLSizeForBool
    <2> QED BY <1>8, <2>1, <2>3, <2>4, <2>5, SmallNnint
<1>9. CASE node.type = "Null"
    <2>1. ~bejTreeIsParentType(node)
        BY <1>9 DEF bejTreeIsParentType, ParentTypes
    <2>2. ValueHead(tree, at) = <<>>
        BY <1>9 DEF ValueHead, EncodeValue
    <2>3. size = 0
        BY <2>2, MeasureEmpty
    <2>4. \A any : LeafValueSize(node, any) = 0
        BY <1>9 DEF LeafValueSize
    <2>5. LeafLengthSize(node, size) = 2 /\ size \in 0 .. 255
        <3>1. size \in 0 .. 255
            BY <2>3
        <3> HIDE DEF size
        <3> QED BY <1>9, <3>1 DEF LeafLengthSize, TupleLSizeForInteger
    <2> QED BY <1>9, <2>1, <2>3, <2>4, <2>5, SmallNnint
<1>10. CASE node.type = "Real"
    <2>1. ~bejTreeIsParentType(node)
        BY <1>10 DEF bejTreeIsParentType, ParentTypes
    <2>2. size = LeafValueSize(node, 0)
        BY <1>0, <1>10, RealSize
    <2>3. \A any : LeafValueSize(node, any) = LeafValueSize(node, 0)
        BY <1>10 DEF LeafValueSize
    <2>4. LeafLengthSize(node, size) = bejNnintEncodingSizeOfUInt(size)
        <3> HIDE DEF size
        <3> QED BY <1>10 DEF LeafLengthSize
    <2> QED BY <1>10, <2>1, <2>2, <2>3, <2>4
<1> QED
    BY <1>2, <1>3, <1>4, <1>5, <1>6, <1>7, <1>8, <1>9, <1>10 DEF ParentTypes, LeafTypes

\* The value of the node at a place, with the tuples in it.
ValueAt(tree, at) == ValueHead(tree, at) \o TuplesFrom(tree)[Inside(tree, at)]

LEMMA Associative ==
    ASSUME NEW P, NEW s \in Seq(P), NEW t \in Seq(P), NEW u \in Seq(P)
    PROVE  (s \o t) \o u = s \o (t \o u)
OBVIOUS

Associates(s, t, u) == (s \o t) \o u = s \o (t \o u)

LEMMA EncodingsAssociate ==
    ASSUME NEW tree, NEW s \in Encodings(tree), NEW t \in Encodings(tree), NEW u \in Encodings(tree)
    PROVE  Associates(s, t, u)
BY Associative DEF Encodings, Associates

LEMMA MeasureEncoding ==
    ASSUME NEW tree, NEW s \in Encodings(tree), NEW t \in Encodings(tree)
    PROVE  /\ Measure(s) \in Nat
           /\ s \o t \in Encodings(tree)
           /\ Measure(s \o t) = Measure(s) + Measure(t)
<1> DEFINE P == PiecesOf(Said(tree))
<1>1. Sized(P) /\ s \in Seq(P) /\ t \in Seq(P) /\ Encodings(tree) = Seq(P)
    BY PiecesSized DEF Encodings
<1> HIDE DEF P
<1> QED BY <1>1, MeasureType, MeasureJoined, Joined

LEMMA TuplesTyped ==
    ASSUME NEW tree \in TreeType, NoCycle(tree), NEW at \in Places \ Ends
    PROVE  /\ TuplesFrom(tree)[Inside(tree, at)] \in Encodings(tree)
           /\ TuplesFrom(tree)[Behind(tree, at)] \in Encodings(tree)
           /\ TuplesFrom(tree)[at] \in Encodings(tree)
           /\ ValueAt(tree, at) \in Encodings(tree)
           /\ TupleAt(tree, TuplesFrom(tree), at) \in Encodings(tree)
<1>1. Inside(tree, at) \in Places /\ Behind(tree, at) \in Places
    BY NextPlaces
<1>2. /\ TuplesFrom(tree)[Inside(tree, at)] \in Encodings(tree)
      /\ TuplesFrom(tree)[Behind(tree, at)] \in Encodings(tree)
      /\ TuplesFrom(tree)[at] \in Encodings(tree)
    BY <1>1, TuplesEquation
<1>3. ValueAt(tree, at) \in Encodings(tree)
    BY <1>2, HeadOf, MeasureEncoding DEF ValueAt
<1>4. TupleAt(tree, TuplesFrom(tree), at) \in Encodings(tree)
    BY <1>2, TupleAtOver, TupleOverType
<1> QED BY <1>2, <1>3, <1>4

\* What the first walk has to add up: the value of a node, the tuple of it, and
\* the tuples behind it.
LEMMA Sums ==
    ASSUME NEW tree \in TreeType, NoCycle(tree), NEW at \in Places \ Ends
    PROVE  /\ Measure(ValueAt(tree, at)) \in Nat
           /\ Measure(TuplesFrom(tree)[Inside(tree, at)]) \in Nat
           /\ Measure(TuplesFrom(tree)[Behind(tree, at)]) \in Nat
           /\ Measure(ValueHead(tree, at)) \in Nat
           /\ Measure(ValueAt(tree, at)) =
                  Measure(ValueHead(tree, at)) + Measure(TuplesFrom(tree)[Inside(tree, at)])
           /\ Measure(TupleAt(tree, TuplesFrom(tree), at)) =
                  bejNnintEncodingSizeOfUInt(SequenceNumber(Found(tree, at))) + TupleFSize
                      + bejNnintEncodingSizeOfUInt(Measure(ValueAt(tree, at)))
                      + Measure(ValueAt(tree, at))
           /\ Measure(TupleAt(tree, TuplesFrom(tree), at)) \in Nat
           /\ Measure(TuplesFrom(tree)[at]) =
                  Measure(TupleAt(tree, TuplesFrom(tree), at))
                      + Measure(TuplesFrom(tree)[Behind(tree, at)])
<1> DEFINE inside == TuplesFrom(tree)[Inside(tree, at)]
           behind == TuplesFrom(tree)[Behind(tree, at)]
           head == ValueHead(tree, at)
           value == ValueAt(tree, at)
           tuple == TupleAt(tree, TuplesFrom(tree), at)
           node == [tree[at.node] EXCEPT !.ro = @ \/ Found(tree, at).again]
           seq == SequenceNumber(Found(tree, at))
           sfl == EncodeSFL(node, seq, Measure(value))
           E == Encodings(tree)
<1>1. inside \in E /\ behind \in E /\ head \in E /\ value \in E /\ tuple \in E
    BY TuplesTyped, HeadOf
<1>2. value = head \o inside /\ tuple = sfl \o value
    BY DEF ValueAt, TupleAt
<1>3. TuplesFrom(tree)[at] = tuple \o behind
    BY TuplesEquation
<1>4. Measure(value) \in Nat
    <2> HIDE DEF value
    <2> QED BY <1>1, MeasureEncoding
<1>5. node.type \in ParentTypes \cup LeafTypes
    <2>1. tree[at.node] \in NodeType
        BY PlaceParts, LinkTypes
    <2> QED BY <2>1 DEF NodeType
<1>6. seq \in Nat
    BY NextPlaces DEF FoundType
<1> HIDE DEF inside, behind, head, value, tuple, node, seq
<1>7. sfl \in E
    <2>1. Nat \subseteq Said(tree)
        BY DEF Said
    <2> QED BY <1>4, <1>5, <1>6, <2>1, SflOf DEF Encodings
<1>8. Measure(sfl) = bejNnintEncodingSizeOfUInt(seq) + TupleFSize
                         + bejNnintEncodingSizeOfUInt(Measure(value))
    BY <1>4, <1>5, <1>6, MeasureSfl
<1> HIDE DEF sfl, E
<1>9. /\ Measure(inside) \in Nat /\ Measure(behind) \in Nat /\ Measure(head) \in Nat
      /\ Measure(value) = Measure(head) + Measure(inside)
    BY <1>1, <1>2, MeasureEncoding DEF E
<1>10. Measure(tuple) \in Nat /\ Measure(tuple) = Measure(sfl) + Measure(value)
    BY <1>1, <1>2, <1>7, MeasureEncoding DEF E
<1>11. Measure(TuplesFrom(tree)[at]) = Measure(tuple) + Measure(behind)
    BY <1>1, <1>3, MeasureEncoding DEF E
<1>12. Measure(tuple) = bejNnintEncodingSizeOfUInt(seq) + TupleFSize
                         + bejNnintEncodingSizeOfUInt(Measure(value)) + Measure(value)
    BY <1>8, <1>10
<1> QED BY <1>4, <1>9, <1>10, <1>11, <1>12 DEF inside, behind, head, value, tuple, seq

\* Nothing that is derived from a node but its format depends on its flag.
LEMMA OnlyRo ==
    ASSUME NEW node \in NodeType, NEW other \in NodeType, NEW ro,
           other = [node EXCEPT !.ro = ro]
    PROVE  /\ other.type = node.type /\ other.name = node.name /\ other.value = node.value
           /\ other.sibling = node.sibling /\ other.firstChild = node.firstChild
           /\ other.nChildren = node.nChildren /\ other.ro = ro
           /\ bejTreeIsParentType(other) = bejTreeIsParentType(node)
           /\ \A dict, index, start :
                 bejFindSeqNumAndChildDictOffset(other, dict, index, start) =
                     bejFindSeqNumAndChildDictOffset(node, dict, index, start)
           /\ \A found : /\ LeafStatus(other, found) = LeafStatus(node, found)
                         /\ OptionSeq(other, found) = OptionSeq(node, found)
           /\ CountSize(other) = CountSize(node)
           /\ \A any : /\ LeafValueSize(other, any) = LeafValueSize(node, any)
                       /\ LeafLengthSize(other, any) = LeafLengthSize(node, any)
           /\ \A option, size : EncodeValue(other, option, size) = EncodeValue(node, option, size)
<1>1. /\ other.type = node.type /\ other.name = node.name /\ other.value = node.value
      /\ other.sibling = node.sibling /\ other.firstChild = node.firstChild
      /\ other.nChildren = node.nChildren /\ other.ro = ro
    BY DEF NodeType
<1>2. bejTreeIsParentType(other) = bejTreeIsParentType(node)
    BY <1>1 DEF bejTreeIsParentType
<1>3. ASSUME NEW dict, NEW index, NEW start
      PROVE  bejFindSeqNumAndChildDictOffset(other, dict, index, start) =
                 bejFindSeqNumAndChildDictOffset(node, dict, index, start)
    BY <1>1, Zenon DEF bejFindSeqNumAndChildDictOffset
<1>4. ASSUME NEW found
      PROVE  /\ LeafStatus(other, found) = LeafStatus(node, found)
             /\ OptionSeq(other, found) = OptionSeq(node, found)
    <2>1. /\ OptionStatus(other, found) = OptionStatus(node, found)
          /\ OptionSeq(other, found) = OptionSeq(node, found)
        BY ONLY <1>1, Zenon DEF OptionSeq, OptionStatus
    <2>2. LeafStatus(other, found) = LeafStatus(node, found)
        BY ONLY <1>1, <2>1 DEF LeafStatus
    <2> QED BY ONLY <2>1, <2>2
<1>5. CountSize(other) = CountSize(node)
    BY ONLY <1>1 DEF CountSize
<1>6. ASSUME NEW any
      PROVE  /\ LeafValueSize(other, any) = LeafValueSize(node, any)
             /\ LeafLengthSize(other, any) = LeafLengthSize(node, any)
    BY <1>1, Zenon DEF LeafValueSize, LeafLengthSize
<1>7. ASSUME NEW option, NEW size
      PROVE  EncodeValue(other, option, size) = EncodeValue(node, option, size)
    BY <1>1, Zenon DEF EncodeValue
<1> QED BY <1>1, <1>2, <1>3, <1>4, <1>5, <1>6, <1>7

\* The metadata of a node is what the second walk needs of it.
Ready(tree, at, m) ==
    /\ m.sequenceNumber = SequenceNumber(Found(tree, at))
    /\ m.vSize = Measure(ValueAt(tree, at))
    /\ tree[at.node].type = "Enum" =>
           m.enumValueSeq = OptionSeq(tree[at.node], Found(tree, at))

\* What bejEncodeNode writes is where the tuple of the node begins.
LEMMA NodeWritten ==
    ASSUME NEW tree \in TreeType, WellBuilt(tree), NEW at \in Places \ Ends,
           NEW m \in MetaType, Ready(tree, at, m), NEW node \in NodeType,
           node = [tree[at.node] EXCEPT !.ro = @ \/ Found(tree, at).again]
    PROVE  /\ bejEncodeNode(node, m) \in Encodings(tree)
           /\ bejEncodeNode(node, m) \o TuplesFrom(tree)[Inside(tree, at)] =
                  TupleAt(tree, TuplesFrom(tree), at)
<1> DEFINE was == tree[at.node]
           found == Found(tree, at)
           value == ValueAt(tree, at)
           seq == SequenceNumber(found)
           sfl == EncodeSFL(node, seq, Measure(value))
           head == ValueHead(tree, at)
           inside == TuplesFrom(tree)[Inside(tree, at)]
           E == Encodings(tree)
<1>0. NoCycle(tree) /\ ChildrenCounted(tree)
    BY DEF WellBuilt
<1>1. was \in NodeType /\ at.node \in Nodes
    BY PlaceParts, LinkTypes
<1>2. node.type = was.type /\ node.value = was.value /\ node.nChildren = was.nChildren
    BY <1>1, OnlyRo
<1>3. was.type \in ParentTypes \cup LeafTypes /\ was.value.bytes \in Nat
    BY <1>1 DEF NodeType, ValueType
<1>4. m.sequenceNumber = seq /\ m.vSize = Measure(value)
    BY DEF Ready
<1>5. EncodeValue(node, m.enumValueSeq, m.vSize) = head
    <2>1. CASE was.type \in {"Set", "Array"}
        <3>1. was.nChildren = SiblingCount(tree)[was.firstChild]
            BY <1>0, <1>1, <2>1 DEF ChildrenCounted, bejTreeIsParentType, ParentTypes
        <3>2. head = bejEncodeNnint(was.nChildren)
            BY <2>1, <3>1 DEF ValueHead
        <3>3. EncodeValue(node, m.enumValueSeq, m.vSize) = bejEncodeNnint(node.nChildren)
            BY ONLY <1>2, <2>1 DEF EncodeValue
        <3> QED BY ONLY <1>2, <3>2, <3>3
    <2>2. CASE was.type = "Enum"
        <3>1. m.enumValueSeq = OptionSeq(was, found)
            BY <2>2 DEF Ready
        <3>2. head = EncodeValue(was, OptionSeq(was, found), 0)
            BY <2>2 DEF ValueHead
        <3>3. head = bejEncodeNnint(OptionSeq(was, found))
            BY ONLY <2>2, <3>2 DEF EncodeValue
        <3>4. EncodeValue(node, m.enumValueSeq, m.vSize) = bejEncodeNnint(m.enumValueSeq)
            BY ONLY <1>2, <2>2 DEF EncodeValue
        <3> QED BY ONLY <3>1, <3>3, <3>4
    <2>3. CASE was.type \notin {"Set", "Array", "Enum"}
        <3>1. head = EncodeValue(was, 0, was.value.bytes)
            BY <2>3 DEF ValueHead
        <3>2. was.type = "String" => m.vSize = was.value.bytes
            <4> SUFFICES ASSUME was.type = "String" PROVE m.vSize = was.value.bytes
                OBVIOUS
            <4>1. FirstChild(tree, at.node) = NULL
                BY DEF FirstChild, bejTreeIsParentType, ParentTypes
            <4>2. inside = <<>>
                <5>1. Inside(tree, at) \in Ends
                    BY <4>1, NextPlaces DEF Ends
                <5> QED BY <1>0, <5>1, TuplesEquation
            <4>3. head = << Piece("data", was.value.bytes, 0) >>
                BY <3>1 DEF EncodeValue
            <4>4. Measure(head) = was.value.bytes /\ Measure(inside) = 0
                BY <1>3, <4>2, <4>3, MeasureOne, MeasureEmpty
            <4>5. Measure(value) = Measure(head) + Measure(inside)
                BY <1>0, Sums
            <4> HIDE DEF was, head, inside, value
            <4> QED BY <1>3, <1>4, <4>4, <4>5
        <3>3. EncodeValue(node, m.enumValueSeq, m.vSize) = EncodeValue(was, 0, was.value.bytes)
            <4>1. was.type \in {"PropertyAnnotation", "Null", "Integer", "String", "Boolean", "Real"}
                BY <1>3, <2>3 DEF ParentTypes, LeafTypes
            <4> HIDE DEF was
            <4>2. CASE was.type = "String"
                BY ONLY <1>2, <3>2, <4>2 DEF EncodeValue
            <4>3. CASE was.type \in {"PropertyAnnotation", "Null"}
                BY ONLY <1>2, <4>3 DEF EncodeValue
            <4>4. CASE was.type = "Integer"
                BY ONLY <1>2, <4>4 DEF EncodeValue
            <4>5. CASE was.type = "Boolean"
                BY ONLY <1>2, <4>5 DEF EncodeValue
            <4>6. CASE was.type = "Real"
                BY ONLY <1>2, <4>6 DEF EncodeValue
            <4> QED BY <4>1, <4>2, <4>3, <4>4, <4>5, <4>6
        <3> QED BY ONLY <3>1, <3>3
    <2> QED BY <2>1, <2>2, <2>3
<1>6. bejEncodeNode(node, m) = sfl \o head
    BY <1>4, <1>5 DEF bejEncodeNode
<1>7. TupleAt(tree, TuplesFrom(tree), at) = sfl \o (head \o inside)
    BY DEF TupleAt, ValueAt
<1>8. head \in E /\ inside \in E /\ Measure(value) \in Nat
    BY <1>0, HeadOf, TuplesTyped, Sums
<1>9. sfl \in E
    <2>1. Nat \subseteq Said(tree) /\ node.type \in ParentTypes \cup LeafTypes
        BY <1>2, <1>3 DEF Said
    <2>2. seq \in Nat
        BY NextPlaces DEF FoundType
    <2> HIDE DEF seq, value
    <2> QED BY <1>8, <2>1, <2>2, SflOf DEF Encodings
<1> HIDE DEF sfl, head, inside
<1>10. sfl \o head \in E
    BY <1>8, <1>9, MeasureEncoding
<1>11. (sfl \o head) \o inside = sfl \o (head \o inside)
    <2>1. Associates(sfl, head, inside)
        BY <1>8, <1>9, EncodingsAssociate
    <2> QED BY ONLY <2>1 DEF Associates
<1> QED BY <1>6, <1>7, <1>10, <1>11 DEF inside

-----------------------------------------------------------------------------
(* The places of the nodes of a tree. *)

\* Links go down.
Descends(tree, height) ==
    \A n \in Nodes : /\ height[FirstChild(tree, n)] < height[n]
                     /\ height[tree[n].sibling] < height[n]

LEMMA HeightsExist ==
    ASSUME NEW tree \in TreeType, NoCycle(tree)
    PROVE  \E height \in [Pointers -> Nat] : Descends(tree, height)
<1> DEFINE down == [n \in Pointers \ {NULL} |-> FirstChild(tree, n)]
           step == [n \in Pointers \ {NULL} |-> [u \in Nat |-> [v \in Nat |-> 1 + u + v]]]
<1>0. /\ NULL \in Pointers /\ Pointers \ {NULL} = Nodes /\ Nodes \subseteq Pointers
      /\ {NULL} \subseteq Pointers
      /\ \A n \in Nodes : tree[n].sibling \in Pointers /\ FirstChild(tree, n) \in Pointers
    BY NodesAssumption, LinkTypes DEF Pointers
<1>1. step \in [Pointers \ {NULL} -> [Nat -> [Nat -> Nat]]] /\ 0 \in Nat
    OBVIOUS
<1>2. SiblingOf(tree) \in [Pointers \ {NULL} -> Pointers] /\ down \in [Pointers \ {NULL} -> Pointers]
    BY <1>0 DEF SiblingOf
<1>3. NoWayBack(Pointers, {NULL}, down, SiblingOf(tree))
    <2>1. ASSUME NEW S \in SUBSET Pointers, S # {}
          PROVE  \E n \in S : n \in {NULL} \/ (down[n] \notin S /\ SiblingOf(tree)[n] \notin S)
        <3>1. CASE NULL \in S
            BY <3>1
        <3>2. CASE NULL \notin S
            <4>1. S \in SUBSET Nodes
                BY <1>0, <3>2
            <4>2. PICK n \in S : FirstChild(tree, n) \notin S /\ tree[n].sibling \notin S
                BY <2>1, <4>1 DEF NoCycle
            <4>3. SiblingOf(tree)[n] = tree[n].sibling /\ down[n] = FirstChild(tree, n)
                BY <1>0, <4>1 DEF SiblingOf
            <4> QED BY <4>2, <4>3
        <3> QED BY <3>1, <3>2
    <2> QED BY <1>0, <1>2, <2>1 DEF NoWayBack
<1>4. PICK f : IsLinkRun(f, Pointers, {NULL}, down, SiblingOf(tree), Nat, 0, step)
    <2> HIDE DEF step, down
    <2> QED BY ONLY <1>1, <1>3, LinkRecursion
<1>5. f \in [Pointers -> Nat]
    BY <1>4 DEF IsLinkRun
<1>6. ASSUME NEW n \in Nodes
      PROVE  f[FirstChild(tree, n)] < f[n] /\ f[tree[n].sibling] < f[n]
    <2>1. SiblingOf(tree)[n] = tree[n].sibling /\ down[n] = FirstChild(tree, n)
        BY <1>0 DEF SiblingOf
    <2>2. f[tree[n].sibling] \in Nat /\ f[FirstChild(tree, n)] \in Nat
        BY <1>0, <1>5
    <2>3. f[n] = step[n][f[FirstChild(tree, n)]][f[tree[n].sibling]]
        <3> HIDE DEF step, down
        <3> QED BY <1>0, <1>4, <2>1 DEF IsLinkRun
    <2>4. f[n] = 1 + f[FirstChild(tree, n)] + f[tree[n].sibling]
        BY <1>0, <2>2, <2>3
    <2> QED BY <2>2, <2>4
<1> QED BY <1>5, <1>6 DEF Descends

\* What is linked to a place: what is inside of it and what is behind it.
Closed(tree, S) ==
    \A at \in S \ Ends : Inside(tree, at) \in S /\ Behind(tree, at) \in S

Under(tree, at) ==
    {q \in Places : \A S \in SUBSET Places : at \in S /\ Closed(tree, S) => q \in S}

LEMMA UnderClosed ==
    ASSUME NEW tree \in TreeType, NEW at \in Places
    PROVE  at \in Under(tree, at) /\ Closed(tree, Under(tree, at)) /\ Under(tree, at) \subseteq Places
<1>1. at \in Under(tree, at) /\ Under(tree, at) \subseteq Places
    BY DEF Under
<1>2. ASSUME NEW q \in Under(tree, at) \ Ends
      PROVE  Inside(tree, q) \in Under(tree, at) /\ Behind(tree, q) \in Under(tree, at)
    <2>1. q \in Places \ Ends
        BY <1>1
    <2>2. Inside(tree, q) \in Places /\ Behind(tree, q) \in Places
        BY <2>1, NextPlaces
    <2>3. ASSUME NEW S \in SUBSET Places, at \in S, Closed(tree, S)
          PROVE  Inside(tree, q) \in S /\ Behind(tree, q) \in S
        <3>1. q \in S
            BY <2>3 DEF Under
        <3> QED BY <2>3, <3>1 DEF Closed
    <2> QED BY <2>2, <2>3 DEF Under
<1> QED BY <1>1, <1>2 DEF Closed

LEMMA UnderLeast ==
    ASSUME NEW tree, NEW at, NEW S \in SUBSET Places, at \in S, Closed(tree, S)
    PROVE  Under(tree, at) \subseteq S
BY DEF Under

LEMMA UnderEnd ==
    ASSUME NEW tree, NEW at \in Ends
    PROVE  Under(tree, at) \subseteq Ends
<1>1. Closed(tree, Ends) /\ Ends \in SUBSET Places
    BY DEF Closed, Ends
<1> QED BY <1>1, UnderLeast

LEMMA UnderStep ==
    ASSUME NEW tree \in TreeType, NEW at \in Places \ Ends
    PROVE  Under(tree, at) \subseteq {at} \cup Under(tree, Inside(tree, at))
                                         \cup Under(tree, Behind(tree, at))
<1> DEFINE a == Under(tree, Inside(tree, at))
           b == Under(tree, Behind(tree, at))
           S == {at} \cup a \cup b
<1>1. Inside(tree, at) \in Places /\ Behind(tree, at) \in Places
    BY NextPlaces
<1>2. /\ Inside(tree, at) \in a /\ Closed(tree, a) /\ a \subseteq Places
      /\ Behind(tree, at) \in b /\ Closed(tree, b) /\ b \subseteq Places
    BY <1>1, UnderClosed
<1> HIDE DEF a, b
<1>3. Closed(tree, S)
    BY <1>2 DEF Closed
<1>4. S \in SUBSET Places /\ at \in S
    BY <1>2
<1>5. Under(tree, at) \subseteq S
    <2> HIDE DEF S
    <2> QED BY <1>3, <1>4, UnderLeast
<1> QED BY <1>5 DEF a, b

\* Nothing else is linked to it.
LEMMA UnderFrom ==
    ASSUME NEW tree \in TreeType, NEW at \in Places, NEW q \in Under(tree, at)
    PROVE  \/ q = at
           \/ \E p \in Under(tree, at) \ Ends : q = Inside(tree, p) \/ q = Behind(tree, p)
<1> DEFINE U == Under(tree, at)
           S == {s \in U : s = at \/ \E p \in U \ Ends : s = Inside(tree, p) \/ s = Behind(tree, p)}
<1>1. at \in U /\ Closed(tree, U) /\ U \subseteq Places
    BY UnderClosed
<1> HIDE DEF U
<1>2. Closed(tree, S)
    BY <1>1 DEF Closed
<1>3. S \in SUBSET Places /\ at \in S
    BY <1>1
<1>4. U \subseteq S
    <2> HIDE DEF S
    <2> QED BY <1>2, <1>3, UnderLeast DEF U
<1>5. q \in S
    BY <1>4 DEF U
<1> QED BY <1>5 DEF U

\* below are the places of what is inside of the root.
Family(tree, root, below, height) ==
    /\ height \in [Pointers -> Nat] /\ Descends(tree, height)
    /\ below \subseteq Places \ Ends
    /\ Inside(tree, root) \in below \cup Ends
    /\ \A at \in below : Inside(tree, at) \in below \cup Ends /\ Behind(tree, at) \in below \cup Ends
    /\ \A at \in below : height[at.node] < height[root.node]
    /\ \A p, q \in below : p.node = q.node => p = q
    /\ below = Under(tree, Inside(tree, root)) \ Ends

\* A node has one place.
LEMMA PlacesUnique ==
    ASSUME NEW tree \in TreeType, LinkedOnce(tree), NEW root \in Places \ Ends,
           \A at \in Under(tree, Inside(tree, root)) \ Ends : at.node # root.node,
           NEW q \in Under(tree, Inside(tree, root)) \ Ends,
           NEW p \in Under(tree, Inside(tree, root)) \ Ends, p.node = q.node
    PROVE  p = q
<1> DEFINE U == Under(tree, Inside(tree, root))
           Unique(a) == \A b \in U \ Ends : b.node = a.node => b = a
           S == {a \in U : a \in Ends \/ Unique(a)}
<1>1. /\ Inside(tree, root) \in Places /\ Inside(tree, root) \in U
      /\ Closed(tree, U) /\ U \subseteq Places
    BY NextPlaces, UnderClosed
<1>2. ASSUME NEW b \in U
      PROVE  \/ b = Inside(tree, root)
             \/ \E c \in U \ Ends : b = Inside(tree, c) \/ b = Behind(tree, c)
    BY <1>1, UnderFrom
<1>3. ASSUME NEW a \in (U \ Ends) \cup {root}
      PROVE  a \in Places \ Ends /\ a.node \in Nodes
    BY <1>1, PlaceParts
<1>4. \A a \in U \ Ends : a.node # root.node
    OBVIOUS
<1> HIDE DEF U
<1>5. ASSUME NEW a \in (U \ Ends) \cup {root}, NEW b \in U \ Ends,
             a = root \/ Unique(a), b.node = Inside(tree, a).node, Inside(tree, a) \notin Ends
      PROVE  b = Inside(tree, a)
    <2>1. a \in Places \ Ends /\ Inside(tree, a).node = FirstChild(tree, a.node)
        BY <1>3, NextPlaces
    <2>2. FirstChild(tree, a.node) # NULL
        <3>1. Inside(tree, a) \in Places
            BY <2>1, NextPlaces
        <3> QED BY <1>5, <2>1, <3>1, PlaceParts
    <2>3. CASE b = Inside(tree, root)
        <3>1. b.node = FirstChild(tree, root.node)
            BY <2>3, NextPlaces
        <3>2. root.node = a.node
            BY <1>3, <1>5, <2>1, <2>2, <3>1 DEF LinkedOnce
        <3>3. a = root
            BY <1>4, <3>2
        <3> QED BY <2>3, <3>3
    <2>4. ASSUME NEW c \in U \ Ends, b = Inside(tree, c)
          PROVE  b = Inside(tree, a)
        <3>1. c \in Places \ Ends /\ b.node = FirstChild(tree, c.node)
            BY <1>3, <2>4, NextPlaces
        <3>2. c.node = a.node
            BY <1>3, <1>5, <2>1, <2>2, <3>1 DEF LinkedOnce
        <3>3. c = a
            BY <1>4, <1>5, <3>2
        <3> QED BY <2>4, <3>3
    <2>5. ASSUME NEW c \in U \ Ends, b = Behind(tree, c)
          PROVE  FALSE
        <3>1. c \in Places \ Ends /\ b.node = tree[c.node].sibling
            BY <1>3, <2>5, NextPlaces
        <3> QED BY <1>3, <1>5, <2>1, <2>2, <3>1 DEF LinkedOnce
    <2> QED BY <1>2, <2>3, <2>4, <2>5
<1>6. ASSUME NEW a \in U \ Ends, NEW b \in U \ Ends,
             Unique(a), b.node = Behind(tree, a).node, Behind(tree, a) \notin Ends
      PROVE  b = Behind(tree, a)
    <2>1. a \in Places \ Ends /\ Behind(tree, a).node = tree[a.node].sibling
        BY <1>3, NextPlaces
    <2>2. tree[a.node].sibling # NULL
        <3>1. Behind(tree, a) \in Places
            BY <2>1, NextPlaces
        <3> QED BY <1>6, <2>1, <3>1, PlaceParts
    <2>3. ASSUME NEW c \in (U \ Ends) \cup {root}, b = Inside(tree, c)
          PROVE  FALSE
        <3>1. c \in Places \ Ends /\ b.node = FirstChild(tree, c.node)
            BY <1>3, <2>3, NextPlaces
        <3> QED BY <1>3, <1>6, <2>1, <2>2, <3>1 DEF LinkedOnce
    <2>4. ASSUME NEW c \in U \ Ends, b = Behind(tree, c)
          PROVE  b = Behind(tree, a)
        <3>1. c \in Places \ Ends /\ b.node = tree[c.node].sibling
            BY <1>3, <2>4, NextPlaces
        <3>2. c.node = a.node
            BY <1>3, <1>6, <2>1, <2>2, <3>1 DEF LinkedOnce
        <3> QED BY <1>6, <2>4, <3>2
    <2> QED BY <1>2, <2>3, <2>4
<1>7. Inside(tree, root) \in S
    BY <1>1, <1>5
<1>8. ASSUME NEW a \in S \ Ends
      PROVE  Inside(tree, a) \in S /\ Behind(tree, a) \in S
    <2>1. Unique(a) /\ a \in U \ Ends
        OBVIOUS
    <2>2. Inside(tree, a) \in U /\ Behind(tree, a) \in U
        BY <1>1, <2>1 DEF Closed
    <2> QED BY <1>5, <1>6, <2>1, <2>2
<1>9. U \subseteq S
    <2>1. S \in SUBSET Places /\ Closed(tree, S)
        BY <1>1, <1>8 DEF Closed
    <2> HIDE DEF S
    <2> QED BY <1>7, <2>1, UnderLeast DEF U
<1>10. q \in S \ Ends /\ p \in U \ Ends
    BY <1>9 DEF U
<1> QED BY <1>10

LEMMA FamilyExists ==
    ASSUME NEW tree \in TreeType, WellBuilt(tree), NEW root \in Places \ Ends
    PROVE  \E below, height : Family(tree, root, below, height)
<1> DEFINE U == Under(tree, Inside(tree, root))
           below == U \ Ends
<1>0. NoCycle(tree) /\ LinkedOnce(tree)
    BY DEF WellBuilt
<1>1. PICK height \in [Pointers -> Nat] : Descends(tree, height)
    BY <1>0, HeightsExist
<1>2. /\ Inside(tree, root) \in Places /\ Inside(tree, root) \in U
      /\ Closed(tree, U) /\ U \subseteq Places
    BY NextPlaces, UnderClosed
<1>3. ASSUME NEW a \in Places \ Ends
      PROVE  /\ height[a.node] \in Nat /\ a.node \in Nodes
             /\ height[Inside(tree, a).node] < height[a.node]
             /\ height[Behind(tree, a).node] < height[a.node]
             /\ Inside(tree, a) \in Places /\ Behind(tree, a) \in Places
             /\ height[Inside(tree, a).node] \in Nat /\ height[Behind(tree, a).node] \in Nat
    <2>1. a.node \in Nodes /\ a.node \in Pointers
        BY PlaceParts
    <2>2. /\ Inside(tree, a) \in Places /\ Inside(tree, a).node = FirstChild(tree, a.node)
          /\ Behind(tree, a) \in Places /\ Behind(tree, a).node = tree[a.node].sibling
        BY NextPlaces
    <2>3. Inside(tree, a).node \in Pointers /\ Behind(tree, a).node \in Pointers
        BY <2>2, PlaceParts
    <2> QED BY <1>1, <2>1, <2>2, <2>3 DEF Descends
<1>4. \A a \in U : height[a.node] < height[root.node]
    <2> DEFINE S == {a \in Places : height[a.node] < height[root.node]}
    <2>1. Inside(tree, root) \in S
        BY <1>2, <1>3
    <2>2. ASSUME NEW a \in S \ Ends PROVE Inside(tree, a) \in S /\ Behind(tree, a) \in S
        <3>1. height[a.node] < height[root.node] /\ height[root.node] \in Nat
            BY <1>3
        <3> QED BY <1>3, <3>1
    <2>3. Closed(tree, S) /\ S \in SUBSET Places
        BY <2>2 DEF Closed
    <2>4. U \subseteq S
        <3> HIDE DEF S
        <3> QED BY <2>1, <2>3, UnderLeast
    <2> QED BY <2>4
<1>5. ASSUME NEW p \in below, NEW q \in below, p.node = q.node
      PROVE  p = q
    <2>1. \A a \in U : a.node # root.node
        <3>1. height[root.node] \in Nat
            BY <1>3
        <3> QED BY <1>4, <3>1
    <2> QED BY <1>0, <1>5, <2>1, PlacesUnique
<1>6. \A a \in below : Inside(tree, a) \in below \cup Ends /\ Behind(tree, a) \in below \cup Ends
    BY <1>2 DEF Closed
<1>7. Inside(tree, root) \in below \cup Ends /\ below \subseteq Places \ Ends
    BY <1>2
<1>8. Family(tree, root, below, height)
    <2> HIDE DEF below
    <2>1. below = Under(tree, Inside(tree, root)) \ Ends
        BY DEF below
    <2> QED BY <1>1, <1>4, <1>5, <1>6, <1>7, <2>1 DEF Family
<1> QED BY <1>8

-----------------------------------------------------------------------------
(* Sequences some of whose pieces are lost. *)

\* kept is what is left of the first pieces of s.
Keeps(kept, s, positions, P) ==
    /\ kept \in [Nat -> Seq(P)]
    /\ kept[0] = <<>>
    /\ \A n \in Nat :
          kept[n + 1] = IF n + 1 \in DOMAIN s \ positions THEN Append(kept[n], s[n + 1])
                        ELSE kept[n]

LEMMA WithoutKeeps ==
    ASSUME NEW P, NEW s \in Seq(P), NEW positions
    PROVE  \E kept : Keeps(kept, s, positions, P) /\ Without(s, positions) = kept[Len(s)]
<1> DEFINE step == [n \in Nat |-> [u \in Seq(P) |->
                       IF n + 1 \in DOMAIN s \ positions THEN Append(u, s[n + 1]) ELSE u]]
           Eq(f) == f = [n \in Nat |-> IF n = 0 THEN <<>>
                          ELSE IF n \in DOMAIN s \ positions THEN Append(f[n - 1], s[n])
                          ELSE f[n - 1]]
<1>1. step \in [Nat -> [Seq(P) -> Seq(P)]] /\ <<>> \in Seq(P)
    OBVIOUS
<1>2. PICK f : IsRun(f, Seq(P), <<>>, step)
    <2> HIDE DEF step
    <2> QED BY <1>1, Recursion
<1>3. ASSUME NEW g, g \in [Nat -> Seq(P)], g[0] = <<>>,
             \A n \in Nat : g[n + 1] = step[n][g[n]]
      PROVE  Keeps(g, s, positions, P)
    <2>1. ASSUME NEW n \in Nat
          PROVE  g[n + 1] = IF n + 1 \in DOMAIN s \ positions THEN Append(g[n], s[n + 1])
                            ELSE g[n]
        <3>1. g[n] \in Seq(P) /\ g[n + 1] = step[n][g[n]]
            BY <1>3
        <3> QED BY <3>1
    <2> QED BY <1>3, <2>1 DEF Keeps
<1>4. Keeps(f, s, positions, P)
    <2> HIDE DEF step
    <2> QED BY <1>2, <1>3 DEF IsRun
<1>5. Eq(f)
    <2>1. ASSUME NEW n \in Nat
          PROVE  f[n] = IF n = 0 THEN <<>>
                        ELSE IF n \in DOMAIN s \ positions THEN Append(f[n - 1], s[n])
                        ELSE f[n - 1]
        <3>1. CASE n = 0
            BY <1>4, <3>1 DEF Keeps
        <3>2. CASE n # 0
            <4>1. n - 1 \in Nat /\ n - 1 + 1 = n
                BY <3>2
            <4> QED BY <1>4, <3>2, <4>1 DEF Keeps
        <3> QED BY <3>1, <3>2
    <2>2. f \in [Nat -> Seq(P)]
        BY <1>4 DEF Keeps
    <2> QED BY <2>1, <2>2
<1>6. PICK g : g = (CHOOSE h : Eq(h))
    OBVIOUS
<1>7. Eq(g)
    <2> HIDE DEF Eq
    <2> QED BY <1>5, <1>6
<1>8. Without(s, positions) = g[Len(s)]
    BY <1>6 DEF Without
<1>9. g = f
    <2> DEFINE T == {n \in Nat : g[n] = f[n]}
    <2>1. 0 \in T
        BY <1>4, <1>7 DEF Keeps
    <2>2. ASSUME NEW n \in T PROVE n + 1 \in T
        <3>1. n \in Nat /\ n + 1 \in Nat /\ n + 1 # 0 /\ n + 1 - 1 = n /\ g[n] = f[n]
            OBVIOUS
        <3>2. g[n + 1] = IF n + 1 \in DOMAIN s \ positions THEN Append(g[n], s[n + 1]) ELSE g[n]
            <4>1. g[n + 1] = IF n + 1 = 0 THEN <<>>
                             ELSE IF n + 1 \in DOMAIN s \ positions
                                  THEN Append(g[n + 1 - 1], s[n + 1]) ELSE g[n + 1 - 1]
                <5>1. \A m \in Nat : g[m] = IF m = 0 THEN <<>>
                                  ELSE IF m \in DOMAIN s \ positions
                                  THEN Append(g[m - 1], s[m]) ELSE g[m - 1]
                    BY <1>7
                <5> QED BY ONLY <3>1, <5>1
            <4> QED BY ONLY <3>1, <4>1
        <3>3. f[n + 1] = IF n + 1 \in DOMAIN s \ positions THEN Append(f[n], s[n + 1]) ELSE f[n]
            BY <1>4, <3>1 DEF Keeps
        <3> QED BY <3>1, <3>2, <3>3
    <2>3. T = Nat
        <3>1. T \in SUBSET Nat
            OBVIOUS
        <3> HIDE DEF T
        <3> QED BY <2>1, <2>2, <3>1, Induction
    <2>4. \A n \in Nat : g[n] = f[n]
        BY <2>3
    <2>5. g = [n \in Nat |-> g[n]] /\ f = [n \in Nat |-> f[n]]
        <3>1. f \in [Nat -> Seq(P)]
            BY <1>4 DEF Keeps
        <3>2. g = [n \in Nat |-> g[n]]
            BY <1>7
        <3> QED BY <3>1, <3>2
    <2> QED BY <2>4, <2>5
<1> QED BY <1>4, <1>8, <1>9

LEMMA WithoutNothing ==
    ASSUME NEW P, NEW s \in Seq(P)
    PROVE  Without(s, {}) = s
<1>1. PICK kept : Keeps(kept, s, {}, P) /\ Without(s, {}) = kept[Len(s)]
    BY WithoutKeeps
<1> DEFINE T == {n \in Nat : n <= Len(s) => kept[n] = SubSeq(s, 1, n)}
<1>2. 0 \in T
    <2>1. SubSeq(s, 1, 0) = <<>>
        OBVIOUS
    <2> QED BY <1>1, <2>1 DEF Keeps
<1>3. ASSUME NEW n \in T PROVE n + 1 \in T
    <2> SUFFICES ASSUME n + 1 <= Len(s) PROVE kept[n + 1] = SubSeq(s, 1, n + 1)
        OBVIOUS
    <2>1. n \in Nat /\ n <= Len(s) /\ n + 1 \in DOMAIN s /\ Len(s) \in Nat
        OBVIOUS
    <2>2. kept[n] = SubSeq(s, 1, n)
        BY <2>1
    <2>3. kept[n + 1] = Append(kept[n], s[n + 1])
        BY <1>1, <2>1 DEF Keeps
    <2>4. SubSeq(s, 1, n + 1) = Append(SubSeq(s, 1, n), s[n + 1])
        BY <2>1
    <2> QED BY <2>2, <2>3, <2>4
<1>4. T = Nat
    <2>1. T \in SUBSET Nat
        OBVIOUS
    <2> HIDE DEF T
    <2> QED BY <1>2, <1>3, <2>1, Induction
<1>5. Len(s) \in T /\ Len(s) \in Nat
    BY <1>4
<1>6. kept[Len(s)] = SubSeq(s, 1, Len(s))
    BY <1>5
<1> QED BY <1>1, <1>6

GoesLast(s, t, e) == Append(s \o t, e) = s \o Append(t, e)

LEMMA AppendJoined ==
    ASSUME NEW P, NEW s \in Seq(P), NEW t \in Seq(P), NEW e \in P
    PROVE  GoesLast(s, t, e)
BY DEF GoesLast

WithoutBoth(s, t, a, b) ==
    Without(s \o t, a \cup {Len(s) + i : i \in b}) = Without(s, a) \o Without(t, b)

LEMMA WithoutJoined ==
    ASSUME NEW P, NEW s \in Seq(P), NEW t \in Seq(P),
           NEW a \in SUBSET DOMAIN s, NEW b \in SUBSET DOMAIN t
    PROVE  WithoutBoth(s, t, a, b)
<1> DEFINE c == a \cup {Len(s) + i : i \in b}
<1>0. /\ s \o t \in Seq(P) /\ Len(s \o t) = Len(s) + Len(t) /\ Len(s) \in Nat /\ Len(t) \in Nat
      /\ DOMAIN s = 1 .. Len(s) /\ DOMAIN t = 1 .. Len(t) /\ DOMAIN (s \o t) = 1 .. Len(s) + Len(t)
    OBVIOUS
<1>1. PICK ks : Keeps(ks, s, a, P) /\ Without(s, a) = ks[Len(s)]
    BY WithoutKeeps
<1>2. PICK kt : Keeps(kt, t, b, P) /\ Without(t, b) = kt[Len(t)]
    BY WithoutKeeps
<1>3. PICK k : Keeps(k, s \o t, c, P) /\ Without(s \o t, c) = k[Len(s \o t)]
    <2> HIDE DEF c
    <2> QED BY <1>0, WithoutKeeps
<1>4. \A n \in 1 .. Len(s) : (n \in c <=> n \in a) /\ (s \o t)[n] = s[n]
    BY <1>0
<1>5. ASSUME NEW n \in 1 .. Len(t)
      PROVE  (Len(s) + n \in c <=> n \in b) /\ (s \o t)[Len(s) + n] = t[n]
    <2>1. Len(s) + n \notin a
        BY <1>0
    <2>2. Len(s) + n \in {Len(s) + i : i \in b} <=> n \in b
        BY <1>0
    <2>3. (s \o t)[Len(s) + n] = t[n]
        BY <1>0
    <2> QED BY <2>1, <2>2, <2>3
<1> HIDE DEF c
<1>6. \A n \in Nat : n <= Len(s) => k[n] = ks[n]
    <2> DEFINE T == {n \in Nat : n <= Len(s) => k[n] = ks[n]}
    <2>1. 0 \in T
        BY <1>1, <1>3 DEF Keeps
    <2>2. ASSUME NEW n \in T PROVE n + 1 \in T
        <3> SUFFICES ASSUME n + 1 <= Len(s) PROVE k[n + 1] = ks[n + 1]
            OBVIOUS
        <3>1. /\ n \in Nat /\ n + 1 \in 1 .. Len(s) /\ n + 1 \in 1 .. Len(s) + Len(t)
              /\ k[n] = ks[n]
            BY <1>0
        <3>2. k[n + 1] = IF n + 1 \in DOMAIN (s \o t) \ c THEN Append(k[n], (s \o t)[n + 1])
                         ELSE k[n]
            BY <1>3, <3>1 DEF Keeps
        <3>3. ks[n + 1] = IF n + 1 \in DOMAIN s \ a THEN Append(ks[n], s[n + 1]) ELSE ks[n]
            BY <1>1, <3>1 DEF Keeps
        <3> QED BY <1>0, <1>4, <3>1, <3>2, <3>3
    <2>3. T = Nat
        <3>1. T \in SUBSET Nat
            OBVIOUS
        <3> HIDE DEF T
        <3> QED BY <2>1, <2>2, <3>1, Induction
    <2> QED BY <2>3
<1>7. k[Len(s) + Len(t)] = ks[Len(s)] \o kt[Len(t)]
    <2> DEFINE Q(n) == n <= Len(t) => k[Len(s) + n] = ks[Len(s)] \o kt[n]
               T == {n \in Nat : Q(n)}
    <2>0. ks[Len(s)] \in Seq(P) /\ \A n \in Nat : kt[n] \in Seq(P)
        BY <1>0, <1>1, <1>2 DEF Keeps
    <2>1. Q(0)
        <3>1. k[Len(s)] = ks[Len(s)] /\ kt[0] = <<>>
            <4>1. kt[0] = <<>>
                BY ONLY <1>2 DEF Keeps
            <4>2. Len(s) \in Nat /\ Len(s) <= Len(s)
                BY ONLY <1>0
            <4>3. k[Len(s)] = ks[Len(s)]
                BY ONLY <1>6, <4>2
            <4> QED BY <4>1, <4>3
        <3>2. ks[Len(s)] \o <<>> = ks[Len(s)]
            BY <2>0
        <3>3. Len(s) + 0 = Len(s)
            BY <1>0
        <3> QED BY <3>1, <3>2, <3>3
    <2>2. ASSUME NEW n \in Nat, Q(n) PROVE Q(n + 1)
        <3> DEFINE m == Len(s) + n
        <3> SUFFICES ASSUME n + 1 <= Len(t)
                     PROVE  k[m + 1] = ks[Len(s)] \o kt[n + 1]
            <4>1. m + 1 = Len(s) + (n + 1)
                BY <1>0
            <4> QED BY <4>1
        <3>0. n <= Len(t)
            BY <1>0
        <3>1. k[m] = ks[Len(s)] \o kt[n]
            BY ONLY <2>2, <3>0
        <3>1a. /\ n + 1 \in 1 .. Len(t) /\ m \in Nat
               /\ m + 1 = Len(s) + (n + 1) /\ m + 1 \in 1 .. Len(s) + Len(t)
            BY <1>0
        <3> HIDE DEF m, Q
        <3>2. k[m + 1] = IF m + 1 \in DOMAIN (s \o t) \ c THEN Append(k[m], (s \o t)[m + 1])
                         ELSE k[m]
            BY <1>3, <3>1a DEF Keeps
        <3>3. kt[n + 1] = IF n + 1 \in DOMAIN t \ b THEN Append(kt[n], t[n + 1]) ELSE kt[n]
            BY <1>2 DEF Keeps
        <3>4. (m + 1 \in c <=> n + 1 \in b) /\ (s \o t)[m + 1] = t[n + 1]
            BY <1>5, <3>1a
        <3>5. CASE n + 1 \in b
            BY <1>0, <3>1, <3>1a, <3>2, <3>3, <3>4, <3>5
        <3>6. CASE n + 1 \notin b
            <4>1. k[m + 1] = Append(ks[Len(s)] \o kt[n], t[n + 1])
                BY <1>0, <3>1, <3>1a, <3>2, <3>4, <3>6
            <4>2. kt[n + 1] = Append(kt[n], t[n + 1]) /\ t[n + 1] \in P
                BY <1>0, <3>1a, <3>3, <3>6
            <4>3. Append(ks[Len(s)] \o kt[n], t[n + 1]) = ks[Len(s)] \o Append(kt[n], t[n + 1])
                <5>1. ks[Len(s)] \in Seq(P) /\ kt[n] \in Seq(P)
                    BY <2>0
                <5>2. GoesLast(ks[Len(s)], kt[n], t[n + 1])
                    BY <4>2, <5>1, AppendJoined
                <5> QED BY ONLY <5>2 DEF GoesLast
            <4> QED BY <4>1, <4>2, <4>3
        <3> QED BY <3>5, <3>6
    <2>3. T = Nat
        <3> HIDE DEF Q
        <3>1. T \in SUBSET Nat /\ 0 \in T /\ \A n \in T : n + 1 \in T
            BY <2>1, <2>2
        <3> HIDE DEF T
        <3> QED BY <3>1, Induction
    <2>4. Q(Len(t))
        <3> HIDE DEF Q
        <3> QED BY <1>0, <2>3
    <2>5. Len(t) <= Len(t)
        BY <1>0
    <2> QED BY ONLY <2>4, <2>5
<1>8. Len(s \o t) = Len(s) + Len(t)
    BY <1>0
<1>9. Without(s \o t, c) = Without(s, a) \o Without(t, b)
    BY <1>1, <1>2, <1>3, <1>7, <1>8
<1> QED BY <1>9 DEF c, WithoutBoth

LEMMA WithoutType ==
    ASSUME NEW P, NEW s \in Seq(P), NEW positions
    PROVE  Without(s, positions) \in Seq(P)
<1>1. PICK kept : Keeps(kept, s, positions, P) /\ Without(s, positions) = kept[Len(s)]
    BY WithoutKeeps
<1>2. Len(s) \in Nat
    OBVIOUS
<1> QED BY <1>1, <1>2 DEF Keeps

LEMMA LostNothing ==
    ASSUME NEW P, NEW s \in Seq(P)
    PROVE  s \in WithoutIntegers(s)
<1>1. {} \in SUBSET {i \in DOMAIN s : s[i].kind = "integer"}
    OBVIOUS
<1>2. Without(s, {}) = s
    BY WithoutNothing
<1> QED BY <1>1, <1>2 DEF WithoutIntegers

LEMMA LostType ==
    ASSUME NEW P, NEW s \in Seq(P), NEW left \in WithoutIntegers(s)
    PROVE  left \in Seq(P)
BY WithoutType DEF WithoutIntegers

LEMMA LostJoined ==
    ASSUME NEW P, NEW s \in Seq(P), NEW t \in Seq(P),
           NEW x \in WithoutIntegers(s), NEW y \in WithoutIntegers(t)
    PROVE  x \o y \in WithoutIntegers(s \o t)
<1>1. PICK a \in SUBSET {i \in DOMAIN s : s[i].kind = "integer"} : x = Without(s, a)
    BY DEF WithoutIntegers
<1>2. PICK b \in SUBSET {i \in DOMAIN t : t[i].kind = "integer"} : y = Without(t, b)
    BY DEF WithoutIntegers
<1> DEFINE c == a \cup {Len(s) + i : i \in b}
<1>3. Without(s \o t, c) = x \o y
    <2>1. a \in SUBSET DOMAIN s /\ b \in SUBSET DOMAIN t
        OBVIOUS
    <2>2. WithoutBoth(s, t, a, b)
        BY <2>1, WithoutJoined
    <2> QED BY <1>1, <1>2, <2>2 DEF WithoutBoth
<1>4. ASSUME NEW n \in c
      PROVE  n \in DOMAIN (s \o t) /\ (s \o t)[n].kind = "integer"
    <2>0. /\ DOMAIN (s \o t) = 1 .. Len(s) + Len(t) /\ DOMAIN s = 1 .. Len(s)
          /\ DOMAIN t = 1 .. Len(t) /\ Len(s) \in Nat /\ Len(t) \in Nat
        OBVIOUS
    <2>1. CASE n \in a
        <3>1. n \in 1 .. Len(s) /\ s[n].kind = "integer"
            BY <2>0, <2>1
        <3>2. (s \o t)[n] = s[n] /\ n \in DOMAIN (s \o t)
            BY <2>0, <3>1
        <3> QED BY <3>1, <3>2
    <2>2. CASE n \notin a
        <3>1. PICK i \in b : n = Len(s) + i
            BY <2>2
        <3>2. i \in 1 .. Len(t) /\ t[i].kind = "integer"
            BY <2>0
        <3>3. (s \o t)[Len(s) + i] = t[i] /\ Len(s) + i \in DOMAIN (s \o t)
            BY <2>0, <3>2
        <3> QED BY <3>1, <3>2, <3>3
    <2> QED BY <2>1, <2>2
<1>5. c \in SUBSET {n \in DOMAIN (s \o t) : (s \o t)[n].kind = "integer"}
    BY <1>4
<1> HIDE DEF c
<1> QED BY <1>3, <1>5 DEF WithoutIntegers

Splits(s, i) == SubSeq(s, 1, i) \o SubSeq(s, i + 1, Len(s)) = s

LEMMA SplitAt ==
    ASSUME NEW P, NEW s \in Seq(P), NEW i \in 1 .. Len(s)
    PROVE  Splits(s, i)
BY DEF Splits

LEMMA LostOne ==
    ASSUME NEW P, NEW s \in Seq(P), NEW i \in DOMAIN s, s[i].kind = "integer"
    PROVE  SubSeq(s, 1, i - 1) \o SubSeq(s, i + 1, Len(s)) \in WithoutIntegers(s)
<1> DEFINE a == SubSeq(s, 1, i - 1)
           e == << s[i] >>
           b == SubSeq(s, i + 1, Len(s))
<1>0. i \in 1 .. Len(s) /\ Len(s) \in Nat /\ s[i] \in P
    OBVIOUS
<1>1. a \in Seq(P) /\ b \in Seq(P) /\ e \in Seq(P) /\ a \o e \in Seq(P)
    BY <1>0
<1>2. (a \o e) \o b = s
    <2>1. a \o e = SubSeq(s, 1, i)
        BY <1>0
    <2>2. SubSeq(s, 1, i) \o b = s
        <3>1. Splits(s, i)
            BY <1>0, SplitAt
        <3> QED BY ONLY <3>1 DEF Splits
    <2> HIDE DEF a, e, b
    <2> QED BY ONLY <2>1, <2>2
<1>3. a \in WithoutIntegers(a) /\ b \in WithoutIntegers(b)
    <2> HIDE DEF a, b
    <2> QED BY <1>1, LostNothing
<1>4. <<>> \in WithoutIntegers(e)
    <2>1. DOMAIN e = {1} /\ e[1].kind = "integer" /\ Len(e) = 1
        OBVIOUS
    <2> HIDE DEF e
    <2>2. {1} \in SUBSET {n \in DOMAIN e : e[n].kind = "integer"}
        BY <2>1
    <2>3. PICK kept : Keeps(kept, e, {1}, P) /\ Without(e, {1}) = kept[Len(e)]
        BY <1>1, WithoutKeeps
    <2>4. kept[0] = <<>> /\ kept[0 + 1] = kept[0]
        BY <2>1, <2>3 DEF Keeps
    <2>5. Without(e, {1}) = <<>>
        BY <2>1, <2>3, <2>4
    <2> QED BY <2>2, <2>5 DEF WithoutIntegers
<1>5. a \o <<>> \in WithoutIntegers(a \o e)
    <2> HIDE DEF a, e
    <2>1. <<>> \in Seq(P)
        OBVIOUS
    <2> QED BY <1>1, <1>3, <1>4, LostJoined
<1>6. a \o <<>> = a
    <2> HIDE DEF a
    <2> QED BY <1>1
<1>7. a \o b \in WithoutIntegers((a \o e) \o b)
    <2> HIDE DEF a, e, b
    <2> QED BY <1>1, <1>3, <1>5, <1>6, LostJoined
<1> QED BY <1>2, <1>7

-----------------------------------------------------------------------------
(* The cursors of the parents on the stack, from the bottom to the top, say  *)
(* what is left to do: for each of them what it is at, and what is behind.   *)

\* x is what the steps of what the first k cursors are at make of zero.
IsChain(step, E, zero, cur, k, x) ==
    \E r \in [0 .. k -> E] : /\ r[0] = zero
                             /\ \A j \in 1 .. k : r[j] = step[cur[j]][r[j - 1]]
                             /\ r[k] = x

LEMMA ChainZero ==
    ASSUME NEW step, NEW E, NEW zero \in E, NEW cur, NEW x
    PROVE  IsChain(step, E, zero, cur, 0, x) <=> x = zero
<1>1. ASSUME IsChain(step, E, zero, cur, 0, x) PROVE x = zero
    BY <1>1 DEF IsChain
<1>2. ASSUME x = zero PROVE IsChain(step, E, zero, cur, 0, x)
    <2> DEFINE r == [j \in 0 .. 0 |-> zero]
    <2>1. r \in [0 .. 0 -> E] /\ r[0] = zero /\ 1 .. 0 = {}
        OBVIOUS
    <2> HIDE DEF r
    <2> QED BY <1>2, <2>1 DEF IsChain
<1> QED BY <1>1, <1>2

LEMMA ChainBelow ==
    ASSUME NEW step, NEW E, NEW zero, NEW cur, NEW k \in Nat \ {0}, NEW x,
           IsChain(step, E, zero, cur, k, x)
    PROVE  \E y \in E : IsChain(step, E, zero, cur, k - 1, y) /\ x = step[cur[k]][y]
<1>1. PICK r \in [0 .. k -> E] : /\ r[0] = zero
                                 /\ \A j \in 1 .. k : r[j] = step[cur[j]][r[j - 1]]
                                 /\ r[k] = x
    BY DEF IsChain
<1> DEFINE q == [j \in 0 .. k - 1 |-> r[j]]
<1>2. k - 1 \in 0 .. k /\ k \in 1 .. k /\ k - 1 \in 0 .. k - 1 /\ 0 \in 0 .. k - 1 /\ k - 1 \in Nat
    OBVIOUS
<1>3. r[k - 1] \in E /\ x = step[cur[k]][r[k - 1]]
    BY <1>1, <1>2
<1>4. q \in [0 .. k - 1 -> E] /\ q[0] = zero /\ q[k - 1] = r[k - 1]
    BY <1>1, <1>2
<1>5. ASSUME NEW j \in 1 .. k - 1 PROVE q[j] = step[cur[j]][q[j - 1]]
    <2>1. j \in 1 .. k /\ j \in 0 .. k - 1 /\ j - 1 \in 0 .. k - 1
        OBVIOUS
    <2>2. q[j] = r[j] /\ q[j - 1] = r[j - 1]
        BY <2>1
    <2>3. r[j] = step[cur[j]][r[j - 1]]
        BY <1>1, <2>1
    <2> HIDE DEF q
    <2> QED BY <2>2, <2>3
<1>6. IsChain(step, E, zero, cur, k - 1, r[k - 1])
    <2> HIDE DEF q
    <2> QED BY <1>4, <1>5 DEF IsChain
<1> QED BY <1>3, <1>6

LEMMA ChainAbove ==
    ASSUME NEW step, NEW E, NEW zero, NEW cur, NEW k \in Nat, NEW x \in E,
           IsChain(step, E, zero, cur, k, x),
           NEW next, \A j \in 1 .. k : next[j] = cur[j],
           step[next[k + 1]][x] \in E
    PROVE  IsChain(step, E, zero, next, k + 1, step[next[k + 1]][x])
<1>1. PICK r \in [0 .. k -> E] : /\ r[0] = zero
                                 /\ \A j \in 1 .. k : r[j] = step[cur[j]][r[j - 1]]
                                 /\ r[k] = x
    BY DEF IsChain
<1> DEFINE top == step[next[k + 1]][x]
           q == [j \in 0 .. k + 1 |-> IF j = k + 1 THEN top ELSE r[j]]
<1>0. top \in E
    OBVIOUS
<1> HIDE DEF top
<1>2. q \in [0 .. k + 1 -> E]
    <2>1. ASSUME NEW j \in 0 .. k + 1, j # k + 1 PROVE r[j] \in E
        <3>1. j \in 0 .. k
            BY <2>1
        <3> QED BY <3>1
    <2> QED BY <1>0, <2>1
<1>3. q[0] = zero /\ q[k + 1] = top
    BY <1>1
<1>4. ASSUME NEW j \in 1 .. k + 1 PROVE q[j] = step[next[j]][q[j - 1]]
    <2>1. CASE j = k + 1
        <3>1. j - 1 = k /\ k \in 0 .. k + 1 /\ k # k + 1
            BY <2>1
        <3>2. q[k] = x
            BY <1>1, <3>1
        <3> HIDE DEF q
        <3> QED BY <1>3, <2>1, <3>1, <3>2 DEF top
    <2>2. CASE j # k + 1
        <3>1. j \in 1 .. k /\ j \in 0 .. k + 1 /\ j - 1 \in 0 .. k + 1 /\ j - 1 # k + 1
            BY <2>2
        <3>2. q[j] = r[j] /\ q[j - 1] = r[j - 1]
            BY <3>1
        <3>3. r[j] = step[cur[j]][r[j - 1]] /\ next[j] = cur[j]
            BY <1>1, <3>1
        <3> HIDE DEF q
        <3> QED BY <3>2, <3>3
    <2> QED BY <2>1, <2>2
<1>5. IsChain(step, E, zero, next, k + 1, top)
    <2> HIDE DEF q
    <2> QED BY <1>2, <1>3, <1>4 DEF IsChain
<1> QED BY <1>5 DEF top

\* The cursors are at places of the tree, and the way down the stack leads up
\* in the tree, so that what a cursor is at is not on the stack.
Walking(below, height, cur, s, m) ==
    /\ cur \in [1 .. Len(s) -> below \cup Ends]
    /\ \A j \in 1 .. Len(s) : /\ cur[j].node = m[s[j]].nextChild
                              /\ height[cur[j].node] < height[s[j]]
    /\ \A i, j \in 1 .. Len(s) : i < j => height[s[j]] < height[s[i]]

One(p) == [j \in 1 .. 1 |-> p]

Moved(cur, k, p) == [cur EXCEPT ![k] = p]

Pushed(cur, k, p, q) == [j \in 1 .. k + 1 |-> IF j < k THEN cur[j] ELSE IF j = k THEN p ELSE q]

Popped(cur, k) == [j \in 1 .. k - 1 |-> cur[j]]

LEMMA FamilyFacts ==
    ASSUME NEW tree \in TreeType, NEW root \in Places \ Ends, NEW below, NEW height,
           Family(tree, root, below, height)
    PROVE  /\ \A n \in Pointers : height[n] \in Nat
           /\ \A n \in Nodes : /\ height[FirstChild(tree, n)] < height[n]
                               /\ height[tree[n].sibling] < height[n]
                               /\ height[n] \in Nat
           /\ root \notin below
           /\ \A p \in below : /\ p \in Places \ Ends /\ p.node \in Nodes
                               /\ p.node # root.node
                               /\ Inside(tree, p) \in below \cup Ends
                               /\ Behind(tree, p) \in below \cup Ends
                               /\ Inside(tree, p).node = FirstChild(tree, p.node)
                               /\ Behind(tree, p).node = tree[p.node].sibling
           /\ \A p \in below \cup Ends : p \in Places /\ p.node \in Pointers
           /\ \A p \in (below \cup Ends) \ Ends : p \in below
           /\ \A p, q \in below \cup {root} : p.node = q.node => p = q
<1>1. /\ height \in [Pointers -> Nat] /\ below \subseteq Places \ Ends
      /\ \A at \in below : height[at.node] < height[root.node]
    BY DEF Family
<1>2. \A n \in Pointers : height[n] \in Nat
    BY <1>1
<1>3. \A n \in Nodes : /\ height[FirstChild(tree, n)] < height[n]
                       /\ height[tree[n].sibling] < height[n]
                       /\ height[n] \in Nat
    BY <1>2 DEF Family, Descends, Pointers
<1>4. root.node \in Nodes /\ height[root.node] \in Nat
    BY <1>3, PlaceParts
<1>5. \A p \in below : p.node # root.node
    BY <1>1, <1>4
<1>6. \A p \in below : /\ p \in Places \ Ends /\ p.node \in Nodes
                       /\ Inside(tree, p).node = FirstChild(tree, p.node)
                       /\ Behind(tree, p).node = tree[p.node].sibling
    BY <1>1, PlaceParts, NextPlaces
<1>7. \A p \in below : Inside(tree, p) \in below \cup Ends /\ Behind(tree, p) \in below \cup Ends
    BY DEF Family
<1>8. \A p \in below \cup Ends : p \in Places /\ p.node \in Pointers
    <2>1. Ends \subseteq Places
        BY DEF Ends
    <2> QED BY <1>1, <2>1, PlaceParts
<1>9. \A p, q \in below : p.node = q.node => p = q
    BY DEF Family
<1> QED BY <1>2, <1>3, <1>5, <1>6, <1>7, <1>8, <1>9

LEMMA ChildIsNew ==
    ASSUME NEW tree \in TreeType, NEW root \in Places \ Ends, NEW below, NEW height,
           Family(tree, root, below, height),
           NEW cur, NEW s \in Seq(Nodes), NEW m, Walking(below, height, cur, s, m)
    PROVE  /\ \A j \in 1 .. Len(s) : s[j] \in Nodes /\ cur[j] \in below \cup Ends
           /\ \A i, j \in 1 .. Len(s) : i # j => s[i] # s[j]
           /\ s # <<>> => /\ Len(s) \in 1 .. Len(s)
                          /\ \A j \in 1 .. Len(s) : s[j] # cur[Len(s)].node
<1>0. Len(s) \in Nat /\ \A j \in 1 .. Len(s) : s[j] \in Nodes
    BY LenProperties
<1>1. \A n \in Nodes : height[n] \in Nat
    BY FamilyFacts
<1>2. \A j \in 1 .. Len(s) : cur[j] \in below \cup Ends
    BY DEF Walking
<1>3. ASSUME NEW i \in 1 .. Len(s), NEW j \in 1 .. Len(s), i # j
      PROVE  s[i] # s[j]
    <2>1. height[s[i]] \in Nat /\ height[s[j]] \in Nat
        BY <1>0, <1>1
    <2>2. i < j \/ j < i
        BY <1>0, <1>3
    <2>3. height[s[i]] # height[s[j]]
        BY <2>1, <2>2 DEF Walking
    <2> QED BY <2>3
<1>4. ASSUME s # <<>> PROVE Len(s) \in 1 .. Len(s)
    BY <1>4, EmptySeq
<1>5. ASSUME s # <<>>, NEW j \in 1 .. Len(s)
      PROVE  s[j] # cur[Len(s)].node
    <2> DEFINE k == Len(s)
               c == cur[k].node
    <2>1. k \in 1 .. k
        BY <1>4, <1>5
    <2>2. height[c] < height[s[k]]
        BY <2>1 DEF Walking
    <2>3. j = k \/ j < k
        BY <1>0
    <2>4. j < k => height[s[k]] < height[s[j]]
        BY <2>1 DEF Walking
    <2>5. height[c] \in Nat
        <3>1. cur[k] \in below \cup Ends
            BY <1>2, <2>1
        <3> QED BY <3>1, FamilyFacts
    <2>6. height[s[k]] \in Nat /\ height[s[j]] \in Nat
        BY <1>0, <1>1, <2>1
    <2>7. height[c] < height[s[j]]
        <3> HIDE DEF k, c
        <3> QED BY <2>2, <2>3, <2>4, <2>5, <2>6
    <2> QED BY <2>5, <2>6, <2>7
<1> QED BY <1>0, <1>2, <1>3, <1>4, <1>5

LEMMA WalkingMove ==
    ASSUME NEW tree \in TreeType, NEW root \in Places \ Ends, NEW below, NEW height,
           Family(tree, root, below, height),
           NEW cur, NEW s \in Seq(Nodes), NEW m, Walking(below, height, cur, s, m),
           s # <<>>, NEW at \in below, cur[Len(s)] = at, NEW next,
           \A j \in 1 .. Len(s) : j # Len(s) => next[s[j]].nextChild = m[s[j]].nextChild,
           next[s[Len(s)]].nextChild = tree[at.node].sibling
    PROVE  Walking(below, height, Moved(cur, Len(s), Behind(tree, at)), s, next)
<1> DEFINE k == Len(s)
           new == Moved(cur, k, Behind(tree, at))
<1>0. k \in Nat /\ k \in 1 .. k /\ \A j \in 1 .. k : s[j] \in Nodes /\ cur[j] \in below \cup Ends
    BY ChildIsNew
<1>1. /\ Behind(tree, at) \in below \cup Ends /\ at.node \in Nodes
      /\ Behind(tree, at).node = tree[at.node].sibling
      /\ height[tree[at.node].sibling] < height[at.node]
      /\ height[at.node] \in Nat /\ height[tree[at.node].sibling] \in Nat
      /\ \A n \in Nodes : height[n] \in Nat
    <2>1. at.node \in Nodes /\ Behind(tree, at).node = tree[at.node].sibling
        BY FamilyFacts
    <2>2. tree[at.node].sibling \in Pointers
        BY <2>1, LinkTypes
    <2> QED BY <2>1, <2>2, FamilyFacts
<1>2. /\ cur \in [1 .. k -> below \cup Ends]
      /\ \A j \in 1 .. k : cur[j].node = m[s[j]].nextChild /\ height[cur[j].node] < height[s[j]]
      /\ \A i, j \in 1 .. k : i < j => height[s[j]] < height[s[i]]
    BY DEF Walking
<1>3. /\ new \in [1 .. k -> below \cup Ends] /\ new[k] = Behind(tree, at)
      /\ \A j \in 1 .. k : j # k => new[j] = cur[j]
    <2> HIDE DEF k
    <2> QED BY <1>0, <1>1, <1>2 DEF Moved
<1>4. height[tree[at.node].sibling] < height[s[k]]
    <2>1. height[at.node] < height[s[k]] /\ height[s[k]] \in Nat
        BY <1>0, <1>1, <1>2
    <2> HIDE DEF k
    <2> QED BY <1>1, <2>1
<1> HIDE DEF new
<1>5. ASSUME NEW j \in 1 .. k
      PROVE  new[j].node = next[s[j]].nextChild /\ height[new[j].node] < height[s[j]]
    <2>1. CASE j = k
        BY <1>1, <1>3, <1>4, <2>1
    <2>2. CASE j # k
        BY <1>2, <1>3, <2>2
    <2> QED BY <2>1, <2>2
<1>6. Walking(below, height, new, s, next)
    BY <1>2, <1>3, <1>5 DEF Walking
<1> QED BY <1>6 DEF new

LEMMA WalkingPush ==
    ASSUME NEW tree \in TreeType, NEW root \in Places \ Ends, NEW below, NEW height,
           Family(tree, root, below, height),
           NEW cur, NEW s \in Seq(Nodes), NEW m, Walking(below, height, cur, s, m),
           s # <<>>, NEW at \in below, cur[Len(s)] = at, NEW next,
           \A j \in 1 .. Len(s) : j # Len(s) => next[s[j]].nextChild = m[s[j]].nextChild,
           next[s[Len(s)]].nextChild = tree[at.node].sibling,
           next[at.node].nextChild = FirstChild(tree, at.node)
    PROVE  Walking(below, height, Pushed(cur, Len(s), Behind(tree, at), Inside(tree, at)),
                   Append(s, at.node), next)
<1> DEFINE k == Len(s)
           t == Append(s, at.node)
           moved == Moved(cur, k, Behind(tree, at))
           new == Pushed(cur, k, Behind(tree, at), Inside(tree, at))
<1>0. k \in Nat /\ k \in 1 .. k /\ \A j \in 1 .. k : s[j] \in Nodes /\ cur[j] \in below \cup Ends
    BY ChildIsNew
<1>1. /\ Behind(tree, at) \in below \cup Ends /\ Inside(tree, at) \in below \cup Ends
      /\ at.node \in Nodes /\ Inside(tree, at).node = FirstChild(tree, at.node)
      /\ height[FirstChild(tree, at.node)] < height[at.node]
      /\ \A n \in Nodes : height[n] \in Nat
    BY FamilyFacts
<1>2. Walking(below, height, moved, s, next)
    BY WalkingMove
<1>3. /\ cur \in [1 .. k -> below \cup Ends] /\ moved \in [1 .. k -> below \cup Ends]
      /\ \A j \in 1 .. k : /\ moved[j].node = next[s[j]].nextChild
                           /\ height[moved[j].node] < height[s[j]]
      /\ \A i, j \in 1 .. k : i < j => height[s[j]] < height[s[i]]
      /\ height[at.node] < height[s[k]]
    BY <1>0, <1>2 DEF Walking
<1>4. Len(t) = k + 1 /\ t[k + 1] = at.node /\ \A j \in 1 .. k : t[j] = s[j]
    BY <1>1
<1> HIDE DEF k, t
<1>5. /\ new \in [1 .. k + 1 -> below \cup Ends] /\ new[k + 1] = Inside(tree, at)
      /\ \A j \in 1 .. k : new[j] = moved[j]
    BY <1>0, <1>1, <1>3 DEF Moved, Pushed
<1> HIDE DEF new, moved
<1>6. ASSUME NEW j \in 1 .. k + 1
      PROVE  new[j].node = next[t[j]].nextChild /\ height[new[j].node] < height[t[j]]
    <2>1. CASE j = k + 1
        BY <1>1, <1>4, <1>5, <2>1
    <2>2. CASE j # k + 1
        <3>1. j \in 1 .. k
            BY <1>0, <2>2
        <3> QED BY <1>3, <1>4, <1>5, <3>1
    <2> QED BY <2>1, <2>2
<1>7. ASSUME NEW i \in 1 .. k + 1, NEW j \in 1 .. k + 1, i < j
      PROVE  height[t[j]] < height[t[i]]
    <2>1. i \in 1 .. k /\ t[i] = s[i] /\ s[i] \in Nodes
        BY <1>0, <1>4, <1>7
    <2>2. CASE j # k + 1
        <3>1. j \in 1 .. k /\ t[j] = s[j]
            BY <1>0, <1>4, <2>2
        <3> QED BY <1>3, <1>7, <2>1, <3>1
    <2>3. CASE j = k + 1
        <3>1. height[s[k]] \in Nat /\ height[s[i]] \in Nat /\ height[at.node] \in Nat
            BY <1>0, <1>1, <2>1
        <3>2. i = k \/ height[s[k]] < height[s[i]]
            <4>1. i = k \/ i < k
                BY <1>0, <2>1
            <4> QED BY <1>0, <1>3, <2>1, <4>1
        <3>3. height[at.node] < height[s[i]]
            BY <1>3, <3>1, <3>2
        <3> QED BY <1>4, <2>1, <2>3, <3>3
    <2> QED BY <2>2, <2>3
<1>8. Walking(below, height, new, t, next)
    BY <1>4, <1>5, <1>6, <1>7 DEF Walking
<1> QED BY <1>8 DEF new, t, k

LEMMA WalkingPop ==
    ASSUME NEW tree \in TreeType, NEW root \in Places \ Ends, NEW below, NEW height,
           Family(tree, root, below, height),
           NEW cur, NEW s \in Seq(Nodes), NEW m, Walking(below, height, cur, s, m),
           s # <<>>, NEW next,
           \A j \in 1 .. Len(s) : j # Len(s) => next[s[j]].nextChild = m[s[j]].nextChild
    PROVE  /\ Walking(below, height, Popped(cur, Len(s)), Pop(s), next)
           /\ Len(Pop(s)) = Len(s) - 1
           /\ \A j \in 1 .. Len(s) - 1 : Pop(s)[j] = s[j]
<1> DEFINE k == Len(s)
           t == Pop(s)
           new == Popped(cur, k)
<1>0. k \in Nat \ {0}
    BY EmptySeq
<1>1. Len(t) = k - 1 /\ \A j \in 1 .. k - 1 : t[j] = s[j]
    BY <1>0 DEF Pop
<1> HIDE DEF k, t
<1>2. \A j \in 1 .. k - 1 : j \in 1 .. k /\ j # k
    BY <1>0
<1>3. /\ cur \in [1 .. k -> below \cup Ends]
      /\ \A j \in 1 .. k : cur[j].node = m[s[j]].nextChild /\ height[cur[j].node] < height[s[j]]
      /\ \A i, j \in 1 .. k : i < j => height[s[j]] < height[s[i]]
    BY DEF Walking, k
<1>4. new \in [1 .. k - 1 -> below \cup Ends] /\ \A j \in 1 .. k - 1 : new[j] = cur[j]
    BY <1>2, <1>3 DEF Popped
<1> HIDE DEF new
<1>5. ASSUME NEW j \in 1 .. k - 1
      PROVE  new[j].node = next[t[j]].nextChild /\ height[new[j].node] < height[t[j]]
    <2>1. next[s[j]].nextChild = m[s[j]].nextChild
        BY <1>2 DEF k
    <2> QED BY <1>1, <1>2, <1>3, <1>4, <2>1
<1>6. \A i, j \in 1 .. k - 1 : i < j => height[t[j]] < height[t[i]]
    BY <1>1, <1>2, <1>3
<1>7. Walking(below, height, new, t, next)
    BY <1>1, <1>4, <1>5, <1>6 DEF Walking
<1> QED BY <1>1, <1>7 DEF new, t, k

LEMMA WalkingStart ==
    ASSUME NEW tree \in TreeType, NEW root \in Places \ Ends, NEW below, NEW height,
           Family(tree, root, below, height), NEW next,
           next[root.node].nextChild = FirstChild(tree, root.node),
           NEW s, s = << root.node >>
    PROVE  Walking(below, height, One(Inside(tree, root)), s, next)
<1> DEFINE cur == One(Inside(tree, root))
<1>1. Inside(tree, root) \in below \cup Ends
    BY DEF Family
<1>2. /\ root.node \in Nodes /\ Inside(tree, root).node = FirstChild(tree, root.node)
      /\ height[FirstChild(tree, root.node)] < height[root.node]
    BY PlaceParts, NextPlaces, FamilyFacts
<1>3. cur \in [1 .. 1 -> below \cup Ends] /\ cur[1] = Inside(tree, root) /\ 1 .. 1 = {1}
    BY <1>1 DEF One
<1>4. Len(s) = 1 /\ s[1] = root.node
    OBVIOUS
<1> HIDE DEF cur
<1>5. Walking(below, height, cur, s, next)
    BY <1>2, <1>3, <1>4 DEF Walking
<1> QED BY <1>5 DEF cur
-----------------------------------------------------------------------------
(* What is left to do when the parent on top of the stack has gone on.       *)

\* With y for what is below the top: p takes the place of what the top is at, q
\* comes on top of it, the top goes.
ChainGoesOn(step, E, zero, cur, k, y, p, q) ==
    /\ IsChain(step, E, zero, Moved(cur, k, p), k, step[p][y])
    /\ IsChain(step, E, zero, Pushed(cur, k, p, q), k + 1, step[q][step[p][y]])
    /\ IsChain(step, E, zero, Popped(cur, k), k - 1, y)

LEMMA ChainNext ==
    ASSUME NEW D, NEW E, NEW step \in [D -> [E -> E]], NEW zero, NEW k \in Nat \ {0},
           NEW F \in SUBSET D, NEW cur \in [1 .. k -> F], NEW x, IsChain(step, E, zero, cur, k, x)
    PROVE  \E y \in E : /\ x = step[cur[k]][y]
                        /\ \A p, q \in F : ChainGoesOn(step, E, zero, cur, k, y, p, q)
<1>1. PICK y \in E : IsChain(step, E, zero, cur, k - 1, y) /\ x = step[cur[k]][y]
    BY ChainBelow
<1>2. k - 1 \in Nat /\ k - 1 + 1 = k /\ \A j \in 1 .. k - 1 : j \in 1 .. k /\ j < k /\ j # k
    OBVIOUS
<1>3. ASSUME NEW p \in F, NEW q \in F PROVE ChainGoesOn(step, E, zero, cur, k, y, p, q)
    <2> DEFINE moved == Moved(cur, k, p)
               pushed == Pushed(cur, k, p, q)
               popped == Popped(cur, k)
    <2>1. /\ moved[k] = p /\ pushed[k] = p /\ pushed[k + 1] = q
          /\ \A j \in 1 .. k - 1 : moved[j] = cur[j] /\ pushed[j] = cur[j] /\ popped[j] = cur[j]
        BY <1>2 DEF Moved, Pushed, Popped
    <2>2. step[p] \in [E -> E] /\ step[q] \in [E -> E]
        OBVIOUS
    <2>3. step[p][y] \in E
        BY <2>2
    <2>4. step[q][step[p][y]] \in E
        BY <2>2, <2>3
    <2> HIDE DEF moved, pushed, popped
    <2>5. IsChain(step, E, zero, moved, k, step[p][y])
        <3>1. IsChain(step, E, zero, moved, k - 1 + 1, step[moved[k - 1 + 1]][y])
            <4>1. \A j \in 1 .. k - 1 : moved[j] = cur[j]
                BY <2>1
            <4>2. step[moved[k - 1 + 1]][y] \in E
                BY <1>2, <2>1, <2>3
            <4> QED BY <1>1, <1>2, <4>1, <4>2, ChainAbove
        <3> QED BY <1>2, <2>1, <3>1
    <2>6. IsChain(step, E, zero, pushed, k, step[p][y])
        <3>1. IsChain(step, E, zero, pushed, k - 1 + 1, step[pushed[k - 1 + 1]][y])
            <4>1. \A j \in 1 .. k - 1 : pushed[j] = cur[j]
                BY <2>1
            <4>2. step[pushed[k - 1 + 1]][y] \in E
                BY <1>2, <2>1, <2>3
            <4> QED BY <1>1, <1>2, <4>1, <4>2, ChainAbove
        <3> QED BY <1>2, <2>1, <3>1
    <2>7. IsChain(step, E, zero, pushed, k + 1, step[q][step[p][y]])
        <3>1. step[pushed[k + 1]][step[p][y]] \in E
            BY <2>1, <2>4
        <3>2. IsChain(step, E, zero, pushed, k + 1, step[pushed[k + 1]][step[p][y]])
            <4>1. k \in Nat /\ \A j \in 1 .. k : pushed[j] = pushed[j]
                OBVIOUS
            <4> QED BY <2>3, <2>6, <3>1, <4>1, ChainAbove
        <3> QED BY <2>1, <3>2
    <2>8. IsChain(step, E, zero, popped, k - 1, y)
        <3>1. PICK r \in [0 .. k - 1 -> E] : /\ r[0] = zero
                                             /\ \A j \in 1 .. k - 1 : r[j] = step[cur[j]][r[j - 1]]
                                             /\ r[k - 1] = y
            BY <1>1 DEF IsChain
        <3>2. \A j \in 1 .. k - 1 : r[j] = step[popped[j]][r[j - 1]]
            BY <2>1, <3>1
        <3> QED BY <3>1, <3>2 DEF IsChain
    <2> QED BY <2>5, <2>7, <2>8 DEF ChainGoesOn, moved, pushed, popped
<1> QED BY <1>1, <1>3

\* One cursor.
LEMMA ChainOne ==
    ASSUME NEW D, NEW E, NEW step \in [D -> [E -> E]], NEW zero \in E, NEW p \in D
    PROVE  IsChain(step, E, zero, One(p), 1, step[p][zero])
<1> DEFINE cur == One(p)
<1>1. IsChain(step, E, zero, cur, 0, zero)
    BY ChainZero
<1>2. cur[0 + 1] = p /\ step[p] \in [E -> E]
    BY DEF One
<1>3. step[cur[0 + 1]][zero] \in E
    BY <1>2
<1> HIDE DEF cur
<1>4. IsChain(step, E, zero, cur, 0 + 1, step[cur[0 + 1]][zero])
    <2>1. 0 \in Nat /\ \A j \in 1 .. 0 : cur[j] = cur[j]
        OBVIOUS
    <2> QED BY <1>1, <1>3, <2>1, ChainAbove
<1>5. IsChain(step, E, zero, cur, 1, step[p][zero])
    <2>1. 0 + 1 = 1
        OBVIOUS
    <2> QED BY <1>2, <1>4, <2>1
<1> QED BY <1>5 DEF cur

\* The status of what a cursor is at, and the tuples of it, before what is left
\* further down.
StatusStep(tree) ==
    [p \in Places |-> [x \in EncoderStatuses |-> FirstFault(StatusFrom(tree)[p], x)]]

TuplesStep(tree) ==
    [p \in Places |-> [x \in Encodings(tree) |-> TuplesFrom(tree)[p] \o x]]

\* The status of what is left to visit, and the tuples of what is left to write.
StatusLeft(tree, cur, k, verdict) ==
    IsChain(StatusStep(tree), EncoderStatuses, "OK", cur, k, verdict)

TuplesLeft(tree, cur, k, rest) ==
    IsChain(TuplesStep(tree), Encodings(tree), <<>>, cur, k, rest)

LEMMA StatusStepType ==
    ASSUME NEW tree \in TreeType, NoCycle(tree)
    PROVE  /\ StatusStep(tree) \in [Places -> [EncoderStatuses -> EncoderStatuses]]
           /\ \A p \in Places, x \in EncoderStatuses :
                 StatusStep(tree)[p][x] = FirstFault(StatusFrom(tree)[p], x)
           /\ "OK" \in EncoderStatuses
<1>1. \A p \in Places : StatusFrom(tree)[p] \in EncoderStatuses
    BY StatusEquation
<1>2. \A p \in Places, x \in EncoderStatuses : FirstFault(StatusFrom(tree)[p], x) \in EncoderStatuses
    BY <1>1 DEF FirstFault
<1> QED BY <1>2 DEF StatusStep, EncoderStatuses

LEMMA TuplesStepType ==
    ASSUME NEW tree \in TreeType, NoCycle(tree)
    PROVE  /\ TuplesStep(tree) \in [Places -> [Encodings(tree) -> Encodings(tree)]]
           /\ \A p \in Places, x \in Encodings(tree) :
                 TuplesStep(tree)[p][x] = TuplesFrom(tree)[p] \o x
           /\ <<>> \in Encodings(tree)
<1>1. \A p \in Places : TuplesFrom(tree)[p] \in Encodings(tree)
    BY TuplesEquation
<1>2. \A p \in Places, x \in Encodings(tree) : TuplesFrom(tree)[p] \o x \in Encodings(tree)
    BY <1>1, MeasureEncoding
<1>3. <<>> \in Encodings(tree)
    BY DEF Encodings
<1> QED BY <1>2, <1>3 DEF TuplesStep

\* The status of a list of children, by its first.
LEMMA StatusOfPlace ==
    ASSUME NEW tree \in TreeType, NoCycle(tree), NEW at \in Places \ Ends,
           NEW later \in EncoderStatuses
    PROVE  LET status == LeafStatus(tree[at.node], Found(tree, at))
               from == StatusFrom(tree)
           IN  /\ FirstFault(from[at], later) =
                      FirstFault(status, FirstFault(from[Inside(tree, at)],
                                                    FirstFault(from[Behind(tree, at)], later)))
               /\ FirstFault(status, later) = IF status = "OK" THEN later ELSE status
               /\ Inside(tree, at) \in Ends => from[Inside(tree, at)] = "OK"
               /\ FirstFault("OK", later) = later
<1>1. StatusFrom(tree)[at] =
          FirstFault(StatusAt(tree, StatusFrom(tree), at), StatusFrom(tree)[Behind(tree, at)])
    BY StatusEquation
<1>2. Inside(tree, at) \in Ends => StatusFrom(tree)[Inside(tree, at)] = "OK"
    BY StatusEquation
<1> QED BY <1>1, <1>2 DEF StatusAt, FirstFault

\* The tuples of a list of children, by its first.
LEMMA TuplesOfPlace ==
    ASSUME NEW tree \in TreeType, NoCycle(tree), NEW at \in Places \ Ends,
           NEW later \in Encodings(tree)
    PROVE  LET tuples == TuplesFrom(tree)
           IN  /\ tuples[at] \o later =
                      TupleAt(tree, tuples, at) \o (tuples[Behind(tree, at)] \o later)
               /\ TupleAt(tree, tuples, at) \in Encodings(tree)
               /\ tuples[Behind(tree, at)] \o later \in Encodings(tree)
<1> DEFINE tuple == TupleAt(tree, TuplesFrom(tree), at)
           behind == TuplesFrom(tree)[Behind(tree, at)]
<1>1. TuplesFrom(tree)[at] = tuple \o behind
    BY TuplesEquation
<1>2. tuple \in Encodings(tree) /\ behind \in Encodings(tree)
    BY TuplesTyped
<1> HIDE DEF tuple, behind
<1>3. (tuple \o behind) \o later = tuple \o (behind \o later)
    BY <1>2, Associative DEF Encodings
<1>4. behind \o later \in Encodings(tree)
    BY <1>2, MeasureEncoding
<1> QED BY <1>1, <1>2, <1>3, <1>4 DEF tuple, behind
-----------------------------------------------------------------------------
(* What has been written of the whole, and what is left of it. A callback    *)
(* that has failed may have cost integers.                                   *)

Emits(tree, lossy, written, rest, whole) ==
    \E full \in Encodings(tree) :
        /\ full \o rest = whole
        /\ IF lossy THEN written \in WithoutIntegers(full) ELSE written = full

\* All pieces have been received.
LEMMA EmitAll ==
    ASSUME NEW tree, NEW lossy \in BOOLEAN, NEW written, NEW whole,
           NEW pieces \in Encodings(tree), NEW rest \in Encodings(tree),
           Emits(tree, lossy, written, pieces \o rest, whole)
    PROVE  /\ Emits(tree, lossy, written \o pieces, rest, whole)
           /\ Emits(tree, TRUE, written \o pieces, rest, whole)
<1>1. PICK full \in Encodings(tree) :
          /\ full \o (pieces \o rest) = whole
          /\ IF lossy THEN written \in WithoutIntegers(full) ELSE written = full
    BY DEF Emits
<1>2. full \o pieces \in Encodings(tree) /\ (full \o pieces) \o rest = whole
    <2>1. (full \o pieces) \o rest = full \o (pieces \o rest)
        BY Associative DEF Encodings
    <2> QED BY <1>1, <2>1, MeasureEncoding
<1>3. written \in WithoutIntegers(full)
    <2>1. full \in WithoutIntegers(full)
        BY LostNothing DEF Encodings
    <2> QED BY <1>1, <2>1
<1>4. pieces \in WithoutIntegers(pieces)
    BY LostNothing DEF Encodings
<1>5. written \o pieces \in WithoutIntegers(full \o pieces)
    BY <1>3, <1>4, LostJoined DEF Encodings
<1>6. ~lossy => written \o pieces = full \o pieces
    BY <1>1
<1> QED BY <1>2, <1>5, <1>6 DEF Emits

LEMMA ShortenedLost ==
    ASSUME NEW tree, NEW pieces \in Encodings(tree), NEW sent \in {pieces} \cup Shortened(pieces)
    PROVE  sent \in WithoutIntegers(pieces)
<1>1. CASE sent = pieces
    BY <1>1, LostNothing DEF Encodings
<1>2. CASE sent \in Shortened(pieces)
    <2>1. PICK i \in DOMAIN pieces :
              /\ pieces[i].kind = "integer"
              /\ sent = SubSeq(pieces, 1, i - 1) \o SubSeq(pieces, i + 1, Len(pieces))
        BY <1>2 DEF Shortened
    <2> QED BY <2>1, LostOne DEF Encodings
<1> QED BY <1>1, <1>2

\* An integer has been lost.
LEMMA EmitLossy ==
    ASSUME NEW tree, NEW lossy \in BOOLEAN, NEW written, NEW whole,
           NEW pieces \in Encodings(tree), NEW rest \in Encodings(tree),
           Emits(tree, lossy, written, pieces \o rest, whole),
           NEW left \in WithoutIntegers(pieces)
    PROVE  Emits(tree, TRUE, written \o left, rest, whole)
<1>1. PICK full \in Encodings(tree) :
          /\ full \o (pieces \o rest) = whole
          /\ IF lossy THEN written \in WithoutIntegers(full) ELSE written = full
    BY DEF Emits
<1>2. full \o pieces \in Encodings(tree) /\ (full \o pieces) \o rest = whole
    <2>1. (full \o pieces) \o rest = full \o (pieces \o rest)
        BY Associative DEF Encodings
    <2> QED BY <1>1, <2>1, MeasureEncoding
<1>3. written \in WithoutIntegers(full)
    <2>1. full \in WithoutIntegers(full)
        BY LostNothing DEF Encodings
    <2> QED BY <1>1, <2>1
<1>4. written \o left \in WithoutIntegers(full \o pieces)
    BY <1>3, LostJoined DEF Encodings
<1> QED BY <1>2, <1>4 DEF Emits

\* The callback has refused piece i, and perhaps an integer before it.
LEMMA EmitPart ==
    ASSUME NEW tree, NEW lossy \in BOOLEAN, NEW written, NEW whole,
           NEW pieces \in Encodings(tree), NEW rest \in Encodings(tree),
           Emits(tree, lossy, written, pieces \o rest, whole),
           NEW i \in DOMAIN pieces, NEW handed, handed = SubSeq(pieces, 1, i - 1),
           NEW sent \in {handed} \cup Shortened(handed)
    PROVE  \E left \in Encodings(tree) : Emits(tree, TRUE, written \o sent, left, whole)
<1> DEFINE part == SubSeq(pieces, 1, i - 1)
           tail == SubSeq(pieces, i, Len(pieces))
           P == PiecesOf(Said(tree))
<1>0. pieces \in Seq(P) /\ i \in 1 .. Len(pieces)
    <2>1. pieces \in Seq(P)
        BY DEF Encodings
    <2> QED BY <2>1
<1>1. part \in Seq(P) /\ tail \in Seq(P)
    <2> HIDE DEF P
    <2> QED BY <1>0
<1>2. part \o tail = pieces
    <2>1. CASE i = 1
        <3>1. part = <<>> /\ tail = pieces
            BY <1>0, <2>1
        <3>2. <<>> \o pieces = pieces
            BY <1>0
        <3> QED BY <3>1, <3>2
    <2>2. CASE i # 1
        <3>1. i - 1 \in 1 .. Len(pieces) /\ i - 1 + 1 = i
            BY <1>0, <2>2
        <3> HIDE DEF P
        <3>2. Splits(pieces, i - 1)
            BY <1>0, <3>1, SplitAt
        <3>3. part \o SubSeq(pieces, i - 1 + 1, Len(pieces)) = pieces
            BY <3>2 DEF Splits
        <3> HIDE DEF part
        <3> QED BY <3>1, <3>3
    <2> QED BY <2>1, <2>2
<1>3. part \in Encodings(tree) /\ tail \in Encodings(tree)
    BY <1>1 DEF Encodings
<1> HIDE DEF part, tail, P
<1>4. tail \o rest \in Encodings(tree)
    BY <1>3, MeasureEncoding
<1>5. part \o (tail \o rest) = pieces \o rest
    <2>1. (part \o tail) \o rest = part \o (tail \o rest)
        <3>1. Associates(part, tail, rest)
            BY <1>3, EncodingsAssociate
        <3> QED BY ONLY <3>1 DEF Associates
    <2> QED BY <1>2, <2>1
<1>6. Emits(tree, lossy, written, part \o (tail \o rest), whole)
    BY <1>5
<1>7. sent \in WithoutIntegers(part)
    <2>1. handed = part
        BY DEF part
    <2> QED BY <1>3, <2>1, ShortenedLost
<1>8. Emits(tree, TRUE, written \o sent, tail \o rest, whole)
    BY <1>3, <1>4, <1>6, <1>7, EmitLossy
<1> QED BY <1>4, <1>8
-----------------------------------------------------------------------------
(* What the first walk has done to the nodes.                                *)

FlaggedNode(tree, at) == [tree[at.node] EXCEPT !.ro = @ \/ Found(tree, at).again]

\* The metadata of a node the second walk can start from.
ReadyAt(tree, at, m, ns) ==
    Ready(tree, at, m[at.node]) /\ ns[at.node] = FlaggedNode(tree, at)

\* Where the metadata of a parent says that its next child is.
Cursor(m) == [node |-> m.nextChild, dict |-> m.dictionary, index |-> m.nextChildIndex,
              start |-> m.childrenDictPropOffset]

\* A parent whose children are being visited.
InParent(tree, at, cur, m, node) ==
    /\ bejTreeIsParentType(tree[at.node])
    /\ m.sequenceNumber = SequenceNumber(Found(tree, at))
    /\ m.sflSize = bejNnintEncodingSizeOfUInt(SequenceNumber(Found(tree, at))) + TupleFSize
    /\ node = FlaggedNode(tree, at)
    /\ cur \notin Ends => cur = Cursor(m)

\* The parents on the stack, at their places at.
Entered(tree, root, below, at, cur, s, m, ns) ==
    /\ at \in [1 .. Len(s) -> below \cup {root}]
    /\ \A j \in 1 .. Len(s) :
          at[j].node = s[j] /\ InParent(tree, at[j], cur[j], m[s[j]], ns[s[j]])

\* The size of the tuple of a place, and of those from it on.
TupleSize(tree, p) == Measure(TupleAt(tree, TuplesFrom(tree), p))
SizeFrom(tree, p) == Measure(TuplesFrom(tree)[p])
ValueSize(tree, p) == Measure(ValueAt(tree, p))

\* What the size of a parent's value does not count yet: what is from the cursor
\* on and, unless the parent is on top, the child whose children are being visited.
Counted(tree, at, cur, s, m) ==
    \A j \in 1 .. Len(s) :
        m[s[j]].vSize + SizeFrom(tree, cur[j])
            + (IF j = Len(s) THEN 0 ELSE TupleSize(tree, at[j + 1])) = ValueSize(tree, at[j])

\* A node is on the stack, or ready, or one of those to be visited.
Covered(tree, root, below, cur, s, m, ns) ==
    \A p \in below \cup {root} : \/ \E j \in 1 .. Len(s) : s[j] = p.node
                                 \/ ReadyAt(tree, p, m, ns)
                                 \/ \E j \in 1 .. Len(s) : p \in Under(tree, cur[j])

FirstWalk(tree, root, below, at, cur, s, m, ns) ==
    /\ Entered(tree, root, below, at, cur, s, m, ns)
    /\ Counted(tree, at, cur, s, m)
    /\ Covered(tree, root, below, cur, s, m, ns)

\* When the stack is empty every node is ready.
AllReady(tree, root, below, m, ns) == \A p \in below \cup {root} : ReadyAt(tree, p, m, ns)

LEMMA WalkEnds ==
    ASSUME NEW tree, NEW root, NEW below, NEW at, NEW cur, NEW m, NEW ns,
           FirstWalk(tree, root, below, at, cur, <<>>, m, ns)
    PROVE  AllReady(tree, root, below, m, ns)
<1>1. Len(<<>>) = 0 /\ 1 .. 0 = {}
    OBVIOUS
<1> QED BY <1>1 DEF FirstWalk, Covered, AllReady

\* How the metadata of a parent has changed that has gone on from the child at p.
GoneOn(tree, p, old, new) ==
    /\ new.sequenceNumber = old.sequenceNumber /\ new.sflSize = old.sflSize
    /\ new.dictionary = old.dictionary
    /\ new.childrenDictPropOffset = old.childrenDictPropOffset
    /\ new.nextChild = tree[p.node].sibling
    /\ new.nextChildIndex = (old.nextChildIndex + 1) % IndexRange

LEMMA InParentGoesOn ==
    ASSUME NEW tree \in TreeType, NEW root \in Places \ Ends, NEW below, NEW height,
           Family(tree, root, below, height), NEW at, NEW p \in below, NEW old, NEW new, NEW node,
           InParent(tree, at, p, old, node), GoneOn(tree, p, old, new)
    PROVE  InParent(tree, at, Behind(tree, p), new, node)
<1>1. p = Cursor(old)
    BY FamilyFacts DEF InParent
<1>2. p.dict = old.dictionary /\ p.index = old.nextChildIndex
      /\ p.start = old.childrenDictPropOffset
    BY <1>1 DEF Cursor
<1>3. ASSUME Behind(tree, p) \notin Ends PROVE Behind(tree, p) = Cursor(new)
    <2>1. Behind(tree, p) \in below /\ p \in Places
        BY <1>3, FamilyFacts
    <2> QED BY <1>2, <2>1 DEF Behind, Cursor, GoneOn
<1> QED BY <1>3 DEF InParent, GoneOn

\* The stack, the cursors and the places fit.
WalkContext(tree, root, below, height, cur, s, m, p) ==
    /\ tree \in TreeType /\ WellBuilt(tree)
    /\ root \in Places \ Ends /\ Family(tree, root, below, height)
    /\ s \in Seq(Nodes) /\ s # <<>> /\ Walking(below, height, cur, s, m)
    /\ p = cur[Len(s)]

LEMMA WalkFacts ==
    ASSUME NEW tree, NEW root, NEW below, NEW height, NEW cur, NEW s, NEW m, NEW p,
           WalkContext(tree, root, below, height, cur, s, m, p)
    PROVE  /\ Len(s) \in Nat \ {0} /\ Len(s) \in 1 .. Len(s)
           /\ cur \in [1 .. Len(s) -> below \cup Ends]
           /\ \A j \in 1 .. Len(s) : s[j] \in Nodes /\ cur[j] \in Places
           /\ \A i, j \in 1 .. Len(s) : i # j => s[i] # s[j]
           /\ \A j \in 1 .. Len(s) : s[j] # p.node
           /\ below \cup {root} \subseteq Places \ Ends
           /\ \A q \in below \cup {root} : q.node \in Nodes /\ q \in Places \ Ends
           /\ \A q, r \in below \cup {root} : q.node = r.node => q = r
           /\ p \notin Ends => p \in below
<1> USE DEF WalkContext
<1>1. /\ \A j \in 1 .. Len(s) : s[j] \in Nodes /\ cur[j] \in below \cup Ends
      /\ \A i, j \in 1 .. Len(s) : i # j => s[i] # s[j]
      /\ Len(s) \in 1 .. Len(s)
      /\ \A j \in 1 .. Len(s) : s[j] # p.node
    BY ChildIsNew
<1>2. Len(s) \in Nat \ {0}
    BY EmptySeq
<1>3. cur \in [1 .. Len(s) -> below \cup Ends]
    BY DEF Walking
<1>4. /\ \A q \in below \cup Ends : q \in Places
      /\ \A q \in below : q \in Places \ Ends /\ q.node \in Nodes
      /\ \A q, r \in below \cup {root} : q.node = r.node => q = r
      /\ \A q \in (below \cup Ends) \ Ends : q \in below
    BY FamilyFacts
<1>5. root.node \in Nodes
    BY PlaceParts
<1> QED BY <1>1, <1>2, <1>3, <1>4, <1>5

\* The sizes of what is linked to a place.
LEMMA PlaceSizes ==
    ASSUME NEW tree \in TreeType, NoCycle(tree)
    PROVE  /\ \A p \in Places : SizeFrom(tree, p) \in Nat
           /\ \A p \in Ends : SizeFrom(tree, p) = 0
           /\ \A p \in Places \ Ends :
                 /\ TupleSize(tree, p) \in Nat /\ ValueSize(tree, p) \in Nat
                 /\ SizeFrom(tree, p) = TupleSize(tree, p) + SizeFrom(tree, Behind(tree, p))
                 /\ ValueSize(tree, p) =
                        Measure(ValueHead(tree, p)) + SizeFrom(tree, Inside(tree, p))
                 /\ TupleSize(tree, p) =
                        bejNnintEncodingSizeOfUInt(SequenceNumber(Found(tree, p))) + TupleFSize
                            + bejNnintEncodingSizeOfUInt(ValueSize(tree, p)) + ValueSize(tree, p)
<1>1. \A p \in Ends : SizeFrom(tree, p) = 0
    BY TuplesEquation, MeasureEmpty DEF SizeFrom
<1>2. ASSUME NEW p \in Places PROVE SizeFrom(tree, p) \in Nat
    <2>1. TuplesFrom(tree)[p] \in Encodings(tree)
        BY TuplesEquation
    <2> QED BY <2>1, MeasureEncoding DEF SizeFrom
<1>3. ASSUME NEW p \in Places \ Ends
      PROVE  /\ TupleSize(tree, p) \in Nat /\ ValueSize(tree, p) \in Nat
             /\ SizeFrom(tree, p) = TupleSize(tree, p) + SizeFrom(tree, Behind(tree, p))
             /\ ValueSize(tree, p) = Measure(ValueHead(tree, p)) + SizeFrom(tree, Inside(tree, p))
             /\ TupleSize(tree, p) =
                    bejNnintEncodingSizeOfUInt(SequenceNumber(Found(tree, p))) + TupleFSize
                        + bejNnintEncodingSizeOfUInt(ValueSize(tree, p)) + ValueSize(tree, p)
    BY Sums DEF SizeFrom, TupleSize, ValueSize
<1> QED BY <1>1, <1>2, <1>3

\* A leaf has been visited: it is ready, and its size has been added to that of
\* the parent on top, which has gone on.
LEMMA WalkLeaf ==
    ASSUME NEW tree, NEW root, NEW below, NEW height, NEW cur, NEW s, NEW m, NEW p,
           WalkContext(tree, root, below, height, cur, s, m, p), p \notin Ends,
           NEW at, NEW ns, FirstWalk(tree, root, below, at, cur, s, m, ns),
           ~bejTreeIsParentType(tree[p.node]),
           NEW ns2, NEW next,
           \A n \in Nodes : n # p.node => ns2[n] = ns[n],
           \A n \in Nodes : n # p.node /\ n # s[Len(s)] => next[n] = m[n],
           ReadyAt(tree, p, next, ns2),
           m[s[Len(s)]].vSize \in Nat,
           next[s[Len(s)]].vSize = m[s[Len(s)]].vSize + TupleSize(tree, p),
           GoneOn(tree, p, m[s[Len(s)]], next[s[Len(s)]])
    PROVE  FirstWalk(tree, root, below, at, Moved(cur, Len(s), Behind(tree, p)), s, next, ns2)
<1> DEFINE k == Len(s)
           new == Moved(cur, k, Behind(tree, p))
<1>0. /\ tree \in TreeType /\ WellBuilt(tree) /\ NoCycle(tree) /\ root \in Places \ Ends
      /\ Family(tree, root, below, height) /\ p = cur[k]
    BY DEF WalkContext, WellBuilt
<1>1. /\ k \in Nat \ {0} /\ k \in 1 .. k
      /\ cur \in [1 .. k -> below \cup Ends]
      /\ \A j \in 1 .. k : s[j] \in Nodes /\ cur[j] \in Places
      /\ \A i, j \in 1 .. k : i # j => s[i] # s[j]
      /\ \A j \in 1 .. k : s[j] # p.node
      /\ \A q \in below \cup {root} : q.node \in Nodes /\ q \in Places \ Ends
      /\ \A q, r \in below \cup {root} : q.node = r.node => q = r
      /\ p \in below
    BY WalkFacts
<1>2. new[k] = Behind(tree, p) /\ \A j \in 1 .. k : j # k => new[j] = cur[j]
    <2> HIDE DEF k
    <2> QED BY <1>1 DEF Moved
<1>3. /\ Entered(tree, root, below, at, cur, s, m, ns)
      /\ Counted(tree, at, cur, s, m)
      /\ Covered(tree, root, below, cur, s, m, ns)
    BY DEF FirstWalk
<1>4. \A j \in 1 .. k : ns2[s[j]] = ns[s[j]] /\ (j # k => next[s[j]] = m[s[j]])
    BY <1>1
<1> HIDE DEF new
<1>5. Entered(tree, root, below, at, new, s, next, ns2)
    <2>1. ASSUME NEW j \in 1 .. k
          PROVE  at[j].node = s[j] /\ InParent(tree, at[j], new[j], next[s[j]], ns2[s[j]])
        <3>1. at[j].node = s[j] /\ InParent(tree, at[j], cur[j], m[s[j]], ns[s[j]])
            BY <1>3 DEF Entered
        <3>2. CASE j # k
            BY <1>2, <1>4, <3>1, <3>2
        <3>3. CASE j = k
            <4>1. InParent(tree, at[k], p, m[s[k]], ns[s[k]])
                BY <1>0, <3>1, <3>3
            <4>2. InParent(tree, at[k], Behind(tree, p), next[s[k]], ns[s[k]])
                BY <1>0, <1>1, <4>1, InParentGoesOn
            <4> QED BY <1>2, <1>4, <3>1, <3>3, <4>2
        <3> QED BY <3>2, <3>3
    <2> QED BY <1>3, <2>1 DEF Entered
<1>6. Counted(tree, at, new, s, next)
    <2>1. ASSUME NEW j \in 1 .. k
          PROVE  next[s[j]].vSize + SizeFrom(tree, new[j])
                     + (IF j = k THEN 0 ELSE TupleSize(tree, at[j + 1])) = ValueSize(tree, at[j])
        <3>1. m[s[j]].vSize + SizeFrom(tree, cur[j])
                  + (IF j = k THEN 0 ELSE TupleSize(tree, at[j + 1])) = ValueSize(tree, at[j])
            BY <1>3 DEF Counted
        <3>2. CASE j # k
            BY <1>2, <1>4, <3>1, <3>2
        <3>3. CASE j = k
            <4>1. m[s[k]].vSize + SizeFrom(tree, p) + 0 = ValueSize(tree, at[k])
                BY <1>0, <3>1, <3>3
            <4>2. /\ SizeFrom(tree, p) = TupleSize(tree, p) + SizeFrom(tree, Behind(tree, p))
                  /\ TupleSize(tree, p) \in Nat /\ SizeFrom(tree, Behind(tree, p)) \in Nat
                <5>1. p \in Places \ Ends /\ Behind(tree, p) \in Places
                    BY <1>0, <1>1, NextPlaces
                <5> QED BY <1>0, <5>1, PlaceSizes
            <4>3. next[s[k]].vSize + SizeFrom(tree, Behind(tree, p)) + 0 = ValueSize(tree, at[k])
                <5>1. next[s[k]].vSize = m[s[k]].vSize + TupleSize(tree, p) /\ m[s[k]].vSize \in Nat
                    OBVIOUS
                <5> QED BY ONLY <4>1, <4>2, <5>1
            <4> QED BY <1>2, <3>3, <4>3
        <3> QED BY <3>2, <3>3
    <2> QED BY <2>1 DEF Counted
<1>7. Covered(tree, root, below, new, s, next, ns2)
    <2> SUFFICES ASSUME NEW q \in below \cup {root}, \A j \in 1 .. k : s[j] # q.node,
                        ~ReadyAt(tree, q, next, ns2)
                 PROVE  \E j \in 1 .. k : q \in Under(tree, new[j])
        BY DEF Covered
    <2>1. q # p
        OBVIOUS
    <2>2. q.node # p.node /\ q.node \in Nodes /\ q \notin Ends
        BY <1>1, <2>1
    <2>3. next[q.node] = m[q.node] /\ ns2[q.node] = ns[q.node]
        BY <1>1, <2>2
    <2>4. PICK j \in 1 .. k : q \in Under(tree, cur[j])
        <3>1. ~ReadyAt(tree, q, m, ns)
            BY <2>3 DEF ReadyAt
        <3> QED BY <1>3, <3>1 DEF Covered
    <2>5. CASE j # k
        BY <1>2, <2>4, <2>5
    <2>6. CASE j = k
        <3>1. q \in {p} \cup Under(tree, Inside(tree, p)) \cup Under(tree, Behind(tree, p))
            BY <1>0, <1>1, <2>4, <2>6, UnderStep
        <3>2. Inside(tree, p) \in Ends
            <4>1. FirstChild(tree, p.node) = NULL
                BY DEF FirstChild
            <4> QED BY <1>0, <1>1, <4>1, NextPlaces DEF Ends
        <3>3. q \notin Under(tree, Inside(tree, p))
            BY <2>2, <3>2, UnderEnd
        <3> QED BY <1>1, <1>2, <2>1, <3>1, <3>3
    <2> QED BY <2>5, <2>6
<1> QED BY <1>5, <1>6, <1>7 DEF FirstWalk, new

\* The places of the parents on the stack with one more.
Further(at, k, p) == [j \in 1 .. k + 1 |-> IF j = k + 1 THEN p ELSE at[j]]

\* A parent has been pushed: it begins with its first child, and the parent that
\* was on top has gone on.
LEMMA WalkPush ==
    ASSUME NEW tree, NEW root, NEW below, NEW height, NEW cur, NEW s, NEW m, NEW p,
           WalkContext(tree, root, below, height, cur, s, m, p), p \notin Ends,
           NEW at, NEW ns, FirstWalk(tree, root, below, at, cur, s, m, ns),
           NEW ns2, NEW next,
           \A n \in Nodes : n # p.node => ns2[n] = ns[n],
           \A n \in Nodes : n # p.node /\ n # s[Len(s)] => next[n] = m[n],
           InParent(tree, p, Inside(tree, p), next[p.node], ns2[p.node]),
           next[p.node].vSize = CountSize(tree[p.node]),
           next[s[Len(s)]].vSize = m[s[Len(s)]].vSize,
           GoneOn(tree, p, m[s[Len(s)]], next[s[Len(s)]]),
           m[s[Len(s)]].vSize \in Nat,
           NEW t, t = Append(s, p.node)
    PROVE  FirstWalk(tree, root, below,
                     Further(at, Len(s), p),
                     Pushed(cur, Len(s), Behind(tree, p), Inside(tree, p)),
                     t, next, ns2)
<1> DEFINE k == Len(s)
           new == Pushed(cur, k, Behind(tree, p), Inside(tree, p))
           at2 == Further(at, k, p)
<1>0. /\ tree \in TreeType /\ WellBuilt(tree) /\ NoCycle(tree) /\ root \in Places \ Ends
      /\ Family(tree, root, below, height) /\ p = cur[k] /\ s \in Seq(Nodes)
    BY DEF WalkContext, WellBuilt
<1>1. /\ k \in Nat \ {0} /\ k \in 1 .. k
      /\ cur \in [1 .. k -> below \cup Ends]
      /\ \A j \in 1 .. k : s[j] \in Nodes /\ cur[j] \in Places
      /\ \A i, j \in 1 .. k : i # j => s[i] # s[j]
      /\ \A j \in 1 .. k : s[j] # p.node
      /\ \A q \in below \cup {root} : q.node \in Nodes /\ q \in Places \ Ends
      /\ \A q, r \in below \cup {root} : q.node = r.node => q = r
      /\ p \in below
    BY WalkFacts
<1>2. Len(t) = k + 1 /\ t[k + 1] = p.node /\ \A j \in 1 .. k : t[j] = s[j]
    BY <1>0, <1>1
<1>3. /\ Entered(tree, root, below, at, cur, s, m, ns)
      /\ Counted(tree, at, cur, s, m)
      /\ Covered(tree, root, below, cur, s, m, ns)
    BY DEF FirstWalk
<1>4. \A j \in 1 .. k : ns2[s[j]] = ns[s[j]] /\ (j # k => next[s[j]] = m[s[j]])
    BY <1>1
<1>5. /\ new[k] = Behind(tree, p) /\ new[k + 1] = Inside(tree, p)
      /\ \A j \in 1 .. k : j # k => new[j] = cur[j]
    <2> HIDE DEF k
    <2> QED BY <1>1 DEF Pushed
<1>6. /\ at2 \in [1 .. k + 1 -> below \cup {root}] /\ at2[k + 1] = p
      /\ \A j \in 1 .. k : at2[j] = at[j]
      /\ \A j \in 1 .. k + 1 : j # k + 1 => j \in 1 .. k
    <2>1. at \in [1 .. k -> below \cup {root}]
        BY <1>3 DEF Entered
    <2>2. \A j \in 1 .. k + 1 : j # k + 1 => j \in 1 .. k
        BY <1>1
    <2>3. k + 1 \in 1 .. k + 1 /\ \A j \in 1 .. k : j \in 1 .. k + 1 /\ j # k + 1
        BY <1>1
    <2> HIDE DEF k
    <2> QED BY <1>1, <2>1, <2>2, <2>3 DEF Further
<1> HIDE DEF k, new, at2
<1>7. Entered(tree, root, below, at2, new, t, next, ns2)
    <2>1. ASSUME NEW j \in 1 .. k + 1
          PROVE  at2[j].node = t[j] /\ InParent(tree, at2[j], new[j], next[t[j]], ns2[t[j]])
        <3>1. CASE j = k + 1
            BY <1>2, <1>5, <1>6, <3>1
        <3>2. CASE j # k + 1
            <4>0. j \in 1 .. k /\ t[j] = s[j] /\ at2[j] = at[j]
                BY <1>2, <1>6, <3>2
            <4>1. at[j].node = s[j] /\ InParent(tree, at[j], cur[j], m[s[j]], ns[s[j]])
                BY <1>3, <4>0 DEF Entered, k
            <4>2. CASE j # k
                BY <1>4, <1>5, <4>0, <4>1, <4>2
            <4>3. CASE j = k
                <5>1. InParent(tree, at[k], p, m[s[k]], ns[s[k]])
                    BY <1>0, <4>1, <4>3
                <5>2. GoneOn(tree, p, m[s[k]], next[s[k]])
                    BY DEF k
                <5>3. InParent(tree, at[k], Behind(tree, p), next[s[k]], ns[s[k]])
                    BY <1>0, <1>1, <5>1, <5>2, InParentGoesOn
                <5> QED BY <1>4, <1>5, <4>0, <4>1, <4>3, <5>3
            <4> QED BY <4>2, <4>3
        <3> QED BY <3>1, <3>2
    <2> QED BY <1>2, <1>6, <2>1 DEF Entered
<1>8. Counted(tree, at2, new, t, next)
    <2>0. /\ SizeFrom(tree, p) = TupleSize(tree, p) + SizeFrom(tree, Behind(tree, p))
          /\ TupleSize(tree, p) \in Nat /\ SizeFrom(tree, Behind(tree, p)) \in Nat
          /\ ValueSize(tree, p) = CountSize(tree[p.node]) + SizeFrom(tree, Inside(tree, p))
          /\ SizeFrom(tree, Inside(tree, p)) \in Nat /\ ValueSize(tree, p) \in Nat
        <3>1. p \in Places \ Ends /\ Behind(tree, p) \in Places /\ Inside(tree, p) \in Places
            BY <1>0, <1>1, NextPlaces
        <3>2. Measure(ValueHead(tree, p)) = CountSize(tree[p.node])
            BY <1>0, <3>1, HeadSizes DEF InParent
        <3> QED BY <1>0, <3>1, <3>2, PlaceSizes
    <2>1. ASSUME NEW j \in 1 .. k + 1
          PROVE  next[t[j]].vSize + SizeFrom(tree, new[j])
                     + (IF j = k + 1 THEN 0 ELSE TupleSize(tree, at2[j + 1]))
                     = ValueSize(tree, at2[j])
        <3>1. CASE j = k + 1
            <4>1. next[p.node].vSize + SizeFrom(tree, Inside(tree, p)) + 0 = ValueSize(tree, p)
                <5>1. next[p.node].vSize = CountSize(tree[p.node])
                    OBVIOUS
                <5> QED BY ONLY <2>0, <5>1
            <4> QED BY <1>2, <1>5, <1>6, <3>1, <4>1
        <3>2. CASE j # k + 1
            <4>0. j \in 1 .. k /\ t[j] = s[j] /\ at2[j] = at[j]
                BY <1>2, <1>6, <3>2
            <4>1. m[s[j]].vSize + SizeFrom(tree, cur[j])
                      + (IF j = k THEN 0 ELSE TupleSize(tree, at[j + 1])) = ValueSize(tree, at[j])
                BY <1>3, <4>0 DEF Counted, k
            <4>2. CASE j # k
                <5>1. j + 1 \in 1 .. k
                    BY <1>1, <4>0, <4>2
                <5>2. at2[j + 1] = at[j + 1]
                    BY <1>6, <5>1
                <5> QED BY <1>4, <1>5, <3>2, <4>0, <4>1, <4>2, <5>2
            <4>3. CASE j = k
                <5>1. m[s[k]].vSize + SizeFrom(tree, p) + 0 = ValueSize(tree, at[k])
                    BY <1>0, <4>1, <4>3
                <5>2. next[s[k]].vSize = m[s[k]].vSize /\ m[s[k]].vSize \in Nat
                    BY DEF k
                <5>3. next[s[k]].vSize + SizeFrom(tree, Behind(tree, p)) + TupleSize(tree, p)
                          = ValueSize(tree, at[k])
                    BY ONLY <2>0, <5>1, <5>2
                <5> QED BY <1>5, <1>6, <3>2, <4>0, <4>3, <5>3
            <4> QED BY <4>2, <4>3
        <3> QED BY <3>1, <3>2
    <2> QED BY <1>2, <2>1 DEF Counted
<1>9. Covered(tree, root, below, new, t, next, ns2)
    <2> SUFFICES ASSUME NEW q \in below \cup {root}, \A j \in 1 .. k + 1 : t[j] # q.node,
                        ~ReadyAt(tree, q, next, ns2)
                 PROVE  \E j \in 1 .. k + 1 : q \in Under(tree, new[j])
        BY <1>2 DEF Covered
    <2>0. k + 1 \in 1 .. k + 1 /\ \A j \in 1 .. k : j \in 1 .. k + 1
        BY <1>1
    <2>1. q.node # p.node /\ q # p /\ \A j \in 1 .. k : s[j] # q.node
        BY <1>2, <2>0
    <2>2. q.node \in Nodes /\ q \notin Ends
        BY <1>1
    <2>3. next[q.node] = m[q.node] /\ ns2[q.node] = ns[q.node]
        BY <1>1, <2>1, <2>2 DEF k
    <2>4. PICK j \in 1 .. k : q \in Under(tree, cur[j])
        <3>1. ~ReadyAt(tree, q, m, ns)
            BY <2>3 DEF ReadyAt
        <3> QED BY <1>3, <2>1, <3>1 DEF Covered, k
    <2>5. CASE j # k
        BY <1>5, <2>0, <2>4, <2>5
    <2>6. CASE j = k
        <3>1. q \in {p} \cup Under(tree, Inside(tree, p)) \cup Under(tree, Behind(tree, p))
            BY <1>0, <1>1, <2>4, <2>6, UnderStep
        <3> QED BY <1>1, <1>5, <2>0, <2>1, <3>1
    <2> QED BY <2>5, <2>6
<1> QED BY <1>7, <1>8, <1>9 DEF FirstWalk, new, at2, k

LEMMA PopParts ==
    ASSUME NEW s \in Seq(Nodes), s # <<>>
    PROVE  Len(Pop(s)) = Len(s) - 1 /\ \A j \in 1 .. Len(s) - 1 : Pop(s)[j] = s[j]
<1>1. Len(s) \in Nat \ {0} /\ Len(s) - 1 \in 0 .. Len(s)
    BY EmptySeq
<1>2. Len(Pop(s)) = Len(s) - 1
    <2>1. ASSUME NEW k \in 0 .. Len(s) PROVE Len(SubSeq(s, 1, k)) = k
        OBVIOUS
    <2>2. Len(SubSeq(s, 1, Len(s) - 1)) = Len(s) - 1
        BY ONLY <1>1, <2>1
    <2> QED BY ONLY <2>2 DEF Pop
<1>3. ASSUME NEW j \in 1 .. Len(s) - 1 PROVE Pop(s)[j] = s[j]
    BY <1>1 DEF Pop
<1> QED BY <1>2, <1>3

\* The parent on top has no child left: it is ready and, unless it is the root,
\* its size has been added to that of the parent below.
LEMMA WalkPop ==
    ASSUME NEW tree, NEW root, NEW below, NEW height, NEW cur, NEW s, NEW m, NEW p,
           WalkContext(tree, root, below, height, cur, s, m, p), p \in Ends,
           NEW at, NEW ns, FirstWalk(tree, root, below, at, cur, s, m, ns),
           NEW next,
           \A j \in 1 .. Len(s) : m[s[j]].vSize \in Nat,
           \A n \in Nodes : n # s[Len(s)] /\ (Len(s) > 1 => n # s[Len(s) - 1]) => next[n] = m[n],
           next[s[Len(s)]].sequenceNumber = m[s[Len(s)]].sequenceNumber,
           next[s[Len(s)]].vSize = m[s[Len(s)]].vSize,
           Len(s) > 1 =>
               /\ Cursor(next[s[Len(s) - 1]]) = Cursor(m[s[Len(s) - 1]])
               /\ next[s[Len(s) - 1]].sequenceNumber = m[s[Len(s) - 1]].sequenceNumber
               /\ next[s[Len(s) - 1]].sflSize = m[s[Len(s) - 1]].sflSize
               /\ next[s[Len(s) - 1]].vSize =
                      m[s[Len(s) - 1]].vSize
                          + (m[s[Len(s)]].sflSize + bejNnintEncodingSizeOfUInt(m[s[Len(s)]].vSize))
                          + m[s[Len(s)]].vSize
    PROVE  FirstWalk(tree, root, below, Popped(at, Len(s)),
                     Popped(cur, Len(s)), Pop(s), next, ns)
<1> DEFINE k == Len(s)
           t == Pop(s)
           new == Popped(cur, k)
           at2 == Popped(at, k)
           b == k - 1
<1>0. /\ tree \in TreeType /\ WellBuilt(tree) /\ NoCycle(tree) /\ root \in Places \ Ends
      /\ Family(tree, root, below, height) /\ p = cur[k] /\ s \in Seq(Nodes)
    BY DEF WalkContext, WellBuilt
<1>1. /\ k \in Nat \ {0} /\ k \in 1 .. k
      /\ cur \in [1 .. k -> below \cup Ends]
      /\ \A j \in 1 .. k : s[j] \in Nodes /\ cur[j] \in Places
      /\ \A i, j \in 1 .. k : i # j => s[i] # s[j]
      /\ \A q \in below \cup {root} : q.node \in Nodes /\ q \in Places \ Ends
      /\ \A q, r \in below \cup {root} : q.node = r.node => q = r
    BY WalkFacts
<1>2. /\ b \in Nat /\ \A j \in 1 .. b : j \in 1 .. k /\ j # k
      /\ \A j \in 1 .. k : j # k => j \in 1 .. b
      /\ k > 1 <=> b > 0
      /\ b > 0 => b \in 1 .. b
    BY <1>1
<1>3. Len(t) = b /\ \A j \in 1 .. b : t[j] = s[j]
    BY <1>0, PopParts DEF WalkContext
<1>4. /\ Entered(tree, root, below, at, cur, s, m, ns)
      /\ Counted(tree, at, cur, s, m)
      /\ Covered(tree, root, below, cur, s, m, ns)
    BY DEF FirstWalk
<1>5. \A j \in 1 .. b : new[j] = cur[j] /\ at2[j] = at[j]
    <2> HIDE DEF k
    <2> QED BY <1>1 DEF Popped
<1>6. at2 \in [1 .. b -> below \cup {root}] /\ at[k] \in below \cup {root}
    <2>1. at \in [1 .. k -> below \cup {root}]
        BY <1>4 DEF Entered
    <2> HIDE DEF k
    <2> QED BY <1>1, <1>2, <2>1 DEF Popped
<1>7. \A j \in 1 .. b : j # b => next[s[j]] = m[s[j]]
    <2> SUFFICES ASSUME NEW j \in 1 .. b, j # b PROVE next[s[j]] = m[s[j]]
        OBVIOUS
    <2>1. j \in 1 .. k /\ j # k /\ b \in 1 .. k /\ s[j] \in Nodes
        <3>1. j \in 1 .. k /\ j # k
            BY <1>2
        <3>2. b \in 1 .. k
            BY <1>2
        <3> QED BY <1>1, <3>1, <3>2
    <2>2. s[j] # s[k] /\ s[j] # s[b]
        BY <1>1, <2>1
    <2> QED BY <2>1, <2>2
<1>8. k > 1 =>
          /\ Cursor(next[s[b]]) = Cursor(m[s[b]])
          /\ next[s[b]].sequenceNumber = m[s[b]].sequenceNumber
          /\ next[s[b]].sflSize = m[s[b]].sflSize
          /\ next[s[b]].vSize =
                 m[s[b]].vSize + (m[s[k]].sflSize + bejNnintEncodingSizeOfUInt(m[s[k]].vSize))
                     + m[s[k]].vSize
    OBVIOUS
<1>9. /\ next[s[k]].sequenceNumber = m[s[k]].sequenceNumber /\ next[s[k]].vSize = m[s[k]].vSize
      /\ \A n \in Nodes : n # s[k] /\ (k > 1 => n # s[b]) => next[n] = m[n]
      /\ \A j \in 1 .. k : m[s[j]].vSize \in Nat
    OBVIOUS
<1>10. /\ at[k].node = s[k] /\ InParent(tree, at[k], p, m[s[k]], ns[s[k]])
       /\ m[s[k]].vSize = ValueSize(tree, at[k])
       /\ ValueSize(tree, at[k]) \in Nat /\ TupleSize(tree, at[k]) \in Nat
       /\ m[s[k]].sflSize + bejNnintEncodingSizeOfUInt(m[s[k]].vSize) + m[s[k]].vSize
              = TupleSize(tree, at[k])
    <2>1. at[k].node = s[k] /\ InParent(tree, at[k], p, m[s[k]], ns[s[k]])
        BY <1>0, <1>1, <1>4 DEF Entered
    <2>2. m[s[k]].vSize + SizeFrom(tree, p) + 0 = ValueSize(tree, at[k])
        BY <1>0, <1>1, <1>4 DEF Counted
    <2>3. SizeFrom(tree, p) = 0 /\ ValueSize(tree, at[k]) \in Nat /\ TupleSize(tree, at[k]) \in Nat
          /\ TupleSize(tree, at[k]) =
                 bejNnintEncodingSizeOfUInt(SequenceNumber(Found(tree, at[k]))) + TupleFSize
                     + bejNnintEncodingSizeOfUInt(ValueSize(tree, at[k])) + ValueSize(tree, at[k])
        BY <1>0, <1>1, <1>6, PlaceSizes
    <2>4. m[s[k]].vSize = ValueSize(tree, at[k])
        BY <1>1, <1>9, <2>2, <2>3
    <2>5. m[s[k]].sflSize =
              bejNnintEncodingSizeOfUInt(SequenceNumber(Found(tree, at[k]))) + TupleFSize
        BY <2>1 DEF InParent
    <2> QED BY <2>1, <2>3, <2>4, <2>5
<1> HIDE DEF k, t, new, at2
<1>11. Entered(tree, root, below, at2, new, t, next, ns)
    <2>1. ASSUME NEW j \in 1 .. b
          PROVE  at2[j].node = t[j] /\ InParent(tree, at2[j], new[j], next[t[j]], ns[t[j]])
        <3>0. j \in 1 .. k /\ t[j] = s[j] /\ at2[j] = at[j] /\ new[j] = cur[j]
            BY <1>2, <1>3, <1>5
        <3>1. at[j].node = s[j] /\ InParent(tree, at[j], cur[j], m[s[j]], ns[s[j]])
            BY <1>4, <3>0 DEF Entered, k
        <3>2. CASE j # b
            BY <1>7, <3>0, <3>1, <3>2
        <3>3. CASE j = b
            <4>1. /\ Cursor(next[s[b]]) = Cursor(m[s[b]])
                  /\ next[s[b]].sequenceNumber = m[s[b]].sequenceNumber
                  /\ next[s[b]].sflSize = m[s[b]].sflSize
                <5>1. k > 1
                    BY <1>2, <3>3
                <5> HIDE DEF b
                <5> QED BY <1>8, <5>1
            <4> HIDE DEF b
            <4> QED BY <3>0, <3>1, <3>3, <4>1 DEF InParent
        <3> QED BY <3>2, <3>3
    <2> QED BY <1>3, <1>6, <2>1 DEF Entered
<1>12. Counted(tree, at2, new, t, next)
    <2>1. ASSUME NEW j \in 1 .. b
          PROVE  next[t[j]].vSize + SizeFrom(tree, new[j])
                     + (IF j = b THEN 0 ELSE TupleSize(tree, at2[j + 1]))
                     = ValueSize(tree, at2[j])
        <3>0. j \in 1 .. k /\ j # k /\ t[j] = s[j] /\ at2[j] = at[j] /\ new[j] = cur[j]
            BY <1>2, <1>3, <1>5
        <3>1. m[s[j]].vSize + SizeFrom(tree, cur[j]) + TupleSize(tree, at[j + 1])
                  = ValueSize(tree, at[j])
            <4>1. m[s[j]].vSize + SizeFrom(tree, cur[j])
                      + (IF j = k THEN 0 ELSE TupleSize(tree, at[j + 1])) = ValueSize(tree, at[j])
                BY <1>4, <3>0 DEF Counted, k
            <4> QED BY <3>0, <4>1
        <3>2. CASE j # b
            <4>1. j + 1 \in 1 .. b
                BY <1>2, <3>2
            <4>2. at2[j + 1] = at[j + 1]
                BY <1>5, <4>1
            <4> QED BY <1>7, <3>0, <3>1, <3>2, <4>2
        <3>3. CASE j = b
            <4>1. j + 1 = k /\ k > 1
                BY <1>1, <1>2, <3>3
            <4>2. /\ next[s[b]].vSize =
                         m[s[b]].vSize
                             + (m[s[k]].sflSize + bejNnintEncodingSizeOfUInt(m[s[k]].vSize))
                             + m[s[k]].vSize
                  /\ m[s[b]].vSize \in Nat
                <5> HIDE DEF b
                <5> QED BY <1>8, <1>9, <3>0, <3>3, <4>1
            <4>3. m[s[k]].vSize \in Nat /\ m[s[k]].sflSize \in Nat
                  /\ bejNnintEncodingSizeOfUInt(m[s[k]].vSize) \in Nat
                <5>1. m[s[k]].vSize \in Nat
                    BY <1>1, <1>9
                <5>2. bejNnintEncodingSizeOfUInt(m[s[k]].vSize) \in Nat
                    BY <5>1, NnintSizes
                <5>3. m[s[k]].sflSize \in Nat
                    <6>1. SequenceNumber(Found(tree, at[k])) \in Nat
                        BY <1>0, <1>1, <1>6, NextPlaces DEF FoundType
                    <6>2. bejNnintEncodingSizeOfUInt(SequenceNumber(Found(tree, at[k]))) \in Nat
                        BY <6>1, NnintSizes
                    <6>3. m[s[k]].sflSize =
                              bejNnintEncodingSizeOfUInt(SequenceNumber(Found(tree, at[k]))) + 1
                        BY <1>10 DEF InParent, TupleFSize
                    <6> QED BY <6>2, <6>3
                <5> QED BY <5>1, <5>2, <5>3
            <4>4. next[s[b]].vSize = m[s[b]].vSize + TupleSize(tree, at[k])
                BY ONLY <1>10, <4>2, <4>3
            <4>5. m[s[b]].vSize + SizeFrom(tree, cur[b]) + TupleSize(tree, at[k])
                      = ValueSize(tree, at[b])
                <5> HIDE DEF b
                <5> QED BY <3>1, <3>3, <4>1
            <4>6. SizeFrom(tree, cur[b]) \in Nat
                <5>1. cur[b] \in Places
                    BY <1>1, <3>0, <3>3
                <5> HIDE DEF b
                <5> QED BY <1>0, <5>1, PlaceSizes
            <4>7. next[s[b]].vSize + SizeFrom(tree, cur[b]) + 0 = ValueSize(tree, at[b])
                BY ONLY <1>10, <4>2, <4>4, <4>5, <4>6
            <4> HIDE DEF b
            <4> QED BY <3>0, <3>3, <4>7
        <3> QED BY <3>2, <3>3
    <2> QED BY <1>3, <2>1 DEF Counted
<1>13. Covered(tree, root, below, new, t, next, ns)
    <2> SUFFICES ASSUME NEW q \in below \cup {root}, \A j \in 1 .. b : t[j] # q.node,
                        ~ReadyAt(tree, q, next, ns)
                 PROVE  \E j \in 1 .. b : q \in Under(tree, new[j])
        BY <1>3 DEF Covered
    <2>1. q.node \in Nodes /\ q \notin Ends
        BY <1>1
    <2>2. \A j \in 1 .. b : s[j] # q.node
        BY <1>3
    <2>3. q.node # s[k]
        <3> SUFFICES ASSUME q.node = s[k] PROVE FALSE
            OBVIOUS
        <3>1. q = at[k]
            BY <1>1, <1>6, <1>10
        <3>2. Ready(tree, q, next[q.node])
            <4>1. next[s[k]].vSize = Measure(ValueAt(tree, at[k]))
                BY <1>9, <1>10 DEF ValueSize
            <4>2. next[s[k]].sequenceNumber = SequenceNumber(Found(tree, at[k]))
                BY <1>9, <1>10 DEF InParent
            <4>3. tree[q.node].type # "Enum"
                BY <1>10, <3>1 DEF InParent, bejTreeIsParentType, ParentTypes
            <4> QED BY <3>1, <4>1, <4>2, <4>3 DEF Ready
        <3>3. ns[q.node] = FlaggedNode(tree, q)
            BY <1>10, <3>1 DEF InParent
        <3> QED BY <3>2, <3>3 DEF ReadyAt
    <2>4. k > 1 => q.node # s[b]
        BY <1>2, <2>2
    <2>5. next[q.node] = m[q.node]
        BY <1>9, <2>1, <2>3, <2>4
    <2>6. ~ReadyAt(tree, q, m, ns)
        BY <2>5 DEF ReadyAt
    <2>7. \A j \in 1 .. k : s[j] # q.node
        <3> HIDE DEF b
        <3> QED BY <1>2, <2>2, <2>3
    <2>8. PICK j \in 1 .. k : q \in Under(tree, cur[j])
        BY <1>4, <2>6, <2>7 DEF Covered, k
    <2>9. j # k
        <3>1. Under(tree, p) \subseteq Ends
            BY UnderEnd
        <3> QED BY <1>0, <2>1, <2>8, <3>1 DEF k
    <2> HIDE DEF b
    <2> QED BY <1>2, <1>5, <2>8, <2>9
<1> QED BY <1>11, <1>12, <1>13 DEF FirstWalk, new, at2, t, k

\* The root has been pushed onto the empty stack.
LEMMA WalkStart ==
    ASSUME NEW tree \in TreeType, WellBuilt(tree), NEW root \in Places \ Ends,
           NEW below, NEW height, Family(tree, root, below, height), NEW next, NEW ns,
           InParent(tree, root, Inside(tree, root), next[root.node], ns[root.node]),
           next[root.node].vSize = CountSize(tree[root.node]),
           NEW s, s = << root.node >>
    PROVE  FirstWalk(tree, root, below, One(root), One(Inside(tree, root)), s, next, ns)
<1> DEFINE at == One(root)
           cur == One(Inside(tree, root))
<1>0. NoCycle(tree)
    BY DEF WellBuilt
<1>1. Len(s) = 1 /\ s[1] = root.node /\ 1 .. 1 = {1} /\ 1 \in 1 .. 1
    OBVIOUS
<1>2. at \in [1 .. 1 -> below \cup {root}] /\ at[1] = root /\ cur[1] = Inside(tree, root)
    BY DEF One
<1> HIDE DEF at, cur
<1>3. Entered(tree, root, below, at, cur, s, next, ns)
    BY <1>1, <1>2 DEF Entered
<1>4. Counted(tree, at, cur, s, next)
    <2>1. /\ ValueSize(tree, root) = CountSize(tree[root.node]) + SizeFrom(tree, Inside(tree, root))
          /\ SizeFrom(tree, Inside(tree, root)) \in Nat /\ ValueSize(tree, root) \in Nat
        <3>1. Inside(tree, root) \in Places
            BY NextPlaces
        <3>2. Measure(ValueHead(tree, root)) = CountSize(tree[root.node])
            BY HeadSizes DEF InParent
        <3> QED BY <1>0, <3>1, <3>2, PlaceSizes
    <2>2. next[root.node].vSize + SizeFrom(tree, Inside(tree, root)) + 0 = ValueSize(tree, root)
        <3>1. next[root.node].vSize = CountSize(tree[root.node])
            OBVIOUS
        <3> QED BY ONLY <2>1, <3>1
    <2> QED BY <1>1, <1>2, <2>2 DEF Counted
<1>5. Covered(tree, root, below, cur, s, next, ns)
    <2>1. below = Under(tree, Inside(tree, root)) \ Ends
        BY DEF Family
    <2> QED BY <1>1, <1>2, <2>1 DEF Covered
<1> QED BY <1>3, <1>4, <1>5 DEF FirstWalk, at, cur
-----------------------------------------------------------------------------
(* The nodes while they are walked: their flags may have been set.           *)

Reflagged(tree, below, ns) ==
    /\ ns \in TreeType
    /\ \A n \in Nodes : ns[n] = [tree[n] EXCEPT !.ro = ns[n].ro]
    /\ \A n \in Nodes : \/ ns[n].ro = tree[n].ro
                        \/ /\ ns[n].ro = TRUE
                           /\ \E p \in below : p.node = n /\ Found(tree, p).again

\* A place that no flag has been set at has the node of the caller.
LEMMA NotFlagged ==
    ASSUME NEW tree \in TreeType, NEW below, NEW ns, Reflagged(tree, below, ns),
           NEW n \in Nodes, \A p \in below : p.node = n => ~Found(tree, p).again
    PROVE  ns[n] = tree[n]
<1>1. ns[n].ro = tree[n].ro /\ ns[n] = [tree[n] EXCEPT !.ro = ns[n].ro]
    BY DEF Reflagged
<1>2. tree[n] \in NodeType
    BY DEF TreeType
<1>3. [tree[n] EXCEPT !.ro = tree[n].ro] = tree[n]
    BY <1>2 DEF NodeType
<1> QED BY <1>1, <1>3

LEMMA NeverAgain ==
    ASSUME NEW tree, NEW root, root.dict = "Primary"
    PROVE  ~Found(tree, root).again
BY DEF Found, bejFindSeqNumAndChildDictOffset

\* What the place of a node is does not depend on its flag.
LEMMA FoundWithFlags ==
    ASSUME NEW tree \in TreeType, NEW below, NEW ns, Reflagged(tree, below, ns),
           NEW at \in Places \ Ends
    PROVE  /\ at.node \in Nodes /\ ns[at.node] \in NodeType
           /\ bejFindSeqNumAndChildDictOffset(ns[at.node], at.dict, at.index, at.start)
                  = Found(tree, at)
           /\ ns[at.node].sibling = tree[at.node].sibling
           /\ ns[at.node].firstChild = tree[at.node].firstChild
           /\ ns[at.node].type = tree[at.node].type
           /\ bejTreeIsParentType(ns[at.node]) = bejTreeIsParentType(tree[at.node])
           /\ CountSize(ns[at.node]) = CountSize(tree[at.node])
           /\ \A found : /\ LeafStatus(ns[at.node], found) = LeafStatus(tree[at.node], found)
                         /\ OptionSeq(ns[at.node], found) = OptionSeq(tree[at.node], found)
           /\ \A any : /\ LeafValueSize(ns[at.node], any) = LeafValueSize(tree[at.node], any)
                       /\ LeafLengthSize(ns[at.node], any) = LeafLengthSize(tree[at.node], any)
<1>1. at.node \in Nodes
    BY PlaceParts
<1>2. /\ tree[at.node] \in NodeType /\ ns[at.node] \in NodeType
      /\ ns[at.node] = [tree[at.node] EXCEPT !.ro = ns[at.node].ro]
    BY <1>1 DEF Reflagged, TreeType
<1> QED BY <1>1, <1>2, OnlyRo DEF Found

\* The node of a place after the second lookup has set its flag.
LEMMA FlagSet ==
    ASSUME NEW tree \in TreeType, NEW root \in Places \ Ends, NEW below, NEW height,
           Family(tree, root, below, height), Reflagged(tree, below, nodes),
           NEW p \in below, FlagNode(p.node, Found(tree, p))
    PROVE  /\ Reflagged(tree, below, nodes')
           /\ nodes'[p.node] = FlaggedNode(tree, p)
           /\ \A n \in Nodes : n # p.node => nodes'[n] = nodes[n]
<1>0. p.node \in Nodes /\ \A q \in below : q.node = p.node => q = p
    BY FamilyFacts
<1>1. nodes \in TreeType /\ nodes' \in TreeType
    BY <1>0, FlaggedTree DEF Reflagged
<1>2. tree[p.node] \in NodeType
    BY <1>0 DEF TreeType
<1>3. CASE Found(tree, p).again
    <2>1. nodes' = [nodes EXCEPT ![p.node].ro = TRUE]
        BY <1>3 DEF FlagNode, bejTreeUpdateNodeFlags
    <2>2. nodes[p.node] = [tree[p.node] EXCEPT !.ro = nodes[p.node].ro]
        BY <1>0 DEF Reflagged
    <2>3. nodes'[p.node] = [nodes[p.node] EXCEPT !.ro = TRUE]
        BY <1>0, <1>1, <2>1 DEF TreeType
    <2>4. nodes'[p.node] = [tree[p.node] EXCEPT !.ro = TRUE]
        BY <1>2, <2>2, <2>3 DEF NodeType
    <2>5. FlaggedNode(tree, p) = [tree[p.node] EXCEPT !.ro = TRUE]
        <3>1. (tree[p.node].ro \/ Found(tree, p).again) = TRUE
            BY <1>3
        <3> QED BY <1>2, <3>1 DEF FlaggedNode, NodeType
    <2>6. \A n \in Nodes : n # p.node => nodes'[n] = nodes[n]
        BY <1>1, <2>1 DEF TreeType
    <2>7. nodes'[p.node].ro = TRUE
        BY <1>2, <2>4 DEF NodeType
    <2>8. Reflagged(tree, below, nodes')
        <3>1. ASSUME NEW n \in Nodes
              PROVE  /\ nodes'[n] = [tree[n] EXCEPT !.ro = nodes'[n].ro]
                     /\ \/ nodes'[n].ro = tree[n].ro
                        \/ /\ nodes'[n].ro = TRUE
                           /\ \E q \in below : q.node = n /\ Found(tree, q).again
            <4>1. CASE n = p.node
                BY <1>3, <2>4, <2>7, <4>1
            <4>2. CASE n # p.node
                BY <2>6, <4>2 DEF Reflagged
            <4> QED BY <4>1, <4>2
        <3> QED BY <1>1, <3>1 DEF Reflagged
    <2> QED BY <2>4, <2>5, <2>6, <2>8
<1>4. CASE ~Found(tree, p).again
    <2>1. nodes' = nodes
        BY <1>4 DEF FlagNode
    <2>2. nodes[p.node] = tree[p.node]
        BY <1>0, <1>4, NotFlagged
    <2>3. FlaggedNode(tree, p) = tree[p.node]
        <3>1. tree[p.node].ro \in BOOLEAN
            BY <1>2 DEF NodeType
        <3>2. (tree[p.node].ro \/ Found(tree, p).again) = tree[p.node].ro
            BY <1>4, <3>1
        <3> QED BY <1>2, <3>2 DEF FlaggedNode, NodeType
    <2> QED BY <2>1, <2>2, <2>3
<1> QED BY <1>3, <1>4

\* The root is never looked up twice.
LEMMA RootNotFlagged ==
    ASSUME NEW tree \in TreeType, NEW root \in Places \ Ends, root.dict = "Primary",
           NEW below, NEW height, Family(tree, root, below, height),
           NEW ns, Reflagged(tree, below, ns)
    PROVE  ns[root.node] = FlaggedNode(tree, root)
<1>1. root.node \in Nodes /\ \A p \in below : p.node # root.node
    BY PlaceParts, FamilyFacts
<1>2. ns[root.node] = tree[root.node]
    BY <1>1, NotFlagged
<1>3. tree[root.node] \in NodeType
    BY <1>1 DEF TreeType
<1>4. (tree[root.node].ro \/ Found(tree, root).again) = tree[root.node].ro
    <2>1. tree[root.node].ro \in BOOLEAN
        BY <1>3 DEF NodeType
    <2> QED BY <2>1, NeverAgain
<1>5. FlaggedNode(tree, root) = tree[root.node]
    BY <1>3, <1>4 DEF FlaggedNode, NodeType
<1> QED BY <1>2, <1>5
-----------------------------------------------------------------------------
(* What the steps of the walks change in the metadata.                       *)

\* How the metadata of a parent that goes on becomes next.
ParentMoved(m, parent, sibling, next) ==
    /\ \A n \in Nodes : n # parent => next[n] = m[n]
    /\ next[parent].sequenceNumber = m[parent].sequenceNumber
    /\ next[parent].sflSize = m[parent].sflSize
    /\ next[parent].vSize = m[parent].vSize
    /\ next[parent].enumValueSeq = m[parent].enumValueSeq
    /\ next[parent].dictionary = m[parent].dictionary
    /\ next[parent].childrenDictPropOffset = m[parent].childrenDictPropOffset
    /\ next[parent].nextChild = sibling
    /\ next[parent].nextChildIndex = (m[parent].nextChildIndex + 1) % IndexRange

LEMMA GoesOn ==
    ASSUME nodes \in TreeType, NEW m \in Metas, NEW parent \in Nodes, NEW child \in Nodes
    PROVE  /\ bejParentGoToNextChild(m, parent, child) \in Metas
           /\ ParentMoved(m, parent, nodes[child].sibling,
                          bejParentGoToNextChild(m, parent, child))
<1> DEFINE sibling == nodes[child].sibling
           next == bejParentGoToNextChild(m, parent, child)
           moved == [m EXCEPT ![parent].nextChild = sibling]
           index == (m[parent].nextChildIndex + 1) % IndexRange
<1>1. next \in Metas
    BY NextChildType
<1>2. m[parent] \in MetaType
    BY DEF Metas
<1>3. next = [moved EXCEPT ![parent].nextChildIndex = (@ + 1) % IndexRange]
    BY DEF bejParentGoToNextChild, Metas, MetaType
<1> HIDE DEF sibling, next
<1>4. /\ \A n \in Nodes : n # parent => moved[n] = m[n]
      /\ moved[parent] = [m[parent] EXCEPT !.nextChild = sibling]
      /\ moved \in [Nodes -> {moved[n] : n \in Nodes}]
    BY DEF Metas
<1> HIDE DEF moved
<1>5. moved[parent].nextChildIndex = m[parent].nextChildIndex
    BY <1>2, <1>4 DEF MetaType
<1>6. next = [moved EXCEPT ![parent].nextChildIndex = index]
    BY <1>3, <1>5
<1> HIDE DEF index
<1>7. /\ \A n \in Nodes : n # parent => next[n] = m[n]
      /\ next[parent] = [moved[parent] EXCEPT !.nextChildIndex = index]
    BY <1>4, <1>6
<1>8. /\ next[parent].sequenceNumber = m[parent].sequenceNumber
      /\ next[parent].sflSize = m[parent].sflSize
      /\ next[parent].vSize = m[parent].vSize
      /\ next[parent].enumValueSeq = m[parent].enumValueSeq
      /\ next[parent].dictionary = m[parent].dictionary
      /\ next[parent].childrenDictPropOffset = m[parent].childrenDictPropOffset
      /\ next[parent].nextChild = sibling
      /\ next[parent].nextChildIndex = index
    BY <1>2, <1>4, <1>7 DEF MetaType
<1>9. ParentMoved(m, parent, sibling, next)
    BY ONLY <1>7, <1>8 DEF ParentMoved, index
<1> QED BY <1>1, <1>9 DEF sibling, next

LEMMA SizeAdded ==
    ASSUME NEW m \in Metas, NEW parent \in Nodes, NEW child \in Nodes
    PROVE  LET next == AddSize(m, parent, child)
           IN  /\ next \in Metas
               /\ \A n \in Nodes : n # parent => next[n] = m[n]
               /\ next[parent] =
                      [m[parent] EXCEPT !.vSize = @ + m[child].sflSize + m[child].vSize]
<1>1. AddSize(m, parent, child) \in Metas
    BY AddSizeType
<1> QED BY <1>1 DEF AddSize, Metas

\* m after a leaf has been visited.
LeafVisited(m, parent, leaf, found) ==
    bejParentGoToNextChild(AddSize(LeafMetaData(m, leaf, found), parent, leaf), parent, leaf)

LEMMA LeafChanges ==
    ASSUME nodes \in TreeType, NEW m \in Metas, NEW parent \in Nodes, NEW leaf \in Nodes,
           leaf # parent, NEW found, FoundType(found),
           nodes[leaf].type \in LeafTypes, LeafStatus(nodes[leaf], found) = "OK"
    PROVE  LET next == LeafVisited(m, parent, leaf, found)
               option == IF nodes[leaf].type = "Enum" THEN OptionSeq(nodes[leaf], found)
                         ELSE m[leaf].enumValueSeq
               size == LeafValueSize(nodes[leaf], option)
               number == SequenceNumber(found)
           IN  /\ \A n \in Nodes : n # leaf /\ n # parent => next[n] = m[n]
               /\ next[leaf].sequenceNumber = number
               /\ next[leaf].enumValueSeq = option
               /\ next[leaf].vSize = size
               /\ next[parent].vSize =
                      m[parent].vSize
                          + (bejNnintEncodingSizeOfUInt(number) + TupleFSize
                                 + LeafLengthSize(nodes[leaf], size))
                          + size
               /\ next[parent].sequenceNumber = m[parent].sequenceNumber
               /\ next[parent].sflSize = m[parent].sflSize
               /\ next[parent].dictionary = m[parent].dictionary
               /\ next[parent].childrenDictPropOffset = m[parent].childrenDictPropOffset
               /\ next[parent].nextChild = nodes[leaf].sibling
               /\ next[parent].nextChildIndex = (m[parent].nextChildIndex + 1) % IndexRange
<1> DEFINE option == IF nodes[leaf].type = "Enum" THEN OptionSeq(nodes[leaf], found)
                     ELSE m[leaf].enumValueSeq
           size == LeafValueSize(nodes[leaf], option)
           number == SequenceNumber(found)
           sfl == bejNnintEncodingSizeOfUInt(number) + TupleFSize
                      + LeafLengthSize(nodes[leaf], size)
           m1 == LeafMetaData(m, leaf, found)
           m2 == AddSize(m1, parent, leaf)
           m3 == bejParentGoToNextChild(m2, parent, leaf)
<1>1. m1 = [m EXCEPT ![leaf] = [@ EXCEPT !.sequenceNumber = number,
                                          !.enumValueSeq = option,
                                          !.vSize = size,
                                          !.sflSize = sfl]]
    BY DEF LeafMetaData
<1>2. m1 \in Metas
    BY LeafMetaDataType
<1>3. LeafVisited(m, parent, leaf, found) = m3
    BY DEF LeafVisited
<1> HIDE DEF option, size, number, sfl, m1, m2, m3
<1>4. /\ m1[leaf].sequenceNumber = number /\ m1[leaf].enumValueSeq = option
      /\ m1[leaf].vSize = size /\ m1[leaf].sflSize = sfl
      /\ \A n \in Nodes : n # leaf => m1[n] = m[n]
    BY <1>1 DEF Metas, MetaType
<1>5. /\ m2 \in Metas
      /\ \A n \in Nodes : n # parent => m2[n] = m1[n]
      /\ m2[parent] = [m1[parent] EXCEPT !.vSize = @ + m1[leaf].sflSize + m1[leaf].vSize]
    BY <1>2, SizeAdded DEF m2
<1>6. m1[parent] = m[parent] /\ m[parent] \in MetaType
    BY <1>4 DEF Metas
<1>7. /\ m2[parent].vSize = m[parent].vSize + sfl + size
      /\ m2[parent].sequenceNumber = m[parent].sequenceNumber
      /\ m2[parent].sflSize = m[parent].sflSize
      /\ m2[parent].dictionary = m[parent].dictionary
      /\ m2[parent].childrenDictPropOffset = m[parent].childrenDictPropOffset
      /\ m2[parent].nextChildIndex = m[parent].nextChildIndex
    BY <1>4, <1>5, <1>6 DEF MetaType
<1>8. /\ \A n \in Nodes : n # parent => m3[n] = m2[n]
      /\ m3[parent].sequenceNumber = m2[parent].sequenceNumber
      /\ m3[parent].sflSize = m2[parent].sflSize
      /\ m3[parent].vSize = m2[parent].vSize
      /\ m3[parent].dictionary = m2[parent].dictionary
      /\ m3[parent].childrenDictPropOffset = m2[parent].childrenDictPropOffset
      /\ m3[parent].nextChild = nodes[leaf].sibling
      /\ m3[parent].nextChildIndex = (m2[parent].nextChildIndex + 1) % IndexRange
    <2>1. ParentMoved(m2, parent, nodes[leaf].sibling, m3)
        BY <1>5, GoesOn DEF m3
    <2> QED BY ONLY <2>1 DEF ParentMoved
<1>9. m3[leaf] = m1[leaf] /\ \A n \in Nodes : n # leaf /\ n # parent => m3[n] = m[n]
    BY <1>4, <1>5, <1>8
<1> QED BY ONLY <1>3, <1>4, <1>7, <1>8, <1>9 DEF option, size, number, sfl

LEMMA ParentChanges ==
    ASSUME nodes \in TreeType, NEW m \in Metas, NEW node \in Nodes, NEW found, FoundType(found)
    PROVE  LET next == ParentMetaData(m, node, found)
           IN  /\ next \in Metas
               /\ \A n \in Nodes : n # node => next[n] = m[n]
               /\ next[node].sequenceNumber = SequenceNumber(found)
               /\ next[node].sflSize =
                      bejNnintEncodingSizeOfUInt(SequenceNumber(found)) + TupleFSize
               /\ next[node].vSize = CountSize(nodes[node])
               /\ next[node].dictionary = found.dict
               /\ next[node].childrenDictPropOffset = found.child
               /\ next[node].nextChild = nodes[node].firstChild
               /\ next[node].nextChildIndex = 0
<1> DEFINE number == SequenceNumber(found)
           sfl == bejNnintEncodingSizeOfUInt(number) + TupleFSize
           size == CountSize(nodes[node])
           first == nodes[node].firstChild
           next == ParentMetaData(m, node, found)
<1>1. next \in Metas
    BY ParentMetaDataType
<1>2. next = [m EXCEPT ![node] = [@ EXCEPT !.sequenceNumber = number,
                                           !.childrenDictPropOffset = found.child,
                                           !.nextChild = first,
                                           !.nextChildIndex = 0,
                                           !.dictionary = found.dict,
                                           !.vSize = size,
                                           !.sflSize = sfl]]
    BY DEF ParentMetaData
<1> HIDE DEF number, sfl, size, first, next
<1>3. /\ \A n \in Nodes : n # node => next[n] = m[n]
      /\ next[node].sequenceNumber = number /\ next[node].sflSize = sfl
      /\ next[node].vSize = size /\ next[node].dictionary = found.dict
      /\ next[node].childrenDictPropOffset = found.child
      /\ next[node].nextChild = first /\ next[node].nextChildIndex = 0
    BY <1>2 DEF Metas, MetaType
<1> QED BY ONLY <1>1, <1>3 DEF number, sfl, size, first, next

LEMMA PopChanges ==
    ASSUME TypeOK, stack # <<>>, \A i, j \in 1 .. Len(stack) : i # j => stack[i] # stack[j]
    PROVE  LET k == Len(stack)
               next == MetadataPopped(meta)
           IN  /\ \A n \in Nodes :
                     n # stack[k] /\ (k > 1 => n # stack[k - 1]) => next[n] = meta[n]
               /\ next[stack[k]].sequenceNumber = meta[stack[k]].sequenceNumber
               /\ next[stack[k]].vSize = meta[stack[k]].vSize
               /\ next[stack[k]].nextChild = meta[stack[k]].nextChild
               /\ k > 1 =>
                     next[stack[k - 1]] =
                         [meta[stack[k - 1]] EXCEPT !.vSize =
                             @ + (meta[stack[k]].sflSize
                                      + bejNnintEncodingSizeOfUInt(meta[stack[k]].vSize))
                               + meta[stack[k]].vSize]
<1> DEFINE k == Len(stack)
           top == stack[k]
           parent == stack[k - 1]
           size == bejNnintEncodingSizeOfUInt(meta[top].vSize)
           sized == [meta EXCEPT ![top].sflSize = @ + size]
<1>1. /\ k \in Nat \ {0} /\ k \in 1 .. k /\ top \in Nodes
      /\ k > 1 => k - 1 \in 1 .. k /\ parent \in Nodes /\ parent # top
      /\ Len(Pop(stack)) = k - 1
    <2>1. stack \in Seq(Nodes)
        BY DEF TypeOK
    <2>2. k \in Nat \ {0}
        BY <2>1, EmptySeq
    <2>3. \A j \in 1 .. k : stack[j] \in Nodes
        BY <2>1
    <2>4. k \in 1 .. k /\ (k > 1 => k - 1 \in 1 .. k /\ k - 1 # k)
        BY <2>2
    <2>5. Len(Pop(stack)) = k - 1
        BY <2>1, PopParts
    <2> HIDE DEF k
    <2> QED BY <2>2, <2>3, <2>4, <2>5 DEF k
<1>2. meta \in Metas /\ meta[top] \in MetaType
    BY <1>1 DEF TypeOK, Metas
<1>3. size \in Nat
    BY NnintSizes
<1>4. sized \in Metas
    <2> HIDE DEF size, top
    <2> QED BY <1>1, <1>2, <1>3, LengthType
<1>5. Pop(stack) = <<>> <=> ~(k > 1)
    <2>1. Pop(stack) \in Seq(Nodes)
        BY StackFacts
    <2>2. Pop(stack) = <<>> <=> Len(Pop(stack)) = 0
        BY <2>1, EmptySeq
    <2> HIDE DEF k
    <2> QED BY <1>1, <2>2
<1>6. MetadataPopped(meta) = IF k > 1 THEN AddSize(sized, parent, top) ELSE sized
    BY <1>5 DEF MetadataPopped, Top
<1> HIDE DEF size
<1>7. /\ sized[top] = [meta[top] EXCEPT !.sflSize = @ + size]
      /\ \A n \in Nodes : n # top => sized[n] = meta[n]
    <2> HIDE DEF top
    <2> QED BY <1>1, <1>2 DEF Metas
<1> HIDE DEF sized
<1>8. /\ sized[top].sflSize = meta[top].sflSize + size
      /\ sized[top].vSize = meta[top].vSize
      /\ sized[top].nextChild = meta[top].nextChild
      /\ sized[top].sequenceNumber = meta[top].sequenceNumber
    <2> HIDE DEF top
    <2> QED BY <1>2, <1>7 DEF MetaType
<1>9. CASE ~(k > 1)
    <2>1. MetadataPopped(meta) = sized
        BY <1>6, <1>9
    <2> HIDE DEF k
    <2> QED BY <1>7, <1>8, <1>9, <2>1 DEF k
<1>10. CASE k > 1
    <2> DEFINE next == AddSize(sized, parent, top)
    <2>1. MetadataPopped(meta) = next
        BY <1>6, <1>10
    <2>2. /\ \A n \in Nodes : n # parent => next[n] = sized[n]
          /\ next[parent] =
                 [sized[parent] EXCEPT !.vSize = @ + sized[top].sflSize + sized[top].vSize]
        <3>1. parent \in Nodes
            BY <1>1, <1>10
        <3> HIDE DEF parent, top
        <3> QED BY <1>1, <1>4, <3>1, SizeAdded
    <2> HIDE DEF next
    <2>3. next[parent] =
              [meta[parent] EXCEPT !.vSize = @ + (meta[top].sflSize + size) + meta[top].vSize]
        <3>1. sized[parent] = meta[parent]
            BY <1>1, <1>7, <1>10
        <3> HIDE DEF parent, top, k
        <3> QED BY <1>8, <2>2, <3>1
    <2>4. next[top] = sized[top] /\ \A n \in Nodes : n # top /\ n # parent => next[n] = meta[n]
        <3>1. parent # top
            BY <1>1, <1>10
        <3> HIDE DEF parent, top, k
        <3> QED BY <1>1, <1>7, <2>2, <3>1
    <2> HIDE DEF k
    <2> QED BY <1>8, <1>10, <2>1, <2>3, <2>4 DEF k, size
<1> QED BY <1>9, <1>10

LEMMA CursorReset ==
    ASSUME nodes \in TreeType, NEW m \in Metas, NEW node \in Nodes
    PROVE  LET next == ResetCursor(m, node)
           IN  /\ next \in Metas
               /\ \A n \in Nodes : n # node => next[n] = m[n]
               /\ next[node].nextChild = nodes[node].firstChild
               /\ next[node].sequenceNumber = m[node].sequenceNumber
               /\ next[node].vSize = m[node].vSize
               /\ next[node].enumValueSeq = m[node].enumValueSeq
<1>1. ResetCursor(m, node) \in Metas
    BY ResetCursorType
<1> QED BY <1>1 DEF ResetCursor, Metas, MetaType
-----------------------------------------------------------------------------
(* One call. tree is what the caller built, base what had been written       *)
(* before.                                                                   *)

VerdictOn(tree) ==
    IF ~call.notNull THEN "NullParameter"
    ELSE IF tree[call.root].type # "Set" THEN "Unknown"
    ELSE TreeStatus(tree, Root)

Whole(tree, base) == base \o (Header \o TreeEncoding(tree, Root))

Frame(tree, below, height, base) ==
    /\ tree \in TreeType /\ WellBuilt(tree)
    /\ Family(tree, Root, below, height)
    /\ Reflagged(tree, below, nodes)
    /\ base \in Encodings(tree)

\* In the first walk.
InMetadata(tree, below, height) ==
    \E cur, at :
        /\ Walking(below, height, cur, stack, meta)
        /\ FirstWalk(tree, Root, below, at, cur, stack, meta, nodes)
        /\ StatusLeft(tree, cur, Len(stack), TreeStatus(tree, Root))

\* In the second walk.
InEncode(tree, below, height, base) ==
    \E cur, rest :
        /\ Walking(below, height, cur, stack, meta)
        /\ rest \in Encodings(tree)
        /\ TuplesLeft(tree, cur, Len(stack), rest)
        /\ Emits(tree, failed, output, rest, Whole(tree, base))

InDone(tree, base) ==
    /\ failed \/ ret = VerdictOn(tree)
    /\ ret = "OK" => VerdictOn(tree) = "OK"
    /\ VerdictOn(tree) # "OK" => output = base
    /\ VerdictOn(tree) = "OK" =>
          \E rest \in Encodings(tree) :
              /\ Emits(tree, failed, output, rest, Whole(tree, base))
              /\ ret = "OK" => rest = <<>>

CallInv(tree, below, height, base) ==
    /\ Frame(tree, below, height, base)
    /\ pc # "done" => ret = "none"
    /\ pc \in {"call", "metadata", "header"} => output = base
    /\ pc \notin {"encode", "done"} => failed = FALSE
    /\ pc \in {"call", "header", "root"} => stack = <<>>
    /\ pc = "call" => nodes = tree
    /\ pc = "metadata" => /\ InMetadata(tree, below, height)
                          /\ call.notNull /\ tree[call.root].type = "Set"
    /\ pc \in {"header", "root", "encode"} =>
          AllReady(tree, Root, below, meta, nodes) /\ VerdictOn(tree) = "OK"
    /\ pc = "root" => Emits(tree, FALSE, output, TreeEncoding(tree, Root), Whole(tree, base))
    /\ pc = "encode" => InEncode(tree, below, height, base)
    /\ pc = "done" => InDone(tree, base)

LEMMA RootPlace ==
    ASSUME TypeOK
    PROVE  /\ call.root \in Nodes /\ Root.node = call.root
           /\ Root \in Places \ Ends /\ Root.index = 0 /\ Root.dict = "Primary"
           /\ \A tree : Found(tree, Root) =
                  bejFindSeqNumAndChildDictOffset(
                      tree[call.root], "Primary", 0,
                      IF call.start = 0 THEN bejDictGetPropertyHeadOffset ELSE call.start)
<1>1. call.root \in Nodes /\ call.start \in UInt16
    <2>1. call \in CallType
        <3>1. call \in Calls
            BY DEF TypeOK
        <3> QED BY <3>1, CallerAssumption, Zenon
    <2> QED BY <2>1 DEF CallType
<1> DEFINE start == IF call.start = 0 THEN bejDictGetPropertyHeadOffset ELSE call.start
<1>2. start \in PropertyOffsets
    <2>1. bejDictGetPropertyHeadOffset \in PropertyOffsets
        BY DEF bejDictGetPropertyHeadOffset, HeaderSize, PropertyOffsets, UInt16
    <2> QED BY <1>1, <2>1 DEF PropertyOffsets
<1>3. Root = [node |-> call.root, dict |-> "Primary", index |-> 0, start |-> start]
    BY DEF Root
<1> HIDE DEF start
<1>4. Root \in Places /\ Root.node # NULL
    BY <1>1, <1>2, <1>3, NodesAssumption DEF Places, Pointers, SchemaTypes
<1>5. /\ Root.node = call.root /\ Root.index = 0 /\ Root.dict = "Primary"
      /\ Root.start = start
    BY <1>3
<1> QED BY <1>1, <1>4, <1>5 DEF Ends, Found, start

\* Before anything has been written.
LEMMA EmitStart ==
    ASSUME TypeOK, NEW tree, NEW below, NEW height, NEW base, Frame(tree, below, height, base),
           NEW lossy \in BOOLEAN
    PROVE  /\ TreeEncoding(tree, Root) \in Encodings(tree)
           /\ Header \in Encodings(tree)
           /\ Header \o TreeEncoding(tree, Root) \in Encodings(tree)
           /\ Emits(tree, lossy, base, Header \o TreeEncoding(tree, Root), Whole(tree, base))
<1>1. /\ tree \in TreeType /\ NoCycle(tree) /\ base \in Encodings(tree)
    BY DEF Frame, WellBuilt
<1>2. Root \in Places \ Ends
    BY RootPlace
<1>3. TreeEncoding(tree, Root) \in Encodings(tree)
    BY <1>1, <1>2, TuplesTyped DEF TreeEncoding
<1>4. Header \in Encodings(tree)
    <2>1. PieceType \subseteq PiecesOf(Said(tree))
        BY DEF PieceType, PiecesOf, Said
    <2>2. Header \in Seq(PiecesOf(Said(tree)))
        <3> HIDE DEF Header
        <3>1. \A i \in 1 .. Len(Header) : Header[i] \in PiecesOf(Said(tree))
            BY <2>1, HeaderPieces
        <3> QED BY <3>1, HeaderPieces
    <2> QED BY <2>2 DEF Encodings
<1>5. Header \o TreeEncoding(tree, Root) \in Encodings(tree)
    BY <1>3, <1>4, MeasureEncoding
<1>6. base \in WithoutIntegers(base)
    BY <1>1, LostNothing DEF Encodings
<1> QED BY <1>1, <1>3, <1>4, <1>5, <1>6 DEF Emits, Whole

\* The place of the child that is next.
LEMMA ChildPlace ==
    ASSUME TypeOK, NEW tree, NEW below, NEW height, NEW base, Frame(tree, below, height, base),
           NEW cur, Walking(below, height, cur, stack, meta), stack # <<>>
    PROVE  LET p == cur[Len(stack)]
           IN  /\ WalkContext(tree, Root, below, height, cur, stack, meta, p)
               /\ Root \in Places \ Ends
               /\ p.node = Child /\ Top = stack[Len(stack)] /\ Top \in Nodes
               /\ Child = NULL => p \in Ends
               /\ Child # NULL =>
                     /\ p \in below /\ p \in Places \ Ends /\ Child \in Nodes /\ Top # Child
                     /\ bejTreeIsParentType(nodes[Child]) = bejTreeIsParentType(tree[p.node])
                     /\ \A at, ns :
                           FirstWalk(tree, Root, below, at, cur, stack, meta, ns) =>
                               FoundChild = Found(tree, p)
<1> DEFINE k == Len(stack)
           p == cur[k]
<1>1. stack \in Seq(Nodes) /\ Root \in Places \ Ends
    BY RootPlace DEF TypeOK
<1>2. WalkContext(tree, Root, below, height, cur, stack, meta, p)
    BY <1>1 DEF WalkContext, Frame
<1>3. /\ k \in 1 .. k /\ cur \in [1 .. k -> below \cup Ends]
      /\ \A j \in 1 .. k : stack[j] \in Nodes /\ cur[j] \in Places
      /\ \A j \in 1 .. k : stack[j] # p.node
      /\ below \cup {Root} \subseteq Places \ Ends
      /\ p \notin Ends => p \in below
    BY <1>2, WalkFacts
<1>4. p.node = Child /\ Top = stack[k] /\ Top \in Nodes /\ Top # Child
    <2>1. p.node = meta[stack[k]].nextChild
        BY <1>3 DEF Walking
    <2>2. stack[k] \in Nodes /\ stack[k] # p.node
        BY <1>3
    <2> QED BY <2>1, <2>2 DEF Child, Top
<1>5. p \in Ends <=> Child = NULL
    BY <1>3, <1>4 DEF Ends
<1>6. ASSUME Child # NULL
      PROVE  /\ p \in below /\ p \in Places \ Ends /\ Child \in Nodes
             /\ bejTreeIsParentType(nodes[Child]) = bejTreeIsParentType(tree[p.node])
             /\ \A at, ns :
                   FirstWalk(tree, Root, below, at, cur, stack, meta, ns) =>
                       FoundChild = Found(tree, p)
    <2>1. p \in below /\ p \in Places \ Ends
        BY <1>3, <1>5, <1>6
    <2>2. /\ p.node \in Nodes
          /\ bejFindSeqNumAndChildDictOffset(nodes[p.node], p.dict, p.index, p.start)
                 = Found(tree, p)
          /\ bejTreeIsParentType(nodes[p.node]) = bejTreeIsParentType(tree[p.node])
        <3>1. tree \in TreeType /\ Reflagged(tree, below, nodes)
            BY DEF Frame
        <3> HIDE DEF p
        <3> QED BY <2>1, <3>1, FoundWithFlags
    <2>3. ASSUME NEW at, NEW ns, FirstWalk(tree, Root, below, at, cur, stack, meta, ns)
          PROVE  FoundChild = Found(tree, p)
        <3>1. p = Cursor(meta[stack[k]])
            BY <1>3, <2>1, <2>3 DEF FirstWalk, Entered, InParent
        <3>2. /\ p.dict = meta[Top].dictionary /\ p.index = meta[Top].nextChildIndex
              /\ p.start = meta[Top].childrenDictPropOffset
            BY <1>4, <3>1 DEF Cursor
        <3> HIDE DEF p
        <3> QED BY <1>4, <2>2, <3>2 DEF FoundChild
    <2> HIDE DEF p
    <2> QED BY <1>4, <2>1, <2>2, <2>3
<1> HIDE DEF k
<1> QED BY <1>1, <1>2, <1>4, <1>5, <1>6 DEF k
\* The status of a tree, when that of the child that is next is not "OK", and
\* what remains to be found out when it is.
StatusAfter(tree, below, cur, k, p, verdict) ==
    LET status == LeafStatus(tree[p.node], Found(tree, p))
        F == below \cup Ends
    IN  /\ p \in Ends => StatusLeft(tree, Popped(cur, k), k - 1, verdict)
        /\ p \notin Ends /\ status # "OK" => verdict = status
        /\ p \notin Ends /\ status = "OK" /\ Inside(tree, p) \in Ends /\ Behind(tree, p) \in F =>
              StatusLeft(tree, Moved(cur, k, Behind(tree, p)), k, verdict)
        /\ p \notin Ends /\ status = "OK" /\ Inside(tree, p) \in F /\ Behind(tree, p) \in F =>
              StatusLeft(tree, Pushed(cur, k, Behind(tree, p), Inside(tree, p)), k + 1, verdict)

LEMMA StatusGoesOn ==
    ASSUME NEW tree \in TreeType, NoCycle(tree), NEW below, below \subseteq Places \ Ends,
           NEW k \in Nat \ {0}, NEW cur \in [1 .. k -> below \cup Ends], NEW verdict,
           StatusLeft(tree, cur, k, verdict),
           NEW p, p = cur[k]
    PROVE  StatusAfter(tree, below, cur, k, p, verdict)
<1> DEFINE step == StatusStep(tree)
           E == EncoderStatuses
           F == below \cup Ends
           from == StatusFrom(tree)
           status == LeafStatus(tree[p.node], Found(tree, p))
<1>1. /\ step \in [Places -> [E -> E]]
      /\ \A q \in Places, x \in E : step[q][x] = FirstFault(from[q], x)
    BY StatusStepType
<1>2. F \in SUBSET Places
    BY DEF Ends
<1>3. k \in 1 .. k /\ p \in F /\ p \in Places
    BY <1>2
<1> HIDE DEF step, F, E
<1>4. PICK y \in E : /\ verdict = step[p][y]
                     /\ \A q, r \in F : ChainGoesOn(step, E, "OK", cur, k, y, q, r)
    <2>1. cur \in [1 .. k -> F] /\ IsChain(step, E, "OK", cur, k, verdict)
        BY DEF F, step, E, StatusLeft
    <2>2. \E y \in E : /\ verdict = step[cur[k]][y]
                       /\ \A q, r \in F : ChainGoesOn(step, E, "OK", cur, k, y, q, r)
        <3>1. k \in Nat \ {0} /\ step \in [Places -> [E -> E]] /\ F \in SUBSET Places
            BY <1>1, <1>2
        <3> QED BY ONLY <2>1, <3>1, ChainNext
    <2> QED BY <2>2
<1>5. verdict = FirstFault(from[p], y)
    BY <1>1, <1>3, <1>4
<1>6. CASE p \in Ends
    <2>1. from[p] = "OK"
        BY <1>6, StatusEquation
    <2>2. verdict = y
        BY <1>5, <2>1 DEF FirstFault
    <2>3. ChainGoesOn(step, E, "OK", cur, k, y, p, p)
        BY <1>3, <1>4
    <2> QED BY <1>6, <2>2, <2>3 DEF ChainGoesOn, step, E, StatusAfter, StatusLeft
<1>7. CASE p \notin Ends
    <2> DEFINE q == Behind(tree, p)
               r == Inside(tree, p)
    <2>0. p \in Places \ Ends
        BY <1>3, <1>7
    <2>1. /\ FirstFault(from[p], y) = FirstFault(status, FirstFault(from[r], FirstFault(from[q], y)))
          /\ \A z \in E : FirstFault(status, z) = IF status = "OK" THEN z ELSE status
          /\ r \in Ends => from[r] = "OK"
          /\ \A z \in E : FirstFault("OK", z) = z
        BY <2>0, StatusOfPlace DEF E
    <2>2. q \in Places /\ r \in Places
        BY <2>0, NextPlaces
    <2>3. /\ step[q][y] = FirstFault(from[q], y) /\ step[q][y] \in E
          /\ step[r][step[q][y]] = FirstFault(from[r], FirstFault(from[q], y))
          /\ step[r][step[q][y]] \in E
        <3>1. step[q] \in [E -> E] /\ step[r] \in [E -> E]
            BY <1>1, <2>2
        <3>2. step[q][y] \in E
            BY <3>1
        <3>3. step[r][step[q][y]] \in E
            BY <3>1, <3>2
        <3> HIDE DEF q, r
        <3> QED BY <1>1, <2>2, <3>2, <3>3
    <2> HIDE DEF q, r, from, status
    <2>4. status # "OK" => verdict = status
        BY <1>5, <2>1, <2>3
    <2>5. status = "OK" /\ r \in Ends => verdict = step[q][y]
        BY <1>5, <2>1, <2>3
    <2>6. status = "OK" => verdict = step[r][step[q][y]]
        BY <1>5, <2>1, <2>3
    <2>7. q \in F => /\ ChainGoesOn(step, E, "OK", cur, k, y, q, q)
                     /\ r \in F => ChainGoesOn(step, E, "OK", cur, k, y, q, r)
        BY <1>4
    <2> QED BY <1>7, <2>4, <2>5, <2>6, <2>7
           DEF ChainGoesOn, step, E, F, q, r, status, StatusAfter, StatusLeft
<1> QED BY <1>6, <1>7

\* What is to be shown of a step in the first walk.
LEMMA StaysInMetadata ==
    ASSUME TypeOK, NEW tree, NEW below, NEW height, NEW base,
           CallInv(tree, below, height, base), pc \in {"call", "metadata"},
           call.notNull, tree[call.root].type = "Set",
           pc' = "metadata", UNCHANGED <<ret, call, output, failed>>,
           Reflagged(tree, below, nodes'),
           NEW cur, NEW at,
           Walking(below, height, cur, stack', meta'),
           FirstWalk(tree, Root, below, at, cur, stack', meta', nodes'),
           StatusLeft(tree, cur, Len(stack'), TreeStatus(tree, Root))
    PROVE  CallInv(tree, below, height, base)'
<1>1. Root' = Root
    BY DEF Root
<1>2. InMetadata(tree, below, height)'
    BY <1>1 DEF InMetadata
<1>3. Frame(tree, below, height, base)'
    BY <1>1 DEF CallInv, Frame
<1>4. ret = "none" /\ output = base /\ failed = FALSE
    BY DEF CallInv
<1> QED BY <1>2, <1>3, <1>4 DEF CallInv

\* And of one that returns from it.
LEMMA FailsEarly ==
    ASSUME TypeOK, NEW tree, NEW below, NEW height, NEW base,
           CallInv(tree, below, height, base), pc \in {"call", "metadata"},
           pc' = "done", UNCHANGED <<call, output>>, failed' \in BOOLEAN,
           Reflagged(tree, below, nodes'),
           ret' # "OK", failed' = TRUE \/ ret' = VerdictOn(tree)
    PROVE  CallInv(tree, below, height, base)'
<1>1. Root' = Root /\ VerdictOn(tree)' = VerdictOn(tree) /\ Whole(tree, base)' = Whole(tree, base)
    BY DEF Root, VerdictOn, Whole
<1>2. Frame(tree, below, height, base)'
    BY <1>1 DEF CallInv, Frame
<1>3. output' = base /\ Frame(tree, below, height, base)
    BY DEF CallInv
<1>4. /\ Header \o TreeEncoding(tree, Root) \in Encodings(tree)
      /\ Emits(tree, failed', base, Header \o TreeEncoding(tree, Root), Whole(tree, base))
    BY <1>3, EmitStart
<1>5. \E rest \in Encodings(tree) :
          /\ Emits(tree, failed', output', rest, Whole(tree, base))
          /\ ret' = "OK" => rest = <<>>
    BY <1>3, <1>4
<1>6. InDone(tree, base)'
    BY <1>1, <1>3, <1>5 DEF InDone
<1> QED BY <1>2, <1>6 DEF CallInv

\* A leaf whose place and option have been found is ready, and the sizes that
\* are added to the parent's are those of its tuple.
LEMMA LeafReady ==
    ASSUME NEW tree \in TreeType, WellBuilt(tree), NEW p \in Places \ Ends,
           ~bejTreeIsParentType(tree[p.node]), NEW m, NEW any,
           LET node == tree[p.node]
               option == IF node.type = "Enum" THEN OptionSeq(node, Found(tree, p)) ELSE any
           IN  /\ m.sequenceNumber = SequenceNumber(Found(tree, p))
               /\ m.enumValueSeq = option
               /\ m.vSize = LeafValueSize(node, option)
    PROVE  /\ Ready(tree, p, m)
           /\ m.vSize \in Nat
           /\ bejNnintEncodingSizeOfUInt(SequenceNumber(Found(tree, p))) \in Nat
           /\ LeafLengthSize(tree[p.node], m.vSize) \in Nat
           /\ \A size \in Nat :
                 size + (bejNnintEncodingSizeOfUInt(SequenceNumber(Found(tree, p))) + TupleFSize
                             + LeafLengthSize(tree[p.node], m.vSize)) + m.vSize
                     = size + TupleSize(tree, p)
<1> DEFINE node == tree[p.node]
           found == Found(tree, p)
           option == OptionSeq(node, found)
           head == Measure(ValueHead(tree, p))
<1>0. NoCycle(tree)
    BY DEF WellBuilt
<1>1. /\ node.type = "Enum" => head = LeafValueSize(node, option)
      /\ node.type # "Enum" => \A x : head = LeafValueSize(node, x)
      /\ LeafLengthSize(node, head) = bejNnintEncodingSizeOfUInt(head)
    BY HeadSizes
<1>2. m.vSize = head
    BY <1>1
<1>3. Inside(tree, p) \in Ends
    <2>1. FirstChild(tree, p.node) = NULL
        BY DEF FirstChild
    <2> QED BY <2>1, NextPlaces DEF Ends
<1>4. /\ ValueSize(tree, p) = head + SizeFrom(tree, Inside(tree, p))
      /\ SizeFrom(tree, Inside(tree, p)) = 0
      /\ ValueSize(tree, p) \in Nat
      /\ TupleSize(tree, p) =
             bejNnintEncodingSizeOfUInt(SequenceNumber(found)) + TupleFSize
                 + bejNnintEncodingSizeOfUInt(ValueSize(tree, p)) + ValueSize(tree, p)
    BY <1>0, <1>3, PlaceSizes
<1>5. head \in Nat
    <2>1. ValueHead(tree, p) \in Encodings(tree)
        BY <1>0, HeadOf
    <2> QED BY <2>1, MeasureEncoding
<1>6. ValueSize(tree, p) = head
    BY <1>4, <1>5
<1>7. /\ bejNnintEncodingSizeOfUInt(SequenceNumber(found)) \in Nat
      /\ bejNnintEncodingSizeOfUInt(head) \in Nat
    <2>1. SequenceNumber(found) \in Nat
        BY NextPlaces DEF FoundType
    <2> QED BY <1>5, <2>1, NnintSizes
<1>8. Ready(tree, p, m)
    BY <1>2, <1>6 DEF Ready, ValueSize
<1> HIDE DEF node, found, option, head
<1>9. ASSUME NEW size \in Nat
      PROVE  size + (bejNnintEncodingSizeOfUInt(SequenceNumber(found)) + TupleFSize
                         + LeafLengthSize(node, head)) + head
                 = size + TupleSize(tree, p)
    <2>1. TupleFSize \in Nat
        BY DEF TupleFSize
    <2>2. TupleSize(tree, p) =
              bejNnintEncodingSizeOfUInt(SequenceNumber(found)) + TupleFSize
                  + bejNnintEncodingSizeOfUInt(head) + head
        BY <1>4, <1>6
    <2> QED BY ONLY <1>1, <1>5, <1>7, <1>9, <2>1, <2>2
<1>10. LeafLengthSize(node, head) \in Nat /\ m.vSize \in Nat
    BY <1>1, <1>2, <1>5, <1>7
<1> QED BY <1>2, <1>7, <1>8, <1>9, <1>10 DEF node, found

\* What is known in the first walk of the child that is next.
LEMMA InFirstWalk ==
    ASSUME TypeOK, NEW tree, NEW below, NEW height, NEW base,
           CallInv(tree, below, height, base), pc = "metadata"
    PROVE  \E cur, at :
              /\ Walking(below, height, cur, stack, meta)
              /\ FirstWalk(tree, Root, below, at, cur, stack, meta, nodes)
              /\ StatusLeft(tree, cur, Len(stack), TreeStatus(tree, Root))
              /\ Frame(tree, below, height, base)
              /\ call.notNull /\ tree[call.root].type = "Set"
              /\ VerdictOn(tree) = TreeStatus(tree, Root)
BY DEF CallInv, InMetadata, VerdictOn

LEMMA MetadataLeafKeeps ==
    ASSUME TypeOK, NEW tree, NEW below, NEW height, NEW base,
           CallInv(tree, below, height, base), MetadataLeaf
    PROVE  CallInv(tree, below, height, base)'
<1> DEFINE k == Len(stack)
<1>1. PICK cur, at :
          /\ Walking(below, height, cur, stack, meta)
          /\ FirstWalk(tree, Root, below, at, cur, stack, meta, nodes)
          /\ StatusLeft(tree, cur, k, TreeStatus(tree, Root))
          /\ Frame(tree, below, height, base)
          /\ call.notNull /\ tree[call.root].type = "Set"
          /\ VerdictOn(tree) = TreeStatus(tree, Root)
    BY InFirstWalk DEF MetadataLeaf
<1>2. pc = "metadata" /\ stack # <<>> /\ Child # NULL /\ ~bejTreeIsParentType(nodes[Child])
    BY DEF MetadataLeaf, AtLeaf
<1> DEFINE p == cur[k]
           status == LeafStatus(tree[p.node], Found(tree, p))
<1>3. /\ WalkContext(tree, Root, below, height, cur, stack, meta, p)
      /\ Root \in Places \ Ends
      /\ p.node = Child /\ Top = stack[k] /\ Top \in Nodes /\ Top # Child
      /\ p \in below /\ p \in Places \ Ends /\ Child \in Nodes
      /\ bejTreeIsParentType(nodes[Child]) = bejTreeIsParentType(tree[p.node])
      /\ FoundChild = Found(tree, p)
    BY <1>1, <1>2, ChildPlace
<1>4. /\ tree \in TreeType /\ WellBuilt(tree) /\ NoCycle(tree)
      /\ Family(tree, Root, below, height) /\ Reflagged(tree, below, nodes)
      /\ nodes \in TreeType
    BY <1>1 DEF Frame, WellBuilt, Reflagged
<1>5. /\ k \in Nat \ {0} /\ k \in 1 .. k /\ cur \in [1 .. k -> below \cup Ends]
      /\ \A j \in 1 .. k : stack[j] \in Nodes /\ cur[j] \in Places
      /\ \A i, j \in 1 .. k : i # j => stack[i] # stack[j]
      /\ \A j \in 1 .. k : stack[j] # p.node
      /\ below \cup {Root} \subseteq Places \ Ends
    BY <1>3, WalkFacts
<1>6. Behind(tree, p) \in below \cup Ends /\ Inside(tree, p) \in Ends
    <2>1. FirstChild(tree, p.node) = NULL
        BY <1>2, <1>3 DEF FirstChild
    <2>2. Inside(tree, p) \in Ends
        BY <1>3, <1>4, <2>1, NextPlaces DEF Ends
    <2> QED BY <1>3, <1>4, <2>2, FamilyFacts
<1> HIDE DEF p, k
<1>7. /\ Reflagged(tree, below, nodes')
      /\ nodes'[p.node] = FlaggedNode(tree, p)
      /\ \A n \in Nodes : n # p.node => nodes'[n] = nodes[n]
    <2>1. FlagNode(p.node, Found(tree, p))
        BY <1>3 DEF MetadataLeaf
    <2> QED BY <1>3, <1>4, <2>1, FlagSet
<1>8. /\ LeafStatus(nodes[Child], FoundChild) = status
      /\ nodes[p.node].sibling = tree[p.node].sibling
      /\ nodes[p.node].type = tree[p.node].type
      /\ \A found : OptionSeq(nodes[p.node], found) = OptionSeq(tree[p.node], found)
      /\ \A any : /\ LeafValueSize(nodes[p.node], any) = LeafValueSize(tree[p.node], any)
                  /\ LeafLengthSize(nodes[p.node], any) = LeafLengthSize(tree[p.node], any)
    BY <1>3, <1>4, FoundWithFlags
<1>9. /\ status # "OK" => TreeStatus(tree, Root) = status
      /\ status = "OK" =>
            StatusLeft(tree, Moved(cur, k, Behind(tree, p)), k, TreeStatus(tree, Root))
    <2>1. p = cur[k] /\ p \notin Ends /\ below \subseteq Places \ Ends
        BY <1>3, <1>5 DEF p
    <2>2. StatusAfter(tree, below, cur, k, p, TreeStatus(tree, Root))
        BY <1>1, <1>4, <1>5, <2>1, StatusGoesOn
    <2> QED BY <1>6, <2>1, <2>2 DEF StatusAfter
<1>10. CASE status # "OK"
    <2>1. pc' = "done" /\ ret' = status /\ UNCHANGED <<call, output, failed>>
        BY <1>8, <1>10 DEF MetadataLeaf, Return
    <2>2. ret' = VerdictOn(tree) /\ failed' \in BOOLEAN
        BY <1>1, <1>9, <1>10, <2>1 DEF TypeOK
    <2> QED BY <1>2, <1>7, <1>10, <2>1, <2>2, FailsEarly
<1>11. CASE status = "OK"
    <2>1. /\ meta' = LeafVisited(meta, Top, Child, FoundChild)
          /\ pc' = pc /\ UNCHANGED <<ret, call, stack, output, failed>>
        BY <1>8, <1>11 DEF MetadataLeaf, LeafVisited
    <2> DEFINE any == meta[p.node].enumValueSeq
               option == IF tree[p.node].type = "Enum" THEN OptionSeq(tree[p.node], Found(tree, p))
                         ELSE any
               size == LeafValueSize(tree[p.node], option)
               number == SequenceNumber(Found(tree, p))
               top == stack[k]
    <2>2. /\ \A n \in Nodes : n # p.node /\ n # top => meta'[n] = meta[n]
          /\ meta'[p.node].sequenceNumber = number
          /\ meta'[p.node].enumValueSeq = option
          /\ meta'[p.node].vSize = size
          /\ meta'[top].vSize =
                 meta[top].vSize
                     + (bejNnintEncodingSizeOfUInt(number) + TupleFSize
                            + LeafLengthSize(tree[p.node], size))
                     + size
          /\ GoneOn(tree, p, meta[top], meta'[top])
        <3>1. /\ meta \in Metas /\ FoundType(FoundChild) /\ nodes[Child].type \in LeafTypes
              /\ LeafStatus(nodes[Child], FoundChild) = "OK"
            BY <1>8, <1>11, ChildFacts DEF TypeOK, Metas, MetadataLeaf
        <3>2. LET o == IF nodes[Child].type = "Enum" THEN OptionSeq(nodes[Child], FoundChild)
                       ELSE meta[Child].enumValueSeq
                  z == LeafValueSize(nodes[Child], o)
                  r == SequenceNumber(FoundChild)
              IN  /\ \A n \in Nodes : n # Child /\ n # Top => meta'[n] = meta[n]
                  /\ meta'[Child].sequenceNumber = r
                  /\ meta'[Child].enumValueSeq = o
                  /\ meta'[Child].vSize = z
                  /\ meta'[Top].vSize =
                         meta[Top].vSize
                             + (bejNnintEncodingSizeOfUInt(r) + TupleFSize
                                    + LeafLengthSize(nodes[Child], z))
                             + z
                  /\ meta'[Top].sequenceNumber = meta[Top].sequenceNumber
                  /\ meta'[Top].sflSize = meta[Top].sflSize
                  /\ meta'[Top].dictionary = meta[Top].dictionary
                  /\ meta'[Top].childrenDictPropOffset = meta[Top].childrenDictPropOffset
                  /\ meta'[Top].nextChild = nodes[Child].sibling
                  /\ meta'[Top].nextChildIndex = (meta[Top].nextChildIndex + 1) % IndexRange
            BY <1>3, <1>4, <2>1, <3>1, LeafChanges
        <3> QED BY <1>3, <1>8, <3>2 DEF GoneOn
    <2>3. meta[top].vSize \in Nat
        BY <1>5 DEF TypeOK, MetaType
    <2>4. /\ Ready(tree, p, meta'[p.node])
          /\ meta'[top].vSize = meta[top].vSize + TupleSize(tree, p)
        <3>1. /\ Ready(tree, p, meta'[p.node])
              /\ \A z \in Nat :
                    z + (bejNnintEncodingSizeOfUInt(number) + TupleFSize
                             + LeafLengthSize(tree[p.node], size)) + size = z + TupleSize(tree, p)
            <4>1. ~bejTreeIsParentType(tree[p.node])
                BY <1>2, <1>3
            <4> HIDE DEF any
            <4>2. LET node == tree[p.node]
                      o == IF node.type = "Enum" THEN OptionSeq(node, Found(tree, p)) ELSE any
                  IN  /\ meta'[p.node].sequenceNumber = SequenceNumber(Found(tree, p))
                      /\ meta'[p.node].enumValueSeq = o
                      /\ meta'[p.node].vSize = LeafValueSize(node, o)
                BY <2>2
            <4>3. /\ Ready(tree, p, meta'[p.node])
                  /\ \A z \in Nat :
                        z + (bejNnintEncodingSizeOfUInt(SequenceNumber(Found(tree, p))) + TupleFSize
                                 + LeafLengthSize(tree[p.node], meta'[p.node].vSize))
                          + meta'[p.node].vSize
                            = z + TupleSize(tree, p)
                BY <1>3, <1>4, <4>1, <4>2, LeafReady
            <4> HIDE DEF option
            <4> QED BY <2>2, <4>3
        <3> HIDE DEF size, number, option
        <3> QED BY <2>2, <2>3, <3>1
    <2>5. Walking(below, height, Moved(cur, k, Behind(tree, p)), stack, meta')
        <3>1. \A j \in 1 .. k : j # k => meta'[stack[j]].nextChild = meta[stack[j]].nextChild
            BY <1>5, <2>2
        <3>2. meta'[stack[k]].nextChild = tree[p.node].sibling
            BY <2>2 DEF GoneOn
        <3>3. stack \in Seq(Nodes)
            BY DEF TypeOK
        <3> QED BY <1>1, <1>2, <1>3, <1>4, <3>1, <3>2, <3>3, WalkingMove DEF k, p
    <2>6. FirstWalk(tree, Root, below, at, Moved(cur, k, Behind(tree, p)), stack, meta', nodes')
        <3>1. ReadyAt(tree, p, meta', nodes')
            BY <1>7, <2>4 DEF ReadyAt
        <3>2. ~bejTreeIsParentType(tree[p.node]) /\ p \notin Ends
            BY <1>2, <1>3
        <3> HIDE DEF size, number, option, any
        <3> QED BY <1>1, <1>3, <1>7, <2>2, <2>3, <2>4, <3>1, <3>2, WalkLeaf DEF k
    <2> HIDE DEF size, number, option, any, top
    <2>7. StatusLeft(tree, Moved(cur, k, Behind(tree, p)), Len(stack), TreeStatus(tree, Root))
        BY <1>9, <1>11 DEF k
    <2>8. stack' = stack /\ pc' = "metadata" /\ UNCHANGED <<ret, call, output, failed>>
        BY <1>2, <2>1
    <2> HIDE DEF status
    <2> QED BY <1>1, <1>2, <1>7, <2>5, <2>6, <2>7, <2>8, StaysInMetadata
<1> QED BY <1>10, <1>11

LEMMA MetadataParentKeeps ==
    ASSUME TypeOK, NEW tree, NEW below, NEW height, NEW base,
           CallInv(tree, below, height, base), MetadataParent
    PROVE  CallInv(tree, below, height, base)'
<1> DEFINE k == Len(stack)
<1>1. PICK cur, at :
          /\ Walking(below, height, cur, stack, meta)
          /\ FirstWalk(tree, Root, below, at, cur, stack, meta, nodes)
          /\ StatusLeft(tree, cur, k, TreeStatus(tree, Root))
          /\ Frame(tree, below, height, base)
          /\ call.notNull /\ tree[call.root].type = "Set"
          /\ VerdictOn(tree) = TreeStatus(tree, Root)
    BY InFirstWalk DEF MetadataParent
<1>2. pc = "metadata" /\ stack # <<>> /\ Child # NULL /\ bejTreeIsParentType(nodes[Child])
    BY DEF MetadataParent, AtParent
<1> DEFINE p == cur[k]
           found == Found(tree, p)
<1>3. /\ WalkContext(tree, Root, below, height, cur, stack, meta, p)
      /\ Root \in Places \ Ends
      /\ p.node = Child /\ Top = stack[k] /\ Top \in Nodes /\ Top # Child
      /\ p \in below /\ p \in Places \ Ends /\ Child \in Nodes
      /\ bejTreeIsParentType(nodes[Child]) = bejTreeIsParentType(tree[p.node])
      /\ FoundChild = found
    BY <1>1, <1>2, ChildPlace
<1>4. /\ tree \in TreeType /\ WellBuilt(tree) /\ NoCycle(tree)
      /\ Family(tree, Root, below, height) /\ Reflagged(tree, below, nodes)
      /\ nodes \in TreeType
    BY <1>1 DEF Frame, WellBuilt, Reflagged
<1>5. /\ k \in Nat \ {0} /\ k \in 1 .. k /\ cur \in [1 .. k -> below \cup Ends]
      /\ \A j \in 1 .. k : stack[j] \in Nodes /\ cur[j] \in Places
      /\ \A i, j \in 1 .. k : i # j => stack[i] # stack[j]
      /\ \A j \in 1 .. k : stack[j] # p.node
      /\ below \cup {Root} \subseteq Places \ Ends
    BY <1>3, WalkFacts
<1>6. /\ Behind(tree, p) \in below \cup Ends /\ Inside(tree, p) \in below \cup Ends
      /\ Inside(tree, p) = [node |-> tree[p.node].firstChild, dict |-> found.dict, index |-> 0,
                            start |-> found.child]
      /\ FirstChild(tree, p.node) = tree[p.node].firstChild
    <2>1. FirstChild(tree, p.node) = tree[p.node].firstChild
        BY <1>2, <1>3 DEF FirstChild
    <2> QED BY <1>3, <1>4, <2>1, FamilyFacts DEF Inside
<1> HIDE DEF p, k
<1>7. /\ Reflagged(tree, below, nodes')
      /\ nodes'[p.node] = FlaggedNode(tree, p)
      /\ \A n \in Nodes : n # p.node => nodes'[n] = nodes[n]
    <2>1. FlagNode(p.node, found)
        BY <1>3 DEF MetadataParent
    <2> QED BY <1>3, <1>4, <2>1, FlagSet
<1>8. /\ nodes[p.node].sibling = tree[p.node].sibling
      /\ nodes[p.node].firstChild = tree[p.node].firstChild
      /\ CountSize(nodes[p.node]) = CountSize(tree[p.node])
      /\ LeafStatus(tree[p.node], found) = found.status
    <2>1. tree[p.node].type \notin {"Real", "Enum"}
        BY <1>2, <1>3 DEF bejTreeIsParentType, ParentTypes
    <2>2. LeafStatus(tree[p.node], found) = found.status
        BY <2>1 DEF LeafStatus
    <2> QED BY <1>3, <1>4, <2>2, FoundWithFlags
<1> HIDE DEF found
<1>9. /\ found.status # "OK" => TreeStatus(tree, Root) = found.status
      /\ found.status = "OK" =>
            StatusLeft(tree, Pushed(cur, k, Behind(tree, p), Inside(tree, p)), k + 1,
                       TreeStatus(tree, Root))
    <2>1. p = cur[k] /\ p \notin Ends /\ below \subseteq Places \ Ends
        BY <1>3, <1>5 DEF p
    <2>2. StatusAfter(tree, below, cur, k, p, TreeStatus(tree, Root))
        BY <1>1, <1>4, <1>5, <2>1, StatusGoesOn
    <2>3. LeafStatus(tree[p.node], Found(tree, p)) = found.status
        BY <1>8 DEF found
    <2> QED BY <1>6, <2>1, <2>2, <2>3 DEF StatusAfter
<1>10. \/ /\ found.status # "OK" /\ Return(found.status)
          /\ UNCHANGED <<call, output, failed>>
       \/ /\ found.status = "OK" /\ pc' = "done" /\ ret' = "Callback" /\ failed' = TRUE
          /\ UNCHANGED <<call, output>>
       \/ /\ found.status = "OK" /\ stack' = Append(stack, p.node)
          /\ meta' = bejParentGoToNextChild(ParentMetaData(meta, p.node, found), stack[k], p.node)
          /\ UNCHANGED <<pc, ret, call, output, failed>>
    BY <1>3 DEF MetadataParent, StackPush, Return
<1>11. CASE found.status # "OK" /\ Return(found.status) /\ UNCHANGED <<call, output, failed>>
    <2>1. pc' = "done" /\ ret' = VerdictOn(tree) /\ ret' # "OK" /\ failed' \in BOOLEAN
        BY <1>1, <1>9, <1>11 DEF TypeOK, Return
    <2> QED BY <1>2, <1>7, <1>11, <2>1, FailsEarly
<1>12. CASE /\ pc' = "done" /\ ret' = "Callback" /\ failed' = TRUE
            /\ UNCHANGED <<call, output>>
    BY <1>2, <1>7, <1>12, FailsEarly
<1>13. CASE /\ found.status = "OK" /\ stack' = Append(stack, p.node)
            /\ meta' = bejParentGoToNextChild(ParentMetaData(meta, p.node, found), stack[k], p.node)
            /\ UNCHANGED <<pc, ret, call, output, failed>>
    <2> DEFINE updated == ParentMetaData(meta, p.node, found)
               top == stack[k]
               next == Further(at, k, p)
    <2>1. /\ updated \in Metas
          /\ \A n \in Nodes : n # p.node => updated[n] = meta[n]
          /\ updated[p.node].sequenceNumber = SequenceNumber(found)
          /\ updated[p.node].sflSize =
                 bejNnintEncodingSizeOfUInt(SequenceNumber(found)) + TupleFSize
          /\ updated[p.node].vSize = CountSize(nodes[p.node])
          /\ updated[p.node].dictionary = found.dict
          /\ updated[p.node].childrenDictPropOffset = found.child
          /\ updated[p.node].nextChild = nodes[p.node].firstChild
          /\ updated[p.node].nextChildIndex = 0
        <3>1. meta \in Metas /\ FoundType(found) /\ p.node \in Nodes
            BY <1>3, <1>4, NextPlaces DEF TypeOK, Metas, found
        <3> QED BY <1>4, <3>1, ParentChanges
    <2>2. top \in Nodes /\ top # p.node /\ p.node \in Nodes
        BY <1>3, <1>5
    <2>3. ParentMoved(updated, top, nodes[p.node].sibling, meta')
        <3> HIDE DEF updated, top
        <3>1. meta' = bejParentGoToNextChild(updated, top, p.node)
            BY <1>13 DEF updated, top
        <3> QED BY <1>4, <2>1, <2>2, <3>1, GoesOn
    <2> HIDE DEF updated
    <2>4. /\ \A n \in Nodes : n # p.node /\ n # top => meta'[n] = meta[n]
          /\ meta'[p.node] = updated[p.node]
          /\ GoneOn(tree, p, meta[top], meta'[top])
          /\ meta'[top].vSize = meta[top].vSize
        BY <1>8, <2>1, <2>2, <2>3 DEF ParentMoved, GoneOn
    <2>5. meta[top].vSize \in Nat
        BY <1>5 DEF TypeOK, MetaType
    <2>6. meta'[p.node].nextChild = FirstChild(tree, p.node)
        BY <1>6, <1>8, <2>1, <2>4
    <2>7. InParent(tree, p, Inside(tree, p), meta'[p.node], nodes'[p.node])
        <3>1. Inside(tree, p) = Cursor(meta'[p.node])
            BY <1>6, <1>8, <2>1, <2>4 DEF Cursor
        <3>2. bejTreeIsParentType(tree[p.node])
            BY <1>2, <1>3
        <3> QED BY <1>7, <2>1, <2>4, <3>1, <3>2 DEF InParent, found
    <2>8. Walking(below, height, Pushed(cur, k, Behind(tree, p), Inside(tree, p)),
                  Append(stack, p.node), meta')
        <3>1. \A j \in 1 .. k : j # k => meta'[stack[j]].nextChild = meta[stack[j]].nextChild
            BY <1>5, <2>4
        <3>2. meta'[stack[k]].nextChild = tree[p.node].sibling
            BY <2>4 DEF GoneOn
        <3>3. stack \in Seq(Nodes)
            BY DEF TypeOK
        <3> QED BY <1>1, <1>2, <1>3, <1>4, <2>6, <3>1, <3>2, <3>3, WalkingPush DEF k, p
    <2>9. FirstWalk(tree, Root, below, next, Pushed(cur, k, Behind(tree, p), Inside(tree, p)),
                    stack', meta', nodes')
        <3>1. meta'[p.node].vSize = CountSize(tree[p.node]) /\ p \notin Ends
            BY <1>3, <1>8, <2>1, <2>4
        <3>2. /\ WalkContext(tree, Root, below, height, cur, stack, meta, p) /\ p \notin Ends
              /\ FirstWalk(tree, Root, below, at, cur, stack, meta, nodes)
              /\ \A n \in Nodes : n # p.node => nodes'[n] = nodes[n]
              /\ \A n \in Nodes : n # p.node /\ n # stack[Len(stack)] => meta'[n] = meta[n]
              /\ InParent(tree, p, Inside(tree, p), meta'[p.node], nodes'[p.node])
              /\ meta'[p.node].vSize = CountSize(tree[p.node])
              /\ meta'[stack[Len(stack)]].vSize = meta[stack[Len(stack)]].vSize
              /\ GoneOn(tree, p, meta[stack[Len(stack)]], meta'[stack[Len(stack)]])
              /\ meta[stack[Len(stack)]].vSize \in Nat
            BY <1>1, <1>3, <1>7, <2>4, <2>5, <2>7, <3>1 DEF k
        <3>3. stack' = Append(stack, p.node)
            BY <1>13
        <3>4. FirstWalk(tree, Root, below, Further(at, Len(stack), p),
                        Pushed(cur, Len(stack), Behind(tree, p), Inside(tree, p)),
                        stack', meta', nodes')
            BY ONLY <3>2, <3>3, WalkPush, ZenonT(60)
        <3> QED BY <3>4 DEF k
    <2> HIDE DEF top, next
    <2>10. stack' = Append(stack, p.node) /\ Len(stack') = k + 1
        BY <1>13 DEF TypeOK, k
    <2>11. StatusLeft(tree, Pushed(cur, k, Behind(tree, p), Inside(tree, p)), Len(stack'),
                      TreeStatus(tree, Root))
        BY <1>9, <1>13, <2>10
    <2>12. pc' = "metadata" /\ UNCHANGED <<ret, call, output, failed>>
        BY <1>2, <1>13
    <2> QED BY <1>1, <1>2, <1>7, <2>8, <2>9, <2>10, <2>11, <2>12, StaysInMetadata
<1> QED BY <1>10, <1>11, <1>12, <1>13

LEMMA MetadataPopKeeps ==
    ASSUME TypeOK, NEW tree, NEW below, NEW height, NEW base,
           CallInv(tree, below, height, base), MetadataPop
    PROVE  CallInv(tree, below, height, base)'
<1> DEFINE k == Len(stack)
<1>1. PICK cur, at :
          /\ Walking(below, height, cur, stack, meta)
          /\ FirstWalk(tree, Root, below, at, cur, stack, meta, nodes)
          /\ StatusLeft(tree, cur, k, TreeStatus(tree, Root))
          /\ Frame(tree, below, height, base)
          /\ call.notNull /\ tree[call.root].type = "Set"
          /\ VerdictOn(tree) = TreeStatus(tree, Root)
    BY InFirstWalk DEF MetadataPop
<1>2. pc = "metadata" /\ stack # <<>> /\ Child = NULL
    BY DEF MetadataPop, AtEnd
<1> DEFINE p == cur[k]
<1>3. /\ WalkContext(tree, Root, below, height, cur, stack, meta, p)
      /\ Root \in Places \ Ends /\ p \in Ends
    BY <1>1, <1>2, ChildPlace
<1>4. /\ tree \in TreeType /\ WellBuilt(tree) /\ NoCycle(tree)
      /\ Family(tree, Root, below, height) /\ Reflagged(tree, below, nodes)
    BY <1>1 DEF Frame, WellBuilt
<1>5. /\ k \in Nat \ {0} /\ k \in 1 .. k /\ cur \in [1 .. k -> below \cup Ends]
      /\ \A j \in 1 .. k : stack[j] \in Nodes
      /\ \A i, j \in 1 .. k : i # j => stack[i] # stack[j]
      /\ below \cup {Root} \subseteq Places \ Ends
    BY <1>3, WalkFacts
<1> HIDE DEF p, k
<1>6. /\ meta' = MetadataPopped(meta) /\ stack' = Pop(stack)
      /\ pc' = "metadata" /\ UNCHANGED <<ret, call, nodes, output, failed>>
    BY <1>2 DEF MetadataPop
<1>7. /\ \A n \in Nodes : n # stack[k] /\ (k > 1 => n # stack[k - 1]) => meta'[n] = meta[n]
      /\ meta'[stack[k]].sequenceNumber = meta[stack[k]].sequenceNumber
      /\ meta'[stack[k]].vSize = meta[stack[k]].vSize
      /\ k > 1 =>
            meta'[stack[k - 1]] =
                [meta[stack[k - 1]] EXCEPT !.vSize =
                    @ + (meta[stack[k]].sflSize
                             + bejNnintEncodingSizeOfUInt(meta[stack[k]].vSize))
                      + meta[stack[k]].vSize]
    BY <1>2, <1>5, <1>6, PopChanges DEF k
<1>8. \A j \in 1 .. k : meta[stack[j]] \in MetaType /\ meta[stack[j]].vSize \in Nat
    BY <1>5 DEF TypeOK, MetaType
<1>9. k > 1 =>
          /\ Cursor(meta'[stack[k - 1]]) = Cursor(meta[stack[k - 1]])
          /\ meta'[stack[k - 1]].nextChild = meta[stack[k - 1]].nextChild
          /\ meta'[stack[k - 1]].sequenceNumber = meta[stack[k - 1]].sequenceNumber
          /\ meta'[stack[k - 1]].sflSize = meta[stack[k - 1]].sflSize
          /\ meta'[stack[k - 1]].vSize =
                 meta[stack[k - 1]].vSize
                     + (meta[stack[k]].sflSize + bejNnintEncodingSizeOfUInt(meta[stack[k]].vSize))
                     + meta[stack[k]].vSize
    <2> SUFFICES ASSUME k > 1
                 PROVE  /\ Cursor(meta'[stack[k - 1]]) = Cursor(meta[stack[k - 1]])
                        /\ meta'[stack[k - 1]].nextChild = meta[stack[k - 1]].nextChild
                        /\ meta'[stack[k - 1]].sequenceNumber = meta[stack[k - 1]].sequenceNumber
                        /\ meta'[stack[k - 1]].sflSize = meta[stack[k - 1]].sflSize
                        /\ meta'[stack[k - 1]].vSize =
                               meta[stack[k - 1]].vSize
                                   + (meta[stack[k]].sflSize
                                          + bejNnintEncodingSizeOfUInt(meta[stack[k]].vSize))
                                   + meta[stack[k]].vSize
        OBVIOUS
    <2>1. PICK old \in MetaType : old = meta[stack[k - 1]]
        <3>1. k - 1 \in 1 .. k
            BY <1>5
        <3> QED BY <1>8, <3>1
    <2>2. PICK size : size = old.vSize
                                 + (meta[stack[k]].sflSize
                                        + bejNnintEncodingSizeOfUInt(meta[stack[k]].vSize))
                                 + meta[stack[k]].vSize
        OBVIOUS
    <2>3. meta'[stack[k - 1]] = [old EXCEPT !.vSize = size]
        BY <1>7, <2>1, <2>2
    <2>4. /\ meta'[stack[k - 1]].nextChild = old.nextChild
          /\ meta'[stack[k - 1]].nextChildIndex = old.nextChildIndex
          /\ meta'[stack[k - 1]].dictionary = old.dictionary
          /\ meta'[stack[k - 1]].childrenDictPropOffset = old.childrenDictPropOffset
          /\ meta'[stack[k - 1]].sequenceNumber = old.sequenceNumber
          /\ meta'[stack[k - 1]].sflSize = old.sflSize
          /\ meta'[stack[k - 1]].vSize = size
        BY <2>1, <2>3 DEF MetaType
    <2> QED BY <2>1, <2>2, <2>4 DEF Cursor
<1>10. /\ Walking(below, height, Popped(cur, k), stack', meta')
       /\ Len(stack') = k - 1
    <2>1. ASSUME NEW j \in 1 .. k, j # k
          PROVE  meta'[stack[j]].nextChild = meta[stack[j]].nextChild
        <3>1. k > 1 /\ k - 1 \in 1 .. k
            BY <1>5, <2>1
        <3>2. CASE j = k - 1
            BY <1>9, <3>1, <3>2
        <3>3. CASE j # k - 1
            BY <1>5, <1>7, <2>1, <3>1, <3>3
        <3> QED BY <3>2, <3>3
    <2>2. stack \in Seq(Nodes)
        BY DEF TypeOK
    <2>3. \A j \in 1 .. Len(stack) : j # Len(stack) =>
              meta'[stack[j]].nextChild = meta[stack[j]].nextChild
        BY <2>1 DEF k
    <2>4. /\ Walking(below, height, Popped(cur, Len(stack)), Pop(stack), meta')
          /\ Len(Pop(stack)) = Len(stack) - 1
        BY <1>1, <1>2, <1>3, <1>4, <2>2, <2>3, WalkingPop
    <2> QED BY <1>6, <2>4 DEF k
<1>11. FirstWalk(tree, Root, below, Popped(at, k), Popped(cur, k), stack', meta', nodes')
    <2>1. \A j \in 1 .. Len(stack) : meta[stack[j]].vSize \in Nat
        BY <1>8 DEF k
    <2>2. /\ \A n \in Nodes : n # stack[Len(stack)] /\ (Len(stack) > 1 => n # stack[Len(stack) - 1])
                => meta'[n] = meta[n]
          /\ meta'[stack[Len(stack)]].sequenceNumber = meta[stack[Len(stack)]].sequenceNumber
          /\ meta'[stack[Len(stack)]].vSize = meta[stack[Len(stack)]].vSize
        BY <1>7 DEF k
    <2>3. Len(stack) > 1 =>
              /\ Cursor(meta'[stack[Len(stack) - 1]]) = Cursor(meta[stack[Len(stack) - 1]])
              /\ meta'[stack[Len(stack) - 1]].sequenceNumber =
                     meta[stack[Len(stack) - 1]].sequenceNumber
              /\ meta'[stack[Len(stack) - 1]].sflSize = meta[stack[Len(stack) - 1]].sflSize
              /\ meta'[stack[Len(stack) - 1]].vSize =
                     meta[stack[Len(stack) - 1]].vSize
                         + (meta[stack[Len(stack)]].sflSize
                                + bejNnintEncodingSizeOfUInt(meta[stack[Len(stack)]].vSize))
                         + meta[stack[Len(stack)]].vSize
        BY <1>9 DEF k
    <2>4. FirstWalk(tree, Root, below, Popped(at, Len(stack)), Popped(cur, Len(stack)),
                    Pop(stack), meta', nodes)
        BY <1>1, <1>3, <2>1, <2>2, <2>3, WalkPop
    <2> QED BY <1>6, <2>4 DEF k
<1>12. StatusLeft(tree, Popped(cur, k), Len(stack'), TreeStatus(tree, Root))
    <2>1. p = cur[k] /\ below \subseteq Places \ Ends
        BY <1>5 DEF p
    <2>2. StatusAfter(tree, below, cur, k, p, TreeStatus(tree, Root))
        BY <1>1, <1>4, <1>5, <2>1, StatusGoesOn
    <2> QED BY <1>3, <1>10, <2>2 DEF StatusAfter
<1>13. Reflagged(tree, below, nodes')
    BY <1>4, <1>6
<1> QED BY <1>1, <1>2, <1>6, <1>10, <1>11, <1>12, <1>13, StaysInMetadata

LEMMA MetadataDoneKeeps ==
    ASSUME TypeOK, NEW tree, NEW below, NEW height, NEW base,
           CallInv(tree, below, height, base), MetadataDone
    PROVE  CallInv(tree, below, height, base)'
<1>1. PICK cur, at :
          /\ FirstWalk(tree, Root, below, at, cur, stack, meta, nodes)
          /\ StatusLeft(tree, cur, Len(stack), TreeStatus(tree, Root))
          /\ Frame(tree, below, height, base)
          /\ call.notNull /\ tree[call.root].type = "Set"
          /\ VerdictOn(tree) = TreeStatus(tree, Root)
    BY InFirstWalk DEF MetadataDone
<1>2. /\ pc = "metadata" /\ stack = <<>> /\ pc' = "header"
      /\ UNCHANGED <<ret, call, nodes, meta, stack, output, failed>>
    BY DEF MetadataDone
<1>3. VerdictOn(tree) = "OK"
    <2>1. IsChain(StatusStep(tree), EncoderStatuses, "OK", cur, 0, TreeStatus(tree, Root))
        BY <1>1, <1>2 DEF StatusLeft
    <2>2. "OK" \in EncoderStatuses
        BY DEF EncoderStatuses
    <2> QED BY <1>1, <2>1, <2>2, ChainZero
<1>4. AllReady(tree, Root, below, meta, nodes)
    BY <1>1, <1>2, WalkEnds
<1>5. Root' = Root /\ VerdictOn(tree)' = VerdictOn(tree)
    BY <1>2 DEF Root, VerdictOn
<1>6. Frame(tree, below, height, base)'
    BY <1>1, <1>2, <1>5 DEF Frame
<1>7. AllReady(tree, Root, below, meta, nodes)'
    BY <1>2, <1>4, <1>5
<1> QED BY <1>2, <1>3, <1>5, <1>6, <1>7 DEF CallInv

\* What bejEncode finds out about the root.
LEMMA CallVerdict ==
    ASSUME TypeOK, NEW tree \in TreeType
    PROVE  LET found == Found(tree, Root)
               status == IF ~call.notNull THEN "NullParameter"
                         ELSE IF tree[call.root].type # "Set" THEN "Unknown"
                         ELSE found.status
           IN  /\ status # "OK" => VerdictOn(tree) = status
               /\ status = "OK" =>
                     /\ call.notNull /\ tree[call.root].type = "Set" /\ found.status = "OK"
                     /\ TreeStatus(tree, Root) = StatusFrom(tree)[Inside(tree, Root)]
<1> DEFINE found == Found(tree, Root)
<1>1. Root.node = call.root
    BY RootPlace
<1>2. tree[call.root].type = "Set" => LeafStatus(tree[call.root], found) = found.status
    BY DEF LeafStatus
<1>3. tree[call.root].type = "Set" =>
          TreeStatus(tree, Root) = FirstFault(found.status, StatusFrom(tree)[Inside(tree, Root)])
    BY <1>1, <1>2 DEF TreeStatus, StatusAt
<1> HIDE DEF found
<1>4. /\ found.status # "OK" /\ tree[call.root].type = "Set" => TreeStatus(tree, Root) = found.status
      /\ found.status = "OK" /\ tree[call.root].type = "Set" =>
            TreeStatus(tree, Root) = StatusFrom(tree)[Inside(tree, Root)]
    BY <1>3 DEF FirstFault
<1> QED BY <1>4 DEF VerdictOn, found

LEMMA CallKeeps ==
    ASSUME TypeOK, NEW tree, NEW below, NEW height, NEW base,
           CallInv(tree, below, height, base), bejEncode
    PROVE  CallInv(tree, below, height, base)'
<1> DEFINE found == Found(tree, Root)
           status == IF ~call.notNull THEN "NullParameter"
                     ELSE IF tree[call.root].type # "Set" THEN "Unknown"
                     ELSE found.status
<1>1. pc = "call" /\ UNCHANGED <<call, nodes, output>>
    BY DEF bejEncode
<1>2. /\ Frame(tree, below, height, base) /\ nodes = tree /\ stack = <<>> /\ failed = FALSE
    BY <1>1 DEF CallInv
<1>3. /\ tree \in TreeType /\ WellBuilt(tree) /\ NoCycle(tree)
      /\ Family(tree, Root, below, height) /\ Reflagged(tree, below, nodes)
    BY <1>2 DEF Frame, WellBuilt
<1>4. /\ call.root \in Nodes /\ Root.node = call.root
      /\ Root \in Places \ Ends /\ Root.index = 0 /\ Root.dict = "Primary"
      /\ found = bejFindSeqNumAndChildDictOffset(
                     tree[call.root], "Primary", 0,
                     IF call.start = 0 THEN bejDictGetPropertyHeadOffset ELSE call.start)
    BY RootPlace
<1>5. /\ status # "OK" => VerdictOn(tree) = status
      /\ status = "OK" =>
            /\ call.notNull /\ tree[call.root].type = "Set" /\ found.status = "OK"
            /\ TreeStatus(tree, Root) = StatusFrom(tree)[Inside(tree, Root)]
    BY <1>3, CallVerdict
<1>6. \/ status # "OK" /\ Return(status) /\ UNCHANGED failed
      \/ /\ status = "OK" /\ meta' = ParentMetaData(meta, call.root, found)
         /\ \/ pc' = "metadata" /\ UNCHANGED ret /\ stack' = Append(stack, call.root)
                 /\ UNCHANGED failed
            \/ Return("Callback") /\ failed' = TRUE
    <2> HIDE DEF found
    <2> QED BY <1>2, <1>4 DEF bejEncode, StackPush
<1> HIDE DEF found, status
<1>7. Reflagged(tree, below, nodes')
    BY <1>1, <1>3
<1>8. CASE status # "OK" /\ Return(status) /\ UNCHANGED failed
    <2>1. pc' = "done" /\ ret' = VerdictOn(tree) /\ ret' # "OK" /\ failed' \in BOOLEAN
        BY <1>2, <1>5, <1>8 DEF Return
    <2> QED BY <1>1, <1>7, <2>1, FailsEarly
<1>9. CASE Return("Callback") /\ failed' = TRUE
    <2>1. pc' = "done" /\ ret' # "OK" /\ failed' \in BOOLEAN
        BY <1>9 DEF Return
    <2> QED BY <1>1, <1>7, <1>9, <2>1, FailsEarly
<1>10. CASE /\ status = "OK" /\ meta' = ParentMetaData(meta, call.root, found)
            /\ pc' = "metadata" /\ UNCHANGED ret /\ stack' = Append(stack, call.root)
            /\ UNCHANGED failed
    <2>1. stack' = << Root.node >> /\ Len(stack') = 1
        BY <1>2, <1>4, <1>10
    <2>2. /\ meta'[Root.node].sequenceNumber = SequenceNumber(found)
          /\ meta'[Root.node].sflSize =
                 bejNnintEncodingSizeOfUInt(SequenceNumber(found)) + TupleFSize
          /\ meta'[Root.node].vSize = CountSize(tree[Root.node])
          /\ meta'[Root.node].nextChild = tree[Root.node].firstChild
        <3>1. meta \in Metas /\ FoundType(found) /\ Root.node \in Nodes /\ nodes \in TreeType
            BY <1>2, <1>3, <1>4, NextPlaces DEF TypeOK, Metas, found
        <3> QED BY <1>2, <1>4, <1>10, <3>1, ParentChanges
    <2>3. bejTreeIsParentType(tree[Root.node])
        BY <1>4, <1>5, <1>10 DEF bejTreeIsParentType, ParentTypes
    <2>4. InParent(tree, Root, Inside(tree, Root), meta'[Root.node], nodes'[Root.node])
        <3>1. nodes'[Root.node] = FlaggedNode(tree, Root)
            BY <1>3, <1>4, <1>7, RootNotFlagged
        <3>2. Inside(tree, Root) = Cursor(meta'[Root.node])
            <4>1. /\ meta'[Root.node].dictionary = found.dict
                  /\ meta'[Root.node].childrenDictPropOffset = found.child
                  /\ meta'[Root.node].nextChildIndex = 0
                <5>1. meta \in Metas /\ FoundType(found) /\ Root.node \in Nodes /\ nodes \in TreeType
                    BY <1>2, <1>3, <1>4, NextPlaces DEF TypeOK, Metas, found
                <5> QED BY <1>2, <1>4, <1>10, <5>1, ParentChanges
            <4> QED BY <2>2, <2>3, <4>1 DEF Inside, Cursor, FirstChild, found
        <3> QED BY <2>2, <2>3, <3>1, <3>2 DEF InParent, found
    <2>5. Walking(below, height, One(Inside(tree, Root)), stack', meta')
        <3>1. meta'[Root.node].nextChild = FirstChild(tree, Root.node)
            BY <2>2, <2>3 DEF FirstChild
        <3> QED BY <1>3, <1>4, <2>1, <3>1, WalkingStart
    <2>6. FirstWalk(tree, Root, below, One(Root), One(Inside(tree, Root)), stack', meta', nodes')
        BY <1>3, <1>4, <2>1, <2>2, <2>4, WalkStart
    <2>7. StatusLeft(tree, One(Inside(tree, Root)), Len(stack'), TreeStatus(tree, Root))
        <3>1. Inside(tree, Root) \in Places
            BY <1>3, <1>4, NextPlaces
        <3>2. /\ StatusStep(tree) \in [Places -> [EncoderStatuses -> EncoderStatuses]]
              /\ StatusStep(tree)[Inside(tree, Root)]["OK"] =
                     FirstFault(StatusFrom(tree)[Inside(tree, Root)], "OK")
              /\ "OK" \in EncoderStatuses
            BY <1>3, <3>1, StatusStepType
        <3>3. FirstFault(StatusFrom(tree)[Inside(tree, Root)], "OK") = TreeStatus(tree, Root)
            BY <1>5, <1>10 DEF FirstFault
        <3>4. IsChain(StatusStep(tree), EncoderStatuses, "OK", One(Inside(tree, Root)), 1,
                      StatusStep(tree)[Inside(tree, Root)]["OK"])
            BY <3>1, <3>2, ChainOne
        <3> QED BY <2>1, <3>2, <3>3, <3>4 DEF StatusLeft
    <2>8. call.notNull /\ tree[call.root].type = "Set"
        BY <1>5, <1>10
    <2>9. UNCHANGED <<ret, call, output, failed>> /\ pc' = "metadata"
        BY <1>1, <1>10
    <2> QED BY <1>1, <1>7, <2>5, <2>6, <2>7, <2>8, <2>9, StaysInMetadata
<1> QED BY <1>6, <1>8, <1>9, <1>10
-----------------------------------------------------------------------------
(* The second walk.                                                          *)

\* What the second walk does to the metadata leaves a node ready.
SameReady(m, next) ==
    \A n \in Nodes : /\ next[n].sequenceNumber = m[n].sequenceNumber
                     /\ next[n].vSize = m[n].vSize
                     /\ next[n].enumValueSeq = m[n].enumValueSeq

LEMMA StaysReady ==
    ASSUME NEW tree \in TreeType, NEW root \in Places \ Ends, NEW below, NEW height,
           Family(tree, root, below, height), NEW m, NEW ns, AllReady(tree, root, below, m, ns),
           NEW next, SameReady(m, next)
    PROVE  AllReady(tree, root, below, next, ns)
<1> SUFFICES ASSUME NEW p \in below \cup {root} PROVE ReadyAt(tree, p, next, ns)
    BY DEF AllReady
<1>1. p.node \in Nodes
    BY FamilyFacts, PlaceParts
<1>2. ReadyAt(tree, p, m, ns)
    BY DEF AllReady
<1> QED BY <1>1, <1>2 DEF ReadyAt, Ready, SameReady

LEMMA CursorsReady ==
    ASSUME nodes \in TreeType, NEW m \in Metas, NEW parent \in Nodes, NEW child \in Nodes
    PROVE  /\ SameReady(m, m)
           /\ SameReady(m, bejParentGoToNextChild(m, parent, child))
           /\ SameReady(m, ResetCursor(m, child))
           /\ SameReady(m, bejParentGoToNextChild(ResetCursor(m, child), parent, child))
<1>1. SameReady(m, m)
    BY DEF SameReady
<1>2. ASSUME NEW q \in Metas
      PROVE  SameReady(q, bejParentGoToNextChild(q, parent, child))
    <2>1. ParentMoved(q, parent, nodes[child].sibling, bejParentGoToNextChild(q, parent, child))
        BY GoesOn
    <2> QED BY <2>1 DEF ParentMoved, SameReady
<1>3. ResetCursor(m, child) \in Metas /\ SameReady(m, ResetCursor(m, child))
    <2>1. LET next == ResetCursor(m, child)
          IN  /\ next \in Metas
              /\ \A n \in Nodes : n # child => next[n] = m[n]
              /\ next[child].sequenceNumber = m[child].sequenceNumber
              /\ next[child].vSize = m[child].vSize
              /\ next[child].enumValueSeq = m[child].enumValueSeq
        BY CursorReset
    <2> QED BY ONLY <2>1 DEF SameReady
<1>4. SameReady(m, bejParentGoToNextChild(ResetCursor(m, child), parent, child))
    <2>1. SameReady(ResetCursor(m, child),
                    bejParentGoToNextChild(ResetCursor(m, child), parent, child))
        BY <1>2, <1>3
    <2> QED BY <1>3, <2>1 DEF SameReady
<1> QED BY <1>1, <1>2, <1>3, <1>4

\* What is written for a node that is ready.
LEMMA ReadyPieces ==
    ASSUME TypeOK, NEW tree \in TreeType, WellBuilt(tree), NEW p \in Places \ Ends,
           ReadyAt(tree, p, meta, nodes)
    PROVE  LET pieces == bejEncodeNode(nodes[p.node], meta[p.node])
           IN  /\ pieces \in Encodings(tree) /\ pieces \in Seq(PieceType)
               /\ pieces \o TuplesFrom(tree)[Inside(tree, p)] =
                      TupleAt(tree, TuplesFrom(tree), p)
<1>1. p.node \in Nodes
    BY PlaceParts
<1>2. meta[p.node] \in MetaType /\ nodes[p.node] \in NodeType
    BY <1>1 DEF TypeOK, TreeType
<1>3. /\ Ready(tree, p, meta[p.node])
      /\ nodes[p.node] = [tree[p.node] EXCEPT !.ro = @ \/ Found(tree, p).again]
    BY DEF ReadyAt, FlaggedNode
<1>4. bejEncodeNode(nodes[p.node], meta[p.node]) \in Seq(PieceType)
    BY <1>2, NodePieces
<1> QED BY <1>2, <1>3, <1>4, NodeWritten

\* What is left to write after what pieces of the child that is next.
TuplesAfter(tree, below, cur, k, p, pieces, rest) ==
    LET F == below \cup Ends
    IN  /\ p \in Ends => TuplesLeft(tree, Popped(cur, k), k - 1, rest)
        /\ p \notin Ends =>
              \E left \in Encodings(tree) :
                 /\ rest = pieces \o left
                 /\ Inside(tree, p) \in Ends /\ Behind(tree, p) \in F =>
                       TuplesLeft(tree, Moved(cur, k, Behind(tree, p)), k, left)
                 /\ Inside(tree, p) \in F /\ Behind(tree, p) \in F =>
                       TuplesLeft(tree, Pushed(cur, k, Behind(tree, p), Inside(tree, p)),
                                  k + 1, left)

LEMMA TuplesGoOn ==
    ASSUME NEW tree \in TreeType, NoCycle(tree), NEW below, below \subseteq Places \ Ends,
           NEW k \in Nat \ {0}, NEW cur \in [1 .. k -> below \cup Ends], NEW rest,
           TuplesLeft(tree, cur, k, rest),
           NEW p, p = cur[k], NEW pieces \in Encodings(tree),
           p \notin Ends => pieces \o TuplesFrom(tree)[Inside(tree, p)] =
                                TupleAt(tree, TuplesFrom(tree), p)
    PROVE  TuplesAfter(tree, below, cur, k, p, pieces, rest)
<1> DEFINE step == TuplesStep(tree)
           E == Encodings(tree)
           F == below \cup Ends
           tuples == TuplesFrom(tree)
<1>1. /\ step \in [Places -> [E -> E]]
      /\ \A q \in Places, x \in E : step[q][x] = tuples[q] \o x
    BY TuplesStepType
<1>2. F \in SUBSET Places
    BY DEF Ends
<1>3. k \in 1 .. k /\ p \in F /\ p \in Places
    BY <1>2
<1>4. \E y \in E : /\ rest = step[p][y]
                   /\ \A q, r \in F : ChainGoesOn(step, E, <<>>, cur, k, y, q, r)
    <2> HIDE DEF step, F, E
    <2>1. cur \in [1 .. k -> F] /\ IsChain(step, E, <<>>, cur, k, rest)
        BY DEF F, step, E, TuplesLeft
    <2>2. \E y \in E : /\ rest = step[cur[k]][y]
                       /\ \A q, r \in F : ChainGoesOn(step, E, <<>>, cur, k, y, q, r)
        <3>1. k \in Nat \ {0} /\ step \in [Places -> [E -> E]] /\ F \in SUBSET Places
            BY <1>1, <1>2
        <3> QED BY ONLY <2>1, <3>1, ChainNext
    <2> QED BY <2>2
<1> HIDE DEF step, F
<1>5. PICK y \in E : /\ rest = step[p][y]
                     /\ \A q, r \in F : ChainGoesOn(step, E, <<>>, cur, k, y, q, r)
    BY <1>4
<1>6. rest = tuples[p] \o y
    BY <1>1, <1>3, <1>5
<1>6a. \A a, b, c \in E : Associates(a, b, c)
    BY EncodingsAssociate
<1>7. CASE p \in Ends
    <2>1. tuples[p] = <<>>
        BY <1>7, TuplesEquation
    <2>2. rest = y
        BY <1>6, <2>1 DEF Encodings
    <2>3. ChainGoesOn(step, E, <<>>, cur, k, y, p, p)
        BY <1>3, <1>5
    <2> QED BY <1>7, <2>2, <2>3 DEF ChainGoesOn, step, TuplesAfter, TuplesLeft
<1>8. CASE p \notin Ends
    <2> DEFINE q == Behind(tree, p)
               r == Inside(tree, p)
               later == tuples[q] \o y
               left == tuples[r] \o later
    <2>0. p \in Places \ Ends
        BY <1>3, <1>8
    <2>1. /\ tuples[p] \o y = TupleAt(tree, tuples, p) \o later
          /\ later \in E
        BY <2>0, TuplesOfPlace
    <2>2. q \in Places /\ r \in Places /\ tuples[r] \in E
        BY <2>0, NextPlaces, TuplesTyped
    <2>3. (pieces \o tuples[r]) \o later = pieces \o left
        <3>1. pieces \in E /\ tuples[r] \in E /\ later \in E
            BY <2>1, <2>2
        <3> HIDE DEF tuples, r, later
        <3>2. Associates(pieces, tuples[r], later)
            BY ONLY <1>6a, <3>1
        <3> QED BY ONLY <3>2 DEF Associates, left
    <2>4. rest = pieces \o left
        <3>1. pieces \o tuples[r] = TupleAt(tree, tuples, p)
            BY <1>8
        <3> HIDE DEF tuples, q, r, later, left
        <3> QED BY ONLY <1>6, <2>1, <2>3, <3>1
    <2>5. left \in E
        BY <2>1, <2>2, MeasureEncoding
    <2>6. step[q][y] = later /\ step[r][later] = left
        BY <1>1, <2>1, <2>2
    <2>7. r \in Ends => left = later
        <3> SUFFICES ASSUME r \in Ends PROVE left = later
            OBVIOUS
        <3>1. tuples[r] = <<>>
            BY TuplesEquation
        <3> QED BY <2>1, <3>1 DEF Encodings
    <2> HIDE DEF left, later, q, r, E
    <2>8. q \in F => /\ ChainGoesOn(step, E, <<>>, cur, k, y, q, q)
                     /\ r \in F => ChainGoesOn(step, E, <<>>, cur, k, y, q, r)
        BY <1>5
    <2>9. r \in Ends /\ q \in F => IsChain(step, E, <<>>, Moved(cur, k, q), k, left)
        BY <2>6, <2>7, <2>8 DEF ChainGoesOn
    <2>10. r \in F /\ q \in F => IsChain(step, E, <<>>, Pushed(cur, k, q, r), k + 1, left)
        BY <2>6, <2>8 DEF ChainGoesOn
    <2> QED BY <1>8, <2>4, <2>5, <2>9, <2>10 DEF step, E, F, q, r, TuplesAfter, TuplesLeft
<1> QED BY <1>7, <1>8

\* What is known in the second walk.
LEMMA InSecondWalk ==
    ASSUME TypeOK, NEW tree, NEW below, NEW height, NEW base,
           CallInv(tree, below, height, base), pc \in {"header", "root", "encode"}
    PROVE  /\ Frame(tree, below, height, base) /\ ret = "none"
           /\ tree \in TreeType /\ WellBuilt(tree) /\ NoCycle(tree)
           /\ Family(tree, Root, below, height)
           /\ AllReady(tree, Root, below, meta, nodes) /\ VerdictOn(tree) = "OK"
           /\ nodes \in TreeType /\ meta \in Metas /\ stack \in Seq(Nodes)
           /\ Root \in Places \ Ends /\ Root.node = call.root
BY RootPlace DEF CallInv, Frame, WellBuilt, TypeOK, Metas

\* A call that a callback has stopped in the second walk.
LEMMA FailsWriting ==
    ASSUME TypeOK, NEW tree, NEW below, NEW height, NEW base,
           CallInv(tree, below, height, base), pc \in {"header", "root", "encode"},
           pc' = "done", ret' = "Callback", failed' = TRUE, UNCHANGED <<call, nodes>>,
           NEW left \in Encodings(tree), Emits(tree, TRUE, output', left, Whole(tree, base))
    PROVE  CallInv(tree, below, height, base)'
<1>1. Frame(tree, below, height, base) /\ VerdictOn(tree) = "OK"
    BY InSecondWalk
<1>2. Root' = Root /\ VerdictOn(tree)' = VerdictOn(tree)
    BY DEF Root, VerdictOn
<1>3. Whole(tree, base)' = Whole(tree, base)
    BY <1>2 DEF Whole
<1>4. Frame(tree, below, height, base)'
    BY <1>1, <1>2 DEF Frame
<1>5. InDone(tree, base)'
    <2>1. \E rest \in Encodings(tree) : Emits(tree, failed', output', rest, Whole(tree, base))
        OBVIOUS
    <2> QED BY <1>1, <1>2, <1>3, <2>1 DEF InDone
<1> QED BY <1>4, <1>5 DEF CallInv

LEMMA PiecesInterrupted ==
    ASSUME NEW tree, NEW lossy \in BOOLEAN, NEW whole, NEW pieces \in Encodings(tree),
           NEW rest \in Encodings(tree), Emits(tree, lossy, output, pieces \o rest, whole),
           Interrupted(pieces)
    PROVE  /\ pc' = "done" /\ ret' = "Callback" /\ failed' = TRUE
           /\ \E left \in Encodings(tree) : Emits(tree, TRUE, output', left, whole)
<1>1. pc' = "done" /\ ret' = "Callback" /\ failed' = TRUE
    BY DEF Interrupted, Return
<1>2. PICK handed :
          /\ \E i \in DOMAIN pieces : handed = SubSeq(pieces, 1, i - 1)
          /\ \E sent \in {handed} \cup Shortened(handed) : output' = output \o sent
    BY DEF Interrupted
<1>3. PICK i \in DOMAIN pieces : handed = SubSeq(pieces, 1, i - 1)
    BY <1>2
<1>4. PICK sent \in {handed} \cup Shortened(handed) : output' = output \o sent
    BY <1>2
<1>5. \E left \in Encodings(tree) : Emits(tree, TRUE, output \o sent, left, whole)
    BY <1>3, EmitPart
<1> QED BY <1>1, <1>4, <1>5

\* A step that stays in the second walk.
LEMMA StaysInEncode ==
    ASSUME TypeOK, NEW tree, NEW below, NEW height, NEW base,
           CallInv(tree, below, height, base), pc \in {"root", "encode"},
           pc' = "encode", UNCHANGED <<ret, call, nodes>>, SameReady(meta, meta'),
           NEW cur, Walking(below, height, cur, stack', meta'),
           NEW left \in Encodings(tree), TuplesLeft(tree, cur, Len(stack'), left),
           Emits(tree, failed', output', left, Whole(tree, base))
    PROVE  CallInv(tree, below, height, base)'
<1>1. /\ Frame(tree, below, height, base) /\ VerdictOn(tree) = "OK" /\ ret = "none"
      /\ tree \in TreeType /\ Root \in Places \ Ends /\ Family(tree, Root, below, height)
      /\ AllReady(tree, Root, below, meta, nodes)
    BY InSecondWalk
<1>2. Root' = Root /\ VerdictOn(tree)' = VerdictOn(tree)
    BY DEF Root, VerdictOn
<1>3. Whole(tree, base)' = Whole(tree, base)
    BY <1>2 DEF Whole
<1>4. Frame(tree, below, height, base)'
    BY <1>1, <1>2 DEF Frame
<1>5. AllReady(tree, Root, below, meta, nodes)'
    <2>1. AllReady(tree, Root, below, meta', nodes)
        BY <1>1, StaysReady
    <2> QED BY <1>2, <2>1
<1>6. InEncode(tree, below, height, base)'
    BY <1>3 DEF InEncode
<1> QED BY <1>1, <1>2, <1>4, <1>5, <1>6 DEF CallInv

LEMMA HeaderKeeps ==
    ASSUME TypeOK, NEW tree, NEW below, NEW height, NEW base,
           CallInv(tree, below, height, base), EncodeHeader
    PROVE  CallInv(tree, below, height, base)'
<1>1. pc = "header" /\ UNCHANGED <<call, nodes, meta, stack>>
    BY DEF EncodeHeader
<1>2. /\ Frame(tree, below, height, base) /\ VerdictOn(tree) = "OK" /\ ret = "none"
      /\ AllReady(tree, Root, below, meta, nodes)
    BY <1>1, InSecondWalk
<1>3. output = base /\ failed = FALSE /\ stack = <<>>
    BY <1>1 DEF CallInv
<1> DEFINE rest == TreeEncoding(tree, Root)
<1>4. /\ rest \in Encodings(tree) /\ Header \in Encodings(tree)
      /\ Emits(tree, failed, output, Header \o rest, Whole(tree, base))
    BY <1>2, <1>3, EmitStart
<1>5. Root' = Root /\ VerdictOn(tree)' = VerdictOn(tree)
    BY <1>1 DEF Root, VerdictOn
<1>6. Whole(tree, base)' = Whole(tree, base) /\ rest' = rest
    BY <1>5 DEF Whole
<1> HIDE DEF rest
<1>7. CASE Received(Header) /\ pc' = "root" /\ UNCHANGED <<ret, failed>>
    <2>1. Emits(tree, failed, output \o Header, rest, Whole(tree, base))
        BY <1>3, <1>4, EmitAll
    <2>2. Emits(tree, FALSE, output', rest, Whole(tree, base))
        BY <1>3, <1>7, <2>1 DEF Received
    <2>3. Emits(tree, FALSE, output, TreeEncoding(tree, Root), Whole(tree, base))'
        BY <1>6, <2>2 DEF rest
    <2>4. Frame(tree, below, height, base)'
        BY <1>1, <1>2, <1>5 DEF Frame
    <2>5. AllReady(tree, Root, below, meta, nodes)'
        BY <1>1, <1>2, <1>5
    <2> QED BY <1>1, <1>2, <1>3, <1>5, <1>7, <2>3, <2>4, <2>5 DEF CallInv
<1>8. CASE Interrupted(Header)
    <2>1. /\ pc' = "done" /\ ret' = "Callback" /\ failed' = TRUE
          /\ \E left \in Encodings(tree) : Emits(tree, TRUE, output', left, Whole(tree, base))
        BY <1>3, <1>4, <1>8, PiecesInterrupted
    <2> QED BY <1>1, <2>1, FailsWriting
<1> QED BY <1>7, <1>8 DEF EncodeHeader

LEMMA RootKeeps ==
    ASSUME TypeOK, NEW tree, NEW below, NEW height, NEW base,
           CallInv(tree, below, height, base), EncodeRoot
    PROVE  CallInv(tree, below, height, base)'
<1> DEFINE pieces == bejEncodeNode(nodes[Root.node], meta[Root.node])
           left == TuplesFrom(tree)[Inside(tree, Root)]
<1>1. pc = "root" /\ UNCHANGED <<call, nodes>>
    BY DEF EncodeRoot
<1>2. /\ Frame(tree, below, height, base) /\ VerdictOn(tree) = "OK" /\ ret = "none"
      /\ tree \in TreeType /\ WellBuilt(tree) /\ NoCycle(tree)
      /\ Family(tree, Root, below, height) /\ AllReady(tree, Root, below, meta, nodes)
      /\ nodes \in TreeType /\ meta \in Metas
      /\ Root \in Places \ Ends /\ Root.node = call.root /\ Root.node \in Nodes
    BY <1>1, InSecondWalk, PlaceParts
<1>3. stack = <<>> /\ failed = FALSE
      /\ Emits(tree, FALSE, output, TreeEncoding(tree, Root), Whole(tree, base))
    BY <1>1 DEF CallInv
<1>4. /\ pieces \in Encodings(tree) /\ left \in Encodings(tree)
      /\ pieces \o left = TreeEncoding(tree, Root)
    <2>1. ReadyAt(tree, Root, meta, nodes)
        BY <1>2 DEF AllReady
    <2> QED BY <1>2, <2>1, ReadyPieces, TuplesTyped DEF TreeEncoding
<1>5. \/ /\ Received(pieces)
         /\ \/ /\ stack' = Append(stack, Root.node) /\ meta' = ResetCursor(meta, Root.node)
               /\ pc' = "encode" /\ UNCHANGED <<ret, failed>>
            \/ pc' = "done" /\ ret' = "Callback" /\ failed' = TRUE
      \/ Interrupted(pieces)
    BY <1>2 DEF EncodeRoot, bejPushParentToStack, StackPush, Return
<1> HIDE DEF pieces
<1>6. Emits(tree, FALSE, output, pieces \o left, Whole(tree, base))
    BY <1>3, <1>4
<1>7. /\ Emits(tree, FALSE, output \o pieces, left, Whole(tree, base))
      /\ Emits(tree, TRUE, output \o pieces, left, Whole(tree, base))
    <2> HIDE DEF left
    <2> QED BY <1>4, <1>6, EmitAll
<1>8. CASE Interrupted(pieces)
    <2>1. /\ pc' = "done" /\ ret' = "Callback" /\ failed' = TRUE
          /\ \E y \in Encodings(tree) : Emits(tree, TRUE, output', y, Whole(tree, base))
        <3> HIDE DEF left
        <3> QED BY <1>4, <1>6, <1>8, PiecesInterrupted
    <2> QED BY <1>1, <2>1, FailsWriting
<1>9. CASE Received(pieces) /\ pc' = "done" /\ ret' = "Callback" /\ failed' = TRUE
    <2>1. Emits(tree, TRUE, output', left, Whole(tree, base))
        BY <1>7, <1>9 DEF Received
    <2> HIDE DEF left
    <2> QED BY <1>1, <1>4, <1>9, <2>1, FailsWriting
<1>10. CASE /\ Received(pieces)
            /\ stack' = Append(stack, Root.node) /\ meta' = ResetCursor(meta, Root.node)
            /\ pc' = "encode" /\ UNCHANGED <<ret, failed>>
    <2>1. stack' = << Root.node >> /\ Len(stack') = 1
        BY <1>2, <1>3, <1>10
    <2>2. Emits(tree, failed', output', left, Whole(tree, base))
        BY <1>3, <1>7, <1>10 DEF Received
    <2>3. Walking(below, height, One(Inside(tree, Root)), stack', meta')
        <3>1. LET next == ResetCursor(meta, Root.node)
              IN  next[Root.node].nextChild = nodes[Root.node].firstChild
            BY <1>2, CursorReset
        <3>2. FirstChild(tree, Root.node) = tree[Root.node].firstChild
            <4>1. VerdictOn(tree) = "OK" => tree[call.root].type = "Set"
                BY DEF VerdictOn
            <4> QED BY <1>2, <4>1 DEF FirstChild, bejTreeIsParentType, ParentTypes
        <3>3. nodes[Root.node].firstChild = tree[Root.node].firstChild
            <4>1. Reflagged(tree, below, nodes)
                BY <1>2 DEF Frame
            <4> QED BY <1>2, <4>1, FoundWithFlags
        <3>4. meta'[Root.node].nextChild = FirstChild(tree, Root.node)
            BY <1>10, <3>1, <3>2, <3>3
        <3> QED BY <1>2, <2>1, <3>4, WalkingStart
    <2>4. SameReady(meta, meta')
        BY <1>2, <1>10, CursorsReady
    <2>5. TuplesLeft(tree, One(Inside(tree, Root)), Len(stack'), left)
        <3>1. Inside(tree, Root) \in Places
            BY <1>2, NextPlaces
        <3>2. /\ TuplesStep(tree) \in [Places -> [Encodings(tree) -> Encodings(tree)]]
              /\ TuplesStep(tree)[Inside(tree, Root)][<<>>] = left \o <<>>
              /\ <<>> \in Encodings(tree)
            BY <1>2, <3>1, TuplesStepType
        <3>3. left \o <<>> = left
            BY <1>4 DEF Encodings
        <3> HIDE DEF left
        <3>4. IsChain(TuplesStep(tree), Encodings(tree), <<>>, One(Inside(tree, Root)), 1,
                      TuplesStep(tree)[Inside(tree, Root)][<<>>])
            BY <3>1, <3>2, ChainOne
        <3> QED BY <2>1, <3>2, <3>3, <3>4 DEF TuplesLeft
    <2>6. UNCHANGED <<ret, call, nodes>> /\ pc' = "encode"
        BY <1>1, <1>10
    <2> HIDE DEF left
    <2> QED BY <1>1, <1>4, <2>2, <2>3, <2>4, <2>5, <2>6, StaysInEncode
<1> QED BY <1>5, <1>8, <1>9, <1>10
\* The child that is next in the second walk, at cur[Len(stack)]: what is written
\* for it, and left to write after it.
NextChild(tree, below, height, base, cur, left) ==
    LET k == Len(stack)
        p == cur[k]
        pieces == bejEncodeNode(nodes[Child], meta[Child])
    IN  /\ Walking(below, height, cur, stack, meta)
        /\ p \in below /\ p \in Places \ Ends /\ p.node = Child /\ Child \in Nodes
        /\ Top = stack[k] /\ Top \in Nodes /\ Top # Child
        /\ \A j \in 1 .. k : stack[j] \in Nodes /\ stack[j] # Child
        /\ \A i, j \in 1 .. k : i # j => stack[i] # stack[j]
        /\ k \in 1 .. k
        /\ bejTreeIsParentType(nodes[Child]) = bejTreeIsParentType(tree[p.node])
        /\ nodes[p.node].sibling = tree[p.node].sibling
        /\ nodes[p.node].firstChild = tree[p.node].firstChild
        /\ pieces \in Encodings(tree) /\ pieces \in Seq(PieceType)
        /\ left \in Encodings(tree)
        /\ Emits(tree, failed, output, pieces \o left, Whole(tree, base))
        /\ Inside(tree, p) \in below \cup Ends /\ Behind(tree, p) \in below \cup Ends
        /\ Inside(tree, p) \in Ends => TuplesLeft(tree, Moved(cur, k, Behind(tree, p)), k, left)
        /\ TuplesLeft(tree, Pushed(cur, k, Behind(tree, p), Inside(tree, p)), k + 1, left)

LEMMA NextChildIs ==
    ASSUME TypeOK, NEW tree, NEW below, NEW height, NEW base,
           CallInv(tree, below, height, base), pc = "encode", stack # <<>>, Child # NULL
    PROVE  \E cur, left : NextChild(tree, below, height, base, cur, left)
<1> DEFINE k == Len(stack)
<1>1. /\ Frame(tree, below, height, base)
      /\ tree \in TreeType /\ WellBuilt(tree) /\ NoCycle(tree)
      /\ Family(tree, Root, below, height) /\ AllReady(tree, Root, below, meta, nodes)
      /\ Root \in Places \ Ends
    BY InSecondWalk
<1>2. PICK cur, rest :
          /\ Walking(below, height, cur, stack, meta)
          /\ TuplesLeft(tree, cur, k, rest)
          /\ Emits(tree, failed, output, rest, Whole(tree, base))
    BY DEF CallInv, InEncode
<1> DEFINE p == cur[k]
           pieces == bejEncodeNode(nodes[p.node], meta[p.node])
<1>3. /\ WalkContext(tree, Root, below, height, cur, stack, meta, p)
      /\ p.node = Child /\ Top = stack[k] /\ Top \in Nodes /\ Top # Child
      /\ p \in below /\ p \in Places \ Ends /\ Child \in Nodes
      /\ bejTreeIsParentType(nodes[Child]) = bejTreeIsParentType(tree[p.node])
    BY <1>1, <1>2, ChildPlace
<1>4. /\ k \in Nat \ {0} /\ k \in 1 .. k /\ cur \in [1 .. k -> below \cup Ends]
      /\ \A j \in 1 .. k : stack[j] \in Nodes /\ stack[j] # p.node
      /\ \A i, j \in 1 .. k : i # j => stack[i] # stack[j]
      /\ below \subseteq Places \ Ends
    BY <1>3, WalkFacts
<1>5. Inside(tree, p) \in below \cup Ends /\ Behind(tree, p) \in below \cup Ends
    BY <1>1, <1>3, FamilyFacts
<1>6. /\ nodes[p.node].sibling = tree[p.node].sibling
      /\ nodes[p.node].firstChild = tree[p.node].firstChild
    <2>1. Reflagged(tree, below, nodes)
        BY <1>1 DEF Frame
    <2> QED BY <1>1, <1>3, <2>1, FoundWithFlags
<1>7. /\ pieces \in Encodings(tree) /\ pieces \in Seq(PieceType)
      /\ pieces \o TuplesFrom(tree)[Inside(tree, p)] = TupleAt(tree, TuplesFrom(tree), p)
    <2>1. ReadyAt(tree, p, meta, nodes)
        BY <1>1, <1>3 DEF AllReady
    <2> QED BY <1>1, <1>3, <2>1, ReadyPieces
<1> HIDE DEF pieces, p, k
<1>8. TuplesAfter(tree, below, cur, k, p, pieces, rest)
    <2>1. p = cur[k]
        BY DEF p
    <2> QED BY <1>1, <1>2, <1>4, <1>7, <2>1, TuplesGoOn
<1>9. PICK left \in Encodings(tree) :
          /\ rest = pieces \o left
          /\ Inside(tree, p) \in Ends => TuplesLeft(tree, Moved(cur, k, Behind(tree, p)), k, left)
          /\ TuplesLeft(tree, Pushed(cur, k, Behind(tree, p), Inside(tree, p)), k + 1, left)
    BY <1>3, <1>5, <1>8 DEF TuplesAfter
<1>10. Emits(tree, failed, output, pieces \o left, Whole(tree, base))
    BY <1>2, <1>9
<1>11. NextChild(tree, below, height, base, cur, left)
    <2>1. pieces = bejEncodeNode(nodes[Child], meta[Child])
        BY <1>3 DEF pieces
    <2> HIDE DEF pieces
    <2> QED BY <1>2, <1>3, <1>4, <1>5, <1>6, <1>7, <1>9, <1>10, <2>1 DEF NextChild, k, p
<1> QED BY <1>11

LEMMA EncodeParentKeeps ==
    ASSUME TypeOK, NEW tree, NEW below, NEW height, NEW base,
           CallInv(tree, below, height, base), EncodeParent
    PROVE  CallInv(tree, below, height, base)'
<1> DEFINE k == Len(stack)
           pieces == bejEncodeNode(nodes[Child], meta[Child])
<1>1. /\ pc = "encode" /\ UNCHANGED <<call, nodes>>
      /\ stack # <<>> /\ Child # NULL /\ bejTreeIsParentType(nodes[Child])
    BY DEF EncodeParent, AtParent
<1>2. /\ tree \in TreeType /\ Family(tree, Root, below, height)
      /\ nodes \in TreeType /\ meta \in Metas /\ Root \in Places \ Ends
      /\ stack \in Seq(Nodes) /\ failed \in BOOLEAN
    BY <1>1, InSecondWalk DEF TypeOK
<1>3. PICK cur, left : NextChild(tree, below, height, base, cur, left)
    BY <1>1, NextChildIs
<1> DEFINE p == cur[k]
<1>4. /\ Walking(below, height, cur, stack, meta)
      /\ p \in below /\ p.node = Child /\ Child \in Nodes
      /\ Top = stack[k] /\ Top \in Nodes /\ Top # Child
      /\ \A j \in 1 .. k : stack[j] \in Nodes /\ stack[j] # Child
      /\ \A i, j \in 1 .. k : i # j => stack[i] # stack[j]
      /\ k \in 1 .. k
      /\ bejTreeIsParentType(tree[p.node])
      /\ nodes[p.node].sibling = tree[p.node].sibling
      /\ nodes[p.node].firstChild = tree[p.node].firstChild
      /\ pieces \in Encodings(tree) /\ left \in Encodings(tree)
      /\ Emits(tree, failed, output, pieces \o left, Whole(tree, base))
      /\ TuplesLeft(tree, Pushed(cur, k, Behind(tree, p), Inside(tree, p)), k + 1, left)
    BY <1>1, <1>3 DEF NextChild
<1>5. \/ /\ Received(pieces)
         /\ \/ /\ stack' = Append(stack, Child)
               /\ meta' = bejParentGoToNextChild(ResetCursor(meta, Child), Top, Child)
               /\ pc' = "encode" /\ UNCHANGED <<ret, failed>>
            \/ pc' = "done" /\ ret' = "Callback" /\ failed' = TRUE
      \/ Interrupted(pieces)
    BY DEF EncodeParent, bejPushParentToStack, StackPush, Return
<1> HIDE DEF pieces, p, k
<1>6. /\ Emits(tree, failed, output \o pieces, left, Whole(tree, base))
      /\ Emits(tree, TRUE, output \o pieces, left, Whole(tree, base))
    BY <1>2, <1>4, EmitAll
<1>7. CASE Interrupted(pieces)
    <2>1. /\ pc' = "done" /\ ret' = "Callback" /\ failed' = TRUE
          /\ \E y \in Encodings(tree) : Emits(tree, TRUE, output', y, Whole(tree, base))
        BY <1>2, <1>4, <1>7, PiecesInterrupted
    <2> QED BY <1>1, <2>1, FailsWriting
<1>8. CASE Received(pieces) /\ pc' = "done" /\ ret' = "Callback" /\ failed' = TRUE
    <2>1. Emits(tree, TRUE, output', left, Whole(tree, base))
        BY <1>6, <1>8 DEF Received
    <2> QED BY <1>1, <1>4, <1>8, <2>1, FailsWriting
<1>9. CASE /\ Received(pieces)
           /\ stack' = Append(stack, Child)
           /\ meta' = bejParentGoToNextChild(ResetCursor(meta, Child), Top, Child)
           /\ pc' = "encode" /\ UNCHANGED <<ret, failed>>
    <2>1. Emits(tree, failed', output', left, Whole(tree, base))
        BY <1>6, <1>9 DEF Received
    <2>2. SameReady(meta, meta')
        BY <1>2, <1>4, <1>9, CursorsReady
    <2> DEFINE reset == ResetCursor(meta, Child)
    <2>3. /\ reset \in Metas
          /\ \A n \in Nodes : n # Child => reset[n] = meta[n]
          /\ reset[Child].nextChild = nodes[Child].firstChild
        BY <1>2, <1>4, CursorReset
    <2> HIDE DEF reset
    <2>4. ParentMoved(reset, Top, nodes[Child].sibling, meta')
        <3>1. meta' = bejParentGoToNextChild(reset, Top, Child)
            BY <1>9 DEF reset
        <3> QED BY <1>2, <1>4, <2>3, <3>1, GoesOn
    <2>5. /\ \A n \in Nodes : n # Child /\ n # Top => meta'[n] = meta[n]
          /\ meta'[Child].nextChild = nodes[Child].firstChild
          /\ meta'[Top].nextChild = nodes[Child].sibling
        BY <1>4, <2>3, <2>4 DEF ParentMoved
    <2>6. Walking(below, height, Pushed(cur, k, Behind(tree, p), Inside(tree, p)), stack', meta')
        <3>1. FirstChild(tree, p.node) = tree[p.node].firstChild
            BY <1>4 DEF FirstChild
        <3>2. \A j \in 1 .. Len(stack) : j # Len(stack) =>
                  meta'[stack[j]].nextChild = meta[stack[j]].nextChild
            BY <1>4, <2>5 DEF k
        <3>3. /\ meta'[stack[Len(stack)]].nextChild = tree[p.node].sibling
              /\ meta'[p.node].nextChild = FirstChild(tree, p.node)
            BY <1>4, <2>5, <3>1 DEF k
        <3>4. p = cur[Len(stack)]
            BY DEF p, k
        <3>5. Walking(below, height, Pushed(cur, Len(stack), Behind(tree, p), Inside(tree, p)),
                      Append(stack, p.node), meta')
            BY <1>1, <1>2, <1>4, <3>2, <3>3, <3>4, WalkingPush
        <3> QED BY <1>4, <1>9, <3>5 DEF k
    <2>7. Len(stack') = k + 1
        BY <1>2, <1>9 DEF k
    <2>8. TuplesLeft(tree, Pushed(cur, k, Behind(tree, p), Inside(tree, p)), Len(stack'), left)
        BY <1>4, <2>7
    <2>9. UNCHANGED <<ret, call, nodes>> /\ pc' = "encode"
        BY <1>1, <1>9
    <2> QED BY <1>1, <1>4, <2>1, <2>2, <2>6, <2>8, <2>9, StaysInEncode
<1> QED BY <1>5, <1>7, <1>8, <1>9

LEMMA PiecesTruncated ==
    ASSUME NEW tree, NEW lossy \in BOOLEAN, NEW whole, NEW pieces \in Encodings(tree),
           NEW rest \in Encodings(tree), Emits(tree, lossy, output, pieces \o rest, whole),
           Truncated(pieces)
    PROVE  failed' = TRUE /\ Emits(tree, TRUE, output', rest, whole)
<1>1. PICK sent \in Shortened(pieces) : output' = output \o sent
    BY DEF Truncated
<1>2. sent \in WithoutIntegers(pieces)
    BY ShortenedLost
<1>3. Emits(tree, TRUE, output \o sent, rest, whole)
    BY <1>2, EmitLossy
<1> QED BY <1>1, <1>3 DEF Truncated

LEMMA EncodeLeafKeeps ==
    ASSUME TypeOK, NEW tree, NEW below, NEW height, NEW base,
           CallInv(tree, below, height, base), EncodeLeaf
    PROVE  CallInv(tree, below, height, base)'
<1> DEFINE k == Len(stack)
           pieces == bejEncodeNode(nodes[Child], meta[Child])
<1>1. /\ pc = "encode" /\ UNCHANGED <<call, nodes, stack>>
      /\ stack # <<>> /\ Child # NULL /\ ~bejTreeIsParentType(nodes[Child])
    BY DEF EncodeLeaf, AtLeaf
<1>2. /\ tree \in TreeType /\ Family(tree, Root, below, height)
      /\ nodes \in TreeType /\ meta \in Metas /\ Root \in Places \ Ends
      /\ stack \in Seq(Nodes) /\ failed \in BOOLEAN /\ output \in Seq(PieceType)
    BY <1>1, InSecondWalk DEF TypeOK
<1>3. PICK cur, left : NextChild(tree, below, height, base, cur, left)
    BY <1>1, NextChildIs
<1> DEFINE p == cur[k]
<1>4. /\ Walking(below, height, cur, stack, meta)
      /\ p \in below /\ p \in Places \ Ends /\ p.node = Child /\ Child \in Nodes
      /\ Top = stack[k] /\ Top \in Nodes /\ Top # Child
      /\ \A j \in 1 .. k : stack[j] \in Nodes /\ stack[j] # Child
      /\ \A i, j \in 1 .. k : i # j => stack[i] # stack[j]
      /\ k \in 1 .. k
      /\ ~bejTreeIsParentType(tree[p.node])
      /\ nodes[p.node].sibling = tree[p.node].sibling
      /\ pieces \in Encodings(tree) /\ pieces \in Seq(PieceType) /\ left \in Encodings(tree)
      /\ Emits(tree, failed, output, pieces \o left, Whole(tree, base))
      /\ Inside(tree, p) \in Ends => TuplesLeft(tree, Moved(cur, k, Behind(tree, p)), k, left)
    BY <1>1, <1>3 DEF NextChild
<1>5. TuplesLeft(tree, Moved(cur, k, Behind(tree, p)), k, left)
    <2>1. FirstChild(tree, p.node) = NULL
        BY <1>4 DEF FirstChild
    <2>2. Inside(tree, p) \in Ends
        BY <1>2, <1>4, <2>1, NextPlaces DEF Ends
    <2> QED BY <1>4, <2>2
<1>6. \/ /\ \/ Received(pieces) /\ UNCHANGED failed
            \/ Truncated(pieces)
         /\ meta' = bejParentGoToNextChild(meta, Top, Child)
         /\ UNCHANGED <<pc, ret>>
      \/ Interrupted(pieces)
    BY DEF EncodeLeaf
<1> HIDE DEF pieces, p, k
<1>7. CASE Interrupted(pieces)
    <2>1. /\ pc' = "done" /\ ret' = "Callback" /\ failed' = TRUE
          /\ \E y \in Encodings(tree) : Emits(tree, TRUE, output', y, Whole(tree, base))
        BY <1>2, <1>4, <1>7, PiecesInterrupted
    <2> QED BY <1>1, <2>1, FailsWriting
<1>8. CASE /\ (Received(pieces) /\ UNCHANGED failed) \/ Truncated(pieces)
           /\ meta' = bejParentGoToNextChild(meta, Top, Child)
           /\ UNCHANGED <<pc, ret>>
    <2>1. Emits(tree, failed', output', left, Whole(tree, base))
        <3>1. CASE Received(pieces) /\ UNCHANGED failed
            <4>1. Emits(tree, failed, output \o pieces, left, Whole(tree, base))
                BY <1>2, <1>4, EmitAll
            <4> QED BY <3>1, <4>1 DEF Received
        <3>2. CASE Truncated(pieces)
            BY <1>2, <1>4, <3>2, PiecesTruncated
        <3> QED BY <1>8, <3>1, <3>2
    <2>2. SameReady(meta, meta')
        BY <1>2, <1>4, <1>8, CursorsReady
    <2>3. ParentMoved(meta, Top, nodes[Child].sibling, meta')
        BY <1>2, <1>4, <1>8, GoesOn
    <2>4. Walking(below, height, Moved(cur, k, Behind(tree, p)), stack', meta')
        <3>1. \A j \in 1 .. Len(stack) : j # Len(stack) =>
                  meta'[stack[j]].nextChild = meta[stack[j]].nextChild
            BY <1>4, <2>3 DEF k, ParentMoved
        <3>2. meta'[stack[Len(stack)]].nextChild = tree[p.node].sibling
            BY <1>4, <2>3 DEF k, ParentMoved
        <3>3. p = cur[Len(stack)]
            BY DEF p, k
        <3>4. Walking(below, height, Moved(cur, Len(stack), Behind(tree, p)), stack, meta')
            BY <1>1, <1>2, <1>4, <3>1, <3>2, <3>3, WalkingMove
        <3> QED BY <1>1, <3>4 DEF k
    <2>5. TuplesLeft(tree, Moved(cur, k, Behind(tree, p)), Len(stack'), left)
        BY <1>1, <1>5 DEF k
    <2>6. UNCHANGED <<ret, call, nodes>> /\ pc' = "encode"
        BY <1>1, <1>8
    <2> QED BY <1>1, <1>4, <2>1, <2>2, <2>4, <2>5, <2>6, StaysInEncode
<1> QED BY <1>6, <1>7, <1>8

LEMMA EncodePopKeeps ==
    ASSUME TypeOK, NEW tree, NEW below, NEW height, NEW base,
           CallInv(tree, below, height, base), EncodePop
    PROVE  CallInv(tree, below, height, base)'
<1> DEFINE k == Len(stack)
<1>1. /\ pc = "encode" /\ stack # <<>> /\ Child = NULL /\ stack' = Pop(stack)
      /\ UNCHANGED <<pc, ret, call, nodes, meta, output, failed>>
    BY DEF EncodePop, AtEnd
<1>2. /\ Frame(tree, below, height, base)
      /\ tree \in TreeType /\ WellBuilt(tree) /\ NoCycle(tree)
      /\ Family(tree, Root, below, height) /\ stack \in Seq(Nodes)
      /\ nodes \in TreeType /\ meta \in Metas /\ Root \in Places \ Ends
    BY <1>1, InSecondWalk
<1>3. PICK cur, rest :
          /\ Walking(below, height, cur, stack, meta)
          /\ rest \in Encodings(tree)
          /\ TuplesLeft(tree, cur, k, rest)
          /\ Emits(tree, failed, output, rest, Whole(tree, base))
    BY <1>1 DEF CallInv, InEncode
<1> DEFINE p == cur[k]
<1>4. WalkContext(tree, Root, below, height, cur, stack, meta, p) /\ p \in Ends
    BY <1>1, <1>2, <1>3, ChildPlace
<1>5. /\ k \in Nat \ {0} /\ cur \in [1 .. k -> below \cup Ends] /\ below \subseteq Places \ Ends
    BY <1>4, WalkFacts
<1> HIDE DEF p, k
<1>6. TuplesLeft(tree, Popped(cur, k), k - 1, rest)
    <2>1. p = cur[k] /\ <<>> \in Encodings(tree)
        BY <1>2, TuplesStepType DEF p
    <2>2. TuplesAfter(tree, below, cur, k, p, <<>>, rest)
        BY <1>2, <1>3, <1>4, <1>5, <2>1, TuplesGoOn
    <2> QED BY <1>4, <2>2 DEF TuplesAfter
<1>7. Walking(below, height, Popped(cur, k), stack', meta') /\ Len(stack') = k - 1
    <2>1. /\ Walking(below, height, Popped(cur, Len(stack)), Pop(stack), meta)
          /\ Len(Pop(stack)) = Len(stack) - 1
        BY <1>1, <1>2, <1>3, WalkingPop
    <2> QED BY <1>1, <2>1 DEF k
<1>8. SameReady(meta, meta')
    BY <1>1 DEF SameReady
<1>9. /\ TuplesLeft(tree, Popped(cur, k), Len(stack'), rest)
      /\ Emits(tree, failed', output', rest, Whole(tree, base))
      /\ UNCHANGED <<ret, call, nodes>> /\ pc' = "encode"
    BY <1>1, <1>3, <1>6, <1>7
<1> QED BY <1>1, <1>3, <1>7, <1>8, <1>9, StaysInEncode

LEMMA EncodeDoneKeeps ==
    ASSUME TypeOK, NEW tree, NEW below, NEW height, NEW base,
           CallInv(tree, below, height, base), EncodeDone
    PROVE  CallInv(tree, below, height, base)'
<1>1. /\ pc = "encode" /\ stack = <<>> /\ pc' = "done" /\ ret' = "OK"
      /\ UNCHANGED <<call, nodes, meta, stack, output, failed>>
    BY DEF EncodeDone, Return
<1>2. Frame(tree, below, height, base) /\ VerdictOn(tree) = "OK" /\ NoCycle(tree)
      /\ tree \in TreeType
    BY <1>1, InSecondWalk
<1>3. PICK cur, rest :
          /\ rest \in Encodings(tree)
          /\ TuplesLeft(tree, cur, Len(stack), rest)
          /\ Emits(tree, failed, output, rest, Whole(tree, base))
    BY <1>1 DEF CallInv, InEncode
<1>4. rest = <<>>
    <2>1. IsChain(TuplesStep(tree), Encodings(tree), <<>>, cur, 0, rest)
        BY <1>1, <1>3 DEF TuplesLeft
    <2>2. <<>> \in Encodings(tree)
        BY <1>2, TuplesStepType
    <2> QED BY <2>1, <2>2, ChainZero
<1>5. Root' = Root /\ VerdictOn(tree)' = VerdictOn(tree)
    BY <1>1 DEF Root, VerdictOn
<1>6. Whole(tree, base)' = Whole(tree, base)
    BY <1>5 DEF Whole
<1>7. Frame(tree, below, height, base)'
    BY <1>1, <1>2, <1>5 DEF Frame
<1>8. InDone(tree, base)'
    <2>1. Emits(tree, failed', output', rest, Whole(tree, base))
        BY <1>1, <1>3
    <2>2. \E left \in Encodings(tree) :
             /\ Emits(tree, failed', output', left, Whole(tree, base))
             /\ ret' = "OK" => left = <<>>
        BY <1>3, <1>4, <2>1
    <2> QED BY <1>1, <1>2, <1>5, <1>6, <2>2 DEF InDone
<1> QED BY <1>1, <1>7, <1>8 DEF CallInv

\* Every step of a call keeps the invariant.
LEMMA CallStepKeeps ==
    ASSUME TypeOK, NEW tree, NEW below, NEW height, NEW base,
           CallInv(tree, below, height, base), Next
    PROVE  CallInv(tree, below, height, base)'
BY CallKeeps, MetadataLeafKeeps, MetadataParentKeeps, MetadataPopKeeps, MetadataDoneKeeps,
   HeaderKeeps, RootKeeps, EncodeParentKeeps, EncodeLeafKeeps, EncodePopKeeps, EncodeDoneKeeps
   DEF Next

LEMMA CallStutters ==
    ASSUME TypeOK, NEW tree, NEW below, NEW height, NEW base,
           CallInv(tree, below, height, base), UNCHANGED vars
    PROVE  CallInv(tree, below, height, base)'
<1>1. UNCHANGED <<pc, ret, call, nodes, meta, stack, output, failed>>
    BY DEF vars
<1>2. Root' = Root /\ VerdictOn(tree)' = VerdictOn(tree) /\ Whole(tree, base)' = Whole(tree, base)
    BY <1>1 DEF Root, VerdictOn, Whole
<1>3. /\ Frame(tree, below, height, base)' = Frame(tree, below, height, base)
      /\ InMetadata(tree, below, height)' = InMetadata(tree, below, height)
      /\ AllReady(tree, Root, below, meta, nodes)' = AllReady(tree, Root, below, meta, nodes)
      /\ InEncode(tree, below, height, base)' = InEncode(tree, below, height, base)
      /\ InDone(tree, base)' = InDone(tree, base)
    BY <1>1, <1>2 DEF Frame, InMetadata, InEncode, InDone
<1> QED BY <1>1, <1>2, <1>3 DEF CallInv
-----------------------------------------------------------------------------
(* The flags of the nodes change nothing that the reference is defined by.   *)

\* Two trees of the same nodes that are linked in the same way.
SameStructure(tree, ns) ==
    \A n \in Nodes : /\ ns[n].sibling = tree[n].sibling /\ ns[n].firstChild = tree[n].firstChild
                     /\ ns[n].type = tree[n].type /\ ns[n].nChildren = tree[n].nChildren

LEMMA SameLinks ==
    ASSUME NEW tree \in TreeType, NEW below, NEW ns, Reflagged(tree, below, ns), NEW n \in Nodes
    PROVE  /\ ns[n].sibling = tree[n].sibling /\ ns[n].firstChild = tree[n].firstChild
           /\ ns[n].type = tree[n].type /\ ns[n].nChildren = tree[n].nChildren
           /\ ns[n].value = tree[n].value
           /\ bejTreeIsParentType(ns[n]) = bejTreeIsParentType(tree[n])
           /\ FirstChild(ns, n) = FirstChild(tree, n)
<1>1. ns[n] \in NodeType /\ tree[n] \in NodeType /\ ns[n] = [tree[n] EXCEPT !.ro = ns[n].ro]
    BY DEF Reflagged, TreeType
<1>2. PICK ro : ro = ns[n].ro
    OBVIOUS
<1>3. ns[n] = [tree[n] EXCEPT !.ro = ro]
    BY <1>1, <1>2
<1>4. /\ ns[n].type = tree[n].type /\ ns[n].value = tree[n].value
      /\ ns[n].sibling = tree[n].sibling /\ ns[n].firstChild = tree[n].firstChild
      /\ ns[n].nChildren = tree[n].nChildren
      /\ bejTreeIsParentType(ns[n]) = bejTreeIsParentType(tree[n])
    BY <1>1, <1>3, OnlyRo
<1> QED BY <1>4 DEF FirstChild

LEMMA SameCounts ==
    ASSUME NEW tree \in TreeType, NoCycle(tree), NEW ns \in TreeType, NoCycle(ns),
           \A n \in Nodes : ns[n].sibling = tree[n].sibling
    PROVE  \A n \in Pointers : SiblingCount(ns)[n] = SiblingCount(tree)[n]
<1> DEFINE S == {n \in Nodes : SiblingCount(ns)[n] # SiblingCount(tree)[n]}
<1>1. /\ SiblingCount(tree)[NULL] = 0 /\ SiblingCount(ns)[NULL] = 0
      /\ \A n \in Nodes : SiblingCount(tree)[n] = 1 + SiblingCount(tree)[tree[n].sibling]
      /\ \A n \in Nodes : SiblingCount(ns)[n] = 1 + SiblingCount(ns)[ns[n].sibling]
    BY CountEquation
<1>2. S = {}
    <2> SUFFICES ASSUME S # {} PROVE FALSE
        OBVIOUS
    <2>1. PICK n \in S : tree[n].sibling \notin S
        <3>1. S \in SUBSET Nodes
            OBVIOUS
        <3> HIDE DEF S
        <3> QED BY <3>1 DEF NoCycle
    <2>2. n \in Nodes /\ tree[n].sibling \in Pointers /\ ns[n].sibling = tree[n].sibling
        BY <2>1, LinkTypes
    <2>3. SiblingCount(ns)[tree[n].sibling] = SiblingCount(tree)[tree[n].sibling]
        BY <1>1, <2>1, <2>2 DEF Pointers
    <2> QED BY <1>1, <2>1, <2>2, <2>3
<1> QED BY <1>1, <1>2 DEF Pointers

LEMMA StructureKeepsWellBuilt ==
    ASSUME NEW tree \in TreeType, WellBuilt(tree), NEW ns \in TreeType, SameStructure(tree, ns),
           IntegersFit(ns)
    PROVE  WellBuilt(ns)
<1>1. \A n \in Nodes : /\ ns[n].sibling = tree[n].sibling /\ ns[n].firstChild = tree[n].firstChild
                       /\ ns[n].type = tree[n].type /\ ns[n].nChildren = tree[n].nChildren
                       /\ bejTreeIsParentType(ns[n]) = bejTreeIsParentType(tree[n])
                       /\ FirstChild(ns, n) = FirstChild(tree, n)
    BY DEF SameStructure, bejTreeIsParentType, FirstChild
<1>2. NoCycle(ns)
    <2> SUFFICES ASSUME NEW s \in SUBSET Nodes, s # {}
                 PROVE  \E n \in s : FirstChild(ns, n) \notin s /\ ns[n].sibling \notin s
        BY DEF NoCycle
    <2>1. PICK n \in s : FirstChild(tree, n) \notin s /\ tree[n].sibling \notin s
        BY DEF WellBuilt, NoCycle
    <2> QED BY <1>1, <2>1
<1>3. LinkedOnce(ns)
    BY <1>1 DEF WellBuilt, LinkedOnce
<1>4. ChildrenCounted(ns)
    <2>1. \A n \in Pointers : SiblingCount(ns)[n] = SiblingCount(tree)[n]
        BY <1>1, <1>2, SameCounts DEF WellBuilt
    <2>2. \A n \in Nodes : tree[n].firstChild \in Pointers
        BY LinkTypes
    <2> QED BY <1>1, <2>1, <2>2 DEF WellBuilt, ChildrenCounted
<1> QED BY <1>2, <1>3, <1>4 DEF WellBuilt

LEMMA FlagsKeepWellBuilt ==
    ASSUME NEW tree \in TreeType, WellBuilt(tree), NEW below, NEW ns, Reflagged(tree, below, ns)
    PROVE  WellBuilt(ns) /\ ns \in TreeType /\ SameStructure(tree, ns)
<1>1. \A n \in Nodes : /\ ns[n].sibling = tree[n].sibling /\ ns[n].firstChild = tree[n].firstChild
                       /\ ns[n].type = tree[n].type /\ ns[n].nChildren = tree[n].nChildren
                       /\ ns[n].value = tree[n].value
    BY SameLinks
<1>2. SameStructure(tree, ns)
    BY <1>1 DEF SameStructure
<1>3. IntegersFit(ns)
    BY <1>1 DEF WellBuilt, IntegersFit
<1> QED BY <1>2, <1>3, StructureKeepsWellBuilt DEF Reflagged

LEMMA SamePlaces ==
    ASSUME NEW tree \in TreeType, NEW below, NEW ns, Reflagged(tree, below, ns),
           NEW at \in Places \ Ends
    PROVE  /\ Found(ns, at) = Found(tree, at)
           /\ Inside(ns, at) = Inside(tree, at) /\ Behind(ns, at) = Behind(tree, at)
           /\ LeafStatus(ns[at.node], Found(ns, at)) = LeafStatus(tree[at.node], Found(tree, at))
<1>1. Found(ns, at) = Found(tree, at)
    BY FoundWithFlags DEF Found
<1>2. LeafStatus(ns[at.node], Found(tree, at)) = LeafStatus(tree[at.node], Found(tree, at))
    BY FoundWithFlags
<1>3. at.node \in Nodes
    BY PlaceParts
<1>4. FirstChild(ns, at.node) = FirstChild(tree, at.node)
      /\ ns[at.node].sibling = tree[at.node].sibling
    BY <1>3, SameLinks
<1> QED BY <1>1, <1>2, <1>4 DEF Inside, Behind

LEMMA SameStatus ==
    ASSUME NEW tree \in TreeType, NoCycle(tree), NEW below, NEW ns, Reflagged(tree, below, ns),
           NoCycle(ns), NEW root \in Places \ Ends
    PROVE  TreeStatus(ns, root) = TreeStatus(tree, root)
<1> DEFINE S == {at \in Places : StatusFrom(ns)[at] # StatusFrom(tree)[at]}
<1>0. ns \in TreeType
    BY DEF Reflagged
<1>1. S = {}
    <2> SUFFICES ASSUME S # {} PROVE FALSE
        OBVIOUS
    <2>1. PICK at \in S : \/ at \in Ends
                          \/ Inside(tree, at) \notin S /\ Behind(tree, at) \notin S
        <3>1. S \in SUBSET Places
            OBVIOUS
        <3> HIDE DEF S
        <3> QED BY <3>1, NodesLinked
    <2>2. at \in Places \ Ends
        <3>1. at \in Places /\ (at \in Ends => StatusFrom(ns)[at] = StatusFrom(tree)[at])
            BY <1>0, <2>1, StatusEquation
        <3> QED BY <2>1, <3>1
    <2>3. /\ StatusFrom(tree)[at] =
                 FirstFault(StatusAt(tree, StatusFrom(tree), at),
                            StatusFrom(tree)[Behind(tree, at)])
          /\ StatusFrom(ns)[at] =
                 FirstFault(StatusAt(ns, StatusFrom(ns), at), StatusFrom(ns)[Behind(ns, at)])
        BY <1>0, <2>2, StatusEquation
    <2>4. Inside(tree, at) \in Places /\ Behind(tree, at) \in Places
        BY <2>2, NextPlaces
    <2>5. /\ StatusFrom(ns)[Inside(tree, at)] = StatusFrom(tree)[Inside(tree, at)]
          /\ StatusFrom(ns)[Behind(tree, at)] = StatusFrom(tree)[Behind(tree, at)]
        BY <2>1, <2>2, <2>4
    <2>6. /\ Inside(ns, at) = Inside(tree, at) /\ Behind(ns, at) = Behind(tree, at)
          /\ LeafStatus(ns[at.node], Found(ns, at)) = LeafStatus(tree[at.node], Found(tree, at))
        BY <2>2, SamePlaces
    <2>7. StatusAt(ns, StatusFrom(ns), at) = StatusAt(tree, StatusFrom(tree), at)
        BY <2>5, <2>6 DEF StatusAt
    <2> QED BY <2>1, <2>3, <2>5, <2>6, <2>7
<1>2. /\ Inside(ns, root) = Inside(tree, root) /\ Inside(tree, root) \in Places
      /\ LeafStatus(ns[root.node], Found(ns, root)) = LeafStatus(tree[root.node], Found(tree, root))
    BY SamePlaces, NextPlaces
<1>3. StatusFrom(ns)[Inside(tree, root)] = StatusFrom(tree)[Inside(tree, root)]
    BY <1>1, <1>2
<1> QED BY <1>2, <1>3 DEF TreeStatus, StatusAt

LEMMA SameHead ==
    ASSUME NEW tree \in TreeType, NoCycle(tree), NEW below, NEW ns, Reflagged(tree, below, ns),
           NoCycle(ns), NEW at \in Places \ Ends
    PROVE  ValueHead(ns, at) = ValueHead(tree, at)
<1>1. at.node \in Nodes
    BY PlaceParts
<1>2. /\ tree[at.node] \in NodeType /\ ns[at.node] \in NodeType
      /\ ns[at.node] = [tree[at.node] EXCEPT !.ro = ns[at.node].ro]
    BY <1>1 DEF Reflagged, TreeType
<1> DEFINE old == tree[at.node]
           new == ns[at.node]
<1>3. PICK ro : ro = new.ro
    OBVIOUS
<1>4. new = [old EXCEPT !.ro = ro]
    BY <1>2, <1>3
<1> HIDE DEF old, new
<1>5. /\ new.type = old.type /\ new.value = old.value /\ new.firstChild = old.firstChild
      /\ \A found : OptionSeq(new, found) = OptionSeq(old, found)
      /\ \A option, size : EncodeValue(new, option, size) = EncodeValue(old, option, size)
    BY <1>2, <1>4, OnlyRo DEF old, new
<1>6. Found(ns, at) = Found(tree, at)
    BY SamePlaces
<1>7. SiblingCount(ns)[old.firstChild] = SiblingCount(tree)[old.firstChild]
    <2>1. SameStructure(tree, ns) /\ ns \in TreeType
        <3>1. ns \in TreeType
            BY DEF Reflagged
        <3>2. \A n \in Nodes : /\ ns[n].type = tree[n].type
                              /\ ns[n].firstChild = tree[n].firstChild
                              /\ ns[n].sibling = tree[n].sibling
                              /\ ns[n].nChildren = tree[n].nChildren
            BY SameLinks
        <3> QED BY <3>1, <3>2 DEF SameStructure
    <2>2. old.firstChild \in Pointers
        BY <1>1, LinkTypes DEF old
    <2> QED BY <2>1, <2>2, SameCounts DEF SameStructure
<1>8. ValueHead(tree, at) =
          CASE old.type \in {"Set", "Array"} -> bejEncodeNnint(SiblingCount(tree)[old.firstChild])
            [] old.type = "Enum" -> EncodeValue(old, OptionSeq(old, Found(tree, at)), 0)
            [] OTHER -> EncodeValue(old, 0, old.value.bytes)
    BY DEF ValueHead, old
<1>9. ValueHead(ns, at) =
          CASE new.type \in {"Set", "Array"} -> bejEncodeNnint(SiblingCount(ns)[new.firstChild])
            [] new.type = "Enum" -> EncodeValue(new, OptionSeq(new, Found(ns, at)), 0)
            [] OTHER -> EncodeValue(new, 0, new.value.bytes)
    BY DEF ValueHead, new
<1>10. EncodeValue(new, OptionSeq(new, Found(ns, at)), 0) =
           EncodeValue(old, OptionSeq(old, Found(tree, at)), 0)
    BY <1>5, <1>6
<1>11. EncodeValue(new, 0, new.value.bytes) = EncodeValue(old, 0, old.value.bytes)
    BY <1>5
<1> QED BY <1>5, <1>7, <1>8, <1>9, <1>10, <1>11

\* The flag a node is written with is that of the caller or that of the second
\* lookup, whether or not the lookup has been.
LEMMA SameFlag ==
    ASSUME NEW tree \in TreeType, NEW root \in Places \ Ends, NEW below, NEW height,
           Family(tree, root, below, height), NEW ns, Reflagged(tree, below, ns),
           NEW at \in below \cup {root}
    PROVE  FlaggedNode(ns, at) = FlaggedNode(tree, at)
<1>1. /\ at.node \in Nodes /\ at \in Places \ Ends
      /\ \A p \in below : p.node = at.node => p = at
    BY PlaceParts, FamilyFacts
<1>2. /\ tree[at.node] \in NodeType /\ ns[at.node] \in NodeType
      /\ ns[at.node] = [tree[at.node] EXCEPT !.ro = ns[at.node].ro]
    BY <1>1 DEF Reflagged, TreeType
<1> DEFINE old == tree[at.node]
           new == ns[at.node]
           again == Found(tree, at).again
<1>3. Found(ns, at).again = again
    BY <1>1, SamePlaces
<1>4. (new.ro \/ again) = (old.ro \/ again)
    <2>1. \/ new.ro = old.ro
          \/ new.ro = TRUE /\ again
        BY <1>1 DEF Reflagged
    <2> HIDE DEF new, old, again
    <2>2. CASE new.ro = old.ro
        BY <2>2
    <2>3. CASE new.ro = TRUE /\ again
        BY <2>3
    <2> QED BY <2>1, <2>2, <2>3
<1>5. FlaggedNode(ns, at) = [new EXCEPT !.ro = (new.ro \/ again)]
    BY <1>3 DEF FlaggedNode
<1>6. FlaggedNode(tree, at) = [old EXCEPT !.ro = (old.ro \/ again)]
    BY DEF FlaggedNode
<1>7. PICK x : x = (new.ro \/ again)
    OBVIOUS
<1>8. PICK ro : ro = new.ro
    OBVIOUS
<1>9. new = [old EXCEPT !.ro = ro] /\ old \in NodeType
    BY <1>2, <1>8
<1>10. FlaggedNode(ns, at) = [new EXCEPT !.ro = x]
    BY <1>5, <1>7
<1>11. FlaggedNode(tree, at) = [old EXCEPT !.ro = x]
    BY <1>4, <1>6, <1>7
<1> HIDE DEF new, old, again
<1>12. [new EXCEPT !.ro = x] = [old EXCEPT !.ro = x]
    BY ONLY <1>9 DEF NodeType
<1> QED BY <1>10, <1>11, <1>12

LEMMA SameTuple ==
    ASSUME NEW tree \in TreeType, NoCycle(tree), NEW root \in Places \ Ends, NEW below, NEW height,
           Family(tree, root, below, height), NEW ns, Reflagged(tree, below, ns), NoCycle(ns),
           NEW at \in below \cup {root},
           TuplesFrom(ns)[Inside(tree, at)] = TuplesFrom(tree)[Inside(tree, at)]
    PROVE  TreeEncoding(ns, at) = TreeEncoding(tree, at)
<1>1. at \in Places \ Ends
    BY FamilyFacts
<1>2. FlaggedNode(ns, at) = FlaggedNode(tree, at)
    BY SameFlag
<1>3. /\ Found(ns, at) = Found(tree, at) /\ Inside(ns, at) = Inside(tree, at)
      /\ ValueHead(ns, at) = ValueHead(tree, at)
    BY <1>1, SamePlaces, SameHead
<1> DEFINE inside == TuplesFrom(tree)[Inside(tree, at)]
<1>4. TreeEncoding(ns, at) = TupleOver(ns, at, inside)
    BY <1>3, TupleAtOver DEF TreeEncoding
<1>5. TreeEncoding(tree, at) = TupleOver(tree, at, inside)
    BY TupleAtOver DEF TreeEncoding
<1> HIDE DEF inside
<1> DEFINE value == ValueHead(tree, at) \o inside
<1>6. TupleOver(tree, at, inside) =
          EncodeSFL(FlaggedNode(tree, at), SequenceNumber(Found(tree, at)), Measure(value)) \o value
    BY DEF TupleOver, FlaggedNode
<1>7. TupleOver(ns, at, inside) =
          EncodeSFL(FlaggedNode(ns, at), SequenceNumber(Found(ns, at)), Measure(value)) \o value
    BY <1>3 DEF TupleOver, FlaggedNode
<1> QED BY <1>2, <1>3, <1>4, <1>5, <1>6, <1>7

LEMMA SameEncoding ==
    ASSUME NEW tree \in TreeType, NoCycle(tree), NEW root \in Places \ Ends, NEW below, NEW height,
           Family(tree, root, below, height), NEW ns, Reflagged(tree, below, ns), NoCycle(ns)
    PROVE  TreeEncoding(ns, root) = TreeEncoding(tree, root)
<1> DEFINE S == {at \in below \cup Ends : TuplesFrom(ns)[at] # TuplesFrom(tree)[at]}
<1>0. /\ ns \in TreeType
      /\ \A at \in below : at \in Places \ Ends
    BY FamilyFacts DEF Reflagged
<1>1. S = {}
    <2> SUFFICES ASSUME S # {} PROVE FALSE
        OBVIOUS
    <2>1. PICK at \in S : \/ at \in Ends
                          \/ Inside(tree, at) \notin S /\ Behind(tree, at) \notin S
        <3>1. S \in SUBSET Places
            BY <1>0 DEF Ends
        <3> HIDE DEF S
        <3> QED BY <3>1, NodesLinked
    <2>2. at \in below /\ at \in Places \ Ends
        <3>1. at \in Ends => TuplesFrom(ns)[at] = TuplesFrom(tree)[at]
            BY <1>0, TuplesEquation
        <3> QED BY <1>0, <2>1, <3>1
    <2>3. /\ TuplesFrom(tree)[at] = TreeEncoding(tree, at) \o TuplesFrom(tree)[Behind(tree, at)]
          /\ TuplesFrom(ns)[at] = TreeEncoding(ns, at) \o TuplesFrom(ns)[Behind(ns, at)]
        BY <1>0, <2>2, TuplesEquation DEF TreeEncoding
    <2>4. Inside(tree, at) \in below \cup Ends /\ Behind(tree, at) \in below \cup Ends
        BY <2>2, FamilyFacts
    <2>5. /\ TuplesFrom(ns)[Inside(tree, at)] = TuplesFrom(tree)[Inside(tree, at)]
          /\ TuplesFrom(ns)[Behind(tree, at)] = TuplesFrom(tree)[Behind(tree, at)]
        BY <2>1, <2>2, <2>4
    <2>6. Behind(ns, at) = Behind(tree, at)
        BY <2>2, SamePlaces
    <2>7. TreeEncoding(ns, at) = TreeEncoding(tree, at)
        BY <2>2, <2>5, SameTuple
    <2> QED BY <2>1, <2>3, <2>5, <2>6, <2>7
<1>2. Inside(tree, root) \in below \cup Ends
    BY DEF Family
<1>3. TuplesFrom(ns)[Inside(tree, root)] = TuplesFrom(tree)[Inside(tree, root)]
    BY <1>1, <1>2
<1> QED BY <1>3, SameTuple
-----------------------------------------------------------------------------
(* What follows for the nodes as they are.                                   *)

LEMMA SamePromise ==
    ASSUME TypeOK, NEW tree, NEW below, NEW height, NEW base,
           CallInv(tree, below, height, base)
    PROVE  Verdict = VerdictOn(tree) /\ Encoding = Header \o TreeEncoding(tree, Root)
<1>1. /\ tree \in TreeType /\ WellBuilt(tree) /\ NoCycle(tree)
      /\ Family(tree, Root, below, height) /\ Reflagged(tree, below, nodes)
    BY DEF CallInv, Frame, WellBuilt
<1>2. NoCycle(nodes)
    BY <1>1, FlagsKeepWellBuilt DEF WellBuilt
<1>3. Root \in Places \ Ends /\ call.root \in Nodes
    BY RootPlace
<1>4. TreeStatus(nodes, Root) = TreeStatus(tree, Root)
    BY <1>1, <1>2, <1>3, SameStatus
<1>5. TreeEncoding(nodes, Root) = TreeEncoding(tree, Root)
    BY <1>1, <1>2, <1>3, SameEncoding
<1>6. nodes[call.root].type = tree[call.root].type
    BY <1>1, <1>3, SameLinks
<1> QED BY <1>4, <1>5, <1>6 DEF Verdict, VerdictOn, Encoding

LEMMA PiecesAreEncodings ==
    ASSUME NEW tree, NEW s \in Seq(PieceType)
    PROVE  s \in Encodings(tree)
<1>1. PieceType \subseteq PiecesOf(Said(tree))
    BY DEF PieceType, PiecesOf, Said
<1> DEFINE P == PiecesOf(Said(tree))
<1> HIDE DEF P
<1>2. s \in Seq(P)
    BY <1>1 DEF P
<1> QED BY <1>2 DEF Encodings, P

\* A call starts with the nodes the caller has built.
LEMMA CallStarts ==
    TypeOK /\ WellBuilt(nodes) /\ pc = "call" /\ ret = "none" /\ stack = <<>> /\ failed = FALSE
        => \E below, height : CallInv(nodes, below, height, output)
<1> SUFFICES ASSUME TypeOK, WellBuilt(nodes), pc = "call", ret = "none", stack = <<>>,
                    failed = FALSE
             PROVE  \E below, height : CallInv(nodes, below, height, output)
    OBVIOUS
<1>1. nodes \in TreeType /\ output \in Encodings(nodes)
    BY PiecesAreEncodings DEF TypeOK
<1>2. PICK below, height : Family(nodes, Root, below, height)
    BY <1>1, RootPlace, FamilyExists
<1>3. Reflagged(nodes, below, nodes)
    <2>1. ASSUME NEW n \in Nodes
          PROVE  nodes[n] = [nodes[n] EXCEPT !.ro = nodes[n].ro]
        <3>1. nodes[n] \in NodeType
            BY <1>1 DEF TreeType
        <3> QED BY <3>1 DEF NodeType
    <2> QED BY <1>1, <2>1 DEF Reflagged
<1>4. Frame(nodes, below, height, output)
    BY <1>1, <1>2, <1>3 DEF Frame
<1>5. CallInv(nodes, below, height, output)
    BY <1>4 DEF CallInv
<1> QED BY <1>5

\* What has been written, with what is left, is the whole.
LEMMA EmitsPrefix ==
    ASSUME NEW tree, NEW lossy \in BOOLEAN, NEW written, NEW whole, NEW rest \in Encodings(tree),
           Emits(tree, lossy, written, rest, whole)
    PROVE  \E r \in IF lossy THEN WithoutIntegers(whole) ELSE {whole} :
              IsPrefix(written, r) /\ (rest = <<>> => written = r)
<1>1. PICK full \in Encodings(tree) :
          /\ full \o rest = whole
          /\ IF lossy THEN written \in WithoutIntegers(full) ELSE written = full
    BY DEF Emits
<1>2. written \in Encodings(tree)
    <2>1. \A left \in WithoutIntegers(full) : left \in Encodings(tree)
        BY LostType DEF Encodings
    <2> QED BY <1>1, <2>1
<1> DEFINE r == written \o rest
<1>3. r \in IF lossy THEN WithoutIntegers(whole) ELSE {whole}
    <2>1. CASE lossy
        <3>1. rest \in WithoutIntegers(rest)
            BY LostNothing DEF Encodings
        <3>2. written \in WithoutIntegers(full)
            BY <1>1, <2>1
        <3>3. r \in WithoutIntegers(full \o rest)
            BY <3>1, <3>2, LostJoined DEF Encodings
        <3> HIDE DEF r
        <3> QED BY <1>1, <2>1, <3>3
    <2>2. CASE ~lossy
        BY <1>1, <2>2
    <2> QED BY <2>1, <2>2
<1>4. IsPrefix(written, r)
    <2> DEFINE P == PiecesOf(Said(tree))
    <2>1. written \in Seq(P) /\ rest \in Seq(P)
        BY <1>2 DEF Encodings
    <2> HIDE DEF P
    <2>2. Len(written) <= Len(r)
        BY <2>1
    <2>3. SubSeq(written, 1, Len(written)) = SubSeq(r, 1, Len(written))
        BY <2>1
    <2> QED BY <2>2, <2>3 DEF IsPrefix
<1>5. rest = <<>> => written = r
    BY <1>2 DEF Encodings
<1> QED BY <1>3, <1>4, <1>5

\* Nothing has been written before this call.
LEMMA FromNothing ==
    ASSUME TypeOK, NEW tree, NEW below, NEW height, CallInv(tree, below, height, <<>>)
    PROVE  /\ Whole(tree, <<>>) = Encoding
           /\ Encoding \in Encodings(tree)
<1>1. Encoding = Header \o TreeEncoding(tree, Root)
    BY SamePromise
<1>2. Frame(tree, below, height, <<>>)
    BY DEF CallInv
<1>3. Header \o TreeEncoding(tree, Root) \in Encodings(tree)
    BY <1>2, EmitStart
<1> DEFINE full == Header \o TreeEncoding(tree, Root)
<1>4. Whole(tree, <<>>) = <<>> \o full
    BY DEF Whole
<1>5. full \in Encodings(tree)
    BY <1>3
<1> HIDE DEF full
<1>6. <<>> \o full = full
    BY <1>5 DEF Encodings
<1> QED BY <1>1, <1>4, <1>5, <1>6 DEF full

\* The invariant says what BejEncoderProperties asks for.
LEMMA CallPromises ==
    ASSUME TypeOK, NEW tree, NEW below, NEW height, CallInv(tree, below, height, <<>>)
    PROVE  EncodingIsExact /\ FirstErrorIsReturned /\ OutputIsPrefix
<1>1. Verdict = VerdictOn(tree) /\ Whole(tree, <<>>) = Encoding /\ Encoding \in Encodings(tree)
    BY SamePromise, FromNothing
<1>2. pc # "done" => ret = "none"
    BY DEF CallInv
<1>3. pc = "done" => InDone(tree, <<>>)
    BY DEF CallInv
<1>4. FirstErrorIsReturned
    BY <1>1, <1>3 DEF FirstErrorIsReturned, InDone
<1>5. Verdict # "OK" => output = <<>>
    <2>1. pc \in {"call", "metadata", "header", "root", "encode", "done"}
        BY DEF TypeOK
    <2>2. pc \in {"call", "metadata", "header"} => output = <<>>
        BY DEF CallInv
    <2>3. pc \in {"header", "root", "encode"} => VerdictOn(tree) = "OK"
        BY DEF CallInv
    <2> QED BY <1>1, <1>3, <2>1, <2>2, <2>3 DEF InDone
<1>6. Verdict = "OK" =>
          \E rest \in Encodings(tree) :
             /\ Emits(tree, failed, output, rest, Encoding)
             /\ ret = "OK" => rest = <<>>
    <2> SUFFICES ASSUME Verdict = "OK"
                 PROVE  \E rest \in Encodings(tree) :
                           /\ Emits(tree, failed, output, rest, Encoding)
                           /\ ret = "OK" => rest = <<>>
        OBVIOUS
    <2>0. failed \in BOOLEAN /\ Frame(tree, below, height, <<>>)
        BY DEF TypeOK, CallInv
    <2>1. CASE pc \in {"call", "metadata", "header"}
        <3>1. output = <<>> /\ ret # "OK"
            BY <1>2, <2>1 DEF CallInv
        <3>2. /\ Header \o TreeEncoding(tree, Root) \in Encodings(tree)
              /\ Emits(tree, failed, <<>>, Header \o TreeEncoding(tree, Root), Whole(tree, <<>>))
            BY <2>0, EmitStart
        <3> QED BY <1>1, <3>1, <3>2
    <2>2. CASE pc = "root"
        <3>1. /\ Emits(tree, FALSE, output, TreeEncoding(tree, Root), Whole(tree, <<>>))
              /\ failed = FALSE /\ ret # "OK"
            BY <1>2, <2>2 DEF CallInv
        <3>2. TreeEncoding(tree, Root) \in Encodings(tree)
            BY <2>0, EmitStart
        <3> QED BY <1>1, <3>1, <3>2
    <2>3. CASE pc = "encode"
        <3>1. \E rest \in Encodings(tree) : Emits(tree, failed, output, rest, Whole(tree, <<>>))
            BY <2>3 DEF CallInv, InEncode
        <3> QED BY <1>1, <1>2, <2>3, <3>1
    <2>4. CASE pc = "done"
        BY <1>1, <1>3, <2>4 DEF InDone
    <2> QED BY <2>1, <2>2, <2>3, <2>4 DEF TypeOK
<1>7. Verdict = "OK" =>
          \E r \in IF failed THEN WithoutIntegers(Encoding) ELSE {Encoding} :
             IF ret = "OK" THEN output = r ELSE IsPrefix(output, r)
    <2> SUFFICES ASSUME Verdict = "OK"
                 PROVE  \E r \in IF failed THEN WithoutIntegers(Encoding) ELSE {Encoding} :
                           IF ret = "OK" THEN output = r ELSE IsPrefix(output, r)
        OBVIOUS
    <2>1. PICK rest \in Encodings(tree) : /\ Emits(tree, failed, output, rest, Encoding)
                                          /\ ret = "OK" => rest = <<>>
        BY <1>6
    <2>2. failed \in BOOLEAN
        BY DEF TypeOK
    <2>3. \E r \in IF failed THEN WithoutIntegers(Encoding) ELSE {Encoding} :
              IsPrefix(output, r) /\ (rest = <<>> => output = r)
        BY <2>1, <2>2, EmitsPrefix
    <2> QED BY <2>1, <2>3
<1>8. OutputIsPrefix
    BY <1>5, <1>7 DEF OutputIsPrefix
<1>9. EncodingIsExact
    <2> SUFFICES ASSUME ret = "OK", ~failed PROVE output = Encoding
        BY DEF EncodingIsExact
    <2>1. Verdict = "OK"
        BY <1>1, <1>2, <1>3 DEF InDone
    <2> QED BY <1>7, <2>1
<1> QED BY <1>4, <1>8, <1>9

-----------------------------------------------------------------------------
(* The theorems about one call.                                              *)

\* The inductive invariant: the call stands at its place in the encoding of the
\* tree the caller has built.
EncodeInv == TypeOK /\ \E tree, below, height : CallInv(tree, below, height, <<>>)

LEMMA EncodeInvKept ==
    ASSUME EncodeInv, [Next]_vars
    PROVE  EncodeInv'
<1>1. PICK tree, below, height : CallInv(tree, below, height, <<>>)
    BY DEF EncodeInv
<1>2. TypeOK /\ TypeOK'
    BY NextTyped DEF EncodeInv
<1>3. CallInv(tree, below, height, <<>>)'
    BY <1>1, <1>2, CallStepKeeps, CallStutters
<1> QED BY <1>2, <1>3 DEF EncodeInv

LEMMA EncodeInvStarts ==
    ASSUME TypeOK, WellBuilt(nodes), output = <<>>,
           pc = "call", ret = "none", stack = <<>>, failed = FALSE
    PROVE  EncodeInv
<1>1. \E below, height : CallInv(nodes, below, height, output)
    BY CallStarts
<1> QED BY <1>1 DEF EncodeInv

\* It holds at every step of bejEncode: after each turn of bejUpdateNodeMetadata's
\* and of bejEncodeTree's walk, what is left to do for the parents on the stack
\* is the rest of what the recursion over the tree defines.
THEOREM EncodeInvHolds == Spec => []EncodeInv
<1>1. Init => EncodeInv
    <2> SUFFICES ASSUME Init PROVE EncodeInv
        OBVIOUS
    <2>1. TypeOK
        BY InitTyped
    <2>2. WellBuilt(nodes)
        BY TreesAssumption DEF Init
    <2> QED BY <2>1, <2>2, EncodeInvStarts DEF Init
<1>2. EncodeInv /\ [Next]_vars => EncodeInv'
    BY EncodeInvKept
<1> QED BY <1>1, <1>2, PTL DEF Spec

\* When bejEncode returns zero, what it has handed to recvOutput is the encoding
\* of the tree, for every well-built tree, every pair of dictionaries and
\* whatever the metadata of the nodes held before: every length the first walk
\* adds up is the number of bytes the second walk writes.
THEOREM EncodingIsExactHolds == Spec => []EncodingIsExact
<1>1. EncodeInv => EncodingIsExact
    BY CallPromises DEF EncodeInv
<1> QED BY <1>1, EncodeInvHolds, PTL

\* When no callback fails, bejEncode returns the status of the first node, in
\* the order they are written in, that cannot be encoded, and zero if all can.
THEOREM FirstErrorIsReturnedHolds == Spec => []FirstErrorIsReturned
<1>1. EncodeInv => FirstErrorIsReturned
    BY CallPromises DEF EncodeInv
<1> QED BY <1>1, EncodeInvHolds, PTL

\* At every step what has been written is a prefix of the encoding, also when a
\* callback has failed, but for the integers whose loss bejEncodeInteger has
\* not noticed (line 52); and nothing is written of a tree that cannot be
\* encoded.
THEOREM OutputIsPrefixHolds == Spec => []OutputIsPrefix
<1>1. EncodeInv => OutputIsPrefix
    BY CallPromises DEF EncodeInv
<1> QED BY <1>1, EncodeInvHolds, PTL

=============================================================================
