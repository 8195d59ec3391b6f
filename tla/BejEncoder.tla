----------------------------- MODULE BejEncoder -----------------------------
(***************************************************************************)
(* The BEJ encoder: one call of bejEncode (src/bej_encoder_core.c) on a    *)
(* tree, which it walks twice. The first walk (bejUpdateNodeMetadata,      *)
(* src/bej_encoder_metadata.c) computes the size of every value from the   *)
(* leaves up, because a set is written with its length before what is in   *)
(* it. The second walk (bejEncodeTree) writes.                             *)
(*                                                                         *)
(* Neither walk is recursive: both keep the parents they are in on the     *)
(* caller's stack of pointers, and in each parent a pointer to the child   *)
(* that is next. Stack and nodes are the caller's, and so is what they     *)
(* hold when the call begins.                                              *)
(***************************************************************************)
EXTENDS BejEncoding

CONSTANTS
    Trees,          \* the trees a caller may have built
    Calls,          \* the arguments it may pass
    Garbage,        \* what the metadata of nodes may hold before the first call
    StackMayFail,   \* whether stackPush may return a non-zero status
    OutputErrors    \* the non-zero statuses recvOutput may return

\* The metadata of a node; a leaf has no use for the children's part of it.
MetaType ==
    [sequenceNumber: Nat, sflSize: Nat, vSize: Nat, enumValueSeq: UInt16,
     childrenDictPropOffset: PropertyOffsets, nextChildIndex: UInt16,
     dictionary: SchemaTypes, nextChild: Pointers]

\* What is passed besides the nodes: whether every pointer is set, the root and
\* majorSchemaStartingOffset.
CallType == [notNull: BOOLEAN, root: Nodes, start: UInt16]

ASSUME CallerAssumption ==
    /\ Trees \subseteq TreeType
    /\ Calls \subseteq CallType
    /\ Garbage \subseteq MetaType
    /\ StackMayFail \in BOOLEAN
    /\ OutputErrors \subseteq Int \ {0}

VARIABLES
    pc,         \* where the call is
    ret,        \* what it returned, "none" until then
    call,       \* its arguments
    nodes,      \* the nodes of the caller
    meta,       \* their metaData
    stack,      \* the caller's stack, top last
    output,     \* what recvOutput has received
    failed      \* history: a callback has returned non-zero

vars == <<pc, ret, call, nodes, meta, stack, output, failed>>

PieceKinds == ParentTypes \cup LeafTypes \cup {"length", "number", "integer", "data"}

PieceType == [kind: PieceKinds, size: Nat, value: Nat]

EncoderStatuses ==
    {"OK", "Unknown", "UnknownProperty", "InvalidPropertyOffset",
     "NullParameter", "Callback"}

TypeOK ==
    /\ pc \in {"call", "metadata", "header", "root", "encode", "done"}
    /\ ret \in EncoderStatuses \cup {"none"}
    /\ call \in Calls
    /\ nodes \in TreeType
    /\ meta \in [Nodes -> MetaType]
    /\ stack \in Seq(Nodes)
    /\ output \in Seq(PieceType)
    /\ failed \in BOOLEAN

-----------------------------------------------------------------------------
(* The walks. *)

Top == stack[Len(stack)]
Pop(s) == SubSeq(s, 1, Len(s) - 1)

\* The parent on top of the stack has a child left to visit: a leaf, a parent.
Child == meta[Top].nextChild
AtLeaf == stack # <<>> /\ Child # NULL /\ ~bejTreeIsParentType(nodes[Child])
AtParent == stack # <<>> /\ Child # NULL /\ bejTreeIsParentType(nodes[Child])
AtEnd == stack # <<>> /\ Child = NULL

\* m after parent has gone on from its child; the index is a uint16_t.
bejParentGoToNextChild(m, parent, child) ==
    [m EXCEPT ![parent].nextChild = nodes[child].sibling,
              ![parent].nextChildIndex = (@ + 1) % IndexRange]

Return(status) == pc' = "done" /\ ret' = status

\* stack->stackPush: Then when it returns zero, Otherwise when it does not.
StackPush(node, Then, Otherwise) ==
    \/ stack' = Append(stack, node) /\ Then /\ UNCHANGED failed
    \/ StackMayFail /\ Otherwise /\ Return("Callback") /\ failed' = TRUE /\ UNCHANGED stack

-----------------------------------------------------------------------------
(* The first walk. *)

\* Bug: the index has moved on already.
FoundChildAfter ==
    bejFindSeqNumAndChildDictOffset(
        nodes[Child], meta[Top].dictionary, meta[Top].nextChildIndex - 1,
        meta[Top].childrenDictPropOffset)

\* The place of a child of the parent on top of the stack.
FoundChild ==
    bejFindSeqNumAndChildDictOffset(
        nodes[Child], meta[Top].dictionary, meta[Top].nextChildIndex,
        meta[Top].childrenDictPropOffset)

\* The flag a second lookup sets.
FlagNode(node, found) ==
    nodes' = IF found.again THEN bejTreeUpdateNodeFlags(nodes, node, TRUE) ELSE nodes

\* Bug: the cursor of a node that has been visited before is not reset.
ParentMetaDataKeepsCursor(m, node, found) ==
    [m EXCEPT ![node] =
        [@ EXCEPT !.sequenceNumber = SequenceNumber(found),
                  !.childrenDictPropOffset = found.child,
                  !.nextChildIndex = 0,
                  !.dictionary = found.dict,
                  !.vSize = CountSize(nodes[node]),
                  !.sflSize = bejNnintEncodingSizeOfUInt(SequenceNumber(found))
                                  + TupleFSize]]

\* m after bejUpdateParentMetaData of a node whose place has been found.
ParentMetaData(m, node, found) ==
    [m EXCEPT ![node] =
        [@ EXCEPT !.sequenceNumber = SequenceNumber(found),
                  !.childrenDictPropOffset = found.child,
                  !.nextChild = nodes[node].firstChild,
                  !.nextChildIndex = 0,
                  !.dictionary = found.dict,
                  !.vSize = CountSize(nodes[node]),
                  !.sflSize = bejNnintEncodingSizeOfUInt(SequenceNumber(found))
                                  + TupleFSize]]

\* Bug: the header is written before it is known that the tree can be encoded.
EncodeHeaderFirst ==
    /\ pc = "call"
    /\ LET start == IF call.start = 0 THEN bejDictGetPropertyHeadOffset ELSE call.start
           found == bejFindSeqNumAndChildDictOffset(nodes[call.root], "Primary", 0, start)
       IN  /\ found.status = "OK"
           /\ meta' = ParentMetaData(meta, call.root, found)
           /\ StackPush(call.root, pc' = "metadata" /\ UNCHANGED ret, TRUE)
    /\ output' = output \o Header
    /\ UNCHANGED <<call, nodes>>

\* bejEncode up to the first push of bejUpdateNodeMetadata. The root is looked
\* up as a child of index 0 of the schema dictionary.
bejEncode ==
    /\ pc = "call"
    /\ LET node == nodes[call.root]
           start == IF call.start = 0 THEN bejDictGetPropertyHeadOffset ELSE call.start
           found == bejFindSeqNumAndChildDictOffset(node, "Primary", 0, start)
           status == IF ~call.notNull THEN "NullParameter"
                     ELSE IF node.type # "Set" THEN "Unknown"
                     ELSE found.status
       IN  \/ /\ status # "OK"
              /\ Return(status)
              /\ UNCHANGED <<meta, stack, failed>>
           \/ /\ status = "OK"
              /\ meta' = ParentMetaData(meta, call.root, found)
              /\ StackPush(call.root, pc' = "metadata" /\ UNCHANGED ret, TRUE)
    /\ UNCHANGED <<call, nodes, output>>

\* m after bejUpdateLeafNodeMetaData of a leaf.
LeafMetaData(m, leaf, found) ==
    LET node == nodes[leaf]
        optionSeq == IF node.type = "Enum" THEN OptionSeq(node, found)
                     ELSE m[leaf].enumValueSeq
        vSize == LeafValueSize(node, optionSeq)
    IN  [m EXCEPT ![leaf] =
            [@ EXCEPT !.sequenceNumber = SequenceNumber(found),
                      !.enumValueSeq = optionSeq,
                      !.vSize = vSize,
                      !.sflSize = bejNnintEncodingSizeOfUInt(SequenceNumber(found))
                                      + TupleFSize + LeafLengthSize(node, vSize)]]

\* m after a node's size has been added to that of the value it is in.
AddSize(m, parent, node) ==
    [m EXCEPT ![parent].vSize = @ + m[node].sflSize + m[node].vSize]

\* Bug: the result of bejUpdateLeafNodeMetaData is dropped.
MetadataLeafUnchecked ==
    /\ pc = "metadata"
    /\ AtLeaf
    /\ FlagNode(Child, FoundChild)
    /\ LET sized == IF LeafStatus(nodes[Child], FoundChild) = "OK"
                    THEN AddSize(LeafMetaData(meta, Child, FoundChild), Top, Child)
                    ELSE meta
       IN  meta' = bejParentGoToNextChild(sized, Top, Child)
    /\ UNCHANGED <<pc, ret, call, stack, output, failed>>

\* bejProcessChildNodes at a leaf. What fails leaves the leaf with at most a
\* new sequence number.
MetadataLeaf ==
    /\ pc = "metadata"
    /\ AtLeaf
    /\ FlagNode(Child, FoundChild)
    /\ LET status == LeafStatus(nodes[Child], FoundChild)
       IN  \/ /\ status # "OK"
              /\ meta' = IF FoundChild.status = "OK"
                         THEN [meta EXCEPT ![Child].sequenceNumber =
                                               SequenceNumber(FoundChild)]
                         ELSE meta
              /\ Return(status)
           \/ /\ status = "OK"
              /\ meta' = bejParentGoToNextChild(
                             AddSize(LeafMetaData(meta, Child, FoundChild), Top, Child),
                             Top, Child)
              /\ UNCHANGED <<pc, ret>>
    /\ UNCHANGED <<call, stack, output, failed>>

\* bejProcessChildNodes at a child that is a parent.
MetadataParent ==
    /\ pc = "metadata"
    /\ AtParent
    /\ FlagNode(Child, FoundChild)
    /\ \/ /\ FoundChild.status # "OK"
          /\ Return(FoundChild.status)
          /\ UNCHANGED <<meta, stack, failed>>
       \/ /\ FoundChild.status = "OK"
          /\ LET updated == ParentMetaData(meta, Child, FoundChild)
             IN  StackPush(Child,
                           /\ meta' = bejParentGoToNextChild(updated, Top, Child)
                           /\ UNCHANGED <<pc, ret>>,
                           meta' = updated)
    /\ UNCHANGED <<call, output>>

\* Bug: a set is added to the one it is in before it has been given its length.
PoppedWithoutLength(m) ==
    IF Pop(stack) = <<>> THEN m ELSE AddSize(m, stack[Len(stack) - 1], Top)

\* m after the parent on top of the stack, of which all children have been
\* visited, has been given its length and added to the one below.
MetadataPopped(m) ==
    LET sized == [m EXCEPT ![Top].sflSize =
                              @ + bejNnintEncodingSizeOfUInt(m[Top].vSize)]
    IN  IF Pop(stack) = <<>> THEN sized
        ELSE AddSize(sized, stack[Len(stack) - 1], Top)

MetadataPop ==
    /\ pc = "metadata"
    /\ AtEnd
    /\ meta' = MetadataPopped(meta)
    /\ stack' = Pop(stack)
    /\ UNCHANGED <<pc, ret, call, nodes, output, failed>>

MetadataDone ==
    /\ pc = "metadata"
    /\ stack = <<>>
    /\ pc' = "header"
    /\ UNCHANGED <<ret, call, nodes, meta, stack, output, failed>>

-----------------------------------------------------------------------------
(* The second walk. *)

\* bejEncodeInteger returns the status as a uint8_t: when its low byte is zero
\* the encoder goes on without the bytes that were not taken. The pieces of a
\* node have one integer at most.
Shortened(pieces) ==
    {SubSeq(pieces, 1, i - 1) \o SubSeq(pieces, i + 1, Len(pieces)) :
        i \in {j \in DOMAIN pieces :
                 /\ pieces[j].kind = "integer"
                 /\ \E status \in OutputErrors : status % 256 = 0}}

\* Pieces handed to recvOutput one by one: Received when all are taken,
\* Truncated when all are but an integer, and Interrupted when one is not and
\* its status is returned.
Received(pieces) == output' = output \o pieces

Truncated(pieces) ==
    /\ \E sent \in Shortened(pieces) : output' = output \o sent
    /\ failed' = TRUE

Interrupted(pieces) ==
    /\ \E i \in DOMAIN pieces, status \in OutputErrors :
          /\ pieces[i].kind = "integer" => status % 256 # 0
          /\ LET handed == SubSeq(pieces, 1, i - 1)
             IN  \E sent \in {handed} \cup Shortened(handed) : output' = output \o sent
    /\ Return("Callback")
    /\ failed' = TRUE

EncodeHeader ==
    /\ pc = "header"
    /\ \/ Received(Header) /\ pc' = "root" /\ UNCHANGED <<ret, failed>>
       \/ Interrupted(Header)
    /\ UNCHANGED <<call, nodes, meta, stack>>

\* Bug: the cursor is left where the first walk left it.
KeepCursor(m, node) == m

\* m after a parent's cursor has been set to its first child.
ResetCursor(m, node) == [m EXCEPT ![node].nextChild = nodes[node].firstChild]

\* bejPushParentToStack resets the cursor before it pushes; m is what the
\* metadata is after the push.
bejPushParentToStack(node, m) ==
    StackPush(node, meta' = m /\ pc' = "encode" /\ UNCHANGED ret,
              meta' = ResetCursor(meta, node))

EncodeRoot ==
    /\ pc = "root"
    /\ LET pieces == bejEncodeNode(nodes[call.root], meta[call.root])
       IN  \/ /\ Received(pieces)
              /\ bejPushParentToStack(call.root, ResetCursor(meta, call.root))
           \/ Interrupted(pieces) /\ UNCHANGED <<meta, stack>>
    /\ UNCHANGED <<call, nodes>>

EncodeParent ==
    /\ pc = "encode"
    /\ AtParent
    /\ LET pieces == bejEncodeNode(nodes[Child], meta[Child])
       IN  \/ /\ Received(pieces)
              /\ bejPushParentToStack(
                     Child,
                     bejParentGoToNextChild(ResetCursor(meta, Child), Top, Child))
           \/ Interrupted(pieces) /\ UNCHANGED <<meta, stack>>
    /\ UNCHANGED <<call, nodes>>

EncodeLeaf ==
    /\ pc = "encode"
    /\ AtLeaf
    /\ LET pieces == bejEncodeNode(nodes[Child], meta[Child])
       IN  \/ /\ \/ Received(pieces) /\ UNCHANGED failed
                 \/ Truncated(pieces)
              /\ meta' = bejParentGoToNextChild(meta, Top, Child)
              /\ UNCHANGED <<pc, ret>>
           \/ Interrupted(pieces) /\ UNCHANGED meta
    /\ UNCHANGED <<call, nodes, stack>>

\* Bug: a parent whose children have been written stays on the stack.
EncodeWithoutPop ==
    /\ pc = "encode"
    /\ AtEnd
    /\ UNCHANGED vars

EncodePop ==
    /\ pc = "encode"
    /\ AtEnd
    /\ stack' = Pop(stack)
    /\ UNCHANGED <<pc, ret, call, nodes, meta, output, failed>>

EncodeDone ==
    /\ pc = "encode"
    /\ stack = <<>>
    /\ Return("OK")
    /\ UNCHANGED <<call, nodes, meta, stack, output, failed>>

-----------------------------------------------------------------------------
Init ==
    /\ pc = "call"
    /\ ret = "none"
    /\ call \in Calls
    /\ nodes \in Trees
    /\ \E m \in Garbage : meta = [n \in Nodes |-> m]
    /\ stack = <<>>
    /\ output = <<>>
    /\ failed = FALSE

Next ==
    \/ bejEncode
    \/ MetadataLeaf
    \/ MetadataParent
    \/ MetadataPop
    \/ MetadataDone
    \/ EncodeHeader
    \/ EncodeRoot
    \/ EncodeParent
    \/ EncodeLeaf
    \/ EncodePop
    \/ EncodeDone

Spec == Init /\ [][Next]_vars

\* The encoder is a call on the caller's thread: it keeps running.
FairSpec == Spec /\ WF_vars(Next)

=============================================================================
