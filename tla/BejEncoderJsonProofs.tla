------------------------ MODULE BejEncoderJsonProofs ------------------------
(***************************************************************************)
(* Theorems about the object that encodes one tree after another           *)
(* (BejEncoderJson), for every dictionary, every tree, and every sequence  *)
(* of calls.                                                               *)
(***************************************************************************)
EXTENDS BejEncoderJsonProperties, BejEncoderProofs

-----------------------------------------------------------------------------
(* What fails writes nothing.                                                *)

\* Without failing callbacks a push pushes.
LEMMA PushFacts ==
    ASSUME NothingFails, NEW node, NEW ACTION Then, NEW ACTION Otherwise,
           StackPush(node, Then, Otherwise)
    PROVE  Then
BY DEF NothingFails, StackPush

\* And all that is written is taken.
LEMMA NeverInterrupted ==
    ASSUME NothingFails, NEW pieces
    PROVE  ~Interrupted(pieces)
BY DEF NothingFails, Interrupted

\* The steps of the first walk write nothing and return no success.
LEMMA MetadataWritten ==
    ASSUME NothingFails, WrittenInv, before' = before,
           bejEncode \/ MetadataLeaf \/ MetadataParent \/ MetadataPop \/ MetadataDone
    PROVE  WrittenInv'
<1>1. output' = output /\ pc \in {"call", "metadata"} /\ output = before
    BY DEF bejEncode, MetadataLeaf, MetadataParent, MetadataPop, MetadataDone, WrittenInv
<1>2. pc' = "done" => ret' # "OK"
    <2>1. CASE bejEncode
        <3>1. ASSUME NEW status,
                     \/ status # "OK" /\ Return(status)
                     \/ StackPush(call.root, pc' = "metadata" /\ UNCHANGED ret, TRUE)
              PROVE  pc' = "done" => ret' # "OK"
            BY <3>1, PushFacts DEF Return
        <3> QED BY <2>1, <3>1 DEF bejEncode
    <2>2. CASE MetadataLeaf
        <3>1. ASSUME NEW status, status # "OK" /\ Return(status)
              PROVE  pc' = "done" => ret' # "OK"
            BY <3>1 DEF Return
        <3> QED BY <2>2, <3>1 DEF MetadataLeaf
    <2>3. CASE MetadataParent
        BY <2>3 DEF MetadataParent, StackPush, Return, NothingFails
    <2>4. CASE MetadataPop \/ MetadataDone
        BY <2>4 DEF MetadataPop, MetadataDone
    <2> QED BY <2>1, <2>2, <2>3, <2>4
<1> QED BY <1>1, <1>2 DEF WrittenInv, FailureWritesNothing

\* The steps of the second walk do not fail.
LEMMA EncodeWritten ==
    ASSUME NothingFails,
           EncodeHeader \/ EncodeRoot \/ EncodeParent \/ EncodeLeaf \/ EncodePop \/ EncodeDone
    PROVE  WrittenInv'
<1>1. CASE EncodeHeader
    BY <1>1, NeverInterrupted DEF EncodeHeader, WrittenInv, FailureWritesNothing
<1>2. CASE EncodeRoot
    <2>1. pc' = "encode"
        BY <1>2, NeverInterrupted DEF EncodeRoot, bejPushParentToStack, StackPush, NothingFails
    <2> QED BY <2>1 DEF WrittenInv, FailureWritesNothing
<1>3. CASE EncodeParent
    <2>1. pc' = "encode"
        BY <1>3, NeverInterrupted DEF EncodeParent, bejPushParentToStack, StackPush, NothingFails
    <2> QED BY <2>1 DEF WrittenInv, FailureWritesNothing
<1>4. CASE EncodeLeaf
    <2>1. pc' = pc /\ pc = "encode"
        BY <1>4, NeverInterrupted DEF EncodeLeaf
    <2> QED BY <2>1 DEF WrittenInv, FailureWritesNothing
<1>5. CASE EncodePop
    BY <1>5 DEF EncodePop, WrittenInv, FailureWritesNothing
<1>6. CASE EncodeDone
    BY <1>6 DEF EncodeDone, Return, WrittenInv, FailureWritesNothing
<1> QED BY <1>1, <1>2, <1>3, <1>4, <1>5, <1>6

\* A call that fails adds nothing to the output, and one that succeeds leaves
\* the stack empty, whatever the calls before it left in the object and in the
\* nodes (bej_encoder_core.c, the two walks of bejEncode).
THEOREM FailureWritesNothingHolds ==
    NothingFails => (JsonSpec => []FailureWritesNothing)
<1> SUFFICES ASSUME NothingFails PROVE JsonSpec => []FailureWritesNothing
    OBVIOUS
<1>1. JsonInit => WrittenInv
    BY DEF JsonInit, Init, WrittenInv, FailureWritesNothing
<1>2. WrittenInv /\ [JsonNext]_jsonVars => WrittenInv'
    <2> SUFFICES ASSUME WrittenInv, [JsonNext]_jsonVars PROVE WrittenInv'
        OBVIOUS
    <2>1. CASE EncodeStep
        BY <2>1, MetadataWritten, EncodeWritten DEF EncodeStep, Next
    <2>2. CASE encode
        BY <2>2 DEF encode, WrittenInv, FailureWritesNothing
    <2>3. CASE getOutput
        BY <2>3 DEF getOutput, WrittenInv, FailureWritesNothing
    <2>4. CASE UNCHANGED jsonVars
        BY <2>4 DEF jsonVars, vars, WrittenInv, FailureWritesNothing
    <2> QED BY <2>1, <2>2, <2>3, <2>4 DEF JsonNext
<1>3. WrittenInv => FailureWritesNothing
    BY DEF WrittenInv
<1> QED BY <1>1, <1>2, <1>3, PTL DEF JsonSpec

-----------------------------------------------------------------------------
(* The object that encodes one tree after another.                           *)

\* What holds between two calls, too.
LastingInv ==
    /\ pc \in Stages \cup {"idle"}
    /\ pc # "idle" => TypeOK
    /\ call \in Calls /\ nodes \in TreeType /\ meta \in [Nodes -> MetaType]
    /\ stack \in Seq(Nodes) /\ output \in Seq(PieceType)
    /\ failed = FALSE
    /\ WellBuilt(nodes)

\* The invariant of the object: a call on an empty stack adds to what had been
\* written before.
CleanInv ==
    /\ LastingInv
    /\ before \in Seq(PieceType)
    /\ pc # "idle" /\ ~dirty =>
          \E tree, below, height : CallInv(tree, below, height, before)

\* Without failing callbacks nothing fails.
LEMMA NothingHasFailed ==
    ASSUME NothingFails, Next
    PROVE  UNCHANGED failed
<1>1. \A pieces : ~Interrupted(pieces) /\ ~Truncated(pieces)
    BY DEF NothingFails, Interrupted, Truncated, Shortened
<1>2. CASE bejEncode
    BY <1>2 DEF bejEncode, StackPush, NothingFails
<1>3. CASE MetadataParent
    BY <1>3 DEF MetadataParent, StackPush, NothingFails
<1>4. CASE EncodeHeader
    BY <1>1, <1>4 DEF EncodeHeader
<1>5. CASE EncodeRoot
    BY <1>1, <1>5 DEF EncodeRoot, bejPushParentToStack, StackPush, NothingFails
<1>6. CASE EncodeParent
    BY <1>1, <1>6 DEF EncodeParent, bejPushParentToStack, StackPush, NothingFails
<1>7. CASE EncodeLeaf
    BY <1>1, <1>7 DEF EncodeLeaf
<1>8. CASE MetadataLeaf \/ MetadataPop \/ MetadataDone \/ EncodePop \/ EncodeDone
    BY <1>8 DEF MetadataLeaf, MetadataPop, MetadataDone, EncodePop, EncodeDone
<1> QED BY <1>2, <1>3, <1>4, <1>5, <1>6, <1>7, <1>8 DEF Next

\* The steps of a call change at most flags.
LEMMA StepKeepsWellBuilt ==
    ASSUME TypeOK, WellBuilt(nodes), Next
    PROVE  WellBuilt(nodes')
<1>1. ASSUME NEW node \in Nodes, NEW found, FlagNode(node, found)
      PROVE  WellBuilt(nodes')
    <2>1. nodes \in TreeType /\ nodes' \in TreeType
        BY <1>1, FlaggedTree DEF TypeOK
    <2>2. /\ SameStructure(nodes, nodes')
          /\ \A n \in Nodes : nodes'[n].value = nodes[n].value
        <3>1. CASE nodes' = nodes
            BY <3>1 DEF SameStructure
        <3>2. CASE nodes' = [nodes EXCEPT ![node].ro = TRUE]
            BY <2>1, <3>2 DEF SameStructure, TreeType, NodeType
        <3> QED BY <1>1, <3>1, <3>2 DEF FlagNode, bejTreeUpdateNodeFlags
    <2>3. IntegersFit(nodes')
        BY <2>2 DEF WellBuilt, IntegersFit, SameStructure
    <2> QED BY <2>1, <2>2, <2>3, StructureKeepsWellBuilt
<1>2. CASE MetadataLeaf
    BY <1>1, <1>2, ChildFacts DEF MetadataLeaf
<1>3. CASE MetadataParent
    BY <1>1, <1>3, ChildFacts DEF MetadataParent
<1>4. CASE ~(MetadataLeaf \/ MetadataParent)
    <2>1. nodes' = nodes
        BY <1>4 DEF Next, bejEncode, MetadataPop, MetadataDone, EncodeHeader, EncodeRoot,
                    EncodeParent, EncodeLeaf, EncodePop, EncodeDone
    <2> QED BY <2>1
<1> QED BY <1>2, <1>3, <1>4

\* What the caller does to the nodes between two calls.
LEMMA NextTreesWellBuilt ==
    ASSUME nodes \in TreeType, WellBuilt(nodes), NEW tree \in NextTrees
    PROVE  tree \in TreeType /\ WellBuilt(tree)
<1>1. CASE tree = nodes
    BY <1>1
<1>2. CASE tree \in Trees
    BY <1>2, CallerAssumption, TreesAssumption
<1>3. ASSUME NEW n \in DOMAIN Values, NEW v \in Values[n], tree = bejTreeSet(nodes, n, v)
      PROVE  tree \in TreeType /\ WellBuilt(tree)
    <2>1. n \in Nodes /\ v \in ValueType /\ v.bytes <= 255
        BY SessionAssumption, ValuesAssumption
    <2>2. tree = [nodes EXCEPT ![n].value = v]
        BY <1>3 DEF bejTreeSet
    <2>3. tree \in TreeType
        BY <2>1, <2>2 DEF TreeType, NodeType
    <2>4. SameStructure(nodes, tree)
        BY <2>1, <2>2 DEF SameStructure, TreeType, NodeType
    <2>5. IntegersFit(tree)
        <3> SUFFICES ASSUME NEW m \in Nodes, tree[m].type \in {"Integer", "Real"}
                     PROVE  tree[m].value.bytes <= 255
            BY DEF IntegersFit
        <3>1. CASE m = n
            BY <2>1, <2>2, <3>1 DEF TreeType, NodeType
        <3>2. CASE m # n
            BY <2>1, <2>2, <3>2 DEF TreeType, WellBuilt, IntegersFit
        <3> QED BY <3>1, <3>2
    <2> QED BY <2>3, <2>4, <2>5, StructureKeepsWellBuilt
<1> QED BY <1>1, <1>2, <1>3 DEF NextTrees

LEMMA CleanStart ==
    ASSUME JsonInit
    PROVE  CleanInv
<1>1. TypeOK
    BY InitTyped DEF JsonInit
<1>2. /\ pc = "call" /\ ret = "none" /\ stack = <<>> /\ failed = FALSE
      /\ before = output /\ WellBuilt(nodes)
    BY TreesAssumption DEF JsonInit, Init
<1>3. \E below, height : CallInv(nodes, below, height, output)
    BY <1>1, <1>2, CallStarts
<1> QED BY <1>1, <1>2, <1>3 DEF CleanInv, LastingInv, TypeOK, Stages

LEMMA CleanCallStep ==
    ASSUME NothingFails, CleanInv, EncodeStep
    PROVE  CleanInv'
<1>1. Next /\ UNCHANGED <<before, dirty>> /\ pc # "idle"
    BY DEF EncodeStep, Next, bejEncode, MetadataLeaf, MetadataParent, MetadataPop,
           MetadataDone, EncodeHeader, EncodeRoot, EncodeParent, EncodeLeaf, EncodePop, EncodeDone
<1>2. TypeOK /\ TypeOK'
    BY <1>1, NextTyped DEF CleanInv, LastingInv
<1>3. WellBuilt(nodes') /\ failed' = FALSE
    BY <1>1, <1>2, StepKeepsWellBuilt, NothingHasFailed DEF CleanInv, LastingInv
<1>4. ~dirty => \E tree, below, height : CallInv(tree, below, height, before)'
    <2> SUFFICES ASSUME ~dirty
                 PROVE  \E tree, below, height : CallInv(tree, below, height, before)'
        OBVIOUS
    <2>1. PICK tree, below, height : CallInv(tree, below, height, before)
        BY <1>1 DEF CleanInv
    <2>2. PICK base : base = before
        OBVIOUS
    <2>3. CallInv(tree, below, height, base)
        BY <2>1, <2>2
    <2>4. CallInv(tree, below, height, base)'
        BY <1>1, <1>2, <2>3, CallStepKeeps
    <2>5. base = before'
        BY <1>1, <2>2
    <2> QED BY <2>4, <2>5
<1> QED BY <1>1, <1>2, <1>3, <1>4 DEF CleanInv, LastingInv, TypeOK, Stages

\* The caller's next call.
LEMMA CleanEncode ==
    CleanInv /\ encode => CleanInv'
<1>1. (TypeOK /\ WellBuilt(nodes) /\ pc = "call" /\ ret = "none" /\ stack = <<>> /\ failed = FALSE
          => \E below, height : CallInv(nodes, below, height, output))'
    BY CallStarts, PTL
<1> SUFFICES ASSUME CleanInv, encode PROVE CleanInv'
    OBVIOUS
<1>2. /\ pc' = "call" /\ ret' = "none" /\ call' \in Calls /\ before' = output
      /\ dirty' = (stack # <<>>)
      /\ UNCHANGED <<meta, stack, output, failed>>
    BY DEF encode
<1>3. nodes' \in TreeType /\ WellBuilt(nodes')
    BY NextTreesWellBuilt DEF CleanInv, LastingInv, encode
<1>4. TypeOK'
    BY <1>2, <1>3 DEF CleanInv, LastingInv, TypeOK
<1>5. ~dirty' => \E tree, below, height : CallInv(tree, below, height, before)'
    <2> SUFFICES ASSUME ~dirty'
                 PROVE  \E tree, below, height : CallInv(tree, below, height, before)'
        OBVIOUS
    <2>1. stack' = <<>> /\ failed' = FALSE
        BY <1>2 DEF CleanInv, LastingInv
    <2>2. PICK below, height : CallInv(nodes, below, height, output)'
        BY <1>1, <1>2, <1>3, <1>4, <2>1
    <2>3. output' = before'
        BY <1>2
    <2>4. PICK tree, base : tree = nodes' /\ base = before'
        OBVIOUS
    <2>5. CallInv(tree, below, height, base)'
        BY <2>2, <2>3, <2>4
    <2> QED BY <2>4, <2>5
<1> QED BY <1>2, <1>3, <1>4, <1>5 DEF CleanInv, LastingInv, Stages

\* The caller takes the output.
LEMMA CleanTake ==
    ASSUME CleanInv, getOutput
    PROVE  CleanInv'
<1>1. /\ pc' = "idle" /\ output' = <<>> /\ before' = <<>>
      /\ UNCHANGED <<ret, call, nodes, meta, stack, failed, dirty>>
    BY DEF getOutput
<1> QED BY <1>1 DEF CleanInv, LastingInv

LEMMA CleanStutters ==
    ASSUME CleanInv, UNCHANGED jsonVars
    PROVE  CleanInv'
<1>1. UNCHANGED vars /\ UNCHANGED <<before, dirty>>
    BY DEF jsonVars
<1>2. UNCHANGED <<pc, ret, call, nodes, meta, stack, output, failed>>
    BY <1>1 DEF vars
<1>3. LastingInv'
    BY <1>2 DEF CleanInv, LastingInv, TypeOK
<1>4. pc' # "idle" /\ ~dirty' => \E tree, below, height : CallInv(tree, below, height, before)'
    <2> SUFFICES ASSUME pc' # "idle", ~dirty'
                 PROVE  \E tree, below, height : CallInv(tree, below, height, before)'
        OBVIOUS
    <2>1. PICK tree, below, height : CallInv(tree, below, height, before)
        BY <1>1, <1>2 DEF CleanInv
    <2>2. PICK base : base = before
        OBVIOUS
    <2>3. CallInv(tree, below, height, base) /\ TypeOK
        BY <1>2, <2>1, <2>2 DEF CleanInv, LastingInv
    <2>4. CallInv(tree, below, height, base)'
        BY <1>1, <2>3, CallStutters
    <2>5. base = before'
        BY <1>1, <2>2
    <2> QED BY <2>4, <2>5
<1> QED BY <1>1, <1>3, <1>4 DEF CleanInv

\* What follows a sequence in what it has been put in front of.
LEMMA Behindhand ==
    ASSUME NEW S, NEW s \in Seq(S), NEW t \in Seq(S), NEW u, u = s \o t
    PROVE  SubSeq(u, Len(s) + 1, Len(u)) = t
<1>1. /\ u \in Seq(S) /\ Len(u) = Len(s) + Len(t)
      /\ \A i \in 1 .. Len(t) : u[Len(s) + i] = t[i]
    OBVIOUS
<1> DEFINE v == SubSeq(u, Len(s) + 1, Len(u))
<1>2. v \in Seq(S) /\ Len(v) = Len(t)
    BY <1>1
<1>3. \A i \in 1 .. Len(t) : v[i] = t[i]
    BY <1>1
<1> QED BY <1>2, <1>3

LEMMA CleanPromises ==
    ASSUME CleanInv
    PROVE  CleanEncodeIsExact
<1> SUFFICES ASSUME pc = "done", ~dirty
             PROVE  ret = Verdict /\ (ret = "OK" => Written = Encoding)
    BY DEF CleanEncodeIsExact
<1>1. TypeOK /\ failed = FALSE /\ before \in Seq(PieceType)
    BY DEF CleanInv, LastingInv
<1>2. PICK tree, below, height : CallInv(tree, below, height, before)
    BY DEF CleanInv
<1>3. Verdict = VerdictOn(tree) /\ Encoding = Header \o TreeEncoding(tree, Root)
    BY <1>1, <1>2, SamePromise
<1>4. InDone(tree, before) /\ Frame(tree, below, height, before)
    BY <1>2 DEF CallInv
<1>5. ret = Verdict
    BY <1>1, <1>3, <1>4 DEF InDone
<1>6. ASSUME ret = "OK"
      PROVE  Written = Encoding
    <2>1. Emits(tree, FALSE, output, <<>>, Whole(tree, before))
        BY <1>1, <1>4, <1>6 DEF InDone
    <2>2. output \in Encodings(tree) /\ before \in Encodings(tree)
        BY <1>1, PiecesAreEncodings DEF TypeOK
    <2>3. output \o <<>> = Whole(tree, before)
        BY <2>1 DEF Emits
    <2>4. output = before \o Encoding
        <3>1. output \o <<>> = output
            BY <2>2 DEF Encodings
        <3> QED BY <1>3, <2>3, <3>1 DEF Whole
    <2>5. Encoding \in Encodings(tree)
        BY <1>1, <1>3, <1>4, EmitStart
    <2> QED BY <2>2, <2>4, <2>5, Behindhand DEF Written, Encodings
<1> QED BY <1>5, <1>6

\* A call on an object whose stack is empty returns the status of its tree and,
\* when that is zero, adds the encoding of the tree to the output (encode, lines
\* 58-78 of bej_encoder_json.cpp), whatever the calls before it have returned
\* and have left in the nodes, their metadata and the output.
THEOREM CleanEncodeIsExactHolds ==
    NothingFails => (JsonSpec => []CleanEncodeIsExact)
<1> SUFFICES ASSUME NothingFails PROVE JsonSpec => []CleanEncodeIsExact
    OBVIOUS
<1>1. JsonInit => CleanInv
    BY CleanStart
<1>2. CleanInv /\ [JsonNext]_jsonVars => CleanInv'
    <2> SUFFICES ASSUME CleanInv, [JsonNext]_jsonVars PROVE CleanInv'
        OBVIOUS
    <2>1. CASE EncodeStep
        BY <2>1, CleanCallStep
    <2>2. CASE encode
        BY <2>2, CleanEncode
    <2>3. CASE getOutput
        BY <2>3, CleanTake
    <2>4. CASE UNCHANGED jsonVars
        BY <2>4, CleanStutters
    <2> QED BY <2>1, <2>2, <2>3, <2>4 DEF JsonNext
<1>3. CleanInv => CleanEncodeIsExact
    BY CleanPromises
<1> QED BY <1>1, <1>2, <1>3, PTL DEF JsonSpec

=============================================================================
