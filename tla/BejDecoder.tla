----------------------------- MODULE BejDecoder -----------------------------
(***************************************************************************)
(* The BEJ decoder core (src/bej_decoder_core.c): one call of              *)
(* bejDecodePldmBlockWithPolicy on one block, as the state machine its     *)
(* local variables, the caller's stack and the caller's callbacks form.    *)
(*                                                                         *)
(* The decoder walks an encoded stream of SFLV tuples (sequence number,    *)
(* format, length, value) without recursion: entering a set, an array or a *)
(* property annotation pushes what must be restored when its last byte has *)
(* been consumed.                                                          *)
(*                                                                         *)
(* A tuple is a record; the bytes it occupies are its header (hdr), and    *)
(* its value, of declared length len, which may start with an nnint:       *)
(*                                                                         *)
(*   hdr     bytes of S, F and L together (localOffset.valueOffset)        *)
(*   schema  "Primary" or "Annotation", the dictionary seq refers to       *)
(*   seq     the sequence number                                           *)
(*   ro      readOnlyPropertyAndTopLevelAnnotation                         *)
(*   type    principalDataType                                             *)
(*   len     valueLength                                                   *)
(*   nnint   the number at the start of the value: the element count of a  *)
(*           set or an array, the chosen option of an enum                 *)
(*   nnSize  bejGetNnintSize of it                                         *)
(*                                                                         *)
(* What the tuple at an offset is, the stream decides. stream is the part  *)
(* of it that has been read: a tuple is chosen when its offset is first    *)
(* read and stays the same when it is read again, as the root tuple is. No *)
(* byte belongs to two tuples the decoder reads, so every choice is a      *)
(* stream that exists. A specification that starts from a complete stream  *)
(* leaves nothing to choose.                                               *)
(***************************************************************************)
EXTENDS BejDictionary

CONSTANTS
    Blocks,             \* the blocks and arguments a caller may pass
    Tuples,             \* the tuples a stream may hold
    U32,                \* 2^32: one more than the largest uint32_t
    MaxOperations,      \* maxOperations
    FailingCallbacks    \* the callbacks that may return a non-zero status

ScalarTypes == {"Integer", "String", "Real", "Boolean"}

\* The types bejDecode hands to bejHandleBejNull. "Reserved" stands for the
\* three reserved types, which reach the default of its switch.
NullTypes ==
    {"Null", "Bytestring", "Choice", "ResourceLinkExpansion", "Reserved"}

DataTypes ==
    ScalarTypes \cup NullTypes
        \cup {"Set", "Array", "Enum", "PropertyAnnotation", "ResourceLink"}

UInt8 == 0 .. 255
UInt32 == 0 .. U32 - 1

\* The smallest header has no bytes of sequence number or length, the largest
\* has 255 of each.
HeaderSizes == 3 .. 513

TupleType ==
    [hdr: HeaderSizes, schema: SchemaTypes, seq: UInt16, ro: BOOLEAN,
     type: DataTypes, len: UInt32, nnint: Nat, nnSize: UInt8]

\* params.sflv before the first tuple is read: the initializer leaves it zero.
ZeroSflv ==
    [hdr |-> 0, schema |-> "Primary", seq |-> 0, ro |-> FALSE, type |-> "Set",
     len |-> 0, nnint |-> 0, nnSize |-> 0]

Policies == {"Ignore", "Warn", "Error"}

SchemaClasses == {"Major", "Event", "Annotation", "CollectionMember", "Error"}

\* What the caller passes, down to what the code looks at: whether every
\* pointer is set, the length and header of the block, whether the declared
\* sizes of the dictionaries are their sizes (an absent error dictionary
\* counts as such), and the trailing-data policy.
BlockType ==
    [notNull: BOOLEAN, blockLength: UInt32, versionSupported: BOOLEAN,
     schemaClass: SchemaClasses, dictSizesOk: BOOLEAN, policy: Policies]

ASSUME InputAssumption ==
    /\ U32 \in Nat \ {0}
    /\ Tuples \subseteq TupleType
    /\ Blocks \subseteq BlockType

ASSUME BoundAssumption == MaxOperations \in Nat

CallbackNames ==
    ScalarTypes \cup
    {"SetStart", "SetEnd", "ArrayStart", "ArrayEnd", "PropertyEnd", "Null",
     "Enum", "Annotation", "ResourceLink", "ReadonlyProperty", "StackPush"}

ASSUME CallbackAssumption == FailingCallbacks \subseteq CallbackNames

VARIABLES
    pc,                  \* where the call is
    ret,                 \* what it returned, "none" until then
    block,               \* its arguments
    stream,              \* the tuples read so far, by offset
    sflv,                \* params.sflv
    payloadLen,          \* payloadLen
    addPropertyName,     \* params.state.addPropertyName
    mainDictPropOffset,  \* params.state.mainDictPropOffset
    annoDictPropOffset,  \* params.state.annoDictPropOffset
    encodedStreamOffset, \* params.state.encodedStreamOffset
    stack,               \* the caller's stack, top last
    operationCount,      \* operationCount
    calls,               \* the callbacks the last step made
    failed,              \* history: a callback has returned non-zero
    path,                \* history: what opened each section on the stack
    overran              \* history: a tuple ended beyond the section it was in

state == <<addPropertyName, mainDictPropOffset, annoDictPropOffset,
           encodedStreamOffset>>
history == <<path, overran>>
vars == <<pc, ret, block, stream, sflv, payloadLen, state, stack,
          operationCount, calls, failed, history>>

Statuses ==
    {"OK", "Unknown", "InvalidSize", "NotSupported", "UnknownProperty",
     "InvalidPropertyOffset", "NullParameter", "Callback"}

\* "ending" and "emptyEnding" are bejProcessEnding on behalf of a handler that
\* returns its result and of one that ignores it; "finalEnding" is the one
\* after the loop.
Endings == {"ending", "emptyEnding", "finalEnding"}

PCs == {"block", "root", "loop", "handle", "done"} \cup Endings

StackEntry ==
    [sectionType: {"NoType", "Set", "Array"}, addPropertyName: BOOLEAN,
     mainDictPropOffset: PropertyOffsets, annoDictPropOffset: PropertyOffsets,
     streamEndOffset: Nat]

Callback == [cb: CallbackNames, prop: Names]

TypeOK ==
    /\ pc \in PCs
    /\ ret \in Statuses \cup {"none"}
    /\ block \in Blocks
    /\ DOMAIN stream \subseteq Nat
    /\ \A o \in DOMAIN stream : stream[o] \in Tuples
    /\ sflv \in Tuples \cup {ZeroSflv}
    /\ pc = "handle" => sflv \in Tuples
    /\ payloadLen \in Nat
    /\ addPropertyName \in BOOLEAN
    /\ mainDictPropOffset \in PropertyOffsets
    /\ annoDictPropOffset \in PropertyOffsets
    /\ encodedStreamOffset \in Nat
    /\ stack \in Seq(StackEntry)
    /\ operationCount \in Nat
    /\ calls \in Seq(Callback)
    /\ failed \in BOOLEAN
    /\ path \in Seq([dict: SchemaTypes, child: PropertyOffsets])
    /\ overran \in BOOLEAN

-----------------------------------------------------------------------------
(* Arithmetic and the tuple being decoded. *)

\* Addition of two uint32_t.
AddU32(a, b) == IF a + b < U32 THEN a + b ELSE a + b - U32

PldmHeaderSize == 7
bejMinRootSflvSize == 5

streamLen == block.blockLength - PldmHeaderSize

\* sflv->valueEndOffset of a tuple read at an offset.
ValueEndOffset(t, offset) == AddU32(AddU32(offset, t.hdr), t.len)

valueEndOffset == ValueEndOffset(sflv, encodedStreamOffset)

\* Bug: the operands of the subtraction are swapped.
ValueStartOffsetSwapped == sflv.len - valueEndOffset

ValueStartOffset == valueEndOffset - sflv.len

bejGetFirstTupleOffset == AddU32(ValueStartOffset, sflv.nnSize)

\* Bug: the addition of the value's length is not checked for overflow.
InitSFLVStructNoOverflowCheck(t, offset) ==
    /\ offset < streamLen
    /\ t.hdr <= streamLen - offset
    /\ t.hdr <= U32 - 1 - offset

\* bejInitSFLVStruct succeeds: the header is within the buffer and the end of
\* the value is a uint32_t.
bejInitSFLVStruct(t, offset) ==
    /\ offset < streamLen
    /\ t.hdr <= streamLen - offset
    /\ t.hdr <= U32 - 1 - offset
    /\ t.len <= U32 - 1 - AddU32(offset, t.hdr)

\* The tuples the stream may hold at an offset, and reading one of them.
TuplesAt(offset) ==
    IF offset \in DOMAIN stream THEN {stream[offset]} ELSE Tuples

Read(t, offset) ==
    stream' = [o \in DOMAIN stream \cup {offset} |->
                  IF o = offset THEN t ELSE stream[o]]

Top == stack[Len(stack)]
Pop(s) == SubSeq(s, 1, Len(s) - 1)

bejIsArrayElement == stack # <<>> /\ Top.sectionType = "Array"

-----------------------------------------------------------------------------
(* Dictionary context of the tuple being decoded. *)

DictPropOffset(schema) ==
    IF schema = "Primary" THEN mainDictPropOffset
    ELSE IF sflv.ro THEN bejDictGetFirstAnnotatedPropertyOffset
    ELSE annoDictPropOffset

\* The status of bejGetDictionaryAndProperty, and *prop when it is "OK".
bejGetDictionaryAndProperty(schema, seq) ==
    bejDictGetProperty(DictionaryOf(schema), DictPropOffset(schema), seq)

PropertyOf(schema, seq) ==
    PropertyFound(DictionaryOf(schema), DictPropOffset(schema), seq)

\* A property that cannot be found has the name of an array element: none.
bejGetPropName ==
    IF addPropertyName /\ bejGetDictionaryAndProperty(sflv.schema, sflv.seq) = "OK"
    THEN bejDictGetPropertyName(PropertyOf(sflv.schema, sflv.seq))
    ELSE ""

\* Of the elements of an array the dictionary describes only element 0.
ElementSeq == IF bejIsArrayElement THEN 0 ELSE sflv.seq

-----------------------------------------------------------------------------
(* Building blocks of the actions. *)

Return(status) == pc' = "done" /\ ret' = status

\* Return with a status found before any callback of the step.
Reject(status) ==
    /\ Return(status)
    /\ calls' = <<>>
    /\ UNCHANGED <<state, stack, failed, history>>

Call(cb, prop) == [cb |-> cb, prop |-> prop]

\* RETURN_IF_CALLBACK_IERROR on each callback of cs in turn: Then when all of
\* them return zero, Otherwise after the first that does not.
Callbacks(cs, Then, Otherwise) ==
    \/ /\ Then
       /\ calls' = cs
       /\ UNCHANGED failed
    \/ \E i \in DOMAIN cs :
          /\ cs[i].cb \in FailingCallbacks
          /\ Otherwise
          /\ calls' = SubSeq(cs, 1, i)
          /\ failed' = TRUE

ReturnCallbackError == Return("Callback") /\ UNCHANGED <<state, stack, history>>

\* encodedStreamOffset moves past what the tuple occupies.
AdvanceTo(offset) ==
    /\ encodedStreamOffset' = offset
    /\ overran' = (overran \/ (stack # <<>> /\ offset > Top.streamEndOffset))

-----------------------------------------------------------------------------
(* bejDecodePldmBlockWithPolicy and bejDecode, up to the loop. *)

BlockStatus ==
    IF ~block.notNull THEN "NullParameter"
    ELSE IF block.blockLength < PldmHeaderSize THEN "InvalidSize"
    ELSE IF ~block.versionSupported \/ block.schemaClass \notin {"Major", "Event"}
         THEN "NotSupported"
    ELSE IF ~block.dictSizesOk THEN "InvalidSize"
    ELSE "OK"

bejDecodePldmBlockWithPolicy ==
    /\ pc = "block"
    /\ \/ /\ BlockStatus # "OK"
          /\ Reject(BlockStatus)
       \/ /\ BlockStatus = "OK"
          /\ pc' = "root"
          /\ calls' = <<>>
          /\ UNCHANGED <<ret, state, stack, failed, history>>
    /\ UNCHANGED <<block, stream, sflv, payloadLen, operationCount>>

\* The root tuple delimits the payload. Its status as a delimiter:
RootStatus(t) ==
    IF \/ ~bejInitSFLVStruct(t, 0)
       \/ ValueEndOffset(t, 0) > streamLen
       \/ ValueEndOffset(t, 0) < streamLen /\ block.policy = "Error"
    THEN "InvalidSize" ELSE "OK"

ReadRoot ==
    /\ pc = "root"
    /\ \/ /\ streamLen < bejMinRootSflvSize
          /\ Reject("InvalidSize")
          /\ UNCHANGED <<stream, sflv, payloadLen>>
       \/ /\ streamLen >= bejMinRootSflvSize
          /\ \E t \in TuplesAt(0) :
                /\ Read(t, 0)
                /\ sflv' = t
                /\ \/ /\ RootStatus(t) # "OK"
                      /\ Reject(RootStatus(t))
                      /\ UNCHANGED payloadLen
                   \/ /\ RootStatus(t) = "OK"
                      /\ payloadLen' = ValueEndOffset(t, 0)
                      /\ pc' = "loop"
                      /\ calls' = <<>>
                      /\ UNCHANGED <<ret, state, stack, failed, history>>
    /\ UNCHANGED <<block, operationCount>>

-----------------------------------------------------------------------------
(* The loop of bejDecode up to its switch. *)

\* Bug: an operation is counted twice.
CountTwice == operationCount + 2

CountOperation == operationCount + 1

ExceedMaxOperations ==
    /\ pc = "loop"
    /\ encodedStreamOffset < payloadLen
    /\ operationCount' = CountOperation
    /\ operationCount' > MaxOperations
    /\ Reject("NotSupported")
    /\ UNCHANGED <<block, stream, sflv, payloadLen>>

ReadTuple ==
    /\ pc = "loop"
    /\ encodedStreamOffset < payloadLen
    /\ operationCount' = CountOperation
    /\ operationCount' <= MaxOperations
    /\ \E t \in TuplesAt(encodedStreamOffset) :
          /\ Read(t, encodedStreamOffset)
          /\ sflv' = t
          /\ \/ /\ \/ ~bejInitSFLVStruct(t, encodedStreamOffset)
                   \/ ValueEndOffset(t, encodedStreamOffset) > payloadLen
                /\ Reject("InvalidSize")
             \/ /\ bejInitSFLVStruct(t, encodedStreamOffset)
                /\ ValueEndOffset(t, encodedStreamOffset) <= payloadLen
                /\ Callbacks(
                       IF t.ro THEN <<Call("ReadonlyProperty", "")>> ELSE <<>>,
                       pc' = "handle" /\ UNCHANGED <<ret, state, stack, history>>,
                       ReturnCallbackError)
    /\ UNCHANGED <<block, payloadLen>>

LeaveLoop ==
    /\ pc = "loop"
    /\ encodedStreamOffset >= payloadLen
    /\ pc' = "finalEnding"
    /\ calls' = <<>>
    /\ UNCHANGED <<ret, block, stream, sflv, payloadLen, state, stack,
                   operationCount, failed, history>>

-----------------------------------------------------------------------------
(* The handlers of values that contain no tuples. *)

\* bejProcessEnding(params, false) of a handler that returns its result.
ReturnProcessEnding ==
    IF stack = <<>> THEN Return("Unknown") ELSE pc' = "ending" /\ UNCHANGED ret

ConsumeValue(cb, prop) ==
    Callbacks(
        <<Call(cb, prop)>>,
        /\ AdvanceTo(valueEndOffset)
        /\ ReturnProcessEnding
        /\ UNCHANGED <<addPropertyName, mainDictPropOffset,
                       annoDictPropOffset, stack, path>>,
        ReturnCallbackError)

\* A value of no bytes is reported as a null.
CallbackFor(name) == IF sflv.len = 0 THEN "Null" ELSE name

bejHandleBejNull ==
    /\ pc = "handle"
    /\ sflv.type \in NullTypes
    /\ ConsumeValue("Null", bejGetPropName)
    /\ UNCHANGED <<block, stream, sflv, payloadLen, operationCount>>

\* bejHandleBejInteger, String, Real and Boolean.
bejHandleScalar ==
    /\ pc = "handle"
    /\ sflv.type \in ScalarTypes
    /\ ConsumeValue(CallbackFor(sflv.type), bejGetPropName)
    /\ UNCHANGED <<block, stream, sflv, payloadLen, operationCount>>

bejHandleBejResourceLink ==
    /\ pc = "handle"
    /\ sflv.type = "ResourceLink"
    /\ \/ /\ sflv.len # 0 /\ sflv.len < sflv.nnSize
          /\ Reject("InvalidSize")
       \/ /\ sflv.len = 0 \/ sflv.len >= sflv.nnSize
          /\ ConsumeValue(CallbackFor("ResourceLink"), bejGetPropName)
    /\ UNCHANGED <<block, stream, sflv, payloadLen, operationCount>>

\* The option of an enum is looked up among the children of its property.
OptionStatus(prop) ==
    IF sflv.len = 0 THEN "OK"
    ELSE bejDictGetProperty(DictionaryOf(sflv.schema), prop.child,
                            sflv.nnint % 65536)

bejHandleBejEnum ==
    /\ pc = "handle"
    /\ sflv.type = "Enum"
    /\ LET found == bejGetDictionaryAndProperty(sflv.schema, ElementSeq)
           prop  == PropertyOf(sflv.schema, ElementSeq)
           status == IF found = "OK" THEN OptionStatus(prop) ELSE found
       IN  \/ /\ status # "OK"
              /\ Reject(status)
           \/ /\ status = "OK"
              /\ ConsumeValue(CallbackFor("Enum"),
                              IF addPropertyName THEN bejDictGetPropertyName(prop)
                              ELSE "")
    /\ UNCHANGED <<block, stream, sflv, payloadLen, operationCount>>

-----------------------------------------------------------------------------
(* The handlers of sets, arrays and property annotations. *)

\* Bug: the end of a section is counted without its element count.
EndingWithoutCount(sectionType) ==
    [sectionType |-> sectionType, addPropertyName |-> addPropertyName,
     mainDictPropOffset |-> mainDictPropOffset,
     annoDictPropOffset |-> annoDictPropOffset,
     streamEndOffset |-> valueEndOffset - sflv.nnSize]

\* What is pushed on entering a section: the context to restore, and where.
Ending(sectionType) ==
    [sectionType |-> sectionType, addPropertyName |-> addPropertyName,
     mainDictPropOffset |-> mainDictPropOffset,
     annoDictPropOffset |-> annoDictPropOffset,
     streamEndOffset |-> valueEndOffset]

\* Entering a section whose first tuple is at offset first. Its tuples are
\* looked up among the children of prop: in dictionary dict from then on.
EnterSection(sectionType, start, name, names, dict, prop, first) ==
    Callbacks(
        <<Call(start, name), Call("StackPush", "")>>,
        /\ stack' = Append(stack, Ending(sectionType))
        /\ path' = Append(path, [dict |-> sflv.schema, child |-> prop.child])
        /\ addPropertyName' = names
        /\ mainDictPropOffset' =
              IF dict = "Primary" THEN prop.child ELSE mainDictPropOffset
        /\ annoDictPropOffset' =
              IF dict = "Annotation" THEN prop.child ELSE annoDictPropOffset
        /\ encodedStreamOffset' = first
        /\ overran' = (overran \/ (stack # <<>> /\ valueEndOffset > Top.streamEndOffset))
        /\ pc' = "loop"
        /\ UNCHANGED ret,
        ReturnCallbackError)

\* Bug: the end of a section without elements is not announced.
EmptySectionStaysOpen(start, end, name) ==
    Callbacks(
        <<Call(start, name)>>,
        /\ AdvanceTo(bejGetFirstTupleOffset)
        /\ pc' = IF stack = <<>> THEN "loop" ELSE "emptyEnding"
        /\ UNCHANGED <<ret, addPropertyName, mainDictPropOffset,
                       annoDictPropOffset, stack, path>>,
        ReturnCallbackError)

\* A set or an array that announces no elements ends where its first tuple
\* would be. The result of bejProcessEnding is not looked at.
EmptySection(start, end, name) ==
    Callbacks(
        <<Call(start, name), Call(end, "")>>,
        /\ AdvanceTo(bejGetFirstTupleOffset)
        /\ pc' = IF stack = <<>> THEN "loop" ELSE "emptyEnding"
        /\ UNCHANGED <<ret, addPropertyName, mainDictPropOffset,
                       annoDictPropOffset, stack, path>>,
        ReturnCallbackError)

\* The part bejHandleBejSet and bejHandleBejArray have in common.
HandleContainer(seq, sectionType, start, end, names) ==
    LET status == bejGetDictionaryAndProperty(sflv.schema, seq)
        prop == PropertyOf(sflv.schema, seq)
        name == IF addPropertyName THEN bejDictGetPropertyName(prop) ELSE ""
    IN  \/ /\ status # "OK"
           /\ Reject(status)
        \/ /\ status = "OK"
           /\ sflv.nnint = 0
           /\ EmptySection(start, end, name)
        \/ /\ status = "OK"
           /\ sflv.nnint # 0
           /\ EnterSection(sectionType, start, name, names, sflv.schema, prop,
                           bejGetFirstTupleOffset)

bejHandleBejSet ==
    /\ pc = "handle"
    /\ sflv.type = "Set"
    /\ HandleContainer(ElementSeq, "Set", "SetStart", "SetEnd", TRUE)
    /\ UNCHANGED <<block, stream, sflv, payloadLen, operationCount>>

\* Bug: names are still added inside of an array.
HandleBejArrayWithNames ==
    /\ pc = "handle"
    /\ sflv.type = "Array"
    /\ HandleContainer(sflv.seq, "Array", "ArrayStart", "ArrayEnd", TRUE)
    /\ UNCHANGED <<block, stream, sflv, payloadLen, operationCount>>

\* Unlike a set, an array that is an element of an array is looked up by its
\* own sequence number.
bejHandleBejArray ==
    /\ pc = "handle"
    /\ sflv.type = "Array"
    /\ HandleContainer(sflv.seq, "Array", "ArrayStart", "ArrayEnd", FALSE)
    /\ UNCHANGED <<block, stream, sflv, payloadLen, operationCount>>

\* The value of a property annotation is itself a tuple. Its context is set in
\* the schema dictionary, whichever dictionary named the property.
bejHandleBejPropertyAnnotation ==
    /\ pc = "handle"
    /\ sflv.type = "PropertyAnnotation"
    /\ LET status == bejGetDictionaryAndProperty(sflv.schema, sflv.seq)
           prop == PropertyOf(sflv.schema, sflv.seq)
       IN  \/ /\ status # "OK"
              /\ Reject(status)
           \/ /\ status = "OK"
              /\ EnterSection("NoType", "Annotation",
                              bejDictGetPropertyName(prop), TRUE, "Primary",
                              prop, ValueStartOffset)
    /\ UNCHANGED <<block, stream, sflv, payloadLen, operationCount>>

-----------------------------------------------------------------------------
(* bejProcessEnding, one turn of its loop at a time. *)

\* Bug: a section whose end has been passed also ends here.
SectionEndedByNow == encodedStreamOffset >= Top.streamEndOffset

SectionEndsHere == encodedStreamOffset = Top.streamEndOffset

EndCallbacks(entry) ==
    IF entry.sectionType = "NoType" THEN <<>>
    ELSE <<Call(IF entry.sectionType = "Set" THEN "SetEnd" ELSE "ArrayEnd", "")>>

\* Where control goes when bejProcessEnding returns zero with sections still
\* on the stack, and when a callback of it returns non-zero.
AfterEnding ==
    IF pc = "finalEnding" THEN Return("Unknown") ELSE pc' = "loop" /\ UNCHANGED ret

AfterEndingFailed ==
    IF pc = "emptyEnding" THEN pc' = "loop" /\ UNCHANGED ret ELSE Return("Callback")

\* Bug: the context of the annotation dictionary is not restored.
EndSectionKeepsAnnotation ==
    /\ pc \in Endings
    /\ stack # <<>>
    /\ SectionEndsHere
    /\ mainDictPropOffset' = Top.mainDictPropOffset
    /\ addPropertyName' = Top.addPropertyName
    /\ Callbacks(
           EndCallbacks(Top),
           stack' = Pop(stack) /\ path' = Pop(path) /\ UNCHANGED <<pc, ret>>,
           AfterEndingFailed /\ UNCHANGED <<stack, path>>)
    /\ UNCHANGED <<block, stream, sflv, payloadLen, annoDictPropOffset,
                   encodedStreamOffset, operationCount, overran>>

\* Bug: the section that ends is not popped.
EndSectionWithoutPop ==
    /\ pc \in Endings
    /\ stack # <<>>
    /\ SectionEndsHere
    /\ mainDictPropOffset' = Top.mainDictPropOffset
    /\ annoDictPropOffset' = Top.annoDictPropOffset
    /\ addPropertyName' = Top.addPropertyName
    /\ Callbacks(
           EndCallbacks(Top),
           UNCHANGED <<stack, path, pc, ret>>,
           AfterEndingFailed /\ UNCHANGED <<stack, path>>)
    /\ UNCHANGED <<block, stream, sflv, payloadLen, encodedStreamOffset,
                   operationCount, overran>>

\* The section on top ends here: leave it. Its context is restored before the
\* callback is made and its entry is popped after it.
EndSection ==
    /\ pc \in Endings
    /\ stack # <<>>
    /\ SectionEndsHere
    /\ mainDictPropOffset' = Top.mainDictPropOffset
    /\ annoDictPropOffset' = Top.annoDictPropOffset
    /\ addPropertyName' = Top.addPropertyName
    /\ Callbacks(
           EndCallbacks(Top),
           stack' = Pop(stack) /\ path' = Pop(path) /\ UNCHANGED <<pc, ret>>,
           AfterEndingFailed /\ UNCHANGED <<stack, path>>)
    /\ UNCHANGED <<block, stream, sflv, payloadLen, encodedStreamOffset,
                   operationCount, overran>>

\* The section on top does not end here: the property that ended was not its
\* last one.
EndProperty ==
    /\ pc \in Endings
    /\ stack # <<>>
    /\ ~SectionEndsHere
    /\ Callbacks(<<Call("PropertyEnd", "")>>, AfterEnding, AfterEndingFailed)
    /\ UNCHANGED <<block, stream, sflv, payloadLen, state, stack,
                   operationCount, history>>

\* Nothing is left on the stack.
EndStream ==
    /\ pc \in Endings
    /\ stack = <<>>
    /\ IF pc = "finalEnding" THEN Return("OK") ELSE pc' = "loop" /\ UNCHANGED ret
    /\ calls' = <<>>
    /\ UNCHANGED <<block, stream, sflv, payloadLen, state, stack,
                   operationCount, failed, history>>

-----------------------------------------------------------------------------
\* The state bejDecode starts from; the caller passes an empty stack.
InitParams ==
    /\ payloadLen = 0
    /\ addPropertyName = FALSE
    /\ mainDictPropOffset = bejDictGetPropertyHeadOffset
    /\ annoDictPropOffset = bejDictGetFirstAnnotatedPropertyOffset
    /\ encodedStreamOffset = 0
    /\ stack = <<>>
    /\ operationCount = 0

Init ==
    /\ pc = "block"
    /\ ret = "none"
    /\ block \in Blocks
    /\ stream = <<>>
    /\ sflv = ZeroSflv
    /\ InitParams
    /\ calls = <<>>
    /\ failed = FALSE
    /\ path = <<>>
    /\ overran = FALSE

Handle ==
    \/ bejHandleBejSet
    \/ bejHandleBejArray
    \/ bejHandleBejPropertyAnnotation
    \/ bejHandleBejNull
    \/ bejHandleScalar
    \/ bejHandleBejResourceLink
    \/ bejHandleBejEnum

ProcessEnding == EndSection \/ EndProperty \/ EndStream

Next ==
    \/ bejDecodePldmBlockWithPolicy
    \/ ReadRoot
    \/ ExceedMaxOperations
    \/ ReadTuple
    \/ LeaveLoop
    \/ Handle
    \/ ProcessEnding

Spec == Init /\ [][Next]_vars

\* The decoder is a call on the caller's thread: it keeps running.
FairSpec == Spec /\ WF_vars(Next)

-----------------------------------------------------------------------------
(* Properties. *)

\* A value gets its property's name exactly when it is directly inside a set
\* or a property annotation: never at the root or directly inside an array.
\* The flag that decides it is set on entry to a section and restored from the
\* stack on the way out (lines 314, 424, 490, 734), several levels at a time
\* when nested sections end on the same byte.
NamesOnlyInSets ==
    ~failed => (addPropertyName <=> stack # <<>> /\ Top.sectionType # "Array")

\* Its strengthening: what each section restores is what was right outside of it.
InnerNames(entry) == entry.sectionType # "Array"

NamesInv ==
    ~failed =>
        /\ addPropertyName <=> stack # <<>> /\ InnerNames(Top)
        /\ \A i \in DOMAIN stack :
              stack[i].addPropertyName <=> i > 1 /\ InnerNames(stack[i - 1])

\* The children of the innermost of the first n open sections whose tuple refers
\* to a dictionary start at an offset; outermost if there is no such section.
IsContext(offset, n, dict, outermost) ==
    \/ /\ \A i \in 1 .. n : path[i].dict # dict
       /\ offset = outermost
    \/ \E i \in 1 .. n :
          /\ path[i].dict = dict
          /\ path[i].child = offset
          /\ \A j \in i + 1 .. n : path[j].dict # dict

\* A property annotation on a property of the annotation dictionary.
NestedAnnotation(n) ==
    \E i \in 1 .. n : stack[i].sectionType = "NoType" /\ path[i].dict = "Annotation"

\* The context of what is directly inside the n-th section.
RightContext(n, main, anno) ==
    ~NestedAnnotation(n) =>
        /\ IsContext(main, n, "Primary", bejDictGetPropertyHeadOffset)
        /\ IsContext(anno, n, "Annotation", bejDictGetFirstAnnotatedPropertyOffset)

\* Each dictionary is read among the children of the innermost open section
\* that belongs to it, whatever sections of the other dictionary are open
\* around it and however many have been left since. Nested annotations are
\* not supported by the decoder (the TODO at line 10).
ContextIsInnermost ==
    ~failed => RightContext(Len(stack), mainDictPropOffset, annoDictPropOffset)

\* Its strengthening: what each section restores was right outside of it.
ContextInv ==
    ~failed =>
        /\ Len(path) = Len(stack)
        /\ \A i \in 1 .. Len(stack) :
              RightContext(i - 1, stack[i].mainDictPropOffset, stack[i].annoDictPropOffset)
        /\ RightContext(Len(stack), mainDictPropOffset, annoDictPropOffset)

\* The root tuple opened a section.
RootOpened ==
    /\ encodedStreamOffset # 0
    /\ 0 \in DOMAIN stream
    /\ \/ stream[0].type \in {"Set", "Array"} /\ stream[0].nnint # 0
       \/ stream[0].type = "PropertyAnnotation"

\* A stream is accepted only when every tuple ended within the section it is
\* in. A tuple's end is compared with the end of the payload alone (line 896)
\* and a section's end with the current offset for equality alone (line 307):
\* a tuple that runs over the end of its section is not noticed there, and
\* what must be relied on is that its section can then never be popped.
AcceptedIsNested == ret = "OK" => ~overran

\* The decoder as a reader of nested sections. What it does after a tuple has
\* ended outside of its section is not part of that picture, and neither is the
\* state it gives up in.
Away == overran \/ ret \notin {"none", "OK"}

Ends(s) == [i \in DOMAIN s |-> s[i].streamEndOffset]

offsetReached == IF Away THEN 0 ELSE encodedStreamOffset
openEnds == IF Away THEN <<>> ELSE Ends(stack)
verdict ==
    IF ret = "OK" THEN "accepted"
    ELSE IF ret # "none" THEN "refused"
    ELSE IF overran THEN "lost" ELSE "reading"

Nesting == INSTANCE BejNesting WITH
    Offsets <- UInt32, at <- offsetReached, open <- openEnds, verdict <- verdict

\* The decoder implements it: with values, empty sections, sections that end
\* several at a time and callbacks that fail half way (lines 298 to 341), every
\* step is one the reader may take, and whoever is lost is never accepted.
ImplementsNesting == Nesting!Spec

\* After a root that opened a section, there is never anything outside of it:
\* the stack is empty only at the very end of the payload, and an accepted
\* stream has been consumed to its last byte and no further.
SingleRoot ==
    RootOpened => /\ stack = <<>> => encodedStreamOffset = payloadLen
                  /\ ret = "OK" => encodedStreamOffset = payloadLen

\* Every tuple handled moves the decoder at least the three bytes of the
\* smallest header forward, also when values are empty, when lengths are near
\* the largest uint32_t (lines 151-168) and when the size of a count wraps.
Progress ==
    [][pc = "handle" /\ pc' # "done"
          => encodedStreamOffset' >= encodedStreamOffset + 3]_vars

\* The limit on operations only ever refuses a stream of more than three bytes
\* for each operation it allows, so no stream short enough is refused by it.
LimitOnlyForLongStreams ==
    operationCount > MaxOperations => streamLen > 3 * MaxOperations

\* The call returns.
Termination == <>(pc = "done")

\* The comment of RETURN_IF_CALLBACK_IERROR: a callback that returns a
\* non-zero value makes the caller return it (lines 21-24).
CallbackErrorIsReturned == pc = "done" /\ failed => ret = "Callback"

-----------------------------------------------------------------------------
(* The inductive invariant behind Progress, AcceptedIsNested, SingleRoot and *)
(* LimitOnlyForLongStreams, for streams no longer than StreamsFit allows.    *)

\* The size of a count, at most 255, never takes an offset within the stream
\* past the largest uint32_t.
StreamsFit == \A b \in Blocks : b.blockLength - PldmHeaderSize + 255 < U32

Walking == pc \in {"loop", "handle"} \cup Endings

\* Nothing has been decoded before the loop, and nothing is returned before the
\* call is done.
StartInv ==
    /\ pc \in {"block", "root"} =>
          /\ encodedStreamOffset = 0
          /\ operationCount = 0
          /\ ~overran
    /\ encodedStreamOffset = 0 => stack = <<>>
    /\ pc \in {"block", "root"} => payloadLen = 0
    /\ pc = "root" => block.blockLength >= PldmHeaderSize
    /\ pc # "done" => ret = "none"

\* The payload is what the root tuple delimits, and lies within the stream.
PayloadInv ==
    Walking =>
        /\ block.blockLength >= PldmHeaderSize
        /\ 0 \in DOMAIN stream
        /\ payloadLen = ValueEndOffset(stream[0], 0)
        /\ payloadLen <= streamLen

\* The tuple being handled is the one at the current offset.
TupleInv ==
    pc = "handle" =>
        /\ encodedStreamOffset \in DOMAIN stream
        /\ sflv = stream[encodedStreamOffset]
        /\ bejInitSFLVStruct(sflv, encodedStreamOffset)
        /\ valueEndOffset <= payloadLen
        /\ encodedStreamOffset < payloadLen

\* A section that can no longer be popped: its end has been passed, or it will
\* have been by the time a section inside of it is popped.
Doomed(i) ==
    \/ encodedStreamOffset > stack[i].streamEndOffset
    \/ \E j \in DOMAIN stack :
          j > i /\ stack[j].streamEndOffset > stack[i].streamEndOffset

NestingInv ==
    /\ overran => \E i \in DOMAIN stack : Doomed(i)
    /\ ret = "OK" => stack = <<>>

\* Once the root section is open it stays at the bottom of the stack until the
\* payload has been consumed.
RootInv ==
    RootOpened =>
        \/ stack # <<>> /\ stack[1].streamEndOffset = payloadLen
        \/ stack = <<>> /\ encodedStreamOffset = payloadLen

\* Every operation counted has moved the offset by three bytes, but for the one
\* under way.
OperationInv ==
    /\ pc \in {"loop"} \cup Endings => 3 * operationCount <= encodedStreamOffset
    /\ pc = "handle" => 3 * (operationCount - 1) <= encodedStreamOffset
    /\ pc # "done" => operationCount <= MaxOperations
    /\ LimitOnlyForLongStreams

IInv ==
    /\ TypeOK
    /\ StartInv
    /\ PayloadInv
    /\ TupleInv
    /\ NestingInv
    /\ RootInv
    /\ OperationInv

=============================================================================
