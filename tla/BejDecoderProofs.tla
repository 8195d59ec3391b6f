-------------------------- MODULE BejDecoderProofs --------------------------
(***************************************************************************)
(* Theorems about the decoder core (BejDecoder), for every pair of         *)
(* dictionaries, every set of blocks and tuples, and every set of          *)
(* callbacks that may fail.                                                *)
(*                                                                         *)
(* The seven handlers do one of four things to the decoder's state. These  *)
(* are named below and shown to be all there is (HandlerSteps), so that    *)
(* each invariant is proved for four kinds of step instead of for every    *)
(* path of every handler.                                                  *)
(***************************************************************************)
EXTENDS BejDecoder, BejDictionaryProofs

\* The handler returns an error.
RejectStep ==
    /\ pc' = "done"
    /\ ret' \in Statuses \ {"OK"}
    /\ UNCHANGED <<state, stack, history>>

\* A value without tuples has been consumed.
ConsumeStep ==
    /\ sflv.type \notin {"Set", "Array", "PropertyAnnotation"}
    /\ encodedStreamOffset' = valueEndOffset
    /\ overran' = (overran \/ (stack # <<>> /\ valueEndOffset > Top.streamEndOffset))
    /\ UNCHANGED <<addPropertyName, mainDictPropOffset, annoDictPropOffset,
                   stack, path>>
    /\ \/ pc' = "done" /\ ret' = "Unknown"
       \/ pc' = "ending" /\ ret' = ret /\ stack # <<>>

\* An empty set or array has been consumed.
EmptyStep ==
    /\ sflv.type \in {"Set", "Array"} /\ sflv.nnint = 0
    /\ encodedStreamOffset' = bejGetFirstTupleOffset
    /\ overran' = (overran \/ (stack # <<>> /\ bejGetFirstTupleOffset > Top.streamEndOffset))
    /\ UNCHANGED <<ret, addPropertyName, mainDictPropOffset, annoDictPropOffset,
                   stack, path>>
    /\ \/ pc' = "loop" /\ stack = <<>>
       \/ pc' = "emptyEnding" /\ stack # <<>>

\* A section has been entered.
EnterStep(sectionType, first) ==
    /\ \/ /\ sectionType \in {"Set", "Array"}
          /\ sflv.type = sectionType /\ sflv.nnint # 0
          /\ first = bejGetFirstTupleOffset
       \/ /\ sectionType = "NoType"
          /\ sflv.type = "PropertyAnnotation"
          /\ first = ValueStartOffset
    /\ pc' = "loop"
    /\ UNCHANGED ret
    /\ stack' = Append(stack, Ending(sectionType))
    /\ encodedStreamOffset' = first
    /\ overran' = (overran \/ (stack # <<>> /\ valueEndOffset > Top.streamEndOffset))
    /\ addPropertyName' = (sectionType # "Array")
    /\ mainDictPropOffset' \in PropertyOffsets
    /\ annoDictPropOffset' \in PropertyOffsets
    /\ \E child \in PropertyOffsets :
          /\ path' = Append(path, [dict |-> sflv.schema, child |-> child])
          /\ sflv.schema = "Primary" =>
                mainDictPropOffset' = child /\ annoDictPropOffset' = annoDictPropOffset
          /\ sflv.schema = "Annotation" /\ sectionType # "NoType" =>
                mainDictPropOffset' = mainDictPropOffset /\ annoDictPropOffset' = child

HandlerStep ==
    /\ pc = "handle"
    /\ UNCHANGED <<block, stream, sflv, payloadLen, operationCount>>
    /\ calls' \in Seq(Callback)
    /\ failed' \in BOOLEAN /\ (failed => failed')
    /\ \/ RejectStep
       \/ ConsumeStep
       \/ EmptyStep
       \/ \E sectionType \in {"NoType", "Set", "Array"}, first \in Int :
             EnterStep(sectionType, first)

-----------------------------------------------------------------------------
(* Facts about the operators the actions are made of. *)

LEMMA AddU32Nat ==
    ASSUME NEW a \in Nat, NEW b \in Nat
    PROVE  AddU32(a, b) \in Nat
BY InputAssumption DEF AddU32

LEMMA PopFacts ==
    ASSUME NEW S, NEW s \in Seq(S), s # <<>>
    PROVE  /\ Pop(s) \in Seq(S)
           /\ Len(s) \in Nat \ {0}
           /\ Len(Pop(s)) = Len(s) - 1
           /\ DOMAIN Pop(s) = 1 .. Len(s) - 1
           /\ \A i \in 1 .. Len(s) - 1 : Pop(s)[i] = s[i]
           /\ Pop(s) = <<>> <=> Len(s) = 1
<1>1. Len(s) \in Nat \ {0}
    BY EmptySeq
<1>2. \A i \in 1 .. Len(s) - 1 : s[i] \in S
    BY <1>1, ElementOfSeq
<1>3. /\ Pop(s) \in Seq(S)
      /\ Len(Pop(s)) = Len(s) - 1
      /\ \A i \in 1 .. Len(s) - 1 : Pop(s)[i] = s[i]
    <2> DEFINE n == Len(s) - 1
    <2>1. 1 \in Int /\ n \in Int /\ \A i \in 1 .. n : s[i] \in S
        BY <1>1, <1>2
    <2>2. /\ SubSeq(s, 1, n) \in Seq(S)
          /\ Len(SubSeq(s, 1, n)) = (IF 1 <= n THEN n - 1 + 1 ELSE 0)
          /\ \A i \in 1 .. n - 1 + 1 : SubSeq(s, 1, n)[i] = s[1 + i - 1]
        <3> HIDE DEF n
        <3> QED BY <2>1, SubSeqProperties
    <2>3. n \in Nat /\ n - 1 + 1 = n /\ \A i \in 1 .. n : 1 + i - 1 = i
        BY <1>1
    <2>4. Len(SubSeq(s, 1, n)) = n
        <3> HIDE DEF n
        <3> QED BY <2>2, <2>3
    <2>5. \A i \in 1 .. n : SubSeq(s, 1, n)[i] = s[i]
        <3> HIDE DEF n
        <3> QED BY <2>2, <2>3
    <2> QED BY <2>2, <2>4, <2>5 DEF Pop
<1>4. DOMAIN Pop(s) = 1 .. Len(s) - 1
    BY <1>3, LenProperties
<1>5. Pop(s) = <<>> <=> Len(s) = 1
    BY <1>1, <1>3, EmptySeq
<1> QED BY <1>1, <1>3, <1>4, <1>5

LEMMA CallType ==
    ASSUME NEW cb \in CallbackNames, NEW prop \in Names
    PROVE  Call(cb, prop) \in Callback
BY DEF Call, Callback

LEMMA CallSequences ==
    ASSUME NEW a \in Callback, NEW b \in Callback
    PROVE  /\ <<>> \in Seq(Callback)
           /\ <<a>> \in Seq(Callback)
           /\ <<a, b>> \in Seq(Callback)
OBVIOUS

\* The dictionary a lookup reads, from where, and what it returns.
LEMMA LookupType ==
    ASSUME TypeOK, NEW schema \in SchemaTypes, NEW seq
    PROVE  /\ bejGetDictionaryAndProperty(schema, seq) \in Statuses
           /\ bejGetDictionaryAndProperty(schema, seq) = "OK" =>
                 /\ PropertyOf(schema, seq) \in DictionaryEntry
                 /\ PropertyOf(schema, seq).child \in PropertyOffsets
                 /\ bejDictGetPropertyName(PropertyOf(schema, seq)) \in Names
<1>1. DictionaryOf(schema) \in Seq(DictionaryEntry)
    BY DictionariesAssumption DEF DictionaryOf
<1>2. DictPropOffset(schema) \in Int
    <2>1. mainDictPropOffset \in PropertyOffsets /\ annoDictPropOffset \in PropertyOffsets
        BY DEF TypeOK
    <2>2. bejDictGetFirstAnnotatedPropertyOffset \in Int
        BY DEF bejDictGetFirstAnnotatedPropertyOffset, HeaderSize, PropertySize
    <2>3. DictPropOffset(schema) \in
              {mainDictPropOffset, annoDictPropOffset, bejDictGetFirstAnnotatedPropertyOffset}
        BY DEF DictPropOffset
    <2>4. PropertyOffsets \subseteq Int
        BY DEF PropertyOffsets, UInt16
    <2> QED BY <2>1, <2>2, <2>3, <2>4
<1>3. bejGetDictionaryAndProperty(schema, seq) \in Statuses
    BY LookupStatus DEF bejGetDictionaryAndProperty, Statuses
<1>4. ASSUME bejGetDictionaryAndProperty(schema, seq) = "OK"
      PROVE  PropertyOf(schema, seq) \in DictionaryEntry
    BY <1>1, <1>2, <1>4, LookupReturnsFirst
    DEF bejGetDictionaryAndProperty, PropertyOf
<1>5. ASSUME NEW entry \in DictionaryEntry
      PROVE  entry.child \in PropertyOffsets /\ entry.name \in Names
    BY DEF DictionaryEntry
<1> QED BY <1>3, <1>4, <1>5 DEF bejDictGetPropertyName

\* The tuple being handled has the fields of a tuple.
LEMMA SflvType ==
    ASSUME TypeOK, pc = "handle"
    PROVE  /\ sflv.hdr \in Nat /\ sflv.hdr >= 3
           /\ sflv.schema \in SchemaTypes
           /\ sflv.seq \in UInt16
           /\ sflv.type \in DataTypes
           /\ sflv.len \in Nat
           /\ sflv.nnint \in Nat
           /\ sflv.nnSize \in Nat /\ sflv.nnSize <= 255
<1>1. sflv \in Tuples
    BY DEF TypeOK
<1>2. sflv \in TupleType
    BY <1>1, InputAssumption
<1>3. /\ sflv.hdr \in HeaderSizes
      /\ sflv.schema \in SchemaTypes
      /\ sflv.seq \in UInt16
      /\ sflv.type \in DataTypes
      /\ sflv.len \in UInt32
      /\ sflv.nnint \in Nat
      /\ sflv.nnSize \in UInt8
    BY <1>2 DEF TupleType
<1>4. sflv.len \in Nat
    BY <1>3, InputAssumption DEF UInt32
<1>5. sflv.hdr \in Nat /\ sflv.hdr >= 3
    BY <1>3 DEF HeaderSizes
<1>6. sflv.nnSize \in Nat /\ sflv.nnSize <= 255
    BY <1>3 DEF UInt8
<1> QED BY <1>3, <1>4, <1>5, <1>6

LEMMA PropNameType ==
    ASSUME TypeOK, pc = "handle"
    PROVE  bejGetPropName \in Names
<1>1. sflv.schema \in SchemaTypes
    BY SflvType
<1>2. CASE addPropertyName /\ bejGetDictionaryAndProperty(sflv.schema, sflv.seq) = "OK"
    BY <1>1, <1>2, LookupType DEF bejGetPropName
<1>3. CASE ~(addPropertyName /\ bejGetDictionaryAndProperty(sflv.schema, sflv.seq) = "OK")
    BY <1>3, NameAssumption DEF bejGetPropName
<1> QED BY <1>2, <1>3

LEMMA OffsetTypes ==
    ASSUME TypeOK, pc = "handle"
    PROVE  /\ valueEndOffset \in Nat
           /\ ValueStartOffset \in Int
           /\ bejGetFirstTupleOffset \in Int
<1>1. encodedStreamOffset \in Nat
    BY DEF TypeOK
<1>2. sflv.hdr \in Nat /\ sflv.len \in Nat /\ sflv.nnSize \in Nat
    BY SflvType
<1>3. valueEndOffset \in Nat
    BY <1>1, <1>2, AddU32Nat DEF valueEndOffset, ValueEndOffset
<1>4. ValueStartOffset \in Int
    BY <1>2, <1>3 DEF ValueStartOffset
<1>5. bejGetFirstTupleOffset \in Int
    BY <1>2, <1>4, InputAssumption DEF bejGetFirstTupleOffset, AddU32
<1> QED BY <1>3, <1>4, <1>5

\* Making callbacks: what Callbacks(cs, Then, Otherwise) says of calls and failed.
LEMMA CallbacksType ==
    ASSUME NEW cs \in Seq(Callback), TypeOK, NEW Then, NEW Otherwise,
           Callbacks(cs, Then, Otherwise)
    PROVE  /\ calls' \in Seq(Callback)
           /\ failed' \in BOOLEAN
           /\ ~failed' => Then
           /\ Then \/ Otherwise
           /\ failed => failed'
<1>1. CASE Then /\ calls' = cs /\ UNCHANGED failed
    BY <1>1 DEF TypeOK
<1>2. CASE \E i \in DOMAIN cs :
              /\ cs[i].cb \in FailingCallbacks
              /\ Otherwise
              /\ calls' = SubSeq(cs, 1, i)
              /\ failed' = TRUE
    <2>1. PICK i \in DOMAIN cs : Otherwise /\ calls' = SubSeq(cs, 1, i) /\ failed' = TRUE
        BY <1>2
    <2>2. SubSeq(cs, 1, i) \in Seq(Callback)
        BY ElementOfSeq
    <2> QED BY <2>1, <2>2
<1> QED BY <1>1, <1>2 DEF Callbacks

-----------------------------------------------------------------------------
(* Every handler does one of the four steps. *)

LEMMA ConsumeValueSteps ==
    ASSUME TypeOK, NEW cb \in CallbackNames, NEW prop \in Names,
           sflv.type \notin {"Set", "Array", "PropertyAnnotation"},
           ConsumeValue(cb, prop)
    PROVE  /\ calls' \in Seq(Callback)
           /\ failed' \in BOOLEAN /\ (failed => failed')
           /\ RejectStep \/ ConsumeStep
<1> DEFINE Then == /\ AdvanceTo(valueEndOffset)
                   /\ ReturnProcessEnding
                   /\ UNCHANGED <<addPropertyName, mainDictPropOffset,
                                  annoDictPropOffset, stack, path>>
           cs == <<Call(cb, prop)>>
<1>1. cs \in Seq(Callback)
    BY CallType, CallSequences
<1>2. Callbacks(cs, Then, ReturnCallbackError)
    BY DEF ConsumeValue
<1>3. calls' \in Seq(Callback) /\ failed' \in BOOLEAN /\ (failed => failed') /\ (Then \/ ReturnCallbackError)
    <2> HIDE DEF Then, cs
    <2> QED BY <1>1, <1>2, CallbacksType
<1>4. Then => ConsumeStep
    BY DEF AdvanceTo, ReturnProcessEnding, Return, ConsumeStep
<1>5. ReturnCallbackError => RejectStep
    BY DEF ReturnCallbackError, Return, RejectStep, Statuses
<1> QED BY <1>3, <1>4, <1>5

LEMMA EmptySectionSteps ==
    ASSUME TypeOK, NEW start \in CallbackNames, NEW end \in CallbackNames,
           NEW name \in Names,
           sflv.type \in {"Set", "Array"}, sflv.nnint = 0,
           EmptySection(start, end, name)
    PROVE  /\ calls' \in Seq(Callback)
           /\ failed' \in BOOLEAN /\ (failed => failed')
           /\ RejectStep \/ EmptyStep
<1> DEFINE Then == /\ AdvanceTo(bejGetFirstTupleOffset)
                   /\ pc' = IF stack = <<>> THEN "loop" ELSE "emptyEnding"
                   /\ UNCHANGED <<ret, addPropertyName, mainDictPropOffset,
                                  annoDictPropOffset, stack, path>>
           cs == <<Call(start, name), Call(end, "")>>
<1>1. cs \in Seq(Callback)
    BY CallType, CallSequences, NameAssumption
<1>2. Callbacks(cs, Then, ReturnCallbackError)
    BY DEF EmptySection
<1>3. calls' \in Seq(Callback) /\ failed' \in BOOLEAN /\ (failed => failed') /\ (Then \/ ReturnCallbackError)
    <2> HIDE DEF Then, cs
    <2> QED BY <1>1, <1>2, CallbacksType
<1>4. Then => EmptyStep
    BY DEF AdvanceTo, EmptyStep
<1>5. ReturnCallbackError => RejectStep
    BY DEF ReturnCallbackError, Return, RejectStep, Statuses
<1> QED BY <1>3, <1>4, <1>5

LEMMA EnterSectionSteps ==
    ASSUME TypeOK, NEW sectionType \in {"NoType", "Set", "Array"},
           NEW start \in CallbackNames, NEW name \in Names,
           NEW names, names = (sectionType # "Array"),
           NEW dict, dict = (IF sectionType = "NoType" THEN "Primary" ELSE sflv.schema),
           NEW prop, prop.child \in PropertyOffsets, NEW first,
           \/ /\ sectionType \in {"Set", "Array"}
              /\ sflv.type = sectionType /\ sflv.nnint # 0
              /\ first = bejGetFirstTupleOffset
           \/ /\ sectionType = "NoType"
              /\ sflv.type = "PropertyAnnotation"
              /\ first = ValueStartOffset,
           EnterSection(sectionType, start, name, names, dict, prop, first)
    PROVE  /\ calls' \in Seq(Callback)
           /\ failed' \in BOOLEAN /\ (failed => failed')
           /\ RejectStep \/ EnterStep(sectionType, first)
<1> DEFINE Then == /\ stack' = Append(stack, Ending(sectionType))
                   /\ path' = Append(path, [dict |-> sflv.schema, child |-> prop.child])
                   /\ addPropertyName' = names
                   /\ mainDictPropOffset' =
                         IF dict = "Primary" THEN prop.child ELSE mainDictPropOffset
                   /\ annoDictPropOffset' =
                         IF dict = "Annotation" THEN prop.child ELSE annoDictPropOffset
                   /\ encodedStreamOffset' = first
                   /\ overran' = (overran \/ (stack # <<>> /\ valueEndOffset > Top.streamEndOffset))
                   /\ pc' = "loop"
                   /\ UNCHANGED ret
           cs == <<Call(start, name), Call("StackPush", "")>>
<1>1. cs \in Seq(Callback)
    <2>1. Call("StackPush", "") \in Callback
        BY CallType, NameAssumption DEF CallbackNames
    <2> QED BY <2>1, CallType, CallSequences
<1>2. Callbacks(cs, Then, ReturnCallbackError)
    BY DEF EnterSection
<1>3. calls' \in Seq(Callback) /\ failed' \in BOOLEAN /\ (failed => failed') /\ (Then \/ ReturnCallbackError)
    <2> HIDE DEF Then, cs
    <2> QED BY <1>1, <1>2, CallbacksType
<1>4. ASSUME Then PROVE EnterStep(sectionType, first)
    <2>1. mainDictPropOffset \in PropertyOffsets /\ annoDictPropOffset \in PropertyOffsets
        BY DEF TypeOK
    <2>2. mainDictPropOffset' \in PropertyOffsets /\ annoDictPropOffset' \in PropertyOffsets
        BY <1>4, <2>1
    <2> QED BY <1>4, <2>2 DEF EnterStep
<1>5. ReturnCallbackError => RejectStep
    BY DEF ReturnCallbackError, Return, RejectStep, Statuses
<1> QED BY <1>3, <1>4, <1>5

LEMMA RejectSteps ==
    ASSUME TypeOK, NEW status \in Statuses \ {"OK"}, Reject(status)
    PROVE  calls' \in Seq(Callback) /\ failed' \in BOOLEAN /\ (failed => failed') /\ RejectStep
BY DEF TypeOK, Reject, Return, RejectStep

\* bejHandleBejSet and bejHandleBejArray.
LEMMA ContainerSteps ==
    ASSUME TypeOK, pc = "handle",
           NEW sectionType \in {"Set", "Array"}, sflv.type = sectionType,
           NEW seq, NEW start \in CallbackNames, NEW end \in CallbackNames,
           NEW names, names = (sectionType # "Array"),
           HandleContainer(seq, sectionType, start, end, names)
    PROVE  /\ calls' \in Seq(Callback)
           /\ failed' \in BOOLEAN /\ (failed => failed')
           /\ RejectStep \/ EmptyStep \/ EnterStep(sectionType, bejGetFirstTupleOffset)
<1> DEFINE status == bejGetDictionaryAndProperty(sflv.schema, seq)
           prop == PropertyOf(sflv.schema, seq)
           name == IF addPropertyName THEN bejDictGetPropertyName(prop) ELSE ""
<1>1. /\ status \in Statuses
      /\ status = "OK" => /\ prop.child \in PropertyOffsets
                         /\ bejDictGetPropertyName(prop) \in Names
    BY SflvType, LookupType
<1>2. status = "OK" => name \in Names
    <2> HIDE DEF status, prop
    <2> QED BY <1>1, NameAssumption
<1>3. CASE status # "OK" /\ Reject(status)
    <2>1. status \in Statuses \ {"OK"}
        BY <1>1, <1>3
    <2> HIDE DEF status
    <2> QED BY <1>3, <2>1, RejectSteps
<1>4. CASE status = "OK" /\ sflv.nnint = 0 /\ EmptySection(start, end, name)
    <2> HIDE DEF status, prop, name
    <2> QED BY <1>2, <1>4, EmptySectionSteps
<1>5. CASE /\ status = "OK"
           /\ sflv.nnint # 0
           /\ EnterSection(sectionType, start, name, names, sflv.schema, prop,
                           bejGetFirstTupleOffset)
    <2> HIDE DEF status, prop, name
    <2> QED BY <1>1, <1>2, <1>5, EnterSectionSteps
<1> QED BY <1>3, <1>4, <1>5 DEF HandleContainer

LEMMA HandlerSteps ==
    ASSUME TypeOK, Handle
    PROVE  HandlerStep
<1>0. pc = "handle" /\ UNCHANGED <<block, stream, sflv, payloadLen, operationCount>>
    BY DEF Handle, bejHandleBejSet, bejHandleBejArray, bejHandleBejNull,
           bejHandleBejPropertyAnnotation, bejHandleScalar,
           bejHandleBejResourceLink, bejHandleBejEnum
<1>00. bejGetFirstTupleOffset \in Int /\ ValueStartOffset \in Int
    BY <1>0, OffsetTypes
<1> SUFFICES /\ calls' \in Seq(Callback)
             /\ failed' \in BOOLEAN /\ (failed => failed')
             /\ \/ RejectStep
                \/ ConsumeStep
                \/ EmptyStep
                \/ \E sectionType \in {"NoType", "Set", "Array"} :
                      \/ EnterStep(sectionType, bejGetFirstTupleOffset)
                      \/ EnterStep(sectionType, ValueStartOffset)
    BY <1>0, <1>00 DEF HandlerStep
<1>1. CASE bejHandleBejSet
    <2>1. /\ sflv.type = "Set"
          /\ HandleContainer(ElementSeq, "Set", "SetStart", "SetEnd", TRUE)
        BY <1>1 DEF bejHandleBejSet
    <2>2. "SetStart" \in CallbackNames /\ "SetEnd" \in CallbackNames
        BY DEF CallbackNames
    <2> QED BY <1>0, <2>1, <2>2, ContainerSteps
<1>2. CASE bejHandleBejArray
    <2>1. /\ sflv.type = "Array"
          /\ HandleContainer(sflv.seq, "Array", "ArrayStart", "ArrayEnd", FALSE)
        BY <1>2 DEF bejHandleBejArray
    <2>2. "ArrayStart" \in CallbackNames /\ "ArrayEnd" \in CallbackNames
        BY DEF CallbackNames
    <2> QED BY <1>0, <2>1, <2>2, ContainerSteps
<1>3. CASE bejHandleBejPropertyAnnotation
    <2> DEFINE status == bejGetDictionaryAndProperty(sflv.schema, sflv.seq)
               prop == PropertyOf(sflv.schema, sflv.seq)
    <2>1. /\ status \in Statuses
          /\ status = "OK" => /\ prop.child \in PropertyOffsets
                             /\ bejDictGetPropertyName(prop) \in Names
        BY <1>0, SflvType, LookupType
    <2>2. "Annotation" \in CallbackNames
        BY DEF CallbackNames
    <2>3. sflv.type = "PropertyAnnotation"
        BY <1>3 DEF bejHandleBejPropertyAnnotation
    <2>4. CASE status # "OK" /\ Reject(status)
        <3>1. status \in Statuses \ {"OK"}
            BY <2>1, <2>4
        <3> HIDE DEF status
        <3> QED BY <2>4, <3>1, RejectSteps
    <2>5. CASE /\ status = "OK"
               /\ EnterSection("NoType", "Annotation",
                               bejDictGetPropertyName(prop), TRUE, "Primary",
                               prop, ValueStartOffset)
        <3> HIDE DEF status, prop
        <3> QED BY <2>1, <2>2, <2>3, <2>5, EnterSectionSteps
    <2> QED BY <1>3, <2>4, <2>5 DEF bejHandleBejPropertyAnnotation
<1>4. CASE bejHandleBejNull
    <2>1. /\ sflv.type \notin {"Set", "Array", "PropertyAnnotation"}
          /\ ConsumeValue("Null", bejGetPropName)
        BY <1>4 DEF bejHandleBejNull, NullTypes
    <2>2. "Null" \in CallbackNames
        BY DEF CallbackNames
    <2> QED BY <1>0, <2>1, <2>2, PropNameType, ConsumeValueSteps
<1>5. CASE bejHandleScalar
    <2>1. /\ sflv.type \notin {"Set", "Array", "PropertyAnnotation"}
          /\ CallbackFor(sflv.type) \in CallbackNames
          /\ ConsumeValue(CallbackFor(sflv.type), bejGetPropName)
        BY <1>5 DEF bejHandleScalar, ScalarTypes, CallbackFor, CallbackNames
    <2> QED BY <1>0, <2>1, PropNameType, ConsumeValueSteps
<1>6. CASE bejHandleBejResourceLink
    <2>1. sflv.type \notin {"Set", "Array", "PropertyAnnotation"}
        BY <1>6 DEF bejHandleBejResourceLink
    <2>2. CASE Reject("InvalidSize")
        <3>1. "InvalidSize" \in Statuses \ {"OK"}
            BY DEF Statuses
        <3> QED BY <2>2, <3>1, RejectSteps
    <2>3. CASE ConsumeValue(CallbackFor("ResourceLink"), bejGetPropName)
        <3>1. CallbackFor("ResourceLink") \in CallbackNames
            BY DEF CallbackFor, CallbackNames
        <3> QED BY <1>0, <2>1, <2>3, <3>1, PropNameType, ConsumeValueSteps
    <2> QED BY <1>6, <2>2, <2>3 DEF bejHandleBejResourceLink
<1>7. CASE bejHandleBejEnum
    <2> DEFINE found == bejGetDictionaryAndProperty(sflv.schema, ElementSeq)
               prop  == PropertyOf(sflv.schema, ElementSeq)
               status == IF found = "OK" THEN OptionStatus(prop) ELSE found
               name == IF addPropertyName THEN bejDictGetPropertyName(prop) ELSE ""
    <2>1. sflv.type \notin {"Set", "Array", "PropertyAnnotation"}
        BY <1>7 DEF bejHandleBejEnum
    <2>2. /\ found \in Statuses
          /\ found = "OK" => bejDictGetPropertyName(prop) \in Names
        BY <1>0, SflvType, LookupType
    <2>3. OptionStatus(prop) \in Statuses
        BY LookupStatus DEF OptionStatus, Statuses
    <2>4. CASE status # "OK" /\ Reject(status)
        <3>1. status \in Statuses \ {"OK"}
            <4> HIDE DEF found, prop
            <4> QED BY <2>2, <2>3, <2>4
        <3> HIDE DEF status
        <3> QED BY <2>4, <3>1, RejectSteps
    <2>5. CASE status = "OK" /\ ConsumeValue(CallbackFor("Enum"), name)
        <3>1. CallbackFor("Enum") \in CallbackNames
            BY DEF CallbackFor, CallbackNames
        <3>2. found = "OK"
            <4> HIDE DEF found, prop
            <4> QED BY <2>5
        <3>3. name \in Names
            <4> HIDE DEF found, prop
            <4> QED BY <2>2, <3>2, NameAssumption
        <3> HIDE DEF name, status
        <3> QED BY <2>1, <2>5, <3>1, <3>3, ConsumeValueSteps
    <2> QED BY <1>7, <2>4, <2>5 DEF bejHandleBejEnum
<1> QED BY <1>1, <1>2, <1>3, <1>4, <1>5, <1>6, <1>7 DEF Handle

-----------------------------------------------------------------------------
(* Type correctness. *)

\* The extent of a tuple that passed bejInitSFLVStruct: no addition wraps.
LEMMA TupleExtent ==
    ASSUME TypeOK, pc = "handle", bejInitSFLVStruct(sflv, encodedStreamOffset)
    PROVE  /\ valueEndOffset = encodedStreamOffset + sflv.hdr + sflv.len
           /\ ValueStartOffset = encodedStreamOffset + sflv.hdr
           /\ bejGetFirstTupleOffset = AddU32(encodedStreamOffset + sflv.hdr, sflv.nnSize)
           /\ bejGetFirstTupleOffset \in Nat
<1>1. encodedStreamOffset \in Nat /\ U32 \in Nat
    BY InputAssumption DEF TypeOK
<1>2. sflv.hdr \in Nat /\ sflv.len \in Nat /\ sflv.nnSize \in Nat
    BY SflvType
<1>3. /\ sflv.hdr <= U32 - 1 - encodedStreamOffset
      /\ sflv.len <= U32 - 1 - AddU32(encodedStreamOffset, sflv.hdr)
    BY DEF bejInitSFLVStruct
<1>4. AddU32(encodedStreamOffset, sflv.hdr) = encodedStreamOffset + sflv.hdr
    BY <1>1, <1>2, <1>3 DEF AddU32
<1>5. valueEndOffset = encodedStreamOffset + sflv.hdr + sflv.len
    BY <1>1, <1>2, <1>3, <1>4 DEF valueEndOffset, ValueEndOffset, AddU32
<1>6. ValueStartOffset = encodedStreamOffset + sflv.hdr
    BY <1>1, <1>2, <1>5 DEF ValueStartOffset
<1>7. encodedStreamOffset + sflv.hdr \in Nat
    BY <1>1, <1>2
<1>8. AddU32(encodedStreamOffset + sflv.hdr, sflv.nnSize) \in Nat
    BY <1>2, <1>7, AddU32Nat
<1> QED BY <1>5, <1>6, <1>8 DEF bejGetFirstTupleOffset

LEMMA StreamLenInt ==
    ASSUME TypeOK
    PROVE  block.blockLength \in Nat /\ streamLen \in Int
<1>1. block \in BlockType
    BY InputAssumption DEF TypeOK
<1>2. block.blockLength \in UInt32
    BY <1>1 DEF BlockType
<1>3. block.blockLength \in Nat
    BY <1>2, InputAssumption DEF UInt32
<1> QED BY <1>3 DEF streamLen, PldmHeaderSize

LEMMA ValueEndNat ==
    ASSUME NEW t \in Tuples, NEW offset \in Nat
    PROVE  ValueEndOffset(t, offset) \in Nat
<1>1. t.hdr \in HeaderSizes /\ t.len \in UInt32
    BY InputAssumption DEF TupleType
<1>2. t.hdr \in Nat
    BY <1>1 DEF HeaderSizes
<1>3. t.len \in Nat
    BY <1>1, InputAssumption DEF UInt32
<1> QED BY <1>2, <1>3, AddU32Nat DEF ValueEndOffset

\* What may be pushed.
LEMMA EndingType ==
    ASSUME TypeOK, pc = "handle", NEW sectionType \in {"NoType", "Set", "Array"}
    PROVE  /\ Ending(sectionType) \in StackEntry
           /\ Ending(sectionType).streamEndOffset = valueEndOffset
           /\ Ending(sectionType).sectionType = sectionType
           /\ Ending(sectionType).addPropertyName = addPropertyName
<1>1. /\ addPropertyName \in BOOLEAN
      /\ mainDictPropOffset \in PropertyOffsets
      /\ annoDictPropOffset \in PropertyOffsets
    BY DEF TypeOK
<1>2. valueEndOffset \in Nat
    BY OffsetTypes
<1> QED BY <1>1, <1>2 DEF Ending, StackEntry

\* What is popped.
LEMMA TopType ==
    ASSUME TypeOK, stack # <<>>
    PROVE  /\ Top \in StackEntry
           /\ Top = stack[Len(stack)]
           /\ Top.sectionType \in {"NoType", "Set", "Array"}
           /\ Top.addPropertyName \in BOOLEAN
           /\ Top.mainDictPropOffset \in PropertyOffsets
           /\ Top.annoDictPropOffset \in PropertyOffsets
           /\ Top.streamEndOffset \in Nat
           /\ Len(stack) \in Nat \ {0}
<1>1. stack \in Seq(StackEntry)
    BY DEF TypeOK
<1>2. Len(stack) \in Nat \ {0}
    BY <1>1, EmptySeq
<1>3. Top \in StackEntry
    BY <1>1, <1>2, ElementOfSeq DEF Top
<1> QED BY <1>2, <1>3 DEF Top, StackEntry

\* Reading a tuple records it and changes nothing read before.
LEMMA ReadFacts ==
    ASSUME TypeOK, NEW offset \in Nat, NEW t \in TuplesAt(offset), Read(t, offset)
    PROVE  /\ t \in Tuples
           /\ DOMAIN stream' = DOMAIN stream \cup {offset}
           /\ stream'[offset] = t
           /\ \A o \in DOMAIN stream : stream'[o] = stream[o]
           /\ DOMAIN stream' \subseteq Nat
           /\ \A o \in DOMAIN stream' : stream'[o] \in Tuples
<1>1. /\ DOMAIN stream \subseteq Nat
      /\ \A o \in DOMAIN stream : stream[o] \in Tuples
    BY DEF TypeOK
<1>2. t \in Tuples /\ (offset \in DOMAIN stream => stream[offset] = t)
    BY <1>1 DEF TuplesAt
<1>3. stream' = [o \in DOMAIN stream \cup {offset} |-> IF o = offset THEN t ELSE stream[o]]
    BY DEF Read
<1> QED BY <1>1, <1>2, <1>3

LEMMA EndCallbacksType ==
    ASSUME NEW entry \in StackEntry
    PROVE  EndCallbacks(entry) \in Seq(Callback)
<1>1. Call("SetEnd", "") \in Callback /\ Call("ArrayEnd", "") \in Callback
    BY CallType, NameAssumption DEF CallbackNames
<1> QED BY <1>1, CallSequences DEF EndCallbacks

LEMMA PopType ==
    ASSUME NEW S, NEW s \in Seq(S)
    PROVE  Pop(s) \in Seq(S)
<1>1. CASE s # <<>>
    BY <1>1, PopFacts
<1>2. CASE s = <<>>
    <2>1. Pop(s) = <<>>
        BY <1>2 DEF Pop
    <2> QED BY <2>1
<1> QED BY <1>1, <1>2

\* Steps that read a tuple or nothing, and leave the sections as they are.
LEMMA ReadStepType ==
    ASSUME TypeOK, UNCHANGED <<block, state, stack, history>>,
           DOMAIN stream' \subseteq Nat, \A o \in DOMAIN stream' : stream'[o] \in Tuples,
           sflv' \in Tuples, payloadLen' \in Nat,
           pc' \in PCs, ret' \in Statuses \cup {"none"},
           operationCount' \in Nat, calls' \in Seq(Callback), failed' \in BOOLEAN
    PROVE  TypeOK'
BY DEF TypeOK, state, history

\* Steps that read no tuple.
LEMMA ControlStepType ==
    ASSUME TypeOK, UNCHANGED <<block, stream, sflv, payloadLen>>,
           addPropertyName' \in BOOLEAN,
           mainDictPropOffset' \in PropertyOffsets,
           annoDictPropOffset' \in PropertyOffsets,
           encodedStreamOffset' \in Nat,
           stack' \in Seq(StackEntry),
           path' \in Seq([dict: SchemaTypes, child: PropertyOffsets]),
           overran' \in BOOLEAN,
           pc' \in PCs, pc' # "handle", ret' \in Statuses \cup {"none"},
           operationCount' \in Nat, calls' \in Seq(Callback), failed' \in BOOLEAN
    PROVE  TypeOK'
<1>1. /\ block' \in Blocks
      /\ DOMAIN stream' \subseteq Nat
      /\ \A o \in DOMAIN stream' : stream'[o] \in Tuples
      /\ sflv' \in Tuples \cup {ZeroSflv}
      /\ payloadLen' \in Nat
    BY DEF TypeOK
<1> QED BY <1>1 DEF TypeOK

\* The callbacks of a step that makes none.
LEMMA NoCallbacks == <<>> \in Seq(Callback)
OBVIOUS

LEMMA BlockStepType ==
    ASSUME TypeOK, bejDecodePldmBlockWithPolicy
    PROVE  TypeOK'
<1>1. BlockStatus \in Statuses
    BY DEF BlockStatus, Statuses
<1>2. /\ UNCHANGED <<block, stream, sflv, payloadLen, state, stack, history>>
      /\ pc' \in {"done", "root"}
      /\ ret' \in Statuses \cup {"none"}
      /\ operationCount' = operationCount
      /\ calls' = <<>>
      /\ failed' = failed
    BY <1>1 DEF bejDecodePldmBlockWithPolicy, TypeOK, Reject, Return, state, history
<1> QED BY <1>2, NoCallbacks, ControlStepType DEF PCs, TypeOK, state, history

LEMMA ReadRootStepType ==
    ASSUME TypeOK, ReadRoot
    PROVE  TypeOK'
<1>0. streamLen \in Int /\ bejMinRootSflvSize \in Int
    BY StreamLenInt DEF bejMinRootSflvSize
<1>1. CASE streamLen < bejMinRootSflvSize
    <2>1. /\ UNCHANGED <<block, stream, sflv, payloadLen, state, stack, history>>
          /\ pc' = "done"
          /\ ret' = "InvalidSize"
          /\ operationCount' = operationCount
          /\ calls' = <<>>
          /\ failed' = failed
        BY <1>0, <1>1 DEF ReadRoot, Reject, Return
    <2> QED BY <2>1, NoCallbacks, ControlStepType DEF PCs, TypeOK, Statuses, state, history
<1>2. CASE ~(streamLen < bejMinRootSflvSize)
    <2>1. PICK t \in TuplesAt(0) :
              /\ Read(t, 0)
              /\ sflv' = t
              /\ UNCHANGED <<block, operationCount, state, stack, failed, history>>
              /\ calls' = <<>>
              /\ \/ pc' = "done" /\ ret' = RootStatus(t) /\ payloadLen' = payloadLen
                 \/ pc' = "loop" /\ ret' = ret /\ payloadLen' = ValueEndOffset(t, 0)
        BY <1>2 DEF ReadRoot, Reject, Return
    <2>2. RootStatus(t) \in Statuses
        BY DEF RootStatus, Statuses
    <2>3. /\ t \in Tuples
          /\ DOMAIN stream' \subseteq Nat
          /\ \A o \in DOMAIN stream' : stream'[o] \in Tuples
        BY <2>1, ReadFacts
    <2>4. ValueEndOffset(t, 0) \in Nat
        BY <2>3, ValueEndNat
    <2>5. /\ payloadLen' \in Nat
          /\ pc' \in PCs
          /\ ret' \in Statuses \cup {"none"}
        BY <2>1, <2>2, <2>4 DEF PCs, TypeOK
    <2> QED BY <2>1, <2>3, <2>5, NoCallbacks, ReadStepType DEF TypeOK
<1> QED BY <1>1, <1>2

LEMMA ReadTupleStepType ==
    ASSUME TypeOK, ReadTuple
    PROVE  TypeOK'
<1>0. encodedStreamOffset \in Nat /\ operationCount' \in Nat
    <2>1. encodedStreamOffset \in Nat /\ operationCount \in Nat
        BY DEF TypeOK
    <2>2. operationCount' = operationCount + 1
        BY DEF ReadTuple, CountOperation
    <2> QED BY <2>1, <2>2
<1>1. PICK t \in TuplesAt(encodedStreamOffset) :
          /\ Read(t, encodedStreamOffset)
          /\ sflv' = t
          /\ \/ Reject("InvalidSize")
             \/ Callbacks(
                    IF t.ro THEN <<Call("ReadonlyProperty", "")>> ELSE <<>>,
                    pc' = "handle" /\ UNCHANGED <<ret, state, stack, history>>,
                    ReturnCallbackError)
    BY DEF ReadTuple
<1>2. /\ t \in Tuples
      /\ DOMAIN stream' \subseteq Nat
      /\ \A o \in DOMAIN stream' : stream'[o] \in Tuples
    BY <1>0, <1>1, ReadFacts
<1>3. UNCHANGED <<block, payloadLen>>
    BY DEF ReadTuple
<1>4. CASE Reject("InvalidSize")
    <2>1. /\ UNCHANGED <<state, stack, history, failed>>
          /\ pc' = "done" /\ ret' = "InvalidSize" /\ calls' = <<>>
        BY <1>4 DEF Reject, Return
    <2> QED BY <1>0, <1>1, <1>2, <1>3, <2>1, NoCallbacks, ReadStepType
            DEF TypeOK, PCs, Statuses
<1>5. CASE Callbacks(
               IF t.ro THEN <<Call("ReadonlyProperty", "")>> ELSE <<>>,
               pc' = "handle" /\ UNCHANGED <<ret, state, stack, history>>,
               ReturnCallbackError)
    <2> DEFINE cs == IF t.ro THEN <<Call("ReadonlyProperty", "")>> ELSE <<>>
               Then == pc' = "handle" /\ UNCHANGED <<ret, state, stack, history>>
    <2>1. Call("ReadonlyProperty", "") \in Callback
        BY CallType, NameAssumption DEF CallbackNames
    <2>2. cs \in Seq(Callback)
        BY <2>1, CallSequences
    <2>3. /\ calls' \in Seq(Callback)
          /\ failed' \in BOOLEAN
          /\ Then \/ ReturnCallbackError
        <3>1. Callbacks(cs, Then, ReturnCallbackError)
            BY <1>5
        <3> HIDE DEF cs, Then
        <3> QED BY <2>2, <3>1, CallbacksType
    <2>4. /\ UNCHANGED <<state, stack, history>>
          /\ pc' \in PCs /\ ret' \in Statuses \cup {"none"}
        BY <2>3 DEF ReturnCallbackError, Return, PCs, Statuses, TypeOK
    <2> QED BY <1>0, <1>1, <1>2, <1>3, <2>3, <2>4, ReadStepType DEF TypeOK
<1> QED BY <1>1, <1>4, <1>5

\* TupleInv says which tuple a handler works on, and so that the offset it moves
\* to is a natural number.
LEMMA HandleStepType ==
    ASSUME TypeOK, TupleInv, Handle
    PROVE  TypeOK'
<1>0. HandlerStep
    BY HandlerSteps
<1>1. /\ pc = "handle"
      /\ UNCHANGED <<block, stream, sflv, payloadLen, operationCount>>
      /\ calls' \in Seq(Callback)
      /\ failed' \in BOOLEAN
    BY <1>0 DEF HandlerStep
<1>2. /\ addPropertyName \in BOOLEAN
      /\ mainDictPropOffset \in PropertyOffsets
      /\ annoDictPropOffset \in PropertyOffsets
      /\ encodedStreamOffset \in Nat
      /\ stack \in Seq(StackEntry)
      /\ path \in Seq([dict: SchemaTypes, child: PropertyOffsets])
      /\ overran \in BOOLEAN
      /\ ret \in Statuses \cup {"none"}
      /\ operationCount \in Nat
    BY DEF TypeOK
<1>3. valueEndOffset \in Nat /\ bejGetFirstTupleOffset \in Nat /\ ValueStartOffset \in Nat
    <2>1. bejInitSFLVStruct(sflv, encodedStreamOffset)
        BY <1>1 DEF TupleInv
    <2>2. sflv.hdr \in Nat
        BY <1>1, SflvType
    <2>3. ValueStartOffset = encodedStreamOffset + sflv.hdr
        BY <1>1, <2>1, TupleExtent
    <2> QED BY <1>1, <1>2, <2>1, <2>2, <2>3, TupleExtent, OffsetTypes
<1>4. CASE RejectStep
    <2>1. /\ UNCHANGED <<state, stack, history>>
          /\ pc' = "done" /\ ret' \in Statuses
        BY <1>4 DEF RejectStep
    <2> QED BY <1>1, <1>2, <2>1, ControlStepType DEF PCs, state, history
<1>5. CASE ConsumeStep
    <2>1. /\ UNCHANGED <<addPropertyName, mainDictPropOffset, annoDictPropOffset, stack, path>>
          /\ encodedStreamOffset' = valueEndOffset
          /\ overran' \in BOOLEAN
          /\ pc' \in {"done", "ending"}
          /\ ret' \in Statuses \cup {"none"}
        BY <1>2, <1>5 DEF ConsumeStep, Statuses
    <2> QED BY <1>1, <1>2, <1>3, <2>1, ControlStepType DEF PCs, Endings
<1>6. CASE EmptyStep
    <2>1. /\ UNCHANGED <<addPropertyName, mainDictPropOffset, annoDictPropOffset, stack, path>>
          /\ encodedStreamOffset' = bejGetFirstTupleOffset
          /\ overran' \in BOOLEAN
          /\ pc' \in {"loop", "emptyEnding"}
          /\ ret' = ret
        BY <1>2, <1>6 DEF EmptyStep
    <2> QED BY <1>1, <1>2, <1>3, <2>1, ControlStepType DEF PCs, Endings
<1>7. ASSUME NEW sectionType \in {"NoType", "Set", "Array"}, NEW first \in Int,
             EnterStep(sectionType, first)
      PROVE  TypeOK'
    <2>1. PICK child \in PropertyOffsets :
              path' = Append(path, [dict |-> sflv.schema, child |-> child])
        BY <1>7 DEF EnterStep
    <2>2. sflv.schema \in SchemaTypes
        BY <1>1, SflvType
    <2>3. path' \in Seq([dict: SchemaTypes, child: PropertyOffsets])
        BY <1>2, <2>1, <2>2
    <2>4. stack' \in Seq(StackEntry)
        <3>1. Ending(sectionType) \in StackEntry
            BY <1>1, EndingType
        <3> QED BY <1>2, <1>7, <3>1 DEF EnterStep
    <2>5. /\ addPropertyName' \in BOOLEAN
          /\ mainDictPropOffset' \in PropertyOffsets
          /\ annoDictPropOffset' \in PropertyOffsets
          /\ encodedStreamOffset' \in {bejGetFirstTupleOffset, ValueStartOffset}
          /\ overran' \in BOOLEAN
          /\ pc' = "loop"
          /\ ret' = ret
        BY <1>2, <1>7 DEF EnterStep
    <2> QED BY <1>1, <1>2, <1>3, <2>3, <2>4, <2>5, ControlStepType DEF PCs
<1> QED BY <1>0, <1>4, <1>5, <1>6, <1>7 DEF HandlerStep

LEMMA EndingStepType ==
    ASSUME TypeOK, LeaveLoop \/ ExceedMaxOperations \/ ProcessEnding
    PROVE  TypeOK'
<1>2. /\ addPropertyName \in BOOLEAN
      /\ mainDictPropOffset \in PropertyOffsets
      /\ annoDictPropOffset \in PropertyOffsets
      /\ encodedStreamOffset \in Nat
      /\ stack \in Seq(StackEntry)
      /\ path \in Seq([dict: SchemaTypes, child: PropertyOffsets])
      /\ overran \in BOOLEAN
      /\ failed \in BOOLEAN
      /\ ret \in Statuses \cup {"none"}
      /\ operationCount \in Nat
    BY DEF TypeOK
<1>3. CASE LeaveLoop
    <2>1. /\ UNCHANGED <<ret, block, stream, sflv, payloadLen, state, stack,
                         operationCount, failed, history>>
          /\ pc' = "finalEnding" /\ calls' = <<>>
        BY <1>3 DEF LeaveLoop
    <2> QED BY <1>2, <2>1, NoCallbacks, ControlStepType DEF PCs, Endings, state, history
<1>4. CASE ExceedMaxOperations
    <2>1. /\ UNCHANGED <<block, stream, sflv, payloadLen, state, stack, failed, history>>
          /\ operationCount' = operationCount + 1
          /\ pc' = "done" /\ ret' = "NotSupported" /\ calls' = <<>>
        BY <1>4 DEF ExceedMaxOperations, CountOperation, Reject, Return
    <2>2. operationCount' \in Nat
        BY <1>2, <2>1
    <2> QED BY <1>2, <2>1, <2>2, NoCallbacks, ControlStepType
            DEF PCs, Statuses, state, history
<1>5. CASE EndStream
    <2>1. /\ UNCHANGED <<block, stream, sflv, payloadLen, state, stack,
                         operationCount, failed, history>>
          /\ pc' \in {"done", "loop"}
          /\ ret' \in {"OK", ret}
          /\ calls' = <<>>
        BY <1>5 DEF EndStream, Return
    <2> QED BY <1>2, <2>1, NoCallbacks, ControlStepType DEF PCs, Statuses, state, history
<1>6. CASE EndProperty
    <2> DEFINE cs == <<Call("PropertyEnd", "")>>
    <2>1. cs \in Seq(Callback)
        BY CallType, CallSequences, NameAssumption DEF CallbackNames
    <2>2. /\ calls' \in Seq(Callback)
          /\ failed' \in BOOLEAN
          /\ AfterEnding \/ AfterEndingFailed
        <3>1. Callbacks(cs, AfterEnding, AfterEndingFailed)
            BY <1>6 DEF EndProperty
        <3> HIDE DEF cs
        <3> QED BY <2>1, <3>1, CallbacksType
    <2>3. /\ pc' \in {"done", "loop"}
          /\ ret' \in {"Unknown", "Callback", ret}
        BY <2>2 DEF AfterEnding, AfterEndingFailed, Return
    <2>4. UNCHANGED <<block, stream, sflv, payloadLen, state, stack,
                      operationCount, history>>
        BY <1>6 DEF EndProperty
    <2> QED BY <1>2, <2>2, <2>3, <2>4, ControlStepType DEF PCs, Statuses, state, history
<1>7. CASE EndSection
    <2> DEFINE cs == EndCallbacks(Top)
               Then == stack' = Pop(stack) /\ path' = Pop(path) /\ UNCHANGED <<pc, ret>>
               Otherwise == AfterEndingFailed /\ UNCHANGED <<stack, path>>
    <2>1. /\ Top \in StackEntry
          /\ Top.addPropertyName \in BOOLEAN
          /\ Top.mainDictPropOffset \in PropertyOffsets
          /\ Top.annoDictPropOffset \in PropertyOffsets
        BY <1>7, TopType DEF EndSection
    <2>2. cs \in Seq(Callback)
        BY <2>1, EndCallbacksType
    <2>3. /\ calls' \in Seq(Callback)
          /\ failed' \in BOOLEAN
          /\ Then \/ Otherwise
        <3>1. Callbacks(cs, Then, Otherwise)
            BY <1>7 DEF EndSection
        <3> HIDE DEF cs, Then, Otherwise
        <3> QED BY <2>2, <3>1, CallbacksType
    <2>4. pc \in Endings
        BY <1>7 DEF EndSection
    <2>5. /\ pc' \in {"done", "loop", pc}
          /\ ret' \in {"Callback", ret}
          /\ stack' \in {stack, Pop(stack)}
          /\ path' \in {path, Pop(path)}
        BY <2>3 DEF AfterEndingFailed, Return
    <2>6. /\ UNCHANGED <<block, stream, sflv, payloadLen, encodedStreamOffset,
                         operationCount, overran>>
          /\ mainDictPropOffset' = Top.mainDictPropOffset
          /\ annoDictPropOffset' = Top.annoDictPropOffset
          /\ addPropertyName' = Top.addPropertyName
        BY <1>7 DEF EndSection
    <2>7. stack' \in Seq(StackEntry)
        BY <1>2, <2>5, PopType
    <2>8. path' \in Seq([dict: SchemaTypes, child: PropertyOffsets])
        BY <1>2, <2>5, PopType
    <2>9. pc' \in PCs /\ pc' # "handle" /\ ret' \in Statuses \cup {"none"}
        BY <1>2, <2>4, <2>5 DEF PCs, Endings, Statuses
    <2> QED BY <1>2, <2>1, <2>3, <2>6, <2>7, <2>8, <2>9, ControlStepType
<1> QED BY <1>3, <1>4, <1>5, <1>6, <1>7 DEF ProcessEnding

LEMMA TypeStep ==
    ASSUME TypeOK, TupleInv, [Next]_vars
    PROVE  TypeOK'
<1>1. CASE UNCHANGED vars
    BY <1>1 DEF TypeOK, vars, state, history
<1> QED BY <1>1, BlockStepType, ReadRootStepType, ReadTupleStepType, HandleStepType,
           EndingStepType DEF Next

LEMMA TupleStep ==
    ASSUME TypeOK, TupleInv, [Next]_vars
    PROVE  TupleInv'
<1> SUFFICES ASSUME pc' = "handle"
             PROVE  /\ encodedStreamOffset' \in DOMAIN stream'
                    /\ sflv' = stream'[encodedStreamOffset']
                    /\ bejInitSFLVStruct(sflv, encodedStreamOffset)'
                    /\ valueEndOffset' <= payloadLen'
                    /\ encodedStreamOffset' < payloadLen'
    BY DEF TupleInv
<1>1. CASE ReadTuple
    <2>0. encodedStreamOffset \in Nat
        BY DEF TypeOK
    <2>1. PICK t \in TuplesAt(encodedStreamOffset) :
              /\ Read(t, encodedStreamOffset)
              /\ sflv' = t
              /\ \/ Reject("InvalidSize")
                 \/ /\ bejInitSFLVStruct(t, encodedStreamOffset)
                    /\ ValueEndOffset(t, encodedStreamOffset) <= payloadLen
                    /\ Callbacks(
                           IF t.ro THEN <<Call("ReadonlyProperty", "")>> ELSE <<>>,
                           pc' = "handle" /\ UNCHANGED <<ret, state, stack, history>>,
                           ReturnCallbackError)
        BY <1>1 DEF ReadTuple
    <2>2. UNCHANGED <<block, payloadLen>> /\ encodedStreamOffset < payloadLen
        BY <1>1 DEF ReadTuple
    <2>3. ~Reject("InvalidSize") /\ ~ReturnCallbackError
        BY DEF Reject, ReturnCallbackError, Return
    <2>4. /\ bejInitSFLVStruct(t, encodedStreamOffset)
          /\ ValueEndOffset(t, encodedStreamOffset) <= payloadLen
          /\ UNCHANGED state
        BY <2>1, <2>3 DEF Callbacks
    <2>5. encodedStreamOffset' = encodedStreamOffset
        BY <2>4 DEF state
    <2>6. /\ encodedStreamOffset \in DOMAIN stream'
          /\ stream'[encodedStreamOffset] = t
        BY <2>0, <2>1, ReadFacts
    <2>7. bejInitSFLVStruct(sflv, encodedStreamOffset)'
        BY <2>1, <2>2, <2>4, <2>5 DEF bejInitSFLVStruct, AddU32, streamLen
    <2>8. valueEndOffset' = ValueEndOffset(t, encodedStreamOffset)
        BY <2>1, <2>5 DEF valueEndOffset, ValueEndOffset, AddU32
    <2> QED BY <2>1, <2>2, <2>4, <2>5, <2>6, <2>7, <2>8
<1>2. CASE UNCHANGED vars
    BY <1>2 DEF TupleInv, vars, state, history, bejInitSFLVStruct, AddU32, streamLen,
                valueEndOffset, ValueEndOffset
<1>3. CASE Handle
    <2>1. HandlerStep
        BY <1>3, HandlerSteps
    <2> QED BY <2>1 DEF HandlerStep, RejectStep, ConsumeStep, EmptyStep, EnterStep
<1>4. CASE bejDecodePldmBlockWithPolicy \/ ReadRoot \/ ExceedMaxOperations \/ LeaveLoop
    BY <1>4 DEF bejDecodePldmBlockWithPolicy, ReadRoot, ExceedMaxOperations, LeaveLoop,
                Reject, Return
<1>5. CASE ProcessEnding
    <2>1. CASE EndSection
        BY <1>5, <2>1 DEF EndSection, Callbacks, AfterEndingFailed, Return, Endings
    <2>2. CASE EndProperty
        BY <1>5, <2>2 DEF EndProperty, Callbacks, AfterEnding, AfterEndingFailed, Return
    <2>3. CASE EndStream
        BY <1>5, <2>3 DEF EndStream, Return
    <2> QED BY <1>5, <2>1, <2>2, <2>3 DEF ProcessEnding
<1> QED BY <1>1, <1>2, <1>3, <1>4, <1>5 DEF Next

LEMMA TypeInit ==
    ASSUME Init
    PROVE  TypeOK /\ TupleInv
<1>1. HeaderSize \in PropertyOffsets /\ HeaderSize + PropertySize \in PropertyOffsets
    BY DEF HeaderSize, PropertySize, PropertyOffsets, UInt16
<1>2. /\ mainDictPropOffset \in PropertyOffsets
      /\ annoDictPropOffset \in PropertyOffsets
    BY <1>1 DEF Init, InitParams, bejDictGetPropertyHeadOffset,
                bejDictGetFirstAnnotatedPropertyOffset
<1>3. /\ pc = "block" /\ ret = "none" /\ block \in Blocks /\ stream = <<>>
      /\ sflv = ZeroSflv /\ payloadLen = 0 /\ addPropertyName = FALSE
      /\ encodedStreamOffset = 0 /\ stack = <<>> /\ operationCount = 0
      /\ calls = <<>> /\ failed = FALSE /\ path = <<>> /\ overran = FALSE
    BY DEF Init, InitParams
<1>4. DOMAIN stream = {}
    BY <1>3
<1>5. DOMAIN stream \subseteq Nat /\ \A o \in DOMAIN stream : stream[o] \in Tuples
    BY <1>4
<1>6. /\ stack \in Seq(StackEntry)
      /\ calls \in Seq(Callback)
      /\ path \in Seq([dict: SchemaTypes, child: PropertyOffsets])
    BY <1>3
<1>7. pc \in PCs /\ pc # "handle"
    BY <1>3 DEF PCs
<1>8. /\ ret \in Statuses \cup {"none"}
      /\ block \in Blocks
      /\ sflv \in Tuples \cup {ZeroSflv}
      /\ payloadLen \in Nat /\ encodedStreamOffset \in Nat /\ operationCount \in Nat
      /\ addPropertyName \in BOOLEAN /\ failed \in BOOLEAN /\ overran \in BOOLEAN
    BY <1>3
<1>9. TypeOK
    BY <1>2, <1>5, <1>6, <1>7, <1>8 DEF TypeOK
<1> QED BY <1>7, <1>9 DEF TupleInv

\* The state of the decoder is well typed whatever the stream holds: in
\* particular the offset it reads at never becomes negative (lines 68-112), and
\* a handler only ever works on a tuple that was checked (lines 890-904).
THEOREM TypeCorrect == Spec => []TypeOK
<1>1. Init => TypeOK /\ TupleInv
    BY TypeInit
<1>2. TypeOK /\ TupleInv /\ [Next]_vars => (TypeOK /\ TupleInv)'
    BY TypeStep, TupleStep
<1> QED BY <1>1, <1>2, PTL DEF Spec

-----------------------------------------------------------------------------
(* What the steps of bejDecode and bejProcessEnding do, for the invariants   *)
(* below.                                                                    *)

LEMMA BlockFacts ==
    ASSUME bejDecodePldmBlockWithPolicy
    PROVE  /\ pc = "block"
           /\ UNCHANGED <<block, stream, payloadLen, state, stack,
                          operationCount, failed, history>>
           /\ \/ pc' = "done" /\ ret' # "OK"
              \/ pc' = "root" /\ ret' = ret /\ ~(block.blockLength < PldmHeaderSize)
BY DEF bejDecodePldmBlockWithPolicy, BlockStatus, Reject, Return

LEMMA ReadRootFacts ==
    ASSUME TypeOK, ReadRoot
    PROVE  /\ pc = "root"
           /\ UNCHANGED <<block, state, stack, operationCount, failed, history>>
           /\ \/ pc' = "done" /\ ret' # "OK"
              \/ /\ pc' = "loop"
                 /\ ret' = ret
                 /\ 0 \in DOMAIN stream'
                 /\ payloadLen' = ValueEndOffset(stream'[0], 0)
                 /\ ~(payloadLen' > streamLen)
<1>1. /\ pc = "root"
      /\ UNCHANGED <<block, operationCount>>
    BY DEF ReadRoot
<1>2. CASE Reject("InvalidSize")
    BY <1>1, <1>2 DEF Reject, Return
<1>3. CASE \E t \in TuplesAt(0) :
               /\ Read(t, 0)
               /\ \/ RootStatus(t) # "OK" /\ Reject(RootStatus(t))
                  \/ /\ RootStatus(t) = "OK"
                     /\ payloadLen' = ValueEndOffset(t, 0)
                     /\ pc' = "loop"
                     /\ UNCHANGED <<ret, state, stack, failed, history>>
    <2>1. PICK t \in TuplesAt(0) :
              /\ Read(t, 0)
              /\ \/ RootStatus(t) # "OK" /\ Reject(RootStatus(t))
                 \/ /\ RootStatus(t) = "OK"
                    /\ payloadLen' = ValueEndOffset(t, 0)
                    /\ pc' = "loop"
                    /\ UNCHANGED <<ret, state, stack, failed, history>>
        BY <1>3
    <2>2. 0 \in DOMAIN stream' /\ stream'[0] = t
        BY <2>1, ReadFacts
    <2>3. CASE RootStatus(t) # "OK" /\ Reject(RootStatus(t))
        BY <1>1, <2>3 DEF Reject, Return
    <2>4. CASE /\ RootStatus(t) = "OK"
               /\ payloadLen' = ValueEndOffset(t, 0)
               /\ pc' = "loop"
               /\ UNCHANGED <<ret, state, stack, failed, history>>
        <3>1. ~(ValueEndOffset(t, 0) > streamLen)
            BY <2>4 DEF RootStatus
        <3> QED BY <1>1, <2>2, <2>4, <3>1
    <2> QED BY <2>1, <2>3, <2>4
<1> QED BY <1>2, <1>3 DEF ReadRoot

LEMMA ReadTupleFacts ==
    ASSUME TypeOK, ReadTuple
    PROVE  /\ pc = "loop"
           /\ encodedStreamOffset < payloadLen
           /\ operationCount' = operationCount + 1
           /\ operationCount' <= MaxOperations
           /\ UNCHANGED <<block, payloadLen, state, stack, history>>
           /\ failed => failed'
           /\ \A o \in DOMAIN stream : o \in DOMAIN stream' /\ stream'[o] = stream[o]
           /\ \/ pc' = "done" /\ ret' # "OK"
              \/ pc' = "handle" /\ ret' = ret
<1>1. PICK t \in TuplesAt(encodedStreamOffset) :
          /\ Read(t, encodedStreamOffset)
          /\ \/ Reject("InvalidSize")
             \/ Callbacks(
                    IF t.ro THEN <<Call("ReadonlyProperty", "")>> ELSE <<>>,
                    pc' = "handle" /\ UNCHANGED <<ret, state, stack, history>>,
                    ReturnCallbackError)
    BY DEF ReadTuple
<1>2. encodedStreamOffset \in Nat
    BY DEF TypeOK
<1>3. \A o \in DOMAIN stream : o \in DOMAIN stream' /\ stream'[o] = stream[o]
    BY <1>1, <1>2, ReadFacts
<1>4. /\ UNCHANGED <<state, stack, history>>
      /\ failed => failed'
      /\ \/ pc' = "done" /\ ret' # "OK"
         \/ pc' = "handle" /\ ret' = ret
    <2>1. \/ Reject("InvalidSize")
          \/ pc' = "handle" /\ UNCHANGED <<ret, state, stack, failed, history>>
          \/ ReturnCallbackError /\ failed' = TRUE
        BY <1>1 DEF Callbacks
    <2> QED BY <2>1 DEF Reject, ReturnCallbackError, Return
<1> QED BY <1>3, <1>4 DEF ReadTuple, CountOperation

LEMMA ExceedFacts ==
    ASSUME ExceedMaxOperations
    PROVE  /\ pc = "loop" /\ pc' = "done" /\ ret' # "OK"
           /\ encodedStreamOffset < payloadLen
           /\ operationCount' = operationCount + 1
           /\ operationCount' > MaxOperations
           /\ UNCHANGED <<block, stream, payloadLen, state, stack, failed, history>>
BY DEF ExceedMaxOperations, CountOperation, Reject, Return

LEMMA EndSectionFacts ==
    ASSUME EndSection
    PROVE  /\ pc \in Endings
           /\ stack # <<>>
           /\ encodedStreamOffset = Top.streamEndOffset
           /\ addPropertyName' = Top.addPropertyName
           /\ mainDictPropOffset' = Top.mainDictPropOffset
           /\ annoDictPropOffset' = Top.annoDictPropOffset
           /\ UNCHANGED <<block, stream, payloadLen, encodedStreamOffset,
                          operationCount, overran>>
           /\ failed => failed'
           /\ \/ stack' = Pop(stack) /\ path' = Pop(path) /\ UNCHANGED <<pc, ret>>
              \/ /\ failed' /\ UNCHANGED <<stack, path>>
                 /\ \/ pc' = "done" /\ ret' # "OK"
                    \/ pc' = "loop" /\ ret' = ret
BY DEF EndSection, SectionEndsHere, Callbacks, AfterEndingFailed, Return

\* LeaveLoop, and the steps of bejProcessEnding that leave the stack as it is.
LEMMA EndFacts ==
    ASSUME LeaveLoop \/ EndProperty \/ EndStream
    PROVE  /\ pc \in {"loop"} \cup Endings
           /\ UNCHANGED <<block, stream, payloadLen, state, stack, operationCount,
                          history>>
           /\ failed => failed'
           /\ \/ pc' = "done" /\ (ret' = "OK" => stack = <<>>)
              \/ pc' \in {"loop", "finalEnding"} /\ ret' = ret
<1>1. CASE LeaveLoop
    BY <1>1 DEF LeaveLoop
<1>2. CASE EndProperty
    <2>1. /\ pc \in Endings
          /\ UNCHANGED <<block, stream, payloadLen, state, stack, operationCount, history>>
          /\ \/ AfterEnding /\ failed' = failed
             \/ AfterEndingFailed /\ failed' = TRUE
        BY <1>2 DEF EndProperty, Callbacks
    <2> QED BY <2>1 DEF AfterEnding, AfterEndingFailed, Return
<1>3. CASE EndStream
    BY <1>3 DEF EndStream, Return
<1> QED BY <1>1, <1>2, <1>3

-----------------------------------------------------------------------------
(* Where names are added. *)

LEMMA AppendFacts ==
    ASSUME NEW S, NEW s \in Seq(S), NEW e \in S
    PROVE  /\ Append(s, e) \in Seq(S)
           /\ Append(s, e) # <<>>
           /\ Len(s) \in Nat
           /\ DOMAIN s = 1 .. Len(s)
           /\ Len(Append(s, e)) = Len(s) + 1
           /\ DOMAIN Append(s, e) = 1 .. Len(s) + 1
           /\ \A i \in 1 .. Len(s) : Append(s, e)[i] = s[i]
           /\ Append(s, e)[Len(s) + 1] = e
BY AppendProperties, LenProperties

LEMMA NamesPushed ==
    ASSUME TypeOK, NamesInv, pc = "handle",
           NEW sectionType \in {"NoType", "Set", "Array"}, NEW first \in Int,
           EnterStep(sectionType, first), ~failed
    PROVE  /\ addPropertyName' <=> stack' # <<>> /\ InnerNames(Top)'
           /\ \A i \in DOMAIN stack' :
                 stack'[i].addPropertyName <=> i > 1 /\ InnerNames(stack'[i - 1])
<1> DEFINE e == Ending(sectionType)
           n == Len(stack)
<1>1. /\ e \in StackEntry
      /\ e.sectionType = sectionType
      /\ e.addPropertyName = addPropertyName
    BY EndingType
<1>2. stack \in Seq(StackEntry) /\ addPropertyName \in BOOLEAN
    BY DEF TypeOK
<1>3. stack' = Append(stack, e) /\ addPropertyName' = (sectionType # "Array")
    BY DEF EnterStep
<1> HIDE DEF e
<1>4. /\ stack' # <<>>
      /\ n \in Nat
      /\ DOMAIN stack = 1 .. n
      /\ Len(stack') = n + 1
      /\ DOMAIN stack' = 1 .. n + 1
      /\ \A i \in 1 .. n : stack'[i] = stack[i]
      /\ stack'[n + 1] = e
    BY <1>1, <1>2, <1>3, AppendFacts
<1>5. addPropertyName' <=> stack' # <<>> /\ InnerNames(Top)'
    BY <1>1, <1>3, <1>4 DEF InnerNames, Top
<1>6. /\ addPropertyName <=> stack # <<>> /\ InnerNames(Top)
      /\ \A i \in DOMAIN stack :
            stack[i].addPropertyName <=> i > 1 /\ InnerNames(stack[i - 1])
    BY DEF NamesInv
<1>7. ASSUME NEW i \in DOMAIN stack'
      PROVE  stack'[i].addPropertyName <=> i > 1 /\ InnerNames(stack'[i - 1])
    <2>1. CASE i \in 1 .. n
        <3>1. stack'[i] = stack[i] /\ (i > 1 => stack'[i - 1] = stack[i - 1])
            BY <1>4, <2>1
        <3> QED BY <1>4, <1>6, <2>1, <3>1
    <2>2. CASE i = n + 1
        <3>1. stack = <<>> <=> n = 0
            BY <1>2, EmptySeq
        <3>2. stack'[i].addPropertyName <=> addPropertyName
            BY <1>1, <1>2, <1>4, <2>2
        <3>3. n > 0 => stack'[i - 1] = Top
            BY <1>4, <2>2 DEF Top
        <3> QED BY <1>4, <1>6, <2>2, <3>1, <3>2, <3>3
    <2> QED BY <1>4, <2>1, <2>2
<1> QED BY <1>5, <1>7

LEMMA NamesPopped ==
    ASSUME TypeOK, NamesInv, EndSection, ~failed'
    PROVE  /\ addPropertyName' <=> stack' # <<>> /\ InnerNames(Top)'
           /\ \A i \in DOMAIN stack' :
                 stack'[i].addPropertyName <=> i > 1 /\ InnerNames(stack'[i - 1])
<1> DEFINE n == Len(stack)
<1>1. /\ stack # <<>>
      /\ addPropertyName' = Top.addPropertyName
      /\ stack' = Pop(stack)
      /\ ~failed
    BY EndSectionFacts
<1>2. stack \in Seq(StackEntry) /\ Top = stack[n] /\ Top.addPropertyName \in BOOLEAN
    BY <1>1, TopType DEF TypeOK
<1>3. /\ n \in Nat \ {0}
      /\ Len(stack') = n - 1
      /\ DOMAIN stack' = 1 .. n - 1
      /\ \A i \in 1 .. n - 1 : stack'[i] = stack[i]
      /\ stack' = <<>> <=> n = 1
    BY <1>1, <1>2, PopFacts
<1>4. DOMAIN stack = 1 .. n
    BY <1>2, LenProperties
<1>5. \A i \in 1 .. n :
          stack[i].addPropertyName <=> i > 1 /\ InnerNames(stack[i - 1])
    BY <1>1, <1>4 DEF NamesInv
<1>6. addPropertyName' <=> n > 1 /\ InnerNames(stack[n - 1])
    BY <1>1, <1>2, <1>3, <1>5
<1>7. n > 1 => Top' = stack[n - 1]
    BY <1>3 DEF Top
<1>8. addPropertyName' <=> stack' # <<>> /\ InnerNames(Top)'
    BY <1>3, <1>6, <1>7 DEF InnerNames
<1>9. ASSUME NEW i \in DOMAIN stack'
      PROVE  stack'[i].addPropertyName <=> i > 1 /\ InnerNames(stack'[i - 1])
    <2>1. i \in 1 .. n /\ stack'[i] = stack[i] /\ (i > 1 => stack'[i - 1] = stack[i - 1])
        BY <1>3
    <2> QED BY <1>5, <2>1
<1> QED BY <1>8, <1>9

LEMMA NamesStep ==
    ASSUME TypeOK, NamesInv, [Next]_vars
    PROVE  NamesInv'
<1> SUFFICES ASSUME ~failed'
             PROVE  /\ addPropertyName' <=> stack' # <<>> /\ InnerNames(Top)'
                    /\ \A i \in DOMAIN stack' :
                          stack'[i].addPropertyName <=>
                              i > 1 /\ InnerNames(stack'[i - 1])
    BY DEF NamesInv, InnerNames
<1>1. ASSUME UNCHANGED <<addPropertyName, stack>>, ~failed
      PROVE  /\ addPropertyName' <=> stack' # <<>> /\ InnerNames(Top)'
             /\ \A i \in DOMAIN stack' :
                   stack'[i].addPropertyName <=> i > 1 /\ InnerNames(stack'[i - 1])
    BY <1>1 DEF NamesInv, InnerNames, Top
<1>2. CASE bejDecodePldmBlockWithPolicy
    BY <1>1, <1>2, BlockFacts DEF state
<1>3. CASE ReadRoot
    BY <1>1, <1>3, ReadRootFacts DEF state
<1>4. CASE ExceedMaxOperations
    BY <1>1, <1>4, ExceedFacts DEF state
<1>5. CASE ReadTuple
    BY <1>1, <1>5, ReadTupleFacts DEF state
<1>6. CASE LeaveLoop \/ EndProperty \/ EndStream
    BY <1>1, <1>6, EndFacts DEF state
<1>7. CASE Handle
    <2>1. HandlerStep
        BY <1>7, HandlerSteps
    <2>2. ~failed
        BY <2>1 DEF HandlerStep
    <2>3. CASE RejectStep \/ ConsumeStep \/ EmptyStep
        BY <1>1, <2>2, <2>3 DEF RejectStep, ConsumeStep, EmptyStep, state
    <2>4. ASSUME NEW sectionType \in {"NoType", "Set", "Array"}, NEW first \in Int,
                 EnterStep(sectionType, first)
          PROVE  /\ addPropertyName' <=> stack' # <<>> /\ InnerNames(Top)'
                 /\ \A i \in DOMAIN stack' :
                       stack'[i].addPropertyName <=> i > 1 /\ InnerNames(stack'[i - 1])
        <3>1. pc = "handle"
            BY <2>1 DEF HandlerStep
        <3> QED BY <2>2, <2>4, <3>1, NamesPushed
    <2> QED BY <2>1, <2>3, <2>4 DEF HandlerStep
<1>8. CASE EndSection
    BY <1>8, NamesPopped
<1>9. CASE UNCHANGED vars
    BY <1>1, <1>9 DEF vars, state
<1> QED BY <1>2, <1>3, <1>4, <1>5, <1>6, <1>7, <1>8, <1>9 DEF Next, ProcessEnding

\* Names are added exactly to what is directly inside a set or an annotation.
THEOREM NamesOnlyInSetsHolds == Spec => []NamesOnlyInSets
<1>1. Init => TypeOK /\ TupleInv
    BY TypeInit
<1>2. Init => NamesInv
    <2>1. ASSUME Init PROVE NamesInv
        <3>1. stack = <<>> /\ addPropertyName = FALSE
            BY <2>1 DEF Init, InitParams
        <3>2. DOMAIN stack = {}
            BY <3>1
        <3> QED BY <3>1, <3>2 DEF NamesInv
    <2> QED BY <2>1
<1>3. TypeOK /\ TupleInv /\ NamesInv /\ [Next]_vars => (TypeOK /\ TupleInv /\ NamesInv)'
    BY TypeStep, TupleStep, NamesStep
<1>4. NamesInv => NamesOnlyInSets
    BY DEF NamesInv, NamesOnlyInSets, InnerNames
<1> QED BY <1>1, <1>2, <1>3, <1>4, PTL DEF Spec

-----------------------------------------------------------------------------
(* Where each dictionary is read.                                            *)

\* What is right outside of a section depends on the sections around it only.
LEMMA ContextKept ==
    ASSUME NEW n \in Nat,
           \A i \in 1 .. n : path'[i] = path[i] /\ stack'[i] = stack[i],
           NEW main, NEW anno, RightContext(n, main, anno)
    PROVE  RightContext(n, main, anno)'
<1>1. NestedAnnotation(n)' <=> NestedAnnotation(n)
    BY DEF NestedAnnotation
<1>2. \A i \in 1 .. n : \A j \in i + 1 .. n : j \in 1 .. n
    OBVIOUS
<1>3. ASSUME NEW offset, NEW dict, NEW outermost, IsContext(offset, n, dict, outermost)
      PROVE  IsContext(offset, n, dict, outermost)'
    BY <1>2, <1>3 DEF IsContext
<1> QED BY <1>1, <1>3 DEF RightContext

\* The context inside of a section just entered.
LEMMA ContextEntered ==
    ASSUME NEW n \in Nat,
           \A i \in 1 .. n : path'[i] = path[i],
           NEW dict, NEW outermost, NEW offset,
           \/ path'[n + 1].dict = dict /\ path'[n + 1].child = offset
           \/ path'[n + 1].dict # dict /\ IsContext(offset, n, dict, outermost)
    PROVE  IsContext(offset, n + 1, dict, outermost)'
<1>1. CASE path'[n + 1].dict = dict /\ path'[n + 1].child = offset
    <2>1. n + 1 \in 1 .. n + 1 /\ n + 1 + 1 .. n + 1 = {}
        OBVIOUS
    <2> QED BY <1>1, <2>1 DEF IsContext
<1>2. CASE path'[n + 1].dict # dict /\ IsContext(offset, n, dict, outermost)
    <2>1. \A i \in 1 .. n + 1 : i \in 1 .. n \/ i = n + 1
        OBVIOUS
    <2>2. CASE offset = outermost /\ \A i \in 1 .. n : path[i].dict # dict
        BY <1>2, <2>1, <2>2 DEF IsContext
    <2>3. CASE \E i \in 1 .. n :
                  /\ path[i].dict = dict
                  /\ path[i].child = offset
                  /\ \A j \in i + 1 .. n : path[j].dict # dict
        <3>1. PICK i \in 1 .. n :
                  /\ path[i].dict = dict
                  /\ path[i].child = offset
                  /\ \A j \in i + 1 .. n : path[j].dict # dict
            BY <2>3
        <3>2. i \in 1 .. n + 1 /\ path'[i] = path[i]
            OBVIOUS
        <3>3. \A j \in i + 1 .. n + 1 : path'[j].dict # dict
            <4> TAKE j \in i + 1 .. n + 1
            <4>1. (j \in i + 1 .. n /\ j \in 1 .. n) \/ j = n + 1
                OBVIOUS
            <4> QED BY <1>2, <3>1, <4>1
        <3> QED BY <3>1, <3>2, <3>3 DEF IsContext
    <2> QED BY <1>2, <2>2, <2>3 DEF IsContext
<1> QED BY <1>1, <1>2

LEMMA ContextPushed ==
    ASSUME TypeOK, ContextInv, pc = "handle",
           NEW sectionType \in {"NoType", "Set", "Array"}, NEW first \in Int,
           EnterStep(sectionType, first), ~failed, ~failed'
    PROVE  ContextInv'
<1> PICK n : n = Len(stack)
    OBVIOUS
<1> DEFINE e == Ending(sectionType)
<1>1. /\ stack \in Seq(StackEntry)
      /\ path \in Seq([dict: SchemaTypes, child: PropertyOffsets])
      /\ sflv.schema \in SchemaTypes
    BY SflvType DEF TypeOK
<1>2. /\ Len(path) = n
      /\ \A i \in 1 .. n :
            RightContext(i - 1, stack[i].mainDictPropOffset, stack[i].annoDictPropOffset)
      /\ RightContext(n, mainDictPropOffset, annoDictPropOffset)
    BY DEF ContextInv
<1>3. PICK child \in PropertyOffsets :
          /\ path' = Append(path, [dict |-> sflv.schema, child |-> child])
          /\ sflv.schema = "Primary" =>
                mainDictPropOffset' = child /\ annoDictPropOffset' = annoDictPropOffset
          /\ sflv.schema = "Annotation" /\ sectionType # "NoType" =>
                mainDictPropOffset' = mainDictPropOffset /\ annoDictPropOffset' = child
    BY DEF EnterStep
<1> DEFINE section == [dict |-> sflv.schema, child |-> child]
<1>4. /\ e \in StackEntry /\ e.sectionType = sectionType
      /\ e.mainDictPropOffset = mainDictPropOffset
      /\ e.annoDictPropOffset = annoDictPropOffset
      /\ stack' = Append(stack, e)
    BY EndingType DEF Ending, EnterStep
<1>5. /\ section \in [dict: SchemaTypes, child: PropertyOffsets]
      /\ section.dict = sflv.schema /\ section.child = child
      /\ path' = Append(path, section)
    BY <1>1, <1>3
<1> HIDE DEF e, section
<1>6. /\ n \in Nat
      /\ Len(stack') = n + 1
      /\ \A i \in 1 .. n : stack'[i] = stack[i]
      /\ stack'[n + 1] = e
    BY <1>1, <1>4, AppendFacts
<1>7. /\ Len(path') = n + 1
      /\ \A i \in 1 .. n : path'[i] = path[i]
      /\ path'[n + 1] = section
    BY <1>1, <1>2, <1>5, AppendFacts
<1>8. ASSUME NEW i \in 1 .. n + 1
      PROVE  RightContext(i - 1, stack[i].mainDictPropOffset, stack[i].annoDictPropOffset)'
    <2>1. PICK main, anno :
              /\ main = stack'[i].mainDictPropOffset /\ anno = stack'[i].annoDictPropOffset
              /\ RightContext(i - 1, main, anno)
        <3>1. CASE i \in 1 .. n
            BY <1>2, <1>6, <3>1
        <3>2. CASE i = n + 1
            <4>1. i - 1 = n
                BY <1>6, <3>2
            <4> QED BY <1>2, <1>4, <1>6, <3>2, <4>1
        <3> QED BY <1>6, <3>1, <3>2
    <2>2. i - 1 \in Nat /\ \A j \in 1 .. i - 1 : path'[j] = path[j] /\ stack'[j] = stack[j]
        BY <1>6, <1>7
    <2>3. RightContext(i - 1, main, anno)'
        BY <2>1, <2>2, ContextKept
    <2> QED BY <2>1, <2>3 DEF RightContext
<1>9. RightContext(n + 1, mainDictPropOffset, annoDictPropOffset)'
    <2> SUFFICES ASSUME ~NestedAnnotation(n + 1)', NEW main, NEW anno,
                        main = mainDictPropOffset', anno = annoDictPropOffset'
                 PROVE  /\ IsContext(main, n + 1, "Primary", bejDictGetPropertyHeadOffset)'
                        /\ IsContext(anno, n + 1, "Annotation",
                                     bejDictGetFirstAnnotatedPropertyOffset)'
        BY DEF RightContext
    <2>1. ~NestedAnnotation(n)
        <3>1. \A i \in 1 .. n : i \in 1 .. n + 1
            BY <1>6
        <3> QED BY <1>6, <1>7, <3>1 DEF NestedAnnotation
    <2>2. ~(sectionType = "NoType" /\ sflv.schema = "Annotation")
        <3>1. n + 1 \in 1 .. n + 1
            BY <1>6
        <3> QED BY <1>4, <1>5, <1>6, <1>7, <3>1 DEF NestedAnnotation
    <2>3. /\ IsContext(mainDictPropOffset, n, "Primary", bejDictGetPropertyHeadOffset)
          /\ IsContext(annoDictPropOffset, n, "Annotation", bejDictGetFirstAnnotatedPropertyOffset)
        BY <1>2, <2>1 DEF RightContext
    <2>4. CASE sflv.schema = "Primary"
        <3>1. main = child /\ anno = annoDictPropOffset
            BY <1>3, <2>4
        <3>2. path'[n + 1].dict = "Primary" /\ path'[n + 1].child = child
            BY <1>5, <1>7, <2>4
        <3> QED BY <1>6, <1>7, <2>3, <3>1, <3>2, ContextEntered
    <2>5. CASE sflv.schema = "Annotation" /\ sectionType # "NoType"
        <3>1. main = mainDictPropOffset /\ anno = child
            BY <1>3, <2>5
        <3>2. path'[n + 1].dict = "Annotation" /\ path'[n + 1].child = child
            BY <1>5, <1>7, <2>5
        <3> QED BY <1>6, <1>7, <2>3, <3>1, <3>2, ContextEntered
    <2> QED BY <1>1, <2>2, <2>4, <2>5 DEF SchemaTypes
<1> QED BY <1>6, <1>7, <1>8, <1>9 DEF ContextInv

LEMMA ContextPopped ==
    ASSUME TypeOK, ContextInv, EndSection, ~failed'
    PROVE  ContextInv'
<1> PICK n : n = Len(stack)
    OBVIOUS
<1>1. /\ stack # <<>>
      /\ mainDictPropOffset' = Top.mainDictPropOffset
      /\ annoDictPropOffset' = Top.annoDictPropOffset
      /\ stack' = Pop(stack) /\ path' = Pop(path)
      /\ ~failed
    BY EndSectionFacts
<1>2. /\ stack \in Seq(StackEntry)
      /\ path \in Seq([dict: SchemaTypes, child: PropertyOffsets])
    BY DEF TypeOK
<1>3. /\ Len(path) = n
      /\ \A i \in 1 .. n :
            RightContext(i - 1, stack[i].mainDictPropOffset, stack[i].annoDictPropOffset)
    BY <1>1 DEF ContextInv
<1>4. /\ n \in Nat \ {0}
      /\ Len(stack') = n - 1
      /\ \A i \in 1 .. n - 1 : stack'[i] = stack[i]
    BY <1>1, <1>2, PopFacts
<1>5. path # <<>>
    BY <1>3, <1>4, EmptySeq
<1>6. /\ Len(path') = n - 1
      /\ \A i \in 1 .. n - 1 : path'[i] = path[i]
    BY <1>1, <1>2, <1>3, <1>5, PopFacts
<1>7. ASSUME NEW i \in 1 .. n, NEW main, NEW anno,
             main = stack[i].mainDictPropOffset, anno = stack[i].annoDictPropOffset
      PROVE  RightContext(i - 1, main, anno)'
    <2>1. i - 1 \in Nat /\ \A j \in 1 .. i - 1 : path'[j] = path[j] /\ stack'[j] = stack[j]
        BY <1>4, <1>6
    <2>2. RightContext(i - 1, main, anno)
        BY <1>3, <1>7
    <2> QED BY <2>1, <2>2, ContextKept
<1>8. ASSUME NEW i \in 1 .. n - 1
      PROVE  RightContext(i - 1, stack[i].mainDictPropOffset, stack[i].annoDictPropOffset)'
    <2>1. PICK main, anno :
              main = stack'[i].mainDictPropOffset /\ anno = stack'[i].annoDictPropOffset
        OBVIOUS
    <2>2. i \in 1 .. n /\ main = stack[i].mainDictPropOffset /\ anno = stack[i].annoDictPropOffset
        BY <1>4, <1>8, <2>1
    <2>3. RightContext(i - 1, main, anno)'
        BY <1>7, <2>2
    <2> QED BY <2>1, <2>3 DEF RightContext
<1>9. RightContext(n - 1, mainDictPropOffset, annoDictPropOffset)'
    BY <1>1, <1>4, <1>7 DEF RightContext, Top
<1> QED BY <1>4, <1>6, <1>8, <1>9 DEF ContextInv

LEMMA ContextStep ==
    ASSUME TypeOK, ContextInv, [Next]_vars
    PROVE  ContextInv'
<1> SUFFICES ASSUME ~failed' PROVE ContextInv'
    BY DEF ContextInv
<1>1. ASSUME UNCHANGED <<mainDictPropOffset, annoDictPropOffset, stack, path>>, ~failed
      PROVE  ContextInv'
    <2>1. ASSUME NEW n, NEW main, NEW anno, RightContext(n, main, anno)
          PROVE  RightContext(n, main, anno)'
        <3>1. NestedAnnotation(n)' <=> NestedAnnotation(n)
            BY <1>1 DEF NestedAnnotation
        <3>2. \A offset, dict, outermost :
                  IsContext(offset, n, dict, outermost)'
                      <=> IsContext(offset, n, dict, outermost)
            BY <1>1 DEF IsContext
        <3> QED BY <2>1, <3>1, <3>2 DEF RightContext
    <2>2. /\ Len(path') = Len(stack')
          /\ \A i \in 1 .. Len(stack) :
                RightContext(i - 1, stack[i].mainDictPropOffset, stack[i].annoDictPropOffset)
          /\ RightContext(Len(stack), mainDictPropOffset, annoDictPropOffset)
        BY <1>1 DEF ContextInv
    <2>3. ASSUME NEW i \in 1 .. Len(stack)
          PROVE  RightContext(i - 1, stack[i].mainDictPropOffset, stack[i].annoDictPropOffset)'
        <3>1. PICK main, anno : main = stack[i].mainDictPropOffset
                                /\ anno = stack[i].annoDictPropOffset
            OBVIOUS
        <3>2. RightContext(i - 1, main, anno)'
            BY <2>1, <2>2, <3>1
        <3> QED BY <1>1, <3>1, <3>2
    <2>4. RightContext(Len(stack), mainDictPropOffset, annoDictPropOffset)'
        <3>1. PICK n, main, anno : /\ n = Len(stack) /\ main = mainDictPropOffset
                                   /\ anno = annoDictPropOffset
            OBVIOUS
        <3>2. RightContext(n, main, anno)'
            BY <2>1, <2>2, <3>1
        <3> QED BY <1>1, <3>1, <3>2
    <2> QED BY <1>1, <2>2, <2>3, <2>4 DEF ContextInv
<1>2. CASE \/ bejDecodePldmBlockWithPolicy \/ ReadRoot \/ ExceedMaxOperations
           \/ ReadTuple \/ LeaveLoop \/ EndProperty \/ EndStream
    <2>1. UNCHANGED <<state, stack, path>> /\ (failed => failed')
        BY <1>2, BlockFacts, ReadRootFacts, ExceedFacts, ReadTupleFacts, EndFacts
        DEF history
    <2> QED BY <1>1, <2>1 DEF state
<1>3. CASE Handle
    <2>1. HandlerStep
        BY <1>3, HandlerSteps
    <2>2. ~failed /\ pc = "handle"
        BY <2>1 DEF HandlerStep
    <2>3. CASE RejectStep \/ ConsumeStep \/ EmptyStep
        BY <1>1, <2>2, <2>3 DEF RejectStep, ConsumeStep, EmptyStep, state, history
    <2>4. ASSUME NEW sectionType \in {"NoType", "Set", "Array"}, NEW first \in Int,
                 EnterStep(sectionType, first)
          PROVE  ContextInv'
        BY <2>2, <2>4, ContextPushed
    <2> QED BY <2>1, <2>3, <2>4 DEF HandlerStep
<1>4. CASE EndSection
    BY <1>4, ContextPopped
<1>5. CASE UNCHANGED vars
    BY <1>1, <1>5 DEF vars, state, history
<1> QED BY <1>2, <1>3, <1>4, <1>5 DEF Next, ProcessEnding

\* Each dictionary is read among the children of the innermost section that
\* belongs to it, however many sections have been entered and left (lines 312-314,
\* 424-434, 490-500 and 734-736).
THEOREM ContextIsInnermostHolds == Spec => []ContextIsInnermost
<1>1. Init => TypeOK /\ TupleInv
    BY TypeInit
<1>2. Init => ContextInv
    <2>1. ASSUME Init PROVE ContextInv
        <3>1. /\ stack = <<>> /\ path = <<>>
              /\ mainDictPropOffset = bejDictGetPropertyHeadOffset
              /\ annoDictPropOffset = bejDictGetFirstAnnotatedPropertyOffset
            BY <2>1 DEF Init, InitParams
        <3>2. Len(stack) = 0 /\ Len(path) = 0
            BY <3>1, EmptySeq
        <3>3. RightContext(0, mainDictPropOffset, annoDictPropOffset)
            BY <3>1 DEF RightContext, IsContext
        <3> QED BY <3>2, <3>3 DEF ContextInv
    <2> QED BY <2>1
<1>3. TypeOK /\ TupleInv /\ ContextInv /\ [Next]_vars => (TypeOK /\ TupleInv /\ ContextInv)'
    BY TypeStep, TupleStep, ContextStep
<1>4. ContextInv => ContextIsInnermost
    BY DEF ContextInv, ContextIsInnermost
<1> QED BY <1>1, <1>2, <1>3, <1>4, PTL DEF Spec

-----------------------------------------------------------------------------
(* Streams short enough that no count takes an offset past the largest       *)
(* uint32_t.                                                                 *)

\* A handler that does not return an error moves forward past the header.
LEMMA HandlerMoves ==
    ASSUME StreamsFit, TypeOK, TupleInv, HandlerStep
    PROVE  /\ valueEndOffset >= encodedStreamOffset + 3
           /\ \/ RejectStep /\ encodedStreamOffset' = encodedStreamOffset
              \/ ~RejectStep /\ encodedStreamOffset' >= encodedStreamOffset + 3
<1>1. pc = "handle"
    BY DEF HandlerStep
<1>2. bejInitSFLVStruct(sflv, encodedStreamOffset)
    BY <1>1 DEF TupleInv
<1>3. /\ sflv.hdr \in Nat /\ sflv.hdr >= 3
      /\ sflv.len \in Nat
      /\ sflv.nnSize \in Nat /\ sflv.nnSize <= 255
    BY <1>1, SflvType
<1>4. encodedStreamOffset \in Nat /\ streamLen \in Int /\ U32 \in Nat
    BY StreamLenInt, InputAssumption DEF TypeOK
<1>5. sflv.hdr <= streamLen - encodedStreamOffset
    BY <1>2 DEF bejInitSFLVStruct
<1>6. streamLen + 255 < U32
    BY DEF StreamsFit, TypeOK, streamLen
<1>7. bejGetFirstTupleOffset = encodedStreamOffset + sflv.hdr + sflv.nnSize
    <2>1. bejGetFirstTupleOffset = AddU32(encodedStreamOffset + sflv.hdr, sflv.nnSize)
        BY <1>1, <1>2, TupleExtent
    <2> QED BY <1>3, <1>4, <1>5, <1>6, <2>1 DEF AddU32
<1>8. /\ valueEndOffset = encodedStreamOffset + sflv.hdr + sflv.len
      /\ ValueStartOffset = encodedStreamOffset + sflv.hdr
    BY <1>1, <1>2, TupleExtent
<1>9. /\ valueEndOffset >= encodedStreamOffset + 3
      /\ bejGetFirstTupleOffset >= encodedStreamOffset + 3
      /\ ValueStartOffset >= encodedStreamOffset + 3
    BY <1>3, <1>4, <1>7, <1>8
<1>10. ~RejectStep =>
          encodedStreamOffset' \in {valueEndOffset, bejGetFirstTupleOffset, ValueStartOffset}
    BY DEF HandlerStep, ConsumeStep, EmptyStep, EnterStep
<1>11. RejectStep => encodedStreamOffset' = encodedStreamOffset
    BY DEF RejectStep, state
<1> QED BY <1>9, <1>10, <1>11

LEMMA StartStep ==
    ASSUME StreamsFit, TypeOK, TupleInv, StartInv, [Next]_vars
    PROVE  StartInv'
<1>0. encodedStreamOffset \in Nat
    BY DEF TypeOK
<1>1. CASE bejDecodePldmBlockWithPolicy
    <2>1. /\ PldmHeaderSize \in Int
          /\ block.blockLength \in Int
        BY StreamLenInt DEF PldmHeaderSize
    <2> QED BY <1>1, <2>1, BlockFacts DEF StartInv, state, history
<1>2. CASE ReadRoot
    BY <1>2, ReadRootFacts DEF StartInv, state, history
<1>3. CASE ExceedMaxOperations
    BY <1>3, ExceedFacts DEF StartInv, state, history
<1>4. CASE ReadTuple
    BY <1>4, ReadTupleFacts DEF StartInv, state, history
<1>5. CASE LeaveLoop \/ EndProperty \/ EndStream
    BY <1>5, EndFacts DEF StartInv, state, history, Endings
<1>6. CASE Handle
    <2>1. HandlerStep
        BY <1>6, HandlerSteps
    <2>2. CASE RejectStep
        BY <2>1, <2>2 DEF HandlerStep, RejectStep, StartInv, state
    <2>3. CASE ~RejectStep
        <3>1. encodedStreamOffset' # 0
            BY <1>0, <2>1, <2>3, HandlerMoves
        <3>2. pc' \in {"done", "loop", "ending", "emptyEnding"} /\ (pc' # "done" => ret' = ret)
            BY <2>1, <2>3 DEF HandlerStep, ConsumeStep, EmptyStep, EnterStep
        <3> QED BY <2>1, <3>1, <3>2 DEF HandlerStep, StartInv
    <2> QED BY <2>2, <2>3
<1>7. CASE EndSection
    <2>1. /\ pc \in Endings /\ stack # <<>>
          /\ encodedStreamOffset' = encodedStreamOffset
          /\ (pc' = pc /\ ret' = ret) \/ pc' = "done" \/ (pc' = "loop" /\ ret' = ret)
        BY <1>7, EndSectionFacts
    <2> QED BY <2>1 DEF StartInv, Endings
<1>8. CASE UNCHANGED vars
    BY <1>8 DEF StartInv, vars, state, history
<1> QED BY <1>1, <1>2, <1>3, <1>4, <1>5, <1>6, <1>7, <1>8 DEF Next, ProcessEnding

LEMMA PayloadStep ==
    ASSUME TypeOK, StartInv, PayloadInv, [Next]_vars
    PROVE  PayloadInv'
<1>1. CASE bejDecodePldmBlockWithPolicy
    BY <1>1, BlockFacts DEF PayloadInv, Walking, Endings
<1>2. CASE ReadRoot
    <2>1. CASE pc' = "done"
        BY <2>1 DEF PayloadInv, Walking, Endings
    <2>2. CASE pc' # "done"
        <3>1. /\ block' = block
              /\ block.blockLength >= PldmHeaderSize
              /\ 0 \in DOMAIN stream'
              /\ payloadLen' = ValueEndOffset(stream'[0], 0)
              /\ ~(payloadLen' > streamLen)
            BY <1>2, <2>2, ReadRootFacts DEF StartInv
        <3>2. payloadLen' \in Int /\ streamLen \in Int
            BY <1>2, ReadRootStepType, StreamLenInt DEF TypeOK
        <3>3. payloadLen' <= streamLen
            BY <3>1, <3>2
        <3> QED BY <3>1, <3>3 DEF PayloadInv, ValueEndOffset, AddU32, streamLen
    <2> QED BY <2>1, <2>2
<1>3. ASSUME Walking, UNCHANGED <<block, payloadLen>>,
             \A o \in DOMAIN stream : o \in DOMAIN stream' /\ stream'[o] = stream[o]
      PROVE  PayloadInv'
    <2>1. /\ 0 \in DOMAIN stream'
          /\ stream'[0] = stream[0]
          /\ payloadLen = ValueEndOffset(stream[0], 0)
          /\ payloadLen <= streamLen
          /\ block.blockLength >= PldmHeaderSize
        BY <1>3 DEF PayloadInv
    <2> QED BY <1>3, <2>1 DEF PayloadInv, ValueEndOffset, AddU32, streamLen
<1>4. CASE ExceedMaxOperations
    BY <1>3, <1>4, ExceedFacts DEF Walking
<1>5. CASE ReadTuple
    BY <1>3, <1>5, ReadTupleFacts DEF Walking
<1>6. CASE LeaveLoop \/ EndProperty \/ EndStream
    BY <1>3, <1>6, EndFacts DEF Walking
<1>7. CASE Handle
    BY <1>3, <1>7, HandlerSteps DEF HandlerStep, Walking
<1>8. CASE EndSection
    BY <1>3, <1>8, EndSectionFacts DEF Walking
<1>9. CASE UNCHANGED vars
    BY <1>9 DEF PayloadInv, Walking, vars, ValueEndOffset, AddU32, streamLen
<1> QED BY <1>1, <1>2, <1>4, <1>5, <1>6, <1>7, <1>8, <1>9 DEF Next, ProcessEnding

LEMMA OperationStep ==
    ASSUME StreamsFit, TypeOK, TupleInv, StartInv, PayloadInv, OperationInv, [Next]_vars
    PROVE  OperationInv'
<1>0. /\ encodedStreamOffset \in Nat /\ operationCount \in Nat /\ payloadLen \in Nat
      /\ streamLen \in Int /\ MaxOperations \in Nat
    BY StreamLenInt, BoundAssumption DEF TypeOK
<1>1. CASE bejDecodePldmBlockWithPolicy
    BY <1>0, <1>1, BlockFacts
    DEF OperationInv, LimitOnlyForLongStreams, streamLen, Endings, StartInv
<1>2. CASE ReadRoot
    BY <1>0, <1>2, ReadRootFacts
    DEF OperationInv, LimitOnlyForLongStreams, streamLen, Endings, StartInv, state
<1>3. CASE ExceedMaxOperations
    <2>1. /\ 3 * operationCount <= encodedStreamOffset
          /\ operationCount <= MaxOperations
          /\ encodedStreamOffset < payloadLen
          /\ payloadLen <= streamLen
          /\ operationCount' = operationCount + 1
          /\ operationCount' > MaxOperations
        BY <1>3, ExceedFacts DEF OperationInv, PayloadInv, Walking
    <2>2. streamLen > 3 * MaxOperations
        BY <1>0, <2>1
    <2>3. pc' = "done" /\ block' = block
        BY <1>3, ExceedFacts
    <2> QED BY <2>2, <2>3 DEF OperationInv, LimitOnlyForLongStreams, streamLen, Endings
<1>4. CASE ReadTuple
    <2>1. /\ 3 * operationCount <= encodedStreamOffset
          /\ operationCount' = operationCount + 1
          /\ operationCount' <= MaxOperations
          /\ encodedStreamOffset' = encodedStreamOffset
          /\ pc' \in {"done", "handle"}
        BY <1>4, ReadTupleFacts DEF OperationInv, state
    <2> QED BY <1>0, <2>1 DEF OperationInv, LimitOnlyForLongStreams, streamLen, Endings
<1>5. CASE LeaveLoop \/ EndProperty \/ EndStream
    BY <1>0, <1>5, EndFacts
    DEF OperationInv, LimitOnlyForLongStreams, streamLen, Endings, state
<1>6. CASE Handle
    <2>1. HandlerStep
        BY <1>6, HandlerSteps
    <2>2. /\ pc = "handle"
          /\ UNCHANGED <<operationCount, block>>
        BY <2>1 DEF HandlerStep
    <2>3. /\ 3 * (operationCount - 1) <= encodedStreamOffset
          /\ operationCount <= MaxOperations
        BY <2>2 DEF OperationInv
    <2>4. CASE RejectStep
        BY <1>0, <2>2, <2>3, <2>4
        DEF RejectStep, OperationInv, LimitOnlyForLongStreams, Endings
    <2>5. CASE ~RejectStep
        <3>1. encodedStreamOffset' >= encodedStreamOffset + 3 /\ encodedStreamOffset' \in Nat
            BY <1>6, <2>1, <2>5, HandlerMoves, HandleStepType DEF TypeOK
        <3>2. pc' \in {"done", "loop", "ending", "emptyEnding"}
            BY <2>1, <2>5 DEF HandlerStep, ConsumeStep, EmptyStep, EnterStep
        <3> QED BY <1>0, <2>2, <2>3, <3>1, <3>2
                DEF OperationInv, LimitOnlyForLongStreams, Endings
    <2> QED BY <2>4, <2>5
<1>7. CASE EndSection
    <2>1. /\ pc \in Endings
          /\ UNCHANGED <<block, encodedStreamOffset, operationCount>>
          /\ pc' \in {pc, "done", "loop"}
        BY <1>7, EndSectionFacts
    <2> QED BY <1>0, <2>1 DEF OperationInv, LimitOnlyForLongStreams, streamLen, Endings
<1>8. CASE UNCHANGED vars
    BY <1>8 DEF OperationInv, LimitOnlyForLongStreams, streamLen, vars, state
<1> QED BY <1>1, <1>2, <1>3, <1>4, <1>5, <1>6, <1>7, <1>8 DEF Next, ProcessEnding

\* The first step to leave offset 0 handles the root tuple.
LEMMA RootStep ==
    ASSUME StreamsFit, TypeOK, TupleInv, StartInv, PayloadInv, RootInv, [Next]_vars
    PROVE  RootInv'
<1>0. encodedStreamOffset \in Nat /\ payloadLen \in Nat /\ stack \in Seq(StackEntry)
    BY DEF TypeOK
<1>1. ASSUME encodedStreamOffset' = encodedStreamOffset, encodedStreamOffset = 0
      PROVE  RootInv'
    BY <1>1 DEF RootInv, RootOpened
<1>2. ASSUME UNCHANGED <<encodedStreamOffset, stack, payloadLen>>,
             0 \in DOMAIN stream, stream'[0] = stream[0]
      PROVE  RootInv'
    BY <1>2 DEF RootInv, RootOpened
<1>3. pc \in {"loop", "handle"} \cup Endings => 0 \in DOMAIN stream
    BY DEF PayloadInv, Walking
<1>4. CASE bejDecodePldmBlockWithPolicy
    BY <1>1, <1>4, BlockFacts DEF StartInv, state
<1>5. CASE ReadRoot
    BY <1>1, <1>5, ReadRootFacts DEF StartInv, state
<1>6. CASE ExceedMaxOperations
    BY <1>2, <1>3, <1>6, ExceedFacts DEF state
<1>7. CASE ReadTuple
    BY <1>2, <1>3, <1>7, ReadTupleFacts DEF state
<1>8. CASE LeaveLoop \/ EndProperty \/ EndStream
    BY <1>2, <1>3, <1>8, EndFacts DEF state
<1>9. CASE UNCHANGED vars
    BY <1>9 DEF vars, state, RootInv, RootOpened
<1>10. CASE EndSection
    <2>1. /\ stack # <<>>
          /\ encodedStreamOffset = Top.streamEndOffset
          /\ UNCHANGED <<stream, encodedStreamOffset, payloadLen>>
          /\ stack' \in {stack, Pop(stack)}
        BY <1>10, EndSectionFacts
    <2>2. CASE stack' = stack
        BY <2>1, <2>2 DEF RootInv, RootOpened
    <2>3. CASE RootOpened /\ stack' = Pop(stack)
        <3>1. stack[1].streamEndOffset = payloadLen
            BY <2>1, <2>3 DEF RootInv
        <3>2. /\ Len(stack) \in Nat \ {0}
              /\ \A i \in 1 .. Len(stack) - 1 : Pop(stack)[i] = stack[i]
              /\ Pop(stack) = <<>> <=> Len(stack) = 1
            BY <1>0, <2>1, PopFacts
        <3>3. CASE Len(stack) = 1
            BY <2>1, <2>3, <3>1, <3>2, <3>3 DEF RootInv, Top
        <3>4. CASE Len(stack) # 1
            <4>0. Len(stack) \in Nat \ {0}
                BY <3>2
            <4>00. \A m \in Nat \ {0} : m # 1 => 1 \in 1 .. m - 1
                OBVIOUS
            <4>1. 1 \in 1 .. Len(stack) - 1
                BY <3>4, <4>0, <4>00
            <4> QED BY <2>1, <2>3, <3>1, <3>2, <3>4, <4>1 DEF RootInv
        <3> QED BY <3>3, <3>4
    <2>4. CASE ~RootOpened
        BY <2>1, <2>4 DEF RootInv, RootOpened
    <2> QED BY <2>1, <2>2, <2>3, <2>4
<1>11. CASE Handle
    <2>1. HandlerStep
        BY <1>11, HandlerSteps
    <2>2. /\ pc = "handle"
          /\ UNCHANGED <<stream, sflv, payloadLen>>
        BY <2>1 DEF HandlerStep
    <2>3. /\ sflv = stream[encodedStreamOffset]
          /\ valueEndOffset <= payloadLen
          /\ encodedStreamOffset < payloadLen
          /\ 0 \in DOMAIN stream
          /\ payloadLen = ValueEndOffset(stream[0], 0)
        BY <2>2 DEF TupleInv, PayloadInv, Walking
    <2>4. CASE RejectStep
        BY <1>2, <2>2, <2>3, <2>4 DEF RejectStep, state
    <2>5. CASE encodedStreamOffset # 0 /\ RootOpened /\ ~RejectStep
        <3>1. stack # <<>> /\ stack[1].streamEndOffset = payloadLen
            BY <1>0, <2>3, <2>5 DEF RootInv
        <3>2. CASE ConsumeStep \/ EmptyStep
            BY <2>2, <3>1, <3>2 DEF ConsumeStep, EmptyStep, RootInv
        <3>3. ASSUME NEW sectionType \in {"NoType", "Set", "Array"}, NEW first \in Int,
                     EnterStep(sectionType, first)
              PROVE  RootInv'
            <4>1. stack' = Append(stack, Ending(sectionType)) /\ Ending(sectionType) \in StackEntry
                BY <2>2, <3>3, EndingType DEF EnterStep
            <4>2. Len(stack) \in Nat \ {0}
                BY <1>0, <3>1, EmptySeq
            <4>3. stack' # <<>> /\ stack'[1] = stack[1]
                BY <1>0, <4>1, <4>2, AppendFacts
            <4> QED BY <2>2, <3>1, <4>3 DEF RootInv
        <3> QED BY <2>1, <2>5, <3>2, <3>3 DEF HandlerStep
    <2>6. CASE encodedStreamOffset # 0 /\ ~RootOpened
        BY <2>2, <2>3, <2>6 DEF RootInv, RootOpened
    <2>7. CASE encodedStreamOffset = 0 /\ ~RejectStep
        <3>1. stack = <<>> /\ sflv = stream[0]
            BY <2>3, <2>7 DEF StartInv
        <3>2. CASE ConsumeStep \/ EmptyStep
            BY <2>2, <3>1, <3>2 DEF ConsumeStep, EmptyStep, RootInv, RootOpened
        <3>3. ASSUME NEW sectionType \in {"NoType", "Set", "Array"}, NEW first \in Int,
                     EnterStep(sectionType, first)
              PROVE  RootInv'
            <4>1. /\ stack' = Append(stack, Ending(sectionType))
                  /\ Ending(sectionType) \in StackEntry
                  /\ Ending(sectionType).streamEndOffset = valueEndOffset
                BY <2>2, <3>3, EndingType DEF EnterStep
            <4>2. Len(stack) = 0
                BY <3>1
            <4>3. stack' # <<>> /\ stack'[1] = Ending(sectionType)
                BY <1>0, <4>1, <4>2, AppendFacts
            <4>4. valueEndOffset = payloadLen
                BY <2>3, <2>7, <3>1 DEF valueEndOffset
            <4> QED BY <2>2, <4>1, <4>3, <4>4 DEF RootInv
        <3> QED BY <2>1, <2>7, <3>2, <3>3 DEF HandlerStep
    <2> QED BY <2>4, <2>5, <2>6, <2>7
<1> QED BY <1>4, <1>5, <1>6, <1>7, <1>8, <1>9, <1>10, <1>11 DEF Next, ProcessEnding

\* A section that can no longer be popped stays so: the offset only grows, and a
\* section popped from above it ended beyond its end.
LEMMA DoomedStep ==
    ASSUME StreamsFit, TypeOK, TupleInv, [Next]_vars, NEW i \in DOMAIN stack, Doomed(i)
    PROVE  i \in DOMAIN stack' /\ Doomed(i)'
<1>0. /\ encodedStreamOffset \in Nat
      /\ stack \in Seq(StackEntry)
      /\ Len(stack) \in Nat
      /\ DOMAIN stack = 1 .. Len(stack)
    BY LenProperties DEF TypeOK
<1>00. \A j \in DOMAIN stack : stack[j].streamEndOffset \in Nat
    <2>1. \A j \in DOMAIN stack : stack[j] \in StackEntry
        BY <1>0, ElementOfSeq
    <2> QED BY <2>1 DEF StackEntry
<1>1. ASSUME UNCHANGED <<encodedStreamOffset, stack>>
      PROVE  i \in DOMAIN stack' /\ Doomed(i)'
    BY <1>1 DEF Doomed
<1>2. CASE \/ bejDecodePldmBlockWithPolicy \/ ReadRoot \/ ExceedMaxOperations
           \/ ReadTuple \/ LeaveLoop \/ EndProperty \/ EndStream \/ UNCHANGED vars
    BY <1>1, <1>2, BlockFacts, ReadRootFacts, ExceedFacts, ReadTupleFacts, EndFacts
    DEF state, vars
<1>3. CASE EndSection
    <2>1. /\ stack # <<>>
          /\ encodedStreamOffset = Top.streamEndOffset
          /\ encodedStreamOffset' = encodedStreamOffset
          /\ stack' \in {stack, Pop(stack)}
        BY <1>3, EndSectionFacts
    <2>2. CASE stack' = stack
        BY <1>1, <2>1, <2>2
    <2>3. CASE stack' = Pop(stack)
        <3> DEFINE n == Len(stack)
        <3>1. /\ DOMAIN stack' = 1 .. n - 1
              /\ \A j \in 1 .. n - 1 : stack'[j] = stack[j]
            BY <1>0, <2>1, <2>3, PopFacts
        <3>2. CASE encodedStreamOffset > stack[i].streamEndOffset
            <4>1. i # n
                BY <1>0, <1>00, <2>1, <3>2 DEF Top
            <4> QED BY <1>0, <2>1, <3>1, <3>2, <4>1 DEF Doomed
        <3>3. ASSUME NEW j \in DOMAIN stack, j > i,
                     stack[j].streamEndOffset > stack[i].streamEndOffset
              PROVE  i \in DOMAIN stack' /\ Doomed(i)'
            <4>1. i \in 1 .. n - 1 /\ stack'[i] = stack[i]
                BY <1>0, <3>1, <3>3
            <4>2. CASE j = n
                <5>1. encodedStreamOffset > stack[i].streamEndOffset
                    BY <2>1, <3>3, <4>2 DEF Top
                <5> QED BY <2>1, <3>1, <4>1, <5>1 DEF Doomed
            <4>3. CASE j # n
                <5>1. j \in 1 .. n - 1
                    BY <1>0, <4>3
                <5> QED BY <3>1, <3>3, <4>1, <5>1 DEF Doomed
            <4> QED BY <4>2, <4>3
        <3> QED BY <3>2, <3>3 DEF Doomed
    <2> QED BY <2>1, <2>2, <2>3
<1>4. CASE Handle
    <2>1. HandlerStep
        BY <1>4, HandlerSteps
    <2>2. encodedStreamOffset' >= encodedStreamOffset /\ encodedStreamOffset' \in Nat
        BY <1>0, <1>4, <2>1, HandlerMoves, HandleStepType DEF TypeOK
    <2>3. /\ DOMAIN stack \subseteq DOMAIN stack'
          /\ \A j \in DOMAIN stack : stack'[j] = stack[j]
        <3>1. CASE RejectStep \/ ConsumeStep \/ EmptyStep
            BY <3>1 DEF RejectStep, ConsumeStep, EmptyStep
        <3>2. ASSUME NEW sectionType \in {"NoType", "Set", "Array"}, NEW first \in Int,
                     EnterStep(sectionType, first)
              PROVE  /\ DOMAIN stack \subseteq DOMAIN stack'
                     /\ \A j \in DOMAIN stack : stack'[j] = stack[j]
            <4>1. stack' = Append(stack, Ending(sectionType)) /\ Ending(sectionType) \in StackEntry
                BY <2>1, <3>2, EndingType DEF HandlerStep, EnterStep
            <4> QED BY <1>0, <4>1, AppendFacts
        <3> QED BY <2>1, <3>1, <3>2 DEF HandlerStep
    <2>4. encodedStreamOffset > stack[i].streamEndOffset
              => encodedStreamOffset' > stack'[i].streamEndOffset
        BY <1>0, <1>00, <2>2, <2>3
    <2> QED BY <2>3, <2>4 DEF Doomed
<1> QED BY <1>2, <1>3, <1>4 DEF Next, ProcessEnding

\* A tuple that ends beyond its section dooms that section.
LEMMA OverrunStep ==
    ASSUME StreamsFit, TypeOK, TupleInv, [Next]_vars, ~overran, overran'
    PROVE  \E i \in DOMAIN stack' : Doomed(i)'
<1>0. stack \in Seq(StackEntry) /\ overran \in BOOLEAN
    BY DEF TypeOK
<1>1. Handle
    <2>1. UNCHANGED overran \/ Handle
        BY BlockFacts, ReadRootFacts, ExceedFacts, ReadTupleFacts, EndFacts, EndSectionFacts
        DEF Next, ProcessEnding, vars, history
    <2> QED BY <2>1
<1>2. HandlerStep
    BY <1>1, HandlerSteps
<1>3. ASSUME stack # <<>>, stack' = stack, encodedStreamOffset' > Top.streamEndOffset
      PROVE  \E i \in DOMAIN stack' : Doomed(i)'
    <2>1. Len(stack) \in DOMAIN stack
        BY <1>0, <1>3, EmptySeq, LenProperties
    <2>2. Doomed(Len(stack))'
        BY <1>3 DEF Doomed, Top
    <2> QED BY <1>3, <2>1, <2>2
<1>4. CASE RejectStep
    BY <1>4 DEF RejectStep, history
<1>5. CASE ConsumeStep
    BY <1>3, <1>5 DEF ConsumeStep
<1>6. CASE EmptyStep
    BY <1>3, <1>6 DEF EmptyStep
<1>7. ASSUME NEW sectionType \in {"NoType", "Set", "Array"}, NEW first \in Int,
             EnterStep(sectionType, first)
      PROVE  \E i \in DOMAIN stack' : Doomed(i)'
    <2> DEFINE n == Len(stack)
               e == Ending(sectionType)
    <2>1. /\ stack # <<>>
          /\ valueEndOffset > Top.streamEndOffset
          /\ stack' = Append(stack, e)
        BY <1>7 DEF EnterStep
    <2>2. e \in StackEntry /\ e.streamEndOffset = valueEndOffset
        BY <1>2, EndingType DEF HandlerStep
    <2> HIDE DEF e
    <2>3. n \in Nat \ {0}
        BY <1>0, <2>1, EmptySeq
    <2>4. /\ DOMAIN stack' = 1 .. n + 1
          /\ stack'[n] = stack[n]
          /\ stack'[n + 1] = e
        BY <1>0, <2>1, <2>2, <2>3, AppendFacts
    <2>5. /\ n \in DOMAIN stack' /\ n + 1 \in DOMAIN stack' /\ n + 1 > n
          /\ stack'[n + 1].streamEndOffset > stack'[n].streamEndOffset
        BY <2>1, <2>2, <2>3, <2>4 DEF Top
    <2>6. \E i \in DOMAIN stack', j \in DOMAIN stack' :
              j > i /\ stack'[j].streamEndOffset > stack'[i].streamEndOffset
        BY <2>5
    <2> QED BY <2>6 DEF Doomed
<1> QED BY <1>2, <1>4, <1>5, <1>6, <1>7 DEF HandlerStep

LEMMA NestingStep ==
    ASSUME StreamsFit, TypeOK, TupleInv, StartInv, NestingInv, [Next]_vars
    PROVE  NestingInv'
<1>1. overran' => \E i \in DOMAIN stack' : Doomed(i)'
    <2>1. CASE overran
        <3>1. PICK i \in DOMAIN stack : Doomed(i)
            BY <2>1 DEF NestingInv
        <3> QED BY <3>1, DoomedStep
    <2>2. CASE ~overran
        BY <2>2, OverrunStep
    <2> QED BY <2>1, <2>2
<1>2. ret' = "OK" => stack' = <<>>
    <2>1. CASE bejDecodePldmBlockWithPolicy \/ ReadRoot \/ ExceedMaxOperations \/ ReadTuple
        BY <2>1, BlockFacts, ReadRootFacts, ExceedFacts, ReadTupleFacts DEF StartInv
    <2>2. CASE LeaveLoop \/ EndProperty \/ EndStream
        BY <2>2, EndFacts DEF StartInv, Endings
    <2>3. CASE EndSection
        BY <2>3, EndSectionFacts DEF StartInv, Endings
    <2>4. CASE Handle
        <3>1. HandlerStep
            BY <2>4, HandlerSteps
        <3>2. pc = "handle" /\ ret = "none"
            BY <3>1 DEF HandlerStep, StartInv
        <3> QED BY <3>1, <3>2 DEF HandlerStep, RejectStep, ConsumeStep, EmptyStep, EnterStep
    <2>5. CASE UNCHANGED vars
        BY <2>5 DEF NestingInv, vars
    <2> QED BY <2>1, <2>2, <2>3, <2>4, <2>5 DEF Next, ProcessEnding
<1> QED BY <1>1, <1>2 DEF NestingInv

LEMMA InvariantInit ==
    ASSUME Init
    PROVE  IInv
<1>1. TypeOK /\ TupleInv
    BY TypeInit
<1>2. /\ pc = "block" /\ ret = "none" /\ stack = <<>> /\ payloadLen = 0
      /\ encodedStreamOffset = 0 /\ operationCount = 0 /\ overran = FALSE
    BY DEF Init, InitParams
<1>3. 3 * operationCount <= encodedStreamOffset /\ operationCount <= MaxOperations
    BY <1>2, BoundAssumption
<1>4. StartInv /\ PayloadInv /\ NestingInv /\ RootInv
    BY <1>2 DEF StartInv, PayloadInv, Walking, Endings, NestingInv, RootInv, RootOpened
<1>5. OperationInv
    BY <1>2, <1>3, BoundAssumption DEF OperationInv, LimitOnlyForLongStreams, Endings
<1> QED BY <1>1, <1>4, <1>5 DEF IInv

LEMMA InvariantStep ==
    ASSUME StreamsFit, IInv, [Next]_vars
    PROVE  IInv'
BY TypeStep, TupleStep, StartStep, PayloadStep, NestingStep, RootStep, OperationStep
DEF IInv

\* The inductive invariant of the decoder.
THEOREM InvariantHolds == StreamsFit => (Spec => []IInv)
<1> SUFFICES ASSUME StreamsFit PROVE Spec => []IInv
    OBVIOUS
<1>1. Init => IInv
    BY InvariantInit
<1>2. IInv /\ [Next]_vars => IInv'
    BY InvariantStep
<1> QED BY <1>1, <1>2, PTL DEF Spec

\* An accepted stream is properly nested although no tuple's end is ever
\* compared with its section's end (lines 307 and 896).
THEOREM AcceptedIsNestedHolds == StreamsFit => (Spec => []AcceptedIsNested)
<1> SUFFICES ASSUME StreamsFit PROVE Spec => []AcceptedIsNested
    OBVIOUS
<1>1. IInv => AcceptedIsNested
    <2>1. ASSUME IInv, ret = "OK", overran PROVE FALSE
        <3>1. stack = <<>> /\ \E i \in DOMAIN stack : Doomed(i)
            BY <2>1 DEF IInv, NestingInv
        <3>2. DOMAIN stack = {}
            BY <3>1
        <3> QED BY <3>1, <3>2
    <2> QED BY <2>1 DEF AcceptedIsNested
<1>2. Spec => []IInv
    BY InvariantHolds
<1> QED BY <1>1, <1>2, PTL

\* After a root that opened a section nothing is outside of it (lines 851, 880
\* and 970-977).
THEOREM SingleRootHolds == StreamsFit => (Spec => []SingleRoot)
<1> SUFFICES ASSUME StreamsFit PROVE Spec => []SingleRoot
    OBVIOUS
<1>1. IInv => SingleRoot
    BY DEF IInv, NestingInv, RootInv, SingleRoot
<1>2. Spec => []IInv
    BY InvariantHolds
<1> QED BY <1>1, <1>2, PTL

\* The limit on operations refuses only streams of more than three bytes for
\* each operation it allows (lines 882-886).
THEOREM LimitOnlyForLongStreamsHolds ==
    StreamsFit => (Spec => []LimitOnlyForLongStreams)
<1> SUFFICES ASSUME StreamsFit PROVE Spec => []LimitOnlyForLongStreams
    OBVIOUS
<1>1. IInv => LimitOnlyForLongStreams
    BY DEF IInv, OperationInv
<1>2. Spec => []IInv
    BY InvariantHolds
<1> QED BY <1>1, <1>2, PTL

\* Every tuple that is handled without an error moves the offset forward, so no
\* tuple is handled twice (lines 151-168).
THEOREM ProgressHolds == StreamsFit => (Spec => Progress)
<1> SUFFICES ASSUME StreamsFit PROVE Spec => Progress
    OBVIOUS
<1>1. IInv /\ [Next]_vars =>
          [pc = "handle" /\ pc' # "done"
              => encodedStreamOffset' >= encodedStreamOffset + 3]_vars
    <2>1. ASSUME IInv, Next, pc = "handle", pc' # "done"
          PROVE  encodedStreamOffset' >= encodedStreamOffset + 3
        <3>1. Handle
            BY <2>1, ReadRootFacts, ReadTupleFacts, BlockFacts, ExceedFacts, EndFacts,
               EndSectionFacts DEF Next, ProcessEnding, IInv, Endings
        <3>2. HandlerStep
            BY <2>1, <3>1, HandlerSteps DEF IInv
        <3>3. ~RejectStep
            BY <2>1 DEF RejectStep
        <3> QED BY <2>1, <3>2, <3>3, HandlerMoves DEF IInv
    <2> QED BY <2>1
<1>2. Spec => []IInv
    BY InvariantHolds
<1> QED BY <1>1, <1>2, PTL DEF Spec, Progress

-----------------------------------------------------------------------------
(* The decoder implements BejNesting.                                        *)

LEMMA EndsFacts ==
    ASSUME NEW s \in Seq(StackEntry)
    PROVE  /\ Ends(s) \in Seq(Nat)
           /\ Len(Ends(s)) = Len(s)
           /\ \A i \in 1 .. Len(s) : Ends(s)[i] = s[i].streamEndOffset
           /\ Ends(s) = <<>> <=> s = <<>>
<1>1. Len(s) \in Nat /\ DOMAIN s = 1 .. Len(s)
    BY LenProperties
<1>2. \A i \in 1 .. Len(s) : s[i].streamEndOffset \in Nat
    <2>1. \A i \in 1 .. Len(s) : s[i] \in StackEntry
        BY ElementOfSeq
    <2> QED BY <2>1 DEF StackEntry
<1>3. Ends(s) = [i \in 1 .. Len(s) |-> s[i].streamEndOffset]
    BY <1>1 DEF Ends
<1>4. Ends(s) \in Seq(Nat) /\ Len(Ends(s)) = Len(s)
    BY <1>1, <1>2, <1>3
<1>5. Ends(s) = <<>> <=> s = <<>>
    BY <1>1, <1>4, EmptySeq
<1> QED BY <1>3, <1>4, <1>5

\* Entering a section appends its end.
LEMMA EndsPushed ==
    ASSUME NEW s \in Seq(StackEntry), NEW e \in StackEntry
    PROVE  Ends(Append(s, e)) = Append(Ends(s), e.streamEndOffset)
<1> DEFINE pushed == Append(s, e)
           end == e.streamEndOffset
<1>1. /\ pushed \in Seq(StackEntry)
      /\ Len(s) \in Nat
      /\ Len(pushed) = Len(s) + 1
      /\ \A i \in 1 .. Len(s) : pushed[i] = s[i]
      /\ pushed[Len(s) + 1] = e
    BY AppendFacts
<1>2. end \in Nat
    BY DEF StackEntry
<1>3. /\ Ends(s) \in Seq(Nat) /\ Len(Ends(s)) = Len(s)
      /\ \A i \in 1 .. Len(s) : Ends(s)[i] = s[i].streamEndOffset
    BY EndsFacts
<1>4. /\ Append(Ends(s), end) \in Seq(Nat)
      /\ Len(Append(Ends(s), end)) = Len(s) + 1
      /\ \A i \in 1 .. Len(s) : Append(Ends(s), end)[i] = s[i].streamEndOffset
      /\ Append(Ends(s), end)[Len(s) + 1] = end
    <2>1. PICK es, n : es = Ends(s) /\ n = end
        OBVIOUS
    <2>2. es \in Seq(Nat) /\ n \in Nat
        BY <1>2, <1>3, <2>1
    <2>3. /\ Append(es, n) \in Seq(Nat) /\ Len(Append(es, n)) = Len(es) + 1
          /\ \A i \in 1 .. Len(es) : Append(es, n)[i] = es[i]
          /\ Append(es, n)[Len(es) + 1] = n
        BY <2>2, AppendFacts
    <2>4. Len(es) = Len(s) /\ \A i \in 1 .. Len(s) : es[i] = s[i].streamEndOffset
        BY <1>3, <2>1
    <2>5. \A i \in 1 .. Len(s) : Append(es, n)[i] = s[i].streamEndOffset
        BY <2>3, <2>4
    <2> QED BY <2>1, <2>3, <2>4, <2>5
<1>5. /\ Ends(pushed) \in Seq(Nat) /\ Len(Ends(pushed)) = Len(s) + 1
      /\ \A i \in 1 .. Len(s) + 1 : Ends(pushed)[i] = pushed[i].streamEndOffset
    <2> HIDE DEF pushed
    <2> QED BY <1>1, EndsFacts
<1>6. \A i \in 1 .. Len(s) + 1 : Ends(pushed)[i] = Append(Ends(s), end)[i]
    <2> TAKE i \in 1 .. Len(s) + 1
    <2>1. CASE i = Len(s) + 1
        BY <1>1, <1>4, <1>5, <2>1
    <2>2. CASE i # Len(s) + 1
        <3>1. i \in 1 .. Len(s)
            BY <1>1, <2>2
        <3> QED BY <1>1, <1>4, <1>5, <3>1
    <2> QED BY <2>1, <2>2
<1> HIDE DEF pushed, end
<1>7. Ends(pushed) = Append(Ends(s), end)
    BY <1>4, <1>5, <1>6, SeqEqual
<1> QED BY <1>7 DEF pushed, end

\* Leaving a section drops its end.
LEMMA EndsPopped ==
    ASSUME NEW s \in Seq(StackEntry), s # <<>>
    PROVE  Ends(Pop(s)) = SubSeq(Ends(s), 1, Len(Ends(s)) - 1)
<1>1. /\ Pop(s) \in Seq(StackEntry)
      /\ Len(s) \in Nat \ {0}
      /\ Len(Pop(s)) = Len(s) - 1
      /\ \A i \in 1 .. Len(s) - 1 : Pop(s)[i] = s[i]
    BY PopFacts
<1>2. /\ Ends(s) \in Seq(Nat) /\ Len(Ends(s)) = Len(s) /\ Ends(s) # <<>>
      /\ \A i \in 1 .. Len(s) : Ends(s)[i] = s[i].streamEndOffset
    BY EndsFacts
<1>3. /\ Pop(Ends(s)) \in Seq(Nat)
      /\ Len(Pop(Ends(s))) = Len(s) - 1
      /\ \A i \in 1 .. Len(s) - 1 : Pop(Ends(s))[i] = s[i].streamEndOffset
    BY <1>1, <1>2, PopFacts
<1>4. /\ Ends(Pop(s)) \in Seq(Nat)
      /\ Len(Ends(Pop(s))) = Len(s) - 1
      /\ \A i \in 1 .. Len(s) - 1 : Ends(Pop(s))[i] = Pop(s)[i].streamEndOffset
    BY <1>1, EndsFacts
<1>5. Ends(Pop(s)) = Pop(Ends(s))
    <2> DEFINE left == Ends(Pop(s))
               right == Pop(Ends(s))
    <2>1. /\ left \in Seq(Nat) /\ right \in Seq(Nat) /\ Len(left) = Len(right)
          /\ \A i \in 1 .. Len(left) : left[i] = right[i]
        BY <1>1, <1>3, <1>4
    <2> HIDE DEF left, right
    <2>2. left = right
        BY <2>1, SeqEqual
    <2> QED BY <2>2 DEF left, right
<1> QED BY <1>5 DEF Pop

LEMMA NestingInit ==
    ASSUME Init
    PROVE  Nesting!Init
<1>1. ret = "none" /\ overran = FALSE /\ encodedStreamOffset = 0 /\ stack = <<>>
    BY DEF Init, InitParams
<1>2. Ends(<<>>) = <<>>
    BY EmptySeq, EndsFacts
<1> QED BY <1>1, <1>2 DEF Nesting!Init, Away, offsetReached, openEnds, verdict

\* Steps that leave the offset, the stack and the sections alone.
LEMMA NestingControl ==
    ASSUME IInv, IInv', ret = "none",
           UNCHANGED <<encodedStreamOffset, stack, overran>>
    PROVE  [Nesting!Next]_Nesting!vars
<1>1. CASE ret' = "none"
    BY <1>1 DEF Nesting!vars, Away, offsetReached, openEnds, verdict, Ends
<1>2. CASE ret' = "OK"
    <2>1. stack = <<>> /\ ~overran /\ overran' = overran
        <3>1. stack' = <<>>
            BY <1>2 DEF IInv, NestingInv
        <3>2. ~overran'
            BY <1>2, <3>1 DEF IInv, NestingInv
        <3> QED BY <3>1, <3>2
    <2>2. Ends(<<>>) = <<>>
        BY EmptySeq, EndsFacts
    <2>3. Nesting!Accept
        BY <1>2, <2>1, <2>2 DEF Nesting!Accept, Away, offsetReached, openEnds, verdict
    <2> QED BY <2>3 DEF Nesting!Next
<1>3. CASE ret' \notin {"none", "OK"}
    <2>1. Nesting!Refuse
        BY <1>3 DEF Nesting!Refuse, Away, offsetReached, openEnds, verdict
    <2> QED BY <2>1 DEF Nesting!Next
<1> QED BY <1>1, <1>2, <1>3

\* Once lost, the reader stays lost until the call returns.
LEMMA NestingLost ==
    ASSUME ret = "none", ret' = "none", overran, overran'
    PROVE  UNCHANGED Nesting!vars
BY DEF Nesting!vars, Away, offsetReached, openEnds, verdict

\* The section on top has ended.
LEMMA NestingLeave ==
    ASSUME IInv, IInv', ret = "none", EndSection
    PROVE  [Nesting!Next]_Nesting!vars
<1>1. /\ stack # <<>>
      /\ encodedStreamOffset = Top.streamEndOffset
      /\ UNCHANGED <<encodedStreamOffset, overran>>
      /\ \/ stack' = Pop(stack) /\ ret' = ret
         \/ stack' = stack
    BY EndSectionFacts
<1>2. CASE stack' = stack
    BY <1>1, <1>2, NestingControl
<1>3. CASE stack' = Pop(stack) /\ ret' = ret
    <2>1. CASE overran
        BY <1>1, <1>3, <2>1, NestingLost
    <2>2. CASE ~overran
        <3>1. stack \in Seq(StackEntry) /\ Len(stack) \in Nat \ {0}
            BY <1>1, EmptySeq DEF IInv, TypeOK
        <3>2. /\ Ends(stack) # <<>>
              /\ Len(Ends(stack)) = Len(stack)
              /\ Ends(stack)[Len(stack)] = encodedStreamOffset
            BY <1>1, <3>1, EndsFacts DEF Top
        <3>3. Ends(stack') = SubSeq(Ends(stack), 1, Len(Ends(stack)) - 1)
            BY <1>1, <1>3, <3>1, EndsPopped
        <3>4. Nesting!Leave
            BY <1>1, <1>3, <2>2, <3>2, <3>3
            DEF Nesting!Leave, Away, offsetReached, openEnds, verdict
        <3> QED BY <3>4 DEF Nesting!Next
    <2> QED BY <2>1, <2>2 DEF IInv, TypeOK
<1> QED BY <1>1, <1>2, <1>3

\* Where a handler goes is an offset of a stream, and further on.
LEMMA HandlerOffsets ==
    ASSUME StreamsFit, IInv, HandlerStep,
           NEW offset \in {valueEndOffset, ValueStartOffset, bejGetFirstTupleOffset}
    PROVE  offset \in UInt32 /\ offset > encodedStreamOffset
<1>1. /\ pc = "handle"
      /\ bejInitSFLVStruct(sflv, encodedStreamOffset)
      /\ valueEndOffset <= payloadLen
      /\ payloadLen <= streamLen
    BY DEF HandlerStep, IInv, TupleInv, PayloadInv, Walking
<1>2. /\ sflv.hdr \in Nat /\ sflv.hdr >= 3
      /\ sflv.len \in Nat
      /\ sflv.nnSize \in Nat /\ sflv.nnSize <= 255
    BY <1>1, SflvType DEF IInv
<1>3. /\ encodedStreamOffset \in Nat /\ payloadLen \in Nat
      /\ streamLen \in Int /\ U32 \in Nat
    BY StreamLenInt, InputAssumption DEF IInv, TypeOK
<1>4. streamLen + 255 < U32
    BY DEF StreamsFit, IInv, TypeOK, streamLen
<1>5. /\ valueEndOffset = encodedStreamOffset + sflv.hdr + sflv.len
      /\ ValueStartOffset = encodedStreamOffset + sflv.hdr
      /\ bejGetFirstTupleOffset = AddU32(encodedStreamOffset + sflv.hdr, sflv.nnSize)
    BY <1>1, TupleExtent DEF IInv
<1>6. valueEndOffset \in UInt32 /\ valueEndOffset > encodedStreamOffset
    BY <1>1, <1>2, <1>3, <1>4, <1>5 DEF UInt32
<1>7. ValueStartOffset \in UInt32 /\ ValueStartOffset > encodedStreamOffset
    BY <1>1, <1>2, <1>3, <1>4, <1>5 DEF UInt32
<1>8. bejGetFirstTupleOffset \in UInt32 /\ bejGetFirstTupleOffset > encodedStreamOffset
    BY <1>1, <1>2, <1>3, <1>4, <1>5 DEF UInt32, AddU32
<1> QED BY <1>6, <1>7, <1>8

\* A value or an empty section has been consumed.
LEMMA NestingConsume ==
    ASSUME StreamsFit, IInv, IInv', HandlerStep, ConsumeStep \/ EmptyStep, ret = "none"
    PROVE  [Nesting!Next]_Nesting!vars
<1>1. /\ stack' = stack
      /\ ret' \in {"none", "Unknown"}
      /\ overran' = (overran \/ (stack # <<>> /\ encodedStreamOffset' > Top.streamEndOffset))
    BY DEF ConsumeStep, EmptyStep
<1>2. encodedStreamOffset' \in UInt32 /\ encodedStreamOffset' > encodedStreamOffset
    <2>1. encodedStreamOffset' \in {valueEndOffset, bejGetFirstTupleOffset}
        BY DEF ConsumeStep, EmptyStep
    <2> QED BY <2>1, HandlerOffsets
<1>3. overran \in BOOLEAN /\ overran' \in BOOLEAN
    BY DEF IInv, TypeOK
<1>4. stack \in Seq(StackEntry)
    BY DEF IInv, TypeOK
<1>5. Ends(stack) = <<>> <=> stack = <<>>
    BY <1>4, EndsFacts
<1>6. CASE ret' = "Unknown"
    <2>1. Nesting!Refuse
        BY <1>6 DEF Nesting!Refuse, Away, offsetReached, openEnds, verdict
    <2> QED BY <2>1 DEF Nesting!Next
<1>7. CASE ret' = "none" /\ overran
    BY <1>1, <1>7, NestingLost
<1>8. CASE ret' = "none" /\ ~overran /\ overran'
    <2>1. stack # <<>>
        BY <1>1, <1>8
    <2>2. Nesting!Stray
        BY <1>5, <1>8, <2>1 DEF Nesting!Stray, Away, offsetReached, openEnds, verdict
    <2> QED BY <2>2 DEF Nesting!Next
<1>9. CASE ret' = "none" /\ ~overran /\ ~overran'
    <2>1. stack # <<>> =>
              /\ Len(Ends(stack)) = Len(stack)
              /\ Ends(stack)[Len(stack)] = Top.streamEndOffset
              /\ Top.streamEndOffset \in Nat
        BY <1>4, EmptySeq, EndsFacts, TopType DEF Top, IInv
    <2>2. stack # <<>> => encodedStreamOffset' <= Ends(stack)[Len(Ends(stack))]
        <3>1. U32 - 1 \in Int /\ encodedStreamOffset' \in Int
            BY <1>2, InputAssumption DEF UInt32
        <3>2. stack # <<>> => ~(encodedStreamOffset' > Top.streamEndOffset)
            BY <1>1, <1>9
        <3> QED BY <2>1, <3>1, <3>2
    <2>3. Nesting!Consume
        BY <1>1, <1>2, <1>9, <2>2, <1>5
        DEF Nesting!Consume, Nesting!Within, Away, offsetReached, openEnds, verdict
    <2> QED BY <2>3 DEF Nesting!Next
<1> QED BY <1>1, <1>3, <1>6, <1>7, <1>8, <1>9

\* A section has been entered.
LEMMA NestingEnter ==
    ASSUME StreamsFit, IInv, IInv', HandlerStep, ret = "none",
           NEW sectionType \in {"NoType", "Set", "Array"}, NEW first \in Int,
           EnterStep(sectionType, first)
    PROVE  [Nesting!Next]_Nesting!vars
<1>1. /\ stack' = Append(stack, Ending(sectionType))
      /\ ret' = "none"
      /\ overran' = (overran \/ (stack # <<>> /\ valueEndOffset > Top.streamEndOffset))
    BY DEF EnterStep
<1>2. /\ encodedStreamOffset' \in UInt32 /\ encodedStreamOffset' > encodedStreamOffset
      /\ valueEndOffset \in UInt32
    <2>1. encodedStreamOffset' \in {ValueStartOffset, bejGetFirstTupleOffset}
        BY DEF EnterStep
    <2> QED BY <2>1, HandlerOffsets
<1>3. overran \in BOOLEAN /\ overran' \in BOOLEAN /\ stack \in Seq(StackEntry)
    BY DEF IInv, TypeOK
<1>4. Ends(stack) = <<>> <=> stack = <<>>
    BY <1>3, EndsFacts
<1>5. CASE overran
    BY <1>1, <1>5, NestingLost
<1>6. CASE ~overran /\ overran'
    <2>1. stack # <<>>
        BY <1>1, <1>6
    <2>2. Nesting!Stray
        BY <1>1, <1>4, <1>6, <2>1, ret = "none"
        DEF Nesting!Stray, Away, offsetReached, openEnds, verdict
    <2> QED BY <2>2 DEF Nesting!Next
<1>7. CASE ~overran /\ ~overran'
    <2>1. Ends(stack') = Append(Ends(stack), valueEndOffset)
        <3>1. /\ Ending(sectionType) \in StackEntry
              /\ Ending(sectionType).streamEndOffset = valueEndOffset
            BY EndingType DEF HandlerStep, IInv
        <3> QED BY <1>1, <1>3, <3>1, EndsPushed
    <2>2. stack # <<>> =>
              /\ Len(Ends(stack)) = Len(stack)
              /\ Ends(stack)[Len(stack)] = Top.streamEndOffset
              /\ Top.streamEndOffset \in Nat
        BY <1>3, EmptySeq, EndsFacts, TopType DEF Top, IInv
    <2>3. stack # <<>> => valueEndOffset <= Ends(stack)[Len(Ends(stack))]
        <3>1. U32 - 1 \in Int /\ valueEndOffset \in Int
            BY <1>2, InputAssumption DEF UInt32
        <3>2. stack # <<>> => ~(valueEndOffset > Top.streamEndOffset)
            BY <1>1, <1>7
        <3> QED BY <2>2, <3>1, <3>2
    <2>4. Nesting!Within(valueEndOffset)
        BY <1>4, <1>7, <2>3 DEF Nesting!Within, Away, openEnds
    <2>5. Nesting!Enter
        BY <1>1, <1>2, <1>7, <2>1, <2>4
        DEF Nesting!Enter, Away, offsetReached, openEnds, verdict
    <2> QED BY <2>5 DEF Nesting!Next
<1> QED BY <1>3, <1>5, <1>6, <1>7

LEMMA NestingStepHolds ==
    ASSUME StreamsFit, IInv, IInv', [Next]_vars
    PROVE  [Nesting!Next]_Nesting!vars
<1>1. CASE \/ bejDecodePldmBlockWithPolicy \/ ReadRoot \/ ExceedMaxOperations
           \/ ReadTuple \/ LeaveLoop \/ EndProperty \/ EndStream
    <2>1. UNCHANGED <<encodedStreamOffset, stack, overran>>
        BY <1>1, BlockFacts, ReadRootFacts, ExceedFacts, ReadTupleFacts, EndFacts
        DEF state, history, IInv
    <2>2. pc # "done"
        BY <1>1, BlockFacts, ReadRootFacts, ExceedFacts, ReadTupleFacts, EndFacts
        DEF IInv, Endings
    <2>3. ret = "none"
        BY <2>2 DEF IInv, StartInv
    <2> QED BY <2>1, <2>3, NestingControl
<1>2. CASE EndSection
    <2>1. ret = "none"
        BY <1>2, EndSectionFacts DEF IInv, StartInv, Endings
    <2> QED BY <1>2, <2>1, NestingLeave
<1>3. CASE Handle
    <2>1. HandlerStep
        BY <1>3, HandlerSteps DEF IInv
    <2>2. ret = "none"
        BY <2>1 DEF HandlerStep, IInv, StartInv
    <2>3. CASE RejectStep
        BY <2>2, <2>3, NestingControl DEF RejectStep, state, history
    <2>4. CASE ConsumeStep \/ EmptyStep
        BY <2>1, <2>2, <2>4, NestingConsume
    <2>5. ASSUME NEW sectionType \in {"NoType", "Set", "Array"}, NEW first \in Int,
                 EnterStep(sectionType, first)
          PROVE  [Nesting!Next]_Nesting!vars
        BY <2>1, <2>2, <2>5, NestingEnter
    <2> QED BY <2>1, <2>3, <2>4, <2>5 DEF HandlerStep
<1>4. CASE UNCHANGED vars
    BY <1>4 DEF vars, state, history, Nesting!vars, Away, offsetReached, openEnds,
                verdict, Ends
<1> QED BY <1>1, <1>2, <1>3, <1>4 DEF Next, ProcessEnding

\* The decoder, with its stack of endings compared for equality only (line 307),
\* implements a reader of properly nested sections.
THEOREM ImplementsNestingHolds == StreamsFit => (Spec => ImplementsNesting)
<1> SUFFICES ASSUME StreamsFit PROVE Spec => ImplementsNesting
    OBVIOUS
<1>1. Init => Nesting!Init
    BY NestingInit
<1>2. IInv /\ IInv' /\ [Next]_vars => [Nesting!Next]_Nesting!vars
    BY NestingStepHolds
<1>3. Spec => []IInv
    BY InvariantHolds
<1> QED BY <1>1, <1>2, <1>3, PTL DEF Spec, ImplementsNesting, Nesting!Spec

=============================================================================
