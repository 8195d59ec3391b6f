--------------------------- MODULE BejDecoderJson ---------------------------
(***************************************************************************)
(* The decoder that writes JSON (class BejDecoderJson,                     *)
(* src/bej_decoder_json.cpp): the decoder core with the callbacks that     *)
(* append to its output, and the object that is used for one block after   *)
(* another.                                                                *)
(*                                                                         *)
(* The output is a sequence of pieces of text. What a value or a name      *)
(* spells is left out; what matters is which piece is written when:        *)
(*                                                                         *)
(*   "{" "}" "[" "]" ","    themselves                                     *)
(*   "name"                 a whole name,               "Status":          *)
(*   "head"                 a name left open,           "Status            *)
(*   "tail"                 a name that closes it,      @Message":         *)
(*   "value"                null, a number, a string, true, ...            *)
(***************************************************************************)
EXTENDS BejDecoder, SequencesExt

\* Only callbackString and callbackReal have a return that is not zero.
ASSUME JsonCallbacksAssumption == FailingCallbacks \subseteq {"String", "Real"}

VARIABLES
    output,             \* output
    isPrevAnnotated,    \* isPrevAnnotated
    conforming          \* history: every tuple handled so far was Conforming

jsonVars == <<vars, output, isPrevAnnotated, conforming>>

Pieces == {"{", "}", "[", "]", ",", "name", "head", "tail", "value"}

JsonTypeOK ==
    /\ TypeOK
    /\ output \in Seq(Pieces)
    /\ isPrevAnnotated \in BOOLEAN
    /\ conforming \in BOOLEAN

-----------------------------------------------------------------------------
(* The callbacks. What they work on is written w: the output and the flag.   *)

addPropertyNameToOutput(w, prop) ==
    IF prop = "" THEN <<>>
    ELSE IF w.isPrevAnnotated THEN <<"tail">> ELSE <<"name">>

Closing == [SetEnd |-> "}", ArrayEnd |-> "]", PropertyEnd |-> ","]

Opening(cb) ==
    IF cb = "SetStart" THEN "{" ELSE IF cb = "ArrayStart" THEN "[" ELSE "value"

\* Bug: a set or an array does not end the annotation it is the value of.
WriteKeepsAnnotated(w, c) ==
    IF c.cb \in {"StackPush", "ReadonlyProperty"} THEN w
    ELSE IF c.cb \in DOMAIN Closing
    THEN [w EXCEPT !.output = Append(@, Closing[c.cb])]
    ELSE IF c.cb = "Annotation"
    THEN [output |-> Append(w.output, "head"), isPrevAnnotated |-> TRUE]
    ELSE [output |-> w.output \o addPropertyNameToOutput(w, c.prop) \o <<Opening(c.cb)>>,
          isPrevAnnotated |-> w.isPrevAnnotated /\ Opening(c.cb) # "value"]

\* The decoder's stack is not one of the callbacks that write, and there is no
\* callback for read-only properties.
Write(w, c) ==
    IF c.cb \in {"StackPush", "ReadonlyProperty"} THEN w
    ELSE IF c.cb \in DOMAIN Closing
    THEN [w EXCEPT !.output = Append(@, Closing[c.cb])]
    ELSE IF c.cb = "Annotation"
    THEN [output |-> Append(w.output, "head"), isPrevAnnotated |-> TRUE]
    ELSE [output |-> w.output \o addPropertyNameToOutput(w, c.prop) \o <<Opening(c.cb)>>,
          isPrevAnnotated |-> FALSE]

\* The callbacks of a step that return zero; one that does not writes nothing.
Writing == IF failed' /\ ~failed THEN Front(calls') ELSE calls'

WriteOutput ==
    LET w == FoldLeft(Write, [output |-> output, isPrevAnnotated |-> isPrevAnnotated],
                      Writing)
    IN  output' = w.output /\ isPrevAnnotated' = w.isPrevAnnotated

-----------------------------------------------------------------------------
(* What a stream must be for its JSON to be: a property of the input.        *)

Parent == IF stack = <<>> THEN "Root" ELSE Top.sectionType

\* There is one root, the dictionary has a name for what is inside of a set or
\* an annotation, and annotations annotate a property of a set with something.
Conforming ==
    /\ Parent = "Root" => encodedStreamOffset = 0
    /\ addPropertyName => bejGetPropName # ""
    /\ sflv.type = "PropertyAnnotation" => Parent = "Set" /\ sflv.len # 0

-----------------------------------------------------------------------------
(* BejDecoderJson::decode *)

JsonInit ==
    /\ Init
    /\ output = <<>>
    /\ isPrevAnnotated = FALSE
    /\ conforming = TRUE

\* Bug: the stack of the decode before is not cleared.
DecodeKeepsStack ==
    /\ pc = "done"
    /\ pc' = "block"
    /\ ret' = "none"
    /\ block' \in Blocks
    /\ stream' = <<>>
    /\ sflv' = ZeroSflv
    /\ payloadLen' = 0
    /\ addPropertyName' = FALSE
    /\ mainDictPropOffset' = bejDictGetPropertyHeadOffset
    /\ annoDictPropOffset' = bejDictGetFirstAnnotatedPropertyOffset
    /\ encodedStreamOffset' = 0
    /\ operationCount' = 0
    /\ calls' = <<>>
    /\ failed' = FALSE
    /\ UNCHANGED <<stack, path>>
    /\ overran' = FALSE
    /\ output' = <<>>
    /\ isPrevAnnotated' = FALSE
    /\ conforming' = TRUE

\* The next call of decode, whatever the one before has returned.
decode ==
    /\ pc = "done"
    /\ pc' = "block"
    /\ ret' = "none"
    /\ block' \in Blocks
    /\ stream' = <<>>
    /\ sflv' = ZeroSflv
    /\ payloadLen' = 0
    /\ addPropertyName' = FALSE
    /\ mainDictPropOffset' = bejDictGetPropertyHeadOffset
    /\ annoDictPropOffset' = bejDictGetFirstAnnotatedPropertyOffset
    /\ encodedStreamOffset' = 0
    /\ operationCount' = 0
    /\ stack' = <<>>
    /\ calls' = <<>>
    /\ failed' = FALSE
    /\ path' = <<>>
    /\ overran' = FALSE
    /\ output' = <<>>
    /\ isPrevAnnotated' = FALSE
    /\ conforming' = TRUE

JsonStep ==
    /\ Next
    /\ WriteOutput
    /\ conforming' = (conforming /\ (pc = "handle" => Conforming))

JsonNext == JsonStep \/ decode

JsonSpec == JsonInit /\ [][JsonNext]_jsonVars

-----------------------------------------------------------------------------
(* JSON, as an automaton over pieces of text: what is open, and what may     *)
(* come next.                                                                *)

JsonStart == [open |-> <<>>, next |-> "value"]

Valued(open) == [open |-> open, next |-> IF open = <<>> THEN "end" ELSE "more"]

JsonPiece(j, piece) ==
    LET inside == IF j.open = <<>> THEN "none" ELSE j.open[Len(j.open)]
    IN  CASE piece = "{" /\ j.next \in {"value", "firstValue"} ->
                 [open |-> Append(j.open, "object"), next |-> "firstName"]
          [] piece = "[" /\ j.next \in {"value", "firstValue"} ->
                 [open |-> Append(j.open, "array"), next |-> "firstValue"]
          [] piece = "value" /\ j.next \in {"value", "firstValue"} -> Valued(j.open)
          [] piece = "name" /\ j.next \in {"name", "firstName"} -> [j EXCEPT !.next = "value"]
          [] piece = "head" /\ j.next \in {"name", "firstName"} -> [j EXCEPT !.next = "tail"]
          [] piece = "tail" /\ j.next = "tail" -> [j EXCEPT !.next = "value"]
          [] piece = "}" /\ inside = "object" /\ j.next \in {"more", "firstName"} ->
                 Valued(Front(j.open))
          [] piece = "]" /\ inside = "array" /\ j.next \in {"more", "firstValue"} ->
                 Valued(Front(j.open))
          [] piece = "," /\ j.next = "more" ->
                 [j EXCEPT !.next = IF inside = "object" THEN "name" ELSE "value"]
          [] OTHER -> [j EXCEPT !.next = "bad"]

JsonOf(pieces) == FoldLeft(JsonPiece, JsonStart, pieces)

Json == JsonOf(output)

-----------------------------------------------------------------------------
(* Properties. *)

\* Whatever a conforming stream holds besides (sections that overrun, counts
\* and lengths that disagree, a failure half way), what has been written is the
\* beginning of a JSON text: commas come from bejProcessEnding (line 331), the
\* quote between the two halves of an annotated name from a flag that the
\* callback for its value resets.
OutputIsJsonPrefix ==
    conforming /\ ret \in {"none", "OK"} => Json.next # "bad"

\* What is open in the output is what is open on the decoder's stack, at every
\* step: sets and arrays, not annotations, which have no brackets of their own.
OpenedBy(open, entry) ==
    IF entry.sectionType = "NoType" THEN open
    ELSE Append(open, IF entry.sectionType = "Set" THEN "object" ELSE "array")

Brackets(s) == FoldLeft(OpenedBy, <<>>, s)

BracketsFollowStack == conforming => Json.open = Brackets(stack)

\* When decode returns zero for a conforming stream, the output is a complete
\* JSON text, also when earlier calls failed half way and left output, stack
\* and flag behind.
AcceptedIsJson == ret = "OK" /\ conforming => Json.next = "end"

\* The comment of getOutput: the output may be invalid JSON if the decoding was
\* unsuccessful (bej_decoder_json.hpp, lines 32-33).
SuccessIsJson == ret = "OK" => Json.next = "end"

-----------------------------------------------------------------------------
(* The inductive invariant behind the three properties, for streams no       *)
(* longer than StreamsFit allows.                                            *)

\* Nothing has been written before the loop, and a callback that has failed has
\* ended the decode: the only two that can are those of values.
OutputInv ==
    /\ pc \in {"block", "root"} => output = <<>> /\ ~isPrevAnnotated /\ stack = <<>>
    /\ pc = "done" => ret # "none"
    /\ failed => pc = "done" /\ ret = "Callback"
    /\ Walking => payloadLen # 0
    /\ pc \in Endings => encodedStreamOffset # 0

\* Between tuples: what may be written next in the section on top. Inside an
\* annotation that is the rest of the name it has begun, or another property
\* of the set it is in.
Pending ==
    IF stack = <<>> THEN
        /\ ~isPrevAnnotated
        /\ Json.next = IF encodedStreamOffset = 0 THEN "value" ELSE "end"
    ELSE IF Top.sectionType = "NoType" THEN
        /\ ~SectionEndsHere
        /\ Json.next = IF isPrevAnnotated THEN "tail" ELSE "name"
    ELSE
        /\ ~isPrevAnnotated
        /\ LET set == Top.sectionType = "Set"
           IN  \/ Json.next = IF set THEN "firstName" ELSE "firstValue"
               \/ /\ Json.next = IF set THEN "name" ELSE "value"
                  /\ ~SectionEndsHere

\* After a value: it is all there is, or more may follow.
Settled ==
    /\ ~isPrevAnnotated
    /\ Json.next = IF Json.open = <<>> THEN "end" ELSE "more"

\* Only properties of sets are annotated.
AnnotationsInSets ==
    \A i \in DOMAIN stack :
        stack[i].sectionType = "NoType" => i > 1 /\ stack[i - 1].sectionType = "Set"

ConformingInv ==
    conforming =>
        /\ BracketsFollowStack
        /\ AnnotationsInSets
        /\ pc \in {"loop", "handle"} => Pending
        /\ pc \in {"ending", "emptyEnding"} => Settled
        /\ pc = "finalEnding" => Pending \/ Settled
        /\ AcceptedIsJson

JsonInv == JsonTypeOK /\ IInv /\ NamesInv /\ OutputInv /\ ConformingInv

=============================================================================
