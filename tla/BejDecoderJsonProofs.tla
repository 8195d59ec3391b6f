------------------------ MODULE BejDecoderJsonProofs ------------------------
(***************************************************************************)
(* Theorems about the decoder that writes JSON (BejDecoderJson), for every *)
(* pair of dictionaries and every set of blocks and tuples: a stream that  *)
(* is Conforming is written as JSON.                                       *)
(*                                                                         *)
(* What is written is a fold over the callbacks of the steps, what it      *)
(* means a fold over the pieces written, what is open a fold over the      *)
(* stack. The first part shows that each of the three grows by one step    *)
(* per element (by BejInduction), the second which callbacks each kind of  *)
(* step makes, the third that the invariant is kept.                       *)
(***************************************************************************)
EXTENDS BejDecoderJson, BejDecoderProofs

JStates ==
    [open: Seq({"object", "array"}),
     next: {"value", "firstValue", "name", "firstName", "tail", "more", "end", "bad"}]

Works == [output: Seq(Pieces), isPrevAnnotated: BOOLEAN]

-----------------------------------------------------------------------------
(* The automaton over pieces of text. *)

\* Where the automaton is, with the names of its parts.
LEMMA JStateParts ==
    ASSUME NEW j \in JStates
    PROVE  /\ j.open \in Seq({"object", "array"})
           /\ j.next \in {"value", "firstValue", "name", "firstName", "tail", "more", "end", "bad"}
           /\ j = [open |-> j.open, next |-> j.next]
BY DEF JStates

LEMMA FrontAppend ==
    ASSUME NEW S, NEW s \in Seq(S), NEW e \in S
    PROVE  /\ Front(Append(s, e)) = s
           /\ Append(s, e)[Len(Append(s, e))] = e
           /\ Append(s, e) # <<>>
           /\ Append(s, e) \in Seq(S)
<1>1. /\ Append(s, e) \in Seq(S) /\ Append(s, e) # <<>>
      /\ Len(s) \in Nat /\ Len(Append(s, e)) = Len(s) + 1
      /\ \A i \in 1 .. Len(s) : Append(s, e)[i] = s[i]
      /\ Append(s, e)[Len(s) + 1] = e
    BY AppendFacts
<1>2. SubSeq(Append(s, e), 1, Len(s)) = s
    BY <1>1
<1> QED BY <1>1, <1>2 DEF Front

LEMMA FrontType ==
    ASSUME NEW S, NEW s \in Seq(S)
    PROVE  Front(s) \in Seq(S)
<1>1. Front(s) = Pop(s)
    BY DEF Front, Pop
<1> QED BY <1>1, PopType

LEMMA ValuedType ==
    ASSUME NEW open \in Seq({"object", "array"})
    PROVE  Valued(open) \in JStates
BY DEF Valued, JStates

LEMMA JsonPieceType ==
    ASSUME NEW j \in JStates, NEW piece \in Pieces
    PROVE  JsonPiece(j, piece) \in JStates
<1> DEFINE inside == IF j.open = <<>> THEN "none" ELSE j.open[Len(j.open)]
<1>1. /\ j.open \in Seq({"object", "array"})
      /\ j = [open |-> j.open, next |-> j.next]
    BY JStateParts
<1>2. Append(j.open, "object") \in Seq({"object", "array"})
      /\ Append(j.open, "array") \in Seq({"object", "array"})
    BY <1>1, FrontAppend
<1>3. ASSUME inside # "none" PROVE Front(j.open) \in Seq({"object", "array"})
    BY <1>1, <1>3, FrontType
<1>4. \A next \in {"value", "firstValue", "name", "firstName", "tail", "more", "end", "bad"} :
         [j EXCEPT !.next = next] \in JStates
    BY <1>1 DEF JStates
<1>5. \A open \in Seq({"object", "array"}) :
         /\ Valued(open) \in JStates
         /\ [open |-> open, next |-> "firstName"] \in JStates
         /\ [open |-> open, next |-> "firstValue"] \in JStates
    BY ValuedType DEF JStates
<1> HIDE DEF inside
<1> QED BY <1>1, <1>2, <1>3, <1>4, <1>5 DEF JsonPiece, inside

PieceStep == [j \in JStates |-> [piece \in Pieces |-> JsonPiece(j, piece)]]

LEMMA PieceStepType == PieceStep \in [JStates -> [Pieces -> JStates]]
BY JsonPieceType DEF PieceStep

LEMMA JsonStartType == JsonStart \in JStates
BY DEF JsonStart, JStates

LEMMA JsonFold ==
    ASSUME NEW s \in Seq(Pieces)
    PROVE  \E it : /\ OnSegments(it, JStates, JsonStart, PieceStep, s)
                   /\ JsonOf(s) = it[1 .. Len(s)]
<1> DEFINE D == SUBSET DOMAIN s
           Fold(it) == it = [T \in D |-> IF T = {} THEN JsonStart
                                         ELSE JsonPiece(it[T \ {Max(T)}], s[Max(T)])]
           it == CHOOSE it : Fold(it)
<1>0. DOMAIN s = 1 .. Len(s) /\ Len(s) \in Nat /\ \A k \in 1 .. Len(s) : s[k] \in Pieces
    BY LenProperties
<1>1. PICK f : IsFold(f, JStates, JsonStart, PieceStep, s)
    BY JsonStartType, PieceStepType, FoldExists, Zenon
<1>2. Fold(f)
    <2>1. f \in [D -> JStates]
        BY <1>1 DEF IsFold
    <2>2. ASSUME NEW T \in D, T # {}
          PROVE  f[T] = JsonPiece(f[T \ {Max(T)}], s[Max(T)])
        <3>1. Max(T) \in DOMAIN s
            BY <1>0, <2>2, MaxOfInterval
        <3>2. f[T \ {Max(T)}] \in JStates /\ s[Max(T)] \in Pieces
            BY <1>0, <2>1, <3>1
        <3>3. f[T] = PieceStep[f[T \ {Max(T)}]][s[Max(T)]]
            BY <1>1, <2>2 DEF IsFold
        <3> QED BY <3>2, <3>3 DEF PieceStep
    <2>3. f[{}] = JsonStart
        BY <1>1 DEF IsFold
    <2> QED BY <2>1, <2>2, <2>3
<1>3. Fold(it)
    <2> HIDE DEF Fold
    <2> QED BY <1>2
<1>4. JsonOf(s) = it[DOMAIN s]
    BY DEF JsonOf, FoldLeft, MapThenFoldSet
<1>5. OnSegments(it, JStates, JsonStart, PieceStep, s)
    <2> HIDE DEF it
    <2>1. it[{}] = JsonStart
        BY <1>3
    <2>2. ASSUME NEW k \in 1 .. Len(s), it[1 .. k - 1] \in JStates
          PROVE  it[1 .. k] = PieceStep[it[1 .. k - 1]][s[k]]
        <3>1. k \in Nat \ {0} /\ 1 .. k \in D
            BY <1>0
        <3>2. Max(1 .. k) = k /\ (1 .. k) \ {k} = 1 .. k - 1 /\ 1 .. k # {}
            BY <3>1, IntervalMax
        <3>3. it[1 .. k] = JsonPiece(it[1 .. k - 1], s[k])
            BY <1>3, <3>1, <3>2
        <3> QED BY <1>0, <2>2, <3>3 DEF PieceStep
    <2> QED BY <2>1, <2>2 DEF OnSegments
<1> HIDE DEF it
<1> QED BY <1>0, <1>4, <1>5

\* One piece more is one step more.
LEMMA JsonAppend ==
    ASSUME NEW s \in Seq(Pieces), NEW e \in Pieces
    PROVE  JsonOf(s) \in JStates /\ JsonOf(Append(s, e)) = JsonPiece(JsonOf(s), e)
<1>1. /\ Append(s, e) \in Seq(Pieces)
      /\ Len(Append(s, e)) = Len(s) + 1
    BY AppendFacts
<1>2. PICK it : OnSegments(it, JStates, JsonStart, PieceStep, s) /\ JsonOf(s) = it[1 .. Len(s)]
    BY JsonFold
<1>3. PICK jt : /\ OnSegments(jt, JStates, JsonStart, PieceStep, Append(s, e))
                /\ JsonOf(Append(s, e)) = jt[1 .. Len(s) + 1]
    BY <1>1, JsonFold
<1>4. OneStepOn(it, jt, JStates, PieceStep, s, e)
    BY <1>2, <1>3, JsonStartType, PieceStepType, FoldAppend, Zenon
<1> QED BY <1>2, <1>3, <1>4 DEF PieceStep, OneStepOn

LEMMA JsonEmpty == JsonOf(<<>>) = JsonStart
<1>1. <<>> \in Seq(Pieces) /\ Len(<<>>) = 0 /\ 1 .. 0 = {}
    OBVIOUS
<1>2. PICK it : /\ OnSegments(it, JStates, JsonStart, PieceStep, <<>>)
                /\ JsonOf(<<>>) = it[1 .. Len(<<>>)]
    BY <1>1, JsonFold
<1> QED BY <1>1, <1>2 DEF OnSegments

-----------------------------------------------------------------------------
(* What is open on the stack. *)

LEMMA OpenedByType ==
    ASSUME NEW open \in Seq({"object", "array"}), NEW entry \in StackEntry
    PROVE  OpenedBy(open, entry) \in Seq({"object", "array"})
<1>1. /\ Append(open, "object") \in Seq({"object", "array"})
      /\ Append(open, "array") \in Seq({"object", "array"})
    BY FrontAppend
<1> QED BY <1>1 DEF OpenedBy

OpenStep == [open \in Seq({"object", "array"}) |->
                [entry \in StackEntry |-> OpenedBy(open, entry)]]

LEMMA OpenStepType ==
    OpenStep \in [Seq({"object", "array"}) -> [StackEntry -> Seq({"object", "array"})]]
BY OpenedByType DEF OpenStep

LEMMA NothingOpenType == <<>> \in Seq({"object", "array"})
OBVIOUS

LEMMA BracketsFold ==
    ASSUME NEW s \in Seq(StackEntry)
    PROVE  \E it : /\ OnSegments(it, Seq({"object", "array"}), <<>>, OpenStep, s)
                   /\ Brackets(s) = it[1 .. Len(s)]
<1> DEFINE D == SUBSET DOMAIN s
           Fold(it) == it = [T \in D |-> IF T = {} THEN <<>>
                                         ELSE OpenedBy(it[T \ {Max(T)}], s[Max(T)])]
           it == CHOOSE it : Fold(it)
<1>0. DOMAIN s = 1 .. Len(s) /\ Len(s) \in Nat /\ \A k \in 1 .. Len(s) : s[k] \in StackEntry
    BY LenProperties
<1>1. PICK f : IsFold(f, Seq({"object", "array"}), <<>>, OpenStep, s)
    BY NothingOpenType, OpenStepType, FoldExists, Zenon
<1>2. Fold(f)
    <2>1. f \in [D -> Seq({"object", "array"})]
        BY <1>1 DEF IsFold
    <2>2. ASSUME NEW T \in D, T # {}
          PROVE  f[T] = OpenedBy(f[T \ {Max(T)}], s[Max(T)])
        <3>1. Max(T) \in DOMAIN s
            BY <1>0, <2>2, MaxOfInterval
        <3>2. f[T \ {Max(T)}] \in Seq({"object", "array"}) /\ s[Max(T)] \in StackEntry
            BY <1>0, <2>1, <3>1
        <3>3. f[T] = OpenStep[f[T \ {Max(T)}]][s[Max(T)]]
            BY <1>1, <2>2 DEF IsFold
        <3> QED BY <3>2, <3>3 DEF OpenStep
    <2>3. f[{}] = <<>>
        BY <1>1 DEF IsFold
    <2> QED BY <2>1, <2>2, <2>3
<1>3. Fold(it)
    <2> HIDE DEF Fold
    <2> QED BY <1>2
<1>4. Brackets(s) = it[DOMAIN s]
    BY DEF Brackets, FoldLeft, MapThenFoldSet
<1>5. OnSegments(it, Seq({"object", "array"}), <<>>, OpenStep, s)
    <2> HIDE DEF it
    <2>1. it[{}] = <<>>
        BY <1>3
    <2>2. ASSUME NEW k \in 1 .. Len(s), it[1 .. k - 1] \in Seq({"object", "array"})
          PROVE  it[1 .. k] = OpenStep[it[1 .. k - 1]][s[k]]
        <3>1. k \in Nat \ {0} /\ 1 .. k \in D
            BY <1>0
        <3>2. Max(1 .. k) = k /\ (1 .. k) \ {k} = 1 .. k - 1 /\ 1 .. k # {}
            BY <3>1, IntervalMax
        <3>3. it[1 .. k] = OpenedBy(it[1 .. k - 1], s[k])
            BY <1>3, <3>1, <3>2
        <3> QED BY <1>0, <2>2, <3>3 DEF OpenStep
    <2> QED BY <2>1, <2>2 DEF OnSegments
<1> HIDE DEF it
<1> QED BY <1>0, <1>4, <1>5

\* One section more is one step more.
LEMMA BracketsAppend ==
    ASSUME NEW s \in Seq(StackEntry), NEW e \in StackEntry
    PROVE  Brackets(s) \in Seq({"object", "array"}) /\ Brackets(Append(s, e)) = OpenedBy(Brackets(s), e)
<1>1. /\ Append(s, e) \in Seq(StackEntry)
      /\ Len(Append(s, e)) = Len(s) + 1
    BY AppendFacts
<1>2. PICK it : OnSegments(it, Seq({"object", "array"}), <<>>, OpenStep, s) /\ Brackets(s) = it[1 .. Len(s)]
    BY BracketsFold
<1>3. PICK jt : /\ OnSegments(jt, Seq({"object", "array"}), <<>>, OpenStep, Append(s, e))
                /\ Brackets(Append(s, e)) = jt[1 .. Len(s) + 1]
    BY <1>1, BracketsFold
<1>4. OneStepOn(it, jt, Seq({"object", "array"}), OpenStep, s, e)
    BY <1>2, <1>3, NothingOpenType, OpenStepType, FoldAppend, Zenon
<1> QED BY <1>2, <1>3, <1>4 DEF OpenStep, OneStepOn

LEMMA BracketsEmpty == Brackets(<<>>) = <<>>
<1>1. <<>> \in Seq(StackEntry) /\ Len(<<>>) = 0 /\ 1 .. 0 = {}
    OBVIOUS
<1>2. PICK it : /\ OnSegments(it, Seq({"object", "array"}), <<>>, OpenStep, <<>>)
                /\ Brackets(<<>>) = it[1 .. Len(<<>>)]
    BY <1>1, BracketsFold
<1> QED BY <1>1, <1>2 DEF OnSegments

-----------------------------------------------------------------------------
(* What the callbacks of a step write. *)

WriteAll(w, cs) == FoldLeft(Write, w, cs)

LEMMA ClosingPieces ==
    /\ DOMAIN Closing = {"SetEnd", "ArrayEnd", "PropertyEnd"}
    /\ \A cb \in DOMAIN Closing : Closing[cb] \in Pieces
    /\ \A cb : Opening(cb) \in Pieces
    /\ "head" \in Pieces /\ "tail" \in Pieces /\ "name" \in Pieces
<1>1. /\ DOMAIN Closing = {"SetEnd", "ArrayEnd", "PropertyEnd"}
      /\ Closing["SetEnd"] = "}" /\ Closing["ArrayEnd"] = "]" /\ Closing["PropertyEnd"] = ","
    BY DEF Closing
<1>2. \A cb : Opening(cb) \in {"{", "[", "value"}
    BY Zenon DEF Opening
<1> QED BY <1>1, <1>2 DEF Pieces

LEMMA ConcatEmpty ==
    ASSUME NEW S, NEW s \in Seq(S), NEW e \in S, NEW f \in S
    PROVE  /\ s \o <<>> \o <<e>> = Append(s, e)
           /\ s \o <<f>> \o <<e>> = Append(Append(s, f), e)
OBVIOUS

\* Where the automaton is after the name of a value.
WithName(j, annotated, prop) ==
    IF prop = "" THEN j ELSE JsonPiece(j, IF annotated THEN "tail" ELSE "name")

LEMMA NamedPiece ==
    ASSUME NEW w \in Works, NEW prop, NEW piece \in Pieces
    PROVE  LET out == w.output \o addPropertyNameToOutput(w, prop) \o <<piece>>
           IN  /\ out \in Seq(Pieces)
               /\ JsonOf(out) = JsonPiece(WithName(JsonOf(w.output), w.isPrevAnnotated, prop), piece)
<1> DEFINE name == IF w.isPrevAnnotated THEN "tail" ELSE "name"
<1>1. w.output \in Seq(Pieces) /\ name \in Pieces
    BY ClosingPieces DEF Works
<1>2. /\ Append(w.output, piece) \in Seq(Pieces)
      /\ Append(w.output, name) \in Seq(Pieces)
      /\ Append(Append(w.output, name), piece) \in Seq(Pieces)
    BY <1>1, FrontAppend
<1>3. CASE prop = ""
    <2>1. w.output \o addPropertyNameToOutput(w, prop) \o <<piece>> = Append(w.output, piece)
        BY <1>1, <1>3, ConcatEmpty DEF addPropertyNameToOutput
    <2> QED BY <1>1, <1>2, <1>3, <2>1, JsonAppend DEF WithName
<1>4. CASE prop # ""
    <2>1. addPropertyNameToOutput(w, prop) = <<name>>
        BY <1>4 DEF addPropertyNameToOutput
    <2>2. w.output \o <<name>> \o <<piece>> = Append(Append(w.output, name), piece)
        BY <1>1, ConcatEmpty
    <2>3. JsonOf(Append(Append(w.output, name), piece))
              = JsonPiece(JsonPiece(JsonOf(w.output), name), piece)
        BY <1>1, <1>2, JsonAppend
    <2> QED BY <1>2, <1>4, <2>1, <2>2, <2>3 DEF WithName
<1> QED BY <1>3, <1>4

\* What a callback makes of where the automaton and the flag were.
Means(j, annotated, c, k, annotatedThen) ==
    /\ c.cb \in {"StackPush", "ReadonlyProperty"} => k = j /\ annotatedThen = annotated
    /\ c.cb \in DOMAIN Closing =>
           annotatedThen = annotated /\ k = JsonPiece(j, Closing[c.cb])
    /\ c.cb = "Annotation" => annotatedThen /\ k = JsonPiece(j, "head")
    /\ c.cb \notin {"StackPush", "ReadonlyProperty", "Annotation"} \cup DOMAIN Closing =>
           ~annotatedThen /\ k = JsonPiece(WithName(j, annotated, c.prop), Opening(c.cb))

WriteMeaning(w, c) ==
    /\ Write(w, c) \in Works
    /\ Means(JsonOf(w.output), w.isPrevAnnotated, c,
             JsonOf(Write(w, c).output), Write(w, c).isPrevAnnotated)

LEMMA WriteMeans ==
    ASSUME NEW w \in Works, NEW c \in Callback
    PROVE  WriteMeaning(w, c)
<1>1. w.output \in Seq(Pieces) /\ w.isPrevAnnotated \in BOOLEAN
    BY DEF Works
<1>2. w = [output |-> w.output, isPrevAnnotated |-> w.isPrevAnnotated]
    BY DEF Works
<1>3. CASE c.cb \in {"StackPush", "ReadonlyProperty"}
    <2>1. Write(w, c) = w
        BY <1>3 DEF Write
    <2> QED BY <1>3, <2>1, ClosingPieces DEF WriteMeaning, Means
<1>4. CASE c.cb \in DOMAIN Closing
    <2> DEFINE piece == Closing[c.cb]
    <2>1. piece \in Pieces
        BY <1>4, ClosingPieces
    <2>2. Write(w, c) = [output |-> Append(w.output, piece), isPrevAnnotated |-> w.isPrevAnnotated]
        BY <1>2, <1>4, ClosingPieces DEF Write
    <2>3. Append(w.output, piece) \in Seq(Pieces)
        BY <1>1, <2>1, FrontAppend
    <2>4. JsonOf(Append(w.output, piece)) = JsonPiece(JsonOf(w.output), piece)
        BY <1>1, <2>1, JsonAppend
    <2>5. c.cb \notin {"StackPush", "ReadonlyProperty", "Annotation"}
        BY <1>4, ClosingPieces
    <2>6. Write(w, c) \in Works
        BY <1>1, <2>2, <2>3 DEF Works
    <2> QED BY <1>4, <2>2, <2>4, <2>5, <2>6 DEF WriteMeaning, Means
<1>5. CASE c.cb = "Annotation"
    <2>1. Write(w, c) = [output |-> Append(w.output, "head"), isPrevAnnotated |-> TRUE]
        BY <1>5, ClosingPieces DEF Write
    <2>2. Append(w.output, "head") \in Seq(Pieces)
        BY <1>1, ClosingPieces, FrontAppend
    <2>3. JsonOf(Append(w.output, "head")) = JsonPiece(JsonOf(w.output), "head")
        BY <1>1, ClosingPieces, JsonAppend
    <2>4. Write(w, c) \in Works
        BY <2>1, <2>2 DEF Works
    <2> QED BY <1>5, <2>1, <2>3, <2>4, ClosingPieces DEF WriteMeaning, Means
<1>6. CASE c.cb \notin {"StackPush", "ReadonlyProperty", "Annotation"} \cup DOMAIN Closing
    <2> DEFINE out == w.output \o addPropertyNameToOutput(w, c.prop) \o <<Opening(c.cb)>>
    <2>1. Write(w, c) = [output |-> out, isPrevAnnotated |-> FALSE]
        BY <1>6 DEF Write
    <2>2. /\ out \in Seq(Pieces)
          /\ JsonOf(out) = JsonPiece(WithName(JsonOf(w.output), w.isPrevAnnotated, c.prop),
                                     Opening(c.cb))
        BY ClosingPieces, NamedPiece
    <2> HIDE DEF out
    <2>3. Write(w, c) \in Works
        BY <2>1, <2>2 DEF Works
    <2>4. Write(w, c).output = out /\ Write(w, c).isPrevAnnotated = FALSE
        BY <2>1
    <2>5. /\ c.cb \notin {"StackPush", "ReadonlyProperty"} /\ c.cb # "Annotation"
          /\ c.cb \notin DOMAIN Closing
        BY <1>6
    <2>6. JsonOf(Write(w, c).output)
              = JsonPiece(WithName(JsonOf(w.output), w.isPrevAnnotated, c.prop), Opening(c.cb))
        BY <2>2, <2>4
    <2> QED BY <2>3, <2>4, <2>5, <2>6, Zenon DEF WriteMeaning, Means
<1> QED BY <1>3, <1>4, <1>5, <1>6

LEMMA WriteType ==
    ASSUME NEW w \in Works, NEW c \in Callback
    PROVE  Write(w, c) \in Works
BY WriteMeans DEF WriteMeaning

WriteStep == [w \in Works |-> [c \in Callback |-> Write(w, c)]]

LEMMA WriteStepType == WriteStep \in [Works -> [Callback -> Works]]
BY WriteType DEF WriteStep

LEMMA WriteFold ==
    ASSUME NEW base \in Works, NEW s \in Seq(Callback)
    PROVE  \E it : /\ OnSegments(it, Works, base, WriteStep, s)
                   /\ WriteAll(base, s) = it[1 .. Len(s)]
<1> DEFINE D == SUBSET DOMAIN s
           Fold(it) == it = [T \in D |-> IF T = {} THEN base
                                         ELSE Write(it[T \ {Max(T)}], s[Max(T)])]
           it == CHOOSE it : Fold(it)
<1>0. DOMAIN s = 1 .. Len(s) /\ Len(s) \in Nat /\ \A k \in 1 .. Len(s) : s[k] \in Callback
    BY LenProperties
<1>1. PICK f : IsFold(f, Works, base, WriteStep, s)
    BY WriteStepType, FoldExists, Zenon
<1>2. Fold(f)
    <2>1. f \in [D -> Works]
        BY <1>1 DEF IsFold
    <2>2. ASSUME NEW T \in D, T # {}
          PROVE  f[T] = Write(f[T \ {Max(T)}], s[Max(T)])
        <3>1. Max(T) \in DOMAIN s
            BY <1>0, <2>2, MaxOfInterval
        <3>2. f[T \ {Max(T)}] \in Works /\ s[Max(T)] \in Callback
            BY <1>0, <2>1, <3>1
        <3>3. f[T] = WriteStep[f[T \ {Max(T)}]][s[Max(T)]]
            BY <1>1, <2>2 DEF IsFold
        <3> QED BY <3>2, <3>3 DEF WriteStep
    <2>3. f[{}] = base
        BY <1>1 DEF IsFold
    <2> QED BY <2>1, <2>2, <2>3
<1>3. Fold(it)
    <2> HIDE DEF Fold
    <2> QED BY <1>2
<1>4. WriteAll(base, s) = it[DOMAIN s]
    BY DEF WriteAll, FoldLeft, MapThenFoldSet
<1>5. OnSegments(it, Works, base, WriteStep, s)
    <2> HIDE DEF it
    <2>1. it[{}] = base
        BY <1>3
    <2>2. ASSUME NEW k \in 1 .. Len(s), it[1 .. k - 1] \in Works
          PROVE  it[1 .. k] = WriteStep[it[1 .. k - 1]][s[k]]
        <3>1. k \in Nat \ {0} /\ 1 .. k \in D
            BY <1>0
        <3>2. Max(1 .. k) = k /\ (1 .. k) \ {k} = 1 .. k - 1 /\ 1 .. k # {}
            BY <3>1, IntervalMax
        <3>3. it[1 .. k] = Write(it[1 .. k - 1], s[k])
            BY <1>3, <3>1, <3>2
        <3> QED BY <1>0, <2>2, <3>3 DEF WriteStep
    <2> QED BY <2>1, <2>2 DEF OnSegments
<1> HIDE DEF it
<1> QED BY <1>0, <1>4, <1>5

\* One callback more is one step more.
LEMMA WriteAppend ==
    ASSUME NEW base \in Works, NEW s \in Seq(Callback), NEW e \in Callback
    PROVE  WriteAll(base, s) \in Works /\ WriteAll(base, Append(s, e)) = Write(WriteAll(base, s), e)
<1>1. /\ Append(s, e) \in Seq(Callback)
      /\ Len(Append(s, e)) = Len(s) + 1
    BY AppendFacts
<1>2. PICK it : OnSegments(it, Works, base, WriteStep, s) /\ WriteAll(base, s) = it[1 .. Len(s)]
    BY WriteFold
<1>3. PICK jt : /\ OnSegments(jt, Works, base, WriteStep, Append(s, e))
                /\ WriteAll(base, Append(s, e)) = jt[1 .. Len(s) + 1]
    BY <1>1, WriteFold
<1>4. OneStepOn(it, jt, Works, WriteStep, s, e)
    BY <1>2, <1>3, WriteStepType, FoldAppend, Zenon
<1> QED BY <1>2, <1>3, <1>4 DEF WriteStep, OneStepOn

LEMMA WriteEmpty ==
    ASSUME NEW base \in Works
    PROVE  WriteAll(base, <<>>) = base
<1>1. <<>> \in Seq(Callback) /\ Len(<<>>) = 0 /\ 1 .. 0 = {}
    OBVIOUS
<1>2. PICK it : /\ OnSegments(it, Works, base, WriteStep, <<>>)
                /\ WriteAll(base, <<>>) = it[1 .. Len(<<>>)]
    BY <1>1, WriteFold
<1> QED BY <1>1, <1>2 DEF OnSegments

-----------------------------------------------------------------------------
(* The callbacks a step makes. *)

ValueCallbacks ==
    CallbackNames \ ({"StackPush", "ReadonlyProperty", "Annotation", "SetStart", "ArrayStart"}
                        \cup DOMAIN Closing)

StartOf == [Set |-> "SetStart", Array |-> "ArrayStart", NoType |-> "Annotation"]
EndOf == [Set |-> "SetEnd", Array |-> "ArrayEnd"]

\* A conforming value has a name where names are added, and only there.
NameGiven(prop) == Conforming => (prop = "" <=> ~addPropertyName)

\* A handler that returns an error has written nothing.
RejectCalls ==
    /\ RejectStep
    /\ \/ calls' = <<>> /\ failed' = failed
       \/ failed' /\ ret' = "Callback" /\ \E c \in Callback : calls' = <<c>>

ConsumeCalls ==
    /\ ConsumeStep
    /\ failed' = failed
    /\ \E c \in Callback :
          /\ calls' = <<c>>
          /\ c.cb \in ValueCallbacks
          /\ NameGiven(c.prop)

EmptyCalls ==
    /\ EmptyStep
    /\ failed' = failed
    /\ \E c \in Callback, d \in Callback :
          /\ calls' = <<c, d>>
          /\ c.cb = StartOf[sflv.type] /\ d.cb = EndOf[sflv.type]
          /\ NameGiven(c.prop)

EnterCalls(sectionType, first) ==
    /\ EnterStep(sectionType, first)
    /\ failed' = failed
    /\ \E c \in Callback, d \in Callback :
          /\ calls' = <<c, d>>
          /\ c.cb = StartOf[sectionType] /\ d.cb = "StackPush"
          /\ sectionType # "NoType" => NameGiven(c.prop)

HandlerCalls ==
    \/ RejectCalls
    \/ ConsumeCalls
    \/ EmptyCalls
    \/ \E sectionType \in {"NoType", "Set", "Array"}, first \in Int :
          EnterCalls(sectionType, first)

LEMMA CallbacksMade ==
    ASSUME NEW cs \in Seq(Callback), NEW Then, NEW Otherwise,
           \A i \in DOMAIN cs : cs[i].cb \notin {"String", "Real"},
           Callbacks(cs, Then, Otherwise)
    PROVE  Then /\ calls' = cs /\ failed' = failed
BY JsonCallbacksAssumption DEF Callbacks

LEMMA OneCallback ==
    ASSUME NEW c \in Callback, NEW Then, NEW Otherwise, Callbacks(<<c>>, Then, Otherwise)
    PROVE  /\ calls' = <<c>>
           /\ \/ Then /\ failed' = failed
              \/ Otherwise /\ failed' = TRUE
<1>1. CASE Then /\ calls' = <<c>> /\ UNCHANGED failed
    BY <1>1
<1>2. CASE \E i \in DOMAIN <<c>> :
              /\ <<c>>[i].cb \in FailingCallbacks
              /\ Otherwise
              /\ calls' = SubSeq(<<c>>, 1, i)
              /\ failed' = TRUE
    <2>1. PICK i \in DOMAIN <<c>> : Otherwise /\ calls' = SubSeq(<<c>>, 1, i) /\ failed' = TRUE
        BY <1>2
    <2>2. DOMAIN <<c>> = {1} /\ <<c>> \in Seq(Callback) /\ Len(<<c>>) = 1
        OBVIOUS
    <2>3. SubSeq(<<c>>, 1, 1) = <<c>>
        BY <2>2, SubSeqFull
    <2> QED BY <2>1, <2>2, <2>3
<1> QED BY <1>1, <1>2 DEF Callbacks

LEMMA OneCallbackMade ==
    ASSUME NEW c \in Callback, c.cb \notin {"String", "Real"}, NEW Then, NEW Otherwise,
           Callbacks(<<c>>, Then, Otherwise)
    PROVE  Then /\ calls' = <<c>> /\ failed' = failed
<1>1. <<c>> \in Seq(Callback) /\ DOMAIN <<c>> = {1}
    OBVIOUS
<1>2. \A i \in DOMAIN <<c>> : <<c>>[i].cb \notin {"String", "Real"}
    BY <1>1
<1> QED BY <1>1, <1>2, CallbacksMade

LEMMA TwoCallbacks ==
    ASSUME NEW c \in Callback, NEW d \in Callback, NEW Then, NEW Otherwise,
           c.cb \notin {"String", "Real"}, d.cb \notin {"String", "Real"},
           Callbacks(<<c, d>>, Then, Otherwise)
    PROVE  Then /\ calls' = <<c, d>> /\ failed' = failed
<1>1. <<c, d>> \in Seq(Callback) /\ DOMAIN <<c, d>> = {1, 2}
    OBVIOUS
<1>2. \A i \in DOMAIN <<c, d>> : <<c, d>>[i].cb \notin {"String", "Real"}
    BY <1>1
<1> QED BY <1>1, <1>2, CallbacksMade

LEMMA SectionCallbacks ==
    /\ \A sectionType \in {"NoType", "Set", "Array"} :
          StartOf[sectionType] \in CallbackNames \ {"String", "Real"}
    /\ \A sectionType \in {"Set", "Array"} :
          EndOf[sectionType] \in CallbackNames \ {"String", "Real"}
    /\ "StackPush" \in CallbackNames \ {"String", "Real"}
BY DEF StartOf, EndOf, CallbackNames

LEMMA CallParts ==
    ASSUME NEW cb \in CallbackNames, NEW prop \in Names
    PROVE  /\ Call(cb, prop) \in Callback
           /\ Call(cb, prop).cb = cb
           /\ Call(cb, prop).prop = prop
BY DEF Call, Callback

LEMMA RejectMakes ==
    ASSUME NEW status \in Statuses \ {"OK"}, Reject(status)
    PROVE  RejectCalls
BY DEF Reject, Return, RejectStep, RejectCalls

LEMMA ConsumeValueMakes ==
    ASSUME NEW cb \in ValueCallbacks, NEW prop \in Names, NameGiven(prop),
           sflv.type \notin {"Set", "Array", "PropertyAnnotation"},
           ConsumeValue(cb, prop)
    PROVE  RejectCalls \/ ConsumeCalls
<1> DEFINE Then == /\ AdvanceTo(valueEndOffset)
                   /\ ReturnProcessEnding
                   /\ UNCHANGED <<addPropertyName, mainDictPropOffset,
                                  annoDictPropOffset, stack, path>>
           c == Call(cb, prop)
<1>1. c \in Callback /\ c.cb = cb /\ c.prop = prop
    BY CallParts DEF ValueCallbacks
<1>2. Callbacks(<<c>>, Then, ReturnCallbackError)
    BY DEF ConsumeValue
<1>3. /\ calls' = <<c>>
      /\ \/ Then /\ failed' = failed
         \/ ReturnCallbackError /\ failed' = TRUE
    <2> HIDE DEF Then, c
    <2> QED BY <1>1, <1>2, OneCallback
<1>4. Then => ConsumeStep
    BY DEF AdvanceTo, ReturnProcessEnding, Return, ConsumeStep
<1>5. ReturnCallbackError => RejectStep /\ ret' = "Callback"
    BY DEF ReturnCallbackError, Return, RejectStep, Statuses
<1> HIDE DEF Then, c
<1> QED BY <1>1, <1>3, <1>4, <1>5 DEF RejectCalls, ConsumeCalls

LEMMA EmptySectionMakes ==
    ASSUME sflv.type \in {"Set", "Array"}, sflv.nnint = 0, NEW name \in Names, NameGiven(name),
           EmptySection(StartOf[sflv.type], EndOf[sflv.type], name)
    PROVE  EmptyCalls
<1> DEFINE Then == /\ AdvanceTo(bejGetFirstTupleOffset)
                   /\ pc' = IF stack = <<>> THEN "loop" ELSE "emptyEnding"
                   /\ UNCHANGED <<ret, addPropertyName, mainDictPropOffset,
                                  annoDictPropOffset, stack, path>>
           c == Call(StartOf[sflv.type], name)
           d == Call(EndOf[sflv.type], "")
<1>1. /\ c \in Callback /\ c.cb = StartOf[sflv.type] /\ c.prop = name
      /\ d \in Callback /\ d.cb = EndOf[sflv.type]
      /\ c.cb \notin {"String", "Real"} /\ d.cb \notin {"String", "Real"}
    <2>1. /\ StartOf[sflv.type] \in CallbackNames /\ StartOf[sflv.type] \notin {"String", "Real"}
          /\ EndOf[sflv.type] \in CallbackNames /\ EndOf[sflv.type] \notin {"String", "Real"}
          /\ "" \in Names
        BY SectionCallbacks, NameAssumption
    <2> QED BY <2>1, CallParts
<1>2. Callbacks(<<c, d>>, Then, ReturnCallbackError)
    BY DEF EmptySection
<1>3. Then /\ calls' = <<c, d>> /\ failed' = failed
    <2> HIDE DEF Then, c, d
    <2> QED BY <1>1, <1>2, TwoCallbacks
<1>4. Then => EmptyStep
    BY DEF AdvanceTo, EmptyStep
<1> HIDE DEF Then, c, d
<1> QED BY <1>1, <1>3, <1>4 DEF EmptyCalls

LEMMA EnterSectionMakes ==
    ASSUME TypeOK, NEW sectionType \in {"NoType", "Set", "Array"}, NEW name \in Names,
           sectionType # "NoType" => NameGiven(name),
           NEW names, names = (sectionType # "Array"),
           NEW dict, dict = (IF sectionType = "NoType" THEN "Primary" ELSE sflv.schema),
           NEW prop, prop.child \in PropertyOffsets, NEW first,
           \/ /\ sectionType \in {"Set", "Array"}
              /\ sflv.type = sectionType /\ sflv.nnint # 0
              /\ first = bejGetFirstTupleOffset
           \/ /\ sectionType = "NoType"
              /\ sflv.type = "PropertyAnnotation"
              /\ first = ValueStartOffset,
           EnterSection(sectionType, StartOf[sectionType], name, names, dict, prop, first)
    PROVE  EnterCalls(sectionType, first)
<1> DEFINE c == Call(StartOf[sectionType], name)
           d == Call("StackPush", "")
           Then == /\ stack' = Append(stack, Ending(sectionType))
                   /\ path' = Append(path, [dict |-> sflv.schema, child |-> prop.child])
                   /\ addPropertyName' = names
                   /\ mainDictPropOffset' =
                         IF dict = "Primary" THEN prop.child ELSE mainDictPropOffset
                   /\ annoDictPropOffset' =
                         IF dict = "Annotation" THEN prop.child ELSE annoDictPropOffset
                   /\ encodedStreamOffset' = first
                   /\ overran' = (overran \/ (stack # <<>> /\ valueEndOffset > Top.streamEndOffset))
                   /\ pc' = "loop"
                   /\ UNCHANGED ret
<1>1. /\ c \in Callback /\ c.cb = StartOf[sectionType] /\ c.prop = name
      /\ d \in Callback /\ d.cb = "StackPush"
      /\ c.cb \notin {"String", "Real"} /\ d.cb \notin {"String", "Real"}
    <2>1. /\ StartOf[sectionType] \in CallbackNames /\ StartOf[sectionType] \notin {"String", "Real"}
          /\ "StackPush" \in CallbackNames
          /\ "" \in Names
        BY SectionCallbacks, NameAssumption
    <2> QED BY <2>1, CallParts
<1>2. Callbacks(<<c, d>>, Then, ReturnCallbackError)
    BY DEF EnterSection
<1>3. Then /\ calls' = <<c, d>> /\ failed' = failed
    <2> HIDE DEF Then, c, d
    <2> QED BY <1>1, <1>2, TwoCallbacks
<1>4. EnterStep(sectionType, first)
    <2>1. mainDictPropOffset \in PropertyOffsets /\ annoDictPropOffset \in PropertyOffsets
        BY DEF TypeOK
    <2>2. mainDictPropOffset' \in PropertyOffsets /\ annoDictPropOffset' \in PropertyOffsets
        BY <1>3, <2>1
    <2> QED BY <1>3, <2>2 DEF EnterStep
<1> HIDE DEF Then, c, d
<1> QED BY <1>1, <1>3, <1>4 DEF EnterCalls

\* The name of the property a tuple stands for is the one it is looked up by,
\* wherever names are added.
LEMMA PropNameGiven ==
    ASSUME TypeOK, pc = "handle"
    PROVE  bejGetPropName \in Names /\ NameGiven(bejGetPropName)
<1>1. ~addPropertyName => bejGetPropName = ""
    BY DEF bejGetPropName
<1>2. Conforming => (addPropertyName => bejGetPropName # "")
    BY DEF Conforming
<1>3. addPropertyName \in BOOLEAN
    BY DEF TypeOK
<1> QED BY <1>1, <1>2, <1>3, PropNameType DEF NameGiven

LEMMA LookedUpNameGiven ==
    ASSUME TypeOK, pc = "handle", NEW seq, addPropertyName => seq = sflv.seq,
           bejGetDictionaryAndProperty(sflv.schema, seq) = "OK"
    PROVE  LET name == IF addPropertyName
                       THEN bejDictGetPropertyName(PropertyOf(sflv.schema, seq)) ELSE ""
           IN  name \in Names /\ NameGiven(name)
<1>1. bejDictGetPropertyName(PropertyOf(sflv.schema, seq)) \in Names
    BY SflvType, LookupType
<1>2. CASE addPropertyName
    <2>1. bejGetPropName = bejDictGetPropertyName(PropertyOf(sflv.schema, seq))
        BY <1>2 DEF bejGetPropName
    <2> QED BY <1>2, <2>1, PropNameGiven
<1>3. CASE ~addPropertyName
    BY <1>3, NameAssumption DEF NameGiven
<1> QED BY <1>2, <1>3

\* An element of an array has no name, so the lookup by element 0 does not matter.
LEMMA ElementNamed ==
    ASSUME NamesInv, ~failed
    PROVE  addPropertyName => ElementSeq = sflv.seq
BY DEF NamesInv, InnerNames, ElementSeq, bejIsArrayElement

LEMMA ContainerMakes ==
    ASSUME TypeOK, pc = "handle",
           NEW sectionType \in {"Set", "Array"}, sflv.type = sectionType,
           NEW seq, addPropertyName => seq = sflv.seq,
           NEW names, names = (sectionType # "Array"),
           HandleContainer(seq, sectionType, StartOf[sectionType], EndOf[sectionType], names)
    PROVE  RejectCalls \/ EmptyCalls \/ EnterCalls(sectionType, bejGetFirstTupleOffset)
<1> DEFINE status == bejGetDictionaryAndProperty(sflv.schema, seq)
           prop == PropertyOf(sflv.schema, seq)
           name == IF addPropertyName THEN bejDictGetPropertyName(prop) ELSE ""
<1>1. status \in Statuses /\ (status = "OK" => prop.child \in PropertyOffsets)
    BY SflvType, LookupType
<1>2. status = "OK" => name \in Names /\ NameGiven(name)
    BY LookedUpNameGiven
<1>3. CASE status # "OK" /\ Reject(status)
    <2>1. status \in Statuses \ {"OK"}
        BY <1>1, <1>3
    <2> HIDE DEF status
    <2> QED BY <1>3, <2>1, RejectMakes
<1>4. CASE /\ status = "OK"
           /\ sflv.nnint = 0
           /\ EmptySection(StartOf[sectionType], EndOf[sectionType], name)
    <2> HIDE DEF status, prop, name
    <2> QED BY <1>2, <1>4, EmptySectionMakes
<1>5. CASE /\ status = "OK"
           /\ sflv.nnint # 0
           /\ EnterSection(sectionType, StartOf[sectionType], name, names, sflv.schema, prop,
                           bejGetFirstTupleOffset)
    <2> HIDE DEF status, prop, name
    <2> QED BY <1>1, <1>2, <1>5, EnterSectionMakes
<1> QED BY <1>3, <1>4, <1>5 DEF HandleContainer

LEMMA HandlersMake ==
    ASSUME TypeOK, NamesInv, ~failed, Handle
    PROVE  HandlerCalls
<1>0. pc = "handle"
    BY DEF Handle, bejHandleBejSet, bejHandleBejArray, bejHandleBejNull,
           bejHandleBejPropertyAnnotation, bejHandleScalar,
           bejHandleBejResourceLink, bejHandleBejEnum
<1>00. bejGetFirstTupleOffset \in Int /\ ValueStartOffset \in Int
    BY <1>0, OffsetTypes
<1>000. bejGetPropName \in Names /\ NameGiven(bejGetPropName)
    BY <1>0, PropNameGiven
<1> SUFFICES \/ RejectCalls
             \/ ConsumeCalls
             \/ EmptyCalls
             \/ \E sectionType \in {"NoType", "Set", "Array"} :
                   \/ EnterCalls(sectionType, bejGetFirstTupleOffset)
                   \/ EnterCalls(sectionType, ValueStartOffset)
    BY <1>00 DEF HandlerCalls
<1>1. CASE bejHandleBejSet
    <2>1. /\ sflv.type = "Set"
          /\ HandleContainer(ElementSeq, "Set", StartOf["Set"], EndOf["Set"], TRUE)
        BY <1>1 DEF bejHandleBejSet, StartOf, EndOf
    <2> QED BY <1>0, <2>1, ElementNamed, ContainerMakes
<1>2. CASE bejHandleBejArray
    <2>1. /\ sflv.type = "Array"
          /\ HandleContainer(sflv.seq, "Array", StartOf["Array"], EndOf["Array"], FALSE)
        BY <1>2 DEF bejHandleBejArray, StartOf, EndOf
    <2> QED BY <1>0, <2>1, ContainerMakes
<1>3. CASE bejHandleBejPropertyAnnotation
    <2> DEFINE status == bejGetDictionaryAndProperty(sflv.schema, sflv.seq)
               prop == PropertyOf(sflv.schema, sflv.seq)
    <2>1. /\ status \in Statuses
          /\ status = "OK" => /\ prop.child \in PropertyOffsets
                             /\ bejDictGetPropertyName(prop) \in Names
        BY <1>0, SflvType, LookupType
    <2>2. sflv.type = "PropertyAnnotation"
        BY <1>3 DEF bejHandleBejPropertyAnnotation
    <2>3. CASE status # "OK" /\ Reject(status)
        <3>1. status \in Statuses \ {"OK"}
            BY <2>1, <2>3
        <3> HIDE DEF status
        <3> QED BY <2>3, <3>1, RejectMakes
    <2>4. CASE /\ status = "OK"
               /\ EnterSection("NoType", "Annotation", bejDictGetPropertyName(prop), TRUE,
                               "Primary", prop, ValueStartOffset)
        <3>1. StartOf["NoType"] = "Annotation"
            BY DEF StartOf
        <3> HIDE DEF status, prop
        <3> QED BY <2>1, <2>2, <2>4, <3>1, EnterSectionMakes
    <2> QED BY <1>3, <2>3, <2>4 DEF bejHandleBejPropertyAnnotation
<1>4. \A name \in ScalarTypes \cup {"Null", "Enum", "ResourceLink"} :
         name \in ValueCallbacks /\ CallbackFor(name) \in ValueCallbacks
    BY ClosingPieces DEF ScalarTypes, CallbackFor, ValueCallbacks, CallbackNames
<1>5. CASE bejHandleBejNull
    <2>1. /\ sflv.type \notin {"Set", "Array", "PropertyAnnotation"}
          /\ ConsumeValue("Null", bejGetPropName)
        BY <1>5 DEF bejHandleBejNull, NullTypes
    <2> QED BY <1>000, <1>4, <2>1, ConsumeValueMakes
<1>6. CASE bejHandleScalar
    <2>1. /\ sflv.type \notin {"Set", "Array", "PropertyAnnotation"}
          /\ sflv.type \in ScalarTypes
          /\ ConsumeValue(CallbackFor(sflv.type), bejGetPropName)
        BY <1>6 DEF bejHandleScalar, ScalarTypes
    <2> QED BY <1>000, <1>4, <2>1, ConsumeValueMakes
<1>7. CASE bejHandleBejResourceLink
    <2>1. sflv.type \notin {"Set", "Array", "PropertyAnnotation"}
        BY <1>7 DEF bejHandleBejResourceLink
    <2>2. CASE Reject("InvalidSize")
        <3>1. "InvalidSize" \in Statuses \ {"OK"}
            BY DEF Statuses
        <3> QED BY <2>2, <3>1, RejectMakes
    <2>3. CASE ConsumeValue(CallbackFor("ResourceLink"), bejGetPropName)
        BY <1>000, <1>4, <2>1, <2>3, ConsumeValueMakes
    <2> QED BY <1>7, <2>2, <2>3 DEF bejHandleBejResourceLink
<1>8. CASE bejHandleBejEnum
    <2> DEFINE found == bejGetDictionaryAndProperty(sflv.schema, ElementSeq)
               prop  == PropertyOf(sflv.schema, ElementSeq)
               status == IF found = "OK" THEN OptionStatus(prop) ELSE found
               name == IF addPropertyName THEN bejDictGetPropertyName(prop) ELSE ""
    <2>1. sflv.type \notin {"Set", "Array", "PropertyAnnotation"}
        BY <1>8 DEF bejHandleBejEnum
    <2>2. found \in Statuses
        BY <1>0, SflvType, LookupType
    <2>3. OptionStatus(prop) \in Statuses
        BY LookupStatus DEF OptionStatus, Statuses
    <2>4. CASE status # "OK" /\ Reject(status)
        <3>1. status \in Statuses \ {"OK"}
            <4> HIDE DEF found, prop
            <4> QED BY <2>2, <2>3, <2>4
        <3> HIDE DEF status
        <3> QED BY <2>4, <3>1, RejectMakes
    <2>5. CASE status = "OK" /\ ConsumeValue(CallbackFor("Enum"), name)
        <3>1. found = "OK"
            <4> HIDE DEF found, prop
            <4> QED BY <2>5
        <3>2. name \in Names /\ NameGiven(name)
            BY <1>0, <3>1, ElementNamed, LookedUpNameGiven
        <3> HIDE DEF name, status
        <3> QED BY <1>4, <2>1, <2>5, <3>2, ConsumeValueMakes
    <2> QED BY <1>8, <2>4, <2>5 DEF bejHandleBejEnum
<1> QED BY <1>1, <1>2, <1>3, <1>5, <1>6, <1>7, <1>8 DEF Handle

-----------------------------------------------------------------------------
(* What a step makes of the output. *)

Work == [output |-> output, isPrevAnnotated |-> isPrevAnnotated]

Wrote(cs) ==
    /\ output' = WriteAll(Work, cs).output
    /\ isPrevAnnotated' = WriteAll(Work, cs).isPrevAnnotated

LEMMA WorkType ==
    ASSUME JsonTypeOK
    PROVE  /\ Work \in Works
           /\ Work.output = output
           /\ Work.isPrevAnnotated = isPrevAnnotated
           /\ Json \in JStates
<1>1. output \in Seq(Pieces) /\ isPrevAnnotated \in BOOLEAN
    BY DEF JsonTypeOK
<1>2. JsonOf(output) \in JStates
    BY <1>1, ClosingPieces, JsonAppend
<1> QED BY <1>1, <1>2 DEF Work, Works, Json

LEMMA WriteOutputWrote ==
    ASSUME WriteOutput
    PROVE  Wrote(Writing)
BY DEF WriteOutput, Wrote, WriteAll, Work

LEMMA WroteType ==
    ASSUME JsonTypeOK, NEW cs \in Seq(Callback), Wrote(cs)
    PROVE  output' \in Seq(Pieces) /\ isPrevAnnotated' \in BOOLEAN
<1>1. Call("Null", "") \in Callback
    BY CallType, NameAssumption DEF CallbackNames
<1>2. WriteAll(Work, cs) \in Works
    BY <1>1, WorkType, WriteAppend
<1> QED BY <1>2 DEF Wrote, Works

LEMMA WroteNothing ==
    ASSUME JsonTypeOK, Wrote(<<>>)
    PROVE  UNCHANGED <<output, isPrevAnnotated>> /\ Json' = Json
<1>1. WriteAll(Work, <<>>) = Work
    BY WorkType, WriteEmpty
<1> QED BY <1>1, WorkType DEF Wrote, Json

LEMMA WroteOne ==
    ASSUME JsonTypeOK, NEW c \in Callback, Wrote(<<c>>)
    PROVE  Means(Json, isPrevAnnotated, c, Json', isPrevAnnotated')
<1>1. <<>> \in Seq(Callback) /\ <<c>> = Append(<<>>, c)
    OBVIOUS
<1>2. WriteAll(Work, <<c>>) = Write(Work, c)
    BY <1>1, WorkType, WriteEmpty, WriteAppend
<1>3. WriteMeaning(Work, c)
    BY WorkType, WriteMeans
<1> QED BY <1>2, <1>3, WorkType DEF Wrote, WriteMeaning, Json

LEMMA WroteTwo ==
    ASSUME JsonTypeOK, NEW c \in Callback, NEW d \in Callback, Wrote(<<c, d>>)
    PROVE  \E k \in JStates, b \in BOOLEAN :
               /\ Means(Json, isPrevAnnotated, c, k, b)
               /\ Means(k, b, d, Json', isPrevAnnotated')
<1> DEFINE v == Write(Work, c)
<1>1. /\ <<>> \in Seq(Callback) /\ <<c>> = Append(<<>>, c)
      /\ <<c>> \in Seq(Callback) /\ <<c, d>> = Append(<<c>>, d)
    OBVIOUS
<1>2. WriteAll(Work, <<c>>) = v
    BY <1>1, WorkType, WriteEmpty, WriteAppend
<1>3. WriteAll(Work, <<c, d>>) = Write(v, d)
    BY <1>1, <1>2, WorkType, WriteAppend
<1>4. WriteMeaning(Work, c)
    BY WorkType, WriteMeans
<1>5. v \in Works
    BY <1>4 DEF WriteMeaning
<1>6. WriteMeaning(v, d)
    BY <1>5, WriteMeans
<1>7. JsonOf(v.output) \in JStates /\ v.isPrevAnnotated \in BOOLEAN
    BY <1>5, ClosingPieces, JsonAppend DEF Works
<1>8. Means(Json, isPrevAnnotated, c, JsonOf(v.output), v.isPrevAnnotated)
    BY <1>4, WorkType DEF WriteMeaning, Json
<1>9. Means(JsonOf(v.output), v.isPrevAnnotated, d, Json', isPrevAnnotated')
    BY <1>3, <1>6 DEF Wrote, WriteMeaning, Json
<1> HIDE DEF v
<1> QED BY <1>7, <1>8, <1>9

-----------------------------------------------------------------------------
(* The automaton, piece by piece. *)

LEMMA ValuePieces ==
    ASSUME NEW j \in JStates, j.next \in {"value", "firstValue"}
    PROVE  /\ JsonPiece(j, "value") = Valued(j.open)
           /\ JsonPiece(j, "{") = [open |-> Append(j.open, "object"), next |-> "firstName"]
           /\ JsonPiece(j, "[") = [open |-> Append(j.open, "array"), next |-> "firstValue"]
BY DEF JsonPiece

LEMMA NamePieces ==
    ASSUME NEW j \in JStates
    PROVE  /\ j.next \in {"name", "firstName"} =>
                  /\ JsonPiece(j, "name") = [open |-> j.open, next |-> "value"]
                  /\ JsonPiece(j, "head") = [open |-> j.open, next |-> "tail"]
           /\ j.next = "tail" => JsonPiece(j, "tail") = [open |-> j.open, next |-> "value"]
<1>1. j = [open |-> j.open, next |-> j.next]
    BY JStateParts
<1>2. \A next : [j EXCEPT !.next = next] = [open |-> j.open, next |-> next]
    BY <1>1
<1> QED BY <1>2 DEF JsonPiece

LEMMA ClosingPiece ==
    ASSUME NEW j \in JStates, NEW open \in Seq({"object", "array"})
    PROVE  /\ j.open = Append(open, "object") /\ j.next \in {"more", "firstName"} =>
                  JsonPiece(j, "}") = Valued(open)
           /\ j.open = Append(open, "array") /\ j.next \in {"more", "firstValue"} =>
                  JsonPiece(j, "]") = Valued(open)
<1>1. CASE j.open = Append(open, "object") /\ j.next \in {"more", "firstName"}
    <2>1. /\ j.open # <<>> /\ j.open[Len(j.open)] = "object" /\ Front(j.open) = open
        BY <1>1, FrontAppend
    <2> QED BY <1>1, <2>1 DEF JsonPiece
<1>2. CASE j.open = Append(open, "array") /\ j.next \in {"more", "firstValue"}
    <2>1. /\ j.open # <<>> /\ j.open[Len(j.open)] = "array" /\ Front(j.open) = open
        BY <1>2, FrontAppend
    <2> QED BY <1>2, <2>1 DEF JsonPiece
<1>3. "object" # "array"
    OBVIOUS
<1> QED BY <1>1, <1>2

LEMMA CommaPiece ==
    ASSUME NEW j \in JStates
    PROVE  /\ JsonPiece(j, ",").open = j.open
           /\ j.next = "more" /\ j.open # <<>> =>
                  JsonPiece(j, ",").next
                      = IF j.open[Len(j.open)] = "object" THEN "name" ELSE "value"
<1>1. j = [open |-> j.open, next |-> j.next]
    BY JStateParts
<1>2. \A next : [j EXCEPT !.next = next] = [open |-> j.open, next |-> next]
    BY <1>1
<1> QED BY <1>2 DEF JsonPiece

\* A value may follow, once it has the name it needs.
Ready(j, annotated, prop) ==
    \/ prop = "" /\ j.next \in {"value", "firstValue"}
    \/ prop # "" /\ annotated /\ j.next = "tail"
    \/ prop # "" /\ ~annotated /\ j.next \in {"name", "firstName"}

LEMMA NamedValue ==
    ASSUME NEW j \in JStates, NEW annotated \in BOOLEAN, NEW prop, Ready(j, annotated, prop)
    PROVE  LET k == WithName(j, annotated, prop)
           IN  k \in JStates /\ k.open = j.open /\ k.next \in {"value", "firstValue"}
<1>1. j.open \in Seq({"object", "array"})
    BY JStateParts
<1>2. [open |-> j.open, next |-> "value"] \in JStates
    BY <1>1 DEF JStates
<1>3. CASE prop = ""
    BY <1>3 DEF Ready, WithName
<1>4. CASE prop # ""
    <2>1. WithName(j, annotated, prop) = [open |-> j.open, next |-> "value"]
        BY <1>4, NamePieces DEF Ready, WithName
    <2> QED BY <1>2, <2>1
<1> QED BY <1>3, <1>4

\* A value, a container without anything in it, and one that is entered.
LEMMA ValueMeans ==
    ASSUME NEW j \in JStates, NEW annotated \in BOOLEAN, NEW c \in Callback,
           Ready(j, annotated, c.prop), NEW k, NEW b, Means(j, annotated, c, k, b)
    PROVE  /\ c.cb \in ValueCallbacks => ~b /\ k = Valued(j.open)
           /\ c.cb = "SetStart" =>
                  ~b /\ k = [open |-> Append(j.open, "object"), next |-> "firstName"]
           /\ c.cb = "ArrayStart" =>
                  ~b /\ k = [open |-> Append(j.open, "array"), next |-> "firstValue"]
<1> DEFINE n == WithName(j, annotated, c.prop)
<1>1. n \in JStates /\ n.open = j.open /\ n.next \in {"value", "firstValue"}
    BY NamedValue
<1>2. c.cb \in ValueCallbacks \cup {"SetStart", "ArrayStart"} =>
          c.cb \notin {"StackPush", "ReadonlyProperty", "Annotation"} \cup DOMAIN Closing
    BY ClosingPieces DEF ValueCallbacks
<1>3. c.cb \in ValueCallbacks \cup {"SetStart", "ArrayStart"} =>
          ~b /\ k = JsonPiece(n, Opening(c.cb))
    BY <1>2 DEF Means
<1>4. /\ c.cb \in ValueCallbacks => Opening(c.cb) = "value"
      /\ c.cb = "SetStart" => Opening(c.cb) = "{"
      /\ c.cb = "ArrayStart" => Opening(c.cb) = "["
    BY DEF Opening, ValueCallbacks
<1>5. /\ JsonPiece(n, "value") = Valued(j.open)
      /\ JsonPiece(n, "{") = [open |-> Append(j.open, "object"), next |-> "firstName"]
      /\ JsonPiece(n, "[") = [open |-> Append(j.open, "array"), next |-> "firstValue"]
    BY <1>1, ValuePieces
<1> HIDE DEF n
<1> QED BY <1>3, <1>4, <1>5

-----------------------------------------------------------------------------
(* What is open on the stack is what is open in the output. *)

LEMMA PopAppend ==
    ASSUME NEW S, NEW s \in Seq(S), s # <<>>
    PROVE  s = Append(Pop(s), s[Len(s)]) /\ s[Len(s)] \in S
<1> DEFINE e == s[Len(s)]
           n == Len(s)
<1>1. /\ Pop(s) \in Seq(S) /\ n \in Nat \ {0} /\ Len(Pop(s)) = n - 1
      /\ \A i \in 1 .. n - 1 : Pop(s)[i] = s[i]
    BY PopFacts
<1>2. e \in S
    BY <1>1, ElementOfSeq
<1> HIDE DEF e
<1>3. /\ Append(Pop(s), e) \in Seq(S)
      /\ Len(Append(Pop(s), e)) = n - 1 + 1
      /\ \A i \in 1 .. n - 1 : Append(Pop(s), e)[i] = Pop(s)[i]
      /\ Append(Pop(s), e)[n - 1 + 1] = e
    BY <1>1, <1>2, AppendFacts
<1>4. \A i \in 1 .. n : s[i] = Append(Pop(s), e)[i]
    BY <1>1, <1>3 DEF e
<1>5. Len(s) = Len(Append(Pop(s), e))
    BY <1>1, <1>3
<1>6. s = Append(Pop(s), e)
    BY <1>3, <1>4, <1>5, SeqEqual
<1> QED BY <1>2, <1>6 DEF e

LEMMA BracketsTop ==
    ASSUME TypeOK, stack # <<>>
    PROVE  /\ Brackets(stack) = OpenedBy(Brackets(Pop(stack)), Top)
           /\ Brackets(Pop(stack)) \in Seq({"object", "array"})
<1>1. stack \in Seq(StackEntry)
    BY DEF TypeOK
<1>2. stack = Append(Pop(stack), Top) /\ Top \in StackEntry /\ Pop(stack) \in Seq(StackEntry)
    BY <1>1, PopAppend, PopFacts DEF Top
<1> QED BY <1>2, BracketsAppend

\* Whatever is open, it is the section on top or the set that it annotates.
LEMMA Inside ==
    ASSUME TypeOK, AnnotationsInSets, stack # <<>>
    PROVE  /\ Brackets(stack) # <<>>
           /\ Brackets(stack)[Len(Brackets(stack))]
                  = IF Top.sectionType = "Array" THEN "array" ELSE "object"
<1> DEFINE rest == Pop(stack)
<1>1. /\ Brackets(stack) = OpenedBy(Brackets(rest), Top)
      /\ Brackets(rest) \in Seq({"object", "array"})
    BY BracketsTop
<1>2. Top.sectionType \in {"NoType", "Set", "Array"} /\ Top = stack[Len(stack)]
    BY TopType
<1>3. stack \in Seq(StackEntry)
    BY DEF TypeOK
<1>4. /\ Len(stack) \in Nat \ {0} /\ rest \in Seq(StackEntry) /\ Len(rest) = Len(stack) - 1
      /\ \A i \in 1 .. Len(stack) - 1 : rest[i] = stack[i]
      /\ DOMAIN stack = 1 .. Len(stack)
    BY <1>3, PopFacts, LenProperties
<1>5. CASE Top.sectionType # "NoType"
    BY <1>1, <1>2, <1>5, FrontAppend DEF OpenedBy
<1>6. CASE Top.sectionType = "NoType"
    <2>1. Len(stack) > 1 /\ stack[Len(stack) - 1].sectionType = "Set"
        BY <1>2, <1>4, <1>6 DEF AnnotationsInSets
    <2>2. rest # <<>> /\ rest[Len(rest)] = stack[Len(stack) - 1]
        BY <1>4, <2>1
    <2> DEFINE set == rest[Len(rest)]
    <2>3. rest = Append(Pop(rest), set) /\ set \in StackEntry /\ Pop(rest) \in Seq(StackEntry)
        BY <1>4, <2>2, PopAppend, PopFacts
    <2>4. set.sectionType = "Set"
        BY <2>1, <2>2
    <2> HIDE DEF set, rest
    <2>5. /\ Brackets(rest) = OpenedBy(Brackets(Pop(rest)), set)
          /\ Brackets(Pop(rest)) \in Seq({"object", "array"})
        BY <2>3, BracketsAppend
    <2>6. Brackets(stack) = Append(Brackets(Pop(rest)), "object")
        BY <1>1, <1>6, <2>4, <2>5 DEF OpenedBy
    <2> QED BY <1>6, <2>5, <2>6, FrontAppend
<1> QED BY <1>5, <1>6

LEMMA AnnotationsPopped ==
    ASSUME TypeOK, AnnotationsInSets, stack # <<>>, stack' = Pop(stack)
    PROVE  AnnotationsInSets'
<1>1. stack \in Seq(StackEntry)
    BY DEF TypeOK
<1>2. /\ Len(stack) \in Nat \ {0}
      /\ DOMAIN stack' = 1 .. Len(stack) - 1
      /\ \A i \in 1 .. Len(stack) - 1 : stack'[i] = stack[i]
      /\ DOMAIN stack = 1 .. Len(stack)
    BY <1>1, PopFacts, LenProperties
<1>3. ASSUME NEW i \in DOMAIN stack', stack'[i].sectionType = "NoType"
      PROVE  i > 1 /\ stack'[i - 1].sectionType = "Set"
    <2>1. i \in DOMAIN stack /\ stack[i].sectionType = "NoType"
        BY <1>2, <1>3
    <2>2. i > 1 /\ stack[i - 1].sectionType = "Set"
        BY <2>1 DEF AnnotationsInSets
    <2> QED BY <1>2, <2>2
<1> QED BY <1>3 DEF AnnotationsInSets

LEMMA AnnotationsPushed ==
    ASSUME TypeOK, AnnotationsInSets, NEW e \in StackEntry, stack' = Append(stack, e),
           e.sectionType = "NoType" => stack # <<>> /\ Top.sectionType = "Set"
    PROVE  AnnotationsInSets'
<1> DEFINE n == Len(stack)
<1>1. stack \in Seq(StackEntry)
    BY DEF TypeOK
<1>2. /\ n \in Nat
      /\ DOMAIN stack = 1 .. n
      /\ DOMAIN stack' = 1 .. n + 1
      /\ \A i \in 1 .. n : stack'[i] = stack[i]
      /\ stack'[n + 1] = e
      /\ stack # <<>> => n # 0
    BY <1>1, AppendFacts, EmptySeq
<1>3. ASSUME NEW i \in DOMAIN stack', stack'[i].sectionType = "NoType"
      PROVE  i > 1 /\ stack'[i - 1].sectionType = "Set"
    <2>1. CASE i \in 1 .. n
        <3>1. i > 1 /\ stack[i - 1].sectionType = "Set"
            BY <1>2, <1>3, <2>1 DEF AnnotationsInSets
        <3>2. i - 1 \in 1 .. n
            BY <1>2, <2>1, <3>1
        <3> QED BY <1>2, <3>1, <3>2
    <2>2. CASE i = n + 1
        <3>1. stack # <<>> /\ stack[n].sectionType = "Set"
            BY <1>2, <1>3, <2>2 DEF Top
        <3>2. n \in 1 .. n /\ i - 1 = n /\ i > 1
            BY <1>2, <2>2, <3>1
        <3> QED BY <1>2, <3>1, <3>2
    <2> QED BY <1>2, <2>1, <2>2
<1> QED BY <1>3 DEF AnnotationsInSets

-----------------------------------------------------------------------------
(* The invariant is kept. First the steps that change neither the stack nor  *)
(* the output.                                                               *)

LEMMA QuietStep ==
    ASSUME TypeOK, ConformingInv, conforming,
           Json' = Json, UNCHANGED <<isPrevAnnotated, stack, encodedStreamOffset>>,
           pc' \in {"loop", "handle"} => Pending,
           pc' \in {"ending", "emptyEnding"} => Settled,
           pc' = "finalEnding" => Pending \/ Settled,
           ret' = "OK" => Json.next = "end"
    PROVE  ConformingInv'
<1>1. BracketsFollowStack /\ AnnotationsInSets
    BY DEF ConformingInv
<1>2. BracketsFollowStack' /\ AnnotationsInSets'
    BY <1>1 DEF BracketsFollowStack, AnnotationsInSets
<1>3. Pending => Pending'
    BY DEF Pending, Top, SectionEndsHere
<1>4. Settled => Settled'
    BY DEF Settled
<1> QED BY <1>2, <1>3, <1>4 DEF ConformingInv, AcceptedIsJson

LEMMA EndPropertyJson ==
    ASSUME JsonTypeOK, ConformingInv, conforming, EndProperty, WriteOutput, ~failed, ret = "none"
    PROVE  ConformingInv'
<1>0. TypeOK /\ BracketsFollowStack /\ AnnotationsInSets
    BY DEF JsonTypeOK, ConformingInv
<1> DEFINE c == Call("PropertyEnd", "")
<1>1. /\ pc \in Endings /\ stack # <<>> /\ ~SectionEndsHere
      /\ Callbacks(<<c>>, AfterEnding, AfterEndingFailed)
      /\ UNCHANGED <<stack, encodedStreamOffset>>
    BY DEF EndProperty, state
<1>2. c \in Callback /\ c.cb = "PropertyEnd" /\ c.cb \notin {"String", "Real"}
    BY CallParts, NameAssumption DEF CallbackNames
<1>3. AfterEnding /\ calls' = <<c>> /\ failed' = failed
    <2> HIDE DEF c
    <2> QED BY <1>1, <1>2, OneCallbackMade
<1>4. Wrote(<<c>>)
    BY <1>3, WriteOutputWrote DEF Writing
<1> HIDE DEF c
<1>5. isPrevAnnotated' = isPrevAnnotated /\ Json' = JsonPiece(Json, ",")
    <2>1. Means(Json, isPrevAnnotated, c, Json', isPrevAnnotated')
        BY <1>2, <1>4, WroteOne
    <2>2. c.cb \in DOMAIN Closing /\ Closing[c.cb] = ","
        BY <1>2 DEF Closing
    <2> QED BY <2>1, <2>2 DEF Means
<1>6. Json \in JStates
    BY WorkType
<1>7. Json'.open = Json.open
    BY <1>5, <1>6, CommaPiece
<1>8. BracketsFollowStack' /\ AnnotationsInSets'
    BY <1>0, <1>1, <1>7 DEF BracketsFollowStack, AnnotationsInSets
<1>9. CASE pc = "finalEnding"
    <2>1. pc' = "done" /\ ret' = "Unknown"
        BY <1>3, <1>9 DEF AfterEnding, Return
    <2> QED BY <1>8, <2>1 DEF ConformingInv, AcceptedIsJson
<1>10. CASE pc # "finalEnding"
    <2>1. pc' = "loop" /\ ret' = ret /\ Settled
        BY <1>1, <1>3, <1>10 DEF AfterEnding, Endings, ConformingInv
    <2>2. Json.open = Brackets(stack)
        BY <1>0 DEF BracketsFollowStack
    <2>3. /\ Json.open # <<>>
          /\ Json.open[Len(Json.open)] = IF Top.sectionType = "Array" THEN "array" ELSE "object"
        BY <1>0, <1>1, <2>2, Inside
    <2>4. ~isPrevAnnotated /\ Json.next = "more"
        BY <2>1, <2>3 DEF Settled
    <2>5. Json'.next = IF Top.sectionType = "Array" THEN "value" ELSE "name"
        BY <1>5, <1>6, <2>3, <2>4, CommaPiece
    <2>6. Top.sectionType \in {"NoType", "Set", "Array"} /\ Top' = Top
        BY <1>0, <1>1, TopType DEF Top
    <2>7. SectionEndsHere' = SectionEndsHere
        BY <1>1, <2>6 DEF SectionEndsHere
    <2>8. Pending'
        BY <1>1, <1>5, <2>4, <2>5, <2>6, <2>7 DEF Pending
    <2>9. ret' # "OK"
        BY <2>1
    <2> QED BY <1>8, <2>1, <2>8, <2>9 DEF ConformingInv, AcceptedIsJson
<1> QED BY <1>9, <1>10

\* The end of a section: a bracket, or for an annotation nothing.
LEMMA EndSectionJson ==
    ASSUME JsonTypeOK, ConformingInv, conforming, EndSection, WriteOutput, ~failed, ret = "none"
    PROVE  ConformingInv'
<1>0. TypeOK /\ BracketsFollowStack /\ AnnotationsInSets
    BY DEF JsonTypeOK, ConformingInv
<1> DEFINE rest == Brackets(Pop(stack))
           Then == stack' = Pop(stack) /\ path' = Pop(path) /\ UNCHANGED <<pc, ret>>
           Otherwise == AfterEndingFailed /\ UNCHANGED <<stack, path>>
<1>1. /\ pc \in Endings /\ stack # <<>> /\ SectionEndsHere
      /\ Callbacks(EndCallbacks(Top), Then, Otherwise)
      /\ encodedStreamOffset' = encodedStreamOffset
    BY DEF EndSection
<1>2. Top \in StackEntry /\ Top.sectionType \in {"NoType", "Set", "Array"}
    BY <1>0, <1>1, TopType
<1>3. Json \in JStates /\ Json.open = Brackets(stack)
    BY <1>0, WorkType DEF BracketsFollowStack
<1>4. /\ Brackets(stack) = OpenedBy(rest, Top)
      /\ rest \in Seq({"object", "array"})
    BY <1>0, <1>1, BracketsTop
<1>5. Json.open # <<>>
    BY <1>0, <1>1, <1>3, Inside
\* The automaton is where a section may end.
<1>6. ~isPrevAnnotated /\ (Json.next = "more" \/ Json.next = IF Top.sectionType = "Set"
                                              THEN "firstName" ELSE "firstValue")
    <2>1. Settled \/ Pending
        BY <1>1 DEF ConformingInv, Endings
    <2>2. CASE Settled
        BY <1>5, <2>2 DEF Settled
    <2>3. CASE Pending
        BY <1>1, <2>3 DEF Pending
    <2> QED BY <2>1, <2>2, <2>3
<1>7. Top.sectionType = "NoType" => Json.next = "more"
    <2>1. Settled \/ Pending
        BY <1>1 DEF ConformingInv, Endings
    <2> QED BY <1>1, <1>5, <2>1 DEF Settled, Pending
\* What is left is what the stack has left.
<1>8. Then /\ failed' = failed /\ ~isPrevAnnotated' /\ Json'.open = rest
      /\ Json'.next = (IF Json'.open = <<>> THEN "end" ELSE "more")
    <2>1. CASE Top.sectionType = "NoType"
        <3>1. Callbacks(<<>>, Then, Otherwise)
            BY <1>1, <2>1 DEF EndCallbacks
        <3>2. Then /\ calls' = <<>> /\ failed' = failed
            <4> HIDE DEF Then, Otherwise
            <4> QED BY <3>1 DEF Callbacks
        <3>3. Wrote(<<>>)
            BY <3>2, WriteOutputWrote DEF Writing
        <3>4. isPrevAnnotated' = isPrevAnnotated /\ Json' = Json
            BY <3>3, WroteNothing
        <3>5. Json.open = rest
            BY <1>3, <1>4, <2>1 DEF OpenedBy
        <3> HIDE DEF rest
        <3> QED BY <1>5, <1>6, <1>7, <2>1, <3>2, <3>4, <3>5
    <2>2. CASE Top.sectionType # "NoType"
        <3> DEFINE end == IF Top.sectionType = "Set" THEN "SetEnd" ELSE "ArrayEnd"
                   c == Call(end, "")
        <3>1. Callbacks(<<c>>, Then, Otherwise)
            BY <1>1, <2>2 DEF EndCallbacks
        <3>2. c \in Callback /\ c.cb = end /\ c.cb \notin {"String", "Real"}
            <4>1. end \in CallbackNames /\ end \notin {"String", "Real"} /\ "" \in Names
                BY NameAssumption DEF CallbackNames
            <4> HIDE DEF end
            <4> QED BY <4>1, CallParts
        <3>3. Then /\ calls' = <<c>> /\ failed' = failed
            <4> HIDE DEF Then, Otherwise, c
            <4> QED BY <3>1, <3>2, OneCallbackMade
        <3>4. Wrote(<<c>>)
            BY <3>3, WriteOutputWrote DEF Writing
        <3> HIDE DEF c
        <3>5. isPrevAnnotated' = isPrevAnnotated
              /\ Json' = JsonPiece(Json, IF Top.sectionType = "Set" THEN "}" ELSE "]")
            <4>1. Means(Json, isPrevAnnotated, c, Json', isPrevAnnotated')
                BY <3>2, <3>4, WroteOne
            <4>2. CASE Top.sectionType = "Set"
                <5>1. c.cb = "SetEnd" /\ c.cb \in DOMAIN Closing /\ Closing[c.cb] = "}"
                    BY <3>2, <4>2 DEF Closing
                <5> QED BY <4>1, <4>2, <5>1 DEF Means
            <4>3. CASE Top.sectionType # "Set"
                <5>1. c.cb = "ArrayEnd"
                    BY <3>2, <4>3
                <5>2. "ArrayEnd" \in DOMAIN Closing /\ Closing["ArrayEnd"] = "]"
                    BY DEF Closing
                <5> QED BY <4>1, <4>3, <5>1, <5>2 DEF Means
            <4> QED BY <4>2, <4>3
        <3> HIDE DEF rest
        <3>6. Json.open = Append(rest, IF Top.sectionType = "Set" THEN "object" ELSE "array")
            BY <1>3, <1>4, <2>2 DEF OpenedBy
        <3>7. Json' = Valued(rest)
            BY <1>2, <1>3, <1>4, <1>6, <2>2, <3>5, <3>6, ClosingPiece
        <3>8. Valued(rest).open = rest
              /\ Valued(rest).next = (IF rest = <<>> THEN "end" ELSE "more")
            BY DEF Valued
        <3> QED BY <1>6, <3>3, <3>5, <3>7, <3>8
    <2> QED BY <2>1, <2>2
<1>9. BracketsFollowStack'
    BY <1>8 DEF BracketsFollowStack
<1>10. AnnotationsInSets'
    BY <1>0, <1>1, <1>8, AnnotationsPopped
<1>11. Settled'
    BY <1>8 DEF Settled
<1> QED BY <1>1, <1>8, <1>9, <1>10, <1>11 DEF ConformingInv, AcceptedIsJson, Endings

-----------------------------------------------------------------------------
(* The handlers. *)

\* Where a value is expected, it has the name it needs.
LEMMA ReadyForValue ==
    ASSUME JsonTypeOK, NamesInv, ~failed, Pending, Conforming, NEW prop, NameGiven(prop)
    PROVE  Ready(Json, isPrevAnnotated, prop)
<1>1. TypeOK
    BY DEF JsonTypeOK
<1>2. prop = "" <=> ~addPropertyName
    BY DEF NameGiven
<1>3. addPropertyName <=> stack # <<>> /\ Top.sectionType # "Array"
    BY DEF NamesInv, InnerNames
<1>4. CASE stack = <<>>
    <2>1. encodedStreamOffset = 0
        BY <1>4 DEF Conforming, Parent
    <2> QED BY <1>2, <1>3, <1>4, <2>1 DEF Pending, Ready
<1>5. CASE stack # <<>>
    <2>1. Top.sectionType \in {"NoType", "Set", "Array"}
        BY <1>1, <1>5, TopType
    <2> QED BY <1>2, <1>3, <1>5, <2>1 DEF Pending, Ready
<1> QED BY <1>4, <1>5

\* A value or an empty container, after which its section may end.
LEMMA SettledStep ==
    ASSUME JsonTypeOK, ConformingInv, conforming, UNCHANGED stack, ret = "none",
           ~isPrevAnnotated', Json' = Valued(Json.open),
           \/ pc' = "done" /\ ret' = "Unknown"
           \/ pc' \in {"ending", "emptyEnding"} /\ ret' = ret
           \/ pc' = "loop" /\ ret' = ret /\ stack = <<>> /\ encodedStreamOffset' # 0
    PROVE  ConformingInv'
<1>1. BracketsFollowStack /\ AnnotationsInSets
    BY DEF ConformingInv
<1>2. Json'.open = Json.open /\ Json'.next = (IF Json.open = <<>> THEN "end" ELSE "more")
    BY DEF Valued
<1>3. BracketsFollowStack' /\ AnnotationsInSets'
    BY <1>1, <1>2 DEF BracketsFollowStack, AnnotationsInSets
<1>4. Settled'
    BY <1>2 DEF Settled
<1>5. ASSUME stack = <<>>, encodedStreamOffset' # 0 PROVE Pending'
    <2>1. Json.open = <<>>
        BY <1>1, <1>5, BracketsEmpty DEF BracketsFollowStack
    <2> QED BY <1>2, <1>5, <2>1 DEF Pending
<1> QED BY <1>3, <1>4, <1>5 DEF ConformingInv, AcceptedIsJson

LEMMA ConsumeJson ==
    ASSUME JsonTypeOK, NamesInv, ConformingInv, conforming, Conforming, Pending,
           ~failed, ret = "none", ConsumeCalls, WriteOutput
    PROVE  ConformingInv'
<1>1. PICK c \in Callback : calls' = <<c>> /\ c.cb \in ValueCallbacks /\ NameGiven(c.prop)
    BY DEF ConsumeCalls
<1>2. Wrote(<<c>>)
    BY <1>1, WriteOutputWrote DEF Writing, ConsumeCalls
<1>3. Means(Json, isPrevAnnotated, c, Json', isPrevAnnotated')
    BY <1>2, WroteOne
<1>4. Ready(Json, isPrevAnnotated, c.prop)
    BY <1>1, ReadyForValue
<1>5. Json \in JStates /\ isPrevAnnotated \in BOOLEAN
    BY WorkType DEF JsonTypeOK
<1>6. ~isPrevAnnotated' /\ Json' = Valued(Json.open)
    BY <1>1, <1>3, <1>4, <1>5, ValueMeans
<1>7. /\ UNCHANGED stack
      /\ \/ pc' = "done" /\ ret' = "Unknown"
         \/ pc' = "ending" /\ ret' = ret
    BY DEF ConsumeCalls, ConsumeStep
<1> QED BY <1>6, <1>7, SettledStep

LEMMA EmptyJson ==
    ASSUME JsonTypeOK, NamesInv, ConformingInv, conforming, Conforming, Pending,
           ~failed, ret = "none", EmptyCalls, WriteOutput, encodedStreamOffset' # 0
    PROVE  ConformingInv'
<1>1. PICK c \in Callback, d \in Callback :
          /\ calls' = <<c, d>>
          /\ c.cb = StartOf[sflv.type] /\ d.cb = EndOf[sflv.type]
          /\ NameGiven(c.prop)
    BY DEF EmptyCalls
<1>2. Wrote(<<c, d>>)
    BY <1>1, WriteOutputWrote DEF Writing, EmptyCalls
<1>3. PICK k \in JStates, b \in BOOLEAN :
          /\ Means(Json, isPrevAnnotated, c, k, b)
          /\ Means(k, b, d, Json', isPrevAnnotated')
    BY <1>2, WroteTwo
<1>4. Ready(Json, isPrevAnnotated, c.prop)
    BY <1>1, ReadyForValue
<1>5. Json \in JStates /\ isPrevAnnotated \in BOOLEAN /\ Json.open \in Seq({"object", "array"})
    BY WorkType, JStateParts DEF JsonTypeOK
<1>6. ~isPrevAnnotated' /\ Json' = Valued(Json.open)
    <2>1. CASE sflv.type = "Set"
        <3>1. c.cb = "SetStart" /\ d.cb = "SetEnd"
            BY <1>1, <2>1 DEF StartOf, EndOf
        <3>2. ~b /\ k = [open |-> Append(Json.open, "object"), next |-> "firstName"]
            BY <1>3, <1>4, <1>5, <3>1, ValueMeans
        <3>3. isPrevAnnotated' = b /\ Json' = JsonPiece(k, "}")
            <4>1. d.cb \in DOMAIN Closing /\ Closing[d.cb] = "}"
                BY <3>1 DEF Closing
            <4> QED BY <1>3, <4>1 DEF Means
        <3>4. k.open = Append(Json.open, "object") /\ k.next = "firstName"
            BY <3>2
        <3> QED BY <1>5, <3>2, <3>3, <3>4, ClosingPiece
    <2>2. CASE sflv.type = "Array"
        <3>1. c.cb = "ArrayStart" /\ d.cb = "ArrayEnd"
            BY <1>1, <2>2 DEF StartOf, EndOf
        <3>2. ~b /\ k = [open |-> Append(Json.open, "array"), next |-> "firstValue"]
            BY <1>3, <1>4, <1>5, <3>1, ValueMeans
        <3>3. isPrevAnnotated' = b /\ Json' = JsonPiece(k, "]")
            <4>1. d.cb \in DOMAIN Closing /\ Closing[d.cb] = "]"
                BY <3>1 DEF Closing
            <4> QED BY <1>3, <4>1 DEF Means
        <3>4. k.open = Append(Json.open, "array") /\ k.next = "firstValue"
            BY <3>2
        <3> QED BY <1>5, <3>2, <3>3, <3>4, ClosingPiece
    <2> QED BY <2>1, <2>2 DEF EmptyCalls, EmptyStep
<1>7. /\ UNCHANGED stack
      /\ \/ pc' = "emptyEnding" /\ ret' = ret
         \/ pc' = "loop" /\ ret' = ret /\ stack = <<>>
    BY DEF EmptyCalls, EmptyStep
<1> QED BY <1>6, <1>7, SettledStep

\* A section has been entered: it is on the stack.
LEMMA EnterStack ==
    ASSUME TypeOK, AnnotationsInSets, pc = "handle",
           NEW sectionType \in {"NoType", "Set", "Array"},
           sectionType = "NoType" => stack # <<>> /\ Top.sectionType = "Set",
           stack' = Append(stack, Ending(sectionType))
    PROVE  /\ stack' # <<>>
           /\ Top'.sectionType = sectionType
           /\ Top'.streamEndOffset = valueEndOffset
           /\ Brackets(stack') = OpenedBy(Brackets(stack), Ending(sectionType))
           /\ AnnotationsInSets'
<1> DEFINE e == Ending(sectionType)
<1>1. /\ e \in StackEntry
      /\ e.streamEndOffset = valueEndOffset
      /\ e.sectionType = sectionType
    BY EndingType
<1>2. stack \in Seq(StackEntry)
    BY DEF TypeOK
<1> HIDE DEF e
<1>3. stack' = Append(stack, e)
    BY DEF e
<1>4. /\ stack' # <<>>
      /\ stack'[Len(stack')] = e
    BY <1>1, <1>2, <1>3, FrontAppend
<1>5. Brackets(stack') = OpenedBy(Brackets(stack), e)
    BY <1>1, <1>2, <1>3, BracketsAppend
<1>6. AnnotationsInSets'
    BY <1>1, <1>3, AnnotationsPushed
<1> QED BY <1>1, <1>4, <1>5, <1>6 DEF Top, e

LEMMA EnterJson ==
    ASSUME JsonTypeOK, TupleInv, NamesInv, ConformingInv, conforming, Conforming, Pending,
           pc = "handle", ~failed, ret = "none",
           NEW sectionType \in {"NoType", "Set", "Array"}, NEW first \in Int,
           EnterCalls(sectionType, first), WriteOutput
    PROVE  ConformingInv'
<1>0. TypeOK /\ BracketsFollowStack /\ AnnotationsInSets
    BY DEF JsonTypeOK, ConformingInv
<1>1. PICK c \in Callback, d \in Callback :
          /\ calls' = <<c, d>>
          /\ c.cb = StartOf[sectionType] /\ d.cb = "StackPush"
          /\ sectionType # "NoType" => NameGiven(c.prop)
    BY DEF EnterCalls
<1>2. Wrote(<<c, d>>)
    BY <1>1, WriteOutputWrote DEF Writing, EnterCalls
<1>3. Means(Json, isPrevAnnotated, c, Json', isPrevAnnotated')
    <2>1. PICK k \in JStates, b \in BOOLEAN :
              /\ Means(Json, isPrevAnnotated, c, k, b)
              /\ Means(k, b, d, Json', isPrevAnnotated')
        BY <1>2, WroteTwo
    <2>2. Json' = k /\ isPrevAnnotated' = b
        BY <1>1, <2>1 DEF Means
    <2> QED BY <2>1, <2>2
<1>4. /\ stack' = Append(stack, Ending(sectionType))
      /\ encodedStreamOffset' = first
      /\ pc' = "loop" /\ ret' = ret
    BY DEF EnterCalls, EnterStep
<1>5. Json \in JStates /\ isPrevAnnotated \in BOOLEAN /\ Json.open \in Seq({"object", "array"})
      /\ Json.open = Brackets(stack)
    BY <1>0, WorkType, JStateParts DEF JsonTypeOK, BracketsFollowStack
<1>6. Ending(sectionType).sectionType = sectionType
    BY <1>0, EndingType
<1>7. CASE sectionType \in {"Set", "Array"}
    <2>1. Ready(Json, isPrevAnnotated, c.prop)
        BY <1>1, <1>7, ReadyForValue
    <2>2. c.cb = IF sectionType = "Set" THEN "SetStart" ELSE "ArrayStart"
        BY <1>1, <1>7 DEF StartOf
    <2>3. /\ stack' # <<>>
          /\ Top'.sectionType = sectionType
          /\ Brackets(stack') = OpenedBy(Brackets(stack), Ending(sectionType))
          /\ AnnotationsInSets'
        BY <1>0, <1>4, <1>7, EnterStack
    <2>4. ~isPrevAnnotated'
          /\ Json'.open = Append(Json.open, IF sectionType = "Set" THEN "object" ELSE "array")
          /\ Json'.next = IF sectionType = "Set" THEN "firstName" ELSE "firstValue"
        <3>1. CASE sectionType = "Set"
            <4>1. c.cb = "SetStart"
                BY <2>2, <3>1
            <4>2. ~isPrevAnnotated'
                  /\ Json' = [open |-> Append(Json.open, "object"), next |-> "firstName"]
                BY <1>3, <1>5, <2>1, <4>1, ValueMeans
            <4> QED BY <3>1, <4>2
        <3>2. CASE sectionType = "Array"
            <4>1. c.cb = "ArrayStart"
                BY <2>2, <3>2
            <4>2. ~isPrevAnnotated'
                  /\ Json' = [open |-> Append(Json.open, "array"), next |-> "firstValue"]
                BY <1>3, <1>5, <2>1, <4>1, ValueMeans
            <4> QED BY <3>2, <4>2
        <3> QED BY <1>7, <3>1, <3>2
    <2>5. BracketsFollowStack'
        BY <1>5, <1>6, <1>7, <2>3, <2>4 DEF BracketsFollowStack, OpenedBy
    <2>6. Pending'
        BY <1>7, <2>3, <2>4 DEF Pending
    <2> QED BY <1>4, <2>3, <2>5, <2>6 DEF ConformingInv, AcceptedIsJson
<1>8. CASE sectionType = "NoType"
    <2>1. sflv.type = "PropertyAnnotation" /\ first = ValueStartOffset
        BY <1>8 DEF EnterCalls, EnterStep
    <2>2. stack # <<>> /\ Top.sectionType = "Set" /\ sflv.len # 0
        BY <2>1 DEF Conforming, Parent
    <2>3. Json.next \in {"name", "firstName"}
        BY <2>2 DEF Pending
    <2>4. c.cb = "Annotation"
        BY <1>1, <1>8 DEF StartOf
    <2>5. isPrevAnnotated' = TRUE /\ Json' = [open |-> Json.open, next |-> "tail"]
        <3>1. isPrevAnnotated' /\ Json' = JsonPiece(Json, "head")
            BY <1>3, <2>4 DEF Means
        <3>2. isPrevAnnotated' \in BOOLEAN
            <4>1. <<c, d>> \in Seq(Callback)
                OBVIOUS
            <4> QED BY <1>2, <4>1, WroteType
        <3> QED BY <1>5, <2>3, <3>1, <3>2, NamePieces
    <2>6. /\ stack' # <<>>
          /\ Top'.sectionType = "NoType"
          /\ Top'.streamEndOffset = valueEndOffset
          /\ Brackets(stack') = OpenedBy(Brackets(stack), Ending(sectionType))
          /\ AnnotationsInSets'
        BY <1>0, <1>4, <1>8, <2>2, EnterStack
    <2>7. BracketsFollowStack'
        BY <1>5, <1>6, <1>8, <2>5, <2>6 DEF BracketsFollowStack, OpenedBy
    <2>8. ~SectionEndsHere'
        <3>1. /\ valueEndOffset = encodedStreamOffset + sflv.hdr + sflv.len
              /\ ValueStartOffset = encodedStreamOffset + sflv.hdr
            BY <1>0, TupleExtent DEF TupleInv
        <3>2. sflv.hdr \in Nat /\ sflv.len \in Nat /\ encodedStreamOffset \in Nat
            BY <1>0, SflvType DEF TypeOK
        <3>3. ValueStartOffset # valueEndOffset
            BY <2>2, <3>1, <3>2
        <3> QED BY <1>4, <2>1, <2>6, <3>3 DEF SectionEndsHere
    <2>9. Pending'
        BY <2>5, <2>6, <2>8 DEF Pending
    <2> QED BY <1>4, <2>6, <2>7, <2>9 DEF ConformingInv, AcceptedIsJson
<1> QED BY <1>7, <1>8

LEMMA RejectJson ==
    ASSUME JsonTypeOK, ConformingInv, conforming, ~failed, RejectCalls, WriteOutput
    PROVE  ConformingInv'
<1>1. /\ pc' = "done" /\ ret' # "OK"
      /\ UNCHANGED <<encodedStreamOffset, stack>>
    BY DEF RejectCalls, RejectStep, state
<1>2. Writing = <<>>
    <2>1. CASE calls' = <<>> /\ failed' = failed
        BY <2>1 DEF Writing
    <2>2. ASSUME NEW c \in Callback, calls' = <<c>>, failed' PROVE Writing = <<>>
        <3>1. Front(<<c>>) = <<>>
            BY DEF Front
        <3> QED BY <2>2, <3>1 DEF Writing
    <2> QED BY <2>1, <2>2 DEF RejectCalls
<1>3. Json' = Json /\ isPrevAnnotated' = isPrevAnnotated
    BY <1>2, WriteOutputWrote, WroteNothing
<1> QED BY <1>1, <1>3, QuietStep DEF JsonTypeOK

LEMMA HandleJson ==
    ASSUME StreamsFit, JsonInv, conforming, Conforming, Handle, WriteOutput
    PROVE  ConformingInv'
<1>1. /\ JsonTypeOK /\ TypeOK /\ TupleInv /\ StartInv /\ NamesInv /\ ConformingInv
    BY DEF JsonInv, IInv
<1>2. HandlerStep
    BY <1>1, HandlerSteps
<1>3. pc = "handle"
    BY <1>2 DEF HandlerStep
<1>4. ~failed /\ ret = "none" /\ Pending
    BY <1>1, <1>3 DEF JsonInv, OutputInv, StartInv, ConformingInv
<1>5. HandlerCalls
    BY <1>1, <1>4, HandlersMake
<1>6. CASE RejectCalls
    BY <1>1, <1>4, <1>6, RejectJson
<1>7. CASE ConsumeCalls
    BY <1>1, <1>4, <1>7, ConsumeJson
<1>8. CASE EmptyCalls
    <2>1. encodedStreamOffset' # 0
        <3>1. pc' # "done"
            BY <1>8 DEF EmptyCalls, EmptyStep
        <3>2. ~RejectStep
            BY <3>1 DEF RejectStep
        <3>3. encodedStreamOffset' >= encodedStreamOffset + 3 /\ encodedStreamOffset \in Nat
            BY <1>1, <1>2, <3>2, HandlerMoves DEF TypeOK
        <3> QED BY <3>3
    <2> QED BY <1>1, <1>4, <1>8, <2>1, EmptyJson
<1>9. ASSUME NEW sectionType \in {"NoType", "Set", "Array"}, NEW first \in Int,
             EnterCalls(sectionType, first)
      PROVE  ConformingInv'
    BY <1>1, <1>3, <1>4, <1>9, EnterJson
<1> QED BY <1>5, <1>6, <1>7, <1>8, <1>9 DEF HandlerCalls

-----------------------------------------------------------------------------
(* The other steps of bejDecode and bejProcessEnding, their callbacks and    *)
(* what they return.                                                         *)

\* The steps that make no callback.
LEMMA SilentMakes ==
    ASSUME TypeOK, \/ bejDecodePldmBlockWithPolicy \/ ReadRoot \/ ExceedMaxOperations
                   \/ LeaveLoop \/ EndStream
    PROVE  /\ calls' = <<>>
           /\ UNCHANGED <<failed, stack, encodedStreamOffset>>
           /\ pc' = "done" => ret' # "none"
<1>1. CASE bejDecodePldmBlockWithPolicy
    BY <1>1 DEF bejDecodePldmBlockWithPolicy, BlockStatus, Reject, Return, state
<1>2. CASE ReadRoot
    <2>1. \A t : RootStatus(t) # "none"
        BY DEF RootStatus
    <2>2. CASE Reject("InvalidSize")
        BY <2>2 DEF Reject, Return, state
    <2>3. ASSUME NEW t, Reject(RootStatus(t))
          PROVE  /\ calls' = <<>>
                 /\ UNCHANGED <<failed, stack, encodedStreamOffset>>
                 /\ ret' # "none"
        BY <2>1, <2>3 DEF Reject, Return, state
    <2>4. CASE pc' = "loop" /\ calls' = <<>> /\ UNCHANGED <<ret, state, stack, failed, history>>
        BY <2>4 DEF state
    <2> QED BY <1>2, <2>2, <2>3, <2>4 DEF ReadRoot
<1>3. CASE ExceedMaxOperations
    BY <1>3 DEF ExceedMaxOperations, Reject, Return, state
<1>4. CASE LeaveLoop
    BY <1>4 DEF LeaveLoop, state
<1>5. CASE EndStream
    BY <1>5 DEF EndStream, Return, state
<1> QED BY <1>1, <1>2, <1>3, <1>4, <1>5

LEMMA SilentWrites ==
    ASSUME JsonTypeOK, calls' = <<>>, failed' = failed, WriteOutput
    PROVE  UNCHANGED <<output, isPrevAnnotated>> /\ Json' = Json
<1>1. Writing = <<>>
    BY DEF Writing
<1> QED BY <1>1, WriteOutputWrote, WroteNothing

\* The payload holds at least the root tuple's header.
LEMMA PayloadNotEmpty ==
    ASSUME TypeOK, ReadRoot, pc' = "loop"
    PROVE  payloadLen' # 0
<1>1. PICK t \in TuplesAt(0) :
          RootStatus(t) = "OK" /\ payloadLen' = ValueEndOffset(t, 0) /\ Read(t, 0)
    BY DEF ReadRoot, Reject, Return
<1>2. bejInitSFLVStruct(t, 0)
    BY <1>1 DEF RootStatus
<1>3. t \in TupleType
    BY <1>1, ReadFacts, InputAssumption
<1>4. t.hdr \in Nat /\ t.hdr >= 3
    BY <1>3 DEF TupleType, HeaderSizes
<1>5. t.len \in Nat /\ U32 \in Nat
    BY <1>3, InputAssumption DEF TupleType, UInt32
<1>6. t.hdr <= U32 - 1 - 0 /\ t.len <= U32 - 1 - AddU32(0, t.hdr)
    BY <1>2 DEF bejInitSFLVStruct
<1>7. AddU32(0, t.hdr) = t.hdr
    BY <1>4, <1>5, <1>6 DEF AddU32
<1>8. ValueEndOffset(t, 0) = t.hdr + t.len
    BY <1>4, <1>5, <1>6, <1>7 DEF ValueEndOffset, AddU32
<1> QED BY <1>1, <1>4, <1>5, <1>8

\* Reading a tuple reports at most that it is read-only.
LEMMA ReadTupleMakes ==
    ASSUME TypeOK, ReadTuple
    PROVE  /\ UNCHANGED <<failed, stack, encodedStreamOffset, payloadLen>>
           /\ pc = "loop" /\ pc' \in {"handle", "done"}
           /\ pc' = "handle" => ret' = ret
           /\ pc' = "done" => ret' \notin {"none", "OK"}
           /\ \/ calls' = <<>>
              \/ \E c \in Callback : c.cb = "ReadonlyProperty" /\ calls' = <<c>>
<1> DEFINE Then == pc' = "handle" /\ UNCHANGED <<ret, state, stack, history>>
           c == Call("ReadonlyProperty", "")
<1>1. /\ pc = "loop" /\ payloadLen' = payloadLen
      /\ \/ Reject("InvalidSize")
         \/ Callbacks(<<c>>, Then, ReturnCallbackError)
         \/ Callbacks(<<>>, Then, ReturnCallbackError)
    BY DEF ReadTuple
<1>2. CASE Reject("InvalidSize")
    BY <1>1, <1>2 DEF Reject, Return, state
<1>3. CASE Callbacks(<<c>>, Then, ReturnCallbackError)
    <2>1. c \in Callback /\ c.cb = "ReadonlyProperty"
        BY CallParts, NameAssumption DEF CallbackNames
    <2> HIDE DEF Then, c
    <2>2. Then /\ calls' = <<c>> /\ failed' = failed
        BY <1>3, <2>1, OneCallbackMade
    <2> QED BY <1>1, <2>1, <2>2 DEF Then, state
<1>4. CASE Callbacks(<<>>, Then, ReturnCallbackError)
    BY <1>1, <1>4 DEF Callbacks, state
<1> QED BY <1>1, <1>2, <1>3, <1>4

LEMMA ReadTupleWrites ==
    ASSUME JsonTypeOK, ReadTuple, WriteOutput
    PROVE  isPrevAnnotated' = isPrevAnnotated /\ Json' = Json
<1>1. TypeOK
    BY DEF JsonTypeOK
<1>2. Writing = calls'
    BY <1>1, ReadTupleMakes DEF Writing
<1>3. CASE calls' = <<>>
    BY <1>2, <1>3, WriteOutputWrote, WroteNothing
<1>4. ASSUME NEW c \in Callback, c.cb = "ReadonlyProperty", calls' = <<c>>
      PROVE  isPrevAnnotated' = isPrevAnnotated /\ Json' = Json
    <2>1. Means(Json, isPrevAnnotated, c, Json', isPrevAnnotated')
        BY <1>2, <1>4, WriteOutputWrote, WroteOne
    <2> QED BY <1>4, <2>1 DEF Means
<1> QED BY <1>1, <1>3, <1>4, ReadTupleMakes

\* No callback of bejProcessEnding can fail.
LEMMA EndingMakes ==
    ASSUME TypeOK, EndSection \/ EndProperty
    PROVE  /\ UNCHANGED <<failed, encodedStreamOffset, payloadLen>>
           /\ pc \in Endings
           /\ pc' \in Endings => pc' = pc
           /\ pc' \in Endings \cup {"loop", "done"}
           /\ pc' = "done" => ret' = "Unknown"
<1>1. CASE EndProperty
    <2> DEFINE c == Call("PropertyEnd", "")
    <2>1. Callbacks(<<c>>, AfterEnding, AfterEndingFailed)
        BY <1>1 DEF EndProperty
    <2>2. c \in Callback /\ c.cb \notin {"String", "Real"}
        BY CallParts, NameAssumption DEF CallbackNames
    <2> HIDE DEF c
    <2>3. AfterEnding /\ failed' = failed
        BY <2>1, <2>2, OneCallbackMade
    <2> QED BY <1>1, <2>3 DEF EndProperty, AfterEnding, Return, state, Endings
<1>2. CASE EndSection
    <2> DEFINE Then == stack' = Pop(stack) /\ path' = Pop(path) /\ UNCHANGED <<pc, ret>>
               Otherwise == AfterEndingFailed /\ UNCHANGED <<stack, path>>
    <2>1. Callbacks(EndCallbacks(Top), Then, Otherwise) /\ stack # <<>>
        BY <1>2 DEF EndSection
    <2>2. EndCallbacks(Top) \in Seq(Callback)
        BY <2>1, TopType, EndCallbacksType
    <2>3. \A i \in DOMAIN EndCallbacks(Top) : EndCallbacks(Top)[i].cb \notin {"String", "Real"}
        <3>1. CASE Top.sectionType = "NoType"
            BY <3>1 DEF EndCallbacks
        <3>2. CASE Top.sectionType # "NoType"
            <4> DEFINE c == Call(IF Top.sectionType = "Set" THEN "SetEnd" ELSE "ArrayEnd", "")
            <4>1. EndCallbacks(Top) = <<c>>
                BY <3>2 DEF EndCallbacks
            <4>2. c.cb \notin {"String", "Real"}
                BY DEF Call
            <4> HIDE DEF c
            <4>3. DOMAIN <<c>> = {1} /\ <<c>>[1] = c
                OBVIOUS
            <4> QED BY <4>1, <4>2, <4>3
        <3> QED BY <3>1, <3>2
    <2> HIDE DEF Then, Otherwise
    <2>4. Then /\ failed' = failed
        BY <2>1, <2>2, <2>3, CallbacksMade
    <2> QED BY <1>2, <2>4 DEF Then, EndSection, Endings
<1> QED BY <1>1, <1>2

-----------------------------------------------------------------------------
(* The invariant, step by step. *)

LEMMA ConformingStep ==
    ASSUME StreamsFit, JsonInv, JsonStep
    PROVE  ConformingInv'
<1> SUFFICES ASSUME conforming' PROVE ConformingInv'
    BY DEF ConformingInv
<1>1. /\ JsonTypeOK /\ TypeOK /\ TupleInv /\ StartInv /\ NamesInv /\ OutputInv /\ ConformingInv
    BY DEF JsonInv, IInv
<1>2. conforming /\ (pc = "handle" => Conforming) /\ WriteOutput /\ Next
    BY DEF JsonStep
<1>3. CASE Handle
    <2>1. pc = "handle"
        BY <1>1, <1>3, HandlerSteps DEF HandlerStep
    <2> QED BY <1>2, <1>3, <2>1, HandleJson
<1>4. CASE EndSection \/ EndProperty
    <2>1. pc \in Endings
        BY <1>1, <1>4, EndingMakes
    <2>2. ~failed /\ ret = "none"
        BY <1>1, <2>1 DEF OutputInv, StartInv, Endings
    <2> QED BY <1>1, <1>2, <1>4, <2>2, EndSectionJson, EndPropertyJson
<1>5. CASE ReadTuple
    <2>1. /\ UNCHANGED <<stack, encodedStreamOffset>>
          /\ pc = "loop" /\ pc' \in {"handle", "done"}
          /\ pc' = "handle" => ret' = ret
          /\ pc' = "done" => ret' \notin {"none", "OK"}
        BY <1>1, <1>5, ReadTupleMakes
    <2>2. isPrevAnnotated' = isPrevAnnotated /\ Json' = Json
        BY <1>1, <1>2, <1>5, ReadTupleWrites
    <2>3. Pending /\ ret = "none"
        BY <1>1, <1>2, <2>1 DEF ConformingInv, StartInv
    <2>4. ret' # "OK"
        BY <2>1, <2>3
    <2> QED BY <1>1, <1>2, <2>1, <2>2, <2>3, <2>4, QuietStep
<1>6. ASSUME \/ bejDecodePldmBlockWithPolicy \/ ReadRoot \/ ExceedMaxOperations
             \/ LeaveLoop \/ EndStream
      PROVE  ConformingInv'
    <2>1. UNCHANGED <<stack, encodedStreamOffset>>
        BY <1>1, <1>6, SilentMakes
    <2>2. isPrevAnnotated' = isPrevAnnotated /\ Json' = Json
        BY <1>1, <1>2, <1>6, SilentMakes, SilentWrites
    <2>3. CASE bejDecodePldmBlockWithPolicy
        <3>1. pc' \in {"done", "root"} /\ ret' # "OK"
            BY <1>1, <2>3, BlockFacts DEF StartInv
        <3> QED BY <1>1, <1>2, <2>1, <2>2, <3>1, QuietStep
    <2>4. CASE ReadRoot
        <3>1. pc = "root" /\ pc' \in {"done", "loop"} /\ ret' # "OK"
            BY <1>1, <2>4, ReadRootFacts DEF StartInv
        <3>2. /\ output = <<>> /\ ~isPrevAnnotated /\ stack = <<>>
              /\ encodedStreamOffset = 0
            BY <1>1, <3>1 DEF OutputInv, StartInv
        <3>3. Json.next = "value"
            BY <3>2, JsonEmpty DEF Json, JsonStart
        <3>4. Pending
            BY <3>2, <3>3 DEF Pending
        <3> QED BY <1>1, <1>2, <2>1, <2>2, <3>1, <3>4, QuietStep
    <2>5. CASE ExceedMaxOperations
        <3>1. pc' = "done" /\ ret' # "OK"
            BY <2>5, ExceedFacts
        <3> QED BY <1>1, <1>2, <2>1, <2>2, <3>1, QuietStep
    <2>6. CASE LeaveLoop
        <3>1. pc = "loop" /\ pc' = "finalEnding" /\ ret' = ret
            BY <2>6 DEF LeaveLoop
        <3>2. Pending /\ ret' # "OK"
            BY <1>1, <1>2, <3>1 DEF ConformingInv, StartInv
        <3> QED BY <1>1, <1>2, <2>1, <2>2, <3>1, <3>2, QuietStep
    <2>7. CASE EndStream
        <3>1. /\ pc \in Endings /\ stack = <<>>
              /\ \/ pc = "finalEnding" /\ pc' = "done"
                 \/ pc # "finalEnding" /\ pc' = "loop" /\ ret' = ret
            BY <2>7 DEF EndStream, Return
        <3>2. encodedStreamOffset # 0 /\ ret = "none"
            BY <1>1, <3>1 DEF OutputInv, StartInv, Endings
        <3>3. Json.open = <<>>
            BY <1>1, <1>2, <3>1, BracketsEmpty DEF ConformingInv, BracketsFollowStack
        <3>4. Settled \/ Pending
            BY <1>1, <1>2, <3>1 DEF ConformingInv, Endings
        <3>5. ~isPrevAnnotated /\ Json.next = "end"
            BY <3>1, <3>2, <3>3, <3>4 DEF Settled, Pending
        <3>6. Pending
            BY <3>1, <3>2, <3>5 DEF Pending
        <3> QED BY <1>1, <1>2, <2>1, <2>2, <3>1, <3>5, <3>6, QuietStep
    <2> QED BY <1>6, <2>3, <2>4, <2>5, <2>6, <2>7
<1> QED BY <1>2, <1>3, <1>4, <1>5, <1>6 DEF Next, ProcessEnding

LEMMA HandleOutput ==
    ASSUME StreamsFit, JsonInv, Handle
    PROVE  OutputInv'
<1>1. TypeOK /\ TupleInv /\ StartInv /\ NamesInv /\ OutputInv
    BY DEF JsonInv, IInv
<1>2. HandlerStep
    BY <1>1, HandlerSteps
<1>3. pc = "handle" /\ payloadLen' = payloadLen
    BY <1>2 DEF HandlerStep
<1>4. ~failed /\ ret = "none" /\ payloadLen # 0
    BY <1>1, <1>3 DEF OutputInv, StartInv, Walking
<1>5. HandlerCalls
    BY <1>1, <1>4, HandlersMake
<1>6. "none" \notin Statuses
    BY DEF Statuses
<1>7. CASE RejectCalls
    BY <1>4, <1>6, <1>7 DEF RejectCalls, RejectStep, OutputInv, Walking, Endings
<1>8. CASE ConsumeCalls \/ EmptyCalls
    <2>1. /\ ~failed'
          /\ pc' \in {"done", "ending", "emptyEnding", "loop"}
          /\ pc' = "done" => ret' = "Unknown"
        BY <1>4, <1>8 DEF ConsumeCalls, ConsumeStep, EmptyCalls, EmptyStep
    <2>2. encodedStreamOffset' # 0
        <3>1. encodedStreamOffset \in Nat
            BY <1>1 DEF TypeOK
        <3>2. CASE ConsumeCalls
            <4>1. encodedStreamOffset' = valueEndOffset /\ valueEndOffset >= encodedStreamOffset + 3
                BY <1>1, <1>2, <3>2, HandlerMoves DEF ConsumeCalls, ConsumeStep
            <4> QED BY <3>1, <4>1
        <3>3. CASE EmptyCalls
            <4>1. ~RejectStep
                BY <3>3 DEF EmptyCalls, EmptyStep, RejectStep
            <4>2. encodedStreamOffset' >= encodedStreamOffset + 3
                BY <1>1, <1>2, <4>1, HandlerMoves
            <4> QED BY <3>1, <4>2
        <3> QED BY <1>8, <3>2, <3>3
    <2> QED BY <1>3, <1>4, <2>1, <2>2 DEF OutputInv, Walking, Endings
<1>9. ASSUME NEW sectionType, NEW first, EnterCalls(sectionType, first)
      PROVE  OutputInv'
    <2>1. ~failed' /\ pc' = "loop"
        BY <1>4, <1>9 DEF EnterCalls, EnterStep
    <2> QED BY <1>3, <1>4, <2>1 DEF OutputInv, Walking, Endings
<1> QED BY <1>5, <1>7, <1>8, <1>9 DEF HandlerCalls

LEMMA OutputStep ==
    ASSUME StreamsFit, JsonInv, JsonStep
    PROVE  OutputInv'
<1>1. /\ JsonTypeOK /\ TypeOK /\ StartInv /\ OutputInv
    BY DEF JsonInv, IInv
<1>2. WriteOutput /\ Next
    BY DEF JsonStep
<1>3. CASE Handle
    BY <1>3, HandleOutput
<1>4. CASE EndSection \/ EndProperty
    <2>1. /\ UNCHANGED <<failed, encodedStreamOffset, payloadLen>>
          /\ pc \in Endings
          /\ pc' \in Endings \cup {"loop", "done"}
          /\ pc' = "done" => ret' = "Unknown"
        BY <1>1, <1>4, EndingMakes
    <2>2. ~failed /\ payloadLen # 0 /\ encodedStreamOffset # 0
        BY <1>1, <2>1 DEF OutputInv, Endings, Walking
    <2> QED BY <2>1, <2>2 DEF OutputInv, Endings, Walking
<1>5. CASE ReadTuple
    <2>1. /\ UNCHANGED <<failed, payloadLen>>
          /\ pc = "loop" /\ pc' \in {"handle", "done"}
          /\ pc' = "done" => ret' \notin {"none", "OK"}
        BY <1>1, <1>5, ReadTupleMakes
    <2>2. ~failed /\ payloadLen # 0
        BY <1>1, <2>1 DEF OutputInv, Walking
    <2> QED BY <2>1, <2>2 DEF OutputInv, Endings, Walking
<1>6. ASSUME \/ bejDecodePldmBlockWithPolicy \/ ReadRoot \/ ExceedMaxOperations
             \/ LeaveLoop \/ EndStream
      PROVE  OutputInv'
    <2>1. /\ UNCHANGED <<failed, stack, encodedStreamOffset>>
          /\ pc' = "done" => ret' # "none"
        BY <1>1, <1>6, SilentMakes
    <2>2. output' = output /\ isPrevAnnotated' = isPrevAnnotated
        BY <1>1, <1>2, <1>6, SilentMakes, SilentWrites
    <2>3. pc # "done"
        BY <1>1, <1>6, BlockFacts, ReadRootFacts, ExceedFacts, EndFacts DEF Endings
    <2>4. ~failed
        BY <1>1, <2>3 DEF OutputInv
    <2>5. CASE bejDecodePldmBlockWithPolicy
        <3>1. pc = "block" /\ pc' \in {"done", "root"}
            BY <2>5, BlockFacts
        <3> QED BY <1>1, <2>1, <2>2, <2>4, <3>1 DEF OutputInv, Walking, Endings
    <2>6. CASE ReadRoot
        <3>1. pc' \in {"done", "loop"}
            BY <1>1, <2>6, ReadRootFacts
        <3>2. pc' = "loop" => payloadLen' # 0
            BY <1>1, <2>6, PayloadNotEmpty
        <3> QED BY <2>1, <2>4, <3>1, <3>2 DEF OutputInv, Walking, Endings
    <2>7. CASE ExceedMaxOperations
        <3>1. pc' = "done"
            BY <2>7, ExceedFacts
        <3> QED BY <2>1, <2>4, <3>1 DEF OutputInv, Walking, Endings
    <2>8. CASE LeaveLoop
        <3>1. /\ pc = "loop" /\ pc' = "finalEnding" /\ payloadLen' = payloadLen
              /\ encodedStreamOffset >= payloadLen
            BY <2>8 DEF LeaveLoop
        <3>2. payloadLen # 0 /\ payloadLen \in Nat /\ encodedStreamOffset \in Nat
            BY <1>1, <3>1 DEF OutputInv, Walking, TypeOK
        <3>3. encodedStreamOffset # 0
            BY <3>1, <3>2
        <3> QED BY <2>1, <2>4, <3>1, <3>2, <3>3 DEF OutputInv, Walking, Endings
    <2>9. CASE EndStream
        <3>1. pc \in Endings /\ pc' \in {"done", "loop"} /\ payloadLen' = payloadLen
            BY <2>9 DEF EndStream, Return
        <3>2. payloadLen # 0
            BY <1>1, <3>1 DEF OutputInv, Walking
        <3> QED BY <2>1, <2>4, <3>1, <3>2 DEF OutputInv, Walking, Endings
    <2> QED BY <1>6, <2>5, <2>6, <2>7, <2>8, <2>9
<1> QED BY <1>2, <1>3, <1>4, <1>5, <1>6 DEF Next, ProcessEnding

LEMMA JsonTypeStep ==
    ASSUME StreamsFit, JsonInv, JsonStep
    PROVE  JsonTypeOK' /\ IInv' /\ NamesInv'
<1>1. JsonTypeOK /\ IInv /\ TypeOK /\ NamesInv /\ Next /\ WriteOutput
    BY DEF JsonInv, IInv, JsonStep
<1>2. IInv' /\ NamesInv'
    BY <1>1, InvariantStep, NamesStep
<1>3. calls' \in Seq(Callback)
    BY <1>2 DEF IInv, TypeOK
<1>4. Writing \in Seq(Callback)
    BY <1>3, FrontType DEF Writing
<1>5. output' \in Seq(Pieces) /\ isPrevAnnotated' \in BOOLEAN
    BY <1>1, <1>4, WriteOutputWrote, WroteType
<1>6. conforming' \in BOOLEAN
    BY DEF JsonStep
<1> QED BY <1>2, <1>5, <1>6 DEF JsonTypeOK, IInv

LEMMA JsonInvInit ==
    ASSUME JsonInit
    PROVE  JsonInv
<1>1. IInv /\ TypeOK
    BY InvariantInit DEF JsonInit, IInv
<1>2. /\ pc = "block" /\ ret = "none" /\ stack = <<>> /\ failed = FALSE
      /\ addPropertyName = FALSE /\ output = <<>> /\ isPrevAnnotated = FALSE
      /\ conforming = TRUE
    BY DEF JsonInit, Init, InitParams
<1>3. DOMAIN stack = {}
    BY <1>2
<1>4. JsonTypeOK
    <2>1. <<>> \in Seq(Pieces)
        OBVIOUS
    <2> QED BY <1>1, <1>2, <2>1 DEF JsonTypeOK
<1>5. NamesInv
    BY <1>2, <1>3 DEF NamesInv
<1>6. OutputInv
    BY <1>2 DEF OutputInv, Walking, Endings
<1>7. BracketsFollowStack
    BY <1>2, JsonEmpty, BracketsEmpty DEF BracketsFollowStack, Json, JsonStart
<1>8. ConformingInv
    BY <1>2, <1>3, <1>7 DEF ConformingInv, AnnotationsInSets, AcceptedIsJson
<1> QED BY <1>1, <1>4, <1>5, <1>6, <1>8 DEF JsonInv

LEMMA JsonStutter ==
    ASSUME StreamsFit, JsonInv, UNCHANGED jsonVars
    PROVE  JsonInv'
<1>1. UNCHANGED vars /\ UNCHANGED <<output, isPrevAnnotated, conforming>>
    BY DEF jsonVars
<1>2. UNCHANGED <<pc, ret, payloadLen, encodedStreamOffset, stack, failed>>
    BY <1>1 DEF vars, state
<1>3. IInv' /\ NamesInv'
    BY <1>1, InvariantStep, NamesStep DEF JsonInv, IInv
<1>4. JsonTypeOK'
    BY <1>1, <1>3 DEF JsonInv, JsonTypeOK, IInv
<1>5. OutputInv'
    BY <1>1, <1>2 DEF JsonInv, OutputInv, Walking
<1>6. /\ Json' = Json
      /\ Pending' <=> Pending
      /\ Settled' <=> Settled
    BY <1>1, <1>2 DEF Json, Pending, Settled, Top, SectionEndsHere
<1>7. ConformingInv'
    BY <1>1, <1>2, <1>6
    DEF JsonInv, ConformingInv, BracketsFollowStack, AnnotationsInSets, AcceptedIsJson
<1> QED BY <1>3, <1>4, <1>5, <1>7 DEF JsonInv

\* What is written is never anything but the beginning of a JSON text.
LEMMA NeverBad ==
    ASSUME JsonInv
    PROVE  OutputIsJsonPrefix
<1> SUFFICES ASSUME conforming, ret \in {"none", "OK"}
             PROVE  Json.next # "bad"
    BY DEF OutputIsJsonPrefix
<1>1. /\ TypeOK /\ StartInv /\ OutputInv /\ ConformingInv
    BY DEF JsonInv, IInv
<1>2. pc \in {"block", "root", "loop", "handle", "done"} \cup Endings
    BY <1>1 DEF TypeOK, PCs
<1>3. Pending => Json.next # "bad"
    BY DEF Pending
<1>4. Settled => Json.next # "bad"
    BY DEF Settled
<1>5. CASE pc \in {"block", "root"}
    BY <1>1, <1>5, JsonEmpty DEF OutputInv, Json, JsonStart
<1>6. CASE pc \in {"loop", "handle"} \cup Endings
    BY <1>1, <1>3, <1>4, <1>6 DEF ConformingInv, Endings
<1>7. CASE pc = "done"
    <2>1. ret = "OK"
        BY <1>1, <1>7 DEF OutputInv
    <2> QED BY <1>1, <2>1 DEF ConformingInv, AcceptedIsJson
<1> QED BY <1>2, <1>5, <1>6, <1>7

-----------------------------------------------------------------------------
(* The theorems. *)

\* The inductive invariant of the JSON decoder, over one block after another.
THEOREM JsonInvHolds == StreamsFit => (JsonSpec => []JsonInv)
<1> SUFFICES ASSUME StreamsFit PROVE JsonSpec => []JsonInv
    OBVIOUS
<1>1. JsonInit => JsonInv
    BY JsonInvInit
<1>2. decode => JsonInit'
    BY DEF decode, JsonInit, Init, InitParams
<1>3. JsonInv /\ JsonStep => JsonInv'
    BY ConformingStep, OutputStep, JsonTypeStep DEF JsonInv
<1>4. JsonInv /\ UNCHANGED jsonVars => JsonInv'
    BY JsonStutter
<1>5. [JsonNext]_jsonVars => decode \/ JsonStep \/ UNCHANGED jsonVars
    BY DEF JsonNext
<1> QED BY <1>1, <1>2, <1>3, <1>4, <1>5, PTL DEF JsonSpec

\* The output, the flag of half-written names and the rest of the decoder are
\* well typed whatever the stream holds and however often decode is called.
THEOREM JsonTypeCorrect == StreamsFit => (JsonSpec => []JsonTypeOK)
<1> SUFFICES ASSUME StreamsFit PROVE JsonSpec => []JsonTypeOK
    OBVIOUS
<1>1. JsonInv => JsonTypeOK
    BY DEF JsonInv
<1>2. JsonSpec => []JsonInv
    BY JsonInvHolds
<1> QED BY <1>1, <1>2, PTL

\* At every step of decoding a conforming stream, the text written so far is
\* the beginning of a JSON text: no comma, name, quote or bracket is misplaced
\* (bejProcessEnding, line 331; the callbacks of bej_decoder_json.cpp).
THEOREM OutputIsJsonPrefixHolds == StreamsFit => (JsonSpec => []OutputIsJsonPrefix)
<1> SUFFICES ASSUME StreamsFit PROVE JsonSpec => []OutputIsJsonPrefix
    OBVIOUS
<1>1. JsonInv => OutputIsJsonPrefix
    BY NeverBad
<1>2. JsonSpec => []JsonInv
    BY JsonInvHolds
<1> QED BY <1>1, <1>2, PTL

\* What is open in the output is what is open on the decoder's stack.
THEOREM BracketsFollowStackHolds == StreamsFit => (JsonSpec => []BracketsFollowStack)
<1> SUFFICES ASSUME StreamsFit PROVE JsonSpec => []BracketsFollowStack
    OBVIOUS
<1>1. JsonInv => BracketsFollowStack
    BY DEF JsonInv, ConformingInv, BracketsFollowStack
<1>2. JsonSpec => []JsonInv
    BY JsonInvHolds
<1> QED BY <1>1, <1>2, PTL

\* An accepted conforming stream has been written as one complete JSON text,
\* whatever the decodes before it left behind.
THEOREM AcceptedIsJsonHolds == StreamsFit => (JsonSpec => []AcceptedIsJson)
<1> SUFFICES ASSUME StreamsFit PROVE JsonSpec => []AcceptedIsJson
    OBVIOUS
<1>1. JsonInv => AcceptedIsJson
    BY DEF JsonInv, ConformingInv, AcceptedIsJson
<1>2. JsonSpec => []JsonInv
    BY JsonInvHolds
<1> QED BY <1>1, <1>2, PTL

=============================================================================
