---------------------------- MODULE MCBejEncoder ----------------------------
(***************************************************************************)
(* Small trees for the encoder, built with the operations of BejTree, and  *)
(* dictionaries that describe                                              *)
(*                                                                         *)
(*   { S: { I }, A: [ { X } ], E: On | Off }                               *)
(*                                                                         *)
(* and the annotations @T and @M: { N }.                                   *)
(***************************************************************************)
EXTENDS BejEncoderProperties

Prop(seq, name, child) == [seq |-> seq, name |-> name, child |-> child, nameOk |-> TRUE]

MCNames ==
    {"", "Root", "S", "A", "E", "I", "X", "On", "Off", "Annotations", "@T",
     "@M", "N", "unknown"}

MCAnnotationNames == {"@T", "@M"}

MCMainDict ==
    << Prop(0, "Root", 22),
       Prop(0, "S", 52), Prop(1, "A", 62), Prop(2, "E", 82),
       Prop(0, "I", 0),
       Prop(0, "", 72),
       Prop(0, "X", 0),
       Prop(0, "On", 0), Prop(300, "Off", 0) >>

MCAnnoDict ==
    << Prop(0, "Annotations", 22),
       Prop(0, "@T", 0), Prop(1, "@M", 42),
       Prop(0, "N", 0) >>

MCNodes == {"root", "n1", "n2", "n3", "n4", "n5", "n6", "n7", "n8"}

-----------------------------------------------------------------------------
(* Trees, as the calls that build them. *)

Bytes(n) == [NoValue EXCEPT !.bytes = n]
Option(name) == [NoValue EXCEPT !.option = name]

Step(parent, child, name, type, value) ==
    [parent |-> parent, child |-> child, name |-> name, type |-> type, value |-> value]

Build(tree, step) ==
    IF step.type \in ParentTypes
    THEN bejTreeLinkChildToParent(
             bejTreeInitParent(tree, step.child, step.name, step.type),
             step.parent, step.child)
    ELSE bejTreeAdd(tree, step.parent, step.child, step.name, step.type, step.value)

Resource(type, name, steps) ==
    FoldLeft(Build, bejTreeInitParent(BlankTree, "root", name, type), steps)

\* Every kind of nesting, with a string of n bytes inside of three parents.
Nested(n) ==
    Resource("Set", "Root",
        << Step("root", "n1", "S", "Set", NoValue),
           Step("n1", "n2", "I", "Integer", Bytes(8)),
           Step("root", "n3", "A", "Array", NoValue),
           Step("n3", "n4", "", "Set", NoValue),
           Step("n4", "n5", "X", "String", Bytes(n)),
           Step("n3", "n6", "", "Set", NoValue),
           Step("root", "n7", "E", "Enum", Option("Off")),
           Step("root", "n8", "@T", "Boolean", NoValue) >>)

\* An annotation with a set that has its own property and a top-level one.
Annotated ==
    Resource("Set", "Root",
        << Step("root", "n1", "S", "PropertyAnnotation", NoValue),
           Step("n1", "n2", "@M", "Set", NoValue),
           Step("n2", "n3", "N", "Real", [Bytes(2) EXCEPT !.zeros = 1, !.fract = 256]),
           Step("n2", "n4", "@T", "Null", NoValue),
           Step("root", "n5", "S", "Set", NoValue) >>)

\* Elements without a name: values, options, arrays with and without elements.
Elements ==
    Resource("Set", "Root",
        << Step("root", "n1", "A", "Array", NoValue),
           Step("n1", "n2", "", "Enum", Option("On")),
           Step("n1", "n3", "", "Array", NoValue),
           Step("n1", "n4", "", "Array", NoValue),
           Step("n4", "n5", "", "Null", NoValue),
           Step("n4", "n6", "", "Boolean", NoValue) >>)

HugeReal == [Bytes(9) EXCEPT !.tooLarge = TRUE]

\* What is below a set that knows X: nothing wrong; a real that is too large
\* (Unknown); an enum without options (InvalidPropertyOffset); an option, a leaf
\* and a set that are not described (UnknownProperty), the set with a fault of
\* another status inside.
Below(parent, node, kind) ==
    CASE kind = "none" -> << Step(parent, node, "X", "Integer", Bytes(1)) >>
      [] kind = "real" -> << Step(parent, node, "X", "Real", HugeReal) >>
      [] kind = "options" -> << Step(parent, node, "X", "Enum", Option("On")) >>
      [] kind = "option" -> << Step(parent, node, "", "Enum", Option("unknown")) >>
      [] kind = "leaf" -> << Step(parent, node, "unknown", "Null", NoValue) >>
      [] kind = "set" -> << Step(parent, node, "unknown", "Set", NoValue),
                            Step(node, "n7", "X", "Real", HugeReal) >>

\* In a set, in an element of an array, and in the root behind both.
Faulty(inSet, inElement, inRoot) ==
    Resource("Set", "Root",
        << Step("root", "n1", "S", "Set", NoValue) >>
            \o Below("n1", "n2", inSet)
            \o << Step("root", "n3", "A", "Array", NoValue),
                  Step("n3", "n4", "", "Set", NoValue) >>
            \o Below("n4", "n5", inElement)
            \o Below("root", "n6", inRoot))

Undescribed == {"option", "leaf", "set"}

\* Two faults of a tree, of which the second has another status than the first.
TwoFaults ==
    {f \in ({"real", "options"} \cup Undescribed) \X ({"real", "options"} \cup Undescribed) :
        f[1] # f[2] /\ ~(f[1] \in Undescribed /\ f[2] \in Undescribed)}

FaultyTrees ==
    UNION { { Faulty(f[1], f[2], "none"), Faulty(f[1], "none", f[2]), Faulty("none", f[1], f[2]) } :
              f \in TwoFaults }

RootTrees ==
    { Resource("Array", "A", <<>>), Resource("Set", "unknown", <<>>),
      Resource("Set", "S", << Step("root", "n1", "I", "Integer", Bytes(1)) >>) }

MCTrees ==
    { Nested(n) : n \in {1, 193, 194, 234, 235, 248, 249, 255, 256} } \cup { Annotated, Elements }
        \cup FaultyTrees \cup RootTrees

\* Offsets of an entry, of none, and zero for the first one.
MCCalls ==
    [notNull: BOOLEAN, root: {"root"}, start: {0, 22, 52, 23}]

MCGarbage ==
    { [sequenceNumber |-> 7, sflSize |-> 7, vSize |-> 7, enumValueSeq |-> 7,
       childrenDictPropOffset |-> 7, nextChildIndex |-> i, dictionary |-> "Annotation",
       nextChild |-> n] : <<i, n>> \in { <<0, NULL>>, <<65535, "n2">> } }

\* A status of recvOutput that a uint8_t holds, and one that it takes for zero.
MCOutputErrors == {-1, 256}
=============================================================================
