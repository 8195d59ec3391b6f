--------------------------- MODULE MCBejRoundTrip ---------------------------
(***************************************************************************)
(* Small schemas for the round trip.                                       *)
(***************************************************************************)
EXTENDS BejRoundTrip

Prop(seq, name, child) == [seq |-> seq, name |-> name, child |-> child, nameOk |-> TRUE]

MCNames ==
    {"", "Root", "S", "A", "E", "I", "X", "Y", "B", "C", "On", "Off", "Lo", "Hi",
     "Annotations",
     "@T", "@M", "N"}

MCAnnotationNames == {"@T", "@M"}

\* { S: { I }, A: [ { X, Y } ], E: On | Off, C: [ Lo | Hi ] }, with numbers that
\* are not in the order of the entries.
MCMainDict ==
    << Prop(0, "Root", 22),
       Prop(2, "S", 62), Prop(0, "A", 72), Prop(3, "E", 102), Prop(1, "C", 122),
       Prop(0, "I", 0),
       Prop(0, "", 82),
       Prop(1, "X", 0), Prop(0, "Y", 0),
       Prop(1, "On", 0), Prop(0, "Off", 0),
       Prop(0, "", 132),
       Prop(0, "Lo", 0), Prop(1, "Hi", 0) >>

MCMainTypes ==
    << "Set", "Set", "Array", "Enum", "Array", "Integer", "Set", "String", "Real",
       "String", "String", "Enum", "String", "String" >>

\* @T and @M: { N }
MCAnnoDict ==
    << Prop(0, "Annotations", 22),
       Prop(0, "@T", 0), Prop(1, "@M", 42),
       Prop(0, "N", 0) >>

MCAnnoTypes == << "Set", "Boolean", "Set", "Null" >>

\* { A: [ { X } ], B: [ { Y, X } ] }, generation by generation.
FamiliesDict ==
    << Prop(0, "Root", 22),
       Prop(0, "A", 42), Prop(1, "B", 52),
       Prop(0, "", 62), Prop(0, "", 72),
       Prop(0, "X", 0),
       Prop(0, "Y", 0), Prop(1, "X", 0) >>

FamiliesTypes ==
    << "Set", "Array", "Array", "Set", "Set", "Integer", "Integer", "Integer" >>

MCBlocks ==
    { [notNull |-> TRUE, blockLength |-> 0, versionSupported |-> TRUE,
       schemaClass |-> "Major", dictSizesOk |-> TRUE, policy |-> "Error"] }

MCCalls == { [notNull |-> TRUE, root |-> First, start |-> 0] }

MCGarbage ==
    { [sequenceNumber |-> 7, sflSize |-> 7, vSize |-> 7, enumValueSeq |-> 7,
       childrenDictPropOffset |-> 7, nextChildIndex |-> 1, dictionary |-> "Annotation",
       nextChild |-> First] }

\* The nodes of a caller differ in nothing but who they are.
Interchangeable == Permutations(Nodes \ {First})
=============================================================================
