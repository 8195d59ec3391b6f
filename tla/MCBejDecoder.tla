---------------------------- MODULE MCBejDecoder ----------------------------
(***************************************************************************)
(* Small instances of BejDecoder. The dictionaries describe                *)
(*                                                                         *)
(*   { S: { I }, A: [ { X } ], E: On | Off }                               *)
(*                                                                         *)
(* and the annotations @T and @M: { N }. The tuples are those headers of   *)
(* five bytes can express, plus the smallest header, of three.             *)
(***************************************************************************)
EXTENDS BejDecoder

Prop(seq, name, child) == [seq |-> seq, name |-> name, child |-> child, nameOk |-> TRUE]

MCNames ==
    {"", "Root", "S", "A", "E", "I", "X", "On", "Off", "Annotations", "@T",
     "@M", "N", "@"}

MCMainDict ==
    << Prop(0, "Root", 22),
       Prop(0, "S", 52), Prop(1, "A", 62), Prop(2, "E", 82),
       Prop(0, "I", 0),
       Prop(0, "", 72),
       Prop(0, "X", 0),
       Prop(0, "On", 0), Prop(1, "Off", 0) >>

MCAnnoDict ==
    << Prop(0, "Annotations", 22),
       Prop(0, "@T", 0), Prop(1, "@M", 42),
       Prop(0, "N", 0) >>

Tuple(type, schema, seq, len, nnint) ==
    [hdr |-> 5, schema |-> schema, seq |-> seq, ro |-> FALSE, type |-> type,
     len |-> len, nnint |-> nnint, nnSize |-> 2]

\* Lengths of sets that can hold one or two of the other tuples, exactly or not.
Sections(lens) ==
    {Tuple("Set", "Primary", 0, len, n) : len \in lens, n \in {0, 1}}
    \cup {Tuple("Array", "Primary", 1, len, n) : len \in lens, n \in {0, 1}}
    \cup {Tuple("Set", "Annotation", 1, len, 1) : len \in lens}

Annotations == {Tuple("PropertyAnnotation", "Primary", 0, len, 0) : len \in {5, 12}}

\* The long value is one whose end is not a uint32_t.
Leaves ==
    { Tuple("Integer", "Primary", 0, 0, 0),
      Tuple("String", "Primary", 0, 60, 0),
      [Tuple("Null", "Annotation", 0, 0, 0) EXCEPT !.ro = TRUE],
      [Tuple("Null", "Primary", 0, 0, 0) EXCEPT !.hdr = 3] }

NestTuples ==
    Sections({2, 7, 14}) \cup Annotations \cup Leaves
        \cup {Tuple("Set", "Primary", 0, len, 1) : len \in {12, 19, 21, 26}}

Block(len, policy) ==
    [notNull |-> TRUE, blockLength |-> len, versionSupported |-> TRUE,
     schemaClass |-> "Major", dictSizesOk |-> TRUE, policy |-> policy]

\* Two lengths of stream, and blocks refused before the stream is read.
NestBlocks ==
    {Block(7 + 19, "Error"), Block(7 + 26, "Ignore"), Block(7 + 4, "Warn"),
     Block(6, "Error"), [Block(7 + 19, "Error") EXCEPT !.notNull = FALSE],
     [Block(7 + 19, "Error") EXCEPT !.versionSupported = FALSE],
     [Block(7 + 19, "Error") EXCEPT !.dictSizesOk = FALSE]}
        \cup {[Block(7 + 19, "Error") EXCEPT !.schemaClass = c] :
                  c \in SchemaClasses \ {"Major", "Event"}}

\* Limits: streams of the smallest tuples, up to a few more than the limit on
\* operations allows, where every callback may fail and a section may end with
\* every tuple. One option of the enum exists, and one resource link is short.
Small(type, len) == [Tuple(type, "Primary", 0, len, 1) EXCEPT !.hdr = 3]

\* A count whose size takes the first tuple of a set past the largest uint32_t
\* of that instance and back to the beginning of the stream, but only in the
\* longest streams, as only there a real one does.
WideCounts ==
    {[Small("Set", len) EXCEPT !.nnSize = 12, !.nnint = n] : len \in {0, 2}, n \in {0, 1}}

LimitTuples ==
    {Small("PropertyAnnotation", len) : len \in {0, 3, 6, 9}}
        \cup {Small("Null", len) : len \in {0, 2}}
        \cup {[Small(type, len) EXCEPT !.nnSize = 0, !.nnint = n] :
                  type \in {"Set", "Array"}, len \in {0, 3, 6}, n \in {0, 1}}
        \cup {Small(type, len) : type \in {"Set", "Array"}, len \in {2, 5, 7}}
        \cup {Small("Integer", 0), [Small("Boolean", 0) EXCEPT !.ro = TRUE]}
        \cup {[Small("Enum", 2) EXCEPT !.nnint = n] : n \in {0, 1}}
        \cup {Small("ResourceLink", len) : len \in {1, 2}}
        \cup WideCounts
        \cup {Small("Set", 10)}

LimitBlocks == {Block(7 + len, "Ignore") : len \in {6, 8, 10, 12, 13}}

\* Lookups in it succeed at any depth.
LimitDict == << Prop(0, "Root", 12), Prop(0, "@", 22) >>
=============================================================================
