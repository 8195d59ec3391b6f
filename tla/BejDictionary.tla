--------------------------- MODULE BejDictionary ---------------------------
(***************************************************************************)
(* Lookups in a BEJ dictionary (src/bej_dictionary.c).                     *)
(*                                                                         *)
(* A dictionary is a header followed by a table of fixed-size property     *)
(* entries. The code names an entry by its byte offset, so offsets are     *)
(* kept here as the code computes them; a dictionary itself is a sequence  *)
(* of entries                                                              *)
(*                                                                         *)
(*   seq     sequenceNumber of the property among its siblings             *)
(*   name    its name, "" when nameLength is zero                          *)
(*   child   childPointerOffset, the offset of its first child             *)
(*   nameOk  whether nameOffset and nameLength pass                        *)
(*           bejValidatePropertyNameLength                                 *)
(*                                                                         *)
(* A family of siblings is a run of consecutive entries. The code does not *)
(* use an entry's child count: a lookup reads from a starting offset to    *)
(* the end of the table, and so do the operators below.                    *)
(***************************************************************************)
EXTENDS Integers, Sequences

CONSTANTS
    Names,          \* the names of properties
    MainDict,       \* the schema dictionary
    AnnoDict        \* the annotation dictionary

\* A property may have no name, as the elements of an array do.
ASSUME NameAssumption == "" \in Names

\* sizeof(struct BejDictionaryHeader) and sizeof(struct BejDictionaryProperty).
HeaderSize == 12
PropertySize == 10

\* A property offset is a uint16_t in the dictionary and in the code.
UInt16 == 0 .. 65535
PropertyOffsets == UInt16

DictionaryEntry ==
    [seq: UInt16, name: Names, child: PropertyOffsets, nameOk: BOOLEAN]

\* Every entry of the table has an offset that fits in 16 bits.
MaxEntries == (65536 - HeaderSize) \div PropertySize

ASSUME DictionariesAssumption ==
    /\ MainDict \in Seq(DictionaryEntry) /\ Len(MainDict) <= MaxEntries
    /\ AnnoDict \in Seq(DictionaryEntry) /\ Len(AnnoDict) <= MaxEntries

\* The dictionary a sequence number belongs to is one bit of it, so the third
\* case of the code cannot happen.
SchemaTypes == {"Primary", "Annotation"}

DictionaryOf(schema) == IF schema = "Primary" THEN MainDict ELSE AnnoDict

bejDictGetPropertyHeadOffset == HeaderSize

bejDictGetFirstAnnotatedPropertyOffset == HeaderSize + PropertySize

bejGetPropertyEntryIndex(offset) ==
    (offset - bejDictGetPropertyHeadOffset) \div PropertySize

bejValidatePropertyOffset(dict, offset) ==
    /\ offset >= bejDictGetPropertyHeadOffset
    /\ (offset - bejDictGetPropertyHeadOffset) % PropertySize = 0
    /\ bejGetPropertyEntryIndex(offset) < Len(dict)

\* The scan both lookups share: the first position, from the one a valid
\* starting offset names to the end of the table, that is in wanted.
FirstMatch(dict, start, wanted) ==
    LET from == bejGetPropertyEntryIndex(start) + 1
    IN  CHOOSE i \in from .. Len(dict) :
            /\ i \in wanted
            /\ \A j \in from .. i - 1 : j \notin wanted

HasMatch(dict, start, wanted) ==
    \E i \in bejGetPropertyEntryIndex(start) + 1 .. Len(dict) : i \in wanted

\* The status of a lookup by sequence number and the property it returns.
WithSeq(dict, seq) == {i \in DOMAIN dict : dict[i].seq = seq}

bejDictGetProperty(dict, start, seq) ==
    CASE ~bejValidatePropertyOffset(dict, start) -> "InvalidPropertyOffset"
      [] /\ bejValidatePropertyOffset(dict, start)
         /\ ~HasMatch(dict, start, WithSeq(dict, seq)) -> "UnknownProperty"
      [] OTHER ->
            IF dict[FirstMatch(dict, start, WithSeq(dict, seq))].nameOk
            THEN "OK" ELSE "InvalidSize"

\* *property after a lookup that returned "OK".
PropertyFound(dict, start, seq) == dict[FirstMatch(dict, start, WithSeq(dict, seq))]

\* The same by name. Unlike the other lookup it does not check the name it finds.
Named(dict, name) == {i \in DOMAIN dict : dict[i].name = name}

bejDictGetPropertyByName(dict, start, name) ==
    CASE ~bejValidatePropertyOffset(dict, start) -> "InvalidPropertyOffset"
      [] /\ bejValidatePropertyOffset(dict, start)
         /\ ~HasMatch(dict, start, Named(dict, name)) -> "UnknownProperty"
      [] OTHER -> "OK"

PropertyNamed(dict, start, name) == dict[FirstMatch(dict, start, Named(dict, name))]

\* The name a property is written with.
bejDictGetPropertyName(property) == property.name

=============================================================================
