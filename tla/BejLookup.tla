----------------------------- MODULE BejLookup -----------------------------
(***************************************************************************)
(* One call of bejDictGetProperty or bejDictGetPropertyByName, turn by     *)
(* turn of its loop (src/bej_dictionary.c). BejDictionary says which entry *)
(* a lookup ends at; the code counts entries with an index, and finds the  *)
(* bytes of each with an offset of its own, a uint16_t, of which nothing   *)
(* but the number of turns says that it is inside of the table.            *)
(***************************************************************************)
EXTENDS BejDictionary

CONSTANTS
    Tables,         \* the dictionaries a caller may look in
    Keys,           \* and what it may look for
    OffsetRange,    \* one more than the largest offset: 2^16
    Elsewhere       \* the entries that bytes which are not one may look like

\* A property is looked for by its number or by its name.
KeyType == [by: {"seq", "name"}, seq: UInt16, name: Names]

ASSUME LookupAssumption ==
    /\ Tables \subseteq Seq(DictionaryEntry)
    /\ Keys \subseteq KeyType
    /\ OffsetRange \in Nat \ {0}
    /\ Elsewhere \subseteq DictionaryEntry

VARIABLE lookup     \* the arguments and the locals of the call

Running == {"called", "scanning"}

LookupStatuses == {"OK", "InvalidPropertyOffset", "UnknownProperty", "InvalidSize"}

LookupStates ==
    [dict: Seq(DictionaryEntry), start: Nat, key: KeyType,
     index: Nat, offset: Nat, status: Running \cup LookupStatuses]

EntryOffset(i) == HeaderSize + PropertySize * (i - 1)

\* What is read at an offset: an entry if there is one.
EntriesAt(dict, offset) ==
    LET here == {i \in DOMAIN dict : EntryOffset(i) = offset}
    IN  IF here = {} THEN Elsewhere ELSE {dict[i] : i \in here}

Matches(entry, key) ==
    IF key.by = "seq" THEN entry.seq = key.seq ELSE entry.name = key.name

\* Only a lookup by number looks at whether the name can be read.
FoundStatus(entry, key) ==
    IF key.by = "seq" /\ ~entry.nameOk THEN "InvalidSize" ELSE "OK"

\* Bug: the scan begins at the first entry but reads from the starting offset.
ValidateFromFirst ==
    /\ lookup.status = "called"
    /\ lookup' = IF bejValidatePropertyOffset(lookup.dict, lookup.start)
                 THEN [lookup EXCEPT !.status = "scanning", !.index = 0]
                 ELSE [lookup EXCEPT !.status = "InvalidPropertyOffset"]

Validate ==
    /\ lookup.status = "called"
    /\ lookup' = IF bejValidatePropertyOffset(lookup.dict, lookup.start)
                 THEN [lookup EXCEPT !.status = "scanning",
                                     !.index = bejGetPropertyEntryIndex(lookup.start)]
                 ELSE [lookup EXCEPT !.status = "InvalidPropertyOffset"]

\* A turn of the loop.
Examine ==
    /\ lookup.status = "scanning" /\ lookup.index < Len(lookup.dict)
    /\ \E entry \in EntriesAt(lookup.dict, lookup.offset) :
          lookup' = IF Matches(entry, lookup.key)
                    THEN [lookup EXCEPT !.status = FoundStatus(entry, lookup.key)]
                    ELSE [lookup EXCEPT !.index = lookup.index + 1,
                                        !.offset = (lookup.offset + PropertySize) % OffsetRange]

Exhaust ==
    /\ lookup.status = "scanning" /\ lookup.index >= Len(lookup.dict)
    /\ lookup' = [lookup EXCEPT !.status = "UnknownProperty"]

LookupInit ==
    \E dict \in Tables, start \in 0 .. OffsetRange - 1, key \in Keys :
        lookup = [dict |-> dict, start |-> start, key |-> key,
                  index |-> 0, offset |-> start, status |-> "called"]

LookupNext == Validate \/ Examine \/ Exhaust

LookupSpec == LookupInit /\ [][LookupNext]_lookup

-----------------------------------------------------------------------------
(* Properties. *)

Wanted(l) ==
    IF l.key.by = "seq" THEN WithSeq(l.dict, l.key.seq) ELSE Named(l.dict, l.key.name)

Promised(l) ==
    IF l.key.by = "seq" THEN bejDictGetProperty(l.dict, l.start, l.key.seq)
    ELSE bejDictGetPropertyByName(l.dict, l.start, l.key.name)

\* The last entry the loop has to look at.
LastExamined(l) ==
    IF HasMatch(l.dict, l.start, Wanted(l)) THEN FirstMatch(l.dict, l.start, Wanted(l))
    ELSE Len(l.dict)

\* The loop returns what BejDictionary says, and *propertyOffset is the offset
\* of the entry it says it of, if the offset of the last entry it has to look at
\* is one its 16 bits hold: also when the offset behind that entry is none, and
\* whatever there is in the table behind it.
LookupIsFirstMatch ==
    lookup.status \notin Running
        /\ (bejValidatePropertyOffset(lookup.dict, lookup.start) =>
               EntryOffset(LastExamined(lookup)) < OffsetRange)
        => /\ lookup.status = Promised(lookup)
           /\ lookup.status = "OK" => lookup.offset = EntryOffset(LastExamined(lookup))

=============================================================================
