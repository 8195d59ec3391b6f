------------------------- MODULE BejDictionaryProofs ------------------------
(***************************************************************************)
(* What a lookup in a dictionary returns (BejDictionary), for every        *)
(* dictionary, starting offset and sequence number, and that the loop of   *)
(* the code (BejLookup) returns it.                                        *)
(***************************************************************************)
EXTENDS BejLookup, BejInduction, SequenceTheorems

\* A lookup returns one of four statuses.
LEMMA LookupStatus ==
    ASSUME NEW dict, NEW start, NEW seq
    PROVE  bejDictGetProperty(dict, start, seq) \in
               {"OK", "InvalidPropertyOffset", "UnknownProperty", "InvalidSize"}
BY DEF bejDictGetProperty

\* A scan that has a match stops at the first one.
LEMMA FirstMatchFound ==
    ASSUME NEW dict \in Seq(DictionaryEntry), NEW start \in Int, NEW wanted,
           bejValidatePropertyOffset(dict, start),
           HasMatch(dict, start, wanted)
    PROVE  LET from == bejGetPropertyEntryIndex(start) + 1
               i == FirstMatch(dict, start, wanted)
           IN  /\ i \in from .. Len(dict)
               /\ i \in DOMAIN dict
               /\ i \in wanted
               /\ \A j \in from .. i - 1 : j \notin wanted
<1> DEFINE from == bejGetPropertyEntryIndex(start) + 1
           T == {i \in from .. Len(dict) : i \in wanted}
<1>1. from \in Nat /\ from >= 1
    BY DEF bejValidatePropertyOffset, bejGetPropertyEntryIndex,
           bejDictGetPropertyHeadOffset, HeaderSize, PropertySize
<1>2. T \in SUBSET Nat /\ T # {}
    BY <1>1 DEF HasMatch
<1>3. PICK x \in T : \A y \in T : x <= y
    BY <1>2, LeastNatural
<1>4. /\ x \in from .. Len(dict)
      /\ x \in wanted
      /\ \A j \in from .. x - 1 : j \notin wanted
    <2>1. Len(dict) \in Nat
        OBVIOUS
    <2>2. ASSUME NEW j \in from .. x - 1, j \in wanted PROVE FALSE
        <3>1. j \in from .. Len(dict) /\ j < x
            BY <1>1, <1>3, <2>1
        <3> QED BY <1>3, <2>2, <3>1
    <2> QED BY <1>3, <2>2
<1>5. /\ FirstMatch(dict, start, wanted) \in from .. Len(dict)
      /\ FirstMatch(dict, start, wanted) \in wanted
      /\ \A j \in from .. FirstMatch(dict, start, wanted) - 1 : j \notin wanted
    BY <1>4 DEF FirstMatch
<1>6. from .. Len(dict) \subseteq DOMAIN dict
    BY <1>1
<1> QED BY <1>5, <1>6

\* A successful lookup returns the first entry with the sequence number, from
\* the starting offset on, and an entry whose name can be read (lines 111-144).
LEMMA LookupReturnsFirst ==
    ASSUME NEW dict \in Seq(DictionaryEntry), NEW start \in Int, NEW seq,
           bejDictGetProperty(dict, start, seq) = "OK"
    PROVE  /\ PropertyFound(dict, start, seq) \in DictionaryEntry
           /\ PropertyFound(dict, start, seq).seq = seq
           /\ PropertyFound(dict, start, seq).nameOk
           /\ \E i \in DOMAIN dict :
                 /\ i > bejGetPropertyEntryIndex(start)
                 /\ PropertyFound(dict, start, seq) = dict[i]
                 /\ \A j \in bejGetPropertyEntryIndex(start) + 1 .. i - 1 :
                       dict[j].seq # seq
<1> DEFINE wanted == WithSeq(dict, seq)
           i == FirstMatch(dict, start, wanted)
<1>1. /\ bejValidatePropertyOffset(dict, start)
      /\ HasMatch(dict, start, wanted)
      /\ dict[i].nameOk
    BY DEF bejDictGetProperty
<1>2. /\ i \in bejGetPropertyEntryIndex(start) + 1 .. Len(dict)
      /\ i \in DOMAIN dict
      /\ i \in wanted
      /\ \A j \in bejGetPropertyEntryIndex(start) + 1 .. i - 1 : j \notin wanted
    <2> HIDE DEF wanted
    <2> QED BY <1>1, FirstMatchFound
<1>3. PropertyFound(dict, start, seq) = dict[i]
    BY DEF PropertyFound
<1>4. dict[i] \in DictionaryEntry /\ dict[i].seq = seq
    BY <1>2, ElementOfSeq DEF WithSeq
<1>5. bejGetPropertyEntryIndex(start) \in Nat
    BY <1>1 DEF bejValidatePropertyOffset, bejGetPropertyEntryIndex,
           bejDictGetPropertyHeadOffset, HeaderSize, PropertySize
<1>6. ASSUME NEW j \in bejGetPropertyEntryIndex(start) + 1 .. i - 1
      PROVE  dict[j].seq # seq
    <2> HIDE DEF i
    <2>1. j \in DOMAIN dict
        BY <1>2, <1>5
    <2> QED BY <1>2, <2>1 DEF WithSeq
<1>7. i > bejGetPropertyEntryIndex(start)
    <2> HIDE DEF i
    <2> QED BY <1>2, <1>5
<1> QED
    <2> HIDE DEF i
    <2> QED BY <1>1, <1>2, <1>3, <1>4, <1>6, <1>7

\* A lookup by name returns one of three statuses, and when it is successful
\* the first entry of that name from the starting offset on (lines 156-193).
LEMMA LookupByNameReturnsFirst ==
    ASSUME NEW dict \in Seq(DictionaryEntry), NEW start \in Int, NEW name
    PROVE  /\ bejDictGetPropertyByName(dict, start, name) \in
                  {"OK", "InvalidPropertyOffset", "UnknownProperty"}
           /\ bejDictGetPropertyByName(dict, start, name) = "OK" =>
                 /\ PropertyNamed(dict, start, name) \in DictionaryEntry
                 /\ PropertyNamed(dict, start, name).name = name
                 /\ \E i \in DOMAIN dict :
                       /\ i > bejGetPropertyEntryIndex(start)
                       /\ PropertyNamed(dict, start, name) = dict[i]
                       /\ \A j \in bejGetPropertyEntryIndex(start) + 1 .. i - 1 :
                             dict[j].name # name
<1> DEFINE wanted == Named(dict, name)
           i == FirstMatch(dict, start, wanted)
<1>1. bejDictGetPropertyByName(dict, start, name) \in
          {"OK", "InvalidPropertyOffset", "UnknownProperty"}
    BY DEF bejDictGetPropertyByName
<1> SUFFICES ASSUME bejDictGetPropertyByName(dict, start, name) = "OK"
             PROVE  /\ PropertyNamed(dict, start, name) \in DictionaryEntry
                    /\ PropertyNamed(dict, start, name).name = name
                    /\ \E k \in DOMAIN dict :
                          /\ k > bejGetPropertyEntryIndex(start)
                          /\ PropertyNamed(dict, start, name) = dict[k]
                          /\ \A j \in bejGetPropertyEntryIndex(start) + 1 .. k - 1 :
                                dict[j].name # name
    BY <1>1
<1>2. /\ bejValidatePropertyOffset(dict, start)
      /\ HasMatch(dict, start, wanted)
    BY DEF bejDictGetPropertyByName
<1>3. /\ i \in bejGetPropertyEntryIndex(start) + 1 .. Len(dict)
      /\ i \in DOMAIN dict
      /\ i \in wanted
      /\ \A j \in bejGetPropertyEntryIndex(start) + 1 .. i - 1 : j \notin wanted
    <2> HIDE DEF wanted
    <2> QED BY <1>2, FirstMatchFound
<1>4. PropertyNamed(dict, start, name) = dict[i]
    BY DEF PropertyNamed
<1>5. dict[i] \in DictionaryEntry /\ dict[i].name = name
    BY <1>3, ElementOfSeq DEF Named
<1>6. bejGetPropertyEntryIndex(start) \in Nat
    BY <1>2 DEF bejValidatePropertyOffset, bejGetPropertyEntryIndex,
           bejDictGetPropertyHeadOffset, HeaderSize, PropertySize
<1>7. ASSUME NEW j \in bejGetPropertyEntryIndex(start) + 1 .. i - 1
      PROVE  dict[j].name # name
    <2> HIDE DEF i
    <2>1. j \in DOMAIN dict
        BY <1>3, <1>6
    <2> QED BY <1>3, <2>1 DEF Named
<1>8. i > bejGetPropertyEntryIndex(start)
    <2> HIDE DEF i
    <2> QED BY <1>3, <1>6
<1> QED
    <2> HIDE DEF i
    <2> QED BY <1>3, <1>4, <1>5, <1>7, <1>8

-----------------------------------------------------------------------------
(* The loop of the lookups.                                                  *)

StartIndex(l) == bejGetPropertyEntryIndex(l.start)

\* None of the entries behind the loop is wanted, of those it can have read, and
\* the offset is the one of the next entry, if that has one.
LookupInv ==
    /\ lookup \in LookupStates
    /\ lookup.status = "called" => lookup.offset = lookup.start
    /\ lookup.status = "scanning" =>
          /\ bejValidatePropertyOffset(lookup.dict, lookup.start)
          /\ lookup.index \in StartIndex(lookup) .. Len(lookup.dict)
          /\ \A j \in StartIndex(lookup) + 1 .. lookup.index :
                EntryOffset(j) < OffsetRange => j \notin Wanted(lookup)
          /\ EntryOffset(lookup.index + 1) < OffsetRange =>
                lookup.offset = EntryOffset(lookup.index + 1)
    /\ LookupIsFirstMatch

LEMMA ValidStart ==
    ASSUME NEW dict \in Seq(DictionaryEntry), NEW start \in Nat,
           bejValidatePropertyOffset(dict, start)
    PROVE  LET first == bejGetPropertyEntryIndex(start)
           IN  first \in Nat /\ first < Len(dict) /\ EntryOffset(first + 1) = start
BY DEF bejValidatePropertyOffset, bejGetPropertyEntryIndex, bejDictGetPropertyHeadOffset,
       HeaderSize, PropertySize, EntryOffset

\* At the offset of an entry that entry is read.
LEMMA EntryIsRead ==
    ASSUME NEW dict \in Seq(DictionaryEntry), NEW i \in DOMAIN dict
    PROVE  EntriesAt(dict, EntryOffset(i)) = {dict[i]}
<1>1. \A j \in DOMAIN dict : EntryOffset(j) = EntryOffset(i) => j = i
    BY DEF EntryOffset, HeaderSize, PropertySize
<1>2. {j \in DOMAIN dict : EntryOffset(j) = EntryOffset(i)} = {i}
    BY <1>1
<1>3. {dict[j] : j \in {i}} = {dict[i]} /\ {i} # {}
    OBVIOUS
<1> QED BY <1>2, <1>3 DEF EntriesAt

LEMMA WantedMatches ==
    ASSUME NEW l \in LookupStates, NEW i \in DOMAIN l.dict
    PROVE  i \in Wanted(l) <=> Matches(l.dict[i], l.key)
BY DEF Wanted, Matches, WithSeq, Named

\* What is promised of a lookup that has to look at entry i and finds it.
LEMMA PromisedFound ==
    ASSUME NEW l \in LookupStates, bejValidatePropertyOffset(l.dict, l.start),
           HasMatch(l.dict, l.start, Wanted(l))
    PROVE  /\ LastExamined(l) \in StartIndex(l) + 1 .. Len(l.dict)
           /\ LastExamined(l) \in Wanted(l) /\ LastExamined(l) \in DOMAIN l.dict
           /\ \A j \in StartIndex(l) + 1 .. LastExamined(l) - 1 : j \notin Wanted(l)
           /\ Promised(l) = FoundStatus(l.dict[LastExamined(l)], l.key)
<1>1. l.dict \in Seq(DictionaryEntry) /\ l.start \in Int
    BY DEF LookupStates
<1>2. LastExamined(l) = FirstMatch(l.dict, l.start, Wanted(l))
    BY DEF LastExamined
<1>3. Promised(l) = FoundStatus(l.dict[LastExamined(l)], l.key)
    BY <1>2 DEF Promised, Wanted, FoundStatus, bejDictGetProperty, bejDictGetPropertyByName
<1>4. PICK w : w = Wanted(l)
    OBVIOUS
<1>5. LET i == FirstMatch(l.dict, l.start, w)
      IN  /\ i \in bejGetPropertyEntryIndex(l.start) + 1 .. Len(l.dict)
          /\ i \in DOMAIN l.dict /\ i \in w
          /\ \A j \in bejGetPropertyEntryIndex(l.start) + 1 .. i - 1 : j \notin w
    BY <1>1, <1>4, FirstMatchFound
<1> QED BY <1>2, <1>3, <1>4, <1>5 DEF StartIndex

LEMMA PromisedMissing ==
    ASSUME NEW l \in LookupStates, bejValidatePropertyOffset(l.dict, l.start),
           ~HasMatch(l.dict, l.start, Wanted(l))
    PROVE  /\ Promised(l) = "UnknownProperty" /\ LastExamined(l) = Len(l.dict)
           /\ \A j \in StartIndex(l) + 1 .. Len(l.dict) : j \notin Wanted(l)
BY DEF Promised, Wanted, LastExamined, HasMatch, StartIndex, bejDictGetProperty,
       bejDictGetPropertyByName

LEMMA EntryOffsets ==
    ASSUME NEW i \in Int, NEW j \in Int
    PROVE  /\ EntryOffset(i) \in Int
           /\ EntryOffset(i + 1) = EntryOffset(i) + PropertySize
           /\ i <= j <=> EntryOffset(i) <= EntryOffset(j)
           /\ i >= 1 => EntryOffset(i) \in Nat
BY DEF EntryOffset, HeaderSize, PropertySize

\* A turn that finds something finds what is promised, unless it reads behind
\* the last offset.
LEMMA TurnFinds ==
    ASSUME NEW l \in LookupStates, bejValidatePropertyOffset(l.dict, l.start),
           l.index \in StartIndex(l) .. Len(l.dict), l.index < Len(l.dict),
           \A j \in StartIndex(l) + 1 .. l.index : EntryOffset(j) < OffsetRange => j \notin Wanted(l),
           EntryOffset(l.index + 1) < OffsetRange => l.offset = EntryOffset(l.index + 1),
           EntryOffset(LastExamined(l)) < OffsetRange,
           NEW entry \in EntriesAt(l.dict, l.offset), Matches(entry, l.key)
    PROVE  Promised(l) = FoundStatus(entry, l.key) /\ l.offset = EntryOffset(LastExamined(l))
<1>0. /\ l.dict \in Seq(DictionaryEntry) /\ l.start \in Nat /\ l.index \in Nat
      /\ Len(l.dict) \in Nat
    BY DEF LookupStates
<1> OffsetRange \in Nat
    BY LookupAssumption
<1>1. PICK i, last, first : i = l.index + 1 /\ last = LastExamined(l) /\ first = StartIndex(l)
    OBVIOUS
<1>2. first \in Nat /\ i \in DOMAIN l.dict /\ i \in first + 1 .. Len(l.dict)
    <2>1. first \in Nat
        BY <1>0, <1>1, ValidStart DEF StartIndex
    <2> QED BY <1>0, <1>1, <2>1
<1>3. ASSUME EntryOffset(i) < OffsetRange
      PROVE  l.offset = EntryOffset(i) /\ entry = l.dict[i] /\ i \in Wanted(l)
    <2>1. l.offset = EntryOffset(i)
        BY <1>1, <1>3
    <2>2. entry = l.dict[i]
        BY <1>0, <1>2, <2>1, EntryIsRead
    <2> QED BY <1>2, <2>1, <2>2, WantedMatches
<1>4. CASE HasMatch(l.dict, l.start, Wanted(l))
    <2>1. /\ last \in first + 1 .. Len(l.dict) /\ last \in Wanted(l)
          /\ \A j \in first + 1 .. last - 1 : j \notin Wanted(l)
          /\ Promised(l) = FoundStatus(l.dict[last], l.key)
        BY <1>1, <1>4, PromisedFound
    <2>2. i <= last
        <3>1. last \notin first + 1 .. l.index
            BY <1>1, <2>1
        <3> QED BY <1>0, <1>1, <1>2, <2>1, <3>1
    <2>3. EntryOffset(i) < OffsetRange
        <3>1. EntryOffset(i) <= EntryOffset(last) /\ EntryOffset(i) \in Int /\ EntryOffset(last) \in Int
            BY <1>2, <2>1, <2>2, EntryOffsets
        <3> QED BY <1>1, <3>1
    <2>4. i = last
        BY <1>2, <1>3, <2>1, <2>2, <2>3
    <2> QED BY <1>1, <1>3, <2>1, <2>3, <2>4
<1>5. CASE ~HasMatch(l.dict, l.start, Wanted(l))
    <2>1. /\ last = Len(l.dict)
          /\ \A j \in first + 1 .. Len(l.dict) : j \notin Wanted(l)
        BY <1>1, <1>5, PromisedMissing
    <2>2. EntryOffset(i) < OffsetRange
        <3>1. EntryOffset(i) <= EntryOffset(last) /\ EntryOffset(i) \in Int /\ EntryOffset(last) \in Int
            <4>1. last \in Int /\ i \in Int /\ i <= last
                BY <1>0, <1>2, <2>1
            <4> QED BY <4>1, EntryOffsets
        <3> QED BY <1>1, <3>1
    <2> QED BY <1>2, <1>3, <2>1, <2>2
<1> QED BY <1>4, <1>5

LEMMA ValidateKeeps ==
    ASSUME LookupInv, Validate
    PROVE  LookupInv'
<1>1. lookup \in LookupStates /\ lookup.status = "called" /\ lookup.offset = lookup.start
    BY DEF LookupInv, Validate
<1>2. CASE bejValidatePropertyOffset(lookup.dict, lookup.start)
    <2>1. PICK first : first = bejGetPropertyEntryIndex(lookup.start)
        OBVIOUS
    <2>2. first \in Nat /\ first < Len(lookup.dict) /\ EntryOffset(first + 1) = lookup.start
        BY <1>1, <1>2, <2>1, ValidStart DEF LookupStates
    <2>3. lookup' = [lookup EXCEPT !.status = "scanning", !.index = first]
        BY <1>2, <2>1 DEF Validate
    <2>4. /\ lookup' \in LookupStates /\ lookup'.status = "scanning" /\ lookup'.index = first
          /\ lookup'.dict = lookup.dict /\ lookup'.start = lookup.start
          /\ lookup'.offset = lookup.offset
        BY <1>1, <2>2, <2>3 DEF LookupStates, Running
    <2>5. first \in first .. Len(lookup.dict) /\ first + 1 .. first = {}
        <3>1. Len(lookup.dict) \in Nat
            BY <1>1 DEF LookupStates
        <3> QED BY <2>2, <3>1
    <2>6. LookupIsFirstMatch'
        BY <2>4 DEF LookupIsFirstMatch, Running
    <2>7. StartIndex(lookup') = first
        BY <2>1, <2>4 DEF StartIndex
    <2> QED BY <1>1, <1>2, <2>2, <2>4, <2>5, <2>6, <2>7 DEF LookupInv
<1>3. CASE ~bejValidatePropertyOffset(lookup.dict, lookup.start)
    <2>1. lookup' = [lookup EXCEPT !.status = "InvalidPropertyOffset"]
        BY <1>3 DEF Validate
    <2>2. /\ lookup' \in LookupStates /\ lookup'.status = "InvalidPropertyOffset"
          /\ lookup'.dict = lookup.dict /\ lookup'.start = lookup.start
          /\ lookup'.key = lookup.key
        BY <1>1, <2>1 DEF LookupStates, LookupStatuses
    <2>3. Promised(lookup') = "InvalidPropertyOffset"
        BY <1>3, <2>2 DEF Promised, bejDictGetProperty, bejDictGetPropertyByName
    <2>4. LookupIsFirstMatch'
        BY <2>2, <2>3 DEF LookupIsFirstMatch
    <2> QED BY <2>2, <2>4 DEF LookupInv
<1> QED BY <1>2, <1>3

LEMMA ExamineKeeps ==
    ASSUME LookupInv, Examine
    PROVE  LookupInv'
<1>1. PICK l : l = lookup
    OBVIOUS
<1>2. /\ l \in LookupStates /\ l.status = "scanning" /\ l.index < Len(l.dict)
      /\ bejValidatePropertyOffset(l.dict, l.start)
      /\ l.index \in StartIndex(l) .. Len(l.dict)
      /\ \A j \in StartIndex(l) + 1 .. l.index : EntryOffset(j) < OffsetRange => j \notin Wanted(l)
      /\ EntryOffset(l.index + 1) < OffsetRange => l.offset = EntryOffset(l.index + 1)
    BY <1>1 DEF LookupInv, Examine
<1>3. /\ l.dict \in Seq(DictionaryEntry) /\ l.start \in Nat /\ l.index \in Nat
      /\ Len(l.dict) \in Nat /\ l.offset \in Nat /\ OffsetRange \in Nat
    BY <1>2, LookupAssumption DEF LookupStates
<1>4. PICK entry \in EntriesAt(l.dict, l.offset) :
          lookup' = IF Matches(entry, l.key)
                    THEN [l EXCEPT !.status = FoundStatus(entry, l.key)]
                    ELSE [l EXCEPT !.index = l.index + 1,
                                   !.offset = (l.offset + PropertySize) % OffsetRange]
    BY <1>1 DEF Examine
<1>5. CASE Matches(entry, l.key)
    <2>1. PICK found : found = FoundStatus(entry, l.key)
        OBVIOUS
    <2>2. found \in {"OK", "InvalidSize"}
        BY <2>1 DEF FoundStatus
    <2>3. lookup' = [l EXCEPT !.status = found]
        BY <1>4, <1>5, <2>1
    <2>4. /\ lookup' \in LookupStates /\ lookup'.status = found /\ lookup'.dict = l.dict
          /\ lookup'.start = l.start /\ lookup'.key = l.key /\ lookup'.offset = l.offset
        BY <1>2, <2>2, <2>3 DEF LookupStates, LookupStatuses
    <2>5. /\ Promised(lookup') = Promised(l) /\ LastExamined(lookup') = LastExamined(l)
        BY <2>4 DEF Promised, LastExamined, Wanted
    <2>6. ASSUME EntryOffset(LastExamined(l)) < OffsetRange
          PROVE  Promised(l) = found /\ l.offset = EntryOffset(LastExamined(l))
        BY <1>2, <1>3, <1>5, <2>1, <2>6, TurnFinds
    <2>7. LookupIsFirstMatch'
        BY <1>2, <2>4, <2>5, <2>6 DEF LookupIsFirstMatch
    <2> QED BY <2>2, <2>4, <2>7 DEF LookupInv
<1>6. CASE ~Matches(entry, l.key)
    <2>1. PICK i, o : i = l.index + 1 /\ o = (l.offset + PropertySize) % OffsetRange
        OBVIOUS
    <2>2. lookup' = [l EXCEPT !.index = i, !.offset = o]
        BY <1>4, <1>6, <2>1
    <2>3. i \in Nat /\ o \in Nat
        <3>1. l.offset + PropertySize \in Nat
            BY <1>3 DEF PropertySize
        <3> QED BY <1>3, <2>1, <3>1, LookupAssumption
    <2>4. /\ lookup' \in LookupStates /\ lookup'.status = "scanning" /\ lookup'.index = i
          /\ lookup'.dict = l.dict /\ lookup'.start = l.start /\ lookup'.key = l.key
          /\ lookup'.offset = o
        BY <1>2, <2>2, <2>3 DEF LookupStates
    <2>5. Wanted(lookup') = Wanted(l) /\ StartIndex(lookup') = StartIndex(l)
        BY <2>4 DEF Wanted, StartIndex
    <2>6. StartIndex(l) \in Nat
        BY <1>2, <1>3, ValidStart DEF StartIndex
    <2>7. i \in StartIndex(l) .. Len(l.dict)
        BY <1>2, <1>3, <2>1, <2>6
    <2>8. EntryOffset(i) < OffsetRange => i \notin Wanted(l)
        <3> SUFFICES ASSUME EntryOffset(i) < OffsetRange PROVE i \notin Wanted(l)
            OBVIOUS
        <3>1. i \in DOMAIN l.dict
            BY <1>2, <1>3, <2>1
        <3>2. entry = l.dict[i]
            BY <1>2, <1>3, <1>4, <2>1, <3>1, EntryIsRead
        <3> QED BY <1>2, <1>6, <3>1, <3>2, WantedMatches
    <2>9. \A j \in StartIndex(l) + 1 .. i : EntryOffset(j) < OffsetRange => j \notin Wanted(l)
        <3> SUFFICES ASSUME NEW j \in StartIndex(l) + 1 .. i, EntryOffset(j) < OffsetRange
                     PROVE  j \notin Wanted(l)
            OBVIOUS
        <3>1. j = i \/ j \in StartIndex(l) + 1 .. l.index
            BY <1>3, <2>1, <2>6
        <3> QED BY <1>2, <2>8, <3>1
    <2>10. EntryOffset(i + 1) < OffsetRange => o = EntryOffset(i + 1)
        <3> SUFFICES ASSUME EntryOffset(i + 1) < OffsetRange PROVE o = EntryOffset(i + 1)
            OBVIOUS
        <3>1. PICK e, n : e = EntryOffset(i) /\ n = EntryOffset(i + 1)
            OBVIOUS
        <3>2. e \in Int /\ n = e + 10 /\ n < OffsetRange
            BY <2>3, <3>1, EntryOffsets DEF PropertySize
        <3>3. l.offset = e
            BY <1>2, <1>3, <2>1, <3>1, <3>2
        <3>4. (l.offset + 10) % OffsetRange = l.offset + 10
            BY <1>3, <3>2, <3>3
        <3> QED BY <2>1, <3>1, <3>2, <3>3, <3>4 DEF PropertySize
    <2>11. LookupIsFirstMatch'
        BY <2>4 DEF LookupIsFirstMatch, Running
    <2> QED BY <1>2, <2>4, <2>5, <2>7, <2>9, <2>10, <2>11 DEF LookupInv
<1> QED BY <1>4, <1>5, <1>6

LEMMA ExhaustKeeps ==
    ASSUME LookupInv, Exhaust
    PROVE  LookupInv'
<1>1. PICK l : l = lookup
    OBVIOUS
<1>2. /\ l \in LookupStates /\ bejValidatePropertyOffset(l.dict, l.start)
      /\ l.index \in StartIndex(l) .. Len(l.dict) /\ l.index >= Len(l.dict)
      /\ \A j \in StartIndex(l) + 1 .. l.index :
            EntryOffset(j) < OffsetRange => j \notin Wanted(l)
    BY <1>1 DEF LookupInv, Exhaust
<1>3. /\ l.dict \in Seq(DictionaryEntry) /\ l.start \in Nat /\ Len(l.dict) \in Nat
      /\ l.index \in Nat
    BY <1>2 DEF LookupStates
<1>4. l.index = Len(l.dict)
    <2>1. StartIndex(l) \in Nat
        BY <1>2, <1>3, ValidStart DEF StartIndex
    <2> QED BY <1>2, <1>3, <2>1
<1>5. lookup' = [l EXCEPT !.status = "UnknownProperty"]
    BY <1>1 DEF Exhaust
<1>6. /\ lookup' \in LookupStates /\ lookup'.status = "UnknownProperty"
      /\ lookup'.dict = l.dict /\ lookup'.start = l.start /\ lookup'.key = l.key
    BY <1>2, <1>5 DEF LookupStates, LookupStatuses
<1>7. Promised(lookup') = Promised(l) /\ LastExamined(lookup') = LastExamined(l)
    BY <1>6 DEF Promised, LastExamined, Wanted
<1>8. ASSUME EntryOffset(LastExamined(l)) < OffsetRange
      PROVE  Promised(l) = "UnknownProperty"
    <2>1. CASE HasMatch(l.dict, l.start, Wanted(l))
        <3>1. /\ LastExamined(l) \in StartIndex(l) + 1 .. Len(l.dict)
              /\ LastExamined(l) \in Wanted(l)
            BY <1>2, <2>1, PromisedFound
        <3> QED BY <1>2, <1>4, <1>8, <3>1
    <2>2. CASE ~HasMatch(l.dict, l.start, Wanted(l))
        BY <1>2, <2>2, PromisedMissing
    <2> QED BY <2>1, <2>2
<1>9. LookupIsFirstMatch'
    BY <1>2, <1>6, <1>7, <1>8 DEF LookupIsFirstMatch
<1> QED BY <1>6, <1>9 DEF LookupInv

\* The loops of bejDictGetProperty and bejDictGetPropertyByName return what the
\* operators of BejDictionary say, which all the models of this project look
\* properties up with, as far as 16 bits reach: in a table of any length, up to
\* the last entry that has an offset (lines 125-145 and 174-193).
THEOREM LookupIsFirstMatchHolds == LookupSpec => []LookupIsFirstMatch
<1>1. LookupInit => LookupInv
    <2> SUFFICES ASSUME LookupInit PROVE LookupInv
        OBVIOUS
    <2>1. PICK dict \in Tables, start \in 0 .. OffsetRange - 1, key \in Keys :
              lookup = [dict |-> dict, start |-> start, key |-> key,
                        index |-> 0, offset |-> start, status |-> "called"]
        BY DEF LookupInit
    <2>2. dict \in Seq(DictionaryEntry) /\ key \in KeyType /\ start \in Nat
        BY LookupAssumption
    <2>3. lookup \in LookupStates /\ lookup.status = "called" /\ lookup.offset = lookup.start
        BY <2>1, <2>2 DEF LookupStates, Running
    <2> QED BY <2>3 DEF LookupInv, LookupIsFirstMatch, Running
<1>2. LookupInv /\ [LookupNext]_lookup => LookupInv'
    <2> SUFFICES ASSUME LookupInv, [LookupNext]_lookup PROVE LookupInv'
        OBVIOUS
    <2>1. CASE UNCHANGED lookup
        BY <2>1 DEF LookupInv, LookupIsFirstMatch
    <2> QED BY <2>1, ValidateKeeps, ExamineKeeps, ExhaustKeeps DEF LookupNext
<1>3. LookupInv => LookupIsFirstMatch
    BY DEF LookupInv
<1> QED BY <1>1, <1>2, <1>3, PTL DEF LookupSpec

=============================================================================
