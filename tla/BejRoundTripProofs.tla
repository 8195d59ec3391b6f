-------------------------- MODULE BejRoundTripProofs --------------------------
(***************************************************************************)
(* What the caller builds is well built, and what the encoder writes of it *)
(* the decoder reads tuple by tuple, for all constants of BejRoundTrip.    *)
(*                                                                         *)
(* First a block is read as bytes: from the grammar of what has been       *)
(* written follows where each tuple starts and ends, and that behind each  *)
(* of them, and behind the count of a set, is another one or the end. Then *)
(* the decoder is shown to stay on such a stream, and last the operations  *)
(* of the tree are shown to build what the encoder is proved for.          *)
(***************************************************************************)
EXTENDS BejRoundTrip, BejEncoderProofs

-----------------------------------------------------------------------------
(* What a reader finds in what is written: every tuple is followed by a      *)
(* tuple, or by the end of what is written.                                  *)

\* The bytes of the first n pieces.
Bytes(s, n) == Measure(SubSeq(s, 1, n))

\* Every tuple has one format, behind the two pieces of its sequence number and
\* before the two of its length.
FormatsOf(s) == {p \in DOMAIN s : s[p].kind \in ParentTypes \cup LeafTypes}

TupleStart(s, p) == Bytes(s, p - 3)
ValueStart(s, p) == Bytes(s, p + 2)
ValueEnd(s, p) == ValueStart(s, p) + s[p + 2].value

\* Where the tuples in a value begin: behind the count of a set or an array.
FirstInside(s, p) ==
    ValueStart(s, p) + (IF s[p].kind \in {"Set", "Array"} THEN s[p + 4].size + 1 ELSE 0)

Boundaries(s) == {TupleStart(s, p) : p \in FormatsOf(s)} \cup {Measure(s)}

\* The pieces around a format are those of its tuple.
Framed(s, p) ==
    /\ p - 2 >= 1 /\ p + 2 <= Len(s)
    /\ s[p - 2].size = 1
    /\ s[p + 2].value \in Nat
    /\ s[p].kind \in {"Set", "Array"} => p + 4 <= Len(s)

\* Where its value ends, and where what is in it begins, are in B.
Followed(s, p, B) ==
    /\ ValueEnd(s, p) \in B
    /\ s[p].kind \in ParentTypes => /\ FirstInside(s, p) \in B
                                    /\ FirstInside(s, p) <= ValueEnd(s, p)

Reads(s, p) == Framed(s, p) /\ Followed(s, p, Boundaries(s))

Chained(s) == \A p \in FormatsOf(s) : Reads(s, p)

Readable(s) == Chained(s) /\ 0 \in Boundaries(s)

\* The first pieces of a sequence that has been joined with another one.
LEMMA BytesOfFirst ==
    ASSUME NEW P, Sized(P), NEW s \in Seq(P), NEW u \in Seq(P), NEW c, c = s \o u,
           NEW n \in 0 .. Len(s)
    PROVE  Bytes(c, n) = Bytes(s, n)
<1>1. SubSeq(c, 1, n) = SubSeq(s, 1, n)
    OBVIOUS
<1> QED BY <1>1 DEF Bytes

\* The first k pieces of c are s and the first n pieces of u.
BytesShift(c, k, s, u, n) == Bytes(c, k) = Measure(s) + Bytes(u, n) /\ Bytes(u, n) \in Nat

LEMMA BytesOfSecond ==
    ASSUME NEW P, Sized(P), NEW s \in Seq(P), NEW u \in Seq(P), NEW c, c = s \o u,
           NEW n \in 0 .. Len(u), NEW k, k = Len(s) + n
    PROVE  BytesShift(c, k, s, u, n)
<1> DEFINE v == SubSeq(u, 1, n)
<1>1. v \in Seq(P)
    OBVIOUS
<1>2. SubSeq(c, 1, k) = s \o v
    OBVIOUS
<1>3. Bytes(u, n) = Measure(v) /\ Bytes(c, k) = Measure(s \o v)
    BY <1>2, Zenon DEF Bytes
<1> HIDE DEF v
<1> QED BY <1>1, <1>3, MeasureJoined, MeasureType DEF BytesShift

LEMMA BytesNext ==
    ASSUME NEW P, Sized(P), NEW s \in Seq(P)
    PROVE  /\ \A n \in 0 .. Len(s) : Bytes(s, n) \in Nat
           /\ Bytes(s, 0) = 0 /\ Bytes(s, Len(s)) = Measure(s)
           /\ \A n \in 1 .. Len(s) : Bytes(s, n) = Bytes(s, n - 1) + s[n].size
<1>1. ASSUME NEW n \in 0 .. Len(s) PROVE Bytes(s, n) \in Nat
    <2>1. SubSeq(s, 1, n) \in Seq(P)
        OBVIOUS
    <2> QED BY <2>1, MeasureType DEF Bytes
<1>2. Bytes(s, 0) = 0
    <2>1. SubSeq(s, 1, 0) = <<>>
        OBVIOUS
    <2> QED BY <2>1, MeasureEmpty DEF Bytes
<1>3. Bytes(s, Len(s)) = Measure(s)
    <2>1. SubSeq(s, 1, Len(s)) = s
        OBVIOUS
    <2> QED BY <2>1, Zenon DEF Bytes
<1>4. ASSUME NEW n \in 1 .. Len(s) PROVE Bytes(s, n) = Bytes(s, n - 1) + s[n].size
    <2> DEFINE v == SubSeq(s, 1, n - 1)
               e == s[n]
    <2>1. v \in Seq(P) /\ e \in P
        OBVIOUS
    <2>2. SubSeq(s, 1, n) = Append(v, e)
        OBVIOUS
    <2>3. Bytes(s, n - 1) = Measure(v) /\ Bytes(s, n) = Measure(Append(v, e))
        BY <2>2, Zenon DEF Bytes
    <2> HIDE DEF v, e
    <2>4. Bytes(s, n) = Bytes(s, n - 1) + e.size
        BY <2>1, <2>3, MeasureAppend
    <2> QED BY <2>4 DEF e
<1> QED BY <1>1, <1>2, <1>3, <1>4

LEMMA BytesGrow ==
    ASSUME NEW P, Sized(P), NEW s \in Seq(P), NEW n \in 0 .. Len(s), NEW k \in n .. Len(s)
    PROVE  Bytes(s, n) <= Bytes(s, k)
<1> DEFINE u == SubSeq(s, 1, n)
           v == SubSeq(s, n + 1, k)
<1>1. u \in Seq(P) /\ v \in Seq(P)
    OBVIOUS
<1>2. SubSeq(s, 1, k) = u \o v
    OBVIOUS
<1>3. Bytes(s, n) = Measure(u) /\ Bytes(s, k) = Measure(u \o v)
    BY <1>2 DEF Bytes
<1> HIDE DEF u, v
<1>4. Measure(u) \in Nat /\ Measure(v) \in Nat /\ Measure(u \o v) = Measure(u) + Measure(v)
    BY <1>1, MeasureType, MeasureJoined
<1> QED BY <1>3, <1>4

\* No two tuples start at the same byte.
LEMMA StartsDiffer ==
    ASSUME NEW P, Sized(P), NEW s \in Seq(P), NEW p \in FormatsOf(s), NEW q \in FormatsOf(s),
           Framed(s, p), Framed(s, q), TupleStart(s, p) = TupleStart(s, q)
    PROVE  p = q
<1>1. /\ p \in Nat /\ q \in Nat /\ p - 2 \in 1 .. Len(s) /\ q - 2 \in 1 .. Len(s)
      /\ s[p - 2].size = 1 /\ s[q - 2].size = 1 /\ Len(s) \in Nat
      /\ p - 3 = (p - 2) - 1 /\ q - 3 = (q - 2) - 1
    <2>1. p \in 1 .. Len(s) /\ q \in 1 .. Len(s) /\ Len(s) \in Nat
        BY DEF FormatsOf
    <2>2. /\ p - 2 >= 1 /\ s[p - 2].size = 1
          /\ q - 2 >= 1 /\ s[q - 2].size = 1
        BY DEF Framed
    <2> QED BY <2>1, <2>2
<1>2. ASSUME NEW a \in 1 .. Len(s), NEW b \in 1 .. Len(s), a < b, s[a].size = 1
      PROVE  Bytes(s, a - 1) < Bytes(s, b - 1)
    <2>1. a - 1 \in 0 .. Len(s) /\ a \in 0 .. Len(s) /\ b - 1 \in a .. Len(s)
        BY <1>1, <1>2
    <2>2. Bytes(s, a) = Bytes(s, a - 1) + 1 /\ Bytes(s, a - 1) \in Nat
        BY <1>2, <2>1, BytesNext
    <2>3. Bytes(s, a) <= Bytes(s, b - 1)
        BY <2>1, BytesGrow
    <2>4. b - 1 \in 0 .. Len(s)
        BY <2>1, <1>1
    <2>5. Bytes(s, b - 1) \in Nat
        BY <2>4, BytesNext
    <2> QED BY <2>2, <2>3, <2>5
<1>3. ~(p - 2 < q - 2) /\ ~(q - 2 < p - 2)
    <2>1. p - 3 \in 0 .. Len(s) /\ q - 3 \in 0 .. Len(s)
        BY <1>1
    <2>2. Bytes(s, p - 3) \in Nat /\ Bytes(s, p - 3) = Bytes(s, q - 3)
        BY <2>1, BytesNext DEF TupleStart
    <2>3. p - 2 < q - 2 => Bytes(s, (p - 2) - 1) < Bytes(s, (q - 2) - 1)
        BY <1>1, <1>2
    <2>4. q - 2 < p - 2 => Bytes(s, (q - 2) - 1) < Bytes(s, (p - 2) - 1)
        BY <1>1, <1>2
    <2> QED BY <1>1, <2>2, <2>3, <2>4
<1> QED BY <1>1, <1>3

\* What a reader finds at a format.
TupleMoved(s, p, c, k, shift) ==
    /\ k \in FormatsOf(c) /\ Framed(c, k) /\ c[k].kind = s[p].kind
    /\ TupleStart(c, k) = shift + TupleStart(s, p)
    /\ ValueEnd(c, k) = shift + ValueEnd(s, p)
    /\ FirstInside(c, k) = shift + FirstInside(s, p)
    /\ TupleStart(s, p) \in Nat /\ ValueEnd(s, p) \in Nat /\ FirstInside(s, p) \in Nat

LEMMA FormatKept ==
    ASSUME NEW P, Sized(P), NEW s \in Seq(P), NEW u \in Seq(P), NEW c, c = s \o u,
           NEW p \in FormatsOf(s), Framed(s, p)
    PROVE  TupleMoved(s, p, c, p, 0)
<1>1. /\ p \in 3 .. Len(s) - 2 /\ Len(s) \in Nat /\ Len(u) \in Nat
      /\ c \in Seq(P) /\ Len(c) = Len(s) + Len(u)
    BY DEF FormatsOf, Framed
<1>2. \A i \in 1 .. Len(s) : c[i] = s[i] /\ s[i].size \in Nat
    BY DEF Sized
<1>3. \A n \in 0 .. Len(s) : Bytes(c, n) = Bytes(s, n) /\ Bytes(s, n) \in Nat
    BY BytesOfFirst, BytesNext
<1>4. /\ p - 2 \in 1 .. Len(s) /\ p + 2 \in 1 .. Len(s) /\ p \in 1 .. Len(s)
      /\ p - 3 \in 0 .. Len(s) /\ p + 2 \in 0 .. Len(s)
      /\ s[p].kind \in {"Set", "Array"} => p + 4 \in 1 .. Len(s)
    BY <1>1 DEF Framed
<1>5. p \in FormatsOf(c) /\ c[p].kind = s[p].kind
    BY <1>1, <1>2, <1>4 DEF FormatsOf
<1>6. Framed(c, p)
    BY <1>1, <1>2, <1>4, <1>5 DEF Framed
<1>7. TupleStart(c, p) = TupleStart(s, p) /\ TupleStart(s, p) \in Nat
    BY <1>3, <1>4 DEF TupleStart
<1>8. ValueStart(c, p) = ValueStart(s, p) /\ ValueStart(s, p) \in Nat
    BY <1>3, <1>4 DEF ValueStart
<1>9. ValueEnd(c, p) = ValueEnd(s, p) /\ ValueEnd(s, p) \in Nat
    <2>1. c[p + 2] = s[p + 2] /\ s[p + 2].value \in Nat
        BY <1>2, <1>4 DEF Framed
    <2> QED BY <1>8, <2>1 DEF ValueEnd
<1>10. FirstInside(c, p) = FirstInside(s, p) /\ FirstInside(s, p) \in Nat
    BY <1>2, <1>4, <1>5, <1>8 DEF FirstInside
<1> QED BY <1>5, <1>6, <1>7, <1>9, <1>10 DEF TupleMoved

LEMMA FormatMoved ==
    ASSUME NEW P, Sized(P), NEW s \in Seq(P), NEW u \in Seq(P), NEW c, c = s \o u,
           NEW q \in FormatsOf(u), Framed(u, q)
    PROVE  TupleMoved(u, q, c, Len(s) + q, Measure(s))
<1>1. /\ q \in 3 .. Len(u) - 2 /\ Len(s) \in Nat /\ Len(u) \in Nat
      /\ c \in Seq(P) /\ Len(c) = Len(s) + Len(u) /\ Measure(s) \in Nat
    BY MeasureType DEF FormatsOf, Framed
<1>2. \A i \in 1 .. Len(u) : c[Len(s) + i] = u[i] /\ u[i].size \in Nat
    BY DEF Sized
<1>3. ASSUME NEW n \in 0 .. Len(u), NEW k, k = Len(s) + n
      PROVE  Bytes(c, k) = Measure(s) + Bytes(u, n) /\ Bytes(u, n) \in Nat
    <2>1. BytesShift(c, k, s, u, n)
        BY <1>3, BytesOfSecond
    <2> QED BY <2>1, Zenon DEF BytesShift
<1>4. /\ q - 2 \in 1 .. Len(u) /\ q + 2 \in 1 .. Len(u) /\ q \in 1 .. Len(u)
      /\ q - 3 \in 0 .. Len(u) /\ q + 2 \in 0 .. Len(u)
    BY <1>1
<1>5. u[q].kind \in {"Set", "Array"} => q + 4 \in 1 .. Len(u)
    BY <1>1 DEF Framed
<1>6. PICK p : p = Len(s) + q
    OBVIOUS
<1>7. /\ p \in Nat /\ p - 2 >= 1 /\ p + 2 <= Len(c) /\ p \in 1 .. Len(c)
      /\ p - 3 = Len(s) + (q - 3) /\ p - 2 = Len(s) + (q - 2)
      /\ p + 2 = Len(s) + (q + 2) /\ p + 4 = Len(s) + (q + 4)
    BY <1>1, <1>6
<1>8. c[p - 2] = u[q - 2] /\ c[p] = u[q] /\ c[p + 2] = u[q + 2]
    BY <1>2, <1>4, <1>6, <1>7
<1>9. u[q].kind \in {"Set", "Array"} =>
          c[p + 4] = u[q + 4] /\ u[q + 4].size \in Nat /\ p + 4 <= Len(c)
    BY <1>1, <1>2, <1>5, <1>7
<1>10. TupleStart(c, p) = Measure(s) + TupleStart(u, q) /\ TupleStart(u, q) \in Nat
    BY <1>3, <1>4, <1>7 DEF TupleStart
<1>11. ValueStart(c, p) = Measure(s) + ValueStart(u, q) /\ ValueStart(u, q) \in Nat
    BY <1>3, <1>4, <1>7 DEF ValueStart
<1>12. p \in FormatsOf(c)
    <2>1. p \in DOMAIN c
        BY <1>1, <1>7
    <2>2. u[q].kind \in ParentTypes \cup LeafTypes
        BY DEF FormatsOf
    <2> QED BY <1>8, <2>1, <2>2 DEF FormatsOf
<1>13. Framed(c, p)
    BY <1>7, <1>8, <1>9 DEF Framed
<1>14. u[q + 2].value \in Nat
    BY DEF Framed
<1> DEFINE start == ValueStart(u, q)
           shift == Measure(s)
<1>15. ValueEnd(c, p) = shift + ValueEnd(u, q) /\ ValueEnd(u, q) \in Nat
    <2>1. ValueEnd(c, p) = (shift + start) + u[q + 2].value /\ ValueEnd(u, q) = start + u[q + 2].value
        BY <1>8, <1>11, Zenon DEF ValueEnd
    <2>2. shift \in Nat /\ start \in Nat
        BY <1>1, <1>11
    <2> HIDE DEF shift, start
    <2> QED BY <1>14, <2>1, <2>2
<1>16. FirstInside(c, p) = shift + FirstInside(u, q) /\ FirstInside(u, q) \in Nat
    <2>1. PICK more : more = IF u[q].kind \in {"Set", "Array"} THEN u[q + 4].size + 1 ELSE 0
        OBVIOUS
    <2>2. more \in Nat
        BY <1>9, <2>1
    <2>3. more = IF c[p].kind \in {"Set", "Array"} THEN c[p + 4].size + 1 ELSE 0
        BY <1>8, <1>9, <2>1
    <2>4. FirstInside(c, p) = (shift + start) + more /\ FirstInside(u, q) = start + more
        BY <1>11, <2>1, <2>3, Zenon DEF FirstInside
    <2>5. shift \in Nat /\ start \in Nat
        BY <1>1, <1>11
    <2> HIDE DEF shift, start
    <2> QED BY <2>2, <2>4, <2>5
<1>17. TupleMoved(u, q, c, p, Measure(s))
    BY <1>8, <1>10, <1>12, <1>13, <1>15, <1>16 DEF TupleMoved
<1> QED BY <1>6, <1>17

\* A format of what has been joined is one of the first or of the second.
OfEither(s, u, k) == k \in FormatsOf(s) \/ \E q \in FormatsOf(u) : k = Len(s) + q

LEMMA FormatsJoined ==
    ASSUME NEW P, NEW s \in Seq(P), NEW u \in Seq(P), NEW c, c = s \o u, NEW k \in FormatsOf(c)
    PROVE  OfEither(s, u, k)
<1>1. k \in 1 .. Len(s) + Len(u) /\ Len(s) \in Nat /\ Len(u) \in Nat
    BY DEF FormatsOf
<1>2. CASE k <= Len(s)
    <2>1. k \in DOMAIN s /\ c[k] = s[k]
        BY <1>1, <1>2
    <2> QED BY <2>1 DEF FormatsOf, OfEither
<1>3. CASE k > Len(s)
    <2>1. k - Len(s) \in DOMAIN u /\ c[k] = u[k - Len(s)] /\ k = Len(s) + (k - Len(s))
        BY <1>1, <1>3
    <2> QED BY <2>1 DEF FormatsOf, OfEither
<1> QED BY <1>1, <1>2, <1>3

\* What follows b bytes in u follows Measure(s) + b bytes in c.
Shifts(c, s, u) == \A b \in Boundaries(u) : Measure(s) + b \in Boundaries(c)

LEMMA BoundariesType ==
    ASSUME NEW P, Sized(P), NEW s \in Seq(P), Chained(s)
    PROVE  /\ Boundaries(s) \subseteq Nat /\ Measure(s) \in Nat /\ Measure(s) \in Boundaries(s)
<1>1. Measure(s) \in Nat
    BY MeasureType
<1>2. ASSUME NEW p \in FormatsOf(s) PROVE TupleStart(s, p) \in Nat
    <2>1. Framed(s, p)
        BY DEF Chained, Reads
    <2>2. p \in 1 .. Len(s) /\ p - 2 >= 1 /\ Len(s) \in Nat
        BY <2>1 DEF Framed, FormatsOf
    <2>3. p - 3 \in 0 .. Len(s)
        BY <2>2
    <2> QED BY <2>3, BytesNext DEF TupleStart
<1> QED BY <1>1, <1>2 DEF Boundaries

LEMMA SecondShifts ==
    ASSUME NEW P, Sized(P), NEW s \in Seq(P), NEW u \in Seq(P), NEW c, c = s \o u, Chained(u)
    PROVE  Shifts(c, s, u)
<1> SUFFICES ASSUME NEW b \in Boundaries(u) PROVE Measure(s) + b \in Boundaries(c)
    BY DEF Shifts
<1>1. CASE b = Measure(u)
    <2>1. Measure(c) = Measure(s) + Measure(u)
        BY MeasureJoined
    <2> QED BY <1>1, <2>1 DEF Boundaries
<1>2. ASSUME NEW q \in FormatsOf(u), b = TupleStart(u, q) PROVE Measure(s) + b \in Boundaries(c)
    <2>1. PICK k : k = Len(s) + q
        OBVIOUS
    <2>2. TupleMoved(u, q, c, k, Measure(s))
        BY <2>1, FormatMoved DEF Chained, Reads
    <2>3. k \in FormatsOf(c) /\ TupleStart(c, k) = Measure(s) + b
        BY <1>2, <2>2 DEF TupleMoved
    <2> QED BY <2>3 DEF Boundaries
<1> QED BY <1>1, <1>2 DEF Boundaries

\* A tuple that has been moved is read as before.
LEMMA MovedReads ==
    ASSUME NEW s, NEW p, NEW c, NEW k, NEW shift \in Nat, TupleMoved(s, p, c, k, shift),
           NEW B, Followed(s, p, B), \A b \in B : shift + b \in Boundaries(c)
    PROVE  Reads(c, k)
<1>1. Framed(c, k) /\ c[k].kind = s[p].kind
    BY DEF TupleMoved
<1>2. ValueEnd(c, k) \in Boundaries(c)
    BY DEF TupleMoved, Followed
<1>3. ASSUME c[k].kind \in ParentTypes
      PROVE  FirstInside(c, k) \in Boundaries(c) /\ FirstInside(c, k) <= ValueEnd(c, k)
    <2>1. FirstInside(s, p) \in B /\ FirstInside(s, p) <= ValueEnd(s, p)
        BY <1>1, <1>3 DEF Followed
    <2>2. /\ FirstInside(c, k) = shift + FirstInside(s, p) /\ ValueEnd(c, k) = shift + ValueEnd(s, p)
          /\ FirstInside(s, p) \in Nat /\ ValueEnd(s, p) \in Nat
        BY DEF TupleMoved
    <2> QED BY <2>1, <2>2
<1> QED BY <1>1, <1>2, <1>3 DEF Reads, Followed

LEMMA SecondReads ==
    ASSUME NEW P, Sized(P), NEW s \in Seq(P), NEW u \in Seq(P), NEW c, c = s \o u, Chained(u),
           NEW q \in FormatsOf(u), NEW k, k = Len(s) + q
    PROVE  Reads(c, k)
<1>1. Framed(u, q) /\ Followed(u, q, Boundaries(u))
    BY DEF Chained, Reads
<1>2. TupleMoved(u, q, c, k, Measure(s))
    BY <1>1, FormatMoved
<1>3. Measure(s) \in Nat /\ \A b \in Boundaries(u) : Measure(s) + b \in Boundaries(c)
    BY MeasureType, SecondShifts DEF Shifts
<1> QED BY <1>1, <1>2, <1>3, MovedReads

\* What can be read can be read behind what can be read.
LEMMA ReadableJoined ==
    ASSUME NEW P, Sized(P), NEW s \in Seq(P), NEW u \in Seq(P), NEW c, c = s \o u,
           Readable(s), Readable(u)
    PROVE  Readable(c)
<1>1. Chained(s) /\ Chained(u) /\ 0 \in Boundaries(s) /\ 0 \in Boundaries(u)
    BY DEF Readable
<1>2. Measure(s) \in Nat /\ Boundaries(s) \subseteq Nat
    BY <1>1, BoundariesType
<1>3. ASSUME NEW b \in Boundaries(s) PROVE b \in Boundaries(c)
    <2>1. CASE b = Measure(s)
        <3>1. Measure(s) + 0 \in Boundaries(c)
            BY <1>1, SecondShifts DEF Shifts
        <3> QED BY <1>2, <2>1, <3>1
    <2>2. ASSUME NEW p \in FormatsOf(s), b = TupleStart(s, p) PROVE b \in Boundaries(c)
        <3>1. TupleMoved(s, p, c, p, 0)
            BY <1>1, FormatKept DEF Chained, Reads
        <3>2. p \in FormatsOf(c) /\ TupleStart(c, p) = b
            BY <1>2, <2>2, <3>1 DEF TupleMoved
        <3> QED BY <3>2 DEF Boundaries
    <2> QED BY <2>1, <2>2 DEF Boundaries
<1>4. ASSUME NEW k \in FormatsOf(c) PROVE Reads(c, k)
    <2>1. CASE k \in FormatsOf(s)
        <3>1. Framed(s, k) /\ Followed(s, k, Boundaries(s))
            BY <1>1, <2>1 DEF Chained, Reads
        <3>2. TupleMoved(s, k, c, k, 0)
            BY <2>1, <3>1, FormatKept
        <3>3. \A b \in Boundaries(s) : 0 + b \in Boundaries(c)
            BY <1>2, <1>3
        <3> QED BY <3>1, <3>2, <3>3, MovedReads
    <2>2. ASSUME NEW q \in FormatsOf(u), k = Len(s) + q PROVE Reads(c, k)
        BY <1>1, <2>2, SecondReads
    <2> QED BY <2>1, <2>2, FormatsJoined DEF OfEither
<1> QED BY <1>1, <1>3, <1>4 DEF Readable, Chained

LEMMA NothingReadable == Readable(<<>>) /\ FormatsOf(<<>>) = {}
<1>1. FormatsOf(<<>>) = {}
    BY DEF FormatsOf
<1> QED BY <1>1, MeasureEmpty DEF Readable, Chained, Boundaries

-----------------------------------------------------------------------------
(* A tuple is readable if what is in it is.                                  *)

\* The pieces of a value, but for the tuples in it.
ValuePieces(W) == [kind: {"length", "number", "integer", "data"}, size: Nat, value: W]

LEMMA NoFormats ==
    ASSUME NEW W, NEW s \in Seq(ValuePieces(W))
    PROVE  FormatsOf(s) = {}
<1> SUFFICES ASSUME NEW p \in FormatsOf(s) PROVE FALSE
    OBVIOUS
<1>1. p \in DOMAIN s
    BY DEF FormatsOf
<1>2. s[p] \in ValuePieces(W)
    BY <1>1
<1>3. s[p].kind \in {"length", "number", "integer", "data"}
    BY <1>2 DEF ValuePieces
<1> QED BY <1>3 DEF FormatsOf, ParentTypes, LeafTypes

LEMMA NnintPlain ==
    ASSUME NEW W, Nat \subseteq W, NEW v \in W
    PROVE  bejEncodeNnint(v) \in Seq(ValuePieces(W))
<1>1. bejNnintLengthFieldOfUInt(v) \in Nat
    BY NnintSizes
<1>2. bejNnintLengthFieldOfUInt(v) \in W
    BY <1>1
<1> DEFINE size == bejNnintLengthFieldOfUInt(v)
<1> HIDE DEF size
<1>3. Piece("length", 1, size) \in ValuePieces(W) /\ Piece("number", size, v) \in ValuePieces(W)
    BY <1>1, <1>2 DEF Piece, ValuePieces, size
<1>4. bejEncodeNnint(v) = << Piece("length", 1, size), Piece("number", size, v) >>
    BY DEF bejEncodeNnint, size
<1> QED BY <1>3, <1>4

LEMMA PlainPiece ==
    ASSUME NEW W, NEW kind \in {"integer", "data"}, NEW size \in Nat, NEW value \in W
    PROVE  << Piece(kind, size, value) >> \in Seq(ValuePieces(W))
BY DEF Piece, ValuePieces

LEMMA ValuePlain ==
    ASSUME NEW W, Nat \subseteq W, NEW node \in NodeType, NEW option \in W, NEW size \in Nat
    PROVE  EncodeValue(node, option, size) \in Seq(ValuePieces(W))
<1>1. /\ node.type \in ParentTypes \cup LeafTypes
      /\ node.nChildren \in Nat
      /\ node.value.bytes \in Nat /\ node.value.zeros \in Nat /\ node.value.fract \in Nat
      /\ 0 \in Nat /\ 1 \in Nat
    BY DEF NodeType, ValueType
<1>2. /\ node.nChildren \in W /\ node.value.bytes \in W /\ node.value.zeros \in W
      /\ node.value.fract \in W /\ 0 \in W
    BY <1>1
<1>3. bejEncodeInteger(node.value.bytes) \in Seq(ValuePieces(W))
    BY <1>1, <1>2, PlainPiece DEF bejEncodeInteger
<1> DEFINE value == EncodeValue(node, option, size)
<1>4. CASE node.type \in {"Set", "Array"}
    BY <1>2, <1>4, NnintPlain DEF EncodeValue
<1>5. CASE node.type \in {"PropertyAnnotation", "Null"}
    <2>1. value = <<>>
        BY <1>5 DEF EncodeValue
    <2> QED BY <2>1
<1>6. CASE node.type = "Integer"
    BY <1>3, <1>6, Zenon DEF EncodeValue
<1>7. CASE node.type = "Enum"
    BY <1>7, NnintPlain DEF EncodeValue
<1>8. CASE node.type = "String"
    BY <1>2, <1>8, PlainPiece DEF EncodeValue
<1>9. CASE node.type = "Boolean"
    BY <1>1, <1>2, <1>9, PlainPiece DEF EncodeValue
<1>10. CASE node.type = "Real"
    <2>1. value = bejEncodeNnint(node.value.bytes)
                      \o bejEncodeInteger(node.value.bytes)
                      \o bejEncodeNnint(node.value.zeros)
                      \o bejEncodeNnint(node.value.fract)
                      \o bejEncodeNnint(0)
        BY <1>10 DEF EncodeValue
    <2>2. /\ bejEncodeNnint(node.value.bytes) \in Seq(ValuePieces(W))
          /\ bejEncodeNnint(node.value.zeros) \in Seq(ValuePieces(W))
          /\ bejEncodeNnint(node.value.fract) \in Seq(ValuePieces(W))
          /\ bejEncodeNnint(0) \in Seq(ValuePieces(W))
        BY <1>2, NnintPlain
    <2> HIDE DEF value
    <2>3. value \in Seq(ValuePieces(W))
        BY <1>3, <2>1, <2>2, Joined
    <2> QED BY <2>3 DEF value
<1> QED BY <1>1, <1>4, <1>5, <1>6, <1>7, <1>8, <1>9, <1>10 DEF ParentTypes, LeafTypes

\* What a value starts with: the count of a set or an array, of an annotation
\* nothing, and never a tuple.
HeadFor(type, head) ==
    /\ FormatsOf(head) = {}
    /\ type \in {"Set", "Array"} => Len(head) = 2 /\ Measure(head) = head[2].size + 1
    /\ type = "PropertyAnnotation" => head = <<>>

LEMMA HeadIs ==
    ASSUME NEW tree \in TreeType, NoCycle(tree), NEW at \in Places \ Ends
    PROVE  HeadFor(tree[at.node].type, ValueHead(tree, at))
<1> DEFINE node == tree[at.node]
           head == ValueHead(tree, at)
<1>1. node \in NodeType /\ node.firstChild \in Pointers
    BY PlaceParts, LinkTypes
<1>2. Nat \subseteq Said(tree) /\ 0 \in Nat /\ 0 \in Said(tree)
    BY DEF Said
<1>3. CASE node.type \in {"Set", "Array"}
    <2>1. PICK v : v = SiblingCount(tree)[node.firstChild]
        OBVIOUS
    <2>2. v \in Said(tree) /\ head = bejEncodeNnint(v)
        BY <1>1, <1>2, <1>3, <2>1, CountEquation DEF ValueHead
    <2>3. FormatsOf(head) = {}
        BY <1>2, <2>2, NnintPlain, NoFormats
    <2>4. Measure(head) = bejNnintEncodingSizeOfUInt(v)
        BY <2>2, MeasureNnint
    <2>5. Len(head) = 2 /\ head[2].size = bejNnintLengthFieldOfUInt(v)
        BY <2>2 DEF bejEncodeNnint, Piece
    <2>6. bejNnintEncodingSizeOfUInt(v) = bejNnintLengthFieldOfUInt(v) + 1
        BY DEF bejNnintEncodingSizeOfUInt, bejNnintLengthFieldOfUInt,
               Numbers!bejNnintEncodingSizeOfUInt
    <2> QED BY <1>3, <2>3, <2>4, <2>5, <2>6 DEF HeadFor
<1>4. CASE node.type = "Enum"
    <2>1. OptionSeq(node, Found(tree, at)) \in Said(tree)
        BY DEF Said
    <2>2. EncodeValue(node, OptionSeq(node, Found(tree, at)), 0) \in Seq(ValuePieces(Said(tree)))
        <3> HIDE DEF node
        <3> QED BY <1>1, <1>2, <2>1, ValuePlain
    <2>3. head \in Seq(ValuePieces(Said(tree)))
        BY <1>4, <2>2 DEF ValueHead
    <2> QED BY <1>4, <2>3, NoFormats DEF HeadFor
<1>5. CASE node.type \notin {"Set", "Array", "Enum"}
    <2>1. node.value.bytes \in Nat
        BY <1>1 DEF NodeType, ValueType
    <2>2. EncodeValue(node, 0, node.value.bytes) \in Seq(ValuePieces(Said(tree)))
        <3> HIDE DEF node
        <3> QED BY <1>1, <1>2, <2>1, ValuePlain
    <2>3. head = EncodeValue(node, 0, node.value.bytes)
        BY <1>5 DEF ValueHead
    <2>4. node.type = "PropertyAnnotation" => head = <<>>
        BY <2>3 DEF EncodeValue
    <2>5. FormatsOf(head) = {}
        BY <2>2, <2>3, NoFormats
    <2> QED BY <1>5, <2>4, <2>5 DEF HeadFor
<1> QED BY <1>3, <1>4, <1>5

\* The pieces before a value of n bytes.
SflFor(type, sfl, n) ==
    /\ Len(sfl) = 5
    /\ sfl[1].size = 1
    /\ FormatsOf(sfl) = {3} /\ sfl[3].kind = type
    /\ sfl[5].value = n

\* What is at each place of what has been joined.
JoinOf(c, s, u) ==
    /\ Len(s) \in Nat /\ Len(u) \in Nat /\ Len(c) = Len(s) + Len(u)
    /\ \A i \in 1 .. Len(s) : c[i] = s[i]
    /\ \A i \in 1 .. Len(u) : c[Len(s) + i] = u[i]

LEMMA Joins ==
    ASSUME NEW P, NEW s \in Seq(P), NEW u \in Seq(P), NEW c, c = s \o u
    PROVE  JoinOf(c, s, u) /\ c \in Seq(P)
BY DEF JoinOf

LEMMA SflIs ==
    ASSUME NEW node, node.type \in ParentTypes \cup LeafTypes, NEW seq \in Nat, NEW n \in Nat
    PROVE  SflFor(node.type, EncodeSFL(node, seq, n), n)
<1> DEFINE a == bejNnintLengthFieldOfUInt(seq)
           b == bejNnintLengthFieldOfUInt(n)
           ro == IF node.ro THEN 1 ELSE 0
           sfl == EncodeSFL(node, seq, n)
<1>1. PICK p1, p2, p3, p4, p5 :
          /\ p1 = Piece("length", 1, a) /\ p2 = Piece("number", a, seq)
          /\ p3 = Piece(node.type, 1, ro)
          /\ p4 = Piece("length", 1, b) /\ p5 = Piece("number", b, n)
    OBVIOUS
<1>2. /\ Len(sfl) = 5
      /\ sfl[1] = p1 /\ sfl[2] = p2 /\ sfl[3] = p3 /\ sfl[4] = p4 /\ sfl[5] = p5
      /\ sfl \in Seq({p1, p2, p3, p4, p5})
    <2> DEFINE P == {p1, p2, p3, p4, p5}
    <2>1. /\ bejEncodeNnint(seq) = <<p1, p2>> /\ bejEncodeFormat(node) = <<p3>>
          /\ bejEncodeNnint(n) = <<p4, p5>>
        BY <1>1 DEF bejEncodeNnint, bejEncodeFormat
    <2>2. PICK s, t, u, v : s = <<p1, p2>> /\ t = <<p3>> /\ u = <<p4, p5>> /\ v = s \o t
        OBVIOUS
    <2>3. s \in Seq(P) /\ t \in Seq(P) /\ u \in Seq(P)
          /\ Len(s) = 2 /\ Len(t) = 1 /\ Len(u) = 2
        BY <2>2
    <2>4. sfl = v \o u
        BY <2>1, <2>2 DEF EncodeSFL
    <2> HIDE DEF P, sfl
    <2>5. JoinOf(v, s, t) /\ v \in Seq(P)
        BY <2>2, <2>3, Joins
    <2>6. JoinOf(sfl, v, u) /\ sfl \in Seq(P)
        BY <2>3, <2>4, <2>5, Joins
    <2>7. Len(v) = 3 /\ Len(sfl) = 5
        BY <2>3, <2>5, <2>6 DEF JoinOf
    <2>8. v[1] = s[1] /\ v[2] = s[2] /\ v[2 + 1] = t[1]
        BY <2>3, <2>5 DEF JoinOf
    <2>9. /\ sfl[1] = v[1] /\ sfl[2] = v[2] /\ sfl[3] = v[3]
          /\ sfl[3 + 1] = u[1] /\ sfl[3 + 2] = u[2]
        BY <2>3, <2>6, <2>7 DEF JoinOf
    <2> QED BY <2>2, <2>6, <2>7, <2>8, <2>9 DEF P
<1>3. /\ p1.size = 1 /\ p3.kind = node.type /\ p5.value = n
      /\ p1.kind = "length" /\ p2.kind = "number" /\ p4.kind = "length" /\ p5.kind = "number"
    BY <1>1 DEF Piece
<1> HIDE DEF sfl
<1>5. DOMAIN sfl = {1, 2, 3, 4, 5}
    BY <1>2
<1>6. FormatsOf(sfl) = {3}
    BY <1>2, <1>3, <1>5 DEF FormatsOf, ParentTypes, LeafTypes
<1>7. SflFor(node.type, sfl, n)
    BY <1>2, <1>3, <1>6 DEF SflFor
<1> QED BY <1>7 DEF sfl

\* The first format of a tuple, and all of what is behind it.
WholeTuple(c) ==
    /\ 3 \in FormatsOf(c) /\ Framed(c, 3)
    /\ TupleStart(c, 3) = 0
    /\ ValueEnd(c, 3) = Measure(c)

LEMMA FirstFive ==
    ASSUME NEW P, Sized(P), NEW s \in Seq(P), NEW u \in Seq(P), NEW c, c = s \o u, Len(s) = 5
    PROVE  TupleStart(c, 3) = 0 /\ ValueStart(c, 3) = Measure(s)
<1>1. PICK n \in 0 .. Len(s) : n = 5
    OBVIOUS
<1>2. Bytes(c, n) = Bytes(s, n)
    BY <1>1, BytesOfFirst
<1>3. Bytes(s, Len(s)) = Measure(s)
    BY BytesNext
<1>4. c \in Seq(P)
    BY Joins
<1>5. Bytes(c, 0) = 0
    BY <1>4, BytesNext, Zenon
<1>6. 3 - 3 = 0 /\ 3 + 2 = 5
    OBVIOUS
<1>7. TupleStart(c, 3) = 0
    BY <1>5, <1>6, Zenon DEF TupleStart
<1>8. Bytes(c, 5) = Measure(s)
    BY <1>1, <1>2, <1>3, Zenon
<1>9. ValueStart(c, 3) = Measure(s)
    BY <1>6, <1>8, Zenon DEF ValueStart
<1> QED BY <1>7, <1>9

LEMMA TupleReadable ==
    ASSUME NEW P, Sized(P), NEW type \in ParentTypes \cup LeafTypes,
           NEW head \in Seq(P), HeadFor(type, head), NEW inside \in Seq(P), Readable(inside),
           NEW value, value = head \o inside,
           NEW sfl \in Seq(P), SflFor(type, sfl, Measure(value)), NEW c, c = sfl \o value
    PROVE  Readable(c) /\ WholeTuple(c)
<1>0. PICK h : h = sfl \o head
    OBVIOUS
<1>1. /\ value \in Seq(P) /\ h \in Seq(P) /\ c \in Seq(P) /\ c = h \o inside
    <2>4. (sfl \o head) \o inside = sfl \o (head \o inside)
        BY Associative
    <2>5. c = h \o inside
        BY <1>0, <2>4, Zenon
    <2>6. value \in Seq(P) /\ h \in Seq(P)
        BY <1>0, Joins
    <2>7. c \in Seq(P)
        BY <2>6, Joins
    <2> QED BY <2>5, <2>6, <2>7
<1>18. /\ Len(sfl) = 5 /\ Len(h) = 5 + Len(head)
       /\ Len(c) = 5 + Len(value) /\ Len(value) = Len(head) + Len(inside)
       /\ Len(head) \in Nat /\ Len(inside) \in Nat
    <2>1. Len(sfl) = 5
        BY DEF SflFor
    <2>2. JoinOf(value, head, inside)
        BY Joins
    <2>3. JoinOf(h, sfl, head)
        BY <1>0, Joins
    <2>4. JoinOf(c, sfl, value)
        BY <1>1, Joins
    <2> QED BY <2>1, <2>2, <2>3, <2>4 DEF JoinOf
<1>2. /\ Measure(sfl) \in Nat /\ Measure(head) \in Nat /\ Measure(inside) \in Nat
      /\ Measure(value) \in Nat
    BY <1>1, MeasureType
<1>3. Measure(value) = Measure(head) + Measure(inside)
    BY MeasureJoined
<1>4. Measure(c) = Measure(sfl) + Measure(value)
    BY <1>1, MeasureJoined
<1>5. Measure(h) = Measure(sfl) + Measure(head)
    BY <1>0, MeasureJoined
<1>6. /\ c[1] = sfl[1] /\ c[3] = sfl[3] /\ c[5] = sfl[5]
      /\ Len(head) >= 2 => c[7] = head[2]
    <2>1. JoinOf(c, sfl, value) /\ JoinOf(value, head, inside)
        BY <1>1, Joins
    <2>2. c[1] = sfl[1] /\ c[3] = sfl[3] /\ c[5] = sfl[5]
        BY <1>18, <2>1 DEF JoinOf
    <2>3. ASSUME Len(head) >= 2 PROVE c[7] = head[2]
        <3>1. c[5 + 2] = value[2]
            BY <1>18, <2>1, <2>3 DEF JoinOf
        <3>2. value[2] = head[2]
            BY <1>18, <2>1, <2>3 DEF JoinOf
        <3>3. 5 + 2 = 7
            OBVIOUS
        <3> QED BY <3>1, <3>2, <3>3, Zenon
    <2> QED BY <2>2, <2>3
<1>7. 3 \in FormatsOf(c) /\ c[3].kind = type
    BY <1>1, <1>18, <1>6 DEF FormatsOf, SflFor
<1>8. Framed(c, 3)
    <2>3. c[1].size = 1 /\ c[5].value \in Nat
        BY <1>2, <1>6, Zenon DEF SflFor
    <2>4. 3 - 2 = 1 /\ 3 + 2 = 5
        OBVIOUS
    <2>1. c[3 - 2].size = 1 /\ c[3 + 2].value \in Nat
        BY <2>3, <2>4, Zenon
    <2>2. c[3].kind \in {"Set", "Array"} => 3 + 4 <= Len(c)
        BY <1>7, <1>18 DEF HeadFor
    <2> QED BY <1>18, <2>1, <2>2 DEF Framed
<1>9. TupleStart(c, 3) = 0 /\ ValueStart(c, 3) = Measure(sfl)
    BY <1>1, <1>18, FirstFive
<1>11. ValueEnd(c, 3) = Measure(c)
    <2>2. c[5].value = Measure(value)
        BY <1>6, Zenon DEF SflFor
    <2>3. 3 + 2 = 5
        OBVIOUS
    <2>1. c[3 + 2].value = Measure(value)
        BY <2>2, <2>3, Zenon
    <2> QED BY <1>4, <1>9, <2>1 DEF ValueEnd
<1>12. ASSUME type \in ParentTypes PROVE FirstInside(c, 3) = Measure(h)
    <2>1. CASE type \in {"Set", "Array"}
        <3>1. Len(head) = 2 /\ Measure(head) = head[2].size + 1
            BY <2>1 DEF HeadFor
        <3>6. Len(head) >= 2
            BY <3>1
        <3>2. c[7] = head[2]
            BY <1>6, <3>6, Zenon
        <3>5. 3 + 4 = 7
            OBVIOUS
        <3>3. c[3 + 4] = head[2]
            BY <3>2, <3>5, Zenon
        <3>4. FirstInside(c, 3) = Measure(sfl) + (head[2].size + 1)
            BY <1>7, <1>9, <2>1, <3>3 DEF FirstInside
        <3> QED BY <1>5, <3>1, <3>4
    <2>2. CASE type = "PropertyAnnotation"
        <3>1. Measure(head) = 0
            BY <2>2, MeasureEmpty DEF HeadFor
        <3> QED BY <1>2, <1>5, <1>7, <1>9, <2>2, <3>1 DEF FirstInside
    <2> QED BY <1>12, <2>1, <2>2 DEF ParentTypes
<1>13. Chained(inside) /\ 0 \in Boundaries(inside)
    BY DEF Readable
<1>14. Measure(h) \in Boundaries(c)
    <2>1. Measure(h) + 0 \in Boundaries(c)
        BY <1>1, <1>13, SecondShifts DEF Shifts
    <2> QED BY <1>2, <1>5, <2>1
<1>15. Measure(c) \in Boundaries(c) /\ 0 \in Boundaries(c)
    BY <1>7, <1>9 DEF Boundaries
<1>16. Reads(c, 3)
    <2>1. Measure(h) <= Measure(c)
        BY <1>2, <1>3, <1>4, <1>5
    <2> QED BY <1>7, <1>8, <1>11, <1>12, <1>14, <1>15, <2>1 DEF Reads, Followed
<1>17. ASSUME NEW k \in FormatsOf(c) PROVE Reads(c, k)
    <2>1. ASSUME k \in FormatsOf(h) PROVE k = 3
        <3>1. k \in FormatsOf(sfl) \/ \E q \in FormatsOf(head) : k = Len(sfl) + q
            <4>1. OfEither(sfl, head, k)
                BY <1>0, <2>1, FormatsJoined
            <4> QED BY <4>1 DEF OfEither
        <3> QED BY <3>1 DEF SflFor, HeadFor
    <2>2. ASSUME NEW q \in FormatsOf(inside), k = Len(h) + q PROVE Reads(c, k)
        BY <1>1, <1>13, <2>2, SecondReads
    <2>3. k \in FormatsOf(h) \/ \E q \in FormatsOf(inside) : k = Len(h) + q
        <3>1. OfEither(h, inside, k)
            BY <1>1, <1>17, FormatsJoined
        <3> QED BY <3>1 DEF OfEither
    <2> QED BY <1>16, <2>1, <2>2, <2>3
<1> QED BY <1>7, <1>8, <1>9, <1>11, <1>15, <1>17 DEF Readable, Chained, WholeTuple

-----------------------------------------------------------------------------
(* The encoding of a tree is readable.                                       *)

ReadsAt(tree, at) == Readable(TuplesFrom(tree)[at])

LEMMA TupleOfPlace ==
    ASSUME NEW tree \in TreeType, NoCycle(tree), NEW at \in Places \ Ends,
           ReadsAt(tree, Inside(tree, at))
    PROVE  Readable(TreeEncoding(tree, at)) /\ WholeTuple(TreeEncoding(tree, at))
<1>1. PICK P : P = PiecesOf(Said(tree)) /\ Sized(P)
    BY PiecesSized
<1>2. PICK inside, head, value :
          /\ inside = TuplesFrom(tree)[Inside(tree, at)]
          /\ head = ValueHead(tree, at) /\ value = head \o inside
    OBVIOUS
<1>3. inside \in Seq(P) /\ head \in Seq(P)
    BY <1>1, <1>2, TuplesTyped, HeadOf DEF Encodings
<1>4. Measure(value) \in Nat
    <2>1. value \in Seq(P)
        BY <1>2, <1>3, Joins
    <2> QED BY <1>1, <2>1, MeasureType
<1>5. tree[at.node] \in NodeType /\ SequenceNumber(Found(tree, at)) \in Nat
    BY PlaceParts, LinkTypes, NextPlaces DEF FoundType
<1>6. PICK node, n, seq :
          /\ node = [tree[at.node] EXCEPT !.ro = @ \/ Found(tree, at).again]
          /\ n = Measure(value) /\ seq = SequenceNumber(Found(tree, at))
    OBVIOUS
<1>7. node.type = tree[at.node].type /\ node.type \in ParentTypes \cup LeafTypes
    BY <1>5, <1>6 DEF NodeType
<1>8. PICK sfl, c : sfl = EncodeSFL(node, seq, n) /\ c = sfl \o value
    OBVIOUS
<1>9. TreeEncoding(tree, at) = c
    BY <1>2, <1>6, <1>8, TupleAtOver DEF TreeEncoding, TupleOver
<1>10. SflFor(node.type, sfl, Measure(value))
    BY <1>4, <1>5, <1>6, <1>7, <1>8, SflIs
<1>11. sfl \in Seq(P)
    <2>1. Nat \subseteq Said(tree)
        BY DEF Said
    <2> QED BY <1>1, <1>4, <1>5, <1>6, <1>7, <1>8, <2>1, SflOf
<1>12. HeadFor(node.type, head) /\ Readable(inside)
    BY <1>2, <1>7, HeadIs DEF ReadsAt
<1>13. Readable(c) /\ WholeTuple(c)
    BY <1>1, <1>2, <1>3, <1>7, <1>8, <1>10, <1>11, <1>12, TupleReadable
<1> QED BY <1>9, <1>13

LEMMA PlacesRead ==
    ASSUME NEW tree \in TreeType, NoCycle(tree)
    PROVE  \A at \in Places : ReadsAt(tree, at)
<1> DEFINE T == {at \in Places : ReadsAt(tree, at)}
<1>1. ASSUME NEW at \in Ends PROVE at \in T
    BY TuplesEquation, NothingReadable DEF ReadsAt, Ends
<1>2. ASSUME NEW at \in Places \ Ends, Inside(tree, at) \in T, Behind(tree, at) \in T
      PROVE  at \in T
    <2>1. PICK P : P = PiecesOf(Said(tree)) /\ Sized(P)
        BY PiecesSized
    <2>2. PICK first, behind, c :
              /\ first = TreeEncoding(tree, at)
              /\ behind = TuplesFrom(tree)[Behind(tree, at)] /\ c = TuplesFrom(tree)[at]
        OBVIOUS
    <2>3. Readable(first) /\ Readable(behind)
        BY <1>2, <2>2, TupleOfPlace DEF ReadsAt
    <2>4. first \in Seq(P) /\ behind \in Seq(P) /\ c = first \o behind
        BY <2>1, <2>2, TuplesTyped, TuplesEquation DEF TreeEncoding, Encodings
    <2>5. Readable(c)
        BY <2>1, <2>3, <2>4, ReadableJoined
    <2> QED BY <2>2, <2>5 DEF ReadsAt
<1>3. T = Places
    <2> HIDE DEF T
    <2>1. T \in SUBSET Places
        BY DEF T
    <2> QED BY <1>1, <1>2, <2>1, PlaceInduction
<1> QED BY <1>3

LEMMA TreeReadable ==
    ASSUME NEW tree \in TreeType, NoCycle(tree), NEW at \in Places \ Ends
    PROVE  Readable(TreeEncoding(tree, at)) /\ WholeTuple(TreeEncoding(tree, at))
<1>1. Inside(tree, at) \in Places
    BY NextPlaces
<1> QED BY <1>1, PlacesRead, TupleOfPlace

-----------------------------------------------------------------------------
(* What bejEncode has written can be read behind its header.                 *)

\* The first tuple is the resource, behind the seven bytes of the header.
BlockReads(c) ==
    /\ Chained(c)
    /\ 6 \in FormatsOf(c) /\ TupleStart(c, 6) = 7 /\ ValueEnd(c, 6) = Measure(c)
    /\ \A p \in FormatsOf(c) : TupleStart(c, p) >= 7

LEMMA HeaderIs ==
    /\ Len(Header) = 3 /\ FormatsOf(Header) = {} /\ Measure(Header) = 7
    /\ \A P : (\A size \in Nat : Piece("data", size, 0) \in P) => Header \in Seq(P)
<1>1. PICK p1, p2, p3 :
          /\ p1 = Piece("data", 4, 0) /\ p2 = Piece("data", 2, 0) /\ p3 = Piece("data", 1, 0)
    OBVIOUS
<1>2. Header = <<p1, p2, p3>>
    BY <1>1 DEF Header
<1>3. /\ p1.size = 4 /\ p2.size = 2 /\ p3.size = 1
      /\ p1.kind = "data" /\ p2.kind = "data" /\ p3.kind = "data"
    BY <1>1 DEF Piece
<1>4. Len(Header) = 3 /\ DOMAIN Header = {1, 2, 3}
      /\ Header[1] = p1 /\ Header[2] = p2 /\ Header[3] = p3
    BY <1>2
<1>5. FormatsOf(Header) = {}
    BY <1>3, <1>4 DEF FormatsOf, ParentTypes, LeafTypes
<1>6. Measure(Header) = 7
    <2> DEFINE P == {p1, p2, p3}
    <2>1. Sized(P)
        BY <1>3 DEF Sized
    <2>2. Header \in Seq(P)
        BY <1>2
    <2> HIDE DEF P
    <2>3. /\ Bytes(Header, 0) = 0 /\ Bytes(Header, Len(Header)) = Measure(Header)
          /\ \A n \in 1 .. Len(Header) :
                Bytes(Header, n) = Bytes(Header, n - 1) + Header[n].size
        BY <2>1, <2>2, BytesNext
    <2>4. Bytes(Header, 1) = 4
        BY <1>3, <1>4, <2>3
    <2>5. Bytes(Header, 2) = 6
        BY <1>3, <1>4, <2>3, <2>4
    <2>6. Bytes(Header, 3) = 7
        BY <1>3, <1>4, <2>3, <2>5
    <2> QED BY <1>4, <2>3, <2>6
<1>7. ASSUME NEW P, \A size \in Nat : Piece("data", size, 0) \in P
      PROVE  Header \in Seq(P)
    <2>1. p1 \in P /\ p2 \in P /\ p3 \in P
        BY <1>1, <1>7
    <2> QED BY <1>2, <2>1
<1> QED BY <1>4, <1>5, <1>6, <1>7

LEMMA BehindHeader ==
    ASSUME NEW P, Sized(P), Header \in Seq(P), NEW s \in Seq(P), Readable(s), WholeTuple(s),
           NEW c, c = Header \o s
    PROVE  c \in Seq(P) /\ BlockReads(c) /\ Measure(c) = 7 + Measure(s) /\ Measure(s) \in Nat
<1> DEFINE h == Header
<1>1. h \in Seq(P) /\ Len(h) = 3 /\ FormatsOf(h) = {} /\ Measure(h) = 7 /\ c = h \o s
    BY HeaderIs
<1> HIDE DEF h
<1>2. c \in Seq(P) /\ Measure(c) = 7 + Measure(s) /\ Measure(s) \in Nat
    BY <1>1, Joins, MeasureJoined, MeasureType
<1>3. Chained(s)
    BY DEF Readable
<1>4. ASSUME NEW p \in FormatsOf(c)
      PROVE  \E q \in FormatsOf(s) : p = Len(h) + q
    <2>1. OfEither(h, s, p)
        BY <1>1, FormatsJoined
    <2> QED BY <1>1, <2>1 DEF OfEither
<1>5. Chained(c)
    <2>1. ASSUME NEW p \in FormatsOf(c) PROVE Reads(c, p)
        BY <1>1, <1>3, <1>4, SecondReads
    <2> QED BY <2>1 DEF Chained
<1>6. ASSUME NEW q \in FormatsOf(s), NEW p, p = Len(h) + q PROVE TupleMoved(s, q, c, p, 7)
    <2>1. Framed(s, q)
        BY <1>3 DEF Chained, Reads
    <2>2. TupleMoved(s, q, c, p, Measure(h))
        BY <1>1, <1>6, <2>1, FormatMoved
    <2> QED BY <1>1, <2>2
<1>7. ASSUME NEW p \in FormatsOf(c) PROVE TupleStart(c, p) >= 7
    <2>1. PICK q \in FormatsOf(s) : p = Len(h) + q
        BY <1>4
    <2>2. TupleMoved(s, q, c, p, 7)
        BY <1>6, <2>1
    <2> QED BY <2>2 DEF TupleMoved
<1>8. 6 \in FormatsOf(c) /\ TupleStart(c, 6) = 7 /\ ValueEnd(c, 6) = Measure(c)
    <2>1. PICK q : q = 3
        OBVIOUS
    <2>2. PICK p : p = 6
        OBVIOUS
    <2>3. q \in FormatsOf(s) /\ p = Len(h) + q
        BY <1>1, <2>1, <2>2 DEF WholeTuple
    <2>4. TupleMoved(s, q, c, p, 7)
        BY <1>6, <2>3
    <2>5. TupleStart(s, q) = 0 /\ ValueEnd(s, q) = Measure(s)
        BY <2>1 DEF WholeTuple
    <2>6. p \in FormatsOf(c) /\ TupleStart(c, p) = 7 /\ ValueEnd(c, p) = Measure(c)
        BY <1>2, <2>4, <2>5 DEF TupleMoved
    <2> QED BY <2>2, <2>6
<1> QED BY <1>2, <1>5, <1>7, <1>8 DEF BlockReads

\* What a call that returns zero has written.
LEMMA WrittenReads ==
    ASSUME EncodeInv, ret = "OK", ~failed
    PROVE  \E P : Sized(P) /\ output \in Seq(P) /\ BlockReads(output)
                  /\ Measure(output) \in Nat /\ Measure(output) >= 7
<1>1. PICK tree, below, height : CallInv(tree, below, height, <<>>)
    BY DEF EncodeInv
<1>2. TypeOK
    BY DEF EncodeInv
<1>3. EncodingIsExact /\ Encoding = Header \o TreeEncoding(tree, Root)
    BY <1>1, <1>2, CallPromises, SamePromise
<1>4. output = Header \o TreeEncoding(tree, Root)
    BY <1>3 DEF EncodingIsExact
<1>5. tree \in TreeType /\ NoCycle(tree) /\ Root \in Places \ Ends
    BY <1>1, <1>2, RootPlace DEF CallInv, Frame, WellBuilt
<1>6. PICK P, s : P = PiecesOf(Said(tree)) /\ s = TreeEncoding(tree, Root) /\ Sized(P)
    BY PiecesSized
<1>7. s \in Seq(P) /\ Header \in Seq(P)
    <2>1. Frame(tree, below, height, <<>>)
        BY <1>1 DEF CallInv
    <2> QED BY <1>2, <1>6, <2>1, EmitStart DEF Encodings
<1>8. Readable(s) /\ WholeTuple(s)
    BY <1>5, <1>6, TreeReadable
<1>9. output \in Seq(P) /\ BlockReads(output) /\ Measure(output) = 7 + Measure(s)
      /\ Measure(s) \in Nat
    BY <1>4, <1>6, <1>7, <1>8, BehindHeader
<1> QED BY <1>6, <1>9

-----------------------------------------------------------------------------
(* The block that is handed to the decoder.                                  *)

\* What the decoder reads of a tuple, and where it looks for the next one.
FollowedTuple(t, o, next) ==
    /\ o \in Nat /\ t.hdr \in Nat /\ t.len \in Nat
    /\ t.type \in ParentTypes \cup LeafTypes
    /\ (o + t.hdr) + t.len \in next
    /\ t.type \in ParentTypes =>
          t.nnSize \in Nat /\ t.nnSize <= t.len /\ (o + t.hdr) + t.nnSize \in next
    /\ t.type = "PropertyAnnotation" => t.nnSize = 0

\* Every tuple of a stream is followed by a tuple, or by the end of the first
\* one, which is the end of the stream.
ChainedStream(tuples, total) ==
    /\ total \in Nat
    /\ 0 \in DOMAIN tuples /\ (0 + tuples[0].hdr) + tuples[0].len = total
    /\ \A o \in DOMAIN tuples : FollowedTuple(tuples[o], o, DOMAIN tuples \cup {total})

LEMMA FormatsAre == Formats = FormatsOf(output)
BY DEF Formats, FormatsOf

LEMMA FormatBytes ==
    ASSUME NEW P, Sized(P), output \in Seq(P), NEW p \in FormatsOf(output), Framed(output, p)
    PROVE  /\ OffsetOf(p) = TupleStart(output, p) - 7
           /\ TupleWritten(p).hdr = ValueStart(output, p) - TupleStart(output, p)
           /\ TupleStart(output, p) \in Nat /\ ValueStart(output, p) \in Nat
           /\ ValueStart(output, p) >= TupleStart(output, p)
<1>1. p \in 1 .. Len(output) /\ Len(output) \in Nat /\ p - 2 >= 1 /\ p + 2 <= Len(output)
    BY DEF FormatsOf, Framed
<1>2. PICK a, b : a = p - 3 /\ b = p + 2
    OBVIOUS
<1>3. a \in 0 .. Len(output) /\ b \in a .. Len(output) /\ b \in 0 .. Len(output)
    BY <1>1, <1>2
<1>4. (p - 2) - 1 = a /\ (p + 3) - 1 = b
    BY <1>1, <1>2
<1>5. BytesBefore(p - 2) = Bytes(output, a) /\ BytesBefore(p + 3) = Bytes(output, b)
    BY <1>4, Zenon DEF BytesBefore, Bytes
<1>6. TupleStart(output, p) = Bytes(output, a) /\ ValueStart(output, p) = Bytes(output, b)
    BY <1>2, Zenon DEF TupleStart, ValueStart
<1>7. Bytes(output, a) \in Nat /\ Bytes(output, b) \in Nat
    BY <1>3, BytesNext
<1>8. Bytes(output, a) <= Bytes(output, b)
    BY <1>3, BytesGrow
<1>9. Decoder!PldmHeaderSize = 7
    BY DEF Decoder!PldmHeaderSize
<1>10. OffsetOf(p) = TupleStart(output, p) - 7
    BY <1>5, <1>6, <1>9, Zenon DEF OffsetOf
<1>11. TupleWritten(p).hdr = BytesBefore(p + 3) - BytesBefore(p - 2)
    BY DEF TupleWritten
<1> QED BY <1>5, <1>6, <1>7, <1>8, <1>10, <1>11

LEMMA AllBytes ==
    ASSUME NEW P, output \in Seq(P)
    PROVE  BytesBefore(Len(output) + 1) = Measure(output)
<1>1. (Len(output) + 1) - 1 = Len(output)
    OBVIOUS
<1>2. SubSeq(output, 1, Len(output)) = output
    OBVIOUS
<1> QED BY <1>1, <1>2, Zenon DEF BytesBefore

\* The fields of a tuple written.
LEMMA FieldsWritten ==
    ASSUME NEW p
    PROVE  /\ TupleWritten(p).type = output[p].kind
           /\ TupleWritten(p).len = output[p + 2].value
           /\ TupleWritten(p).nnSize = IF output[p].kind \in {"Set", "Array", "Enum"}
                                       THEN output[p + 4].size + 1 ELSE 0
BY DEF TupleWritten

LEMMA TupleFollowed ==
    ASSUME NEW P, Sized(P), output \in Seq(P), BlockReads(output), NEW p \in FormatsOf(output),
           NEW next, \A b \in Boundaries(output) : b - 7 \in next
    PROVE  FollowedTuple(TupleWritten(p), OffsetOf(p), next)
<1>1. Framed(output, p) /\ Followed(output, p, Boundaries(output)) /\ TupleStart(output, p) >= 7
    BY DEF BlockReads, Chained, Reads
<1>2. PICK t, start, value, o : t = TupleWritten(p) /\ start = TupleStart(output, p)
                             /\ value = ValueStart(output, p) /\ o = OffsetOf(p)
    OBVIOUS
<1>3. /\ o = start - 7 /\ t.hdr = value - start
      /\ start \in Nat /\ value \in Nat /\ value >= start /\ start >= 7
    BY <1>1, <1>2, FormatBytes
<1>4. /\ t.type = output[p].kind /\ t.type \in ParentTypes \cup LeafTypes
      /\ t.len = output[p + 2].value /\ t.len \in Nat
      /\ t.nnSize = IF t.type \in {"Set", "Array", "Enum"} THEN output[p + 4].size + 1 ELSE 0
    BY <1>1, <1>2, FieldsWritten DEF FormatsOf, Framed
<1>5. (o + t.hdr) + t.len \in next
    <2>1. ValueEnd(output, p) = value + t.len
        BY <1>2, <1>4 DEF ValueEnd
    <2>2. (o + t.hdr) + t.len = ValueEnd(output, p) - 7
        BY <1>3, <1>4, <2>1
    <2> QED BY <1>1, <2>2, Zenon DEF Followed
<1>6. ASSUME t.type \in ParentTypes
      PROVE  t.nnSize \in Nat /\ t.nnSize <= t.len /\ (o + t.hdr) + t.nnSize \in next
    <2>1. FirstInside(output, p) \in Boundaries(output)
          /\ FirstInside(output, p) <= ValueEnd(output, p)
        BY <1>1, <1>4, <1>6 DEF Followed
    <2>2. ValueEnd(output, p) = value + t.len
        BY <1>2, <1>4 DEF ValueEnd
    <2>3. t.nnSize \in Nat /\ FirstInside(output, p) = value + t.nnSize
        <3>1. CASE t.type \in {"Set", "Array"}
            <4>1. p + 4 \in DOMAIN output
                BY <1>1, <1>4, <3>1 DEF Framed, FormatsOf
            <4>2. output[p + 4].size \in Nat
                BY <4>1 DEF Sized
            <4>3. t.nnSize = output[p + 4].size + 1
                BY <1>4, <3>1
            <4>4. FirstInside(output, p) = value + (output[p + 4].size + 1)
                BY <1>2, <1>4, <3>1, Zenon DEF FirstInside
            <4> QED BY <4>2, <4>3, <4>4
        <3>2. CASE t.type = "PropertyAnnotation"
            <4>1. FirstInside(output, p) = value + 0 /\ t.nnSize = 0
                BY <1>2, <1>4, <3>2 DEF FirstInside
            <4> QED BY <4>1
        <3> QED BY <1>6, <3>1, <3>2 DEF ParentTypes
    <2>4. (o + t.hdr) + t.nnSize = FirstInside(output, p) - 7
        BY <1>3, <2>3
    <2>5. t.nnSize <= t.len
        <3>1. value + t.nnSize <= value + t.len
            BY <2>1, <2>2, <2>3, Zenon
        <3>2. value \in Nat /\ t.len \in Nat /\ t.nnSize \in Nat
            BY <1>3, <1>4, <2>3
        <3> QED BY <3>1, <3>2
    <2> QED BY <2>1, <2>3, <2>4, <2>5, Zenon
<1>7. o \in Nat /\ t.hdr \in Nat
    BY <1>3
<1>8. t.type = "PropertyAnnotation" => t.nnSize = 0
    BY <1>4
<1> QED BY <1>2, <1>4, <1>5, <1>6, <1>7, <1>8 DEF FollowedTuple

\* The stream is what has been written, tuple by tuple.
LEMMA StreamWritten ==
    ASSUME NEW P, Sized(P), output \in Seq(P), BlockReads(output), Measure(output) \in Nat,
           NEW tuples,
           tuples = [o \in {OffsetOf(p) : p \in Formats} |->
                        TupleWritten(CHOOSE p \in Formats : OffsetOf(p) = o)],
           NEW total, total = Measure(output) - 7, Measure(output) >= 7
    PROVE  ChainedStream(tuples, total)
<1>0. Formats = FormatsOf(output)
    BY FormatsAre
<1>1. ASSUME NEW p \in FormatsOf(output)
      PROVE  Framed(output, p) /\ OffsetOf(p) = TupleStart(output, p) - 7
             /\ TupleStart(output, p) \in Nat
    <2>1. Framed(output, p)
        BY DEF BlockReads, Chained, Reads
    <2> QED BY <2>1, FormatBytes
<1>2. ASSUME NEW p \in FormatsOf(output), NEW q \in FormatsOf(output),
             OffsetOf(p) = OffsetOf(q)
      PROVE  p = q
    <2>1. TupleStart(output, p) = TupleStart(output, q)
        BY <1>1, <1>2
    <2> QED BY <1>1, <2>1, StartsDiffer
<1>3. DOMAIN tuples = {OffsetOf(p) : p \in FormatsOf(output)}
    BY <1>0
<1>4. ASSUME NEW p \in FormatsOf(output) PROVE tuples[OffsetOf(p)] = TupleWritten(p)
    <2>1. (CHOOSE q \in FormatsOf(output) : OffsetOf(q) = OffsetOf(p)) = p
        BY <1>2
    <2>2. OffsetOf(p) \in {OffsetOf(q) : q \in Formats}
        BY <1>0
    <2>3. tuples[OffsetOf(p)] = TupleWritten(CHOOSE q \in Formats : OffsetOf(q) = OffsetOf(p))
        BY <2>2, Zenon
    <2> QED BY <1>0, <2>1, <2>3, Zenon
<1>5. ASSUME NEW b \in Boundaries(output) PROVE b - 7 \in DOMAIN tuples \cup {total}
    <2>1. CASE b = Measure(output)
        BY <2>1
    <2>2. ASSUME NEW p \in FormatsOf(output), b = TupleStart(output, p)
          PROVE  b - 7 \in DOMAIN tuples \cup {total}
        <3>1. OffsetOf(p) = b - 7
            BY <1>1, <2>2
        <3>2. OffsetOf(p) \in DOMAIN tuples
            BY <1>3
        <3> QED BY <3>1, <3>2, Zenon
    <2> QED BY <2>1, <2>2 DEF Boundaries
<1>6. ASSUME NEW p \in FormatsOf(output)
      PROVE  FollowedTuple(TupleWritten(p), OffsetOf(p), DOMAIN tuples \cup {total})
    BY <1>5, TupleFollowed
<1>7. ASSUME NEW o \in DOMAIN tuples
      PROVE  FollowedTuple(tuples[o], o, DOMAIN tuples \cup {total})
    <2>1. PICK p \in FormatsOf(output) : o = OffsetOf(p)
        BY <1>3
    <2>2. tuples[o] = TupleWritten(p)
        BY <1>4, <2>1, Zenon
    <2>3. FollowedTuple(TupleWritten(p), OffsetOf(p), DOMAIN tuples \cup {total})
        BY <1>6
    <2> QED BY <2>1, <2>2, <2>3, Zenon
<1>8. 0 \in DOMAIN tuples /\ (0 + tuples[0].hdr) + tuples[0].len = total
    <2>1. PICK p : p = 6
        OBVIOUS
    <2>2. /\ p \in FormatsOf(output) /\ TupleStart(output, p) = 7
          /\ ValueEnd(output, p) = Measure(output)
        BY <2>1 DEF BlockReads
    <2>3. Framed(output, p) /\ OffsetOf(p) = 7 - 7
        BY <1>1, <2>2
    <2>4. OffsetOf(p) = 0
        BY <2>3
    <2>5. 0 \in DOMAIN tuples /\ tuples[0] = TupleWritten(p)
        BY <1>3, <1>4, <2>2, <2>4, Zenon
    <2>6. /\ TupleWritten(p).hdr = ValueStart(output, p) - 7
          /\ ValueStart(output, p) \in Nat
        BY <2>2, <2>3, FormatBytes
    <2>7. TupleWritten(p).len = output[p + 2].value /\ output[p + 2].value \in Nat
        BY <2>3, FieldsWritten DEF Framed
    <2>8. ValueStart(output, p) + output[p + 2].value = Measure(output)
        BY <2>2 DEF ValueEnd
    <2> QED BY <2>5, <2>6, <2>7, <2>8
<1>9. total \in Nat
    OBVIOUS
<1> QED BY <1>7, <1>8, <1>9 DEF ChainedStream

-----------------------------------------------------------------------------
(* The decoder on a stream whose tuples follow each other. Each of its steps *)
(* leaves it at a tuple, or at the end of the stream.                        *)

DecoderWalks == decPc \in {"loop", "handle"} \cup Decoder!Endings

ReaderInv(total) ==
    /\ block.blockLength = total + 7 /\ total + 7 < U32
    /\ ChainedStream(stream, total)
    /\ decPc \in {"block", "root"} => encodedStreamOffset = 0
    /\ DecoderWalks => /\ payloadLen = total
                       /\ encodedStreamOffset \in DOMAIN stream \cup {total}
    /\ decPc = "handle" => /\ encodedStreamOffset \in DOMAIN stream
                           /\ sflv = stream[encodedStreamOffset]
                           /\ Decoder!bejInitSFLVStruct(sflv, encodedStreamOffset)

\* No sum the decoder computes of a tuple it has accepted is too large.
LEMMA NoWrap ==
    ASSUME NEW t, NEW o, NEW next, FollowedTuple(t, o, next), Decoder!bejInitSFLVStruct(t, o)
    PROVE  /\ Decoder!ValueEndOffset(t, o) = (o + t.hdr) + t.len
           /\ Decoder!ValueEndOffset(t, o) - t.len = o + t.hdr
           /\ t.type \in ParentTypes =>
                 Decoder!AddU32(Decoder!ValueEndOffset(t, o) - t.len, t.nnSize) =
                     (o + t.hdr) + t.nnSize
<1>1. o \in Nat /\ t.hdr \in Nat /\ t.len \in Nat /\ U32 \in Nat
    BY BlocksAssumption DEF FollowedTuple
<1>2. t.hdr <= U32 - 1 - o /\ t.len <= U32 - 1 - Decoder!AddU32(o, t.hdr)
    BY DEF Decoder!bejInitSFLVStruct
<1>3. PICK h, l, s : h = t.hdr /\ l = t.len /\ s = t.nnSize
    OBVIOUS
<1>4. h \in Nat /\ l \in Nat /\ h <= U32 - 1 - o /\ l <= U32 - 1 - Decoder!AddU32(o, h)
    BY <1>1, <1>2, <1>3
<1>5. Decoder!AddU32(o, h) = o + h
    BY <1>1, <1>4 DEF Decoder!AddU32
<1>6. Decoder!AddU32(o + h, l) = (o + h) + l
    BY <1>1, <1>4, <1>5 DEF Decoder!AddU32
<1>7. Decoder!ValueEndOffset(t, o) = (o + h) + l
    BY <1>3, <1>5, <1>6, Zenon DEF Decoder!ValueEndOffset
<1>8. Decoder!ValueEndOffset(t, o) - l = o + h
    BY <1>1, <1>4, <1>7
<1>9. ASSUME t.type \in ParentTypes
      PROVE  Decoder!AddU32(Decoder!ValueEndOffset(t, o) - l, s) = (o + h) + s
    <2>1. s \in Nat /\ s <= l
        BY <1>3, <1>9 DEF FollowedTuple
    <2>2. Decoder!AddU32(o + h, s) = (o + h) + s
        BY <1>1, <1>4, <1>5, <2>1 DEF Decoder!AddU32
    <2> QED BY <1>8, <2>2, Zenon
<1> QED BY <1>3, <1>7, <1>8, <1>9

\* Where a handler can take the decoder.
LEMMA HandlersOffsets ==
    ASSUME NEW total, ReaderInv(total), decPc = "handle"
    PROVE  /\ sflv.type \in ParentTypes \cup LeafTypes
           /\ Decoder!valueEndOffset \in DOMAIN stream \cup {total}
           /\ sflv.type \in ParentTypes =>
                 Decoder!bejGetFirstTupleOffset \in DOMAIN stream \cup {total}
           /\ sflv.type = "PropertyAnnotation" =>
                 Decoder!ValueStartOffset \in DOMAIN stream \cup {total}
<1> DEFINE o == encodedStreamOffset
           next == DOMAIN stream \cup {total}
<1>1. FollowedTuple(sflv, o, next) /\ Decoder!bejInitSFLVStruct(sflv, o)
    BY DEF ReaderInv, ChainedStream
<1>2. sflv.type \in ParentTypes \cup LeafTypes
    BY <1>1 DEF FollowedTuple
<1>3. (o + sflv.hdr) + sflv.len \in next
    BY <1>1 DEF FollowedTuple
<1>4. Decoder!valueEndOffset \in next
    <2>1. Decoder!valueEndOffset = (o + sflv.hdr) + sflv.len
        BY <1>1, NoWrap DEF Decoder!valueEndOffset
    <2> QED BY <1>3, <2>1
<1>5. ASSUME sflv.type \in ParentTypes PROVE Decoder!bejGetFirstTupleOffset \in next
    <2>1. Decoder!bejGetFirstTupleOffset = (o + sflv.hdr) + sflv.nnSize
        BY <1>1, <1>5, NoWrap
        DEF Decoder!bejGetFirstTupleOffset, Decoder!ValueStartOffset, Decoder!valueEndOffset
    <2>2. (o + sflv.hdr) + sflv.nnSize \in next
        BY <1>1, <1>5 DEF FollowedTuple
    <2> QED BY <2>1, <2>2
<1>6. ASSUME sflv.type = "PropertyAnnotation" PROVE Decoder!ValueStartOffset \in next
    <2>1. Decoder!ValueStartOffset = o + sflv.hdr
        BY <1>1, NoWrap DEF Decoder!ValueStartOffset, Decoder!valueEndOffset
    <2>2. sflv.nnSize = 0 /\ (o + sflv.hdr) + sflv.nnSize \in next
          /\ o \in Nat /\ sflv.hdr \in Nat
        BY <1>1, <1>6 DEF FollowedTuple, ParentTypes
    <2>3. (o + sflv.hdr) + 0 = o + sflv.hdr
        BY <2>2
    <2> QED BY <2>1, <2>2, <2>3, Zenon
<1> QED BY <1>2, <1>4, <1>5, <1>6

\* What every handler and every ending does.
Moves(total) ==
    /\ UNCHANGED <<block, stream, sflv, payloadLen>>
    /\ \/ decPc' = "done"
       \/ /\ decPc' \in {"loop"} \cup Decoder!Endings
          /\ encodedStreamOffset' \in DOMAIN stream \cup {total}

LEMMA MovesKeep ==
    ASSUME NEW total, ReaderInv(total), DecoderWalks, Moves(total)
    PROVE  ReaderInv(total)'
<1>1. /\ block' = block /\ stream' = stream /\ sflv' = sflv /\ payloadLen' = payloadLen
      /\ decPc' \notin {"block", "root", "handle"}
    BY DEF Moves, Decoder!Endings
<1>2. DecoderWalks' => /\ payloadLen' = total
                       /\ encodedStreamOffset' \in DOMAIN stream \cup {total}
    BY <1>1 DEF ReaderInv, DecoderWalks, Moves, Decoder!Endings
<1>3. block'.blockLength = total + 7 /\ total + 7 < U32 /\ ChainedStream(stream', total)
    BY <1>1 DEF ReaderInv
<1> QED BY <1>1, <1>2, <1>3 DEF ReaderInv

LEMMA ConsumeMoves ==
    ASSUME NEW total, ReaderInv(total), decPc = "handle",
           UNCHANGED <<block, stream, sflv, payloadLen>>,
           NEW cb, NEW prop, Decoder!ConsumeValue(cb, prop)
    PROVE  Moves(total)
<1>1. Decoder!valueEndOffset \in DOMAIN stream \cup {total}
    BY HandlersOffsets
<1>2. \/ /\ Decoder!AdvanceTo(Decoder!valueEndOffset)
         /\ Decoder!ReturnProcessEnding
      \/ Decoder!ReturnCallbackError
    BY DEF Decoder!ConsumeValue, Decoder!Callbacks
<1>3. CASE /\ Decoder!AdvanceTo(Decoder!valueEndOffset)
           /\ Decoder!ReturnProcessEnding
    <2>1. encodedStreamOffset' = Decoder!valueEndOffset
        BY <1>3 DEF Decoder!AdvanceTo
    <2>2. decPc' \in {"done", "ending"}
        BY <1>3 DEF Decoder!ReturnProcessEnding, Decoder!Return
    <2> QED BY <1>1, <2>1, <2>2 DEF Moves, Decoder!Endings
<1>4. CASE Decoder!ReturnCallbackError
    BY <1>4 DEF Moves, Decoder!ReturnCallbackError, Decoder!Return
<1> QED BY <1>2, <1>3, <1>4

LEMMA RejectMoves ==
    ASSUME NEW total, UNCHANGED <<block, stream, sflv, payloadLen>>,
           NEW status, Decoder!Reject(status)
    PROVE  Moves(total)
BY DEF Moves, Decoder!Reject, Decoder!Return

LEMMA EmptyMoves ==
    ASSUME NEW total, ReaderInv(total), decPc = "handle", sflv.type \in ParentTypes,
           UNCHANGED <<block, stream, sflv, payloadLen>>,
           NEW start, NEW end, NEW name, Decoder!EmptySection(start, end, name)
    PROVE  Moves(total)
<1>1. Decoder!bejGetFirstTupleOffset \in DOMAIN stream \cup {total}
    BY HandlersOffsets
<1>2. \/ /\ Decoder!AdvanceTo(Decoder!bejGetFirstTupleOffset)
         /\ decPc' \in {"loop", "emptyEnding"}
      \/ Decoder!ReturnCallbackError
    BY DEF Decoder!EmptySection, Decoder!Callbacks
<1>3. CASE /\ Decoder!AdvanceTo(Decoder!bejGetFirstTupleOffset)
           /\ decPc' \in {"loop", "emptyEnding"}
    <2>1. encodedStreamOffset' = Decoder!bejGetFirstTupleOffset
        BY <1>3 DEF Decoder!AdvanceTo
    <2> QED BY <1>1, <1>3, <2>1 DEF Moves, Decoder!Endings
<1>4. CASE Decoder!ReturnCallbackError
    BY <1>4 DEF Moves, Decoder!ReturnCallbackError, Decoder!Return
<1> QED BY <1>2, <1>3, <1>4

LEMMA EnterMoves ==
    ASSUME NEW total, UNCHANGED <<block, stream, sflv, payloadLen>>,
           NEW type, NEW start, NEW name, NEW names, NEW dict, NEW prop,
           NEW first \in DOMAIN stream \cup {total},
           Decoder!EnterSection(type, start, name, names, dict, prop, first)
    PROVE  Moves(total)
<1>1. \/ encodedStreamOffset' = first /\ decPc' = "loop"
      \/ Decoder!ReturnCallbackError
    BY DEF Decoder!EnterSection, Decoder!Callbacks
<1>2. CASE encodedStreamOffset' = first /\ decPc' = "loop"
    BY <1>2 DEF Moves
<1>3. CASE Decoder!ReturnCallbackError
    BY <1>3 DEF Moves, Decoder!ReturnCallbackError, Decoder!Return
<1> QED BY <1>1, <1>2, <1>3

LEMMA ContainerMoves ==
    ASSUME NEW total, ReaderInv(total), decPc = "handle", sflv.type \in ParentTypes,
           UNCHANGED <<block, stream, sflv, payloadLen>>,
           NEW seq, NEW type, NEW start, NEW end, NEW names,
           Decoder!HandleContainer(seq, type, start, end, names)
    PROVE  Moves(total)
<1>1. \/ \E status : Decoder!Reject(status)
      \/ \E name : Decoder!EmptySection(start, end, name)
      \/ \E name, dict, prop :
            Decoder!EnterSection(type, start, name, names, dict, prop,
                                 Decoder!bejGetFirstTupleOffset)
    BY DEF Decoder!HandleContainer
<1>2. Decoder!bejGetFirstTupleOffset \in DOMAIN stream \cup {total}
    BY HandlersOffsets
<1> QED BY <1>1, <1>2, RejectMoves, EmptyMoves, EnterMoves

LEMMA HandleMoves ==
    ASSUME NEW total, ReaderInv(total), Decoder!Handle
    PROVE  decPc = "handle" /\ Moves(total)
<1>0. decPc = "handle" /\ UNCHANGED <<block, stream, sflv, payloadLen>>
    BY DEF Decoder!Handle, Decoder!bejHandleBejSet, Decoder!bejHandleBejArray,
           Decoder!bejHandleBejPropertyAnnotation, Decoder!bejHandleBejNull,
           Decoder!bejHandleScalar, Decoder!bejHandleBejResourceLink,
           Decoder!bejHandleBejEnum
<1>1. CASE Decoder!bejHandleBejSet
    <2>1. sflv.type \in ParentTypes
        BY <1>1 DEF Decoder!bejHandleBejSet, ParentTypes
    <2>2. Decoder!HandleContainer(Decoder!ElementSeq, "Set", "SetStart", "SetEnd", TRUE)
        BY <1>1 DEF Decoder!bejHandleBejSet
    <2> QED BY <1>0, <2>1, <2>2, ContainerMoves
<1>2. CASE Decoder!bejHandleBejArray
    <2>1. sflv.type \in ParentTypes
        BY <1>2 DEF Decoder!bejHandleBejArray, ParentTypes
    <2>2. Decoder!HandleContainer(sflv.seq, "Array", "ArrayStart", "ArrayEnd", FALSE)
        BY <1>2 DEF Decoder!bejHandleBejArray
    <2> QED BY <1>0, <2>1, <2>2, ContainerMoves
<1>3. CASE Decoder!bejHandleBejPropertyAnnotation
    <2>1. Decoder!ValueStartOffset \in DOMAIN stream \cup {total}
        BY <1>0, <1>3, HandlersOffsets DEF Decoder!bejHandleBejPropertyAnnotation
    <2>2. \/ \E status : Decoder!Reject(status)
          \/ \E name, prop :
                Decoder!EnterSection("NoType", "Annotation", name, TRUE, "Primary", prop,
                                     Decoder!ValueStartOffset)
        BY <1>3 DEF Decoder!bejHandleBejPropertyAnnotation
    <2> QED BY <1>0, <2>1, <2>2, RejectMoves, EnterMoves
<1>4. CASE Decoder!bejHandleBejNull
    BY <1>0, <1>4, ConsumeMoves DEF Decoder!bejHandleBejNull
<1>5. CASE Decoder!bejHandleScalar
    BY <1>0, <1>5, ConsumeMoves DEF Decoder!bejHandleScalar
<1>6. CASE Decoder!bejHandleBejResourceLink
    BY <1>0, <1>6, ConsumeMoves, RejectMoves DEF Decoder!bejHandleBejResourceLink
<1>7. CASE Decoder!bejHandleBejEnum
    <2>1. \/ \E status : Decoder!Reject(status)
          \/ \E cb, prop : Decoder!ConsumeValue(cb, prop)
        BY <1>7 DEF Decoder!bejHandleBejEnum
    <2> QED BY <1>0, <2>1, ConsumeMoves, RejectMoves
<1> QED BY <1>0, <1>1, <1>2, <1>3, <1>4, <1>5, <1>6, <1>7 DEF Decoder!Handle

LEMMA EndingMoves ==
    ASSUME NEW total, ReaderInv(total), Decoder!ProcessEnding
    PROVE  decPc \in Decoder!Endings /\ Moves(total)
<1>0. decPc \in Decoder!Endings /\ UNCHANGED <<block, stream, sflv, payloadLen>>
      /\ encodedStreamOffset' = encodedStreamOffset
    BY DEF Decoder!ProcessEnding, Decoder!EndSection, Decoder!EndProperty, Decoder!EndStream,
           Decoder!state
<1>1. decPc' \in {decPc, "done", "loop"}
    BY DEF Decoder!ProcessEnding, Decoder!EndSection, Decoder!EndProperty, Decoder!EndStream,
           Decoder!Callbacks, Decoder!AfterEnding, Decoder!AfterEndingFailed, Decoder!Return
<1>2. encodedStreamOffset \in DOMAIN stream \cup {total}
    BY <1>0 DEF ReaderInv, DecoderWalks
<1> QED BY <1>0, <1>1, <1>2 DEF Moves

\* A tuple that has been read before is what it was.
LEMMA ReadAgain ==
    ASSUME NEW offset \in DOMAIN stream, NEW t, t \in Decoder!TuplesAt(offset),
           Decoder!Read(t, offset), NEW total, ChainedStream(stream, total)
    PROVE  t = stream[offset] /\ DOMAIN stream' = DOMAIN stream
           /\ \A o \in DOMAIN stream : stream'[o] = stream[o]
<1>1. t = stream[offset]
    BY DEF Decoder!TuplesAt
<1>2. stream' = [o \in DOMAIN stream \cup {offset} |-> IF o = offset THEN t ELSE stream[o]]
    BY DEF Decoder!Read
<1>3. DOMAIN stream \cup {offset} = DOMAIN stream
    OBVIOUS
<1>4. stream' = [o \in DOMAIN stream |-> IF o = offset THEN t ELSE stream[o]]
    BY <1>2, <1>3, Zenon
<1> QED BY <1>1, <1>4

LEMMA SameStream ==
    ASSUME NEW total, NEW s, NEW u, ChainedStream(s, total), DOMAIN u = DOMAIN s,
           \A o \in DOMAIN s : u[o] = s[o]
    PROVE  ChainedStream(u, total)
BY DEF ChainedStream

LEMMA DecoderKeeps ==
    ASSUME NEW total, ReaderInv(total), Decoder!Next
    PROVE  ReaderInv(total)'
<1>0. /\ block.blockLength = total + 7 /\ total + 7 < U32 /\ ChainedStream(stream, total)
      /\ total \in Nat
    BY DEF ReaderInv, ChainedStream
<1>1. CASE Decoder!bejDecodePldmBlockWithPolicy
    <2>1. /\ decPc = "block" /\ decPc' \in {"root", "done"}
          /\ UNCHANGED <<block, stream, sflv, payloadLen, encodedStreamOffset>>
        BY <1>1 DEF Decoder!bejDecodePldmBlockWithPolicy, Decoder!Reject, Decoder!Return,
                    Decoder!state
    <2> QED BY <1>0, <2>1 DEF ReaderInv, DecoderWalks, Decoder!Endings
<1>2. CASE Decoder!ReadRoot
    <2>1. decPc = "root" /\ block' = block
        BY <1>2 DEF Decoder!ReadRoot
    <2>2. encodedStreamOffset = 0 /\ 0 \in DOMAIN stream
        BY <1>0, <2>1 DEF ReaderInv, ChainedStream
    <2>3. CASE decPc' = "done" /\ stream' = stream
        BY <1>0, <2>1, <2>3 DEF ReaderInv, DecoderWalks, Decoder!Endings
    <2>4. ASSUME NEW t \in Decoder!TuplesAt(0), Decoder!Read(t, 0),
                 \/ decPc' = "done"
                 \/ /\ Decoder!RootStatus(t) = "OK"
                    /\ payloadLen' = Decoder!ValueEndOffset(t, 0)
                    /\ decPc' = "loop" /\ encodedStreamOffset' = encodedStreamOffset
          PROVE  ReaderInv(total)'
        <3>1. t = stream[0] /\ DOMAIN stream' = DOMAIN stream
              /\ \A o \in DOMAIN stream : stream'[o] = stream[o]
            BY <1>0, <2>2, <2>4, ReadAgain
        <3>2. ChainedStream(stream', total)
            BY <1>0, <3>1, SameStream
        <3>3. CASE decPc' = "done"
            BY <1>0, <2>1, <3>2, <3>3 DEF ReaderInv, DecoderWalks, Decoder!Endings
        <3>4. CASE /\ Decoder!RootStatus(t) = "OK"
                   /\ payloadLen' = Decoder!ValueEndOffset(t, 0)
                   /\ decPc' = "loop" /\ encodedStreamOffset' = encodedStreamOffset
            <4>1. Decoder!bejInitSFLVStruct(t, 0)
                BY <3>4 DEF Decoder!RootStatus
            <4>2. FollowedTuple(t, 0, DOMAIN stream \cup {total})
                BY <1>0, <2>2, <3>1 DEF ChainedStream
            <4>3. Decoder!ValueEndOffset(t, 0) = (0 + t.hdr) + t.len
                BY <4>1, <4>2, NoWrap
            <4>4. payloadLen' = total
                BY <1>0, <3>1, <3>4, <4>3 DEF ChainedStream
            <4> QED BY <1>0, <2>1, <2>2, <3>1, <3>2, <3>4, <4>4
                    DEF ReaderInv, DecoderWalks, Decoder!Endings
        <3> QED BY <2>4, <3>3, <3>4
    <2>5. \/ decPc' = "done" /\ stream' = stream
          \/ \E t \in Decoder!TuplesAt(0) :
                /\ Decoder!Read(t, 0)
                /\ \/ decPc' = "done"
                   \/ /\ Decoder!RootStatus(t) = "OK"
                      /\ payloadLen' = Decoder!ValueEndOffset(t, 0)
                      /\ decPc' = "loop" /\ encodedStreamOffset' = encodedStreamOffset
        BY <1>2 DEF Decoder!ReadRoot, Decoder!Reject, Decoder!Return, Decoder!state
    <2> QED BY <2>3, <2>4, <2>5
<1>3. CASE Decoder!ExceedMaxOperations
    BY <1>0, <1>3 DEF Decoder!ExceedMaxOperations, Decoder!Reject, Decoder!Return, ReaderInv,
                      DecoderWalks, Decoder!Endings
<1>4. CASE Decoder!ReadTuple
    <2>1. decPc = "loop" /\ encodedStreamOffset < payloadLen /\ block' = block
          /\ payloadLen' = payloadLen
        BY <1>4 DEF Decoder!ReadTuple
    <2>2. encodedStreamOffset \in DOMAIN stream /\ payloadLen = total
        BY <1>0, <2>1 DEF ReaderInv, DecoderWalks
    <2>3. PICK t \in Decoder!TuplesAt(encodedStreamOffset) :
              /\ Decoder!Read(t, encodedStreamOffset)
              /\ sflv' = t
              /\ \/ decPc' = "done"
                 \/ /\ Decoder!bejInitSFLVStruct(t, encodedStreamOffset)
                    /\ decPc' = "handle" /\ encodedStreamOffset' = encodedStreamOffset
        BY <1>4 DEF Decoder!ReadTuple, Decoder!Reject, Decoder!Return, Decoder!Callbacks,
                    Decoder!ReturnCallbackError, Decoder!state
    <2>4. t = stream[encodedStreamOffset] /\ DOMAIN stream' = DOMAIN stream
          /\ \A o \in DOMAIN stream : stream'[o] = stream[o]
        BY <1>0, <2>2, <2>3, ReadAgain
    <2>5. ChainedStream(stream', total)
        BY <1>0, <2>4, SameStream
    <2>6. CASE decPc' = "done"
        BY <1>0, <2>1, <2>5, <2>6 DEF ReaderInv, DecoderWalks, Decoder!Endings
    <2>7. CASE /\ Decoder!bejInitSFLVStruct(t, encodedStreamOffset)
               /\ decPc' = "handle" /\ encodedStreamOffset' = encodedStreamOffset
        <3>1. encodedStreamOffset' \in DOMAIN stream' /\ sflv' = stream'[encodedStreamOffset']
            BY <2>2, <2>3, <2>4, <2>7
        <3>2. Decoder!bejInitSFLVStruct(sflv, encodedStreamOffset)'
            BY <2>1, <2>3, <2>7 DEF Decoder!bejInitSFLVStruct, Decoder!streamLen
        <3> QED BY <1>0, <2>1, <2>2, <2>5, <2>7, <3>1, <3>2 DEF ReaderInv, DecoderWalks
    <2> QED BY <2>3, <2>6, <2>7
<1>5. CASE Decoder!LeaveLoop
    BY <1>0, <1>5 DEF Decoder!LeaveLoop, Decoder!state, ReaderInv, DecoderWalks,
                      Decoder!Endings
<1>6. CASE Decoder!Handle
    <2>1. decPc = "handle" /\ Moves(total)
        BY <1>6, HandleMoves
    <2> QED BY <2>1, MovesKeep DEF DecoderWalks
<1>7. CASE Decoder!ProcessEnding
    <2>1. decPc \in Decoder!Endings /\ Moves(total)
        BY <1>7, EndingMoves
    <2> QED BY <2>1, MovesKeep DEF DecoderWalks
<1> QED BY <1>1, <1>2, <1>3, <1>4, <1>5, <1>6, <1>7 DEF Decoder!Next

-----------------------------------------------------------------------------
(* The operations of src/bej_tree.c keep a tree well built. owner is what    *)
(* the tree does not say: the parent of each node initialised so far, NULL   *)
(* of one that is not linked yet.                                            *)

\* The links of the nodes in use are among nodes with the same parent, and the
\* parent knows the last of them.
Listed(tree, used, owner) ==
    /\ tree \in TreeType /\ used \subseteq Nodes
    /\ \A n \in Nodes \ used :
          tree[n].sibling = NULL /\ tree[n].firstChild = NULL /\ tree[n].type \notin ParentTypes
    /\ \A n \in used :
          /\ owner[n] \in used \cup {NULL}
          /\ owner[n] = NULL => tree[n].sibling = NULL
          /\ tree[n].sibling # NULL =>
                tree[n].sibling \in used /\ owner[tree[n].sibling] = owner[n]
          /\ tree[n].firstChild # NULL =>
                /\ tree[n].firstChild \in used /\ owner[tree[n].firstChild] = n
                /\ tree[n].lastChild \in used /\ owner[tree[n].lastChild] = n
                /\ tree[tree[n].lastChild].sibling = NULL
          /\ owner[n] \in used => /\ tree[owner[n]].firstChild # NULL
                                  /\ tree[n].sibling = NULL => tree[owner[n]].lastChild = n

\* What bejTreeInitParent and bejTreeInitChildNode leave of a node that has not
\* been in use.
Fresh(tree, ns, child) ==
    /\ ns \in TreeType
    /\ ns[child].sibling = NULL /\ ns[child].firstChild = NULL
    /\ ns[child].type \in ParentTypes => ns[child].nChildren = 0
    /\ ns[child].type \in {"Integer", "Real"} => ns[child].value.bytes <= 255
    /\ \A n \in Nodes \ {child} : ns[n] = tree[n]

LEMMA FreshListed ==
    ASSUME NEW tree, NEW used, NEW owner, Listed(tree, used, owner),
           NEW child \in Nodes \ used, NEW ns, Fresh(tree, ns, child),
           NEW now, now = used \cup {child},
           NEW own, own[child] = NULL, \A n \in used : own[n] = owner[n]
    PROVE  Listed(ns, now, own)
<1>0. /\ ns \in TreeType /\ now \subseteq Nodes /\ NULL \notin Nodes /\ used \subseteq Nodes
      /\ \A n \in Nodes \ {child} : ns[n] = tree[n]
    BY NodesAssumption DEF Listed, Fresh
<1>1. \A n \in Nodes \ now :
          ns[n].sibling = NULL /\ ns[n].firstChild = NULL /\ ns[n].type \notin ParentTypes
    BY <1>0 DEF Listed
<1>2. ASSUME NEW n \in used
      PROVE  /\ own[n] \in now \cup {NULL}
             /\ own[n] = NULL => ns[n].sibling = NULL
             /\ ns[n].sibling # NULL =>
                   ns[n].sibling \in now /\ own[ns[n].sibling] = own[n]
             /\ ns[n].firstChild # NULL =>
                   /\ ns[n].firstChild \in now /\ own[ns[n].firstChild] = n
                   /\ ns[n].lastChild \in now /\ own[ns[n].lastChild] = n
                   /\ ns[ns[n].lastChild].sibling = NULL
             /\ own[n] \in now => /\ ns[own[n]].firstChild # NULL
                                  /\ ns[n].sibling = NULL => ns[own[n]].lastChild = n
    <2>1. \A m \in used : ns[m] = tree[m] /\ own[m] = owner[m]
        BY <1>0
    <2>2. own[n] \in used \cup {NULL} /\ own[n] # child
        BY <1>0, <2>1 DEF Listed
    <2>3. own[n] = NULL => ns[n].sibling = NULL
        BY <2>1 DEF Listed
    <2>4. ns[n].sibling # NULL => ns[n].sibling \in used /\ own[ns[n].sibling] = own[n]
        BY <2>1 DEF Listed
    <2>5. ns[n].firstChild # NULL =>
              /\ ns[n].firstChild \in used /\ own[ns[n].firstChild] = n
              /\ ns[n].lastChild \in used /\ own[ns[n].lastChild] = n
              /\ ns[ns[n].lastChild].sibling = NULL
        BY <2>1 DEF Listed
    <2>6. own[n] \in used => /\ ns[own[n]].firstChild # NULL
                             /\ ns[n].sibling = NULL => ns[own[n]].lastChild = n
        BY <2>1 DEF Listed
    <2> QED BY <2>2, <2>3, <2>4, <2>5, <2>6
<1>3. /\ own[child] \in now \cup {NULL} /\ own[child] \notin now
      /\ ns[child].sibling = NULL /\ ns[child].firstChild = NULL
    BY <1>0 DEF Fresh
<1>4. \A n \in now : n = child \/ n \in used
    OBVIOUS
<1> QED BY <1>0, <1>1, <1>2, <1>3, <1>4 DEF Listed

LEMMA FreshWellBuilt ==
    ASSUME NEW tree, NEW used, NEW owner, Listed(tree, used, owner), WellBuilt(tree),
           NEW child \in Nodes \ used, NEW ns, Fresh(tree, ns, child)
    PROVE  WellBuilt(ns)
<1>0. /\ ns \in TreeType /\ tree \in TreeType /\ used \subseteq Nodes
      /\ \A n \in Nodes \ {child} : ns[n] = tree[n]
    BY DEF Listed, Fresh
<1>1. /\ tree[child].sibling = NULL /\ tree[child].firstChild = NULL
      /\ ns[child].sibling = NULL /\ ns[child].firstChild = NULL
    BY DEF Listed, Fresh
<1>2. \A n \in Nodes : ns[n].sibling = tree[n].sibling
    BY <1>0, <1>1
<1>3. \A n \in Nodes : FirstChild(ns, n) = FirstChild(tree, n)
    <2>1. FirstChild(ns, child) = NULL /\ FirstChild(tree, child) = NULL
        BY <1>1 DEF FirstChild
    <2> QED BY <1>0, <2>1 DEF FirstChild
<1>4. NoCycle(ns)
    <2> SUFFICES ASSUME NEW s \in SUBSET Nodes, s # {}
                 PROVE  \E n \in s : FirstChild(ns, n) \notin s /\ ns[n].sibling \notin s
        BY DEF NoCycle
    <2>1. PICK n \in s : FirstChild(tree, n) \notin s /\ tree[n].sibling \notin s
        BY DEF WellBuilt, NoCycle
    <2> QED BY <1>2, <1>3, <2>1
<1>5. LinkedOnce(ns)
    BY <1>2, <1>3 DEF WellBuilt, LinkedOnce
<1>6. ChildrenCounted(ns)
    <2>1. \A n \in Pointers : SiblingCount(ns)[n] = SiblingCount(tree)[n]
        BY <1>0, <1>2, <1>4, SameCounts DEF WellBuilt
    <2>2. SiblingCount(ns)[NULL] = 0
        BY <1>0, <1>4, CountEquation
    <2> SUFFICES ASSUME NEW n \in Nodes, bejTreeIsParentType(ns[n])
                 PROVE  ns[n].nChildren = SiblingCount(ns)[ns[n].firstChild]
        BY DEF ChildrenCounted
    <2>3. CASE n = child
        BY <1>1, <2>2, <2>3 DEF Fresh, bejTreeIsParentType
    <2>4. CASE n # child
        <3>1. ns[n] = tree[n] /\ tree[n].firstChild \in Pointers
            BY <1>0, <2>4, LinkTypes
        <3> QED BY <2>1, <3>1 DEF WellBuilt, ChildrenCounted
    <2> QED BY <2>3, <2>4
<1>7. IntegersFit(ns)
    BY <1>0 DEF Fresh, WellBuilt, IntegersFit
<1> QED BY <1>4, <1>5, <1>6, <1>7 DEF WellBuilt

\* ns is tree with child at the end of the list of parent.
Added(tree, ns, parent, child) ==
    /\ ns \in TreeType
    /\ \A n \in Nodes :
          /\ ns[n].type = tree[n].type /\ ns[n].value = tree[n].value
          /\ ns[n].sibling = IF tree[parent].firstChild # NULL /\ n = tree[parent].lastChild
                             THEN child ELSE tree[n].sibling
          /\ ns[n].firstChild = IF n = parent /\ tree[n].firstChild = NULL
                                THEN child ELSE tree[n].firstChild
          /\ ns[n].lastChild = IF n = parent THEN child ELSE tree[n].lastChild
          /\ ns[n].nChildren = IF n = parent THEN tree[n].nChildren + 1 ELSE tree[n].nChildren

\* child has been initialised, but not linked.
Loose(used, owner, parent, child) ==
    /\ parent \in used /\ child \in used /\ child # parent
    /\ owner[child] = NULL

LEMMA AddedLinks ==
    ASSUME NEW tree, NEW used, NEW owner, Listed(tree, used, owner),
           NEW parent, NEW child, Loose(used, owner, parent, child),
           NEW ns, Added(tree, ns, parent, child),
           NEW own, own[child] = parent, \A n \in used \ {child} : own[n] = owner[n]
    PROVE  Listed(ns, used, own)
<1>0. /\ used \subseteq Nodes /\ ns \in TreeType /\ NULL \notin Nodes
      /\ parent \in used /\ child \in used /\ child # parent /\ owner[child] = NULL
      /\ tree[child].sibling = NULL
    BY NodesAssumption DEF Listed, Added, Loose
<1>1. ASSUME NEW n \in Nodes \ used
      PROVE  ns[n].sibling = NULL /\ ns[n].firstChild = NULL /\ ns[n].type \notin ParentTypes
    <2>1. tree[n].sibling = NULL /\ tree[n].firstChild = NULL /\ tree[n].type \notin ParentTypes
        BY DEF Listed
    <2>2. (tree[parent].firstChild # NULL => n # tree[parent].lastChild) /\ n # parent
        BY <1>0, <1>1 DEF Listed
    <2> QED BY <2>1, <2>2 DEF Added
<1>2. ASSUME NEW n \in used, ns[n].sibling # NULL
      PROVE  ns[n].sibling \in used /\ own[ns[n].sibling] = own[n]
    <2>1. CASE tree[parent].firstChild # NULL /\ n = tree[parent].lastChild
        <3>1. ns[n].sibling = child
            BY <1>0, <2>1 DEF Added
        <3>2. owner[n] = parent /\ n # child
            BY <1>0, <2>1 DEF Listed
        <3> QED BY <1>0, <3>1, <3>2
    <2>2. CASE ~(tree[parent].firstChild # NULL /\ n = tree[parent].lastChild)
        <3>1. ns[n].sibling = tree[n].sibling
            BY <1>0, <2>2 DEF Added
        <3>2. PICK m : m = tree[n].sibling
            OBVIOUS
        <3>3. m \in used /\ owner[m] = owner[n] /\ owner[n] # NULL
            BY <1>2, <3>1, <3>2 DEF Listed
        <3> QED BY <1>0, <3>1, <3>2, <3>3
    <2> QED BY <2>1, <2>2
<1>3. ASSUME NEW n \in used, ns[n].firstChild # NULL
      PROVE  /\ ns[n].firstChild \in used /\ own[ns[n].firstChild] = n
             /\ ns[n].lastChild \in used /\ own[ns[n].lastChild] = n
             /\ ns[ns[n].lastChild].sibling = NULL
    <2>1. CASE n = parent
        <3>1. ns[n].lastChild = child
            BY <1>0, <2>1 DEF Added
        <3>2. ns[child].sibling = NULL
            <4>1. ~(tree[parent].firstChild # NULL /\ child = tree[parent].lastChild)
                BY <1>0 DEF Listed
            <4> QED BY <1>0, <4>1 DEF Added
        <3>3. CASE tree[n].firstChild = NULL
            <4>1. ns[n].firstChild = child
                BY <1>0, <2>1, <3>3 DEF Added
            <4> QED BY <1>0, <2>1, <3>1, <3>2, <4>1
        <3>4. CASE tree[n].firstChild # NULL
            <4>1. ns[n].firstChild = tree[n].firstChild
                BY <1>0, <3>4 DEF Added
            <4>2. PICK m : m = tree[n].firstChild
                OBVIOUS
            <4>3. m \in used /\ owner[m] = n /\ m # child
                BY <1>0, <3>4, <4>2 DEF Listed
            <4> QED BY <1>0, <2>1, <3>1, <3>2, <4>1, <4>2, <4>3
        <3> QED BY <3>3, <3>4
    <2>2. CASE n # parent
        <3>1. ns[n].firstChild = tree[n].firstChild /\ ns[n].lastChild = tree[n].lastChild
            BY <1>0, <2>2 DEF Added
        <3>2. PICK f, l : f = tree[n].firstChild /\ l = tree[n].lastChild
            OBVIOUS
        <3>3. f \in used /\ owner[f] = n /\ l \in used /\ owner[l] = n /\ tree[l].sibling = NULL
            BY <1>3, <3>1, <3>2 DEF Listed
        <3>4. f # child /\ l # child
            BY <1>0, <3>3
        <3>5. ~(tree[parent].firstChild # NULL /\ l = tree[parent].lastChild)
            BY <1>0, <2>2, <3>3 DEF Listed
        <3>6. ns[l].sibling = NULL
            BY <1>0, <3>3, <3>5 DEF Added
        <3> QED BY <3>1, <3>2, <3>3, <3>4, <3>6
    <2> QED BY <2>1, <2>2
<1>4. ASSUME NEW n \in used, own[n] \in used
      PROVE  /\ ns[own[n]].firstChild # NULL
             /\ ns[n].sibling = NULL => ns[own[n]].lastChild = n
    <2>1. CASE n = child
        <3>1. ns[parent].lastChild = child
            BY <1>0 DEF Added
        <3>2. ns[parent].firstChild # NULL
            BY <1>0 DEF Added
        <3> QED BY <2>1, <3>1, <3>2
    <2>2. CASE n # child
        <3>1. PICK p : p = owner[n] /\ p = own[n]
            BY <2>2
        <3>2. p \in used /\ tree[p].firstChild # NULL
              /\ (tree[n].sibling = NULL => tree[p].lastChild = n)
            <4>1. p \in used /\ owner[n] \in used
                BY <1>4, <3>1
            <4>2. /\ tree[owner[n]].firstChild # NULL
                  /\ tree[n].sibling = NULL => tree[owner[n]].lastChild = n
                BY <4>1 DEF Listed
            <4> QED BY <3>1, <4>1, <4>2
        <3>3. ns[p].firstChild # NULL
            BY <1>0, <3>2 DEF Added
        <3>4. ASSUME ns[n].sibling = NULL PROVE ns[p].lastChild = n
            <4>1. ~(tree[parent].firstChild # NULL /\ n = tree[parent].lastChild)
                BY <1>0, <3>4 DEF Added
            <4>2. tree[n].sibling = NULL
                BY <1>0, <3>4, <4>1 DEF Added
            <4>3. tree[p].lastChild = n /\ p # parent
                BY <3>2, <4>1, <4>2
            <4> QED BY <1>0, <3>2, <4>3 DEF Added
        <3> QED BY <3>1, <3>3, <3>4
    <2> QED BY <2>1, <2>2
<1>5. ASSUME NEW n \in used
      PROVE  own[n] \in used \cup {NULL} /\ (own[n] = NULL => ns[n].sibling = NULL)
    <2>1. CASE n = child
        BY <1>0, <2>1
    <2>2. CASE n # child
        <3>1. own[n] = owner[n] /\ own[n] \in used \cup {NULL}
            BY <2>2 DEF Listed
        <3>2. ASSUME own[n] = NULL PROVE ns[n].sibling = NULL
            <4>1. tree[n].sibling = NULL
                BY <3>1, <3>2 DEF Listed
            <4>2. ~(tree[parent].firstChild # NULL /\ n = tree[parent].lastChild)
                BY <1>0, <3>1, <3>2 DEF Listed
            <4> QED BY <1>0, <4>1, <4>2 DEF Added
        <3> QED BY <3>1, <3>2
    <2> QED BY <2>1, <2>2
<1> QED BY <1>0, <1>1, <1>2, <1>3, <1>4, <1>5 DEF Listed

\* Nothing is linked to child yet, and what is linked to it now is the parent, or
\* its last child.
LEMMA AddedParts ==
    ASSUME NEW tree, NEW used, NEW owner, Listed(tree, used, owner),
           NEW parent, tree[parent].type \in ParentTypes,
           NEW child, Loose(used, owner, parent, child), NEW ns, Added(tree, ns, parent, child)
    PROVE  /\ tree \in TreeType /\ ns \in TreeType /\ used \subseteq Nodes
           /\ parent \in Nodes /\ child \in Nodes /\ parent # child /\ child # NULL
           /\ tree[child].sibling = NULL /\ ns[child].sibling = NULL
           /\ \A n \in Nodes :
                 /\ tree[n].sibling # child /\ FirstChild(tree, n) # child
                 /\ ns[n].sibling \in {tree[n].sibling, child}
                 /\ FirstChild(ns, n) \in {FirstChild(tree, n), child}
                 /\ ns[n].sibling = child =>
                       n = tree[parent].lastChild /\ tree[parent].firstChild # NULL
                 /\ FirstChild(ns, n) = child => n = parent /\ tree[parent].firstChild = NULL
<1>0. /\ tree \in TreeType /\ used \subseteq Nodes /\ ns \in TreeType
      /\ NULL \notin Nodes /\ parent # child /\ parent \in used /\ child \in used
      /\ owner[child] = NULL /\ tree[child].sibling = NULL /\ child # NULL
    BY NodesAssumption DEF Listed, Added, Loose
<1>1. ASSUME NEW n \in Nodes PROVE tree[n].sibling # child /\ tree[n].firstChild # child
    <2>1. CASE n \in used
        BY <1>0, <2>1 DEF Listed
    <2>2. CASE n \notin used
        BY <1>0, <2>2 DEF Listed
    <2> QED BY <2>1, <2>2
<1>2. ASSUME NEW n \in Nodes PROVE FirstChild(tree, n) # child
    BY <1>0, <1>1 DEF FirstChild
<1>3. ASSUME NEW n \in Nodes
      PROVE  /\ ns[n].sibling \in {tree[n].sibling, child}
             /\ ns[n].sibling = child =>
                   n = tree[parent].lastChild /\ tree[parent].firstChild # NULL
    BY <1>1 DEF Added
<1>4. ASSUME NEW n \in Nodes
      PROVE  /\ FirstChild(ns, n) \in {FirstChild(tree, n), child}
             /\ FirstChild(ns, n) = child => n = parent /\ tree[parent].firstChild = NULL
    <2>1. ns[n].type = tree[n].type
        BY DEF Added
    <2>2. /\ ns[n].firstChild \in {tree[n].firstChild, child}
          /\ ns[n].firstChild = child => n = parent /\ tree[parent].firstChild = NULL
        BY <1>1 DEF Added
    <2> QED BY <1>0, <2>1, <2>2 DEF FirstChild, bejTreeIsParentType
<1>5. ns[child].sibling = NULL
    <2>1. ~(tree[parent].firstChild # NULL /\ child = tree[parent].lastChild)
        BY <1>0 DEF Listed
    <2> QED BY <1>0, <2>1 DEF Added
<1> QED BY <1>0, <1>1, <1>2, <1>3, <1>4, <1>5

\* A node and all that is below it.
Branch(used, owner, child, branch) ==
    /\ child \in branch /\ branch \subseteq used
    /\ \A n \in used \ {child} : n \in branch <=> owner[n] \in branch

\* Among nodes of which some are below child, one of these is linked to none of
\* them: the new link does not start there.
LEMMA AddedNoCycle ==
    ASSUME NEW tree, NEW used, NEW owner, Listed(tree, used, owner), NoCycle(tree),
           NEW parent, tree[parent].type \in ParentTypes,
           NEW child, Loose(used, owner, parent, child), NEW ns, Added(tree, ns, parent, child),
           NEW branch, Branch(used, owner, child, branch), parent \notin branch
    PROVE  NoCycle(ns)
<1> SUFFICES ASSUME NEW s \in SUBSET Nodes, s # {}
             PROVE  \E n \in s : FirstChild(ns, n) \notin s /\ ns[n].sibling \notin s
    BY DEF NoCycle
<1>0. /\ used \subseteq Nodes /\ NULL \notin Nodes /\ child \in Nodes /\ parent \in Nodes
      /\ tree \in TreeType /\ tree[child].sibling = NULL
      /\ \A n \in Nodes :
            /\ tree[n].sibling # child /\ FirstChild(tree, n) # child
            /\ ns[n].sibling \in {tree[n].sibling, child}
            /\ FirstChild(ns, n) \in {FirstChild(tree, n), child}
            /\ ns[n].sibling = child =>
                  n = tree[parent].lastChild /\ tree[parent].firstChild # NULL
            /\ FirstChild(ns, n) = child => n = parent /\ tree[parent].firstChild = NULL
    BY AddedParts, NodesAssumption
<1>1. CASE s \cap branch = {}
    <2>1. child \notin s
        BY <1>1 DEF Branch
    <2>2. PICK n \in s : FirstChild(tree, n) \notin s /\ tree[n].sibling \notin s
        BY DEF NoCycle
    <2>3. FirstChild(ns, n) \in {FirstChild(tree, n), child}
          /\ ns[n].sibling \in {tree[n].sibling, child}
        BY <1>0
    <2> QED BY <2>1, <2>2, <2>3
<1>2. CASE s \cap branch # {}
    <2>1. PICK t : t = s \cap branch /\ t \in SUBSET Nodes /\ t # {}
        BY <1>2
    <2>2. PICK n \in t : FirstChild(tree, n) \notin t /\ tree[n].sibling \notin t
        BY <2>1 DEF NoCycle
    <2>3. n \in s /\ n \in branch /\ n \in used /\ n \in Nodes
        BY <1>0, <2>1, <2>2 DEF Branch
    <2>4. ns[n].sibling = tree[n].sibling
        <3>1. ASSUME n = tree[parent].lastChild, tree[parent].firstChild # NULL PROVE FALSE
            <4>1. owner[n] = parent
                BY <3>1 DEF Listed, Loose
            <4>2. n # child
                BY <1>0, <4>1 DEF Loose
            <4> QED BY <2>3, <4>1, <4>2 DEF Branch
        <3> QED BY <1>0, <2>3, <3>1
    <2>5. FirstChild(ns, n) = FirstChild(tree, n)
        BY <1>0, <2>3
    <2>6. tree[n].sibling \notin s
        <3> SUFFICES ASSUME tree[n].sibling \in s PROVE FALSE
            OBVIOUS
        <3>1. PICK m : m = tree[n].sibling
            OBVIOUS
        <3>2. m \in used /\ owner[m] = owner[n] /\ m # child /\ n # child
            BY <1>0, <2>3, <3>1 DEF Listed
        <3>3. owner[n] \in branch
            BY <2>3, <3>2 DEF Branch
        <3>4. m \in branch
            BY <3>2, <3>3 DEF Branch
        <3> QED BY <2>1, <2>2, <3>1, <3>4
    <2>7. FirstChild(tree, n) \notin s
        <3> SUFFICES ASSUME FirstChild(tree, n) \in s PROVE FALSE
            OBVIOUS
        <3>1. PICK m : m = FirstChild(tree, n)
            OBVIOUS
        <3>2. m # NULL
            BY <1>0, <3>1
        <3>3. m = tree[n].firstChild
            BY <3>1, <3>2 DEF FirstChild
        <3>4. m \in used /\ owner[m] = n
            BY <2>3, <3>2, <3>3 DEF Listed
        <3>5. m # child
            BY <1>0, <2>3, <3>1
        <3>6. m \in branch
            BY <2>3, <3>4, <3>5 DEF Branch
        <3> QED BY <2>1, <2>2, <3>1, <3>6
    <2> QED BY <2>3, <2>4, <2>5, <2>6, <2>7
<1> QED BY <1>1, <1>2

LEMMA AddedLinkedOnce ==
    ASSUME NEW tree, NEW used, NEW owner, Listed(tree, used, owner), LinkedOnce(tree),
           NEW parent, tree[parent].type \in ParentTypes,
           NEW child, Loose(used, owner, parent, child), NEW ns, Added(tree, ns, parent, child)
    PROVE  LinkedOnce(ns)
<1>1. /\ child # NULL
      /\ \A n \in Nodes :
            /\ tree[n].sibling # child /\ FirstChild(tree, n) # child
            /\ ns[n].sibling \in {tree[n].sibling, child}
            /\ FirstChild(ns, n) \in {FirstChild(tree, n), child}
            /\ ns[n].sibling = child =>
                  n = tree[parent].lastChild /\ tree[parent].firstChild # NULL
            /\ FirstChild(ns, n) = child => n = parent /\ tree[parent].firstChild = NULL
    BY AddedParts
<1>2. ASSUME NEW m \in Nodes, NEW n \in Nodes,
             FirstChild(ns, m) # NULL, FirstChild(ns, m) = FirstChild(ns, n)
      PROVE  m = n
    <2>1. CASE FirstChild(ns, m) = child
        BY <1>1, <1>2, <2>1
    <2>2. CASE FirstChild(ns, m) # child
        <3>1. FirstChild(ns, m) = FirstChild(tree, m) /\ FirstChild(ns, n) = FirstChild(tree, n)
            BY <1>1, <1>2, <2>2
        <3> QED BY <1>2, <3>1 DEF LinkedOnce
    <2> QED BY <2>1, <2>2
<1>3. ASSUME NEW m \in Nodes, NEW n \in Nodes, ns[m].sibling # NULL
      PROVE  ns[m].sibling # FirstChild(ns, n) /\ (ns[m].sibling = ns[n].sibling => m = n)
    <2>1. CASE ns[m].sibling = child
        BY <1>1, <2>1
    <2>2. CASE ns[m].sibling # child
        <3>1. ns[m].sibling = tree[m].sibling
            BY <1>1, <2>2
        <3>2. ns[m].sibling # FirstChild(ns, n)
            <4>1. FirstChild(ns, n) \in {FirstChild(tree, n), child}
                BY <1>1
            <4>2. tree[m].sibling # FirstChild(tree, n)
                BY <1>3, <3>1 DEF LinkedOnce
            <4> QED BY <2>2, <3>1, <4>1, <4>2
        <3>3. ASSUME ns[m].sibling = ns[n].sibling PROVE m = n
            <4>1. ns[n].sibling = tree[n].sibling
                BY <1>1, <2>2, <3>3
            <4> QED BY <1>3, <3>1, <3>3, <4>1 DEF LinkedOnce
        <3> QED BY <3>2, <3>3
    <2> QED BY <2>1, <2>2
<1> QED BY <1>2, <1>3 DEF LinkedOnce

\* Only the list of the parent has become longer, and by one.
LEMMA AddedCounts ==
    ASSUME NEW tree, NEW used, NEW owner, Listed(tree, used, owner), NoCycle(tree),
           NEW parent, tree[parent].type \in ParentTypes,
           NEW child, Loose(used, owner, parent, child), NEW ns, Added(tree, ns, parent, child),
           NoCycle(ns)
    PROVE  /\ SiblingCount(ns)[child] = 1
           /\ \A n \in used : SiblingCount(ns)[n] = IF owner[n] = parent
                                                    THEN SiblingCount(tree)[n] + 1
                                                    ELSE SiblingCount(tree)[n]
<1>0. /\ tree \in TreeType /\ ns \in TreeType /\ NULL \notin Nodes
      /\ used \subseteq Nodes /\ child \in Nodes /\ ns[child].sibling = NULL
    BY AddedParts, NodesAssumption
<1>1. /\ SiblingCount(tree)[NULL] = 0 /\ SiblingCount(ns)[NULL] = 0
      /\ \A n \in Pointers : SiblingCount(tree)[n] \in Nat /\ SiblingCount(ns)[n] \in Nat
      /\ \A n \in Nodes : SiblingCount(tree)[n] = 1 + SiblingCount(tree)[tree[n].sibling]
      /\ \A n \in Nodes : SiblingCount(ns)[n] = 1 + SiblingCount(ns)[ns[n].sibling]
    BY <1>0, CountEquation
<1>2. SiblingCount(ns)[child] = 1
    BY <1>0, <1>1
<1> DEFINE Right(n) == SiblingCount(ns)[n] = IF owner[n] = parent
                                             THEN SiblingCount(tree)[n] + 1
                                             ELSE SiblingCount(tree)[n]
           S == {n \in used : ~Right(n)}
<1>3. S = {}
    <2> SUFFICES ASSUME S # {} PROVE FALSE
        OBVIOUS
    <2>1. PICK n \in S : tree[n].sibling \notin S
        <3>1. S \in SUBSET Nodes
            BY <1>0
        <3> HIDE DEF S
        <3> QED BY <3>1 DEF NoCycle
    <2>2. n \in used /\ ~Right(n) /\ n \in Nodes
        BY <1>0, <2>1
    <2> SUFFICES Right(n)
        BY <2>2
    <2>3. CASE tree[n].sibling # NULL
        <3>1. PICK m : m = tree[n].sibling
            OBVIOUS
        <3>2. m \in used /\ owner[m] = owner[n]
            BY <2>2, <2>3, <3>1 DEF Listed
        <3>3. Right(m)
            BY <2>1, <3>1, <3>2
        <3>4. ns[n].sibling = m
            <4>1. ~(tree[parent].firstChild # NULL /\ n = tree[parent].lastChild)
                BY <2>3 DEF Listed, Loose
            <4> QED BY <2>2, <3>1, <4>1 DEF Added
        <3>5. SiblingCount(ns)[n] = 1 + SiblingCount(ns)[m]
              /\ SiblingCount(tree)[n] = 1 + SiblingCount(tree)[m]
              /\ SiblingCount(tree)[m] \in Nat
            BY <1>0, <1>1, <2>2, <3>1, <3>2, <3>4 DEF Pointers
        <3> QED BY <3>2, <3>3, <3>5
    <2>4. CASE tree[n].sibling = NULL
        <3>1. SiblingCount(tree)[n] = 1
            BY <1>0, <1>1, <2>2, <2>4
        <3>2. CASE owner[n] = parent
            <4>1. tree[parent].firstChild # NULL /\ tree[parent].lastChild = n
                BY <2>2, <2>4, <3>2 DEF Listed, Loose
            <4>2. ns[n].sibling = child
                BY <2>2, <4>1 DEF Added
            <4>3. SiblingCount(ns)[n] = 2
                BY <1>1, <1>2, <2>2, <4>2
            <4> QED BY <3>1, <3>2, <4>3
        <3>3. CASE owner[n] # parent
            <4>1. ~(tree[parent].firstChild # NULL /\ n = tree[parent].lastChild)
                BY <3>3 DEF Listed, Loose
            <4>2. ns[n].sibling = NULL
                BY <2>2, <2>4, <4>1 DEF Added
            <4>3. SiblingCount(ns)[n] = 1
                BY <1>1, <2>2, <4>2
            <4> QED BY <3>1, <3>3, <4>3
        <3> QED BY <3>2, <3>3
    <2> QED BY <2>3, <2>4
<1> QED BY <1>2, <1>3

LEMMA AddedWellBuilt ==
    ASSUME NEW tree, NEW used, NEW owner, Listed(tree, used, owner), WellBuilt(tree),
           NEW parent, tree[parent].type \in ParentTypes,
           NEW child, Loose(used, owner, parent, child), NEW ns, Added(tree, ns, parent, child),
           NEW branch, Branch(used, owner, child, branch), parent \notin branch
    PROVE  WellBuilt(ns)
<1>0. /\ tree \in TreeType /\ ns \in TreeType /\ NULL \notin Nodes /\ used \subseteq Nodes
    BY NodesAssumption DEF Listed, Added
<1>1. LinkedOnce(ns) /\ NoCycle(ns)
    BY AddedLinkedOnce, AddedNoCycle DEF WellBuilt
<1>2. /\ SiblingCount(ns)[child] = 1
      /\ \A n \in used : SiblingCount(ns)[n] = IF owner[n] = parent
                                               THEN SiblingCount(tree)[n] + 1
                                               ELSE SiblingCount(tree)[n]
    BY <1>1, AddedCounts DEF WellBuilt
<1>3. SiblingCount(tree)[NULL] = 0 /\ SiblingCount(ns)[NULL] = 0
    BY <1>0, <1>1, CountEquation DEF WellBuilt
<1>4. ASSUME NEW n \in Nodes, bejTreeIsParentType(ns[n])
      PROVE  ns[n].nChildren = SiblingCount(ns)[ns[n].firstChild]
    <2>1. bejTreeIsParentType(tree[n])
        BY <1>4 DEF Added, bejTreeIsParentType
    <2>2. tree[n].nChildren = SiblingCount(tree)[tree[n].firstChild]
        BY <2>1 DEF WellBuilt, ChildrenCounted
    <2>3. n \in used
        BY <2>1 DEF Listed, bejTreeIsParentType
    <2>4. CASE n # parent
        <3>1. ns[n].nChildren = tree[n].nChildren /\ ns[n].firstChild = tree[n].firstChild
            BY <2>4 DEF Added
        <3>2. CASE tree[n].firstChild = NULL
            BY <1>3, <2>2, <3>1, <3>2
        <3>3. CASE tree[n].firstChild # NULL
            <4>1. tree[n].firstChild \in used /\ owner[tree[n].firstChild] # parent
                BY <2>3, <2>4, <3>3 DEF Listed
            <4> QED BY <1>2, <2>2, <3>1, <4>1
        <3> QED BY <3>2, <3>3
    <2>5. CASE n = parent
        <3>1. ns[n].nChildren = tree[n].nChildren + 1
            BY <2>5 DEF Added
        <3>2. CASE tree[n].firstChild = NULL
            <4>1. ns[n].firstChild = child
                BY <2>5, <3>2 DEF Added
            <4> QED BY <1>2, <1>3, <2>2, <3>1, <3>2, <4>1
        <3>3. CASE tree[n].firstChild # NULL
            <4>1. ns[n].firstChild = tree[n].firstChild
                BY <3>3 DEF Added
            <4>2. tree[n].firstChild \in used /\ owner[tree[n].firstChild] = parent
                BY <2>3, <2>5, <3>3 DEF Listed
            <4> QED BY <1>2, <2>2, <3>1, <4>1, <4>2
        <3> QED BY <3>2, <3>3
    <2> QED BY <2>4, <2>5
<1>5. ChildrenCounted(ns)
    BY <1>4 DEF ChildrenCounted
<1>6. IntegersFit(ns)
    BY DEF Added, WellBuilt, IntegersFit
<1> QED BY <1>1, <1>5, <1>6 DEF WellBuilt

LEMMA FreshParent ==
    ASSUME NEW tree \in TreeType, NEW child \in Nodes, NEW name \in Names, NEW type \in ParentTypes
    PROVE  /\ Fresh(tree, bejTreeInitParent(tree, child, name, type), child)
           /\ bejTreeInitParent(tree, child, name, type)[child].type = type
<1>1. PICK ns : ns = bejTreeInitParent(tree, child, name, type)
    OBVIOUS
<1>2. PICK was : was = tree[child] /\ was \in NodeType
    BY DEF TreeType
<1>3. PICK node : node = [was EXCEPT !.name = name, !.type = type, !.ro = FALSE, !.sibling = NULL,
                                     !.nChildren = 0, !.firstChild = NULL, !.lastChild = NULL]
    OBVIOUS
<1>4. node \in NodeType /\ node.sibling = NULL /\ node.firstChild = NULL
      /\ node.type = type /\ node.nChildren = 0
    BY <1>2, <1>3 DEF NodeType, Pointers
<1>5. ns = [tree EXCEPT ![child] = node]
    BY <1>1, <1>2, <1>3 DEF bejTreeInitParent, TreeType
<1>6. ns \in TreeType /\ ns[child] = node /\ \A n \in Nodes \ {child} : ns[n] = tree[n]
    BY <1>4, <1>5 DEF TreeType
<1>7. type \notin {"Integer", "Real"}
    BY DEF ParentTypes
<1>8. Fresh(tree, ns, child)
    BY <1>4, <1>6, <1>7 DEF Fresh
<1> QED BY <1>1, <1>4, <1>6, <1>8

LEMMA FreshLeaf ==
    ASSUME NEW tree \in TreeType, NEW child \in Nodes, NEW name \in Names, NEW type \in LeafTypes,
           NEW value \in ValueType, type \in {"Integer", "Real"} => value.bytes <= 255,
           tree[child].firstChild = NULL
    PROVE  LET new == [bejTreeInitChildNode(tree, child, name, type) EXCEPT ![child].value = value]
           IN  Fresh(tree, new, child) /\ new[child].type = type
<1>1. PICK ns : ns = [bejTreeInitChildNode(tree, child, name, type) EXCEPT ![child].value = value]
    OBVIOUS
<1>2. PICK was : was = tree[child] /\ was \in NodeType
    BY DEF TreeType
<1>3. PICK node : node = [was EXCEPT !.name = name, !.type = type, !.ro = FALSE, !.sibling = NULL,
                                     !.value = value]
    OBVIOUS
<1>4. node \in NodeType /\ node.sibling = NULL /\ node.firstChild = NULL
      /\ node.type = type /\ node.value = value
    BY <1>2, <1>3 DEF NodeType, Pointers
<1>5. ns = [tree EXCEPT ![child] = node]
    BY <1>1, <1>2, <1>3 DEF bejTreeInitChildNode, TreeType
<1>6. ns \in TreeType /\ ns[child] = node /\ \A n \in Nodes \ {child} : ns[n] = tree[n]
    BY <1>4, <1>5 DEF TreeType
<1>7. type \notin ParentTypes
    BY DEF ParentTypes, LeafTypes
<1>8. Fresh(tree, ns, child)
    BY <1>4, <1>6, <1>7 DEF Fresh
<1> QED BY <1>1, <1>4, <1>6, <1>8

\* What bejTreeLinkChildToParent does to a tree.
LEMMA LinkAdds ==
    ASSUME NEW tree \in TreeType, NEW child \in Nodes, NEW parent \in Nodes \ {child},
           tree[parent].firstChild # NULL => tree[parent].lastChild \in Nodes
    PROVE  Added(tree, bejTreeLinkChildToParent(tree, parent, child), parent, child)
<1>0. child \in Pointers
    BY DEF Pointers
<1>1. PICK ns : ns = bejTreeLinkChildToParent(tree, parent, child)
    OBVIOUS
<1>2. PICK linked : linked = IF tree[parent].firstChild = NULL
                             THEN [tree EXCEPT ![parent].firstChild = child]
                             ELSE [tree EXCEPT ![tree[parent].lastChild].sibling = child]
    OBVIOUS
<1>3. ns = [linked EXCEPT ![parent].lastChild = child, ![parent].nChildren = @ + 1]
    BY <1>1, <1>2 DEF bejTreeLinkChildToParent
<1>4. linked \in TreeType
    <2>1. CASE tree[parent].firstChild = NULL
        <3>1. PICK was : was = tree[parent] /\ was \in NodeType
            BY <1>0 DEF TreeType
        <3>2. [was EXCEPT !.firstChild = child] \in NodeType
            BY <1>0, <3>1 DEF NodeType
        <3>3. linked = [tree EXCEPT ![parent] = [was EXCEPT !.firstChild = child]]
            BY <1>2, <2>1, <3>1
        <3> QED BY <1>0, <3>2, <3>3 DEF TreeType
    <2>2. CASE tree[parent].firstChild # NULL
        <3>1. PICK l, was : l = tree[parent].lastChild /\ was = tree[l]
            OBVIOUS
        <3>2. l \in Nodes /\ was \in NodeType
            BY <1>0, <2>2, <3>1 DEF TreeType
        <3>3. [was EXCEPT !.sibling = child] \in NodeType
            BY <1>0, <3>2 DEF NodeType
        <3>4. linked = [tree EXCEPT ![l] = [was EXCEPT !.sibling = child]]
            BY <1>2, <2>2, <3>1
        <3> QED BY <1>0, <3>2, <3>3, <3>4 DEF TreeType
    <2> QED BY <2>1, <2>2
<1>5. \A n \in Nodes :
          /\ linked[n].type = tree[n].type /\ linked[n].value = tree[n].value
          /\ linked[n].nChildren = tree[n].nChildren /\ linked[n].lastChild = tree[n].lastChild
          /\ linked[n].sibling = IF tree[parent].firstChild # NULL /\ n = tree[parent].lastChild
                                 THEN child ELSE tree[n].sibling
          /\ linked[n].firstChild = IF n = parent /\ tree[n].firstChild = NULL
                                    THEN child ELSE tree[n].firstChild
    <2>1. \A n \in Nodes : tree[n] \in NodeType
        BY <1>0 DEF TreeType
    <2>2. CASE tree[parent].firstChild = NULL
        <3>1. linked = [tree EXCEPT ![parent].firstChild = child]
            BY <1>2, <2>2
        <3> QED BY <1>0, <2>1, <2>2, <3>1 DEF TreeType, NodeType
    <2>3. CASE tree[parent].firstChild # NULL
        <3>1. linked = [tree EXCEPT ![tree[parent].lastChild].sibling = child]
            BY <1>2, <2>3
        <3>2. tree[parent].lastChild \in Nodes
            BY <1>0, <2>3
        <3> QED BY <1>0, <2>1, <2>3, <3>1, <3>2 DEF TreeType, NodeType
    <2> QED BY <2>2, <2>3
<1>6. ns \in TreeType
    <2>1. PICK was : was = linked[parent] /\ was \in NodeType
        BY <1>4 DEF TreeType
    <2>2. was.nChildren \in Nat
        BY <2>1 DEF NodeType
    <2>3. PICK k \in Nat : k = was.nChildren + 1
        BY <2>2
    <2>4. [was EXCEPT !.lastChild = child, !.nChildren = k] \in NodeType
        BY <1>0, <2>1 DEF NodeType
    <2>5. ns = [linked EXCEPT ![parent] = [was EXCEPT !.lastChild = child, !.nChildren = k]]
        BY <1>3, <1>4, <2>1, <2>3 DEF TreeType
    <2> QED BY <1>4, <2>4, <2>5 DEF TreeType
<1>7. \A n \in Nodes :
          /\ ns[n].type = linked[n].type /\ ns[n].value = linked[n].value
          /\ ns[n].sibling = linked[n].sibling /\ ns[n].firstChild = linked[n].firstChild
          /\ ns[n].lastChild = IF n = parent THEN child ELSE linked[n].lastChild
          /\ ns[n].nChildren = IF n = parent THEN linked[n].nChildren + 1 ELSE linked[n].nChildren
    <2>1. \A n \in Nodes : linked[n] \in NodeType
        BY <1>4 DEF TreeType
    <2> QED BY <1>3, <1>4, <2>1 DEF TreeType, NodeType
<1>8. Added(tree, ns, parent, child)
    BY <1>5, <1>6, <1>7 DEF Added
<1> QED BY <1>1, <1>8

-----------------------------------------------------------------------------
(* What the dictionaries describe is a node, and so are its parts.          *)

IsDescribed(c) ==
    /\ c.name \in Names /\ c.type \in ParentTypes \cup LeafTypes /\ c.option \in Names
    /\ PartsOf(c.type, c.dict, c.child) \subseteq AllParts

LEMMA DictionaryEntries ==
    ASSUME NEW dict \in SchemaTypes, NEW i \in DOMAIN DictionaryOf(dict)
    PROVE  DictionaryOf(dict)[i] \in DictionaryEntry
BY DictionariesAssumption DEF DictionaryOf

\* An offset behind the header is at a position.
LEMMA PositionBehind ==
    ASSUME NEW offset \in Nat, offset >= 12
    PROVE  \E index \in Nat :
              bejGetPropertyEntryIndex(offset) = index /\ Position(offset) = index + 1
<1>1. PICK index \in Nat : index = (offset - 12) \div 10
    OBVIOUS
<1>2. bejGetPropertyEntryIndex(offset) = index
    BY <1>1 DEF bejGetPropertyEntryIndex, bejDictGetPropertyHeadOffset, HeaderSize,
                PropertySize
<1> QED BY <1>2 DEF Position

LEMMA OffsetsAre ==
    ASSUME NEW offset \in PropertyOffsets
    PROVE  offset \in Nat
<1>1. UInt16 \subseteq Nat
    BY DEF UInt16
<1> QED BY <1>1, Zenon DEF PropertyOffsets

LEMMA EntriesAre ==
    ASSUME NEW dict \in SchemaTypes, NEW offset,
           bejValidatePropertyOffset(DictionaryOf(dict), offset)
               \/ offset = bejDictGetFirstAnnotatedPropertyOffset,
           offset \in PropertyOffsets
    PROVE  EntriesFrom(dict, offset) \subseteq DOMAIN DictionaryOf(dict)
<1>1. offset \in Nat
    BY OffsetsAre, Zenon
<1>2. offset >= 12
    <2>1. CASE offset = bejDictGetFirstAnnotatedPropertyOffset
        BY <2>1 DEF bejDictGetFirstAnnotatedPropertyOffset, HeaderSize, PropertySize
    <2>2. CASE bejValidatePropertyOffset(DictionaryOf(dict), offset)
        <3>1. offset >= bejDictGetPropertyHeadOffset
            BY <2>2, Zenon DEF bejValidatePropertyOffset
        <3> QED BY <3>1 DEF bejDictGetPropertyHeadOffset, HeaderSize
    <2> QED BY <2>1, <2>2, Zenon
<1>3. PICK index \in Nat :
          bejGetPropertyEntryIndex(offset) = index /\ Position(offset) = index + 1
    BY <1>1, <1>2, PositionBehind, Zenon
<1>4. DictionaryOf(dict) \in Seq(DictionaryEntry)
    BY DictionariesAssumption DEF DictionaryOf
<1> QED BY <1>3, <1>4 DEF EntriesFrom

LEMMA PositionIsEntry ==
    ASSUME NEW dict \in SchemaTypes, NEW offset \in PropertyOffsets,
           bejValidatePropertyOffset(DictionaryOf(dict), offset)
    PROVE  Position(offset) \in DOMAIN DictionaryOf(dict)
<1>1. DictionaryOf(dict) \in Seq(DictionaryEntry)
    BY DictionariesAssumption DEF DictionaryOf
<1>2. offset \in Nat
    BY OffsetsAre, Zenon
<1>3. /\ offset >= bejDictGetPropertyHeadOffset
      /\ bejGetPropertyEntryIndex(offset) < Len(DictionaryOf(dict))
    BY Zenon DEF bejValidatePropertyOffset
<1>4. offset >= 12
    BY <1>3 DEF bejDictGetPropertyHeadOffset, HeaderSize
<1>5. PICK index \in Nat :
          bejGetPropertyEntryIndex(offset) = index /\ Position(offset) = index + 1
    BY <1>2, <1>4, PositionBehind, Zenon
<1> QED BY <1>1, <1>3, <1>5

LEMMA DescribedAre ==
    ASSUME NEW dict \in SchemaTypes, NEW i \in DOMAIN DictionaryOf(dict), NEW name \in Names,
           NEW c \in Described(dict, i, name)
    PROVE  IsDescribed(c)
<1>1. PICK entry : entry = DictionaryOf(dict)[i] /\ entry \in DictionaryEntry
    BY DictionaryEntries
<1>2. PICK type : type = TypeOfEntry(dict, i)
    OBVIOUS
<1>3. /\ type \in ParentTypes \cup LeafTypes
      /\ type \in {"Set", "Array", "Enum"} =>
            bejValidatePropertyOffset(DictionaryOf(dict), entry.child)
    BY <1>1, <1>2, SchemaAssumption DEF TypeOfEntry
<1>4. entry.child \in PropertyOffsets
    BY <1>1 DEF DictionaryEntry
<1>5. PICK option : /\ option \in IF type = "Enum"
                                  THEN {DictionaryOf(dict)[o].name :
                                           o \in EntriesFrom(dict, entry.child)}
                                  ELSE {""}
                    /\ c = [name |-> name, type |-> type, dict |-> dict,
                            child |-> entry.child, option |-> option]
    BY <1>1, <1>2 DEF Described
<1>6. option \in Names
    <2>1. CASE type = "Enum"
        <3>1. PICK o \in EntriesFrom(dict, entry.child) : option = DictionaryOf(dict)[o].name
            BY <1>5, <2>1
        <3>2. o \in DOMAIN DictionaryOf(dict)
            BY <1>3, <1>4, <2>1, EntriesAre
        <3>3. DictionaryOf(dict)[o] \in DictionaryEntry
            BY <3>2, DictionaryEntries
        <3> QED BY <3>1, <3>3 DEF DictionaryEntry
    <2>2. CASE type # "Enum"
        BY <1>5, <2>2, NameAssumption
    <2> QED BY <2>1, <2>2
<1>7. PartsOf(c.type, c.dict, c.child) = EntryParts(dict, i)
    BY <1>1, <1>2, <1>5 DEF EntryParts
<1>8. EntryParts(dict, i) \subseteq AllParts
    BY DEF AllParts
<1> QED BY <1>3, <1>5, <1>6, <1>7, <1>8 DEF IsDescribed

LEMMA PropertiesAre ==
    ASSUME NEW dict \in SchemaTypes, NEW offset \in PropertyOffsets,
           bejValidatePropertyOffset(DictionaryOf(dict), offset)
               \/ offset = bejDictGetFirstAnnotatedPropertyOffset,
           NEW c \in Properties(dict, offset)
    PROVE  IsDescribed(c)
<1>1. PICK i \in EntriesFrom(dict, offset) : c \in Described(dict, i, DictionaryOf(dict)[i].name)
    BY DEF Properties
<1>2. i \in DOMAIN DictionaryOf(dict)
    BY EntriesAre
<1>3. DictionaryOf(dict)[i].name \in Names
    BY <1>2, DictionaryEntries DEF DictionaryEntry
<1> QED BY <1>1, <1>2, <1>3, DescribedAre

LEMMA AnnotatedOffset ==
    bejDictGetFirstAnnotatedPropertyOffset \in PropertyOffsets
<1>1. PICK h : h = bejDictGetFirstAnnotatedPropertyOffset
    OBVIOUS
<1>2. h = HeaderSize + PropertySize
    BY <1>1 DEF bejDictGetFirstAnnotatedPropertyOffset
<1>3. h = 22
    BY <1>2, SMT DEF HeaderSize, PropertySize
<1>4. h \in PropertyOffsets
    BY <1>3, SMT DEF PropertyOffsets, UInt16
<1> QED BY <1>1, <1>4

LEMMA TopLevelAre ==
    ASSUME NEW c \in TopLevelAnnotations
    PROVE  IsDescribed(c)
BY AnnotatedOffset, PropertiesAre DEF TopLevelAnnotations, SchemaTypes

LEMMA AnnotationsAre ==
    ASSUME NEW offset \in PropertyOffsets, bejValidatePropertyOffset(DictionaryOf("Primary"), offset),
           NEW c \in PropertyAnnotations(offset)
    PROVE  IsDescribed(c)
<1>0. PICK start : start = bejDictGetFirstAnnotatedPropertyOffset
    OBVIOUS
<1>1. PICK i \in EntriesFrom("Primary", offset) :
          c = [name |-> MainDict[i].name, type |-> "PropertyAnnotation", dict |-> "Annotation",
               child |-> start, option |-> ""]
    BY <1>0 DEF PropertyAnnotations
<1>2. i \in DOMAIN DictionaryOf("Primary")
    BY EntriesAre DEF SchemaTypes
<1>3. MainDict[i].name \in Names
    <2>1. DictionaryOf("Primary")[i] \in DictionaryEntry
        BY <1>2, DictionaryEntries DEF SchemaTypes
    <2> QED BY <2>1 DEF DictionaryOf, DictionaryEntry
<1>4. PartsOf("PropertyAnnotation", "Annotation", start) \subseteq AllParts
    BY DEF PartsOf, AllParts
<1> QED BY <1>1, <1>3, <1>4, NameAssumption DEF IsDescribed, ParentTypes

LEMMA PartsAre ==
    ASSUME NEW dict \in SchemaTypes, NEW i \in DOMAIN DictionaryOf(dict), NEW c \in EntryParts(dict, i)
    PROVE  IsDescribed(c)
<1>1. PICK type, offset : type = TypeOfEntry(dict, i) /\ offset = DictionaryOf(dict)[i].child
    OBVIOUS
<1>2. /\ c \in PartsOf(type, dict, offset) /\ offset \in PropertyOffsets
      /\ type \in {"Set", "Array"} => bejValidatePropertyOffset(DictionaryOf(dict), offset)
    BY <1>1, SchemaAssumption, DictionaryEntries DEF EntryParts, DictionaryEntry
<1>3. CASE type = "Set"
    <2>1. c \in Properties(dict, offset) \cup TopLevelAnnotations
                    \cup (IF dict = "Primary" THEN PropertyAnnotations(offset) ELSE {})
        BY <1>2, <1>3 DEF PartsOf
    <2>2. CASE c \in Properties(dict, offset)
        BY <1>2, <1>3, <2>2, PropertiesAre
    <2>3. CASE c \in TopLevelAnnotations
        BY <2>3, TopLevelAre
    <2>4. CASE dict = "Primary" /\ c \in PropertyAnnotations(offset)
        BY <1>2, <1>3, <2>4, AnnotationsAre
    <2> QED BY <2>1, <2>2, <2>3, <2>4
<1>4. CASE type = "Array"
    <2>1. c \in Described(dict, Position(offset), "")
        BY <1>2, <1>4 DEF PartsOf
    <2>2. Position(offset) \in DOMAIN DictionaryOf(dict)
        BY <1>2, <1>4, PositionIsEntry
    <2> QED BY <2>1, <2>2, NameAssumption, DescribedAre
<1>5. CASE type \notin {"Set", "Array"}
    <2>1. c \in TopLevelAnnotations
        BY <1>2, <1>5 DEF PartsOf
    <2> QED BY <2>1, TopLevelAre
<1> QED BY <1>3, <1>4, <1>5

LEMMA AllPartsAre ==
    ASSUME NEW c \in AllParts
    PROVE  IsDescribed(c)
BY TopLevelAre, PartsAre DEF AllParts

LEMMA ResourceIs ==
    IsDescribed(Resource) /\ Resource.type = "Set"
<1>1. 1 \in DOMAIN MainDict /\ DictionaryOf("Primary") = MainDict
    <2>1. MainDict \in Seq(DictionaryEntry) /\ Len(MainDict) > 0
        BY DictionariesAssumption, SchemaAssumption
    <2> QED BY <2>1 DEF DictionaryOf
<1>2. MainDict[1].name \in Names
    <2>1. DictionaryOf("Primary")[1] \in DictionaryEntry
        BY <1>1, DictionaryEntries DEF SchemaTypes
    <2> QED BY <1>1, <2>1 DEF DictionaryEntry
<1>3. PartsOf("Set", "Primary", MainDict[1].child) = EntryParts("Primary", 1)
    BY <1>1, SchemaAssumption DEF EntryParts, TypeOfEntry, TypesOf
<1>4. EntryParts("Primary", 1) \subseteq AllParts
    BY <1>1 DEF AllParts, SchemaTypes
<1> QED BY <1>2, <1>3, <1>4, NameAssumption DEF IsDescribed, Resource, ParentTypes

LEMMA AddableAre ==
    ASSUME NEW parent, places[parent].thing \in {Resource} \cup AllParts, NEW c \in Addable(parent)
    PROVE  c \in AllParts /\ places[parent].thing.type \in ParentTypes
<1>1. PICK thing : thing = places[parent].thing
    OBVIOUS
<1>2. c \in Contents[thing]
    BY <1>1 DEF Addable
<1>3. c \in PartsOf(thing.type, thing.dict, thing.child)
    BY <1>1, <1>2 DEF Contents
<1>4. c \in AllParts
    BY <1>1, <1>3, AllPartsAre, ResourceIs DEF IsDescribed
<1>5. thing.type \in {"Set", "Array", "PropertyAnnotation"}
    BY <1>3 DEF PartsOf
<1> QED BY <1>1, <1>4, <1>5 DEF ParentTypes

-----------------------------------------------------------------------------
(* What the caller builds, call by call.                                    *)

Owners == [n \in DOMAIN places |-> places[n].parent]

\* Every node in use is the thing it was initialised to.
Built ==
    /\ Listed(nodes, DOMAIN places, Owners)
    /\ WellBuilt(nodes)
    /\ \A n \in DOMAIN places :
          /\ places[n].thing \in {Resource} \cup AllParts
          /\ nodes[n].type = places[n].thing.type

LEMMA BuildStarts ==
    ASSUME RoundTripInit
    PROVE  Built /\ nodes \in TreeType
<1>0. First \in Nodes /\ "Set" \in ParentTypes
    BY RoundTripAssumption DEF ParentTypes
<1>1. BlankTree \in TreeType
    BY NameAssumption DEF BlankTree, TreeType, NodeType, NoValue, ValueType, Pointers, LeafTypes
<1>2. Resource.name \in Names /\ Resource.type = "Set"
    BY ResourceIs DEF IsDescribed
<1>3. Fresh(BlankTree, nodes, First) /\ nodes[First].type = "Set"
    BY <1>0, <1>1, <1>2, FreshParent DEF RoundTripInit
<1>4. /\ nodes \in TreeType /\ nodes[First].sibling = NULL /\ nodes[First].firstChild = NULL
      /\ nodes[First].nChildren = 0
      /\ \A n \in Nodes \ {First} : nodes[n] = BlankTree[n]
    BY <1>0, <1>3 DEF Fresh
<1>5. \A n \in Nodes \ {First} : /\ nodes[n].sibling = NULL /\ nodes[n].firstChild = NULL
                                 /\ nodes[n].type = "Null"
    <2>1. \A n \in Nodes : /\ BlankTree[n].sibling = NULL /\ BlankTree[n].firstChild = NULL
                           /\ BlankTree[n].type = "Null"
        BY DEF BlankTree
    <2> QED BY <1>4, <2>1
<1>6. \A n \in Nodes : nodes[n].sibling = NULL /\ nodes[n].firstChild = NULL
    BY <1>4, <1>5
<1>7. WellBuilt(nodes)
    <2>1. LinkedOnce(nodes)
        BY <1>6 DEF LinkedOnce, FirstChild
    <2>2. NoCycle(nodes)
        <3> SUFFICES ASSUME NEW s \in SUBSET Nodes, s # {}
                     PROVE  \E n \in s : FirstChild(nodes, n) \notin s /\ nodes[n].sibling \notin s
            BY DEF NoCycle
        <3>1. PICK n \in s : TRUE
            OBVIOUS
        <3>2. FirstChild(nodes, n) = NULL /\ nodes[n].sibling = NULL
            BY <1>6 DEF FirstChild
        <3> QED BY <3>2, NodesAssumption
    <2>3. ChildrenCounted(nodes)
        <3>1. SiblingCount(nodes)[NULL] = 0
            BY <1>4, <2>2, CountEquation
        <3> QED BY <1>4, <1>5, <1>6, <3>1 DEF ChildrenCounted, bejTreeIsParentType, ParentTypes
    <2>4. IntegersFit(nodes)
        BY <1>3, <1>5 DEF IntegersFit
    <2> QED BY <2>1, <2>2, <2>3, <2>4 DEF WellBuilt
<1>8. /\ DOMAIN places = {First} /\ places[First].parent = NULL
      /\ places[First].thing = Resource
    BY DEF RoundTripInit
<1>9. Listed(nodes, DOMAIN places, Owners)
    <2>1. Owners[First] = NULL
        BY <1>8 DEF Owners
    <2>2. \A n \in Nodes \ {First} : nodes[n].type \notin ParentTypes
        BY <1>5 DEF ParentTypes
    <2> QED BY <1>0, <1>4, <1>5, <1>8, <2>1, <2>2, NodesAssumption DEF Listed
<1> QED BY <1>2, <1>3, <1>4, <1>7, <1>8, <1>9 DEF Built

\* What Placed says of a node that was not in use, or was not linked.
LEMMA PlacedAre ==
    ASSUME NEW node, NEW c, NEW parent, places' = Placed(node, c, parent)
    PROVE  /\ DOMAIN places' = DOMAIN places \cup {node}
           /\ places'[node].thing = c /\ places'[node].parent = parent
           /\ \A n \in DOMAIN places \ {node} : places'[n] = places[n]
BY DEF Placed

LEMMA InitNodeKeeps ==
    ASSUME Built, NEW node \in Nodes \ DOMAIN places, NEW c \in AllParts, InitNode(node, c)
    PROVE  Built' /\ nodes' \in TreeType
<1>1. /\ c.type \in ParentTypes /\ nodes' = bejTreeInitParent(nodes, node, c.name, c.type)
      /\ places' = Placed(node, c, NULL)
    BY DEF InitNode
<1>2. nodes \in TreeType
    BY DEF Built, Listed
<1>3. Fresh(nodes, nodes', node) /\ nodes'[node].type = c.type
    BY <1>1, <1>2, AllPartsAre, FreshParent DEF IsDescribed
<1>4. /\ DOMAIN places' = DOMAIN places \cup {node}
      /\ places'[node].thing = c /\ Owners'[node] = NULL
      /\ \A n \in DOMAIN places : places'[n] = places[n] /\ Owners'[n] = Owners[n]
    <2>1. /\ DOMAIN places' = DOMAIN places \cup {node}
          /\ places'[node].thing = c /\ places'[node].parent = NULL
          /\ \A n \in DOMAIN places : places'[n] = places[n]
        BY <1>1, PlacedAre
    <2> QED BY <2>1 DEF Owners
<1>5. Listed(nodes', DOMAIN places', Owners')
    BY <1>3, <1>4, FreshListed DEF Built
<1>6. WellBuilt(nodes')
    BY <1>3, FreshWellBuilt DEF Built
<1>7. ASSUME NEW n \in DOMAIN places'
      PROVE  places'[n].thing \in {Resource} \cup AllParts /\ nodes'[n].type = places'[n].thing.type
    <2>1. CASE n = node
        BY <1>3, <1>4, <2>1
    <2>2. CASE n # node
        <3>1. n \in DOMAIN places /\ n \in Nodes \ {node}
            BY <1>4, <2>2 DEF Built, Listed
        <3> QED BY <1>3, <1>4, <3>1 DEF Built, Fresh
    <2> QED BY <2>1, <2>2
<1> QED BY <1>3, <1>5, <1>6, <1>7 DEF Built, Fresh

\* The leaf is initialised, and then linked.
LEMMA AddLeafKeeps ==
    ASSUME Built, NEW parent \in DOMAIN places, NEW node \in Nodes \ DOMAIN places,
           NEW c \in Addable(parent), AddLeaf(parent, node, c)
    PROVE  Built' /\ nodes' \in TreeType
<1>1. PICK value : value = ValueFor(c)
    OBVIOUS
<1>2. PICK new : new = [bejTreeInitChildNode(nodes, node, c.name, c.type) EXCEPT ![node].value = value]
    OBVIOUS
<1>3. /\ c.type \in LeafTypes /\ places' = Placed(node, c, parent)
      /\ nodes' = bejTreeLinkChildToParent(new, parent, node)
    BY <1>1, <1>2 DEF AddLeaf, bejTreeAdd
<1>4. c \in AllParts /\ places[parent].thing.type \in ParentTypes /\ IsDescribed(c)
    BY AddableAre, AllPartsAre DEF Built
<1>5. /\ nodes \in TreeType /\ DOMAIN places \subseteq Nodes /\ NULL \notin Nodes
      /\ nodes[node].firstChild = NULL
      /\ nodes[parent].type \in ParentTypes
    BY <1>4, NodesAssumption DEF Built, Listed
<1>6. value \in ValueType /\ (c.type \in {"Integer", "Real"} => value.bytes <= 255)
    <2>1. PICK b : b = IF c.type = "String" THEN StringBytes ELSE 1
        OBVIOUS
    <2>2. value = [bytes |-> b, zeros |-> 0, fract |-> 0, tooLarge |-> FALSE, option |-> c.option]
        BY <1>1, <2>1 DEF ValueFor, NoValue
    <2>3. b \in Nat /\ (c.type \in {"Integer", "Real"} => b <= 255)
        BY <2>1, RoundTripAssumption
    <2> QED BY <1>4, <2>2, <2>3 DEF ValueType, IsDescribed
<1>7. Fresh(nodes, new, node) /\ new[node].type = c.type
    <2>1. c.type \in LeafTypes /\ c.name \in Names
        BY <1>3, <1>4 DEF IsDescribed
    <2> QED BY <1>2, <1>5, <1>6, <2>1, FreshLeaf
<1>8. PICK used, now, owner, own, between :
          /\ used = DOMAIN places /\ now = used \cup {node} /\ owner = Owners /\ own = Owners'
          /\ between = [n \in now |-> IF n = node THEN NULL ELSE owner[n]]
    OBVIOUS
<1>9. /\ DOMAIN places' = now /\ parent \in used /\ node \notin used /\ node \in Nodes
      /\ places'[node].thing = c /\ own[node] = parent
      /\ \A n \in used : places'[n] = places[n] /\ own[n] = owner[n]
    <2>1. /\ DOMAIN places' = DOMAIN places \cup {node}
          /\ places'[node].thing = c /\ places'[node].parent = parent
          /\ \A n \in DOMAIN places : places'[n] = places[n]
        BY <1>3, PlacedAre
    <2>2. Owners'[node] = parent /\ \A n \in DOMAIN places : Owners'[n] = Owners[n]
        BY <2>1 DEF Owners
    <2> QED BY <1>8, <2>1, <2>2
<1>10. /\ Listed(nodes, used, owner) /\ WellBuilt(nodes)
       /\ between[node] = NULL /\ \A n \in used : between[n] = owner[n]
    BY <1>8, <1>9 DEF Built
<1>11. Listed(new, now, between) /\ WellBuilt(new)
    BY <1>7, <1>8, <1>9, <1>10, FreshListed, FreshWellBuilt
<1>12. Loose(now, between, parent, node)
    BY <1>8, <1>9, <1>10 DEF Loose
<1>13. Added(new, nodes', parent, node)
    <2>1. new \in TreeType /\ parent \in Nodes \ {node}
        BY <1>5, <1>7, <1>8, <1>9 DEF Fresh
    <2>2. new[parent].firstChild # NULL => new[parent].lastChild \in Nodes
        BY <1>5, <1>8, <1>9, <1>11 DEF Listed
    <2> QED BY <1>3, <1>9, <2>1, <2>2, LinkAdds
<1>14. Branch(now, between, node, {node})
    <2>1. \A n \in used : owner[n] \in used \cup {NULL}
        BY <1>10 DEF Listed
    <2> QED BY <1>5, <1>8, <1>9, <1>10, <2>1 DEF Branch
<1>15. new[parent].type \in ParentTypes /\ parent \notin {node}
    BY <1>5, <1>7, <1>8, <1>9 DEF Fresh
<1>16. \A n \in now \ {node} : own[n] = between[n]
    BY <1>8, <1>9, <1>10
<1>17. Listed(nodes', now, own)
    BY <1>9, <1>11, <1>12, <1>13, <1>16, AddedLinks
<1>18. WellBuilt(nodes')
    BY <1>11, <1>12, <1>13, <1>14, <1>15, AddedWellBuilt
<1>19. ASSUME NEW n \in now
       PROVE  places'[n].thing \in {Resource} \cup AllParts /\ nodes'[n].type = places'[n].thing.type
    <2>1. nodes'[n].type = new[n].type
        BY <1>5, <1>8, <1>9, <1>13 DEF Added
    <2>2. CASE n = node
        BY <1>4, <1>7, <1>9, <2>1, <2>2
    <2>3. CASE n # node
        <3>1. n \in used /\ n \in Nodes \ {node}
            BY <1>5, <1>8, <2>3
        <3>2. new[n].type = nodes[n].type /\ places'[n] = places[n]
            BY <1>7, <1>9, <3>1 DEF Fresh
        <3> QED BY <1>8, <2>1, <3>1, <3>2 DEF Built
    <2> QED BY <2>2, <2>3
<1> QED BY <1>8, <1>9, <1>13, <1>17, <1>18, <1>19 DEF Built, Added

LEMMA LinkNodeKeeps ==
    ASSUME Built, NEW parent \in DOMAIN places, NEW node \in DOMAIN places, LinkNode(parent, node)
    PROVE  Built' /\ nodes' \in TreeType
<1>1. /\ places[node].parent = NULL /\ places[node].thing \in Addable(parent)
      /\ nodes' = bejTreeLinkChildToParent(nodes, parent, node)
      /\ places' = Placed(node, places[node].thing, parent)
    BY DEF LinkNode
<1>2. PICK branch \in SUBSET DOMAIN places : IsBranch(branch, node) /\ parent \notin branch
    BY DEF LinkNode
<1>3. PICK used, owner, own : used = DOMAIN places /\ owner = Owners /\ own = Owners'
    OBVIOUS
<1>4. /\ DOMAIN places' = used /\ owner[node] = NULL /\ own[node] = parent
      /\ places'[node].thing = places[node].thing
      /\ \A n \in used \ {node} : places'[n] = places[n] /\ own[n] = owner[n]
      /\ \A n \in used : owner[n] = places[n].parent
    <2>1. /\ DOMAIN places' = DOMAIN places /\ node \in DOMAIN places
          /\ places'[node].thing = places[node].thing /\ places'[node].parent = parent
          /\ \A n \in DOMAIN places \ {node} : places'[n] = places[n]
        BY <1>1, PlacedAre
    <2>2. /\ Owners[node] = NULL /\ Owners'[node] = parent
          /\ \A n \in DOMAIN places \ {node} : Owners'[n] = Owners[n]
          /\ \A n \in DOMAIN places : Owners[n] = places[n].parent
        BY <1>1, <2>1 DEF Owners
    <2> QED BY <1>3, <2>1, <2>2
<1>5. Listed(nodes, used, owner) /\ WellBuilt(nodes)
    BY <1>3 DEF Built
<1>6. nodes[parent].type \in ParentTypes
    BY <1>1, AddableAre DEF Built
<1>7. Branch(used, owner, node, branch)
    BY <1>2, <1>3, <1>4 DEF Branch, IsBranch
<1>8. Loose(used, owner, parent, node)
    BY <1>2, <1>3, <1>4 DEF Loose, IsBranch
<1>9. Added(nodes, nodes', parent, node)
    <2>1. /\ nodes \in TreeType /\ node \in Nodes /\ parent \in Nodes \ {node}
          /\ nodes[parent].firstChild # NULL => nodes[parent].lastChild \in Nodes
        BY <1>3, <1>5, <1>8 DEF Listed, Loose
    <2> QED BY <1>1, <2>1, LinkAdds
<1>10. Listed(nodes', used, own)
    BY <1>4, <1>5, <1>8, <1>9, AddedLinks
<1>11. WellBuilt(nodes')
    BY <1>2, <1>5, <1>6, <1>7, <1>8, <1>9, AddedWellBuilt
<1>12. ASSUME NEW n \in used
       PROVE  places'[n].thing \in {Resource} \cup AllParts /\ nodes'[n].type = places'[n].thing.type
    <2>1. places'[n].thing = places[n].thing
        BY <1>4
    <2>2. nodes'[n].type = nodes[n].type
        BY <1>5, <1>9 DEF Added, Listed
    <2> QED BY <1>3, <2>1, <2>2 DEF Built
<1> QED BY <1>3, <1>4, <1>9, <1>10, <1>11, <1>12 DEF Built, Added

-----------------------------------------------------------------------------
(* From the empty tree to the last tuple.                                    *)

\* While the caller builds, the tree is as good as any the encoder is proved
\* for, while it encodes, the call keeps what it keeps on such a tree, and what
\* it has written is a stream the decoder stays on.
RoundTripInv ==
    /\ TypeOK
    /\ phase \in {"build", "encode", "decode"}
    /\ phase = "build" =>
          /\ Built
          /\ pc = "call" /\ ret = "none" /\ stack = <<>> /\ output = <<>> /\ failed = FALSE
    /\ phase # "build" => EncodeInv
    /\ phase # "decode" => decPc = "block" /\ encodedStreamOffset = 0 /\ block \in Blocks
    /\ phase = "decode" => \E total : ReaderInv(total)

LEMMA RoundTripStarts ==
    ASSUME RoundTripInit
    PROVE  RoundTripInv
<1>1. Built /\ nodes \in TreeType
    BY BuildStarts
<1>2. /\ pc = "call" /\ ret = "none" /\ stack = <<>> /\ output = <<>> /\ failed = FALSE
      /\ phase = "build" /\ call \in Calls
    BY DEF RoundTripInit
<1>3. meta \in [Nodes -> MetaType]
    <2>1. PICK m \in Garbage : meta = [n \in Nodes |-> m]
        BY DEF RoundTripInit
    <2>2. Garbage \subseteq MetaType
        BY CallerAssumption
    <2> QED BY <2>1, <2>2
<1>4. TypeOK
    <2>1. stack \in Seq(Nodes) /\ output \in Seq(PieceType)
        BY <1>2
    <2>2. failed \in BOOLEAN
        BY <1>2
    <2> QED BY <1>1, <1>2, <1>3, <2>1, <2>2, Zenon DEF TypeOK
<1>5. decPc = "block" /\ encodedStreamOffset = 0 /\ block \in Blocks
    BY DEF RoundTripInit, Decoder!Init, Decoder!InitParams
<1> QED BY <1>1, <1>2, <1>4, <1>5 DEF RoundTripInv

LEMMA BuildStepKeeps ==
    ASSUME RoundTripInv, BuildStep
    PROVE  RoundTripInv'
<1>1. /\ phase = "build" /\ phase' = phase
      /\ UNCHANGED <<pc, ret, call, meta, stack, output, failed, decPc, encodedStreamOffset, block>>
    BY DEF BuildStep, decoderVars, decoderState
<1>2. Built /\ DOMAIN places \subseteq Nodes
    BY <1>1 DEF RoundTripInv, Built, Listed
<1>3. Built' /\ nodes' \in TreeType
    <2>1. ASSUME NEW node \in Nodes \ DOMAIN places, NEW c \in AllParts, InitNode(node, c)
          PROVE  Built' /\ nodes' \in TreeType
        BY <1>2, <2>1, InitNodeKeeps
    <2>2. ASSUME NEW parent \in DOMAIN places, NEW node \in Nodes \ DOMAIN places,
                 NEW c \in Addable(parent), AddLeaf(parent, node, c)
          PROVE  Built' /\ nodes' \in TreeType
        BY <1>2, <2>2, AddLeafKeeps
    <2>3. ASSUME NEW parent \in DOMAIN places, NEW node \in DOMAIN places, LinkNode(parent, node)
          PROVE  Built' /\ nodes' \in TreeType
        BY <1>2, <2>3, LinkNodeKeeps
    <2> QED BY <2>1, <2>2, <2>3 DEF BuildStep
<1>4. TypeOK'
    BY <1>1, <1>3 DEF RoundTripInv, TypeOK
<1> QED BY <1>1, <1>3, <1>4 DEF RoundTripInv

LEMMA FinishTreeKeeps ==
    ASSUME RoundTripInv, FinishTree
    PROVE  RoundTripInv'
<1>1. /\ phase = "build" /\ phase' = "encode" /\ UNCHANGED vars
      /\ UNCHANGED <<decPc, encodedStreamOffset, block>>
    BY DEF FinishTree, decoderVars, decoderState
<1>2. EncodeInv
    <2>1. WellBuilt(nodes)
        BY <1>1 DEF RoundTripInv, Built
    <2> QED BY <1>1, <2>1, EncodeInvStarts DEF RoundTripInv
<1>3. EncodeInv'
    BY <1>1, <1>2, EncodeInvKept
<1> QED BY <1>1, <1>3 DEF RoundTripInv, EncodeInv

LEMMA EncodeStepKeeps ==
    ASSUME RoundTripInv, EncodeStep
    PROVE  RoundTripInv'
<1>1. /\ phase = "encode" /\ phase' = "encode" /\ Next
      /\ UNCHANGED <<decPc, encodedStreamOffset, block>>
    BY DEF EncodeStep, decoderVars, decoderState
<1>2. EncodeInv'
    BY <1>1, EncodeInvKept DEF RoundTripInv
<1> QED BY <1>1, <1>2 DEF RoundTripInv, EncodeInv

LEMMA DeliverBlockKeeps ==
    ASSUME RoundTripInv, DeliverBlock
    PROVE  RoundTripInv'
<1>1. /\ phase = "encode" /\ phase' = "decode" /\ UNCHANGED vars
      /\ UNCHANGED <<decPc, encodedStreamOffset>> /\ ret = "OK" /\ ~failed
      /\ BytesBefore(Len(output) + 1) < U32
      /\ block' = [block EXCEPT !.blockLength = BytesBefore(Len(output) + 1)]
      /\ stream' = [o \in {OffsetOf(p) : p \in Formats} |->
                       TupleWritten(CHOOSE p \in Formats : OffsetOf(p) = o)]
    BY DEF DeliverBlock, decoderState
<1>2. EncodeInv /\ decPc = "block" /\ encodedStreamOffset = 0 /\ block \in Decoder!BlockType
    BY <1>1, BlocksAssumption DEF RoundTripInv
<1>3. EncodeInv'
    BY <1>1, <1>2, EncodeInvKept
<1>4. PICK P : /\ Sized(P) /\ output \in Seq(P) /\ BlockReads(output)
               /\ Measure(output) \in Nat /\ Measure(output) >= 7
    BY <1>1, <1>2, WrittenReads
<1>5. PICK bytes : bytes = Measure(output) /\ bytes = BytesBefore(Len(output) + 1)
    BY <1>4, AllBytes
<1>6. PICK total : total = bytes - 7
    OBVIOUS
<1>7. ChainedStream(stream', total)
    <2>1. total = Measure(output) - 7
        BY <1>5, <1>6
    <2> QED BY <1>1, <1>4, <2>1, StreamWritten
<1>8. bytes = total + 7 /\ bytes < U32
    BY <1>1, <1>4, <1>5, <1>6
<1>9. block'.blockLength = bytes
    <2>1. block' = [block EXCEPT !.blockLength = bytes]
        BY <1>1, <1>5
    <2> QED BY <1>2, <2>1 DEF Decoder!BlockType
<1>10. decPc' = "block" /\ encodedStreamOffset' = 0
    BY <1>1, <1>2
<1>11. ReaderInv(total)'
    BY <1>7, <1>8, <1>9, <1>10 DEF ReaderInv, DecoderWalks, Decoder!Endings
<1> QED BY <1>1, <1>3, <1>11 DEF RoundTripInv, EncodeInv

LEMMA DecodeStepKeeps ==
    ASSUME RoundTripInv, DecodeStep
    PROVE  RoundTripInv'
<1>1. phase = "decode" /\ phase' = "decode" /\ UNCHANGED vars /\ Decoder!Next
    BY DEF DecodeStep
<1>2. EncodeInv'
    BY <1>1, EncodeInvKept DEF RoundTripInv
<1>3. PICK total : ReaderInv(total)
    BY <1>1 DEF RoundTripInv
<1>4. ReaderInv(total)'
    BY <1>1, <1>3, DecoderKeeps
<1> QED BY <1>1, <1>2, <1>4 DEF RoundTripInv, EncodeInv

LEMMA StutterKeeps ==
    ASSUME RoundTripInv, UNCHANGED roundTripVars
    PROVE  RoundTripInv'
<1>1. /\ UNCHANGED <<phase, places, decPc, block, stream, sflv, payloadLen, encodedStreamOffset>>
      /\ UNCHANGED vars
    BY DEF roundTripVars, decoderVars, decoderState
<1>2. UNCHANGED <<pc, ret, call, nodes, meta, stack, output, failed>>
    BY <1>1 DEF vars
<1>3. TypeOK'
    BY <1>2 DEF RoundTripInv, TypeOK
<1>4. phase # "build" => EncodeInv'
    BY <1>1, EncodeInvKept DEF RoundTripInv
<1>5. phase = "build" => Built'
    BY <1>1, <1>2 DEF RoundTripInv, Built, Owners
<1>6. phase = "decode" => (\E total : ReaderInv(total))'
    <2> SUFFICES ASSUME phase = "decode" PROVE (\E total : ReaderInv(total))'
        OBVIOUS
    <2>1. PICK total : ReaderInv(total)
        BY DEF RoundTripInv
    <2>2. ReaderInv(total)'
        BY <1>1, <2>1 DEF ReaderInv, DecoderWalks, Decoder!Endings, ChainedStream,
                          Decoder!bejInitSFLVStruct, Decoder!streamLen
    <2> QED BY <2>2
<1> QED BY <1>1, <1>2, <1>3, <1>4, <1>5, <1>6 DEF RoundTripInv

\* From the first operation of the caller to the last callback of the decoder:
\* the tree is one the encoder is proved for, and the stream one the decoder
\* stays on.
THEOREM RoundTripInvHolds == RoundTripSpec => []RoundTripInv
<1>1. RoundTripInit => RoundTripInv
    BY RoundTripStarts
<1>2. RoundTripInv /\ [RoundTripNext]_roundTripVars => RoundTripInv'
    BY BuildStepKeeps, FinishTreeKeeps, EncodeStepKeeps, DeliverBlockKeeps, DecodeStepKeeps,
       StutterKeeps DEF RoundTripNext
<1> QED BY <1>1, <1>2, PTL DEF RoundTripSpec

\* Whatever nodes the caller initialises and links, in whatever order (a branch
\* from its leaves up or from its top down, a child now for one parent and now
\* for another), each of them initialised once, linked once, and not below
\* itself: every list of children ends, no node is in two of them, and each
\* parent counts its own. bejEncode changes no more of the tree than the flags.
THEOREM TreeIsWellBuiltHolds == RoundTripSpec => []TreeIsWellBuilt
<1>1. RoundTripInv => TreeIsWellBuilt
    <2> SUFFICES ASSUME RoundTripInv PROVE WellBuilt(nodes)
        BY DEF TreeIsWellBuilt
    <2>1. CASE phase = "build"
        BY <2>1 DEF RoundTripInv, Built
    <2>2. CASE phase # "build"
        <3>1. PICK tree, below, height : CallInv(tree, below, height, <<>>)
            BY <2>2 DEF RoundTripInv, EncodeInv
        <3>2. tree \in TreeType /\ WellBuilt(tree) /\ Reflagged(tree, below, nodes)
            BY <3>1 DEF CallInv, Frame
        <3> QED BY <3>2, FlagsKeepWellBuilt
    <2> QED BY <2>1, <2>2
<1> QED BY <1>1, RoundTripInvHolds, PTL

\* Whatever tree of whatever dictionaries the caller has built, and whatever
\* callbacks fail: every tuple the decoder reads is one the encoder has written,
\* at the offset it was written at. The lengths bejUpdateParentMetaData adds up
\* from the leaves lead the decoder from tuple to tuple to the end of the block.
THEOREM ReadsWhatWasWrittenHolds == RoundTripSpec => []ReadsWhatWasWritten
<1>1. RoundTripInv => ReadsWhatWasWritten
    <2> SUFFICES ASSUME RoundTripInv, phase = "decode",
                        decPc = "root" \/ (decPc = "loop" /\ encodedStreamOffset < payloadLen)
                 PROVE  encodedStreamOffset \in DOMAIN stream
        BY DEF ReadsWhatWasWritten
    <2>1. PICK total : ReaderInv(total)
        BY DEF RoundTripInv
    <2>2. ChainedStream(stream, total)
        BY <2>1 DEF ReaderInv
    <2>3. total \in Nat /\ 0 \in DOMAIN stream
        BY <2>2 DEF ChainedStream
    <2>4. CASE decPc = "root"
        BY <2>1, <2>3, <2>4 DEF ReaderInv
    <2>5. CASE decPc = "loop" /\ encodedStreamOffset < payloadLen
        BY <2>1, <2>3, <2>5 DEF ReaderInv, DecoderWalks
    <2> QED BY <2>4, <2>5
<1> QED BY <1>1, RoundTripInvHolds, PTL

=============================================================================
