----------------------------- MODULE BejNumbers -----------------------------
(***************************************************************************)
(* Numbers in BEJ (src/bej_common.c, and where bej_decoder_core.c,         *)
(* bej_encoder_core.c and bej_encoder_metadata.c convert them): nnint, an  *)
(* unsigned number behind the count of its bytes; bejInteger, two's        *)
(* complement in as few bytes as will do; and bejReal, a decimal taken     *)
(* apart.                                                                  *)
(*                                                                         *)
(* A byte string is a sequence of numbers below Byte, least significant    *)
(* first. uint64_t and int64_t are numbers of IntBytes bytes.              *)
(***************************************************************************)
EXTENDS Integers, Sequences

CONSTANTS
    Byte,       \* the values of a byte: 256
    IntBytes    \* the bytes of a uint64_t: 8

ASSUME WidthAssumption ==
    /\ Byte \in Nat \ {0, 1} /\ Byte % 2 = 0
    /\ IntBytes \in Nat \ {0} /\ IntBytes + 1 < Byte

\* base ^ n, by recursion: the provers do not know ^.
Power(base, n) ==
    LET upTo[k \in Nat] == IF k = 0 THEN 1 ELSE base * upTo[k - 1]
    IN  upTo[n]

Word == Power(Byte, IntBytes)
Unsigned == 0 .. Word - 1
INT64_MAX == Word \div 2 - 1
INT64_MIN == -(Word \div 2)
Signed == INT64_MIN .. INT64_MAX

\* (v >> 8 * i) & 0xFF of an int64_t or a uint64_t: the shift is arithmetic.
ByteAt(v, i) == (v \div Power(Byte, i)) % Byte

\* The first size bytes of a number as they are in memory.
BytesOf(v, size) == [i \in 1 .. size |-> ByteAt(v, i - 1)]

\* What follows the first n bytes of a string.
After(bytes, n) == SubSeq(bytes, n + 1, Len(bytes))

-----------------------------------------------------------------------------
(* Unsigned numbers. *)

bejGetUnsignedInteger(bytes, size) ==
    LET upTo[n \in 0 .. size] ==
            IF n = 0 THEN 0 ELSE upTo[n - 1] + bytes[n] * Power(Byte, n - 1)
    IN  upTo[size]

\* The number of shifts by a byte until nothing is left, at least one.
bejNnintLengthFieldOfUInt(v) ==
    CHOOSE k \in 1 .. IntBytes :
        /\ k = IntBytes \/ v < Power(Byte, k)
        /\ k = 1 \/ ~(v < Power(Byte, k - 1))

bejNnintEncodingSizeOfUInt(v) == bejNnintLengthFieldOfUInt(v) + 1

bejEncodeNnint(v) ==
    LET size == bejNnintLengthFieldOfUInt(v)
    IN  <<size>> \o BytesOf(v, size)

bejGetNnint(bytes) == bejGetUnsignedInteger(Tail(bytes), bytes[1])

\* A uint8_t.
bejGetNnintSize(bytes) == (bytes[1] + 1) % Byte

-----------------------------------------------------------------------------
(* Signed numbers. *)

\* Bug: no byte is added for the sign.
IntLengthWithoutPadding(v) ==
    IF v \in {0, -1} THEN 1
    ELSE LET filler == IF v > 0 THEN 0 ELSE Byte - 1
         IN  1 + CHOOSE i \in 0 .. IntBytes - 1 :
                     /\ ByteAt(v, i) # filler
                     /\ \A j \in i + 1 .. IntBytes - 1 : ByteAt(v, j) = filler

\* Leading bytes that only repeat the sign are left out, but for one when the
\* first byte that stays has the other sign.
bejIntLengthOfValue(v) ==
    IF v \in {0, -1} THEN 1
    ELSE LET filler == IF v > 0 THEN 0 ELSE Byte - 1
             top == CHOOSE i \in 0 .. IntBytes - 1 :
                        /\ ByteAt(v, i) # filler
                        /\ \A j \in i + 1 .. IntBytes - 1 : ByteAt(v, j) = filler
             padded == IF v > 0 THEN ByteAt(v, top) >= Byte \div 2
                       ELSE ByteAt(v, top) < Byte \div 2
         IN  IF padded THEN top + 2 ELSE top + 1

bejEncodeInteger(v) == BytesOf(v, bejIntLengthOfValue(v))

\* Bug: the highest bit is taken for a digit.
ToUnsigned(v) == v

\* (int64_t)v of a uint64_t.
ToSigned(v) == IF v > INT64_MAX THEN v - Word ELSE v

\* (value ^ mask) - mask, where mask is the highest bit that has been read.
bejGetIntegerValue(bytes, size) ==
    IF size = 0 THEN 0
    ELSE LET value == bejGetUnsignedInteger(bytes, size)
             mask == Power(Byte, size) \div 2
             flipped == IF value >= mask THEN value - mask ELSE value + mask
         IN  ToSigned((flipped - mask) % Word)

=============================================================================
