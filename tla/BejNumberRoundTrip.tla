------------------------- MODULE BejNumberRoundTrip -------------------------
(***************************************************************************)
(* A number of a resource on its way through the library: measured by the  *)
(* metadata pass (src/bej_encoder_metadata.c), written by the encoder      *)
(* (src/bej_encoder_core.c), read by the decoder (src/bej_decoder_core.c)  *)
(* and, for a real, printed (src/bej_decoder_json.cpp).                    *)
(*                                                                         *)
(* A number is a record of its kind ("nnint", "Integer" or "Real") and     *)
(*                                                                         *)
(*   value    of an nnint or an integer                                    *)
(*   negative, whole, fract                                                *)
(*            of a real: its sign, the integer part of its magnitude, and  *)
(*            the rest in units of the last of FractDigits decimals        *)
(*                                                                         *)
(* A double is taken for the decimal its caller wrote: how binary          *)
(* fractions round is left out.                                            *)
(***************************************************************************)
EXTENDS BejNumbers, FiniteSets

CONSTANTS
    Numbers,            \* the numbers a resource may hold
    BEJ_REAL_PRECISION, \* the decimals of a fraction that are encoded: 16
    FractDigits,        \* the decimals a real may have
    MaxZeros            \* the leading zeros the JSON decoder prints: 100

NumberType ==
    [kind: {"nnint"}, value: Unsigned]
        \cup [kind: {"Integer"}, value: Signed]
        \cup [kind: {"Real"}, negative: BOOLEAN, whole: Nat, fract: Nat]

ASSUME NumbersAssumption == Numbers \subseteq NumberType

ASSUME DigitsAssumption ==
    /\ BEJ_REAL_PRECISION \in Nat /\ Power(10, BEJ_REAL_PRECISION) <= Word
    /\ FractDigits \in Nat /\ BEJ_REAL_PRECISION <= FractDigits
    /\ \A n \in Numbers : n.kind = "Real" => n.fract < Power(10, FractDigits)
    /\ MaxZeros \in Nat /\ BEJ_REAL_PRECISION <= MaxZeros

VARIABLES
    pc,         \* "measure", "encode", "decode", "print" or "done"
    ret,        \* "OK", or the status the number was refused with
    number,     \* the number of the resource
    bejReal,    \* node->bejReal
    vSize,      \* the size measured
    bytes,      \* the value as written
    decoded     \* what the decoder hands to its callback

vars == <<pc, ret, number, bejReal, vSize, bytes, decoded>>

BejReal == [whole: Signed, zeroCount: Unsigned, fract: Unsigned]
NoReal == [whole |-> 0, zeroCount |-> 0, fract |-> 0]
NoNumber == [kind |-> "nnint", value |-> 0]

TypeOK ==
    /\ pc \in {"measure", "encode", "decode", "print", "done"}
    /\ ret \in {"OK", "Unknown", "InvalidSize"}
    /\ number \in Numbers
    /\ bejReal \in BejReal
    /\ vSize \in Nat
    /\ bytes \in Seq(0 .. Byte - 1)
    /\ decoded \in [kind: {"nnint"}, value: Unsigned]
                       \cup [kind: {"Integer"}, value: Signed]
                       \cup [kind: {"Real"}, real: BejReal]

-----------------------------------------------------------------------------
(* bejUpdateRealMetaData and the sizes of the other kinds. *)

\* value > (double)INT64_MAX, which the conversion of the limit rounds up.
TooLarge ==
    /\ ~number.negative
    /\ \/ number.whole > INT64_MAX + 1
       \/ number.whole = INT64_MAX + 1 /\ number.fract # 0

\* (int64_t)originalWhole. For what is not an int64_t that is undefined:
\* processors give the smallest int64_t, or the nearest one.
Wholes ==
    LET whole == IF number.negative THEN -number.whole ELSE number.whole
    IN  IF whole \in Signed THEN {whole}
        ELSE {INT64_MIN, IF number.negative THEN INT64_MIN ELSE INT64_MAX}

\* originalFactConvertedToWhole after n turns of the loop: its integer part,
\* the first n decimals of the fraction, and whether it has any other.
IntegerPart(n) == (number.fract * Power(10, n)) \div Power(10, FractDigits)
NothingLeft(n) == (number.fract * Power(10, n)) % Power(10, FractDigits) = 0

\* The turns the loop makes.
Turns ==
    CHOOSE n \in 0 .. BEJ_REAL_PRECISION :
        /\ NothingLeft(n) \/ n = BEJ_REAL_PRECISION
        /\ \A m \in 0 .. n - 1 : ~NothingLeft(m)

\* Bug: a zero is counted before the multiplication that reveals a digit.
ZerosBeforeTurn == Cardinality({n \in 0 .. Turns - 1 : IntegerPart(n) = 0})

\* The turns after which the integer part is still zero.
LeadingZeros == Cardinality({n \in 1 .. Turns : IntegerPart(n) = 0})

\* Bug: the length of the whole part is forgotten.
RealSizeWithoutLength(real) ==
    bejIntLengthOfValue(real.whole) + bejNnintEncodingSizeOfUInt(real.zeroCount)
        + bejNnintEncodingSizeOfUInt(real.fract) + bejNnintEncodingSizeOfUInt(0)

\* BEJ_TUPLE_L_SIZE_FOR_BEJ_INTEGER, the bytes of the whole part, two nnints
\* and that of the length of the exponent, which is never written.
RealSize(real) ==
    2 + bejIntLengthOfValue(real.whole) + bejNnintEncodingSizeOfUInt(real.zeroCount)
        + bejNnintEncodingSizeOfUInt(real.fract) + bejNnintEncodingSizeOfUInt(0)

MeasureReal ==
    /\ pc = "measure"
    /\ number.kind = "Real"
    /\ \/ /\ TooLarge
          /\ ret' = "Unknown"
          /\ pc' = "done"
          /\ UNCHANGED <<bejReal, vSize>>
       \/ /\ ~TooLarge
          /\ \E whole \in Wholes :
                bejReal' = [whole |-> whole, zeroCount |-> LeadingZeros,
                            fract |-> IntegerPart(Turns)]
          /\ vSize' = RealSize(bejReal')
          /\ pc' = "encode"
          /\ UNCHANGED ret
    /\ UNCHANGED <<number, bytes, decoded>>

Measure ==
    /\ pc = "measure"
    /\ number.kind # "Real"
    /\ vSize' = IF number.kind = "Integer" THEN bejIntLengthOfValue(number.value)
                ELSE bejNnintEncodingSizeOfUInt(number.value)
    /\ pc' = "encode"
    /\ UNCHANGED <<ret, number, bejReal, bytes, decoded>>

-----------------------------------------------------------------------------
(* The value as it is written and read. *)

\* bejEncodeBejReal of a number without an exponent.
bejEncodeBejReal(real) ==
    bejEncodeNnint(bejIntLengthOfValue(real.whole)) \o bejEncodeInteger(real.whole)
        \o bejEncodeNnint(real.zeroCount) \o bejEncodeNnint(real.fract)
        \o bejEncodeNnint(0)

Encode ==
    /\ pc = "encode"
    /\ bytes' = CASE number.kind = "nnint" -> bejEncodeNnint(number.value)
                  [] number.kind = "Integer" -> bejEncodeInteger(number.value)
                  [] number.kind = "Real" -> bejEncodeBejReal(bejReal)
    /\ pc' = "decode"
    /\ UNCHANGED <<ret, number, bejReal, vSize, decoded>>

\* The parts of a real, each behind the one before it.
bejHandleBejReal ==
    LET wholeByteLen == bejGetNnint(bytes)
        wholeBejInt == After(bytes, bejGetNnintSize(bytes))
        fractZeroCountNnint == After(wholeBejInt, wholeByteLen)
        fractNnint == After(fractZeroCountNnint, bejGetNnintSize(fractZeroCountNnint))
    IN  [whole |-> bejGetIntegerValue(wholeBejInt, wholeByteLen),
         zeroCount |-> bejGetNnint(fractZeroCountNnint),
         fract |-> bejGetNnint(fractNnint)]

Decode ==
    /\ pc = "decode"
    /\ decoded' =
          CASE number.kind = "nnint" -> [kind |-> "nnint", value |-> bejGetNnint(bytes)]
            [] number.kind = "Integer" ->
                  [kind |-> "Integer", value |-> bejGetIntegerValue(bytes, vSize)]
            [] number.kind = "Real" -> [kind |-> "Real", real |-> bejHandleBejReal]
    /\ pc' = IF number.kind = "Real" THEN "print" ELSE "done"
    /\ UNCHANGED <<ret, number, bejReal, vSize, bytes>>

\* callbackReal refuses a number with too many leading zeros.
callbackReal ==
    /\ pc = "print"
    /\ ret' = IF decoded.real.zeroCount > MaxZeros THEN "InvalidSize" ELSE "OK"
    /\ pc' = "done"
    /\ UNCHANGED <<number, bejReal, vSize, bytes, decoded>>

\* The decimals of what it prints: the zeros, then the digits of fract.
Digits(n) == CHOOSE k \in 1 .. n + 1 : n < Power(10, k) /\ (k = 1 \/ n >= Power(10, k - 1))

Decimals(real) == real.zeroCount + Digits(real.fract)

-----------------------------------------------------------------------------
Init ==
    /\ pc = "measure"
    /\ ret = "OK"
    /\ number \in Numbers
    /\ bejReal = NoReal
    /\ vSize = 0
    /\ bytes = <<>>
    /\ decoded = NoNumber

Next == Measure \/ MeasureReal \/ Encode \/ Decode \/ callbackReal

Spec == Init /\ [][Next]_vars

-----------------------------------------------------------------------------
(* Properties. *)

\* The size the metadata pass puts in front of a value (lines 211 and 302 to
\* 312) is the number of bytes the encoder then writes for it.
SizeIsExact == pc \in {"decode", "print"} => Len(bytes) = vSize

\* An integer is read as what was written, from the smallest to the largest
\* int64_t and uint64_t, and from no fewer bytes than were written: no leading
\* byte is missing and none is superfluous (bejIntLengthOfValue).
IntegersSurvive ==
    pc = "done" /\ number.kind # "Real" =>
        /\ decoded = number
        /\ number.kind = "Integer" =>
              \A n \in 1 .. Len(bytes) - 1 :
                  bejGetIntegerValue(bytes, n) # number.value

\* What is printed for a real: its parts name the number.
Prints(real, n) ==
    /\ (IF n.negative THEN -n.whole ELSE n.whole) = real.whole
    /\ real.fract * Power(10, FractDigits) =
           (n.fract - (n.fract % Power(10, FractDigits - BEJ_REAL_PRECISION)))
               * Power(10, Decimals(real))

\* A real is printed as what it was, cut to the precision, unless it lies
\* between -1 and 0 or beyond the whole numbers of an int64_t: the loop that
\* counts the zeros (lines 282 to 293), the five parts written and the text
\* agree on every place of every decimal.
RealsSurvive ==
    /\ pc = "done"
    /\ number.kind = "Real"
    /\ number.whole <= INT64_MAX
    /\ number.negative => number.whole # 0
    => ret = "OK" /\ Prints(decoded.real, number)

\* The whole part includes the sign for the overall real number (a comment in
\* bejHandleBejReal, line 643): a negative real is read as one.
WholeIncludesSign ==
    pc = "done" /\ ret = "OK" /\ number.kind = "Real" =>
        (number.negative <=> decoded.real.whole < 0)

-----------------------------------------------------------------------------
(* The inductive invariant: what each step has made of the number.           *)

StatusInv ==
    /\ pc # "done" => ret = "OK"
    /\ pc = "print" => number.kind = "Real"
    /\ ret = "Unknown" => number.kind = "Real" /\ TooLarge
    /\ ret # "InvalidSize"

\* The parts of a real.
TakenApart ==
    /\ bejReal.whole \in Wholes
    /\ bejReal.zeroCount = LeadingZeros
    /\ bejReal.fract = IntegerPart(Turns)

MeasuredInv ==
    pc # "measure" /\ ret # "Unknown" =>
        CASE number.kind = "nnint" -> vSize = bejNnintEncodingSizeOfUInt(number.value)
          [] number.kind = "Integer" -> vSize = bejIntLengthOfValue(number.value)
          [] number.kind = "Real" -> TakenApart /\ vSize = RealSize(bejReal)

WrittenInv ==
    pc \notin {"measure", "encode"} /\ ret # "Unknown" =>
        CASE number.kind = "nnint" -> bytes = bejEncodeNnint(number.value)
          [] number.kind = "Integer" -> bytes = bejEncodeInteger(number.value)
          [] number.kind = "Real" -> bytes = bejEncodeBejReal(bejReal)

ReadInv ==
    pc \in {"print", "done"} /\ ret # "Unknown" =>
        decoded = IF number.kind = "Real" THEN [kind |-> "Real", real |-> bejReal]
                  ELSE number

NumberInv == TypeOK /\ StatusInv /\ MeasuredInv /\ WrittenInv /\ ReadInv

=============================================================================
