------------------------ MODULE MCBejNumberRoundTrip ------------------------
(***************************************************************************)
(* Numbers of four bytes of three bits each: every nnint, every integer,     *)
(* every fraction of up to four decimals, and whole parts at every limit.  *)
(***************************************************************************)
EXTENDS BejNumberRoundTrip

Real(negative, whole, fract) ==
    [kind |-> "Real", negative |-> negative, whole |-> whole, fract |-> fract]

Fractions == {Real(FALSE, 0, f) : f \in 0 .. 9999}

WithWhole ==
    {Real(negative, whole, f) :
        negative \in BOOLEAN, whole \in {1, 31, 32, 2047}, f \in {0, 1, 90, 105, 5000, 9999}}

\* Whole parts no int64_t holds; a double that large has no fraction.
Large == {Real(negative, whole, 0) : negative \in BOOLEAN, whole \in {2048, 2049}}

MCNumbers ==
    [kind: {"nnint"}, value: Unsigned] \cup [kind: {"Integer"}, value: Signed]
        \cup Fractions \cup WithWhole \cup Large

\* Reals on both sides of zero, for the sign.
SmallReals == {Real(negative, whole, 5000) : negative \in BOOLEAN, whole \in {0, 1}}
=============================================================================
