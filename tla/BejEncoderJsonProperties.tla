---------------------- MODULE BejEncoderJsonProperties ----------------------
(***************************************************************************)
(* What an object that encodes one tree after another promises: each call  *)
(* is to do what BejReference defines, whatever the calls before it did.   *)
(***************************************************************************)
EXTENDS BejEncoderJson, BejEncoderProperties

ASSUME ValuesAssumption ==
    \A n \in DOMAIN Values : \A value \in Values[n] : value.bytes <= 255

\* What the last call has added to the output.
Written == SubSeq(output, Len(before) + 1, Len(output))

\* A call on an object whose stack is empty adds the encoding of its tree to
\* the output, whatever the nodes' metadata and cursors hold from earlier
\* calls, on this tree or on another that used the same nodes; and it fails
\* exactly when the tree cannot be encoded.
CleanEncodeIsExact ==
    pc = "done" /\ ~dirty =>
        /\ ret = Verdict
        /\ ret = "OK" => Written = Encoding

\* The same object does the encoding correctly when it is used again
\* (test/bej_encoder_test.cpp, lines 427-428).
SameObjectEncodesAgain == pc = "done" /\ ret = "OK" => Written = Encoding

=============================================================================
