-------------------------- MODULE MCBejDecoderJson --------------------------
(***************************************************************************)
(* Small instances of BejDecoderJson, with the dictionaries and tuples of  *)
(* MCBejDecoder.                                                           *)
(***************************************************************************)
EXTENDS BejDecoderJson, MCBejDecoder

\* A string may not be terminated (callbackString), and a real may have too
\* many zeros (callbackReal). No other callback fails.
JsonFailingCallbacks == {"String", "Real"}

\* A tuple without a name in the dictionary, an annotated set and an annotated
\* value, sections with none, one or two of them, and a string.
JsonTuples ==
    {Tuple("Set", "Primary", 0, len, n) : len \in {2, 7, 14, 19, 21}, n \in {0, 1}}
        \cup {Tuple("Array", "Primary", 1, len, n) : len \in {2, 7}, n \in {0, 1}}
        \cup {Tuple("Set", "Annotation", 1, 7, 1)}
        \cup {Tuple("PropertyAnnotation", "Primary", 0, len, 0) : len \in {0, 5, 12}}
        \cup {Tuple("Null", "Annotation", 0, 0, 0),
              Tuple("String", "Primary", 0, 1, 0),
              Tuple("Null", "Primary", 9, 0, 0)}

JsonBlocks == {Block(7 + 14, "Error"), Block(7 + 21, "Error"), Block(7 + 26, "Ignore"), Block(6, "Error")}

\* A property the dictionary does not have.
UnknownTuples ==
    {Tuple("Set", "Primary", 0, len, 1) : len \in {7, 14}} \cup {Tuple("Null", "Primary", 9, 0, 0)}
        \cup {Tuple("Integer", "Primary", 0, len, 0) : len \in {0, 1, 2}}

UnknownBlocks == {Block(7 + len, "Error") : len \in {12, 19}}
=============================================================================
