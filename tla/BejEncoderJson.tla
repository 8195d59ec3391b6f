--------------------------- MODULE BejEncoderJson ---------------------------
(***************************************************************************)
(* The object that encodes one tree after another (class BejEncoderJson,   *)
(* src/bej_encoder_json.cpp). Its stack and its output outlive a call, and *)
(* so do the caller's nodes with the metadata in them. Its callbacks never *)
(* fail: StackMayFail is FALSE and OutputErrors is empty.                  *)
(*                                                                         *)
(* Between two calls the caller may take the output, give leaves new       *)
(* values, or build the tree anew in the same nodes, as the tests do.      *)
(***************************************************************************)
EXTENDS BejEncoder

CONSTANTS
    Values,         \* what the caller may set a number to: node -> set of values
    MaxEncodes      \* bound: calls of encode on one object

ASSUME SessionAssumption ==
    /\ DOMAIN Values \subseteq Nodes
    /\ \A n \in DOMAIN Values : Values[n] \subseteq ValueType
    /\ MaxEncodes \in Nat \ {0}

VARIABLES
    taken,      \* what the last getOutput returned
    before,     \* history: the output when encode was called
    dirty,      \* history: the stack was not empty when encode was called
    encodes     \* history: the calls of encode so far

jsonVars == <<vars, taken, before, dirty, encodes>>

\* The caller has taken the output.
Idle == pc = "idle"

-----------------------------------------------------------------------------
JsonInit ==
    /\ Init
    /\ taken = <<>>
    /\ before = <<>>
    /\ dirty = FALSE
    /\ encodes = 1

\* What the caller may do to the nodes before the next call.
NextTrees ==
    {nodes} \cup Trees
        \cup UNION { {bejTreeSet(nodes, n, v) : v \in Values[n]} : n \in DOMAIN Values }

\* The next call, whatever the one before has returned: neither the stack nor
\* the output is cleared.
encode ==
    /\ pc = "done" \/ Idle
    /\ encodes < MaxEncodes
    /\ encodes' = encodes + 1
    /\ nodes' \in NextTrees
    /\ call' \in Calls
    /\ pc' = "call"
    /\ ret' = "none"
    /\ before' = output
    /\ dirty' = (stack # <<>>)
    /\ UNCHANGED <<meta, stack, output, failed, taken>>

getOutput ==
    /\ pc = "done"
    /\ pc' = "idle"
    /\ taken' = output
    /\ output' = <<>>
    /\ before' = <<>>
    /\ UNCHANGED <<ret, call, nodes, meta, stack, failed, dirty, encodes>>

\* A step of the call under way.
EncodeStep == Next /\ UNCHANGED <<taken, before, dirty, encodes>>

JsonNext == EncodeStep \/ encode \/ getOutput

JsonSpec == JsonInit /\ [][JsonNext]_jsonVars

-----------------------------------------------------------------------------
\* A call that fails adds nothing to the output, and one that does not always
\* leaves the stack empty, also when it began with what a failed call had left.
FailureWritesNothing ==
    pc = "done" =>
        /\ ret # "OK" => output = before
        /\ ret = "OK" => stack = <<>>

\* Its strengthening: nothing is written before the whole tree has been found
\* to be one that can be encoded, and from then on nothing fails.
WrittenInv ==
    /\ pc \in {"call", "metadata", "header"} => output = before
    /\ FailureWritesNothing

\* The callbacks of BejEncoderJson.
NothingFails == StackMayFail = FALSE /\ OutputErrors = {}

=============================================================================
