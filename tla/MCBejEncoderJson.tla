-------------------------- MODULE MCBejEncoderJson --------------------------
(***************************************************************************)
(* Small instances of BejEncoderJson: one set of nodes that holds two      *)
(* trees, with roots "root" and "n5", and of which the first is built in   *)
(* two ways. The same nodes are parents in both, so a node's metadata is   *)
(* always of the same kind.                                                *)
(***************************************************************************)
EXTENDS BejEncoderJsonProperties, MCBejEncoder

\* The other tree.
WithSecondTree(tree) ==
    bejTreeAdd(bejTreeInitParent(tree, "n5", "Root", "Set"),
               "n5", "n6", "@T", "Boolean", NoValue)

\* Whether a real can be encoded is seen when the parents are on the stack.
Sensor(real) ==
    WithSecondTree(
        Resource("Set", "Root",
            << Step("root", "n1", "S", "Set", NoValue),
               Step("n1", "n2", "I", "Real", real),
               Step("root", "n3", "E", "Enum", Option("On")) >>))

\* Built anew with the children in another order, and an annotation whose flag
\* the first walk sets.
Rebuilt ==
    WithSecondTree(
        Resource("Set", "Root",
            << Step("root", "n3", "E", "Enum", Option("Off")),
               Step("root", "n1", "@M", "Set", NoValue),
               Step("n1", "n2", "@T", "Integer", Bytes(4)) >>))

SessionTrees == { Sensor(Bytes(1)), Sensor(HugeReal), Rebuilt }

SessionCalls == [notNull: {TRUE}, root: {"root", "n5"}, start: {0}]

SessionNodes == {"root", "n1", "n2", "n3", "n5", "n6"}

SessionValues ==
    [n \in {"n2"} |-> {HugeReal, Bytes(8)}]

NoErrors == {}

SessionGarbage ==
    { [sequenceNumber |-> 7, sflSize |-> 7, vSize |-> 7, enumValueSeq |-> 7,
       childrenDictPropOffset |-> 7, nextChildIndex |-> 7, dictionary |-> "Annotation",
       nextChild |-> NULL] }
=============================================================================
