---------------------------- MODULE BejReference ----------------------------
(***************************************************************************)
(* What the encoding of a tree is, by recursion over the tree: no sizes    *)
(* computed ahead, no stack and no cursors. A value is written first and   *)
(* measured, and its length is put in front of it.                         *)
(*                                                                         *)
(* The recursion follows the links: what is in a node, then what is behind *)
(* it. It is written as recursive functions of                             *)
(*                                                                         *)
(*   node     a node, or NULL behind the last child of a parent            *)
(*   dict     the dictionary of its parent                                 *)
(*   index    its index in its parent; of more children than there are     *)
(*            indices, the next one has index 0 again                      *)
(*   start    the offset its parent's children are looked up from          *)
(***************************************************************************)
EXTENDS BejEncoding, SequencesExt

Places == [node: Pointers, dict: SchemaTypes, index: Nat, start: PropertyOffsets]

Found(tree, at) ==
    bejFindSeqNumAndChildDictOffset(tree[at.node], at.dict, at.index, at.start)

FirstChild(tree, node) ==
    IF bejTreeIsParentType(tree[node]) THEN tree[node].firstChild ELSE NULL

\* The first child of a node, and its next sibling.
Inside(tree, at) ==
    LET found == Found(tree, at)
    IN  [node |-> FirstChild(tree, at.node), dict |-> found.dict, index |-> 0,
         start |-> found.child]

Behind(tree, at) ==
    [node |-> tree[at.node].sibling, dict |-> at.dict, index |-> (at.index + 1) % IndexRange,
     start |-> at.start]

\* How many siblings a list of children has.
SiblingCount(tree) ==
    LET from[node \in Pointers] ==
            IF node = NULL THEN 0 ELSE 1 + from[tree[node].sibling]
    IN  from

-----------------------------------------------------------------------------
\* The status of the first node, in the order they are written in, that cannot
\* be encoded; "OK" if all can.
FirstFault(status, later) == IF status # "OK" THEN status ELSE later

StatusAt(tree, statusFrom, at) ==
    FirstFault(LeafStatus(tree[at.node], Found(tree, at)), statusFrom[Inside(tree, at)])

StatusFrom(tree) ==
    LET from[at \in Places] ==
            IF at.node = NULL THEN "OK"
            ELSE FirstFault(StatusAt(tree, from, at), from[Behind(tree, at)])
    IN  from

TreeStatus(tree, at) == StatusAt(tree, StatusFrom(tree), at)

-----------------------------------------------------------------------------
Measure(pieces) == FoldLeft(LAMBDA total, piece : total + piece.size, 0, pieces)

\* What a value starts with, before the tuples in it.
ValueHead(tree, at) ==
    LET node == tree[at.node]
    IN  CASE node.type \in {"Set", "Array"} ->
                bejEncodeNnint(SiblingCount(tree)[node.firstChild])
          [] node.type = "Enum" -> EncodeValue(node, OptionSeq(node, Found(tree, at)), 0)
          [] OTHER -> EncodeValue(node, 0, node.value.bytes)

TupleAt(tree, tuplesFrom, at) ==
    LET found == Found(tree, at)
        value == ValueHead(tree, at) \o tuplesFrom[Inside(tree, at)]
    IN  EncodeSFL([tree[at.node] EXCEPT !.ro = @ \/ found.again],
                  SequenceNumber(found), Measure(value))
            \o value

TuplesFrom(tree) ==
    LET from[at \in Places] ==
            IF at.node = NULL THEN <<>>
            ELSE TupleAt(tree, from, at) \o from[Behind(tree, at)]
    IN  from

TreeEncoding(tree, at) == TupleAt(tree, TuplesFrom(tree), at)

=============================================================================
