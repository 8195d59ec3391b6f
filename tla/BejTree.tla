------------------------------ MODULE BejTree ------------------------------
(***************************************************************************)
(* The tree a resource is encoded from (src/bej_tree.c). The caller owns   *)
(* the nodes and the operations link them: a parent points to its first    *)
(* and last child, a child to its next sibling.                            *)
(*                                                                         *)
(* A tree is a function from Nodes to records; a node has                  *)
(*                                                                         *)
(*   name        "" where the code has NULL or an empty string             *)
(*   type        format.principalDataType                                  *)
(*   ro          format.readOnlyPropertyAndTopLevelAnnotation, the only    *)
(*               flag that a reader of the encoding looks at               *)
(*   sibling, nChildren, firstChild, lastChild                             *)
(*   value       what a leaf holds                                         *)
(***************************************************************************)
EXTENDS BejDictionary

CONSTANTS
    Nodes,      \* the nodes a caller may build trees from
    NULL        \* the null pointer

ASSUME NodesAssumption == NULL \notin Nodes

\* The types that bejTreeInit... and bejTreeAdd... give to a node. No operation
\* makes a node of another, so the branches "Child type not supported" (default:
\* in bejUpdateLeafNodeMetaData, and in bejEncodeNode) are never taken.
ParentTypes == {"Set", "Array", "PropertyAnnotation"}
LeafTypes == {"Integer", "String", "Real", "Enum", "Boolean", "Null"}

Pointers == Nodes \cup {NULL}

\* A value, as far as its encoding depends on it:
\*   bytes      bytes of the integer, of the whole part of the real, of the
\*              string with its terminating zero
\*   zeros      leading zeros of the fraction of the real
\*   fract      its fraction as a whole number
\*   tooLarge   the real is larger than INT64_MAX
\*   option     the name of the option of the enum
ValueType ==
    [bytes: Nat, zeros: Nat, fract: Nat, tooLarge: BOOLEAN, option: Names]

NoValue == [bytes |-> 1, zeros |-> 0, fract |-> 0, tooLarge |-> FALSE, option |-> ""]

NodeType ==
    [name: Names, type: ParentTypes \cup LeafTypes, ro: BOOLEAN,
     sibling: Pointers, nChildren: Nat, firstChild: Pointers,
     lastChild: Pointers, value: ValueType]

TreeType == [Nodes -> NodeType]

bejTreeIsParentType(node) == node.type \in ParentTypes

\* What the nodes of a caller are before they are initialised.
BlankTree ==
    [n \in Nodes |->
        [name |-> "", type |-> "Null", ro |-> FALSE, sibling |-> NULL,
         nChildren |-> 0, firstChild |-> NULL, lastChild |-> NULL,
         value |-> NoValue]]

bejTreeInitParent(tree, node, name, type) ==
    [tree EXCEPT ![node].name = name, ![node].type = type, ![node].ro = FALSE,
                 ![node].sibling = NULL, ![node].nChildren = 0,
                 ![node].firstChild = NULL, ![node].lastChild = NULL]

bejTreeInitChildNode(tree, node, name, type) ==
    [tree EXCEPT ![node].name = name, ![node].type = type, ![node].ro = FALSE,
                 ![node].sibling = NULL]

\* Bug: the parent goes on pointing to its first child as its last one.
bejTreeLinkForgetsLast(tree, parent, child) ==
    IF tree[parent].firstChild = NULL
    THEN [tree EXCEPT ![parent].firstChild = child, ![parent].lastChild = child,
                      ![parent].nChildren = @ + 1]
    ELSE [tree EXCEPT ![tree[parent].lastChild].sibling = child,
                      ![parent].nChildren = @ + 1]

\* A new child is added at the end of the list.
bejTreeLinkChildToParent(tree, parent, child) ==
    LET linked == IF tree[parent].firstChild = NULL
                  THEN [tree EXCEPT ![parent].firstChild = child]
                  ELSE [tree EXCEPT ![tree[parent].lastChild].sibling = child]
    IN  [linked EXCEPT ![parent].lastChild = child, ![parent].nChildren = @ + 1]

\* bejTreeAddNull, bejTreeAddInteger, ... : a leaf of a type with its value.
bejTreeAdd(tree, parent, child, name, type, value) ==
    bejTreeLinkChildToParent(
        [bejTreeInitChildNode(tree, child, name, type) EXCEPT ![child].value = value],
        parent, child)

\* bejTreeSetInteger and bejTreeSetReal.
bejTreeSet(tree, node, value) == [tree EXCEPT ![node].value = value]

bejTreeUpdateNodeFlags(tree, node, ro) == [tree EXCEPT ![node].ro = ro]

=============================================================================
