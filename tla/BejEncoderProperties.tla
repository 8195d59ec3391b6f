------------------------ MODULE BejEncoderProperties ------------------------
(***************************************************************************)
(* What one call of the encoder promises: the two walks over linked nodes  *)
(* with a stack of pointers produce the encoding BejReference defines by   *)
(* recursion.                                                              *)
(***************************************************************************)
EXTENDS BejEncoder, BejReference

-----------------------------------------------------------------------------
(* The trees that callers build with the operations of BejTree. *)

\* A node is in one place: it is the first child of one parent, or the next
\* sibling of one node.
LinkedOnce(tree) ==
    \A m, n \in Nodes :
        /\ FirstChild(tree, m) # NULL /\ FirstChild(tree, m) = FirstChild(tree, n) => m = n
        /\ tree[m].sibling # NULL =>
              /\ tree[m].sibling # FirstChild(tree, n)
              /\ tree[m].sibling = tree[n].sibling => m = n

\* No node is inside of itself or behind itself: among any nodes there is one
\* that is linked to none of them.
NoCycle(tree) ==
    \A s \in SUBSET Nodes :
        s # {} => \E n \in s : FirstChild(tree, n) \notin s /\ tree[n].sibling \notin s

\* A parent knows how many children it has.
ChildrenCounted(tree) ==
    \A n \in Nodes :
        bejTreeIsParentType(tree[n]) =>
            tree[n].nChildren = SiblingCount(tree)[tree[n].firstChild]

\* The size of an integer is what bejIntLengthOfValue returns, a uint8_t.
IntegersFit(tree) ==
    \A n \in Nodes : tree[n].type \in {"Integer", "Real"} => tree[n].value.bytes <= 255

WellBuilt(tree) ==
    LinkedOnce(tree) /\ NoCycle(tree) /\ ChildrenCounted(tree) /\ IntegersFit(tree)

ASSUME TreesAssumption == \A tree \in Trees : WellBuilt(tree)

-----------------------------------------------------------------------------
\* Where the root is looked up.
Root ==
    [node |-> call.root, dict |-> "Primary", index |-> 0,
     start |-> IF call.start = 0 THEN bejDictGetPropertyHeadOffset ELSE call.start]

\* The status the arguments and the tree call for, and the encoding if it is "OK".
Verdict ==
    IF ~call.notNull THEN "NullParameter"
    ELSE IF nodes[call.root].type # "Set" THEN "Unknown"
    ELSE TreeStatus(nodes, Root)

Encoding == Header \o TreeEncoding(nodes, Root)

\* When the call returns zero, what was written is the encoding of the tree:
\* every length the first walk added up (lines 566, 626 and 640 of the metadata
\* pass) is the number of bytes the second walk wrote for that value, whatever
\* the nodes' metadata held before the call.
EncodingIsExact == ret = "OK" /\ ~failed => output = Encoding

\* A sequence without what is at some of its positions.
Without(s, positions) ==
    LET kept[n \in Nat] ==
            IF n = 0 THEN <<>>
            ELSE IF n \in DOMAIN s \ positions THEN Append(kept[n - 1], s[n])
            ELSE kept[n - 1]
    IN  kept[Len(s)]

\* A sequence of pieces without integers that bejEncodeInteger wrote.
WithoutIntegers(pieces) ==
    {Without(pieces, lost) : lost \in SUBSET {i \in DOMAIN pieces : pieces[i].kind = "integer"}}

\* At every step, and when a callback stops the call half way, what has been
\* written is the beginning of the encoding; of a tree that cannot be encoded
\* nothing has been written. What recvOutput refused is the last thing it is
\* handed, unless its status was lost: then bytes of integers are missing
\* (bejEncodeInteger, line 52), and nothing else ever is.
OutputIsPrefix ==
    IF Verdict # "OK" THEN output = <<>>
    ELSE \E encoding \in {Encoding} :
         \E rest \in IF failed THEN WithoutIntegers(encoding) ELSE {encoding} :
            IF ret = "OK" THEN output = rest ELSE IsPrefix(output, rest)

\* The call fails exactly on what cannot be encoded, and with the status of the
\* first such node: none is skipped on the way, on either level of the walk.
FirstErrorIsReturned == pc = "done" /\ ~failed => ret = Verdict

\* The call returns.
Termination == <>(pc = "done")

=============================================================================
