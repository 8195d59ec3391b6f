---------------------------- MODULE MCBejLookup ----------------------------
(***************************************************************************)
(* Small tables for the loop of the lookups.                               *)
(***************************************************************************)
EXTENDS BejLookup

CONSTANT MaxLength

Entry(seq, name, nameOk) == [seq |-> seq, name |-> name, child |-> 0, nameOk |-> nameOk]

MCEntries == { Entry(0, "A", TRUE), Entry(1, "B", FALSE) }

MCNames == {"", "A", "B"}

MCNoEntries == <<>>

MCTables == UNION {[1 .. n -> MCEntries] : n \in 0 .. MaxLength}

\* The third of each is in no table.
MCKeys ==
    {[by |-> "seq", seq |-> seq, name |-> ""] : seq \in 0 .. 2}
        \cup {[by |-> "name", seq |-> 0, name |-> name] : name \in MCNames}

MCElsewhere == { Entry(0, "B", TRUE), Entry(2, "", TRUE) }

=============================================================================
