-------------------------- MODULE MCBejPrimitives --------------------------
(***************************************************************************)
(* What the library does without a tree or a stream: a behaviour is one    *)
(* number on its way through it, or one lookup in a dictionary. The two    *)
(* share no state, and one of them is at rest.                             *)
(***************************************************************************)
EXTENDS MCBejNumberRoundTrip, MCBejLookup

\* A lookup that has returned.
AtRest ==
    [dict |-> <<>>, start |-> 0, key |-> [by |-> "name", seq |-> 0, name |-> "A"],
     index |-> 0, offset |-> 0, status |-> "InvalidPropertyOffset"]

PrimitivesInit ==
    /\ Init
    /\ \/ lookup = AtRest
       \/ number = NoNumber /\ LookupInit

PrimitivesNext ==
    \/ lookup = AtRest /\ Next /\ UNCHANGED lookup
    \/ LookupNext /\ UNCHANGED vars

PrimitivesSpec == PrimitivesInit /\ [][PrimitivesNext]_<<vars, lookup>>

=============================================================================
