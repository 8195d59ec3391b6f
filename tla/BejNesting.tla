----------------------------- MODULE BejNesting -----------------------------
(***************************************************************************)
(* What reading a stream of nested sections comes to, without tuples,      *)
(* dictionaries or callbacks: the promise of bejDecodePldmBlock            *)
(* (src/bej_decoder_core.c) about structure.                               *)
(*                                                                         *)
(* A section is known by the offset it ends at. Whatever is read lies      *)
(* behind what has been read before, and is either within the innermost    *)
(* section or a mistake of who wrote the stream; after such a mistake the  *)
(* reader is lost. A section is left where it ends and nowhere else. A     *)
(* stream is accepted outside of all sections, and by a reader that is not *)
(* lost.                                                                   *)
(***************************************************************************)
EXTENDS Integers, Sequences

CONSTANT Offsets    \* the offsets of a stream: natural numbers

VARIABLES
    at,         \* the offset reached
    open,       \* the ends of the sections it is in, innermost last
    verdict     \* "reading", "lost", "accepted" or "refused"

vars == <<at, open, verdict>>

Init ==
    /\ at = 0
    /\ open = <<>>
    /\ verdict = "reading"

\* What ends at an offset is within the innermost section.
Within(end) == open = <<>> \/ end <= open[Len(open)]

\* A value is read to its end.
Consume ==
    /\ verdict = "reading"
    /\ at' \in Offsets /\ at' > at
    /\ Within(at')
    /\ UNCHANGED <<open, verdict>>

\* A section is entered, up to the first thing in it.
Enter ==
    /\ verdict = "reading"
    /\ at' \in Offsets /\ at' > at
    /\ \E end \in Offsets : Within(end) /\ open' = Append(open, end)
    /\ UNCHANGED verdict

\* The innermost section is left.
Leave ==
    /\ verdict = "reading"
    /\ open # <<>>
    /\ at = open[Len(open)]
    /\ open' = SubSeq(open, 1, Len(open) - 1)
    /\ UNCHANGED <<at, verdict>>

\* Something ends outside of the section it is in. What the reader does from
\* there on has no meaning.
Stray ==
    /\ verdict = "reading"
    /\ open # <<>>
    /\ verdict' = "lost"
    /\ at' = 0
    /\ open' = <<>>

Accept ==
    /\ verdict = "reading"
    /\ open = <<>>
    /\ verdict' = "accepted"
    /\ UNCHANGED <<at, open>>

\* A reader may give up at any time, and one that is lost must.
Refuse ==
    /\ verdict \in {"reading", "lost"}
    /\ verdict' = "refused"
    /\ at' = 0
    /\ open' = <<>>

Next == Consume \/ Enter \/ Leave \/ Stray \/ Accept \/ Refuse

Spec == Init /\ [][Next]_vars

=============================================================================
