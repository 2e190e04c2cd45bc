------------------------------ MODULE MCDocStore ------------------------------
(* Small instances of DocStore for TLC. *)
EXTENDS DocStore

CONSTANTS p1, p2, d1, d2, o1, o2, h1, h2

\* An edit of d1 and the edit that reverses it; hosts also project them as d2.
MCLedgerEdit ==
    {[doc |-> d1, op |-> o1, inverse |-> o2],
     [doc |-> d1, op |-> o2, inverse |-> o1]}

\* The edit of d1 alone.
MCOneEdit == {[doc |-> d1, op |-> o1, inverse |-> o2]}

At(link, seq, hint) == [subject |-> d1, link |-> link, captured_at_seq |-> seq, hint |-> hint]

\* A fact with two hints, a fact captured earlier whose link sorts later, and
\* one whose sequence does not fit the column.
MCEvidence == {At(1, 1, h1), At(1, 1, h2), At(2, 0, h1), At(1, SeqMax, h1)}
MCNoEvidence == {}

\* The processes differ in nothing but their name.
MCSymmetry == Permutations({p1, p2})
===============================================================================
