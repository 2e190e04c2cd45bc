------------------------------ MODULE MCEvidence ------------------------------
(* Small instances of the three components that hold evidence: the source      *)
(* library, the web evidence store and the reconciliation review.  They share  *)
(* no state in the code, so a run moves one of them, chosen at the start, and  *)
(* their interleavings, which no property could tell apart, are left out.      *)
EXTENDS SourceLibrary, WebEvidence, ReconciliationReview, TLC

CONSTANT Moves       \* the components that move, a set of names
VARIABLE moving

ASSUME MovesAssumption == Moves \subseteq {"library", "web", "review"}

\* Where the web store rests, one scenario stands for all.
MCInit ==
    /\ moving \in Moves
    /\ LibraryInit /\ Init /\ ReviewInit
    /\ moving # "web" => scenario = CHOOSE s \in Scenario : TRUE

MCNext ==
    /\ UNCHANGED moving
    /\ \/ moving = "library" /\ LibraryNext /\ UNCHANGED <<vars, reviewVars>>
       \/ moving = "web" /\ Next /\ UNCHANGED <<libraryVars, reviewVars>>
       \/ moving = "review" /\ ReviewNext /\ UNCHANGED <<libraryVars, vars>>

MCSpec == MCInit /\ [][MCNext]_<<moving, libraryVars, vars, reviewVars>>

\* Editions and spans differ in nothing but their name.
MCSymmetry == Permutations(EditionId) \cup Permutations(SpanId)

-------------------------------------------------------------------------------
(* The source library *)

CONSTANTS c1, c2, pa, pb

MCChars == (pa :> 1) @@ (pb :> 2)

\* Two normalized representations that share the passage pb.
MCSuppliedRepresentation ==
    {[content_id |-> c1, text |-> {pa, pb}], [content_id |-> c2, text |-> {pb}]}

\* A public licence, a private one that admits only the short passage, and one
\* whose ceilings import refuses.
MCLicencePolicy ==
    {[max_quote_chars |-> 2, max_export_chars |-> 3, permits_export |-> TRUE],
     [max_quote_chars |-> 1, max_export_chars |-> 1, permits_export |-> FALSE],
     [max_quote_chars |-> 2, max_export_chars |-> 1, permits_export |-> TRUE]}

\* 2027-01-01T10:00:00Z and 2027-01-01T12:00:00Z: text order is time order.
MCUtcStamp == {[text |-> 1, instant |-> 10], [text |-> 2, instant |-> 12]}

\* 2027-01-01T09:00:00-05:00 (14:00Z) and 2027-01-01T12:00:00Z: the text of
\* the later instant sorts first.
MCOffsetStamp == {[text |-> 1, instant |-> 14], [text |-> 2, instant |-> 12]}

-------------------------------------------------------------------------------
(* The web evidence store *)

CONSTANTS p1, p2, u1, u2, b1, b2, t1, x1, x2

\* One text has the passage in the context x1, the other lacks it.
MCText == {t1 :> x1, t1 :> None}

MCRepresentation ==
    {[raw |-> CaptureCid(b1), text |-> t1 :> x1, codec |-> "html5/1"],
     [raw |-> CaptureCid(b2), text |-> t1 :> None, codec |-> "html5/1"]}

Captured(uris, bodies) == [retrieval_uri: uris, body: bodies]

\* Two processes on a file only they write; one, which holds one capture, on a
\* file altered twice.
MCScenario ==
    {[running |-> {p1, p2}, captured |-> Captured({u1, u2}, {b1, b2}), alterations |-> 0],
     [running |-> {p1}, captured |-> Captured({u1}, {b1}), alterations |-> 2]}

-------------------------------------------------------------------------------
(* The reconciliation review *)

CONSTANTS fee, rent, v1, v2, d1, d2, mia, bo

\* Two months that share the rent row, each with a reviewer of its own: only the
\* first has what it takes to be closed.
July == [snapshot_ref |-> "july", reviewer_ref |-> mia, rows |-> {fee, rent}, movements |-> {v1, v2}]
August == [snapshot_ref |-> "august", reviewer_ref |-> bo, rows |-> {rent}, movements |-> {v1}]

MCInputs == {July, August}
MCAmount == (fee :> 2 @@ rent :> 5 @@ v1 :> 2 @@ v2 :> 5)

On(rows, vouchers) == [row_ids |-> rows, voucher_ids |-> vouchers]

\* The candidates generated for each month; those of July name a row that
\* August does not have.
MCCandidateList == {<<On(<<fee>>, <<v1>>), On(<<rent>>, <<v2>>)>>, <<>>}

DecisionOf(ref, who, disposition, evidence) ==
    [decision_ref |-> ref, decided_by |-> who, disposition |-> disposition, evidence |-> evidence]

\* Decisions of the reviewer of July on everything, on a candidate, and on rent
\* alone, which August has too but takes from its own reviewer only.
MCEdit ==
    {DecisionOf(d1, mia, "accept", On(<<fee, rent>>, <<v1, v2>>)),
     DecisionOf(d2, mia, "split", On(<<fee>>, <<v1>>)),
     DecisionOf(d1, mia, "defer", On(<<rent>>, <<v1>>))}
===============================================================================
