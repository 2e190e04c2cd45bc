-------------------------- MODULE ReconciliationReview --------------------------
(***************************************************************************)
(* The reconciliation review of sim-lib-doc-ledger (reconciliation.rs): a  *)
(* review document is projected from frozen inputs and a certificate of    *)
(* the decisions taken so far, exported, edited by a human, and imported   *)
(* against a projection the host trusts; its edits become commands.        *)
(*                                                                         *)
(* The ledger (sim_ledger, external) keeps the journal of decisions, which *)
(* only grows, and builds and verifies certificates.  A host may hold a    *)
(* certificate built from an earlier journal.  What a document repeats     *)
(* from its inputs (amounts, dates, texts, ranks) or from the caller       *)
(* (correction drafts) is left out, and sums do not overflow.              *)
(***************************************************************************)
EXTENDS Integers, Sequences, FiniteSets, Functions, Options

CONSTANTS Row, Voucher,
          Amount,          \* the amounts of rows and vouchers, in minor units
          Inputs,          \* ReconciliationInputs
          CandidateList,   \* the lists of candidates callers pass
          Edit,            \* the edits reviewers write
          MaxJournal, MaxEdits

Disposition == {"accept", "split", "merge", "reject", "defer"}
Evidence == [row_ids: Seq(Row), voucher_ids: Seq(Voucher)]

ASSUME AmountAssumption == Amount \in [Row \cup Voucher -> Int]
ASSUME InputsAssumption ==
    /\ \A i \in Inputs : i.rows \subseteq Row /\ i.movements \subseteq Voucher
    /\ \A i, j \in Inputs : i.snapshot_ref = j.snapshot_ref => i = j
\* Both sides of the frozen inputs are vectors.
ASSUME FiniteAssumption == \A i \in Inputs : IsFiniteSet(i.rows) /\ IsFiniteSet(i.movements)
ASSUME EditAssumption == \A e \in Edit : e.disposition \in Disposition /\ e.evidence \in Evidence
ASSUME BoundAssumption == MaxJournal \in Nat /\ MaxEdits \in Nat
ASSUME ReviewNoneAssumption == \A i \in Inputs : i.rows \cap i.movements = {} /\ i # None

VARIABLES
    journal,    \* the ledger: inputs -> sequence of DecisionRecords
    file,       \* the exported document under review, with what it was made from
    imported    \* the commands of the last accepted import, until recorded

reviewVars == <<journal, file, imported>>

Elements(s) == {s[k] : k \in DOMAIN s}

ReviewInit ==
    /\ journal = [i \in Inputs |-> <<>>]
    /\ file = None
    /\ imported = None

(***************************************************************************)
(* The ledger's certificates                                               *)
(***************************************************************************)
Total(ids) == SumFunctionOnSet(Amount, ids)

Approved(decisions) ==
    {k \in DOMAIN decisions : decisions[k].disposition \in {"accept", "split", "merge"}}

\* build_certificate, but for the closure, which is what its caller says.
Certificate(inputs, decisions, closed) ==
    LET accepted == {decisions[k].evidence : k \in Approved(decisions)}
    IN [source_inputs |-> inputs, snapshot_ref |-> inputs.snapshot_ref,
        decision_records |-> decisions, accepted |-> accepted,
        uncovered_rows |-> inputs.rows \ UNION {Elements(e.row_ids) : e \in accepted},
        uncovered_vouchers |-> inputs.movements \ UNION {Elements(e.voucher_ids) : e \in accepted},
        statement_total |-> Total(inputs.rows), ledger_total |-> Total(inputs.movements),
        residual |-> Total(inputs.rows) - Total(inputs.movements),
        closed |-> closed]

\* verify_certificate rebuilds it from the decisions it names, and a closed one
\* must cover everything and leave no residual.
CertificateVerifies(inputs, certificate) ==
    /\ certificate = Certificate(inputs, certificate.decision_records, certificate.closed)
    /\ certificate.closed =>
          /\ certificate.uncovered_rows = {} /\ certificate.uncovered_vouchers = {}
          /\ certificate.residual = 0

\* The certificates a host may hold: built from the journal as it is or was,
\* and possibly claiming a closure nobody earned.
Held ==
    UNION {{Certificate(i, SubSeq(journal[i], 1, n), closed) :
                n \in 0 .. Len(journal[i]), closed \in BOOLEAN} : i \in Inputs}

(***************************************************************************)
(* project_reconciliation_review                                           *)
(***************************************************************************)
\* Mutant of DispositionState: a deferral shows as an acceptance.
DispositionStateDeferred(disposition) ==
    IF disposition = "reject" THEN "rejected" ELSE "accepted"

DispositionState(disposition) ==
    CASE disposition \in {"accept", "split", "merge"} -> "accepted"
      [] disposition = "reject" -> "rejected"
      [] disposition = "defer" -> "deferred"

\* The first decision on exactly the evidence of a candidate.
Decision(candidate, decisions) ==
    LET same == {k \in DOMAIN decisions : decisions[k].evidence = candidate}
    IN IF same = {} THEN None ELSE decisions[CHOOSE k \in same : \A j \in same : k <= j]

ReviewCandidate(candidate, decisions) ==
    LET decision == Decision(candidate, decisions)
    IN [evidence |-> candidate,
        total |-> SumFunctionOnSet([k \in DOMAIN candidate.row_ids |-> Amount[candidate.row_ids[k]]],
                                   DOMAIN candidate.row_ids),
        decision_ref |-> IF decision = None THEN None ELSE decision.decision_ref,
        state |-> IF decision = None THEN "proposed" ELSE DispositionState(decision.disposition)]

\* Every decision of the certificate, with its outcome.
DecisionView(decision) ==
    [decision_ref |-> decision.decision_ref, evidence |-> decision.evidence,
     state |-> DispositionState(decision.disposition)]

\* Mutant of DecisionViews: deferrals, which decide nothing yet, are left out.
DecisionViewsFinal(decisions) ==
    LET Final(decision) == decision.disposition # "defer"
        final == SelectSeq(decisions, Final)
    IN [k \in DOMAIN final |-> DecisionView(final[k])]

DecisionViews(decisions) == [k \in DOMAIN decisions |-> DecisionView(decisions[k])]

\* Mutant of DocumentState: the claim of the certificate is believed.
DocumentStateClaimed(certificate, verified) ==
    IF certificate.closed THEN "closed" ELSE IF verified THEN "verified" ELSE "imported"

DocumentState(certificate, verified) ==
    IF verified /\ certificate.closed THEN "closed" ELSE IF verified THEN "verified" ELSE "imported"

\* The rows, or the movements, with their states.
EvidenceState(covered, ids) == [id \in ids |-> IF id \in covered THEN "accepted" ELSE "imported"]

Projectable(inputs, certificate, candidates, verified) ==
    /\ certificate.source_inputs = inputs /\ certificate.snapshot_ref = inputs.snapshot_ref
    /\ verified => CertificateVerifies(inputs, certificate)
    /\ \A k \in DOMAIN candidates : Elements(candidates[k].row_ids) \subseteq inputs.rows

Document(inputs, certificate, candidates, verified) ==
    LET accepted == certificate.accepted
        decisions == certificate.decision_records
    IN [snapshot_ref |-> inputs.snapshot_ref,
        reviewer_ref |-> inputs.reviewer_ref,
        rows |-> EvidenceState(UNION {Elements(e.row_ids) : e \in accepted}, inputs.rows),
        movements |-> EvidenceState(UNION {Elements(e.voucher_ids) : e \in accepted}, inputs.movements),
        candidates |-> [k \in DOMAIN candidates |-> ReviewCandidate(candidates[k], decisions)],
        decisions |-> DecisionViews(decisions),
        uncovered_rows |-> certificate.uncovered_rows,
        uncovered_vouchers |-> certificate.uncovered_vouchers,
        bridge |-> <<certificate.statement_total, -certificate.ledger_total, certificate.residual>>,
        state |-> DocumentState(certificate, verified)]

(***************************************************************************)
(* import_review_document                                                  *)
(***************************************************************************)
\* Mutant of Decodes: a reference may come twice.
DecodesRepeated(edits, document) ==
    \A k \in DOMAIN edits :
        LET edit == edits[k]
        IN /\ edit.decision_ref # None
           /\ edit.decided_by = document.reviewer_ref
           /\ Elements(edit.evidence.row_ids) \subseteq DOMAIN document.rows
           /\ Elements(edit.evidence.voucher_ids) \subseteq DOMAIN document.movements
           /\ edit.evidence.row_ids # <<>> /\ edit.evidence.voucher_ids # <<>>

\* decode_review_edits: one edit that fails its checks refuses them all.
Decodes(edits, document) ==
    \A k \in DOMAIN edits :
        LET edit == edits[k]
        IN /\ edit.decision_ref # None
           /\ \A j \in DOMAIN edits : j < k => edits[j].decision_ref # edit.decision_ref
           /\ edit.decided_by = document.reviewer_ref
           /\ Elements(edit.evidence.row_ids) \subseteq DOMAIN document.rows
           /\ Elements(edit.evidence.voucher_ids) \subseteq DOMAIN document.movements
           /\ edit.evidence.row_ids # <<>> /\ edit.evidence.voucher_ids # <<>>

\* A host projects a review and exports it.  The file also carries, as
\* history, the inputs and the decisions it was projected from.  Nothing is
\* exported, edited or altered between an import and the recording of its
\* commands, which does not look at the file: this bounds the state space.
ExportReview(inputs, certificate, candidates, verified) ==
    /\ imported = None
    /\ Projectable(inputs, certificate, candidates, verified)
    /\ file' = [document |-> Document(inputs, certificate, candidates, verified),
                edits |-> <<>>,
                altered |-> FALSE,
                inputs |-> inputs,
                seen |-> certificate.decision_records]
    /\ UNCHANGED <<journal, imported>>

\* A reviewer writes into the edit lane.
EditReview(edit) ==
    /\ imported = None
    /\ file # None
    /\ Len(file.edits) < MaxEdits
    /\ file' = [document |-> file.document, edits |-> Append(file.edits, edit),
                altered |-> file.altered, inputs |-> file.inputs, seen |-> file.seen]
    /\ UNCHANGED <<journal, imported>>

\* Somebody writes approval or closure into what the document displays, at most
\* once per file.
Alterations(document) ==
    {[document EXCEPT !.state = state] : state \in {"verified", "closed"}}
    \cup {[document EXCEPT !.rows = [document.rows EXCEPT ![row] = "accepted"]] : row \in DOMAIN document.rows}

AlterReview ==
    /\ imported = None
    /\ file # None
    /\ ~file.altered
    /\ \E document \in Alterations(file.document) :
          file' = [document |-> document, edits |-> file.edits, altered |-> TRUE,
                   inputs |-> file.inputs, seen |-> file.seen]
    /\ UNCHANGED <<journal, imported>>

\* The file is compared with a projection the host trusts, then decoded.
ImportReview(inputs, certificate, candidates, verified) ==
    LET trusted == Document(inputs, certificate, candidates, verified)
    IN /\ file # None
       /\ Projectable(inputs, certificate, candidates, verified)
       /\ \/ /\ file.document = trusted /\ Decodes(file.edits, trusted)
             /\ imported' = [inputs |-> inputs, before |-> certificate.decision_records,
                             commands |-> file.edits, seenIn |-> file.inputs, seen |-> file.seen]
          \/ /\ file.document # trusted \/ ~Decodes(file.edits, trusted)
             /\ imported' = None
       /\ UNCHANGED <<journal, file>>

\* The ledger executes the commands of the last import.
RecordCommands ==
    /\ imported # None
    /\ Len(journal[imported.inputs]) + Len(imported.commands) <= MaxJournal
    /\ journal' = [journal EXCEPT ![imported.inputs] = @ \o imported.commands]
    /\ imported' = None
    /\ UNCHANGED file

\* A decision reaches the ledger by another way; the ledger keeps to the frozen
\* inputs as well.
RecordDecision(inputs, decision) ==
    /\ Len(journal[inputs]) < MaxJournal
    /\ Decodes(<<decision>>, Document(inputs, Certificate(inputs, <<>>, FALSE), <<>>, FALSE))
    /\ journal' = [journal EXCEPT ![inputs] = Append(@, decision)]
    /\ UNCHANGED <<file, imported>>

ReviewNext ==
    \/ \E inputs \in Inputs, certificate \in Held, candidates \in CandidateList, verified \in BOOLEAN :
          \/ ExportReview(inputs, certificate, candidates, verified)
          \/ ImportReview(inputs, certificate, candidates, verified)
    \/ \E edit \in Edit : EditReview(edit)
    \/ AlterReview
    \/ RecordCommands
    \/ \E inputs \in Inputs, decision \in Edit : RecordDecision(inputs, decision)

ReviewSpec == ReviewInit /\ [][ReviewNext]_reviewVars

(***************************************************************************)
(* Properties                                                              *)
(***************************************************************************)
\* "All projected fields are compared byte-structurally with a fresh trusted
\* projection" (reconciliation.rs:366): commands are accepted only from a file
\* whose author had before him exactly the inputs and the decisions of the
\* projection the host trusts, whatever the ledger has recorded in between, by
\* the same review imported earlier or by another way.
ImportsInformed ==
    imported # None => imported.seenIn = imported.inputs /\ imported.seen = imported.before

\* The journal a review leads to holds only decisions of the frozen reviewer on
\* both sides of the frozen evidence, and no import adds one reference twice.
\* An import is all or nothing: what it yields is every edit of the file, in the
\* file's order, so one bad edit of several leaves no command.
CommandsChecked ==
    /\ \A i \in Inputs : \A k \in DOMAIN journal[i] :
          LET decision == journal[i][k]
          IN /\ decision.decided_by = i.reviewer_ref
             /\ decision.evidence.row_ids # <<>> /\ Elements(decision.evidence.row_ids) \subseteq i.rows
             /\ decision.evidence.voucher_ids # <<>> /\ Elements(decision.evidence.voucher_ids) \subseteq i.movements
    /\ imported # None =>
          /\ file # None /\ imported.commands = file.edits
          /\ \A j, k \in DOMAIN imported.commands :
                imported.commands[j].decision_ref = imported.commands[k].decision_ref => j = k

\* A review that shows closure, unless altered by hand, shows a residual of
\* zero and every row and movement accepted, by decisions it shows; a
\* certificate that only claims to be closed never gets there.
ClosureEarned ==
    file # None /\ ~file.altered /\ file.document.state = "closed" =>
        LET document == file.document
            approving == {document.decisions[k] :
                             k \in {j \in DOMAIN document.decisions : document.decisions[j].state = "accepted"}}
        IN /\ document.bridge[3] = 0 /\ document.bridge[1] + document.bridge[2] = 0
           /\ file.inputs.rows \subseteq UNION {Elements(d.evidence.row_ids) : d \in approving}
           /\ file.inputs.movements \subseteq UNION {Elements(d.evidence.voucher_ids) : d \in approving}

\* The lists of one review agree with one another: the rows and the movements
\* listed as uncovered are exactly those not shown accepted, and a candidate or
\* a decision shown accepted leaves none of its evidence uncovered.
DisplayAgrees ==
    file # None /\ ~file.altered =>
        LET document == file.document
            Shown == {document.candidates[k] : k \in DOMAIN document.candidates}
                     \cup {document.decisions[k] : k \in DOMAIN document.decisions}
        IN /\ document.uncovered_rows =
                 {row \in file.inputs.rows : document.rows[row] # "accepted"}
           /\ document.uncovered_vouchers =
                 {voucher \in file.inputs.movements : document.movements[voucher] # "accepted"}
           /\ \A s \in Shown : s.state = "accepted" =>
                 /\ \A row \in Elements(s.evidence.row_ids) : document.rows[row] = "accepted"
                 /\ \A voucher \in Elements(s.evidence.voucher_ids) : document.movements[voucher] = "accepted"
================================================================================
