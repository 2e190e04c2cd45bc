----------------------- MODULE ReconciliationReviewProofs -----------------------
(***************************************************************************)
(* What an import accepts was written with the trusted projection's        *)
(* decisions in view, what the journal holds was checked, and an unaltered *)
(* review agrees with itself and shows no closure that was not earned, for *)
(* any inputs, edits, alterations and bounds.                              *)
(***************************************************************************)
EXTENDS ReconciliationReview, FiniteSetTheorems, WellFoundedInduction, TLAPS

(***************************************************************************)
(* A document shows neither who decided nor whether an approval was a      *)
(* split, so equal documents need not come from equal decisions.  They     *)
(* come from decisions of equal number, and all that are ever seen are     *)
(* beginnings of one journal that only grows.                              *)
(***************************************************************************)
Begins(seen, decisions) ==
    Len(seen) <= Len(decisions) /\ \A k \in DOMAIN seen : seen[k] = decisions[k]

Fields == {"snapshot_ref", "reviewer_ref", "rows", "movements", "candidates", "decisions",
           "uncovered_rows", "uncovered_vouchers", "bridge", "state"}

\* What an exported file keeps of its origin, however it is altered.
FileGrounded ==
    file # None =>
        /\ file = [document |-> file.document, edits |-> file.edits, altered |-> file.altered,
                   inputs |-> file.inputs, seen |-> file.seen]
        /\ file.inputs \in Inputs /\ file.seen \in Seq(Edit) /\ file.edits \in Seq(Edit)
        /\ Begins(file.seen, journal[file.inputs])
        /\ DOMAIN file.document = Fields
        /\ file.document.snapshot_ref = file.inputs.snapshot_ref
        /\ DOMAIN file.document.decisions = DOMAIN file.seen

\* A decision the frozen inputs allow.
Allowed(decision, inputs) ==
    /\ decision.decided_by = inputs.reviewer_ref
    /\ decision.evidence.row_ids # <<>> /\ Elements(decision.evidence.row_ids) \subseteq inputs.rows
    /\ decision.evidence.voucher_ids # <<>>
    /\ Elements(decision.evidence.voucher_ids) \subseteq inputs.movements

\* The commands not yet recorded.
CommandsAllowed ==
    imported # None =>
        /\ imported.inputs \in Inputs /\ imported.commands \in Seq(Edit)
        /\ file # None /\ imported.commands = file.edits
        /\ \A k \in DOMAIN imported.commands : Allowed(imported.commands[k], imported.inputs)
        /\ \A j, k \in DOMAIN imported.commands :
              imported.commands[j].decision_ref = imported.commands[k].decision_ref => j = k

JournalAllowed ==
    /\ journal \in [Inputs -> Seq(Edit)]
    /\ \A i \in Inputs : \A k \in DOMAIN journal[i] : Allowed(journal[i][k], i)

IInv == JournalAllowed /\ FileGrounded /\ CommandsAllowed /\ ImportsInformed

LEMMA InitIInv == ReviewInit => IInv
  BY DEF ReviewInit, IInv, JournalAllowed, FileGrounded, CommandsAllowed, ImportsInformed

\* Two beginnings of one sequence that are equally long are equal.
LEMMA BeginningsAgree ==
    ASSUME NEW s \in Seq(Edit), NEW t \in Seq(Edit), NEW all \in Seq(Edit),
           Begins(s, all), Begins(t, all), DOMAIN s = DOMAIN t
    PROVE  s = t
  BY DEF Begins

\* A beginning stays one when the sequence grows.
LEMMA BeginningsStay ==
    ASSUME NEW s \in Seq(Edit), NEW all \in Seq(Edit), NEW more \in Seq(Edit), Begins(s, all)
    PROVE  Begins(s, all \o more)
  BY DEF Begins

\* A certificate a host holds names a beginning of the journal of its inputs.
LEMMA HeldBegins ==
    ASSUME JournalAllowed, NEW certificate \in Held
    PROVE  /\ certificate.source_inputs \in Inputs
           /\ certificate.decision_records \in Seq(Edit)
           /\ Begins(certificate.decision_records, journal[certificate.source_inputs])
  <1>0. PICK i \in Inputs : \E n \in 0 .. Len(journal[i]), closed \in BOOLEAN :
           certificate = Certificate(i, SubSeq(journal[i], 1, n), closed)
    BY DEF Held
  <1>1. PICK n \in 0 .. Len(journal[i]), closed \in BOOLEAN :
           certificate = Certificate(i, SubSeq(journal[i], 1, n), closed)
    BY <1>0
  <1>2. certificate.source_inputs = i /\ certificate.decision_records = SubSeq(journal[i], 1, n)
    BY <1>1 DEF Certificate
  <1>3. journal[i] \in Seq(Edit)
    BY DEF JournalAllowed
  <1>4. /\ SubSeq(journal[i], 1, n) \in Seq(Edit)
        /\ Len(SubSeq(journal[i], 1, n)) = n
        /\ \A k \in 1 .. n : SubSeq(journal[i], 1, n)[k] = journal[i][k]
    BY <1>3
  <1> QED
    BY <1>2, <1>3, <1>4 DEF Begins

\* What the proofs need of a projected document.
LEMMA DocumentShape ==
    ASSUME NEW inputs, NEW certificate, NEW candidates, NEW verified
    PROVE  LET document == Document(inputs, certificate, candidates, verified)
           IN /\ DOMAIN document = Fields
              /\ document.snapshot_ref = inputs.snapshot_ref
              /\ document.reviewer_ref = inputs.reviewer_ref
              /\ DOMAIN document.rows = inputs.rows
              /\ DOMAIN document.movements = inputs.movements
              /\ DOMAIN document.decisions = DOMAIN certificate.decision_records
  BY DEF Document, Fields, EvidenceState, DecisionViews

\* Edits that decode against a projection are allowed by its inputs.
LEMMA DecodedAllowed ==
    ASSUME NEW edits \in Seq(Edit), NEW document, NEW inputs,
           document.reviewer_ref = inputs.reviewer_ref,
           DOMAIN document.rows = inputs.rows, DOMAIN document.movements = inputs.movements,
           Decodes(edits, document)
    PROVE  /\ \A k \in DOMAIN edits : Allowed(edits[k], inputs)
           /\ \A j, k \in DOMAIN edits : edits[j].decision_ref = edits[k].decision_ref => j = k
  BY DEF Decodes, Allowed

\* An alteration keeps the identity and the decisions of the document.
LEMMA AlterationShape ==
    ASSUME NEW document, DOMAIN document = Fields, NEW altered \in Alterations(document)
    PROVE  /\ DOMAIN altered = Fields
           /\ altered.snapshot_ref = document.snapshot_ref
           /\ altered.decisions = document.decisions
  BY DEF Alterations, Fields

(***************************************************************************)
(* Every step keeps IInv                                                   *)
(***************************************************************************)
LEMMA ExportKeeps ==
    ASSUME IInv, NEW inputs \in Inputs, NEW certificate \in Held, NEW candidates, NEW verified,
           ExportReview(inputs, certificate, candidates, verified)
    PROVE  IInv'
  <1>1. JournalAllowed' /\ CommandsAllowed' /\ ImportsInformed'
    BY DEF IInv, ExportReview, JournalAllowed, CommandsAllowed, ImportsInformed
  <1>2. FileGrounded'
    <2>1. certificate.source_inputs = inputs
      BY DEF ExportReview, Projectable
    <2>2. /\ certificate.decision_records \in Seq(Edit)
          /\ Begins(certificate.decision_records, journal[inputs])
      BY <2>1, HeldBegins DEF IInv
    <2>. DEFINE document == Document(inputs, certificate, candidates, verified)
    <2>3. /\ DOMAIN document = Fields
          /\ document.snapshot_ref = inputs.snapshot_ref
          /\ DOMAIN document.decisions = DOMAIN certificate.decision_records
      BY DocumentShape
    <2>. HIDE DEF document
    <2>4. /\ file' = [document |-> document, edits |-> <<>>, altered |-> FALSE,
                      inputs |-> inputs, seen |-> certificate.decision_records]
          /\ journal' = journal
      BY DEF ExportReview, document
    <2> QED
      BY <2>2, <2>3, <2>4 DEF FileGrounded
  <1> QED
    BY <1>1, <1>2 DEF IInv

LEMMA EditKeeps ==
    ASSUME IInv, NEW edit \in Edit, EditReview(edit)
    PROVE  IInv'
  <1>1. JournalAllowed' /\ CommandsAllowed' /\ ImportsInformed'
    BY DEF IInv, EditReview, JournalAllowed, CommandsAllowed, ImportsInformed
  <1>2. FileGrounded'
    BY DEF IInv, EditReview, FileGrounded
  <1> QED
    BY <1>1, <1>2 DEF IInv

LEMMA AlterKeeps ==
    ASSUME IInv, AlterReview
    PROVE  IInv'
  <1>1. JournalAllowed' /\ CommandsAllowed' /\ ImportsInformed'
    BY DEF IInv, AlterReview, JournalAllowed, CommandsAllowed, ImportsInformed
  <1>2. FileGrounded'
    <2>1. PICK document \in Alterations(file.document) :
             file' = [document |-> document, edits |-> file.edits, altered |-> TRUE,
                      inputs |-> file.inputs, seen |-> file.seen]
      BY DEF AlterReview
    <2>2. file # None /\ journal' = journal
      BY DEF AlterReview
    <2>3. /\ DOMAIN document = Fields
          /\ document.snapshot_ref = file.document.snapshot_ref
          /\ document.decisions = file.document.decisions
      BY <2>2, AlterationShape DEF IInv, FileGrounded
    <2> QED
      BY <2>1, <2>2, <2>3 DEF IInv, FileGrounded
  <1> QED
    BY <1>1, <1>2 DEF IInv

LEMMA ImportKeeps ==
    ASSUME IInv, NEW inputs \in Inputs, NEW certificate \in Held, NEW candidates, NEW verified,
           ImportReview(inputs, certificate, candidates, verified)
    PROVE  IInv'
  <1>1. JournalAllowed' /\ FileGrounded'
    BY DEF IInv, ImportReview, JournalAllowed, FileGrounded
  <1>2. CASE imported' = None
    BY <1>1, <1>2 DEF IInv, CommandsAllowed, ImportsInformed
  <1>3. CASE imported' # None
    <2>. DEFINE trusted == Document(inputs, certificate, candidates, verified)
    <2>1. /\ file # None /\ file.document = trusted /\ Decodes(file.edits, trusted)
          /\ imported' = [inputs |-> inputs, before |-> certificate.decision_records,
                          commands |-> file.edits, seenIn |-> file.inputs, seen |-> file.seen]
          /\ certificate.source_inputs = inputs
      BY <1>3 DEF ImportReview, Projectable
    <2>2. /\ trusted.snapshot_ref = inputs.snapshot_ref
          /\ trusted.reviewer_ref = inputs.reviewer_ref
          /\ DOMAIN trusted.rows = inputs.rows
          /\ DOMAIN trusted.movements = inputs.movements
          /\ DOMAIN trusted.decisions = DOMAIN certificate.decision_records
      BY DocumentShape
    <2>. HIDE DEF trusted
    <2>3. /\ file.inputs \in Inputs /\ file.seen \in Seq(Edit) /\ file.edits \in Seq(Edit)
          /\ Begins(file.seen, journal[file.inputs])
          /\ file.document.snapshot_ref = file.inputs.snapshot_ref
          /\ DOMAIN file.document.decisions = DOMAIN file.seen
      BY <2>1 DEF IInv, FileGrounded
    <2>4. file.inputs = inputs
      BY <2>1, <2>2, <2>3, InputsAssumption
    <2>5. file.seen = certificate.decision_records
      <3>1. /\ certificate.decision_records \in Seq(Edit)
            /\ Begins(certificate.decision_records, journal[inputs])
        BY <2>1, HeldBegins DEF IInv
      <3>2. journal[inputs] \in Seq(Edit)
        BY DEF IInv, JournalAllowed
      <3>3. DOMAIN file.seen = DOMAIN certificate.decision_records
        BY <2>1, <2>2, <2>3
      <3> QED
        BY <2>3, <2>4, <3>1, <3>2, <3>3, BeginningsAgree
    <2>6. ImportsInformed'
      BY <2>1, <2>4, <2>5 DEF ImportsInformed
    <2>7. CommandsAllowed'
      <3>1. /\ \A k \in DOMAIN file.edits : Allowed(file.edits[k], inputs)
            /\ \A j, k \in DOMAIN file.edits :
                  file.edits[j].decision_ref = file.edits[k].decision_ref => j = k
        BY <2>1, <2>2, <2>3, DecodedAllowed
      <3> QED
        BY <2>1, <2>3, <3>1 DEF CommandsAllowed, ImportReview
    <2> QED
      BY <1>1, <2>6, <2>7 DEF IInv
  <1> QED
    BY <1>2, <1>3

\* What is appended to a journal is allowed if what it had and what is added are.
LEMMA GrowthAllowed ==
    ASSUME JournalAllowed, NEW inputs \in Inputs, NEW more \in Seq(Edit),
           \A k \in DOMAIN more : Allowed(more[k], inputs),
           journal' = [journal EXCEPT ![inputs] = @ \o more]
    PROVE  JournalAllowed'
  <1>1. journal[inputs] \in Seq(Edit) /\ journal[inputs] \o more \in Seq(Edit)
    BY DEF JournalAllowed
  <1>2. journal' \in [Inputs -> Seq(Edit)]
    BY <1>1 DEF JournalAllowed
  <1>3. ASSUME NEW k \in DOMAIN (journal[inputs] \o more)
        PROVE  Allowed((journal[inputs] \o more)[k], inputs)
    <2>1. CASE k \in DOMAIN journal[inputs]
      BY <1>1, <2>1 DEF JournalAllowed
    <2>2. CASE k \notin DOMAIN journal[inputs]
      <3>1. /\ k - Len(journal[inputs]) \in DOMAIN more
            /\ (journal[inputs] \o more)[k] = more[k - Len(journal[inputs])]
        BY <1>1, <1>3, <2>2
      <3> QED
        BY <3>1
    <2> QED
      BY <2>1, <2>2
  <1>4. ASSUME NEW i \in Inputs, NEW k \in DOMAIN journal'[i]
        PROVE  Allowed(journal'[i][k], i)
    BY <1>3, <1>4 DEF JournalAllowed
  <1> QED
    BY <1>2, <1>4 DEF JournalAllowed, Allowed

LEMMA GrowthKeepsFile ==
    ASSUME JournalAllowed, FileGrounded, NEW inputs \in Inputs, NEW more \in Seq(Edit),
           journal' = [journal EXCEPT ![inputs] = @ \o more], UNCHANGED file
    PROVE  FileGrounded'
  <1>1. ASSUME file # None
        PROVE  Begins(file.seen, journal'[file.inputs])
    BY <1>1, BeginningsStay DEF JournalAllowed, FileGrounded
  <1> QED
    BY <1>1 DEF FileGrounded

LEMMA RecordCommandsKeeps ==
    ASSUME IInv, RecordCommands
    PROVE  IInv'
  <1>1. /\ imported.inputs \in Inputs /\ imported.commands \in Seq(Edit)
        /\ \A k \in DOMAIN imported.commands : Allowed(imported.commands[k], imported.inputs)
    BY DEF IInv, RecordCommands, CommandsAllowed
  <1>2. JournalAllowed'
    BY <1>1, GrowthAllowed DEF IInv, RecordCommands
  <1>3. FileGrounded'
    BY <1>1, GrowthKeepsFile DEF IInv, RecordCommands
  <1> QED
    BY <1>2, <1>3 DEF IInv, RecordCommands, CommandsAllowed, ImportsInformed

LEMMA RecordDecisionKeeps ==
    ASSUME IInv, NEW inputs \in Inputs, NEW decision \in Edit, RecordDecision(inputs, decision)
    PROVE  IInv'
  <1>. DEFINE blank == Document(inputs, Certificate(inputs, <<>>, FALSE), <<>>, FALSE)
              more == <<decision>>
  <1>1. /\ blank.reviewer_ref = inputs.reviewer_ref
        /\ DOMAIN blank.rows = inputs.rows
        /\ DOMAIN blank.movements = inputs.movements
    BY DEF Document, EvidenceState
  <1>2. Decodes(more, blank)
    BY DEF RecordDecision
  <1>3. more \in Seq(Edit)
    OBVIOUS
  <1>4. journal[inputs] \in Seq(Edit) /\ Append(journal[inputs], decision) = journal[inputs] \o more
    BY DEF IInv, JournalAllowed
  <1>5. journal' = [journal EXCEPT ![inputs] = @ \o more] /\ UNCHANGED <<file, imported>>
    BY <1>4 DEF RecordDecision
  <1>. HIDE DEF blank, more
  <1>6. \A k \in DOMAIN more : Allowed(more[k], inputs)
    BY <1>1, <1>2, <1>3, DecodedAllowed
  <1>7. JournalAllowed'
    BY <1>3, <1>5, <1>6, GrowthAllowed DEF IInv
  <1>8. FileGrounded'
    BY <1>3, <1>5, GrowthKeepsFile DEF IInv
  <1> QED
    BY <1>5, <1>7, <1>8 DEF IInv, CommandsAllowed, ImportsInformed

LEMMA NextIInv == IInv /\ [ReviewNext]_reviewVars => IInv'
  <1> SUFFICES ASSUME IInv, [ReviewNext]_reviewVars
               PROVE  IInv'
    OBVIOUS
  <1>1. ASSUME NEW inputs \in Inputs, NEW certificate \in Held, NEW candidates \in CandidateList,
               NEW verified \in BOOLEAN, ExportReview(inputs, certificate, candidates, verified)
        PROVE  IInv'
    BY <1>1, ExportKeeps
  <1>2. ASSUME NEW inputs \in Inputs, NEW certificate \in Held, NEW candidates \in CandidateList,
               NEW verified \in BOOLEAN, ImportReview(inputs, certificate, candidates, verified)
        PROVE  IInv'
    BY <1>2, ImportKeeps
  <1>3. ASSUME NEW edit \in Edit, EditReview(edit)
        PROVE  IInv'
    BY <1>3, EditKeeps
  <1>4. ASSUME NEW inputs \in Inputs, NEW decision \in Edit, RecordDecision(inputs, decision)
        PROVE  IInv'
    BY <1>4, RecordDecisionKeeps
  <1>5. CASE UNCHANGED reviewVars
    BY <1>5 DEF reviewVars, IInv, JournalAllowed, FileGrounded, CommandsAllowed, ImportsInformed
  <1> QED
    BY <1>1, <1>2, <1>3, <1>4, <1>5, AlterKeeps, RecordCommandsKeeps DEF ReviewNext

(***************************************************************************)
(* Theorems                                                                *)
(***************************************************************************)
LEMMA Inductive == ReviewSpec => []IInv
  BY InitIInv, NextIInv, PTL DEF ReviewSpec

\* Commands are accepted only from a file written with the inputs and the
\* decisions of the trusted projection in view (import_review_document), even
\* though neither the file nor the comparison carries those decisions in full.
THEOREM ReviewsInformed == ReviewSpec => []ImportsInformed
  BY Inductive, PTL DEF IInv

\* The journal holds only decisions of the frozen reviewer on both sides of the
\* frozen evidence, and an import yields every edit of its file or none, and no
\* reference twice (decode_review_edits).
THEOREM ReviewsChecked == ReviewSpec => []CommandsChecked
  <1>1. IInv => CommandsChecked
    BY DEF IInv, JournalAllowed, CommandsAllowed, Allowed, CommandsChecked
  <1> QED
    BY <1>1, Inductive, PTL

(***************************************************************************)
(* What an unaltered document displays                                     *)
(***************************************************************************)
\* A candidate that shows a decision shows one taken on exactly its evidence.
LEMMA DecisionOnCandidate ==
    ASSUME NEW candidate, NEW decisions \in Seq(Edit), Decision(candidate, decisions) # None
    PROVE  \E k \in DOMAIN decisions :
              decisions[k].evidence = candidate /\ Decision(candidate, decisions) = decisions[k]
  <1>. DEFINE same == {k \in DOMAIN decisions : decisions[k].evidence = candidate}
  <1>1. same # {} /\ same \subseteq Nat
    BY DEF Decision
  <1>2. PICK least \in same : \A j \in same : <<j, least>> \notin OpToRel(<, Nat)
    BY <1>1, NatLessThanWellFounded, WFMin
  <1>3. \A j \in same : ~(j < least)
    <2>1. \A j \in same : j \in Nat /\ least \in Nat
      BY <1>1
    <2>. HIDE DEF same
    <2> QED
      BY <1>2, <2>1 DEF OpToRel
  <1>4. \A j \in same : least <= j
    BY <1>1, <1>3
  <1>. DEFINE first == CHOOSE k \in same : \A j \in same : k <= j
  <1>5. first \in same
    BY <1>4
  <1>6. Decision(candidate, decisions) = decisions[first]
    BY <1>1 DEF Decision
  <1> QED
    BY <1>5, <1>6

\* The certificate of a document a host can project names allowed decisions.
LEMMA HeldCertifies ==
    ASSUME JournalAllowed, NEW certificate \in Held
    PROVE  /\ \E closed \in BOOLEAN : certificate =
                 Certificate(certificate.source_inputs, certificate.decision_records, closed)
           /\ \A k \in DOMAIN certificate.decision_records :
                 Allowed(certificate.decision_records[k], certificate.source_inputs)
  <1>1. PICK i \in Inputs : \E n \in 0 .. Len(journal[i]), closed \in BOOLEAN :
           certificate = Certificate(i, SubSeq(journal[i], 1, n), closed)
    BY DEF Held
  <1>2. PICK n \in 0 .. Len(journal[i]), closed \in BOOLEAN :
           certificate = Certificate(i, SubSeq(journal[i], 1, n), closed)
    BY <1>1
  <1>3. certificate.source_inputs = i /\ certificate.decision_records = SubSeq(journal[i], 1, n)
    BY <1>2 DEF Certificate
  <1>4. /\ \A k \in DOMAIN certificate.decision_records : k \in DOMAIN journal[i]
        /\ \A k \in DOMAIN certificate.decision_records :
              certificate.decision_records[k] = journal[i][k]
    BY <1>3, HeldBegins DEF Begins, JournalAllowed
  <1> QED
    BY <1>2, <1>3, <1>4 DEF JournalAllowed

\* The evidence of what is shown, a candidate or a decision, is displayed accepted.
AllAccepted(evidence, document) ==
    /\ \A row \in Elements(evidence.row_ids) : document.rows[row] = "accepted"
    /\ \A voucher \in Elements(evidence.voucher_ids) : document.movements[voucher] = "accepted"

\* What DisplayAgrees says of one document.
Agrees(document, inputs) ==
    /\ document.uncovered_rows = {row \in inputs.rows : document.rows[row] # "accepted"}
    /\ document.uncovered_vouchers =
          {voucher \in inputs.movements : document.movements[voucher] # "accepted"}
    /\ \A k \in DOMAIN document.candidates : document.candidates[k].state = "accepted" =>
          AllAccepted(document.candidates[k].evidence, document)
    /\ \A k \in DOMAIN document.decisions : document.decisions[k].state = "accepted" =>
          AllAccepted(document.decisions[k].evidence, document)

\* The evidence of an approved decision is displayed accepted.
LEMMA ApprovedDisplayed ==
    ASSUME NEW inputs, NEW decisions \in Seq(Edit), NEW closed, NEW candidates, NEW verified,
           NEW k \in DOMAIN decisions, Allowed(decisions[k], inputs),
           decisions[k].disposition \in {"accept", "split", "merge"}, NEW document,
           document = Document(inputs, Certificate(inputs, decisions, closed), candidates, verified)
    PROVE  AllAccepted(decisions[k].evidence, document)
  <1>. DEFINE accepted == {decisions[j].evidence : j \in Approved(decisions)}
  <1>1. decisions[k].evidence \in accepted
    BY DEF Approved
  <1>2. /\ Elements(decisions[k].evidence.row_ids) \subseteq inputs.rows
        /\ Elements(decisions[k].evidence.voucher_ids) \subseteq inputs.movements
    BY DEF Allowed
  <1> QED
    BY <1>1, <1>2 DEF AllAccepted, Document, Certificate, EvidenceState

\* An approval is shown as accepted, and nothing else is.
LEMMA ApprovalShown ==
    ASSUME NEW disposition \in {"accept", "split", "merge"}
    PROVE  DispositionState(disposition) = "accepted"
  BY Zenon DEF DispositionState

LEMMA ShownAccepted ==
    ASSUME NEW disposition \in Disposition, DispositionState(disposition) = "accepted"
    PROVE  disposition \in {"accept", "split", "merge"}
  <1>1. disposition = "reject" => DispositionState(disposition) = "rejected"
    BY Zenon DEF DispositionState
  <1>2. disposition = "defer" => DispositionState(disposition) = "deferred"
    BY Zenon DEF DispositionState
  <1> QED
    BY <1>1, <1>2 DEF Disposition

\* The lists of a projected document agree with one another.
LEMMA DocumentAgrees ==
    ASSUME JournalAllowed, NEW certificate \in Held, NEW inputs, inputs = certificate.source_inputs,
           NEW candidates, NEW verified,
           NEW document, document = Document(inputs, certificate, candidates, verified)
    PROVE  Agrees(document, inputs)
  <1>. DEFINE decisions == certificate.decision_records
  <1>1. decisions \in Seq(Edit) /\ \A k \in DOMAIN decisions : Allowed(decisions[k], inputs)
    BY HeldBegins, HeldCertifies
  <1>2. PICK closed \in BOOLEAN : certificate = Certificate(inputs, decisions, closed)
    BY HeldCertifies
  <1>3. document = Document(inputs, Certificate(inputs, decisions, closed), candidates, verified)
    BY <1>2
  <1>4. \A k \in DOMAIN decisions : decisions[k] \in Edit /\ decisions[k].disposition \in Disposition
    BY <1>1, EditAssumption
  <1>5. /\ document.candidates = [k \in DOMAIN candidates |-> ReviewCandidate(candidates[k], decisions)]
        /\ document.decisions = [k \in DOMAIN decisions |-> DecisionView(decisions[k])]
    BY DEF Document, DecisionViews
  <1>6. document.uncovered_rows = {row \in inputs.rows : document.rows[row] # "accepted"}
    <2>. DEFINE covered == UNION {Elements(e.row_ids) : e \in certificate.accepted}
    <2>1. document.rows = EvidenceState(covered, inputs.rows)
      BY DEF Document
    <2>2. document.uncovered_rows = inputs.rows \ covered
      BY <1>2 DEF Document, Certificate
    <2>. HIDE DEF covered
    <2> QED
      BY <2>1, <2>2 DEF EvidenceState
  <1>10. document.uncovered_vouchers =
            {voucher \in inputs.movements : document.movements[voucher] # "accepted"}
    <2>. DEFINE covered == UNION {Elements(e.voucher_ids) : e \in certificate.accepted}
    <2>1. document.movements = EvidenceState(covered, inputs.movements)
      BY DEF Document
    <2>2. document.uncovered_vouchers = inputs.movements \ covered
      BY <1>2 DEF Document, Certificate
    <2>. HIDE DEF covered
    <2> QED
      BY <2>1, <2>2 DEF EvidenceState
  <1>7. ASSUME NEW k \in DOMAIN decisions, decisions[k].disposition \in {"accept", "split", "merge"}
        PROVE  AllAccepted(decisions[k].evidence, document)
    <2>. HIDE DEF decisions
    <2> QED
      BY <1>1, <1>3, <1>7, ApprovedDisplayed
  <1>. HIDE DEF decisions
  <1>8. ASSUME NEW k \in DOMAIN document.decisions, document.decisions[k].state = "accepted"
        PROVE  AllAccepted(document.decisions[k].evidence, document)
    <2>1. k \in DOMAIN decisions /\ document.decisions[k] = DecisionView(decisions[k])
      BY <1>5, <1>8
    <2>2. /\ document.decisions[k].evidence = decisions[k].evidence
          /\ document.decisions[k].state = DispositionState(decisions[k].disposition)
      BY <2>1 DEF DecisionView
    <2>3. decisions[k].disposition \in {"accept", "split", "merge"}
      BY <1>4, <1>8, <2>1, <2>2, ShownAccepted
    <2> QED
      BY <1>7, <2>1, <2>2, <2>3
  <1>9. ASSUME NEW k \in DOMAIN document.candidates, document.candidates[k].state = "accepted"
        PROVE  AllAccepted(document.candidates[k].evidence, document)
    <2>. DEFINE candidate == candidates[k]
                decision == Decision(candidate, decisions)
    <2>1. document.candidates[k] = ReviewCandidate(candidate, decisions)
      BY <1>5, <1>9
    <2>2. /\ document.candidates[k].evidence = candidate
          /\ document.candidates[k].state =
                IF decision = None THEN "proposed" ELSE DispositionState(decision.disposition)
      BY <2>1 DEF ReviewCandidate
    <2>. HIDE DEF candidate
    <2>3. decision # None
      BY <1>9, <2>2
    <2>4. PICK j \in DOMAIN decisions : decisions[j].evidence = candidate /\ decision = decisions[j]
      BY <1>1, <2>3, DecisionOnCandidate
    <2>. HIDE DEF decision
    <2>5. decisions[j].disposition \in {"accept", "split", "merge"}
      BY <1>4, <1>9, <2>2, <2>3, <2>4, ShownAccepted
    <2> QED
      BY <1>7, <2>2, <2>4, <2>5
  <1> QED
    BY <1>6, <1>8, <1>9, <1>10 DEF Agrees

LEMMA InitAgrees == ReviewInit => DisplayAgrees
  BY DEF ReviewInit, DisplayAgrees

LEMMA ExportAgrees ==
    ASSUME IInv, NEW inputs \in Inputs, NEW certificate \in Held, NEW candidates, NEW verified,
           ExportReview(inputs, certificate, candidates, verified)
    PROVE  DisplayAgrees'
  <1>. DEFINE document == Document(inputs, certificate, candidates, verified)
  <1>1. inputs = certificate.source_inputs
    BY DEF ExportReview, Projectable
  <1>2. file'.document = document /\ file'.inputs = inputs
    BY DEF ExportReview
  <1>3. JournalAllowed /\ document = Document(inputs, certificate, candidates, verified)
    BY DEF IInv
  <1>. HIDE DEF document
  <1>4. Agrees(document, inputs)
    BY <1>1, <1>3, DocumentAgrees
  <1> QED
    BY <1>2, <1>4 DEF DisplayAgrees, Agrees, AllAccepted

LEMMA NextAgrees == IInv /\ DisplayAgrees /\ [ReviewNext]_reviewVars => DisplayAgrees'
  <1> SUFFICES ASSUME IInv, DisplayAgrees, [ReviewNext]_reviewVars
               PROVE  DisplayAgrees'
    OBVIOUS
  <1>1. ASSUME NEW inputs \in Inputs, NEW certificate \in Held, NEW candidates \in CandidateList,
               NEW verified \in BOOLEAN, ExportReview(inputs, certificate, candidates, verified)
        PROVE  DisplayAgrees'
    BY <1>1, ExportAgrees
  <1>2. ASSUME NEW edit \in Edit, EditReview(edit)
        PROVE  DisplayAgrees'
    BY <1>2 DEF EditReview, DisplayAgrees
  <1>3. CASE AlterReview
    BY <1>3 DEF AlterReview, DisplayAgrees
  <1>4. CASE UNCHANGED file
    BY <1>4 DEF DisplayAgrees
  <1> QED
    BY <1>1, <1>2, <1>3, <1>4 DEF ReviewNext, reviewVars, ImportReview, RecordCommands, RecordDecision

\* What a review shows accepted is covered, in every list it shows
\* (project_reconciliation_review).
THEOREM ReviewsAgree == ReviewSpec => []DisplayAgrees
  <1> QED
    BY InitAgrees, NextAgrees, Inductive, PTL DEF ReviewSpec

(***************************************************************************)
(* The two sides of the inputs are finite, so their totals are integers:   *)
(* the fold behind a total is a recursion with a solution.                 *)
(***************************************************************************)
LEMMA LeastNatural ==
    ASSUME NEW S \in SUBSET Nat, S # {}
    PROVE  \E m \in S : \A y \in S : m <= y
<1>1. PICK m \in S : \A y \in S : ~(<<y, m>> \in OpToRel(<, Nat))
  BY NatLessThanWellFounded, WFMin
<1>2. \A y \in S : ~(y < m)
  BY <1>1 DEF OpToRel
<1> QED
  BY <1>2

LEMMA MinimalMember ==
    ASSUME NEW S, IsFiniteSet(S), NEW T \in SUBSET SUBSET S, T # {}
    PROVE  \E A \in T : \A B \in T : B \subseteq A => B = A
<1>. DEFINE sizes == {Cardinality(A) : A \in T}
<1>1. \A A \in T : IsFiniteSet(A) /\ Cardinality(A) \in Nat
  BY FS_Subset, FS_CardinalityType
<1>2. sizes \in SUBSET Nat /\ sizes # {}
  BY <1>1
<1>3. PICK least \in sizes : \A s \in sizes : least <= s
  <2>. HIDE DEF sizes
  <2> QED
    BY <1>2, LeastNatural
<1>4. PICK A \in T : least = Cardinality(A)
  OBVIOUS
<1>5. ASSUME NEW B \in T, B \subseteq A PROVE B = A
  <2>1. Cardinality(A) <= Cardinality(B)
    BY <1>3, <1>4
  <2>2. Cardinality(B) <= Cardinality(A) /\ (Cardinality(A) = Cardinality(B) => A = B)
    BY <1>1, <1>5, FS_Subset
  <2> QED
    BY <1>1, <2>1, <2>2
<1> QED
  BY <1>5

SumTurn(f, G, s) ==
    IF s = {} THEN 0 ELSE f[CHOOSE x \in s : TRUE] + G[s \ {CHOOSE x \in s : TRUE}]

LEMMA SumByTurns ==
    ASSUME NEW f, NEW S
    PROVE  SumFunctionOnSet(f, S)
              = (CHOOSE G : G = [s \in SUBSET S |-> SumTurn(f, G, s)])[S]
  BY DEF SumFunctionOnSet, FoldFunctionOnSet, MapThenFoldSet, SumTurn

\* A recursion on sets has a solution: each turn is right for one member more.
LEMMA SumSolved ==
    ASSUME NEW f, NEW S, IsFiniteSet(S)
    PROVE  \E G : G = [s \in SUBSET S |-> SumTurn(f, G, s)]
<1>. DEFINE Right(G, n) == \A s \in SUBSET S : Cardinality(s) < n => G[s] = SumTurn(f, G, s)
            wrong == {n \in Nat : ~ \E G : Right(G, n)}
            Next1(G) == [s \in SUBSET S |-> SumTurn(f, G, s)]
<1>1. \A s \in SUBSET S : IsFiniteSet(s) /\ Cardinality(s) \in Nat
  BY FS_Subset, FS_CardinalityType
<1>2. ASSUME NEW G, NEW n \in Nat, Right(G, n) PROVE Right(Next1(G), n + 1)
  <2> SUFFICES ASSUME NEW s \in SUBSET S, Cardinality(s) < n + 1
               PROVE  SumTurn(f, G, s) = SumTurn(f, Next1(G), s)
    OBVIOUS
  <2>1. CASE s = {}
    BY <2>1 DEF SumTurn
  <2>2. CASE s # {}
    <3>1. PICK x \in s : x = CHOOSE y \in s : TRUE
      BY <2>2
    <3>2. Cardinality(s \ {x}) = Cardinality(s) - 1 /\ s \ {x} \in SUBSET S
      BY <1>1, <3>1, FS_RemoveElement
    <3>3. G[s \ {x}] = Next1(G)[s \ {x}]
      BY <1>1, <1>2, <3>2
    <3>. HIDE DEF Next1
    <3> QED
      BY <2>2, <3>1, <3>3 DEF SumTurn
  <2> QED
    BY <2>1, <2>2
<1>3. wrong = {}
  <2>1. SUFFICES ASSUME wrong # {} PROVE FALSE
    OBVIOUS
  <2>2. wrong \in SUBSET Nat
    OBVIOUS
  <2>3. PICK n \in wrong : \A m \in wrong : n <= m
    <3>. HIDE DEF wrong
    <3> QED
      BY <2>1, <2>2, LeastNatural
  <2>4. CASE n = 0
    <3>1. Right([s \in SUBSET S |-> 0], 0)
      BY <1>1
    <3>. HIDE DEF Right
    <3> QED
      BY <2>4, <3>1
  <2>5. CASE n # 0
    <3>1. n - 1 \in Nat /\ n - 1 \notin wrong /\ n = (n - 1) + 1
      BY <2>3, <2>5
    <3>. HIDE DEF Right, Next1
    <3>2. PICK G : Right(G, n - 1)
      BY <3>1
    <3>3. Right(Next1(G), (n - 1) + 1)
      BY <1>2, <3>1, <3>2
    <3> QED
      BY <3>1, <3>3
  <2> QED
    BY <2>4, <2>5
<1>4. Cardinality(S) + 1 \in Nat /\ Cardinality(S) \in Nat
  BY FS_CardinalityType
<1>5. PICK G : Right(G, Cardinality(S) + 1)
  <2>. HIDE DEF Right
  <2> QED
    BY <1>3, <1>4
<1>6. \A s \in SUBSET S : G[s] = SumTurn(f, G, s)
  <2> SUFFICES ASSUME NEW s \in SUBSET S PROVE Cardinality(s) < Cardinality(S) + 1
    BY <1>5
  <2> QED
    BY <1>1, <1>4, FS_Subset
<1>7. Next1(G) = Next1(Next1(G))
  <2>1. ASSUME NEW s \in SUBSET S PROVE SumTurn(f, G, s) = SumTurn(f, Next1(G), s)
    <3>1. CASE s = {}
      BY <3>1 DEF SumTurn
    <3>2. CASE s # {}
      <4>1. PICK x \in s : x = CHOOSE y \in s : TRUE
        BY <3>2
      <4>2. s \ {x} \in SUBSET S
        OBVIOUS
      <4>3. G[s \ {x}] = Next1(G)[s \ {x}]
        BY <1>6, <4>2
      <4>. HIDE DEF Next1
      <4> QED
        BY <3>2, <4>1, <4>3 DEF SumTurn
    <3> QED
      BY <3>1, <3>2
  <2> QED
    BY <2>1
<1> QED
  BY <1>7

LEMMA SumIsInteger ==
    ASSUME NEW S, IsFiniteSet(S), NEW f, \A x \in S : f[x] \in Int
    PROVE  SumFunctionOnSet(f, S) \in Int
<1>. DEFINE P(G) == G = [s \in SUBSET S |-> SumTurn(f, G, s)]
<1>1. PICK G : G = (CHOOSE H : P(H)) /\ P(G)
  <2>1. \E H : P(H)
    BY SumSolved
  <2> QED
    BY <2>1
<1>2. SumFunctionOnSet(f, S) = G[S]
  BY <1>1, SumByTurns
<1>. DEFINE bad == {s \in SUBSET S : G[s] \notin Int}
<1>3. SUFFICES ASSUME bad # {} PROVE FALSE
  BY <1>2
<1>4. PICK s \in bad : \A t \in bad : t \subseteq s => t = s
  <2>1. bad \in SUBSET SUBSET S
    OBVIOUS
  <2>. HIDE DEF bad
  <2> QED
    BY <1>3, <2>1, MinimalMember
<1>5. G[s] = SumTurn(f, G, s)
  <2>. HIDE DEF SumTurn
  <2> QED
    BY <1>1
<1>6. s # {}
  BY <1>4, <1>5 DEF SumTurn
<1>7. PICK x \in s : x = CHOOSE y \in s : TRUE
  BY <1>6
<1>8. G[s \ {x}] \in Int
  BY <1>4, <1>7
<1> QED
  BY <1>4, <1>5, <1>6, <1>7, <1>8 DEF SumTurn

LEMMA TotalsAreIntegers ==
    ASSUME NEW inputs \in Inputs
    PROVE  Total(inputs.rows) \in Int /\ Total(inputs.movements) \in Int
  <1>1. /\ IsFiniteSet(inputs.rows) /\ \A x \in inputs.rows : Amount[x] \in Int
        /\ IsFiniteSet(inputs.movements) /\ \A x \in inputs.movements : Amount[x] \in Int
    BY FiniteAssumption, InputsAssumption, AmountAssumption
  <1> QED
    BY <1>1, SumIsInteger DEF Total

(***************************************************************************)
(* Closure                                                                 *)
(***************************************************************************)
\* A document that shows closure was projected from a verified certificate:
\* nothing is uncovered, and the totals of the frozen inputs are equal.
LEMMA DocumentCloses ==
    ASSUME JournalAllowed, NEW certificate \in Held, NEW inputs \in Inputs, NEW candidates, NEW verified,
           Projectable(inputs, certificate, candidates, verified),
           NEW document, document = Document(inputs, certificate, candidates, verified),
           document.state = "closed"
    PROVE  LET approving == {document.decisions[k] :
                                k \in {j \in DOMAIN document.decisions : document.decisions[j].state = "accepted"}}
           IN /\ document.bridge[3] = 0 /\ document.bridge[1] + document.bridge[2] = 0
              /\ inputs.rows \subseteq UNION {Elements(d.evidence.row_ids) : d \in approving}
              /\ inputs.movements \subseteq UNION {Elements(d.evidence.voucher_ids) : d \in approving}
  <1>. DEFINE decisions == certificate.decision_records
              approving == {document.decisions[k] :
                               k \in {j \in DOMAIN document.decisions : document.decisions[j].state = "accepted"}}
  <1>1. inputs = certificate.source_inputs /\ decisions \in Seq(Edit)
    BY HeldBegins DEF Projectable
  <1>2. PICK closed \in BOOLEAN : certificate = Certificate(inputs, decisions, closed)
    BY <1>1, HeldCertifies
  <1>3. DocumentState(certificate, verified) = "closed"
    BY DEF Document
  <1>4. verified /\ certificate.closed
    BY <1>3 DEF DocumentState
  <1>5. /\ certificate.uncovered_rows = {} /\ certificate.uncovered_vouchers = {}
        /\ certificate.residual = 0
    BY <1>4 DEF Projectable, CertificateVerifies
  <1>6. document.bridge =
           <<certificate.statement_total, -certificate.ledger_total, certificate.residual>>
    BY DEF Document
  <1>7. /\ certificate.statement_total \in Int /\ certificate.ledger_total \in Int
        /\ certificate.residual = certificate.statement_total - certificate.ledger_total
    BY <1>1, <1>2, TotalsAreIntegers DEF Certificate
  <1>8. document.bridge[3] = 0 /\ document.bridge[1] + document.bridge[2] = 0
    BY <1>5, <1>6, <1>7
  <1>9. document.decisions = [k \in DOMAIN decisions |-> DecisionView(decisions[k])]
    BY DEF Document, DecisionViews
  <1>. HIDE DEF decisions
  <1>10. ASSUME NEW k \in Approved(decisions)
         PROVE  \E d \in approving : d.evidence = decisions[k].evidence
    <2>1. k \in DOMAIN decisions /\ DispositionState(decisions[k].disposition) = "accepted"
      BY <1>10, ApprovalShown DEF Approved
    <2>2. /\ k \in DOMAIN document.decisions
          /\ document.decisions[k].state = "accepted"
          /\ document.decisions[k].evidence = decisions[k].evidence
      BY <1>9, <2>1 DEF DecisionView
    <2> QED
      BY <2>2
  <1>11. /\ certificate.uncovered_rows =
               inputs.rows \ UNION {Elements(e.row_ids) : e \in {decisions[k].evidence : k \in Approved(decisions)}}
         /\ certificate.uncovered_vouchers =
               inputs.movements \ UNION {Elements(e.voucher_ids) :
                                            e \in {decisions[k].evidence : k \in Approved(decisions)}}
    BY <1>2 DEF Certificate
  <1>. HIDE DEF approving
  <1>12. ASSUME NEW row \in inputs.rows
         PROVE  row \in UNION {Elements(d.evidence.row_ids) : d \in approving}
    <2>1. PICK k \in Approved(decisions) : row \in Elements(decisions[k].evidence.row_ids)
      BY <1>5, <1>11
    <2> QED
      BY <1>10, <2>1
  <1>13. ASSUME NEW voucher \in inputs.movements
         PROVE  voucher \in UNION {Elements(d.evidence.voucher_ids) : d \in approving}
    <2>1. PICK k \in Approved(decisions) : voucher \in Elements(decisions[k].evidence.voucher_ids)
      BY <1>5, <1>11
    <2> QED
      BY <1>10, <2>1
  <1> QED
    BY <1>8, <1>12, <1>13 DEF approving

LEMMA NextClosure == IInv /\ ClosureEarned /\ [ReviewNext]_reviewVars => ClosureEarned'
  <1> SUFFICES ASSUME IInv, ClosureEarned, [ReviewNext]_reviewVars
               PROVE  ClosureEarned'
    OBVIOUS
  <1>1. ASSUME NEW inputs \in Inputs, NEW certificate \in Held, NEW candidates \in CandidateList,
               NEW verified \in BOOLEAN, ExportReview(inputs, certificate, candidates, verified)
        PROVE  ClosureEarned'
    <2>. DEFINE document == Document(inputs, certificate, candidates, verified)
    <2>1. /\ file'.document = document /\ file'.inputs = inputs
          /\ Projectable(inputs, certificate, candidates, verified)
      BY <1>1 DEF ExportReview
    <2>2. JournalAllowed
      BY DEF IInv
    <2>3. document = Document(inputs, certificate, candidates, verified)
      OBVIOUS
    <2>. HIDE DEF document
    <2> QED
      BY <2>1, <2>2, <2>3, DocumentCloses DEF ClosureEarned
  <1>2. ASSUME NEW edit \in Edit, EditReview(edit)
        PROVE  ClosureEarned'
    BY <1>2 DEF EditReview, ClosureEarned
  <1>3. CASE AlterReview
    BY <1>3 DEF AlterReview, ClosureEarned
  <1>4. CASE UNCHANGED file
    BY <1>4 DEF ClosureEarned
  <1> QED
    BY <1>1, <1>2, <1>3, <1>4 DEF ReviewNext, reviewVars, ImportReview, RecordCommands, RecordDecision

\* Closure is shown only where verify_certificate recomputed it, whatever a
\* certificate claims.
THEOREM ReviewsCloseEarned == ReviewSpec => []ClosureEarned
  <1>1. ReviewInit => ClosureEarned
    BY DEF ReviewInit, ClosureEarned
  <1> QED
    BY <1>1, NextClosure, Inductive, PTL DEF ReviewSpec
===============================================================================
