-------------------------- MODULE WebEvidenceProofs --------------------------
(***************************************************************************)
(* What load_anchor returns is authentic whatever happened to the file,    *)
(* and an unaltered store gives back every anchor save_anchor accepted.    *)
(***************************************************************************)
EXTENDS WebEvidence, TLAPS

(***************************************************************************)
(* Types                                                                   *)
(***************************************************************************)
TablesOK ==
    /\ captures \in [CaptureId -> WebCaptureRow \cup {None}]
    /\ representations \in [RepresentationId -> WebRepresentationRow \cup {None}]
    /\ anchors \in [AnchorId -> WebAnchorRow \cup {None}]
    /\ saving \in [Process -> WebCapture \cup EvidenceAnchor \cup {None}]
    /\ alterations \in Nat

\* The scenario stays, so that who runs and what is captured is typed.
ScenarioOK == scenario \in Scenario

LEMMA ScenarioRunning ==
    ASSUME ScenarioOK
    PROVE  scenario.running \subseteq Process /\ scenario.captured \subseteq WebCapture
  BY ScenarioAssumption DEF ScenarioOK

LEMMA ScenarioStays == Spec => []ScenarioOK
<1>1. Init => ScenarioOK
  BY DEF Init, ScenarioOK
<1>2. ScenarioOK /\ [Next]_vars => ScenarioOK'
  BY DEF Next, vars, ScenarioOK
<1> QED BY <1>1, <1>2, PTL DEF Spec

(***************************************************************************)
(* Authenticity: the checks of load_anchor alone establish it.             *)
(***************************************************************************)
LEMMA LoadsAuthentic ==
    ASSUME NEW a \in AnchorId, Loads(a)
    PROVE  LET rep == Recomputed(representations[anchors[a].representation_id])
               anchor == AnchorOf(anchors[a].record, rep)
           IN /\ anchor.representation_id = rep
              /\ anchor.capture_id = rep.raw
              /\ anchor.codec = rep.codec
              /\ anchor.selector = None => anchor.kind = "WholeDocument"
              /\ anchor.selector # None =>
                    /\ anchor.selector.representation_id = rep
                    /\ rep.text[anchor.selector.exact] # None
                    /\ ValidContext(anchor.selector, rep.text)
<1> DEFINE rep == Recomputed(representations[anchors[a].representation_id])
           anchor == AnchorOf(anchors[a].record, rep)
<1>1. VerifyAnchor(anchor, rep)
  BY DEF Loads
<1> HIDE DEF rep, anchor
<1>2. /\ anchor.representation_id = rep
      /\ anchor.capture_id = rep.raw
      /\ anchor.codec = rep.codec
      /\ anchor.selector = None => anchor.kind = "WholeDocument"
      /\ anchor.selector # None =>
            /\ anchor.selector.representation_id = rep
            /\ rep.text[anchor.selector.exact] # None
            /\ ValidContext(anchor.selector, rep.text)
  BY <1>1 DEF VerifyAnchor, Verifies
<1> QED BY <1>2 DEF rep, anchor

LEMMA QuietAuthentic ==
    ASSUME NEW op, NEW kind, op # "load_anchor", reply' = Answer(op, kind, None)
    PROVE  LoadedAnchorsAuthentic'
  BY DEF LoadedAnchorsAuthentic, Answer

LEMMA NextAuthentic ==
    ScenarioOK /\ LoadedAnchorsAuthentic /\ [Next]_vars => LoadedAnchorsAuthentic'
<1> SUFFICES ASSUME ScenarioOK, LoadedAnchorsAuthentic, [Next]_vars
             PROVE  LoadedAnchorsAuthentic'
  OBVIOUS
<1>1. ASSUME reply' = reply PROVE LoadedAnchorsAuthentic'
  BY <1>1 DEF LoadedAnchorsAuthentic
<1>2. ASSUME NEW p \in Process, NEW c \in WebCapture, LookupCapture(p, c) \/ InsertCapture(p, c)
      PROVE  LoadedAnchorsAuthentic'
  BY <1>1, <1>2, QuietAuthentic DEF LookupCapture, InsertCapture, Return
<1>3. ASSUME NEW p \in Process, NEW r \in Representation, SaveRepresentation(p, r)
      PROVE  LoadedAnchorsAuthentic'
  BY <1>3, QuietAuthentic DEF SaveRepresentation, Return
<1>4. ASSUME NEW p \in Process, NEW a \in AnchorId, NEW s \in Subject, NEW c \in WebCapture,
             NEW r \in Representation, NEW sel \in Selector \cup {None}, NEW k \in AnchorKind,
             CheckAnchor(p, a, s, c, r, sel, k)
      PROVE  LoadedAnchorsAuthentic'
  BY <1>1, <1>4, QuietAuthentic DEF CheckAnchor, Return
<1>5. ASSUME NEW p \in Process, WriteAnchor(p, saving[p]) PROVE LoadedAnchorsAuthentic'
  BY <1>5, QuietAuthentic DEF WriteAnchor, Return
<1>6. ASSUME NEW p \in Process, NEW a \in AnchorId, LoadAnchor(p, a)
      PROVE  LoadedAnchorsAuthentic'
  <2> DEFINE rep == Recomputed(representations[anchors[a].representation_id])
             anchor == AnchorOf(anchors[a].record, rep)
  <2>1. CASE reply' = Answer("load_anchor", "ok", anchor) /\ Loads(a)
    <3>1. /\ anchor.representation_id = rep
          /\ anchor.capture_id = rep.raw
          /\ anchor.codec = rep.codec
          /\ anchor.selector = None => anchor.kind = "WholeDocument"
          /\ anchor.selector # None =>
                /\ anchor.selector.representation_id = rep
                /\ rep.text[anchor.selector.exact] # None
                /\ ValidContext(anchor.selector, rep.text)
      BY <2>1, LoadsAuthentic
    <3> HIDE DEF rep, anchor
    <3>2. reply'.anchor = anchor
      BY <2>1 DEF Answer
    <3> QED BY <3>1, <3>2 DEF LoadedAnchorsAuthentic
  <2>2. CASE reply' \in {Answer("load_anchor", "none", None), Answer("load_anchor", "err", None)}
    BY <2>2 DEF LoadedAnchorsAuthentic, Answer
  <2> QED BY <1>6, <2>1, <2>2 DEF LoadAnchor
<1>7. ASSUME NEW p \in Process, Restart(p) PROVE LoadedAnchorsAuthentic'
  BY <1>1, <1>7 DEF Restart
<1>8. CASE Alter
  BY <1>1, <1>8 DEF Alter
<1>9. CASE UNCHANGED vars
  BY <1>1, <1>9 DEF vars
<1>10. ASSUME NEW p \in Process, Step(p) PROVE LoadedAnchorsAuthentic'
  BY <1>2, <1>3, <1>4, <1>5, <1>6, <1>7, <1>10, ScenarioRunning DEF Step
<1> QED BY <1>8, <1>9, <1>10, ScenarioRunning DEF Next

\* load_anchor fails closed: for every content of the file, an anchor it
\* returns quotes what its content-addressed representation contains.
THEOREM EvidenceAuthentic == Spec => []LoadedAnchorsAuthentic
<1>1. Init => LoadedAnchorsAuthentic
  BY DEF Init, LoadedAnchorsAuthentic, Answer
<1> QED BY <1>1, NextAuthentic, ScenarioStays, PTL DEF Spec
(***************************************************************************)
(* An unaltered store gives back what it accepted.                         *)
(***************************************************************************)
\* Why: rows are content-addressed and never deleted, so a check that
\* succeeded once, at save_anchor, succeeds for ever after.
CapturesTrue == \A c \in CaptureId : captures[c] # None => CaptureCid(captures[c].body) = c

RepresentationsTrue ==
    \A r \in RepresentationId : representations[r] # None => CheckedRepresentation(r)

\* An anchor that passed save_anchor's check and waits for its write.
Checked(anchor) ==
    /\ CheckedRepresentation(anchor.representation_id)
    /\ VerifyAnchor(anchor, anchor.representation_id)

SavingChecked == \A p \in Process : saving[p] \in EvidenceAnchor => Checked(saving[p])

Unaltered ==
    alterations = 0 =>
        CapturesTrue /\ RepresentationsTrue /\ SavingChecked
        /\ \A a \in AnchorId : anchors[a] # None => Loads(a)

IInv == TablesOK /\ Unaltered

\* The tables of captures and representations only grow, and keep their rows.
Grows ==
    /\ \A c \in CaptureId : captures[c] # None => captures'[c] = captures[c]
    /\ \A r \in RepresentationId : representations[r] # None => representations'[r] = representations[r]

LEMMA GrowKeepsChecked ==
    ASSUME TablesOK, Grows, NEW id, CheckedRepresentation(id), id \in RepresentationId
    PROVE  CheckedRepresentation(id)' /\ representations'[id] = representations[id]
<1>1. representations[id] \in WebRepresentationRow
  BY DEF TablesOK, CheckedRepresentation
<1>2. representations[id].capture_id \in CaptureId
  BY <1>1 DEF WebRepresentationRow
<1> QED BY <1>1, <1>2 DEF Grows, CheckedRepresentation, Recomputed

LEMMA GrowKeepsLoads ==
    ASSUME TablesOK, Grows, NEW a \in AnchorId, anchors[a] # None, Loads(a), anchors'[a] = anchors[a]
    PROVE  Loads(a)'
<1>1. anchors[a].representation_id \in RepresentationId
  BY DEF TablesOK, WebAnchorRow
<1>2. CheckedRepresentation(anchors[a].representation_id)
  BY DEF Loads
<1>3. /\ CheckedRepresentation(anchors[a].representation_id)'
      /\ representations'[anchors[a].representation_id] = representations[anchors[a].representation_id]
  BY <1>1, <1>2, GrowKeepsChecked
<1> QED BY <1>3 DEF Loads

\* A step that only adds true rows and leaves the anchors keeps everything.
LEMMA GrowKeepsUnaltered ==
    ASSUME IInv, Grows, CapturesTrue', RepresentationsTrue', alterations' = alterations,
           anchors' = anchors,
           \A p \in Process : saving'[p] \in EvidenceAnchor => saving'[p] = saving[p]
    PROVE  Unaltered'
<1> SUFFICES ASSUME alterations = 0
             PROVE  SavingChecked' /\ \A a \in AnchorId : anchors'[a] # None => Loads(a)'
  BY DEF Unaltered
<1>1. ASSUME NEW p \in Process, saving'[p] \in EvidenceAnchor PROVE Checked(saving[p])'
  <2>1. Checked(saving[p]) /\ saving[p] \in EvidenceAnchor
    BY <1>1 DEF IInv, Unaltered, SavingChecked
  <2>2. saving[p].representation_id \in RepresentationId
    BY <2>1 DEF EvidenceAnchor
  <2>3. CheckedRepresentation(saving[p].representation_id)'
    BY <1>1, <2>1, <2>2, GrowKeepsChecked DEF Checked, IInv
  <2> QED BY <1>1, <2>1, <2>3 DEF Checked, CheckedRepresentation
<1>2. ASSUME NEW a \in AnchorId, anchors'[a] # None PROVE Loads(a)'
  BY <1>2, GrowKeepsLoads DEF IInv, Unaltered
<1> QED BY <1>1, <1>2 DEF SavingChecked

LEMMA CaptureNotAnchor == \A c \in WebCapture : c \notin EvidenceAnchor
  BY DEF WebCapture, EvidenceAnchor

LEMMA LookupIInv ==
    ASSUME IInv, NEW p \in Process, NEW c \in WebCapture, LookupCapture(p, c)
    PROVE  IInv'
<1>1. TablesOK'
  BY DEF LookupCapture, IInv, TablesOK
<1>2. UNCHANGED <<captures, representations, anchors, alterations>>
  BY DEF LookupCapture
<1>3. \A q \in Process : saving'[q] \in EvidenceAnchor => saving'[q] = saving[q]
  BY CaptureNotAnchor DEF LookupCapture, IInv, TablesOK
<1>4. Unaltered'
  BY <1>2, <1>3 DEF IInv, Unaltered, CapturesTrue, RepresentationsTrue, SavingChecked, Checked,
       CheckedRepresentation, Loads
<1> QED BY <1>1, <1>4 DEF IInv

LEMMA InsertIInv ==
    ASSUME IInv, NEW p \in Process, NEW c \in WebCapture, InsertCapture(p, c)
    PROVE  IInv'
<1> DEFINE id == CaptureCid(c.body)
<1>1. id \in CaptureId /\ StoredRow(c) \in WebCaptureRow /\ StoredRow(c).body = c.body
  BY DEF StoredRow, WebCapture, CaptureCid, CaptureId, WebCaptureRow
<1>2. TablesOK'
  BY <1>1 DEF InsertCapture, IInv, TablesOK
<1>3. UNCHANGED <<representations, anchors, alterations>>
  BY DEF InsertCapture
<1>4. Grows
  BY <1>1 DEF InsertCapture, Grows, IInv, TablesOK
<1>5. ASSUME alterations = 0 PROVE CapturesTrue' /\ RepresentationsTrue'
  <2>1. CapturesTrue'
    BY <1>1, <1>5 DEF InsertCapture, CapturesTrue, IInv, Unaltered, TablesOK, CaptureCid
  <2>2. RepresentationsTrue'
    BY <1>3, <1>4, <1>5, GrowKeepsChecked DEF RepresentationsTrue, IInv, Unaltered
  <2> QED BY <2>1, <2>2
<1>6. \A q \in Process : saving'[q] \in EvidenceAnchor => saving'[q] = saving[q]
  <2>1. None \notin EvidenceAnchor
    BY NoneAssumption
  <2> QED BY <2>1 DEF InsertCapture, IInv, TablesOK
<1>7. CASE alterations = 0
  BY <1>2, <1>3, <1>4, <1>5, <1>6, <1>7, GrowKeepsUnaltered DEF IInv
<1>8. CASE alterations # 0
  BY <1>2, <1>3, <1>8 DEF IInv, Unaltered
<1> QED BY <1>7, <1>8

LEMMA SaveRepresentationIInv ==
    ASSUME IInv, NEW p \in Process, NEW r \in Representation, SaveRepresentation(p, r)
    PROVE  IInv'
<1> DEFINE row == [capture_id |-> r.raw, text |-> r.text, raw_id |-> r.raw, codec |-> r.codec]
<1>1. r \in RepresentationId /\ r.raw \in CaptureId /\ row \in WebRepresentationRow
  BY RepresentationAssumption DEF RepresentationId, WebRepresentationRow
<1>2. Recomputed(row) = r /\ row # None
  BY <1>1, NoneAssumption DEF Recomputed, RepresentationId
<1>3. TablesOK'
  BY <1>1 DEF SaveRepresentation, IInv, TablesOK
<1>4. UNCHANGED <<captures, anchors, saving, alterations>>
  BY DEF SaveRepresentation
<1>5. CASE alterations = 0
  <2>1. CASE UNCHANGED representations
    BY <1>3, <1>4, <2>1 DEF IInv, Unaltered, CapturesTrue, RepresentationsTrue, SavingChecked,
         Checked, CheckedRepresentation, Loads
  <2>2. CASE captures[r.raw] # None /\ representations' = [representations EXCEPT ![r] = row]
    <3>1. CaptureCid(captures[r.raw].body) = r.raw
      BY <1>1, <1>5, <2>2 DEF IInv, Unaltered, CapturesTrue
    <3>2. ASSUME representations[r] # None PROVE representations[r] = row
      <4>1. CheckedRepresentation(r)
        BY <1>1, <1>5, <3>2 DEF IInv, Unaltered, RepresentationsTrue
      <4>2. representations[r] \in WebRepresentationRow
        BY <1>1, <3>2 DEF IInv, TablesOK
      <4> QED BY <4>1, <4>2 DEF CheckedRepresentation, Recomputed, WebRepresentationRow
    <3>3. Grows
      BY <1>1, <1>4, <2>2, <3>2 DEF Grows, IInv, TablesOK
    <3>4. ASSUME NEW s \in RepresentationId, representations'[s] # None
          PROVE  CheckedRepresentation(s)'
      <4>1. CASE s = r
        <5>1. representations'[r] = row
          BY <1>1, <2>2 DEF IInv, TablesOK
        <5> QED BY <1>2, <1>4, <2>2, <3>1, <4>1, <5>1 DEF CheckedRepresentation
      <4>2. CASE s # r
        <5>1. representations'[s] = representations[s]
          BY <1>1, <2>2, <4>2 DEF IInv, TablesOK
        <5> QED BY <1>5, <3>3, <3>4, <5>1, GrowKeepsChecked DEF IInv, Unaltered, RepresentationsTrue
      <4> QED BY <4>1, <4>2
    <3>5. CapturesTrue' /\ RepresentationsTrue'
      BY <1>4, <1>5, <3>4 DEF CapturesTrue, RepresentationsTrue, IInv, Unaltered
    <3> QED BY <1>3, <1>4, <3>3, <3>5, GrowKeepsUnaltered DEF IInv
  <2> QED BY <2>1, <2>2 DEF SaveRepresentation
<1>6. CASE alterations # 0
  BY <1>3, <1>4, <1>6 DEF IInv, Unaltered
<1> QED BY <1>5, <1>6

\* Nothing but saving changes: the anchor a process has just checked.
LEMMA CheckAnchorIInv ==
    ASSUME IInv, NEW p \in Process, NEW a \in AnchorId, NEW s \in Subject, NEW c \in WebCapture,
           NEW r \in Representation, NEW sel \in Selector \cup {None}, NEW k \in AnchorKind,
           CheckAnchor(p, a, s, c, r, sel, k)
    PROVE  IInv'
<1> DEFINE anchor == Built(a, s, c, r, sel, k)
<1>1. r \in RepresentationId
  BY RepresentationAssumption
<1>2. anchor \in EvidenceAnchor /\ anchor.representation_id = r
  BY <1>1 DEF Built, EvidenceAnchor, WebCapture, CaptureCid, CaptureId, RepresentationId
<1>3. UNCHANGED <<captures, representations, anchors, alterations>>
  BY DEF CheckAnchor
<1>4. \/ saving' = saving
      \/ /\ saving' = [saving EXCEPT ![p] = anchor]
         /\ CheckedRepresentation(r)
         /\ VerifyAnchor(anchor, Recomputed(representations[r]))
  BY DEF CheckAnchor
<1>5. TablesOK'
  BY <1>2, <1>3, <1>4 DEF IInv, TablesOK
<1>6. ASSUME SavingChecked PROVE SavingChecked'
  <2>1. CASE saving' = saving
    BY <1>3, <1>6, <2>1 DEF SavingChecked, Checked, CheckedRepresentation
  <2>2. CASE saving' = [saving EXCEPT ![p] = anchor] /\ CheckedRepresentation(r)
             /\ VerifyAnchor(anchor, Recomputed(representations[r]))
    <3>1. Recomputed(representations[r]) = r
      BY <2>2 DEF CheckedRepresentation
    <3>2. Checked(anchor)
      BY <1>2, <2>2, <3>1 DEF Checked
    <3> HIDE DEF anchor
    <3>3. \A q \in Process : saving'[q] = IF q = p THEN anchor ELSE saving[q]
      BY <2>2 DEF IInv, TablesOK
    <3> QED BY <1>3, <1>6, <3>2, <3>3 DEF SavingChecked, Checked, CheckedRepresentation
  <2> QED BY <1>4, <2>1, <2>2
<1>7. Unaltered'
  BY <1>3, <1>6 DEF IInv, Unaltered, CapturesTrue, RepresentationsTrue, CheckedRepresentation, Loads
<1> QED BY <1>5, <1>7 DEF IInv

\* A record and back: the anchor that load_anchor rebuilds is the one saved.
LEMMA RecordRoundTrip ==
    ASSUME NEW anchor \in EvidenceAnchor,
           VerifyAnchor(anchor, anchor.representation_id)
    PROVE  AnchorOf(RecordOf(anchor), anchor.representation_id) = anchor
<1> DEFINE rep == anchor.representation_id
           back == AnchorOf(RecordOf(anchor), rep)
<1>1. anchor.codec = rep.codec
  BY DEF VerifyAnchor
<1>2. back.selector = anchor.selector
  <2>1. CASE anchor.selector = None
    BY <2>1 DEF AnchorOf, RecordOf
  <2>2. CASE anchor.selector # None
    <3>1. anchor.selector \in Selector /\ anchor.selector.representation_id = rep
      BY <2>2 DEF EvidenceAnchor, VerifyAnchor, Verifies
    <3>2. [exact |-> anchor.selector.exact, context |-> anchor.selector.context] # None
      BY <3>1, NoneAssumption DEF SelectorRecord, Selector
    <3>3. RecordOf(anchor).selector
            = [exact |-> anchor.selector.exact, context |-> anchor.selector.context]
      BY <2>2 DEF RecordOf
    <3>4. back.selector = [representation_id |-> rep, exact |-> anchor.selector.exact,
                           context |-> anchor.selector.context]
      BY <3>2, <3>3 DEF AnchorOf, RecordOf
    <3> QED BY <3>1, <3>4 DEF Selector
  <2> QED BY <2>1, <2>2
<1>3. /\ back.anchor_id = anchor.anchor_id
      /\ back.subject = anchor.subject
      /\ back.capture_id = anchor.capture_id
      /\ back.representation_id = rep
      /\ back.source_uri = anchor.source_uri
      /\ back.codec = rep.codec
      /\ back.kind = anchor.kind
  BY DEF AnchorOf, RecordOf
<1>4. back = [anchor_id |-> back.anchor_id, subject |-> back.subject, capture_id |-> back.capture_id,
              representation_id |-> back.representation_id, selector |-> back.selector,
              source_uri |-> back.source_uri, codec |-> back.codec, kind |-> back.kind]
  BY DEF AnchorOf
<1>5. anchor = [anchor_id |-> anchor.anchor_id, subject |-> anchor.subject,
                capture_id |-> anchor.capture_id, representation_id |-> anchor.representation_id,
                selector |-> anchor.selector, source_uri |-> anchor.source_uri,
                codec |-> anchor.codec, kind |-> anchor.kind]
  BY DEF EvidenceAnchor
<1> HIDE DEF back
<1>6. back = anchor
  BY <1>1, <1>2, <1>3, <1>4, <1>5
<1> QED BY <1>6 DEF back

LEMMA RecordType == \A anchor \in EvidenceAnchor : RecordOf(anchor) \in AnchorRecord
  BY DEF EvidenceAnchor, RecordOf, AnchorRecord, SelectorRecord, Selector

LEMMA WriteAnchorIInv ==
    ASSUME IInv, NEW p \in Process, saving[p] \in EvidenceAnchor, WriteAnchor(p, saving[p])
    PROVE  IInv'
<1> DEFINE anchor == saving[p]
           rep == anchor.representation_id
           row == [subject |-> anchor.subject, representation_id |-> rep, record |-> RecordOf(anchor)]
<1>1. /\ anchor.anchor_id \in AnchorId
      /\ rep \in RepresentationId
      /\ row \in WebAnchorRow
  BY RecordType DEF EvidenceAnchor, WebAnchorRow
<1>2. UNCHANGED <<captures, representations, alterations>>
  BY DEF WriteAnchor
<1>3. saving' = [saving EXCEPT ![p] = None]
  BY DEF WriteAnchor
<1>4. anchors' = anchors \/ anchors' = [anchors EXCEPT ![anchor.anchor_id] = row]
  BY DEF WriteAnchor
<1>5. TablesOK'
  BY <1>1, <1>2, <1>3, <1>4 DEF IInv, TablesOK
<1>6. ASSUME alterations = 0 PROVE SavingChecked'
  <2>1. \A q \in Process : saving'[q] \in EvidenceAnchor => saving'[q] = saving[q]
    BY <1>3, NoneAssumption DEF IInv, TablesOK
  <2> QED BY <1>2, <1>6, <2>1 DEF SavingChecked, Checked, CheckedRepresentation, IInv, Unaltered
<1>7. ASSUME alterations = 0, NEW a \in AnchorId, anchors'[a] # None PROVE Loads(a)'
  <2>1. CASE anchors'[a] = anchors[a]
    BY <1>2, <1>7, <2>1, GrowKeepsLoads DEF IInv, Unaltered, Grows
  <2>2. CASE anchors'[a] # anchors[a]
    <3>1. a = anchor.anchor_id /\ anchors'[a] = row
      BY <1>1, <1>4, <2>2 DEF IInv, TablesOK
    <3>2. CheckedRepresentation(rep) /\ VerifyAnchor(anchor, rep)
      BY <1>7 DEF IInv, Unaltered, SavingChecked, Checked
    <3>3. Recomputed(representations[rep]) = rep
      BY <3>2 DEF CheckedRepresentation
    <3>4. AnchorOf(RecordOf(anchor), rep) = anchor
      BY <3>2, RecordRoundTrip
    <3>5. RecordOf(anchor).selector # None => rep.text[RecordOf(anchor).selector.exact] # None
      BY <3>2 DEF RecordOf, VerifyAnchor, Verifies
    <3>6. row.subject = anchor.subject /\ row.representation_id = rep /\ row.record = RecordOf(anchor)
      OBVIOUS
    <3> HIDE DEF rep, row, anchor
    <3>7. \A id : CheckedRepresentation(id) => CheckedRepresentation(id)'
      BY <1>2 DEF CheckedRepresentation
    <3>8. LET row2 == anchors'[a]
              rep2 == Recomputed(representations'[row2.representation_id])
              anchor2 == AnchorOf(row2.record, rep2)
          IN rep2 = rep /\ anchor2 = anchor /\ row2 = row
      BY <1>2, <3>1, <3>3, <3>4, <3>6
    <3>9. anchor.representation_id = rep
      BY DEF rep
    <3> QED BY <1>2, <3>1, <3>2, <3>5, <3>6, <3>7, <3>8, <3>9 DEF Loads
  <2> QED BY <2>1, <2>2
<1>8. Unaltered'
  BY <1>2, <1>6, <1>7 DEF IInv, Unaltered, CapturesTrue, RepresentationsTrue, CheckedRepresentation
<1> QED BY <1>5, <1>8 DEF IInv

\* Alterations keep the types, and end the claim.
LEMMA AlterIInv == ASSUME ScenarioOK, IInv, Alter PROVE IInv'
<1>1. alterations' = alterations + 1 /\ alterations' # 0 /\ alterations' \in Nat
  <2>1. alterations' = alterations + 1
    BY DEF Alter
  <2>2. alterations \in Nat
    BY DEF IInv, TablesOK
  <2> QED BY <2>1, <2>2
<1>2. ASSUME NEW a \in AnchorId, NEW r \in Representation, NEW s \in Subject, AlterIndex(a, r, s)
      PROVE  anchors' \in [AnchorId -> WebAnchorRow \cup {None}]
  <2>1. anchors[a] \in WebAnchorRow /\ r \in RepresentationId
    BY <1>2, RepresentationAssumption DEF IInv, TablesOK, AlterIndex
  <2>2. [subject |-> s, representation_id |-> r, record |-> anchors[a].record] \in WebAnchorRow
    BY <2>1 DEF WebAnchorRow
  <2> QED BY <1>2, <2>2 DEF IInv, TablesOK, AlterIndex
<1>3. ASSUME NEW a \in AnchorId, NEW r \in Representation,
             NEW sel \in SelectorRecord \cup {None}, NEW k \in AnchorKind, AlterRecord(a, r, sel, k)
      PROVE  anchors' \in [AnchorId -> WebAnchorRow \cup {None}]
  <2> DEFINE old == anchors[a].record
             new == [anchor_id |-> old.anchor_id, subject |-> old.subject,
                     capture |-> old.capture, representation |-> r, selector |-> sel,
                     source_uri |-> old.source_uri, kind |-> k]
  <2>1. anchors[a] \in WebAnchorRow /\ r \in RepresentationId
    BY <1>3, RepresentationAssumption DEF IInv, TablesOK, AlterRecord
  <2>2. new \in AnchorRecord
    BY <2>1 DEF WebAnchorRow, AnchorRecord
  <2>3. [subject |-> anchors[a].subject, representation_id |-> anchors[a].representation_id,
         record |-> new] \in WebAnchorRow
    BY <2>1, <2>2 DEF WebAnchorRow
  <2> QED BY <1>3, <2>3 DEF IInv, TablesOK, AlterRecord
<1>4. ASSUME NEW r \in Representation, NEW row \in WebRepresentationRow \cup {None},
             representations' = [representations EXCEPT ![r] = row]
      PROVE  representations' \in [RepresentationId -> WebRepresentationRow \cup {None}]
  BY <1>4, RepresentationAssumption DEF IInv, TablesOK
<1>5. ASSUME NEW c \in CaptureId, NEW row \in WebCaptureRow \cup {None},
             captures' = [captures EXCEPT ![c] = row]
      PROVE  captures' \in [CaptureId -> WebCaptureRow \cup {None}]
  BY <1>5 DEF IInv, TablesOK
<1>7. {StoredRow(w) : w \in scenario.captured} \subseteq WebCaptureRow
  BY ScenarioRunning DEF StoredRow, WebCapture, WebCaptureRow
<1>6. TablesOK'
  <2>1. UNCHANGED saving
    BY DEF Alter
  <2>2. /\ captures' \in [CaptureId -> WebCaptureRow \cup {None}]
        /\ representations' \in [RepresentationId -> WebRepresentationRow \cup {None}]
        /\ anchors' \in [AnchorId -> WebAnchorRow \cup {None}]
    <3>1. TablesOK
      BY DEF IInv
    <3>2. CASE \E c \in CaptureId, row \in {StoredRow(w) : w \in scenario.captured} \cup {None} :
                  /\ captures' = [captures EXCEPT ![c] = row]
                  /\ UNCHANGED <<representations, anchors>>
      BY <1>5, <1>7, <3>1, <3>2 DEF TablesOK
    <3>3. CASE \E r \in Representation, row \in WebRepresentationRow \cup {None} :
                  /\ representations' = [representations EXCEPT ![r] = row]
                  /\ UNCHANGED <<captures, anchors>>
      BY <1>4, <3>1, <3>3 DEF TablesOK
    <3>4. CASE /\ UNCHANGED <<captures, representations>>
               /\ anchors' \in [AnchorId -> WebAnchorRow \cup {None}]
      BY <3>1, <3>4 DEF TablesOK
    <3> QED BY <1>2, <1>3, <3>2, <3>3, <3>4 DEF Alter
  <2> QED BY <1>1, <2>1, <2>2 DEF IInv, TablesOK
<1> QED BY <1>1, <1>6 DEF IInv, Unaltered

LEMMA QuietIInv ==
    ASSUME IInv, UNCHANGED <<captures, representations, anchors, saving, alterations>>
    PROVE  IInv'
  BY DEF IInv, TablesOK, Unaltered, CapturesTrue, RepresentationsTrue, SavingChecked, Checked,
      CheckedRepresentation, Loads

LEMMA RestartIInv == ASSUME IInv, NEW p \in Process, Restart(p) PROVE IInv'
<1>1. UNCHANGED <<captures, representations, anchors, alterations>>
  BY DEF Restart
<1>2. TablesOK' /\ \A q \in Process : saving'[q] \in EvidenceAnchor => saving'[q] = saving[q]
  BY NoneAssumption DEF Restart, IInv, TablesOK
<1> QED BY <1>1, <1>2 DEF IInv, Unaltered, CapturesTrue, RepresentationsTrue, SavingChecked, Checked,
             CheckedRepresentation, Loads

LEMMA NextIInv == ScenarioOK /\ IInv /\ [Next]_vars => IInv'
<1> SUFFICES ASSUME ScenarioOK, IInv, [Next]_vars PROVE IInv'
  OBVIOUS
<1>1. ASSUME NEW p \in Process, NEW a \in AnchorId, LoadAnchor(p, a) PROVE IInv'
  BY <1>1, QuietIInv DEF LoadAnchor
<1>2. CASE UNCHANGED vars
  BY <1>2, QuietIInv DEF vars
<1>3. ASSUME NEW p \in Process, Step(p) PROVE IInv'
  BY <1>1, <1>3, ScenarioRunning, LookupIInv, InsertIInv, SaveRepresentationIInv,
     CheckAnchorIInv, WriteAnchorIInv, RestartIInv DEF Step
<1> QED BY <1>2, <1>3, ScenarioRunning, AlterIInv DEF Next

LEMMA EvidenceInvariant == Spec => []IInv
<1>1. ASSUME Init PROVE IInv
  <2>1. TablesOK
    BY <1>1 DEF Init, TablesOK
  <2>2. /\ \A c \in CaptureId : captures[c] = None
        /\ \A r \in RepresentationId : representations[r] = None
        /\ \A p \in Process : saving[p] = None
        /\ \A a \in AnchorId : anchors[a] = None
    BY <1>1 DEF Init
  <2>3. CapturesTrue /\ RepresentationsTrue
    BY <2>2 DEF CapturesTrue, RepresentationsTrue
  <2>4. SavingChecked
    BY <2>2, NoneAssumption DEF SavingChecked
  <2> QED BY <2>1, <2>2, <2>3, <2>4 DEF IInv, Unaltered
<1> QED BY <1>1, NextIInv, ScenarioStays, PTL DEF Spec

\* Left alone, every anchor save_anchor accepted passes load_anchor's checks for
\* ever, whatever other processes save in between.
THEOREM EvidenceLoads == Spec => []StoredAnchorsLoad
<1>1. IInv => StoredAnchorsLoad
  BY DEF IInv, Unaltered, StoredAnchorsLoad
<1> QED BY <1>1, EvidenceInvariant, PTL

(***************************************************************************)
(* Provenance                                                              *)
(***************************************************************************)
ProvenanceKept ==
    \A c \in CaptureId : captures[c] # None /\ alterations' = alterations
        => captures'[c] = captures[c]

LEMMA NextKeepsProvenance == IInv /\ [Next]_vars => ProvenanceKept
<1> SUFFICES ASSUME IInv, [Next]_vars PROVE ProvenanceKept
  OBVIOUS
<1>1. CASE Alter
  <2>1. alterations \in Nat /\ alterations' = alterations + 1
    BY <1>1 DEF IInv, TablesOK, Alter
  <2>2. alterations' # alterations
    BY <2>1
  <2> QED BY <2>2 DEF ProvenanceKept
<1>2. ASSUME NEW p, NEW c, InsertCapture(p, c) PROVE ProvenanceKept
  <2>1. \/ UNCHANGED captures
        \/ /\ captures[CaptureCid(c.body)] = None
           /\ captures' = [captures EXCEPT ![CaptureCid(c.body)] = StoredRow(c)]
    BY <1>2 DEF InsertCapture
  <2> QED BY <2>1 DEF IInv, TablesOK, ProvenanceKept
<1>3. ASSUME UNCHANGED captures PROVE ProvenanceKept
  BY <1>3 DEF ProvenanceKept
<1>4. ASSUME NEW p, Step(p) PROVE ProvenanceKept
  BY <1>2, <1>3, <1>4 DEF Step, LookupCapture, SaveRepresentation, CheckAnchor, WriteAnchor,
       LoadAnchor, Restart
<1> QED BY <1>1, <1>3, <1>4 DEF Next, vars

\* Whoever saves first gives some bytes their provenance (save_web_capture):
\* for any number of racing processes only an alteration of the file changes it.
THEOREM EvidenceKeepsProvenance == Spec => CapturesKeepProvenance
<1>1. IInv /\ [Next]_vars => [ProvenanceKept]_vars
  BY NextKeepsProvenance
<1> QED BY <1>1, EvidenceInvariant, PTL DEF Spec, CapturesKeepProvenance, ProvenanceKept
==============================================================================
