----------------------------- MODULE WebEvidence -----------------------------
(***************************************************************************)
(* Web captures, their representations and the evidence anchors quoting    *)
(* them (sim-lib-doc-web persistence.rs, anchor.rs, records.rs over        *)
(* sim-lib-doc-store web.rs), with several processes on one store file and *)
(* a file that may be altered outside the program, as the crate's tests do *)
(* with sqlite3.                                                           *)
(*                                                                         *)
(* A content identity is the digest of its content, modelled by the        *)
(* content itself under a constructor: equal identities, equal content.    *)
(* A text maps each passage to the context it stands in, None where it     *)
(* does not occur; offsets and structural paths are part of the passage.   *)
(* Titles, times, receipts and claims are carried along unread and are     *)
(* left out.  save_capture and save_anchor read before they write, in      *)
(* separate transactions; the other operations are one transaction each or *)
(* read rows whose identity is their content.                              *)
(***************************************************************************)
EXTENDS Integers, Options

CONSTANTS
    Process, AnchorId, Subject, Uri, Body, Codec,
    Passage, Context, Text,
    Representation,    \* the decoded representations callers hold
    Scenario           \* which processes run, which captures there are, and how
                       \* often at most the file is altered from outside (a bound)

CaptureCid(body) == [bytes |-> body]
CaptureId == [bytes: Body]
RepresentationId == [raw: CaptureId, text: Text, codec: Codec]

ASSUME TextAssumption == Text \subseteq [Passage -> Context \cup {None}]
ASSUME RepresentationAssumption == Representation \subseteq RepresentationId

AnchorKind == {"Quote", "ParaphraseSupport", "WholeDocument"}
Selector == [representation_id: RepresentationId, exact: Passage, context: Context \cup {None}]
WebCapture == [retrieval_uri: Uri, body: Body]
EvidenceAnchor == [anchor_id: AnchorId, subject: Subject, capture_id: CaptureId,
                   representation_id: RepresentationId, selector: Selector \cup {None},
                   source_uri: Uri, codec: Codec, kind: AnchorKind]
SelectorRecord == [exact: Passage, context: Context \cup {None}]
AnchorRecord == [anchor_id: AnchorId, subject: Subject, capture: CaptureId,
                 representation: RepresentationId, selector: SelectorRecord \cup {None},
                 source_uri: Uri, kind: AnchorKind]

WebCaptureRow == [source_uri: Uri, body: Body]
WebRepresentationRow == [capture_id: CaptureId, text: Text, raw_id: CaptureId, codec: Codec]
WebAnchorRow == [subject: Subject, representation_id: RepresentationId, record: AnchorRecord]

ASSUME ScenarioAssumption ==
    Scenario \subseteq [running: SUBSET Process, captured: SUBSET WebCapture, alterations: Nat]
ASSUME NoneAssumption ==
    /\ None \notin WebCaptureRow \cup WebRepresentationRow \cup WebAnchorRow
    /\ None \notin EvidenceAnchor \cup WebCapture
    /\ None \notin Selector \cup SelectorRecord
    /\ None \notin Context

VARIABLES
    captures,         \* table web_captures
    representations,  \* table web_representations
    anchors,          \* table web_evidence_anchors
    saving,           \* per process: what it has checked and not yet written
    scenario,         \* the scenario of this behaviour
    alterations,      \* how often the file was altered from outside
    reply             \* the answer to the last call

vars == <<captures, representations, anchors, saving, scenario, alterations, reply>>

Answer(op, kind, anchor) == [op |-> op, kind |-> kind, anchor |-> anchor]
Return(op, kind) == reply' = Answer(op, kind, None)

Init ==
    /\ captures = [c \in CaptureId |-> None]
    /\ representations = [r \in RepresentationId |-> None]
    /\ anchors = [a \in AnchorId |-> None]
    /\ saving = [p \in Process |-> None]
    /\ scenario \in Scenario
    /\ alterations = 0
    /\ reply = Answer("none", "none", None)

(***************************************************************************)
(* Captures and representations                                            *)
(***************************************************************************)
StoredRow(capture) == [source_uri |-> capture.retrieval_uri, body |-> capture.body]

\* save_web_capture, its lookup: a known identity is answered at once.
LookupCapture(p, capture) ==
    LET old == captures[CaptureCid(capture.body)]
    IN /\ saving[p] = None
       /\ \/ /\ old # None
             /\ Return("save_capture", IF old.body = capture.body THEN "ok" ELSE "err")
             /\ UNCHANGED <<captures, representations, anchors, saving, alterations>>
          \/ /\ old = None
             /\ saving' = [saving EXCEPT ![p] = capture]
             /\ UNCHANGED <<captures, representations, anchors, alterations, reply>>

\* Mutant of InsertCapture: an upsert, so the later of two racing saves wins.
UpsertCapture(p, capture) ==
    /\ saving[p] = capture
    /\ captures' = [captures EXCEPT ![CaptureCid(capture.body)] = StoredRow(capture)]
    /\ saving' = [saving EXCEPT ![p] = None]
    /\ Return("save_capture", "ok")
    /\ UNCHANGED <<representations, anchors, alterations>>

\* save_web_capture, its insert: refused when another process came first.
InsertCapture(p, capture) ==
    LET id == CaptureCid(capture.body)
    IN /\ saving[p] = capture
       /\ saving' = [saving EXCEPT ![p] = None]
       /\ \/ /\ captures[id] = None
             /\ captures' = [captures EXCEPT ![id] = StoredRow(capture)]
             /\ Return("save_capture", "ok")
          \/ /\ captures[id] # None
             /\ Return("save_capture", "err")
             /\ UNCHANGED captures
       /\ UNCHANGED <<representations, anchors, alterations>>

\* save_representation: an upsert behind a foreign key on the capture.
SaveRepresentation(p, rep) ==
    /\ saving[p] = None
    /\ \/ /\ captures[rep.raw] # None
          /\ representations' = [representations EXCEPT ![rep] =
                 [capture_id |-> rep.raw, text |-> rep.text,
                  raw_id |-> rep.raw, codec |-> rep.codec]]
          /\ Return("save_representation", "ok")
       \/ /\ captures[rep.raw] = None
          /\ Return("save_representation", "err")
          /\ UNCHANGED representations
    /\ UNCHANGED <<captures, anchors, saving, alterations>>

(***************************************************************************)
(* Checking                                                                *)
(***************************************************************************)
\* EvidenceSelector::verify: taken from this representation, still there.
Verifies(selector, rep) ==
    selector.representation_id = rep /\ rep.text[selector.exact] # None

ValidContext(selector, text) ==
    selector.context # None => text[selector.exact] = selector.context

\* The representation a row describes, recomputed from its columns.
Recomputed(row) == [raw |-> row.raw_id, text |-> row.text, codec |-> row.codec]

\* checked_representation succeeds, and then returns Recomputed(row), which is id.
CheckedRepresentation(id) ==
    LET row == representations[id]
    IN /\ row # None
       /\ row.raw_id = row.capture_id
       /\ captures[row.capture_id] # None
       /\ CaptureCid(captures[row.capture_id].body) = row.raw_id
       /\ Recomputed(row) = id

\* Mutant of VerifyAnchor: the context of the selector is not looked at.
VerifyWithoutContext(anchor, rep) ==
    /\ anchor.representation_id = rep
    /\ anchor.capture_id = rep.raw
    /\ anchor.codec = rep.codec
    /\ \/ anchor.kind = "WholeDocument" /\ anchor.selector = None
       \/ anchor.selector # None /\ Verifies(anchor.selector, rep)

VerifyAnchor(anchor, rep) ==
    /\ anchor.representation_id = rep
    /\ anchor.capture_id = rep.raw
    /\ anchor.codec = rep.codec
    /\ \/ anchor.kind = "WholeDocument" /\ anchor.selector = None
       \/ /\ anchor.selector # None
          /\ Verifies(anchor.selector, rep)
          /\ ValidContext(anchor.selector, rep.text)

(***************************************************************************)
(* Anchors                                                                 *)
(***************************************************************************)
\* The constructors quote, paraphrase_support and whole_document, and build:
\* what the caller's selector must satisfy for an anchor of each kind.
Constructible(kind, selector, rep) ==
    \/ kind = "Quote" /\ selector # None /\ Verifies(selector, rep) /\ ValidContext(selector, rep.text)
    \/ kind = "ParaphraseSupport" /\ selector # None /\ Verifies(selector, rep)
    \/ kind = "WholeDocument" /\ selector = None

Built(a, subject, capture, rep, selector, kind) ==
    [anchor_id |-> a, subject |-> subject, capture_id |-> CaptureCid(capture.body),
     representation_id |-> rep, selector |-> selector,
     source_uri |-> capture.retrieval_uri, codec |-> rep.codec, kind |-> kind]

\* A caller builds an anchor and save_anchor checks it against the stored
\* representation; the write comes later, in a transaction of its own.
CheckAnchor(p, a, subject, capture, rep, selector, kind) ==
    LET anchor == Built(a, subject, capture, rep, selector, kind)
    IN /\ saving[p] = None
       /\ Constructible(kind, selector, rep)
       /\ CaptureCid(capture.body) = rep.raw
       /\ \/ /\ CheckedRepresentation(rep) /\ VerifyAnchor(anchor, Recomputed(representations[rep]))
             /\ saving' = [saving EXCEPT ![p] = anchor]
             /\ UNCHANGED reply
          \/ /\ ~(CheckedRepresentation(rep) /\ VerifyAnchor(anchor, Recomputed(representations[rep])))
             /\ Return("save_anchor", "err")
             /\ UNCHANGED saving
       /\ UNCHANGED <<captures, representations, anchors, alterations>>

\* Mutant of RecordOf: the selector is forgotten on the way to the store.
RecordWithoutSelector(anchor) ==
    [anchor_id |-> anchor.anchor_id, subject |-> anchor.subject,
     capture |-> anchor.capture_id, representation |-> anchor.representation_id,
     selector |-> None, source_uri |-> anchor.source_uri, kind |-> anchor.kind]

RecordOf(anchor) ==
    [anchor_id |-> anchor.anchor_id, subject |-> anchor.subject,
     capture |-> anchor.capture_id, representation |-> anchor.representation_id,
     selector |-> IF anchor.selector = None THEN None
                  ELSE [exact |-> anchor.selector.exact, context |-> anchor.selector.context],
     source_uri |-> anchor.source_uri, kind |-> anchor.kind]

\* save_web_anchor: an upsert behind a foreign key on the representation.
WriteAnchor(p, anchor) ==
    /\ saving[p] = anchor
    /\ saving' = [saving EXCEPT ![p] = None]
    /\ \/ /\ representations[anchor.representation_id] # None
          /\ anchors' = [anchors EXCEPT ![anchor.anchor_id] =
                 [subject |-> anchor.subject, representation_id |-> anchor.representation_id,
                  record |-> RecordOf(anchor)]]
          /\ Return("save_anchor", "ok")
       \/ /\ representations[anchor.representation_id] = None
          /\ Return("save_anchor", "err")
          /\ UNCHANGED anchors
    /\ UNCHANGED <<captures, representations, alterations>>

\* AnchorRecord::into_anchor against the checked representation.
AnchorOf(record, rep) ==
    [anchor_id |-> record.anchor_id, subject |-> record.subject,
     capture_id |-> record.capture, representation_id |-> record.representation,
     selector |-> IF record.selector = None THEN None
                  ELSE [representation_id |-> record.representation,
                        exact |-> record.selector.exact, context |-> record.selector.context],
     source_uri |-> record.source_uri, codec |-> rep.codec, kind |-> record.kind]

Loads(a) ==
    LET row == anchors[a]
        rep == Recomputed(representations[row.representation_id])
        anchor == AnchorOf(row.record, rep)
    IN /\ CheckedRepresentation(row.representation_id)
       /\ row.record.selector # None => rep.text[row.record.selector.exact] # None
       /\ anchor.anchor_id = a
       /\ anchor.subject = row.subject
       /\ anchor.representation_id = row.representation_id
       /\ VerifyAnchor(anchor, rep)

\* load_anchor: revalidates everything before it answers.
LoadAnchor(p, a) ==
    /\ saving[p] = None
    /\ reply' =
         IF anchors[a] = None THEN Answer("load_anchor", "none", None)
         ELSE IF Loads(a)
         THEN Answer("load_anchor", "ok",
                     AnchorOf(anchors[a].record,
                              Recomputed(representations[anchors[a].representation_id])))
         ELSE Answer("load_anchor", "err", None)
    /\ UNCHANGED <<captures, representations, anchors, saving, alterations>>

\* A process dies between its check and its write, and starts again.
Restart(p) ==
    /\ saving[p] # None
    /\ saving' = [saving EXCEPT ![p] = None]
    /\ UNCHANGED <<captures, representations, anchors, alterations, reply>>

\* An anchor row's index columns, or its record, altered.
AlterIndex(a, r, s) ==
    /\ anchors[a] # None
    /\ anchors' = [anchors EXCEPT ![a] =
           [subject |-> s, representation_id |-> r, record |-> anchors[a].record]]

AlterRecord(a, r, sel, k) ==
    LET old == anchors[a].record
    IN /\ anchors[a] # None
       /\ anchors' = [anchors EXCEPT ![a] =
              [subject |-> anchors[a].subject,
               representation_id |-> anchors[a].representation_id,
               record |-> [anchor_id |-> old.anchor_id, subject |-> old.subject,
                           capture |-> old.capture, representation |-> r, selector |-> sel,
                           source_uri |-> old.source_uri, kind |-> k]]]

\* The file is altered outside the program, one row at a time, foreign keys off.
Alter ==
    /\ alterations < scenario.alterations
    /\ alterations' = alterations + 1
    /\ \/ /\ \E c \in CaptureId, row \in {StoredRow(w) : w \in scenario.captured} \cup {None} :
                captures' = [captures EXCEPT ![c] = row]
          /\ UNCHANGED <<representations, anchors>>
       \/ /\ \E r \in Representation, row \in WebRepresentationRow \cup {None} :
                representations' = [representations EXCEPT ![r] = row]
          /\ UNCHANGED <<captures, anchors>>
       \/ /\ \E a \in AnchorId, r \in Representation, s \in Subject : AlterIndex(a, r, s)
          /\ UNCHANGED <<captures, representations>>
       \/ /\ \E a \in AnchorId, r \in Representation,
                sel \in SelectorRecord \cup {None}, k \in AnchorKind : AlterRecord(a, r, sel, k)
          /\ UNCHANGED <<captures, representations>>
    /\ UNCHANGED <<saving, reply>>

Step(p) ==
    \/ \E c \in scenario.captured : LookupCapture(p, c) \/ InsertCapture(p, c)
    \/ \E r \in Representation : SaveRepresentation(p, r)
    \/ \E a \in AnchorId, s \in Subject, c \in scenario.captured, r \in Representation,
            sel \in Selector \cup {None}, k \in AnchorKind : CheckAnchor(p, a, s, c, r, sel, k)
    \/ saving[p] \in EvidenceAnchor /\ WriteAnchor(p, saving[p])
    \/ \E a \in AnchorId : LoadAnchor(p, a)
    \/ Restart(p)

Next ==
    /\ (\E p \in scenario.running : Step(p)) \/ Alter
    /\ UNCHANGED scenario

Spec == Init /\ [][Next]_vars

(***************************************************************************)
(* Properties                                                              *)
(***************************************************************************)
\* Whatever was done to the file, an anchor that load_anchor returns quotes
\* text its content-addressed representation really contains, in the context
\* it claims, under the codec that produced it, and names the capture it came
\* from: any alteration that would change this is answered with an error.
LoadedAnchorsAuthentic ==
    reply.op = "load_anchor" /\ reply.kind = "ok" =>
        LET anchor == reply.anchor
            rep == anchor.representation_id
        IN /\ anchor.capture_id = rep.raw
           /\ anchor.codec = rep.codec
           /\ anchor.selector = None => anchor.kind = "WholeDocument"
           /\ anchor.selector # None =>
                /\ anchor.selector.representation_id = rep
                /\ rep.text[anchor.selector.exact] # None
                /\ ValidContext(anchor.selector, rep.text)

\* Left alone, the store always gives back what save_anchor accepted: every
\* stored anchor passes every check of load_anchor, in spite of concurrent
\* saves of the same captures, representations and anchors.
StoredAnchorsLoad ==
    alterations = 0 => \A a \in AnchorId : anchors[a] # None => Loads(a)

\* The provenance first recorded for some bytes stays: no save, racing or
\* repeated, replaces a stored capture row.
CapturesKeepProvenance ==
    [][\A c \in CaptureId : captures[c] # None /\ alterations' = alterations
            => captures'[c] = captures[c]]_vars
==============================================================================
