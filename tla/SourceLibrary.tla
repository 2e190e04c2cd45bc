---------------------------- MODULE SourceLibrary ----------------------------
(***************************************************************************)
(* The offline source library of sim-lib-doc-web (reading.rs): editions of *)
(* supplied sources, the spans admitted against them, the annotations made *)
(* on spans, and the quotations the library releases under each edition's  *)
(* licence.  One client calls it through &mut self, so every method is one *)
(* atomic action; what makes it hard is the order of legal calls: import,  *)
(* admission, annotation, removal, re-import and re-admission of the same  *)
(* identities.                                                             *)
(*                                                                         *)
(* A text is abstracted to the set of passages that occur in it, a         *)
(* selector to the representation it was taken from and its exact passage. *)
(* Locator, policy name and checked_at are left out of an edition: they    *)
(* only take part in the equality test of a re-import, as the licence and  *)
(* the expiry do here.                                                     *)
(***************************************************************************)
EXTENDS Integers, Sequences, Functions, Options

CONSTANTS
    EditionId, SpanId, AnnotationId,
    ContentId,        \* content identities of representations
    Exact,            \* exact texts a selector can name
    SuppliedRepresentation, \* the WebRepresentation values callers supply
    LicencePolicy,    \* the licences callers supply
    Stamp,            \* RFC 3339 texts supplied as instants
    MaxRequest,       \* bound on the spans named by one quotation request
    Chars             \* exact text -> its number of Unicode scalar values

Texts == SUBSET Exact
Licences == [max_quote_chars: Nat, max_export_chars: Nat, permits_export: BOOLEAN]

\* A stamp is a text; `text` is its rank in string order, `instant` the
\* moment it denotes.  The two orders agree when all stamps share an offset.
Stamps == [text: Int, instant: Int]

ASSUME SuppliedRepresentationAssumption ==
    SuppliedRepresentation \subseteq [content_id: ContentId, text: Texts]
ASSUME LicenceAssumption == LicencePolicy \subseteq Licences
ASSUME StampAssumption == Stamp \subseteq Stamps
ASSUME RequestAssumption == MaxRequest \in Nat
ASSUME CharsAssumption == Chars \in [Exact -> Nat]

EvidenceSelector == [representation_id: ContentId, exact: Exact]
SourceEdition == [representation_id: ContentId, text: Texts,
                  licence: Licences, expires_at: Stamps \cup {None}]
SourceSpan == [edition_id: EditionId, selector: EvidenceSelector]
Quotation == [edition_id: EditionId, span_id: SpanId, text: Exact]
Reply == [kind: {"none", "ok", "err", "quotations"}, quotes: Seq(Quotation),
          checked_at: Stamps \cup {None}, for_export: BOOLEAN]

ASSUME LibraryNoneAssumption ==
    /\ None \notin SourceEdition
    /\ None \notin SourceSpan
    /\ None \notin Stamps
    /\ None \notin SpanId

VARIABLES
    editions,          \* BTreeMap<EditionId, SourceEdition>
    spans,             \* BTreeMap<SpanId, SourceSpan>
    annotations,       \* annotation id -> the span it targets
    spans_by_edition,  \* the derived index
    answer             \* what the last call returned

libraryVars == <<editions, spans, annotations, spans_by_edition, answer>>

Outcome(kind) ==
    [kind |-> kind, quotes |-> <<>>, checked_at |-> None, for_export |-> FALSE]

Refuse == answer' = Outcome("err") /\ UNCHANGED <<editions, spans, annotations, spans_by_edition>>

\* rebuild_indexes: the index over the given authoritative maps.
IndexOf(eds, sps) ==
    [e \in EditionId |->
        {s \in SpanId : sps[s] # None /\ sps[s].edition_id = e /\ eds[e] # None}]

LibraryInit ==
    /\ editions = [e \in EditionId |-> None]
    /\ spans = [s \in SpanId |-> None]
    /\ annotations = [a \in AnnotationId |-> None]
    /\ spans_by_edition = [e \in EditionId |-> {}]
    /\ answer = Outcome("none")

CeilingsValid(licence) ==
    licence.max_quote_chars # 0 /\ licence.max_export_chars >= licence.max_quote_chars

\* Mutant of Import: the map insert without the test for an existing edition.
ImportOverwrites(id, representation, licence, expires_at) ==
    /\ CeilingsValid(licence)
    /\ editions' = [editions EXCEPT ![id] =
                        [representation_id |-> representation.content_id,
                         text |-> representation.text,
                         licence |-> licence, expires_at |-> expires_at]]
    /\ spans_by_edition' = IndexOf(editions', spans)
    /\ answer' = Outcome("ok")
    /\ UNCHANGED <<spans, annotations>>

\* import: an edition identity names the same material for as long as it is
\* present; repeating the import is harmless, changing it is refused.
Import(id, representation, licence, expires_at) ==
    LET edition == [representation_id |-> representation.content_id,
                    text |-> representation.text,
                    licence |-> licence, expires_at |-> expires_at]
    IN \/ /\ CeilingsValid(licence)
          /\ editions[id] = None
          /\ editions' = [editions EXCEPT ![id] = edition]
          /\ spans_by_edition' = IndexOf(editions', spans)
          /\ answer' = Outcome("ok")
          /\ UNCHANGED <<spans, annotations>>
       \/ /\ CeilingsValid(licence)
          /\ editions[id] = edition
          /\ answer' = Outcome("ok")
          /\ UNCHANGED <<editions, spans, annotations, spans_by_edition>>
       \/ /\ ~CeilingsValid(licence) \/ editions[id] \notin {None, edition}
          /\ Refuse

\* EvidenceSelector::verify of sim-lib-web-core: the selector was taken from
\* this representation and its exact text is still there.
SelectorVerifies(selector, representation) ==
    /\ selector.representation_id = representation.content_id
    /\ selector.exact \in representation.text

\* Mutant of Admissible: the selector is verified against the supplied
\* representation, which is never compared with the edition's own.
AdmissibleUnbound(edition_id, id, selector, representation) ==
    /\ editions[edition_id] # None
    /\ SelectorVerifies(selector, representation)
    /\ spans[id] = None

Admissible(edition_id, id, selector, representation) ==
    /\ editions[edition_id] # None
    /\ editions[edition_id].representation_id = representation.content_id
    /\ editions[edition_id].text = representation.text
    /\ SelectorVerifies(selector, representation)
    /\ spans[id] = None

AdmitSpan(edition_id, id, selector, representation) ==
    \/ /\ Admissible(edition_id, id, selector, representation)
       /\ spans' = [spans EXCEPT ![id] = [edition_id |-> edition_id, selector |-> selector]]
       /\ spans_by_edition' = IndexOf(editions, spans')
       /\ answer' = Outcome("ok")
       /\ UNCHANGED <<editions, annotations>>
    \/ ~Admissible(edition_id, id, selector, representation) /\ Refuse

Annotate(id, span_id) ==
    \/ /\ spans[span_id] # None
       /\ annotations[id] = None
       /\ annotations' = [annotations EXCEPT ![id] = span_id]
       /\ answer' = Outcome("ok")
       /\ UNCHANGED <<editions, spans, spans_by_edition>>
    \/ (spans[span_id] = None \/ annotations[id] # None) /\ Refuse

SpansWithout(edition_id) ==
    [s \in SpanId |-> IF spans[s] # None /\ spans[s].edition_id = edition_id
                       THEN None ELSE spans[s]]

\* Mutants of Remove: the index is not rebuilt; the annotations of the removed
\* spans go with them.
RemoveWithoutRebuild(edition_id) ==
    /\ editions' = [editions EXCEPT ![edition_id] = None]
    /\ spans' = SpansWithout(edition_id)
    /\ answer' = Outcome(IF editions[edition_id] # None THEN "ok" ELSE "err")
    /\ UNCHANGED <<annotations, spans_by_edition>>

RemoveCascades(edition_id) ==
    /\ editions' = [editions EXCEPT ![edition_id] = None]
    /\ spans' = SpansWithout(edition_id)
    /\ spans_by_edition' = IndexOf(editions', spans')
    /\ answer' = Outcome(IF editions[edition_id] # None THEN "ok" ELSE "err")
    /\ annotations' = [a \in AnnotationId |->
            IF annotations[a] # None /\ spans'[annotations[a]] = None
            THEN None ELSE annotations[a]]

\* remove: the edition and its spans go, annotations stay.
Remove(edition_id) ==
    /\ editions' = [editions EXCEPT ![edition_id] = None]
    /\ spans' = SpansWithout(edition_id)
    /\ spans_by_edition' = IndexOf(editions', spans')
    /\ answer' = Outcome(IF editions[edition_id] # None THEN "ok" ELSE "err")
    /\ UNCHANGED annotations

\* The expiry test compares the two texts, not the instants they denote.
Stale(edition, checked_at) ==
    edition.expires_at # None /\ checked_at.text >= edition.expires_at.text

Lengths(quotes) == [i \in DOMAIN quotes |-> Chars[quotes[i].text]]

\* Mutant of Used: the export ceiling is applied to each span on its own.
UsedAlone(quotes, i) == Chars[quotes[i].text]

\* The characters the first i quotations take from the edition of the i-th.
Used(quotes, i) ==
    SumFunctionOnSet(Lengths(quotes),
                     {j \in 1..i : quotes[j].edition_id = quotes[i].edition_id})

\* One turn of quote's loop for an admitted span: the i-th may be released.
Releasable(quotes, i, checked_at, for_export) ==
    LET edition == editions[quotes[i].edition_id]
    IN /\ edition # None
       /\ ~Stale(edition, checked_at)
       /\ for_export => edition.licence.permits_export
       /\ Chars[quotes[i].text] <= edition.licence.max_quote_chars
       /\ Used(quotes, i) <= edition.licence.max_export_chars

QuotationOf(span_id) ==
    [edition_id |-> spans[span_id].edition_id, span_id |-> span_id,
     text |-> spans[span_id].selector.exact]

\* quote: any refusal drops the whole request, so it is released in full or
\* not at all.
Quote(span_ids, checked_at, for_export) ==
    LET out == [i \in DOMAIN span_ids |-> QuotationOf(span_ids[i])]
    IN /\ answer' = IF /\ \A i \in DOMAIN span_ids : spans[span_ids[i]] # None
                      /\ \A i \in DOMAIN span_ids : Releasable(out, i, checked_at, for_export)
                   THEN [kind |-> "quotations", quotes |-> out,
                         checked_at |-> checked_at, for_export |-> for_export]
                   ELSE Outcome("err")
       /\ UNCHANGED <<editions, spans, annotations, spans_by_edition>>

\* The public rebuild entry point.
RebuildIndexes ==
    /\ spans_by_edition' = IndexOf(editions, spans)
    /\ answer' = Outcome("ok")
    /\ UNCHANGED <<editions, spans, annotations>>

OrphanedAnnotations ==
    {a \in AnnotationId : annotations[a] # None /\ spans[annotations[a]] = None}

Requests == UNION {[1..n -> SpanId] : n \in 0..MaxRequest}

LibraryNext ==
    \/ \E id \in EditionId, r \in SuppliedRepresentation, l \in LicencePolicy, x \in Stamp \cup {None} :
            Import(id, r, l, x)
    \/ \E e \in EditionId, id \in SpanId, sel \in EvidenceSelector, r \in SuppliedRepresentation :
            AdmitSpan(e, id, sel, r)
    \/ \E id \in AnnotationId, s \in SpanId : Annotate(id, s)
    \/ \E e \in EditionId : Remove(e)
    \/ \E ids \in Requests, now \in Stamp, export \in BOOLEAN : Quote(ids, now, export)
    \/ RebuildIndexes

LibrarySpec == LibraryInit /\ [][LibraryNext]_libraryVars

(***************************************************************************)
(* Properties                                                              *)
(***************************************************************************)
TypeOK ==
    /\ editions \in [EditionId -> SourceEdition \cup {None}]
    /\ spans \in [SpanId -> SourceSpan \cup {None}]
    /\ annotations \in [AnnotationId -> SpanId \cup {None}]
    /\ spans_by_edition \in [EditionId -> SUBSET SpanId]
    /\ answer \in Reply

\* The derived index answers exactly what the authoritative maps say, after
\* every legal sequence of calls: no operation forgets to rebuild it.
IndexAgrees == spans_by_edition = IndexOf(editions, spans)

\* An admitted span always has its edition, and its selector still verifies
\* against the material that edition holds now: removing an edition and
\* importing other material under the same identity never leaves a span that
\* quotes text its edition does not contain.
SpansGrounded ==
    \A s \in SpanId : spans[s] # None =>
        LET edition == editions[spans[s].edition_id]
        IN /\ edition # None
           /\ spans[s].selector.representation_id = edition.representation_id
           /\ spans[s].selector.exact \in edition.text

ExportedFrom(quotes, e) ==
    SumFunctionOnSet(Lengths(quotes), {i \in DOMAIN quotes : quotes[i].edition_id = e})

\* Whatever a quotation request releases is text its edition holds, each
\* passage within the per-quotation ceiling, the request as a whole within
\* the ceiling of every edition it draws on, and an export only from editions
\* whose licence permits it.
QuotationsLicensed ==
    \A i \in DOMAIN answer.quotes :
        LET q == answer.quotes[i]
            edition == editions[q.edition_id]
        IN /\ edition # None
           /\ q.text \in edition.text
           /\ Chars[q.text] <= edition.licence.max_quote_chars
           /\ ExportedFrom(answer.quotes, q.edition_id) <= edition.licence.max_export_chars
           /\ answer.for_export => edition.licence.permits_export

\* No quotation is released past the instant its edition expires
\* (reading.rs:60: "Optional RFC 3339 instant after which admission is stale.").
\* The code compares the two texts, so a stamp with an offset can pass: a
\* violation the run library_offsets shows.
NoStaleQuotation ==
    \A i \in DOMAIN answer.quotes :
        LET expiry == editions[answer.quotes[i].edition_id].expires_at
        IN expiry # None => answer.checked_at.instant <= expiry.instant

\* While an edition identity is present the material behind it, its licence
\* and its expiry never change; only remove ends it.
EditionsImmutable ==
    [][\A e \in EditionId :
            editions[e] # None => editions'[e] \in {editions[e], None}]_libraryVars

\* Removing an edition orphans exactly the annotations that were attached to
\* its spans and loses none: every annotation survives the step, and the ones
\* attached to other editions stay attached.
RemovalOrphansAnnotations ==
    [][\A e \in EditionId : editions[e] # None /\ editions'[e] = None =>
        \A a \in AnnotationId : annotations[a] # None =>
            /\ annotations'[a] = annotations[a]
            /\ (a \in OrphanedAnnotations') <=>
                  (a \in OrphanedAnnotations \/ spans[annotations[a]].edition_id = e)]_libraryVars
=============================================================================
