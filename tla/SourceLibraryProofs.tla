------------------------- MODULE SourceLibraryProofs -------------------------
(***************************************************************************)
(* Theorems of SourceLibrary for every set of identities, representations, *)
(* licences and stamps.  The inductive invariant is the conjunction of the *)
(* type invariant, the agreement of the derived index, the grounding of    *)
(* the admitted spans and the licensing of what the last request released. *)
(***************************************************************************)
EXTENDS SourceLibrary, WellFoundedInduction, TLAPS

IInv == TypeOK /\ IndexAgrees /\ SpansGrounded /\ QuotationsLicensed

\* What a call that releases nothing returns is a well-typed answer without
\* quotations.
LEMMA OutcomeReleasesNothing ==
    ASSUME NEW kind \in {"none", "ok", "err", "quotations"}
    PROVE  /\ Outcome(kind) \in Reply
           /\ DOMAIN Outcome(kind).quotes = {}
<1>1. <<>> \in Seq(Quotation)
  OBVIOUS
<1>2. Outcome(kind).quotes = <<>> /\ DOMAIN <<>> = {}
  BY DEF Outcome
<1>3. QED
  BY <1>1, <1>2 DEF Outcome, Reply

\* The rebuilt index has an entry for every edition identity.
LEMMA IndexOfType ==
    ASSUME NEW eds, NEW sps
    PROVE  IndexOf(eds, sps) \in [EditionId -> SUBSET SpanId]
BY DEF IndexOf

\* A supplied import request describes a well-typed edition.
LEMMA ImportedEdition ==
    ASSUME NEW r \in SuppliedRepresentation, NEW l \in LicencePolicy, NEW x \in Stamp \cup {None}
    PROVE  [representation_id |-> r.content_id, text |-> r.text,
            licence |-> l, expires_at |-> x] \in SourceEdition
BY SuppliedRepresentationAssumption, LicenceAssumption, StampAssumption DEF SourceEdition

\* A non-empty set of positions of a finite sequence has a last one.
LEMMA LastPosition ==
    ASSUME NEW n \in Nat, NEW S, S \subseteq 1..n, S # {}
    PROVE  \E m \in S : \A i \in S : i <= m
<1> DEFINE T == {n - i : i \in S}
<1>1. T \subseteq Nat /\ T # {}
  <2>1. \A i \in S : n - i \in Nat
    OBVIOUS
  <2>2. PICK i \in S : TRUE
    OBVIOUS
  <2>3. n - i \in T
    BY <2>2
  <2>4. QED
    BY <2>1, <2>3
<1>2. PICK t \in T : \A u \in T : ~(<<u, t>> \in OpToRel(<, Nat))
  <2> HIDE DEF T
  <2> QED BY <1>1, NatLessThanWellFounded, WFMin
<1>3. \A u \in T : ~(u < t)
  BY <1>1, <1>2 DEF OpToRel
<1>4. PICK m \in S : t = n - m
  OBVIOUS
<1>5. \A i \in S : ~(n - i < n - m)
  BY <1>3, <1>4
<1>6. QED
  BY <1>5

\* The initial library satisfies the inductive invariant.
LEMMA InitIInv == LibraryInit => IInv
<1> SUFFICES ASSUME LibraryInit PROVE IInv
  OBVIOUS
<1>1. answer \in Reply /\ DOMAIN answer.quotes = {}
  BY OutcomeReleasesNothing DEF LibraryInit
<1>2. TypeOK
  BY <1>1 DEF LibraryInit, TypeOK
<1>3. IndexAgrees
  BY DEF LibraryInit, IndexAgrees, IndexOf
<1>4. SpansGrounded
  BY DEF LibraryInit, SpansGrounded
<1>5. QuotationsLicensed
  BY <1>1 DEF QuotationsLicensed
<1>6. QED
  BY <1>2, <1>3, <1>4, <1>5 DEF IInv

\* A refused call changes nothing but the answer.
LEMMA RefuseIInv == IInv /\ Refuse => IInv'
<1> SUFFICES ASSUME IInv, Refuse PROVE IInv'
  OBVIOUS
<1>1. answer' \in Reply /\ DOMAIN answer'.quotes = {}
  BY OutcomeReleasesNothing DEF Refuse
<1>2. QED
  BY <1>1 DEF IInv, Refuse, TypeOK, IndexAgrees, SpansGrounded, QuotationsLicensed

\* Importing fresh material, or repeating an import, keeps every span grounded:
\* no span names an edition that was absent.
LEMMA ImportIInv ==
    ASSUME NEW id \in EditionId, NEW r \in SuppliedRepresentation,
           NEW l \in LicencePolicy, NEW x \in Stamp \cup {None},
           IInv, Import(id, r, l, x)
    PROVE  IInv'
<1> DEFINE edition == [representation_id |-> r.content_id, text |-> r.text,
                       licence |-> l, expires_at |-> x]
<1>1. edition \in SourceEdition /\ edition # None
  BY ImportedEdition, LibraryNoneAssumption
<1> HIDE DEF edition
<1>2. CASE /\ editions[id] = None
           /\ editions' = [editions EXCEPT ![id] = edition]
           /\ spans_by_edition' = IndexOf(editions', spans)
           /\ answer' = Outcome("ok")
           /\ UNCHANGED <<spans, annotations>>
  <2>1. answer' \in Reply /\ DOMAIN answer'.quotes = {}
    BY <1>2, OutcomeReleasesNothing
  <2>2. TypeOK'
    BY <1>1, <1>2, <2>1, IndexOfType DEF IInv, TypeOK
  <2>3. IndexAgrees'
    BY <1>2 DEF IndexAgrees
  <2>4. SpansGrounded'
    BY <1>1, <1>2 DEF IInv, TypeOK, SpansGrounded, SourceSpan
  <2>5. QuotationsLicensed'
    BY <2>1 DEF QuotationsLicensed
  <2>6. QED
    BY <2>2, <2>3, <2>4, <2>5 DEF IInv
<1>3. CASE /\ answer' = Outcome("ok")
           /\ UNCHANGED <<editions, spans, annotations, spans_by_edition>>
  <2>1. answer' \in Reply /\ DOMAIN answer'.quotes = {}
    BY <1>3, OutcomeReleasesNothing
  <2>2. QED
    BY <1>3, <2>1 DEF IInv, TypeOK, IndexAgrees, SpansGrounded, QuotationsLicensed
<1>4. CASE Refuse
  BY <1>4, RefuseIInv
<1>5. QED
  BY <1>2, <1>3, <1>4 DEF Import, edition

\* An admitted span verifies against the material its edition holds.
LEMMA AdmitSpanIInv ==
    ASSUME NEW e \in EditionId, NEW id \in SpanId,
           NEW sel \in EvidenceSelector, NEW r \in SuppliedRepresentation,
           IInv, AdmitSpan(e, id, sel, r)
    PROVE  IInv'
<1>1. CASE /\ Admissible(e, id, sel, r)
           /\ spans' = [spans EXCEPT ![id] = [edition_id |-> e, selector |-> sel]]
           /\ spans_by_edition' = IndexOf(editions, spans')
           /\ answer' = Outcome("ok")
           /\ UNCHANGED <<editions, annotations>>
  <2>1. answer' \in Reply /\ DOMAIN answer'.quotes = {}
    BY <1>1, OutcomeReleasesNothing
  <2>2. [edition_id |-> e, selector |-> sel] \in SourceSpan
    BY DEF SourceSpan
  <2>3. TypeOK'
    BY <1>1, <2>1, <2>2, IndexOfType DEF IInv, TypeOK
  <2>4. IndexAgrees'
    BY <1>1 DEF IndexAgrees, IndexOf
  <2>5. SpansGrounded'
    BY <1>1, <2>2 DEF IInv, TypeOK, SpansGrounded, SourceSpan, Admissible, SelectorVerifies
  <2>6. QuotationsLicensed'
    BY <2>1 DEF QuotationsLicensed
  <2>7. QED
    BY <2>3, <2>4, <2>5, <2>6 DEF IInv
<1>2. CASE Refuse
  BY <1>2, RefuseIInv
<1>3. QED
  BY <1>1, <1>2 DEF AdmitSpan

\* Annotating touches neither sources nor spans.
LEMMA AnnotateIInv ==
    ASSUME NEW id \in AnnotationId, NEW s \in SpanId, IInv, Annotate(id, s)
    PROVE  IInv'
<1>1. CASE /\ annotations' = [annotations EXCEPT ![id] = s]
           /\ answer' = Outcome("ok")
           /\ UNCHANGED <<editions, spans, spans_by_edition>>
  <2>1. answer' \in Reply /\ DOMAIN answer'.quotes = {}
    BY <1>1, OutcomeReleasesNothing
  <2>2. TypeOK'
    BY <1>1, <2>1 DEF IInv, TypeOK
  <2>3. QED
    BY <1>1, <2>1, <2>2 DEF IInv, IndexAgrees, SpansGrounded, QuotationsLicensed
<1>2. CASE Refuse
  BY <1>2, RefuseIInv
<1>3. QED
  BY <1>1, <1>2 DEF Annotate

\* Removing an edition takes every span that stood on it.
LEMMA RemoveIInv ==
    ASSUME NEW e \in EditionId, IInv, Remove(e)
    PROVE  IInv'
<1>1. answer' \in Reply /\ DOMAIN answer'.quotes = {}
  BY OutcomeReleasesNothing DEF Remove
<1>2. TypeOK'
  BY <1>1, IndexOfType DEF IInv, TypeOK, Remove, SpansWithout
<1>3. IndexAgrees'
  BY DEF Remove, IndexAgrees, IndexOf
<1>4. SpansGrounded'
  BY DEF IInv, TypeOK, Remove, SpansWithout, SpansGrounded, SourceSpan
<1>5. QuotationsLicensed'
  BY <1>1 DEF QuotationsLicensed
<1>6. QED
  BY <1>2, <1>3, <1>4, <1>5 DEF IInv

\* A released request is licensed: the total it takes from an edition is the
\* running total the loop checked at that edition's last passage.
LEMMA ReleasedTotal ==
    ASSUME NEW n \in Nat, NEW quotes, DOMAIN quotes = 1..n, NEW i \in 1..n
    PROVE  \E m \in 1..n :
              /\ quotes[m].edition_id = quotes[i].edition_id
              /\ ExportedFrom(quotes, quotes[i].edition_id) = Used(quotes, m)
<1> DEFINE S == {j \in 1..n : quotes[j].edition_id = quotes[i].edition_id}
<1>1. S \subseteq 1..n /\ S # {}
  OBVIOUS
<1>2. PICK m \in S : \A j \in S : j <= m
  <2> HIDE DEF S
  <2> QED BY <1>1, LastPosition
<1>3. {j \in 1..m : quotes[j].edition_id = quotes[m].edition_id} = S
  BY <1>2
<1>4. {j \in DOMAIN quotes : quotes[j].edition_id = quotes[i].edition_id} = S
  OBVIOUS
<1>5. QED
  BY <1>2, <1>3, <1>4 DEF ExportedFrom, Used

\* A quotation request leaves the library alone; what it releases is licensed.
LEMMA QuoteIInv ==
    ASSUME NEW ids \in Requests, NEW now \in Stamp, NEW export \in BOOLEAN,
           IInv, Quote(ids, now, export)
    PROVE  IInv'
<1> DEFINE out == [i \in DOMAIN ids |-> QuotationOf(ids[i])]
           granted == /\ \A i \in DOMAIN ids : spans[ids[i]] # None
                      /\ \A i \in DOMAIN ids : Releasable(out, i, now, export)
<1>1. UNCHANGED <<editions, spans, annotations, spans_by_edition>>
  BY DEF Quote
<1>2. PICK n \in Nat : ids \in [1..n -> SpanId]
  BY RequestAssumption DEF Requests
<1>3. CASE ~granted
  <2>1. answer' \in Reply /\ DOMAIN answer'.quotes = {}
    BY <1>3, OutcomeReleasesNothing DEF Quote
  <2>2. QED
    BY <1>1, <2>1 DEF IInv, TypeOK, IndexAgrees, SpansGrounded, QuotationsLicensed
<1>4. CASE granted
  <2>1. /\ answer'.quotes = out
        /\ answer'.for_export = export
        /\ answer' = [kind |-> "quotations", quotes |-> out,
                     checked_at |-> now, for_export |-> export]
    BY <1>4 DEF Quote
  <2>2. /\ DOMAIN out = 1..n
        /\ \A i \in 1..n :
              /\ out[i] = QuotationOf(ids[i])
              /\ ids[i] \in SpanId
              /\ spans[ids[i]] \in SourceSpan
    BY <1>2, <1>4 DEF IInv, TypeOK
  <2>3. \A i \in 1..n : out[i] \in Quotation
    BY <2>2 DEF QuotationOf, Quotation, SourceSpan, EvidenceSelector
  <2>4. out \in Seq(Quotation)
    <3>1. out \in [1..n -> Quotation]
      BY <2>2, <2>3
    <3> HIDE DEF out
    <3>2. QED
      BY <3>1
  <2>5. now \in Stamps
    BY StampAssumption
  <2>6. answer' \in Reply
    BY <2>1, <2>4, <2>5 DEF Reply
  <2>7. ASSUME NEW i \in 1..n
        PROVE  /\ editions[out[i].edition_id] # None
               /\ out[i].text \in editions[out[i].edition_id].text
    BY <1>4, <2>2 DEF IInv, SpansGrounded, QuotationOf
  <2>8. \A i \in 1..n : Releasable(out, i, now, export)
    BY <1>2, <1>4
  <2>9. ASSUME NEW i \in 1..n
        PROVE  ExportedFrom(out, out[i].edition_id)
                  <= editions[out[i].edition_id].licence.max_export_chars
    <3>1. PICK m \in 1..n : /\ out[m].edition_id = out[i].edition_id
                            /\ ExportedFrom(out, out[i].edition_id) = Used(out, m)
      <4> HIDE DEF out
      <4> QED BY <2>2, ReleasedTotal
    <3>2. Used(out, m) <= editions[out[m].edition_id].licence.max_export_chars
      BY <2>8 DEF Releasable
    <3>3. QED
      BY <3>1, <3>2
  <2>10. QuotationsLicensed'
    <3> HIDE DEF out
    <3>1. \A i \in 1..n :
             /\ Chars[out[i].text] <= editions[out[i].edition_id].licence.max_quote_chars
             /\ export => editions[out[i].edition_id].licence.permits_export
      BY <2>8 DEF Releasable
    <3>2. ASSUME NEW i \in DOMAIN out
          PROVE  LET edition == editions'[out[i].edition_id]
                 IN /\ edition # None
                    /\ out[i].text \in edition.text
                    /\ Chars[out[i].text] <= edition.licence.max_quote_chars
                    /\ ExportedFrom(out, out[i].edition_id) <= edition.licence.max_export_chars
                    /\ export => edition.licence.permits_export
      BY <1>1, <2>2, <2>7, <2>9, <3>1
    <3>3. QED
      BY <2>1, <3>2 DEF QuotationsLicensed
  <2>11. QED
    BY <1>1, <2>6, <2>10 DEF IInv, TypeOK, IndexAgrees, SpansGrounded
<1>5. QED
  BY <1>3, <1>4

\* Every step of the library keeps the inductive invariant.
LEMMA NextIInv == IInv /\ [LibraryNext]_libraryVars => IInv'
<1> SUFFICES ASSUME IInv, [LibraryNext]_libraryVars PROVE IInv'
  OBVIOUS
<1>1. ASSUME NEW id \in EditionId, NEW r \in SuppliedRepresentation, NEW l \in LicencePolicy,
             NEW x \in Stamp \cup {None}, Import(id, r, l, x)
      PROVE  IInv'
  BY <1>1, ImportIInv
<1>2. ASSUME NEW e \in EditionId, NEW id \in SpanId, NEW sel \in EvidenceSelector,
             NEW r \in SuppliedRepresentation, AdmitSpan(e, id, sel, r)
      PROVE  IInv'
  BY <1>2, AdmitSpanIInv
<1>3. ASSUME NEW id \in AnnotationId, NEW s \in SpanId, Annotate(id, s)
      PROVE  IInv'
  BY <1>3, AnnotateIInv
<1>4. ASSUME NEW e \in EditionId, Remove(e)
      PROVE  IInv'
  BY <1>4, RemoveIInv
<1>5. ASSUME NEW ids \in Requests, NEW now \in Stamp, NEW export \in BOOLEAN,
             Quote(ids, now, export)
      PROVE  IInv'
  BY <1>5, QuoteIInv
<1>6. CASE RebuildIndexes
  <2>1. answer' \in Reply /\ DOMAIN answer'.quotes = {}
    BY <1>6, OutcomeReleasesNothing DEF RebuildIndexes
  <2>2. QED
    BY <1>6, <2>1, IndexOfType
       DEF IInv, RebuildIndexes, TypeOK, IndexAgrees, SpansGrounded, QuotationsLicensed
<1>7. CASE UNCHANGED libraryVars
  BY <1>7 DEF libraryVars, IInv, TypeOK, IndexAgrees, SpansGrounded, QuotationsLicensed
<1>8. QED
  BY <1>1, <1>2, <1>3, <1>4, <1>5, <1>6, <1>7 DEF LibraryNext

\* The inductive invariant holds in every reachable state.
THEOREM LibraryInvariant == LibrarySpec => []IInv
BY InitIInv, NextIInv, PTL DEF LibrarySpec

\* Type correctness of the library (reading.rs:131-136) for all constants.
THEOREM LibraryTypeOK == LibrarySpec => []TypeOK
<1>1. IInv => TypeOK
  BY DEF IInv
<1>2. QED
  BY <1>1, LibraryInvariant, PTL

\* The derived index always answers what the authoritative maps say.
THEOREM LibraryIndexAgrees == LibrarySpec => []IndexAgrees
<1>1. IInv => IndexAgrees
  BY DEF IInv
<1>2. QED
  BY <1>1, LibraryInvariant, PTL

\* No sequence of imports, removals and admissions leaves an admitted span
\* whose selector does not verify against its edition's current text.
THEOREM LibrarySpansGrounded == LibrarySpec => []SpansGrounded
<1>1. IInv => SpansGrounded
  BY DEF IInv
<1>2. QED
  BY <1>1, LibraryInvariant, PTL

\* Every released quotation is text of its edition, within the ceilings of its
\* licence, and exported only where the licence permits it.
THEOREM LibraryQuotationsLicensed == LibrarySpec => []QuotationsLicensed
<1>1. IInv => QuotationsLicensed
  BY DEF IInv
<1>2. QED
  BY <1>1, LibraryInvariant, PTL

\* What is behind a present edition identity never changes.
THEOREM LibraryEditionsImmutable == LibrarySpec => EditionsImmutable
<1>1. IInv /\ [LibraryNext]_libraryVars =>
        [\A e \in EditionId : editions[e] # None => editions'[e] \in {editions[e], None}]_libraryVars
  BY DEF IInv, TypeOK, LibraryNext, Import, AdmitSpan, Annotate, Remove, Quote, RebuildIndexes, Refuse
<1>2. QED
  BY <1>1, LibraryInvariant, PTL DEF LibrarySpec, EditionsImmutable

(***************************************************************************)
(* Removal                                                                 *)
(***************************************************************************)
RemovalOrphans ==
    \A e \in EditionId : editions[e] # None /\ editions'[e] = None =>
        \A a \in AnnotationId : annotations[a] # None =>
            /\ annotations'[a] = annotations[a]
            /\ (a \in OrphanedAnnotations') <=>
                  (a \in OrphanedAnnotations \/ spans[annotations[a]].edition_id = e)

\* Only remove takes an edition away.
LEMMA OnlyRemoveRemoves ==
    ASSUME IInv, [LibraryNext]_libraryVars, NEW e \in EditionId, editions[e] # None, editions'[e] = None
    PROVE  Remove(e)
<1>1. ASSUME NEW id \in EditionId, NEW r \in SuppliedRepresentation, NEW l \in LicencePolicy,
             NEW x \in Stamp \cup {None}, Import(id, r, l, x)
      PROVE  FALSE
  <2>1. [representation_id |-> r.content_id, text |-> r.text, licence |-> l, expires_at |-> x] # None
    BY ImportedEdition, LibraryNoneAssumption
  <2> QED BY <1>1, <2>1 DEF Import, Refuse, IInv, TypeOK
<1>2. ASSUME NEW f \in EditionId, Remove(f) PROVE f = e
  BY <1>2 DEF Remove, IInv, TypeOK
<1>3. ~UNCHANGED editions
  OBVIOUS
<1> QED BY <1>1, <1>2, <1>3 DEF LibraryNext, AdmitSpan, Annotate, Quote, RebuildIndexes, Refuse, libraryVars

LEMMA RemoveOrphans ==
    ASSUME IInv, NEW e \in EditionId, Remove(e), editions[e] # None,
           NEW a \in AnnotationId, annotations[a] # None
    PROVE  /\ annotations'[a] = annotations[a]
           /\ (a \in OrphanedAnnotations') <=>
                 (a \in OrphanedAnnotations \/ spans[annotations[a]].edition_id = e)
<1> DEFINE s == annotations[a]
<1>1. s \in SpanId /\ annotations' = annotations
  BY DEF IInv, TypeOK, Remove
<1>2. spans'[s] = IF spans[s] # None /\ spans[s].edition_id = e THEN None ELSE spans[s]
  BY <1>1 DEF Remove, SpansWithout
<1>3. (a \in OrphanedAnnotations) <=> spans[s] = None
  BY DEF OrphanedAnnotations
<1>4. (a \in OrphanedAnnotations') <=> spans'[s] = None
  BY <1>1 DEF OrphanedAnnotations
<1> QED BY <1>1, <1>2, <1>3, <1>4

\* Removing an edition orphans the annotations on its spans, no others, and
\* loses none (remove, reading.rs).
THEOREM LibraryRemovalOrphans == LibrarySpec => RemovalOrphansAnnotations
<1>1. IInv /\ [LibraryNext]_libraryVars => RemovalOrphans
  BY OnlyRemoveRemoves, RemoveOrphans DEF RemovalOrphans
<1>2. RemovalOrphans => [RemovalOrphans]_libraryVars
  OBVIOUS
<1> QED BY <1>1, LibraryInvariant, PTL DEF LibrarySpec, RemovalOrphansAnnotations, RemovalOrphans
==============================================================================
