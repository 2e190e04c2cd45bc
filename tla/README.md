# sim-office: specifications, checks and proofs

TLA+ models of the parts of sim-office that keep state, the TLC runs that check
them on small instances, and TLAPS proofs of what matters most for every
instance. Paths below are relative to `src/crates/` unless they start with
`src/`. "External" means code outside this repository, modelled only from how
the code here uses it: the kernel, the relational layer over SQLite, the
ledger, the incremental engine, the graph crate, web-core, the transport ports,
and the services themselves (Microsoft Graph, SharePoint, the LibreOffice helper).

`tlc -config X.cfg M` checks a run, `tlapm M.tla` a proof module.

## 1. The system

sim-office is a local-first office suite of Rust libraries. Documents are
values; edits to them carry their inverses; a local SQLite store projects what a
host's ledger commits; gated sites reach remote services; and some domains
(sheets, plans, sources, web evidence, ledgers, mail, decks) bring their own
logic. Nothing runs in the background: every library is called by a host.
Concurrency comes from several processes on one store file, helper processes
and remote services; failure from crashes, altered files, lost answers and
deadlines; the rest is the order of legal calls.

| component | state | operations | hard behaviour | modelled in |
|---|---|---|---|---|
| Offline source library (`sim-lib-doc-web/src/reading.rs`) | editions, spans, annotations, a derived index | import, admit_span, annotate, remove, quote, rebuild_indexes, orphaned_annotations | order of calls; ceilings; expiry | `SourceLibrary` |
| Document store (`sim-lib-doc-store/src/store.rs`, `evidence.rs`) | a SQLite file: docs, edit_projection, evidence_facts | create, open_read_only, save_doc, load_doc, project_commit, undo_last, attach, evidence_for | racing creators, crashes, projection out of order | `DocStore`, `DocProjection` |
| Web evidence (`sim-lib-doc-store/src/web.rs`, `sim-lib-doc-web/src/{persistence,anchor,records,capture}.rs`) | web_captures, web_representations, web_evidence_anchors | save_capture, save_representation, save_anchor, load_anchor | check and write in separate transactions; a file altered outside | `WebEvidence` |
| Critical path (`sim-lib-gantt/src/critical.rs`) | local to one call | critical_tasks | cycles, leads, four link kinds | `GanttPlan`, `GanttCritical` |
| Plan store (`sim-lib-gantt/src/local.rs`) | gantt_plans, gantt_tasks, gantt_links | create, save_plan, load_plan | many statements, foreign keys, torn reads | `GanttStore` |
| Sheet formula engine (`sim-lib-sheet/src/formula.rs`) | cells, registered queries, the memos of the engine | set_cell, sync_sheet, eval_formula | stale memos, cycles, missing cells | `SheetEngine` |
| Sheet documents and suite surface (`sim-lib-sheet/src/{model,doc}.rs`, `sim-lib-doc-surface/src/intent.rs`) | a document body; edits built and not yet applied | set_cell_edit, apply_sheet_edit, invert, decode_suite_intent | stale inverses, edits of another domain | `SheetDocument`, `OfficeFiles` |
| Ranges of a workbook (`sim-lib-sheet/src/graph.rs`) | none | read_range, plan_write_range | addresses, exact numbers | `GraphRanges`, `OfficeFiles` |
| OOXML and ODF codecs (`sim-codec-ooxml`, `sim-codec-odf`), decks (`sim-lib-deck`) | none; a file on disk between two calls | encode, decode, each with a fidelity report; the check of a downloaded deck | what one side writes and the other must read, unreported losses, files of other programs | `OfficeText`, `OfficePackages`, `SheetFiles`, `DeckFiles`, `OfficeFiles` |
| ZIP reader (`sim-lib-doc-core/src/zip_package.rs`) | local to one call | read_zip_entries | budgets, declared against actual sizes | `OfficePackages`, `OfficeFiles` |
| Reconciliation review (`sim-lib-doc-ledger/src/reconciliation.rs`) | none; exported files and the ledger journal are external | project_reconciliation_review, export_review_document, import_review_document | outdated or altered reviews, imports repeated, unearned closure | `ReconciliationReview` |
| Ledger drafts and statements (rest of `sim-lib-doc-ledger`) | a map of drafts | pure conversions | none | no |
| Capability gate, document sites (`sim-lib-doc-core/src/{caps,place}.rs`, `sim-lib-doc-site`) | the grants and the registry of a context | register_site, realize_site_op, modeled read, preview_write | what is granted and registered when | `DocSites`, `OfficeSites` |
| Microsoft Graph site, mail (`sim-site-msgraph`, `sim-lib-mail`) | cassettes; the service's drafts | graph_get, graph_post, read_messages, read_calendar_events, create_draft, documents of both | lost, late and garbled answers, retries; times and zones | `GraphClient`, `GraphRecords`, `OfficeSites` |
| SharePoint site (`sim-site-sharepoint`) | the service's lists | list_items, drive_children, REST batches | other authors between reading and writing, late batches | `GraphRecords`, `SharePointRest`, `OfficeSites` |
| LibreOffice site (`sim-site-libreoffice`) | a helper process and its exchange | run_uno | deadlines, budgets, a helper left running | `LibreOfficeHelper`, `OfficeSites` |
| Markup, citations, archive planning, projection ranking, row codec, suite scene | none | pure conversions | none | no: see section 7 |

What makes each correct, in a line:

- *Source library*: spans always quote text their edition holds, the index agrees
  with the maps, what is quoted keeps to the licences, nothing expired is quoted.
- *Document store*: rows are exactly the ledger's commits, nothing committed is
  lost once the store is created, undo goes by ledger order, evidence is complete.
- *Web evidence*: what was accepted loads; what loads is authentic even when
  somebody edited the file; first provenance stays.
- *Critical path*: cycles and nothing else are refused; earliest starts are the
  least schedule; the critical tasks are those without slack.
- *Plan store*: a plan is replaced whole or not at all; loads return saved plans.
- *Formula engine*: memoized answers equal a full recomputation; cycles are reported.
- *Sheet documents*: undoing the last edit restores what it was applied to, and
  only edits of this document in the sheet's own domain change it.
- *Codecs and ranges*: exact values come back; whatever a conversion loses, it loses
  once; an import that reports no loss shows all the file shows; packages are whole.
- *ZIP reader*: never more than the limits and one byte is read, whatever an
  archive declares; what is kept is kept whole.
- *Sites*: a live request leaves only with the capabilities of its site (which holds
  of a helper process and of the Graph client and fails elsewhere, see section
  5); what the host is told of a remote effect is so; readings are faithful or
  refused; no unseen version of a list item is overwritten by a write that names one.
- *Reconciliation review*: only up-to-date reviews become commands, only checked
  decisions reach the journal, and a review shows closure only when earned.

## 2. The modules

`X` is a component, `XProofs` its theorems (`GanttProofs` those of both Gantt
modules), `MCX` the instances TLC checks. `MCEvidence` instantiates the source
library, the web evidence store and the reconciliation review together, and
`MCGantt` both Gantt modules: these share no state in the code, so a run moves one
of them, chosen at the start (`moving`, from the constant `Moves`), while the
others rest, and no interleaving is lost that a property could tell apart. Their
names are kept apart for that (`LibrarySpec`, `ReviewSpec`, `AnalysisSpec`; `Spec` is
the specification of the others). `Options` declares the absent value `None`.
A definition named `... Mutant of D` in a comment is a plausible bug of `D`; no
specification uses it. Each shows that some property notices that bug.

**SourceLibrary** (`reading.rs`). One action per method; `&mut self` makes each
atomic. `editions`, `spans`, `annotations`, `spans_by_edition` are the four maps,
with `None` for an absent entry; `reply` is the returned value. A text is the set
of passages that occur in it; an instant has both its text rank and the moment it
denotes, because the code compares the texts; `NoStaleQuotation` speaks of the
moments, and the code does not keep to it where stamps have different offsets
(section 5, 1). `Import` has three outcomes (new,
repeated, refused), `AdmitSpan` checks the supplied representation against the
edition and the selector against the representation, and `Quote` drops the whole
request at the first refusal.
Whether an annotation's span id may be used again for another span after
`remove` is left open by the code and its docs: the annotation then silently
points at the new span. The model allows it and no property forbids it.

**DocStore** (`store.rs`, `evidence.rs`). `create` is three steps other processes
interleave with: `TestPath` (`path.exists()`), `Truncate`/`WriteEmptyStore` (the
two halves of `std::fs::write`), `Open`. A crash may come anywhere. Each other
method is one transaction of the relational session (external), so one action.
`ledger` is the host's journal, which hands out increasing sequences. u64
sequences and i64 columns are `0..SeqMax` and `0..SignedMax`. A host projects
entries of its ledger again and in any order, and may offer an entry of a foreign
ledger under a sequence that is taken here.
`Settled` says that the file is there and no creator that found the path absent
is still on its way to write it. Until then such a creator erases whatever was
committed since it looked; from then on nothing is lost.
**DocProjection** is the promise: durable snapshots, write-once commit rows,
durable facts, and a reset to nothing only before it has settled. `DocStore`
implements it under `Projection == INSTANCE DocProjection WITH rows <- ...,
settled <- Settled`, which hides files, sessions, ledger and inverses.

**WebEvidence** (`web.rs`, `persistence.rs`, `anchor.rs`, `records.rs`). A content
identity is its content under a constructor, which is what a collision-free
digest means. `save_capture` and `save_anchor` read first (`LookupCapture`,
`CheckAnchor`) and write in another transaction (`InsertCapture`, `WriteAnchor`),
with any other process in between, and `Restart` when the process dies there.
`Alter` changes one row behind the program's back, as the crate's own tests do
with `sqlite3`.

**GanttPlan** holds plans and `validate_plan`, shared by the two Gantt modules; as
`GanttProofs` extends both, `GanttCritical` calls its specification `AnalysisSpec`.
**GanttCritical** (`critical.rs`) runs `critical_tasks` one phase or loop turn at
a time: `Validate`, `EnsureAcyclic`, `PopReady`/`EndSort`, `Forward`, `Backward`.
Kahn's queue is a set popped in any order, so that no result depends on ties.
**GanttStore** (`local.rs`) runs `save_plan` as its statements inside one
transaction (`BeginSave` to `Commit`, or `AbortSave` on a failed statement, an
injected failure or a crash) and `load_plan` as its three queries. `saved` and
`overtaken` are history: the plan last committed, and the loads a save has
overtaken. Creation is the protocol of `DocStore` and is not repeated.

**SheetEngine** (`formula.rs`). `source`, `registered` and `memos` are the shared
source, the registered queries and what the incremental engine (external)
remembers. A formula is what its text makes the evaluator do: the cells it reads
from left to right, what it adds, and whether it fails behind its reads.
`Verified`, `Demanded` and `Invalidated` state the engine's contract: reuse what
is remembered, evaluate the rest, remember every outcome but a cycle, forget
whatever depends on an invalidated cell. `sheet` is history: the cells as the
caller has described them. Nothing else is shared with the outside.

**ReconciliationReview** (`reconciliation.rs`). `ExportReview` projects and
exports, `EditReview` and `AlterReview` are what a human does to the file inside
and outside the edit lane, `ImportReview` compares it with a trusted projection
and decodes its edits, `RecordCommands` is the ledger executing them, and
`RecordDecision` a decision that reaches the ledger by another way, at any time.
The ledger (external) is its journal and its certificates; a host may hold a
certificate of an earlier journal or one that claims a closure. `file.inputs`,
`file.seen`, `file.altered` and `imported.seen` are history. A document shows
neither who decided nor the kind of an approval; `ImportsInformed` says that
comparing documents is nevertheless as good as comparing the decisions behind them.
`CommandsChecked` says of an import that it is all of the file's edits in their
order or nothing: one bad edit of several leaves no command.
Two things the code leaves to the ledger and no property claims: an edit may
reuse the reference of a decision the review already shows (`reconciliation.rs:405`
compares within one import, while line 161 calls the reference new), and a
candidate shows the first decision on its evidence (line 264), so that one
deferred first and accepted later stays deferred next to accepted rows.

**OfficeFiles** composes what a host does with a sheet or a deck; each behaviour is
of one `scenario`. `Draft`, `Intend`, `Apply` and `Undo` are the edits, built on
one document and applied to another; `Export`, `Receive`, `Download` and `Import`
the file between two conversions; `Open` and `Extract` an archive read entry by
entry. `sent`, `unedited` and `returned` are history. It extends:
- **OfficeText**: how a text of this kind survives XML, spells a number or a truth
  value, and the exact numbers behind it. A text is a name; constants give what
  becomes of it in an element and in an attribute, and what it spells. `IsList`
  and the other `Is...` predicates of these modules say what a value of a Rust
  type, or a file an XML reader can hand over, is.
- **SheetDocument** (`model.rs`, `doc.rs`, `intent.rs`): A1 references in base 26
  without a zero, sparse cells where a blank removes, the document's expression in
  column order, the cell edit with its inverse, and the suite's edit, whose
  inverse is nil. `MaxIndex` is the largest u32.
- **OfficePackages** (`zip_package.rs`, `package.rs` of both codecs): the archive
  loop with its four limits, and the parts and mimetype a package must have.
  `MaxWord` is the largest u64 of the saturating sums.
- **SheetFiles** (`xlsx.rs`, `ods.rs`): both sheet codecs, cell by cell: which of
  formula, value, shared string, inline string and type wins, repeats, covered
  cells, and what the report names.
- **GraphRanges** (`graph.rs` of the sheet library): range addresses, answers of any
  shape, and the plan of a write; carrying the plan out is external.
- **DeckFiles** (`sim-lib-deck`, `pptx.rs`, `pptx/decode.rs`, `odp.rs`): slides and
  blocks, parts, relationships and content types written in four places, and slides
  read back in presentation order, from the document's own marks or, without
  them, from the shapes. `CodecId` has the ids of the two codecs, to which an image
  without a backend is given.

The properties of `OfficeFiles` say what must come back, definition by definition:
`SameExactValues` (every cell with its kind, number, truth value, text or
formula), `SameInRange` (every cell of a range), `SameSlide` and `SameBlock` (ids,
titles, headings, list items, table rows, the addresses of images) and
`IsSlidePart` (which part the i-th slide of a presentation is, from its list of
ids and the relationships, without the code's own `SlidePaths`).

**OfficeSites** composes a host and the services outside it. A call borrows the
context until it is answered, so the host's calls do not overlap, but what a
service does of a call and when is open: `performed` are the calls it has carried
out, `pending` those it still may (`Arrive`), `posted` the batches on their way
(`Deliver`), and `EditItem` is another author. `calls` records the error, what its text is about and the reference: all the host
is told. `log` has what last left the process, by whichever way, beside the
capabilities of its site and those then granted; `shown` the versions the host has
seen. Both are history. It extends:
- **DocSites** (`caps.rs`, `place.rs`, `register.rs`): capabilities, sites, the
  registry that keeps the first of an id, and the gate before each request.
- **GraphClient** (`client.rs`, `modeled.rs`): live and modeled requests, the gate
  and the token of a live one, statuses and bodies, cassettes.
- **GraphRecords** (`graph.rs` of mail and of SharePoint, `model.rs`, `doc.rs` of
  mail): JSON to messages, events, list rows and drive items, with every refusal;
  documents of messages and events and back; drafts.
- **SharePointRest** (`rest.rs`, `batch.rs`): paths, and batches whose writes carry a
  version, `If-Match`.
- **LibreOfficeHelper** (`helper.rs`): the refusals before a command leaves, and the
  receipt for each outcome the process or IPC port reports.

How they interact in the program: hosts hand ledger commits to the document
store (`LedgerCommit` then `ProjectCommit`); web evidence lives in tables of the
same file and relies on the same relational session; the plan store uses the
same creation protocol; the sheet engine reads sheets decoded from documents;
range reads and writes go through the Graph client that the mail and SharePoint
modules share, and site requests through the registry of the context.

## 3. The runs

| run | instance | what it shows |
|---|---|---|
| `evidence` | library: 2 editions, 2 spans, 1 annotation, 2 overlapping texts, 3 licences (one refused), UTC stamps, requests of 2 spans; web: 2 processes, 2 bodies, 2 URIs, unaltered, or 1 process with 1 body and 2 alterations; review: 2 months that share a row, each with its own reviewer, 3 edits of one of them (an acceptance, a split, a deferral), journals and edit lanes of 2, one alteration per file | every sequence of calls keeps index, grounding and licensing; editions change only by removal, which orphans exactly its annotations; stored anchors load, loaded anchors are authentic, provenance stays; accepted imports are up to date and whole, recorded decisions are checked, closure is earned, the lists of a review agree |
| `library_offsets` | the library with 09:00-05:00 and 12:00Z | an edition is quoted two hours after it expired (violation) |
| `docstore` | 2 processes, both creators, 2 documents, an edit and its reverse, sequences 0..2 over columns 0..1, entries of a foreign ledger, 4 evidence values | refinement of `DocProjection`, projection, durability once created, undo order, evidence complete and in order |
| `docstore_crash` | 1 process | a crash in the write leaves a file no later create accepts (violation) |
| `gantt` | analysis: 3 tasks, up to 3 finish-start links, or 2 links of any kind with lead or lag, invalid plans; store: 2 processes, 2 plan ids, 4 plans (one invalid) | exact cycle refusal, topological order, least schedule, zero-slack tasks for finish-start plans; complete snapshots, admitted replacements, loads nobody overtakes |
| `critical_start` | 2 tasks, a start-start link | a critical task is missed (violation) |
| `gantt_torn` | 2 processes, 1 plan id | a load mixes two saved plans (violation) |
| `sheet` | 3 cells, 9 cell values, 2 formulas, 3 sheets | answers and memos equal a full recomputation; cycles are reported exactly |
| `codecs` | 8 scenarios: two edits or intents over 2 cells; edits between ODF trips; 134 sheets, 114 foreign workbooks and 132 foreign ODF sheets, 22 range documents and 144 answers, 58 decks, 612 foreign decks with their slides in any order or twice, 1273 archives of two or three entries around 4 limits | cells, texts and slides come back with all they hold, trips settle, losses are named, packages are closed, undo restores, extraction keeps to its limits and keeps entries whole |
| `sites` | 7 scenarios: 4 sites and all capabilities; 3 drafts, live and modeled, with every fate of a request; 2 helper exchanges by process or IPC; 12 lists of different shapes; 2 batches of up to 2 operations with 3 versions and another author; 1 batch by each carrier to 3 kinds of address; 228 readings | what the host is told is so, readings are faithful, no unseen version is overwritten |
| `sites_ungated` | 1 exchange with the helper over IPC | a command leaves while nothing is granted (violation) |
| `sites_refusals` | valid drafts, made live | a draft that was made is told as an invalid record (violation) |

What the properties leave open, beside what sections 5 and 6 say:

- `CommittedSurvives` has one exception, the race inside `create`, and names the
  steps that may lose something (section 5, 7).
- `CriticalIsZeroSlackInSequence` is about plans of finish-start links without lead;
  `critical_start` is about the others.
- `ExactValuesSurvive` compares texts and formulas with what XML makes of them
  (`OfficeText`), and allows a range to turn a text that spells a number into it.
- `LossesNamed` says of a workbook that each filled cell is filled in the document
  (its values are the business of `ExactValuesSurvive`), and of a slide that its
  blocks are in the document. Shapes beside blocks are lost without being named.
- `OutcomesTrue` takes the errors for what they say. It says nothing after
  `InvalidMail` about the call, `WrongDocBody`, `HelperRefused`, a timeout over IPC and
  `IpcUnavailable`, each of which the code also returns after the effect.
- `NoLostUpdate` is about hosts that write no `If-Match: *` and override no method.
- `ReadingsFaithful` leaves four list fields hidden, those named like a column of the
  item itself or like the version of the fields.
- No property says which of two descriptors registered under one id should win.

**Bounds.** The constants above and `MaxRequest`, `SignedMax`, `SeqMax` and
`scenario.alterations`, `MaxJournal`, `MaxEdits`, `MaxIndex`, `MaxWord`,
`maxEdits`, `maxCalls` and `maxBatches` of a scenario and, in
`ReconciliationReview`, one alteration per file and none of the file's steps
between an import and its recording, and in `OfficeFiles` one archive and at most
one foreign file in a behaviour, are the only bounds. They are chosen so that the
interesting case needs no more: two identities distinguish "this one" from
"another"; three licences cover a request that exceeds each ceiling on its own
and only together; three tasks and cells give chains, cycles of each length up
to three, diamonds through repeated links and a read behind a failing one; two
alterations let one hide the other (an anchor and the representation it
names); a second month and a second decision make a review outdated; sequences
over the column's end give the refused conversion; a largest index of 703 is the
first with three letters, so that references of one, two and three letters and
the overflow all occur; a largest word of 8 lets the sums of an archive saturate;
two edits suffice for one built before the other and applied after it; of two
batches the first can be late, and a second lists the item in between; two equal
drafts are a retry, and the third a repeated one. Editions and spans, which differ in
nothing but their name, are declared a symmetry of `evidence`, whose properties are
all of safety. Where a property is proved, the proof removes the bound.

**Deadlock** is checked in every run; `GanttCritical` idles at the end of a call
by an explicit step. `OfficeFiles` and `OfficeSites` leave the host free to
ask again (an import can be repeated, a context renewed), so they never stop.

**Fairness.** None is assumed and no liveness is claimed. The libraries wait for
nobody and their loops run over finite collections; what remains are calls that
nobody is obliged to make, and services that owe no answer.

## 4. What is proved

For every value of the constants that meets the modules' named assumptions,
over the atomicity and the external contracts stated above:

- `SourceLibraryProofs`: `TypeOK`, `IndexAgrees`, `SpansGrounded`,
  `QuotationsLicensed`, `EditionsImmutable` and `RemovalOrphansAnnotations`. The
  inductive invariant is the conjunction of the first four: grounding needs the
  types, and the release of a quotation needs grounding. The cumulative ceiling is
  the hard part: the code tests a running total at every span, the property speaks
  of the whole request; `ReleasedTotal` shows that the total at the last span of an
  edition is the edition's total.
- `DocStoreProofs`, for any number of processes racing to create the store:
  `ProjectionFollowsLedger` (`IInv == TablesOK /\ ProjectionFollowsLedger`);
  `CommittedSurvives` and `ImplementsProjection`, because only a creator that found
  the path absent erases anything, while it is on its way the store has not
  settled (`CreatesUnsettled`), and nobody unsettles it (`NextSettles`): once the file
  is there, whoever looks for it finds it. `UndoReversesLatest`: of the rows of a
  document one has the greatest sequence, and by `ProjectionFollowsLedger` that row is
  the ledger's last edit of the document among those projected. `EvidenceComplete`:
  facts are finitely many at any moment (`FactsFinite`), and the number of facts
  before it gives each its own place among as many places as there are facts, so
  none is missing or repeated (`PlacesTaken`).
- `WebEvidenceProofs`: `LoadedAnchorsAuthentic` whatever `Alter` does (no state
  invariant is needed: `load_anchor` itself rechecks all it answers), and
  `StoredAnchorsLoad` from `Unaltered`: captures and representations are
  content-addressed and never deleted, so a check that succeeded at
  `save_anchor` stays true until the write and for ever after.
  `CapturesKeepProvenance`: a capture is written only by an insert, which fails
  when another process came first.
- `GanttProofs`, of the analysis: `CyclesRefused`, `OrderTopological`, `EarliestMeetsLinks`,
  `EarliestLeast` and `CriticalIsZeroSlackInSequence`, for plans with any number of
  tasks, links and days of lead or lag. One invariant per phase, each resting on
  those before it: `ControlOK` (what validation established), `SortOK` (what is
  placed is closed under predecessors, and each in-degree counts the links that
  still hold a task back), `ForwardOK` (the links out of the tasks passed are met,
  and no schedule that meets all links starts any task earlier) and `BackwardOK`
  (the tasks passed have their latest start, which no schedule that ends with
  the project exceeds). A sort that is stuck leaves tasks that all wait for one
  another (`StuckEntangled`), and such tasks are what the search for a cycle finds
  (`CyclicEntangled`, `EntangledCyclic`): that is why `UnsortedCycle` is never
  returned. In a plan of sequences the latest start of a task is bounded by the
  project's finish as well, which is what fails in general (section 5, 3).
- `SheetEngineProofs`: `MemosCurrent`, `AnswersCurrent` and `CyclesReported`, for any
  finite grid and any formulas, cyclic ones included. `EngineOK` says that the
  source is the conversion of the cells described, that every filled cell is a
  registered query, and of each memo that it is what a full recomputation gives,
  that it has observed each cell it read, and that what it observed is remembered
  too or is blank. The last is the hard part: `set_cell` forgets what observed a
  cell, and only because no observation leads to something forgotten earlier does
  that reach every memo that rests on the cell (`RemainingCurrent`). `Fixpoint` and `KnownAgrees` show that
  an evaluation which reuses memos agrees with one that does not, whatever cells
  are under evaluation, and `VerifiedIsRecomputed` concludes that the engine's
  verified values are the recomputed ones. A cycle is reported only if the formula
  reaches a cell that reaches itself (`CycleHasLoop`), and if it does and nothing
  stops the evaluation before, a cycle is reported (`LoopIsCycle`).
- `GanttProofs`, of the store: `SnapshotsComplete`, `ReplacementAdmitted`,
  `LoadReturnsSaved`. Between statements the tables of the open transaction are
  partly those of the new plan: `PlanCopied` says how far, `OthersKept` that other
  plans are untouched, and `LoadsConsistent` what a load nobody overtook has read.
- `ReconciliationReviewProofs`: `ImportsInformed`, `CommandsChecked`,
  `DisplayAgrees` and `ClosureEarned`. Equal documents need not come from equal
  decisions; `FileGrounded` says that what a file was written from is a beginning of
  the journal, as long as its list of decisions, and two beginnings of equal length of one growing journal agree.
  For the last two, the decisions a certificate names are allowed by its inputs
  (`JournalAllowed`), so their evidence is among the rows and movements shown
  (`DocumentAgrees`, `DocumentCloses`). Both sides of the inputs are finite, so the
  totals are integers (`TotalsAreIntegers`).
- `OfficeSitesProofs`: `OutcomesTrue`, `NoLostUpdate` and `ReadingsFaithful`, for any
  host, any number of calls, any fate of a request and any moment of a grant, a
  registration or a new context. The first needs that a call's number is used
  once: `CallsInv` says that what is performed or pending is a call made, so that a
  new one starts with nothing done, and each case of the answer (`DraftTold`,
  `ProcessReceipts`, `IpcReceipts`) is compared with what the fate has left behind.
  For the second, `ListsInv` says that the rows of the host's sheet are versions it
  was shown and that every write in a batch under way names such a version; a late
  or repeated batch is served one operation at a time, and each leaves the items it
  was not shown (`ServedKeeps`). For the third, `SheetMade` and `ReadingsInv` say that
  a sheet and the records are made of the items of one response, one by one and
  in order; each column, text, contact, attachment and instant is then that of its
  item (`SheetFaithful`, `RecordsFaithful`), the attendees kept stand at increasing
  places of the response with none left out that has an address or a name
  (`KeptPlaces`, `AttendeesShown`), and a document gives its record back
  (`DocsFaithful`).
- `OfficeFilesProofs`: `ExactValuesSurvive`, `TripsSettle`, `LossesNamed`,
  `PackagesClosed`, `UndoRestores` and `ExtractionFaithful`, for sheets and decks of
  any size with any values and texts, any edits and intents, any files of other
  programs, any archives and limits.
  - The first five rest on `HostInv == HostTyped /\ FileTyped /\ DocSettled`. An import
    compares a file with what was sent some steps earlier, so `FileTyped` says that
    the file is still the encoding of what was sent; that a further trip changes
    nothing depends on which trip was the last, so `DocSettled` says that an unedited
    document is what some export and import of its format made. Both speak of
    all documents and files, so TLC cannot evaluate them; it checks what they imply.
  - The conversions are followed from the inside out. A text, number, truth value or
    formula comes back from its cell (`ValuesReadBack`, `XlsxCellWritten`,
    `OdsCellWritten`, `ScalarRead`), in its place: base-26 columns are unique
    (`ColumnsAgree`, `ColumnsReadBack`), the rows and gaps of a table add up to the
    column each cell had (`TablePlace`, `RowOfCells`), and the answer of a range is
    counted back to the address asked for (`RangeCounted`, `NotWrapped`). Exactness
    is arithmetic: reduced ratios are reduced once (`ReducedStays`), and the decimal
    text of a ratio spells that ratio (`CanonicalSpells`). A block comes back from its
    shapes with its kind, its empty texts dropped once (`BlockRead`, `SlideTrip`,
    `SlideSettles`).
  - Each format then has four lemmas: what it writes is a file (`XlsxFile`, ...),
    what it reads is a document (`XlsxReadTyped`), what comes back (`XlsxTrip`), and that
    what came back comes back again (`XlsxUnchanged`). `LossesNamed` follows from the
    reading alone, for any file; `PackagesClosed` from the numbering of the slides,
    because paths and relationship ids differ for different slides
    (`SlidePathsDiffer`, `RelIdsDiffer`), from each other and from the fixed parts.
  - `UndoRestores` needs of the invariant only that an applied edit was built and
    applied where the log says (`AreApplied`): a cell set and set back leaves the
    document as it was (`SetCellUndone`), blanks included, which are absent cells.
  - `ExtractionInv` keeps the sum of the entries kept below the running total, and for
    each entry passed that it is kept whole unless a later one has its name
    (`WholeOne`): the read limit is one byte over the budget, so an entry that fills its
    limit exactly is told from one that was cut off (`ReadLimitOf`).

**Assumptions.** They are the `ASSUME`s of the modules, and TLC evaluates them in
the runs. Most say that a set of inputs has the type of the code's own argument.
The others:

- `TransportAssumption`: a helper is reached by process or by IPC, the two variants of
  the configuration.
- `CellAssumption` of the sheet engine: a grid is finite (rows and columns are u32),
  and a cell is not a formula (`FormulaKey` is an enumeration of both).
- `BlanksAssumption`, `OrderAssumption`: a text of one space is blank (`str::trim`), and
  the names of list fields, `Title` among them, have the order of their bytes (a
  `BTreeSet`).
- `ListsAssumption`, `ReadingsAssumption`: a collection in a response or a cassette is a
  JSON array, and a time that is given denotes a whole number of minutes. An
  absent field, a time in an unreadable form and an answer of another shape are
  all allowed.
- `ZoneAssumption`: the zones the code takes for UTC are not shifted against it.
- `NoneAssumption`, `LibraryNoneAssumption`, `ReviewNoneAssumption`: `None`, which stands
  for an absent value, is none of the values, and, in a review, no row is a movement.
- `MovesAssumption` (of the two MC modules): which components a run may move.
- `TextAssumption`, `ParserAssumption`, `CanonicalAssumption`, `TruthAssumption`: a text
  spells one number or none and blank texts none; what a parser has normalized stays
  as it is and can be written again, and it makes nothing blank that was not; every
  exact number has a text, `TRUE`, `false`, `1` and the like stand for the truth
  values, and these texts pass unchanged. Texts that cannot stand in XML, or change
  there, are allowed everywhere.
- `CodecIdAssumption`, `PathAssumption`: the ids of the codecs stand in an attribute as
  they are; `None` is not the path of a slide.
- `SlideNameAssumption`: the names the codecs make up (`Presentation`, `slide-1`,
  `Slide 1`) are not blank and need no normalization.
- `HostAssumption`, `ScenarioAssumption`: a host holds a document its own library can
  express, so no deck title or slide id is blank (`deck_to_expr` and `slide_to_expr`
  refuse those, `sim-lib-deck/src/model.rs:137`, 165), and a file of another program is
  one the readers' types can hold: any cells, marks, parts and relationships.
  Sizes and limits of archives are at most the largest u64, whatever that is.

Types are proved where a proof uses them: `LibraryTypeOK`, and as parts of the
other inductive invariants.

**Induction and recursion.** The library's induction theorems take operators as
parameters, which no installed prover can instantiate. What needs an induction
over tasks, cells, rows, readings of a formula or operations of a batch is proved
from a least counterexample instead: `WFMin` on the naturals gives a least member of
any set of them (`LeastNatural`), hence a smallest finite set or shortest prefix for
which a claim fails. That a recursive function has the values its body says is shown
in the same way (`SumSolved`, `TurnSolved`, `KeptSolved`, `ColumnSolved`, `FlatSolved`):
there is no least argument up to which no such function exists. No RECURSIVE operator
is used. The one fold that is used, the sum of a function over a finite set, is
solved alike (`SumByTurns`, `SumSolved`, `SumOfMember`). Operators whose definitions the
prover does not see (`SelectSeq`, `SortSeq`, `:>` and `@@`) are avoided where something
is proved: `Kept`, `Served` and `InOrder` are written out.

**Only model-checked.** The six violation runs are traces. Every invariant and every
safety property of a step that a passing run checks has a theorem; what the run
adds is that the interesting cases occur, and that a bug in the code would show.

## 5. Findings

The first six are violation runs; the trace is the scenario.

1. `reading.rs:247` compares RFC 3339 texts where line 60 speaks of instants: with
   different UTC offsets an expired edition is quoted (`library_offsets`).
2. `store.rs:67` writes in place: a crash there leaves a file that exists and never
   opens, though `create` "opens or creates" (`docstore_crash`).
3. `critical.rs:228`: a task with successors is bounded only by them, never by the
   project finish; with start-start, finish-finish or lead links a zero-slack
   task is missed, contrary to line 39 (`critical_start`).
4. `local.rs:191`: `load_plan` reads tasks and links in separate queries and
   validates nothing: it can return links to tasks the plan does not have, though
   line 159 says it "loads a checked snapshot" (`gantt_torn`).
5. `helper.rs:160`: over IPC `run_uno` connects and writes a command without asking for
   the capability that the site requires and that a process is refused without
   (line 126), though `sim-lib-doc-core/src/place.rs:54` says "Capabilities required for
   live access" (`sites_ungated`). Nor does a REST batch ask for any: `rest.rs:107` hands
   it to the token site of the host, which may check them or not.
6. `sim-lib-mail/src/graph.rs:461` tells every failure of Graph as `InvalidMail`, whose
   doc says "A mail or calendar record was invalid" (`model.rs:112`): also an answer
   lost or garbled after the draft was made (`sites_refusals`).

One more is an exception that a property names:

7. `store.rs:66` tests and then truncates: of two processes creating one store the
   later erases what the earlier has committed (`CommittedSurvives`, and `Reset` in
   `DocProjection`; without them `docstore` fails).

Observed while translating. The properties are stated so that they hold
alongside these, and the models contain them where not said otherwise:

8. Sheets and ranges. `set_cell_edit` (`sim-lib-sheet/src/doc.rs:31`) takes the
   inverse from the document it is built on: applied after another edit of that
   cell, its undo restores the older value. Edits of the suite have the domain
   `office/cell` and an inverse that restores nil (`intent.rs:45`), and
   `apply_sheet_edit` refuses both (`doc.rs:50`). A range read turns a text that
   spells a ratio into a number, and a range write sends a formula without "=" as
   a text; the inverse of a planned write is nil (`graph.rs:108`, 168). The column of
   a range answer and of repeated ODF cells is added in u32 unchecked
   (`graph.rs:147`, `ods.rs:166`, 190; only addresses below the overflow are modelled
   for repeats).
9. Codecs. Empty table cells and list items vanish on a trip of a deck whose report
   is lossless (`pptx/decode.rs:213`, `odp.rs:253`), though the round-trip recipe
   speaks of "returning as the same office deck document"; a slide without blocks
   is reported as a loss of shapes on its own trip (`pptx/decode.rs:161`). An imported
   document's id is made of its sheet or deck name (`xlsx.rs:96`, `ods.rs:37`,
   `pptx.rs:71`, `odp.rs:39`), where `sim-lib-doc-core/src/model.rs:17` speaks of a stable
   id, so edits drafted before an import no longer apply. A line break in an
   attribute comes back as a space; a control character makes a file that
   neither codec reads (`xlsx.rs:431`). Of an ODF document only the first table and no
   covered cell is read, without a report (`ods.rs:27`, 165). A shared formula without
   a text becomes its value (`xlsx.rs:314`). Changes another program made to the shapes
   of a slide are ignored while the document's own marks remain, and no report names
   them (`pptx/decode.rs:130`, 161).
10. Sites. No request for a draft can be told from its retry
   (`sim-lib-mail/src/graph.rs:218`). After an IPC timeout the helper may still act,
   output over IPC is not counted against its budget (`helper.rs:160`), and
   `IpcUnavailable`, "Local IPC was absent or refused the address" (line 71), also
   stands for failures after the command was written (176-187). A site registered
   again keeps its first description in silence (`register.rs:19`). A batch has no
   changeset and may be half done; `If-Match: *` and a POST whose headers override its
   method pass the precondition (`batch.rs:194`; not among the modelled operations). A
   list field named `id`, `webUrl` or `eTag` is hidden by the item's own
   (`sim-site-sharepoint/src/graph.rs:142`). Reading mail accepts blank ids and events
   that end before they begin, which the documents of both refuse.

## 6. Abstractions that matter

- A relational transaction is atomic and isolated, keys are enforced statement by
  statement, and an interrupted one leaves nothing: the relational layer is
  external. Its row limit (`store.rs:86`) is not modelled.
- The texts of cells are names that do not begin with an equals sign (a formula has
  its equals signs beside its text), and the rows of a range answer have one
  width.
- XML, JSON and ZIP are parsed and written by external crates: a file is the parts,
  elements and attributes the code asks for, and texts go through the constants of
  `OfficeText`. Sizes are small numbers below `MaxWord`.
- A service keeps to its protocol but promises no more: an item changes its version
  with every change, a write with an outdated `If-Match` is refused, and an answer can
  be lost, late, or of any shape.
- The value of a token, the wording of errors and their redaction are left out.
- Digests do not collide.
- Texts, names, dates, titles, receipts and wording are left out or reduced to what
  the properties tell apart.
- The incremental engine meets its contract (see `SheetEngine`); arithmetic in
  formulas is reduced to sums, and division by the value of a cell is left out.

## 7. Not modelled, and what is left

Not modelled, because nothing of it has state or an order that could go wrong, and
its unit tests reach every branch:

- *Citations and projections of evidence* render an anchor that `load_anchor` has
  checked.
- *Ledger drafts and statements*: a map of drafts and conversions of what the ledger
  (external) hands over.
- *Projection ranking* chooses among four branches; the *suite's scene* lists panes.
- *Row codec*: one encoding and its inverse per row type; the stores treat a row as
  a value.
- *Markup documents* convert to and from an external crate.
- *Office pack archive* plans entries and a manifest and writes nothing.
- *Office add-ins and LibreOffice bridge* (`src/office-js`, `src/helpers`) run inside
  foreign programs, whose side is modelled as external.
- *Build tooling* (`src/xtask`) is no part of the program.

Left out of modelled parts: the upload plan of a deck, which changes nothing; the
selection of an Outlook item; the parallel view of readings; the creation of a plan
store, which is that of the document store.

Left open: an annotation whose span was removed and admitted again with other text
(`reading.rs:221`), where the docs do not say what is right.
