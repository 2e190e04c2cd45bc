----------------------------- MODULE OfficeFiles ------------------------------
(***************************************************************************)
(* A sheet or a deck on its way through files: edits drafted, applied and  *)
(* undone (sim-lib-sheet), exports and imports in the four formats of the  *)
(* OOXML and ODF codecs, ranges of a workbook behind Microsoft Graph,      *)
(* files another program wrote, and archives opened entry by entry.  Every *)
(* call is atomic; what is hard is their order, and that a document comes  *)
(* back through conversions nobody tried on it.                            *)
(***************************************************************************)
EXTENDS SheetFiles, GraphRanges, DeckFiles

CONSTANTS
    Scenario     \* name -> what a behaviour is about: the documents it starts from,
                 \* the cells and values edited and how often, what users of a
                 \* suite pane intend, the formats, the
                 \* files other programs wrote, the range of a workbook that is
                 \* read and written, the archives and the limits

Formats == {"xlsx", "range", "pptx", "odf"}

\* A document of the host, and a file that some program wrote.
IsSheetDoc(d) ==
    d.kind = "sheet" /\ IsSheet(DocToSheet(d)) /\ d = SheetToDoc(d.id, DocToSheet(d))
IsDeckDoc(d) == d = [kind |-> "deck", id |-> d.id, body |-> d.body] /\ IsDeck(d.body)
IsDoc(d) == IsSheetDoc(d) \/ IsDeckDoc(d)
IsFile(f) ==
    \/ f.format = "xlsx" /\ IsWorkbook(f.content)
    \/ f.format = "ods" /\ IsSpreadsheet(f.content)
    \/ /\ f.format = "range" /\ f.target.worksheet \in Texts
       /\ IsScalars(f.content.values) /\ f.content.width \in Nat \ {0}
    \/ f.format = "pptx" /\ IsPresentation(f.content)
    \/ f.format = "odp" /\ IsPages(f.content)

\* What a behaviour is about is what there can be.
ASSUME HostAssumption ==
    \A s \in DOMAIN Scenario :
       /\ \A d \in Scenario[s].docs : IsDoc(d)
       /\ Scenario[s].cells \subseteq Cells
       /\ \A v \in Scenario[s].values : IsValue(v)
       /\ \A f \in Scenario[s].foreign : IsFile(f)
       /\ Scenario[s].target.worksheet \in Texts

\* Sizes are u64 values, and so is what an archive holds.
ASSUME ScenarioAssumption ==
    \A s \in DOMAIN Scenario :
       /\ Scenario[s].formats \subseteq Formats
       /\ \A a \in Scenario[s].archives : \A i \in 1..Len(a) :
             /\ a[i].dir \in BOOLEAN
             /\ {a[i].declared, a[i].compressed, a[i].actual} \subseteq 0..MaxWord
       /\ \A a \in Scenario[s].archives : Len(a) \in Nat
       /\ \A l \in Scenario[s].limits :
             {l.entries, l.entry, l.total, l.ratio} \subseteq 0..MaxWord

VARIABLES
    scenario,
    doc,         \* the document the host holds
    drafts,      \* edits built and not yet applied, each with what it was built on
    applied,     \* edits applied, each with the documents before and after it
    file,        \* the file on disk, or None
    sent,        \* history: the document `file` was exported from, or None
    unedited,    \* history: the format `doc` was exported to, read from, and not
                 \* edited since
    returned,    \* history: the last import: what went out and what came back
    archive, limits, extraction    \* an archive being read

documents == <<doc, drafts, applied, unedited>>
archives == <<archive, limits, extraction>>
vars == <<scenario, documents, file, sent, returned, archives>>

NoReturn == [format |-> "none", from |-> None, settled |-> FALSE,
             file |-> None, answer |-> Refused]

Init ==
    /\ scenario \in DOMAIN Scenario
    /\ doc \in Scenario[scenario].docs
    /\ drafts = <<>> /\ applied = <<>>
    /\ file = None /\ sent = None
    /\ unedited = "none"
    /\ returned = NoReturn
    /\ archive = <<>>
    /\ limits = [entries |-> 0, entry |-> 0, total |-> 0, ratio |-> 0]
    /\ extraction = Beginning

(***************************************************************************)
(* Edits                                                                   *)
(***************************************************************************)
\* set_cell_edit on the document as it is now.
Draft(cell, value) ==
    /\ doc.kind = "sheet"
    /\ Len(drafts) + Len(applied) < Scenario[scenario].maxEdits
    /\ drafts' = Append(drafts, [edit |-> SetCellEdit(doc, cell, value), on |-> doc])
    /\ UNCHANGED <<scenario, doc, applied, unedited, file, sent, returned, archives>>

\* decode_suite_intent: a user's change in a suite pane, decoded for the
\* document shown there.
Intend(intent) ==
    /\ Len(drafts) + Len(applied) < Scenario[scenario].maxEdits
    /\ LET edit == DecodeSuiteIntent({doc}, intent)
       IN edit # None /\ drafts' = Append(drafts, [edit |-> edit, on |-> doc])
    /\ UNCHANGED <<scenario, doc, applied, unedited, file, sent, returned, archives>>

\* apply_sheet_edit: the document changes, or it stays and the edit is refused.
Apply(i) ==
    LET result == ApplySheetEdit(doc, drafts[i].edit)
    IN /\ drafts' = RemoveAt(drafts, i)
       /\ \/ /\ result # NoDoc
             /\ doc' = result
             /\ applied' = Append(applied, [edit |-> drafts[i].edit, on |-> drafts[i].on,
                                            before |-> doc, after |-> result])
             /\ unedited' = "none"
          \/ /\ result = NoDoc
             /\ UNCHANGED <<doc, applied, unedited>>
       /\ UNCHANGED <<scenario, file, sent, returned, archives>>

\* The inverse of the edit applied last.
Undo ==
    /\ applied # <<>>
    /\ LET result == ApplySheetEdit(doc, InvertEdit(Last(applied).edit))
       IN \/ result # NoDoc /\ doc' = result /\ unedited' = "none"
          \/ result = NoDoc /\ UNCHANGED <<doc, unedited>>
    /\ applied' = Front(applied)
    /\ UNCHANGED <<scenario, drafts, file, sent, returned, archives>>

(***************************************************************************)
(* Files                                                                   *)
(***************************************************************************)
\* The plan of a range write carried out by the service, and read again into
\* a document of the host.
RangeEncode(d, target) ==
    LET plan == PlanWriteRange(d, target)
    IN IF plan.ok THEN Answered([format |-> "range", target |-> target,
                                 content |-> plan.value.op], {})
                  ELSE Refused
RangeDecode(f) ==
    LET sheet == ReadRange(f.target, f.content)
    IN IF sheet = NoSheet THEN Refused
       ELSE Answered(SheetToDoc(ImportedId("range", sheet.name), sheet), {})

Encode(format, d) ==
    CASE format = "xlsx" -> XlsxEncode(d)
      [] format = "range" -> RangeEncode(d, Scenario[scenario].target)
      [] format = "pptx" -> PptxEncode(d)
      [] format = "odf" -> IF d.kind = "sheet" THEN OdsEncode(d) ELSE OdpEncode(d)

\* The ODF codec goes by the mimetype, an OOXML codec by its own parts.
Decode(f) ==
    CASE f.format \in {"ods", "odp"} ->
            (CASE f.container.mimetype = "spreadsheet" -> OdsDecode(f)
               [] f.container.mimetype = "presentation" -> OdpDecode(f)
               [] OTHER -> Refused)
      [] f.format = "range" -> RangeDecode(f)
      [] f.format = "xlsx" -> XlsxDecode(f)
      [] f.format = "pptx" -> PptxDecode(f)

Export(format) ==
    LET answer == Encode(format, doc)
    IN /\ answer.ok
       /\ file' = answer.value
       /\ sent' = doc
       /\ UNCHANGED <<scenario, documents, returned, archives>>

\* A file that another program wrote; to bound the model, only where nothing
\* has been written yet.
Receive(f) ==
    /\ file = None
    /\ file' = f
    /\ sent' = None
    /\ UNCHANGED <<scenario, documents, returned, archives>>

\* download_deck_file: a presentation on a drive, taken if its package is one.
Download(f) ==
    /\ file = None
    /\ f.format = "pptx" /\ ValidatePptxPackage(f.container)
    /\ file' = f
    /\ sent' = None
    /\ UNCHANGED <<scenario, documents, returned, archives>>

\* The document is replaced by what the file decodes to; edits drafted or
\* applied before stay in the hands of the host.
Import ==
    /\ file # None
    /\ LET answer == Decode(file)
       IN /\ returned' = [format |-> file.format, from |-> sent,
                          settled |-> sent # None /\ sent = doc /\ unedited = file.format,
                          file |-> file, answer |-> answer]
          /\ \/ /\ answer.ok
                /\ doc' = answer.value
                /\ unedited' = IF sent = None THEN "none" ELSE file.format
             \/ ~answer.ok /\ UNCHANGED <<doc, unedited>>
    /\ UNCHANGED <<scenario, drafts, applied, file, sent, archives>>

(***************************************************************************)
(* Archives                                                                *)
(***************************************************************************)
\* One archive in a behaviour, to bound the model: nothing is left of one
\* when the next is opened.
Open(a, l) ==
    /\ archive = <<>>
    /\ archive' = a
    /\ limits' = l
    /\ extraction' = OpenArchive(a, l)
    /\ UNCHANGED <<scenario, documents, file, sent, returned>>

Extract ==
    /\ extraction.status = "reading" /\ extraction.next <= Len(archive)
    /\ extraction' = ExtractEntry(extraction, archive, limits)
    /\ UNCHANGED <<scenario, documents, file, sent, returned, archive, limits>>

Next ==
    \/ \E cell \in Scenario[scenario].cells, value \in Scenario[scenario].values : Draft(cell, value)
    \/ \E intent \in Scenario[scenario].intents : Intend(intent)
    \/ \E i \in 1..Len(drafts) : Apply(i)
    \/ Undo
    \/ \E format \in Scenario[scenario].formats : Export(format)
    \/ \E f \in Scenario[scenario].foreign : Receive(f) \/ Download(f)
    \/ Import
    \/ \E a \in Scenario[scenario].archives, l \in Scenario[scenario].limits : Open(a, l)
    \/ Extract

Spec == Init /\ [][Next]_vars

(***************************************************************************)
(* Properties                                                              *)
(***************************************************************************)
TextsOf(d) ==
    IF d.kind = "sheet"
    THEN {d.body.name} \cup {d.body.cells[i].value.literal : i \in 1..Len(d.body.cells)}
    ELSE {d.body.title}
         \cup (UNION {{d.body.slides[i].id, d.body.slides[i].title} : i \in 1..Len(d.body.slides)})
         \cup (UNION {UNION {ToSet(b.items) \cup UNION {ToSet(b.rows[r]) : r \in 1..Len(b.rows)}
                             : b \in ToSet(d.body.slides[i].blocks)} : i \in 1..Len(d.body.slides)})
Unwritable(d) == \E t \in TextsOf(d) \ {None} : InElement[t] = None \/ InAttribute[t] = None

\* A text of a cell, and of a formula behind one equals sign, is what XML makes
\* of it.
ReadValue(read, v) ==
    CASE v.kind = "text" -> Text(read[v.text])
      [] v.kind = "formula" -> Formula(read[v.text], 1)
      [] OTHER -> v
SameExactValues(read, a, b) ==
    /\ b.name = InAttribute[a.name]
    /\ DOMAIN b.cells = DOMAIN a.cells
    /\ \A c \in DOMAIN a.cells : b.cells[c] = ReadValue(read, a.cells[c])

\* In a range all comes back; but where no equals sign says what it is, the
\* empty text is no value, and a text is a number if it spells that number.
SameInRange(v, w) ==
    IF v.kind \in {"blank", "number", "bool"} \/ v.equals > 0 THEN w = v
    ELSE \/ w = Text(v.text)
         \/ w.kind = "number" /\ w.ratio = RationalFromStr(Spelling[v.text])
         \/ w = Blank /\ v.text = Empty
SameRange(a, b, bounds) ==
    LET addressed == {Cell(column, row) : column \in bounds[1].column..bounds[2].column,
                                          row \in bounds[1].row..bounds[2].row}
    IN /\ DOMAIN b.cells \subseteq addressed
       /\ \A cell \in addressed : SameInRange(CellOf(a, cell), CellOf(b, cell))

\* What a program says of a slide and its blocks, and what they become in a
\* document: of a list, the n-th text that holds something is the n-th item;
\* an image that names no backend is one of the codec.
SameItems(texts, items) ==
    LET holding(i) == {k \in 1..i : InElement[texts[k]] # Empty}
    IN /\ Len(items) = Cardinality(holding(Len(texts)))
       /\ \A i \in holding(Len(texts)) : items[Cardinality(holding(i))] = InElement[texts[i]]
SameImage(codec, a, b) ==
    \A i \in 1..4 :
       b.items[i] = IF a.items[i] # None THEN InAttribute[a.items[i]]
                    ELSE CASE i = 1 -> CodecId[codec] [] i = 2 -> Empty [] OTHER -> None
SameBlock(codec, a, b) ==
    /\ b.kind = a.kind
    /\ a.kind = "heading" => b.items[1] = InElement[a.items[1]]
    /\ a.kind = "image-ref" => SameImage(codec, a, b)
    /\ a.kind \in {"bullet-list", "table"} => SameItems(a.items, b.items)
    /\ a.kind = "table" => /\ Len(b.rows) = Len(a.rows)
                           /\ \A r \in 1..Len(a.rows) : SameItems(a.rows[r], b.rows[r])
SameSlide(codec, a, b) ==
    /\ a.id # None => b.id = InAttribute[a.id]
    /\ a.title # None => b.title = InAttribute[a.title]
    /\ Len(b.blocks) = Len(a.blocks)
    /\ \A j \in 1..Len(a.blocks) : SameBlock(codec, a.blocks[j], b.blocks[j])
SameSlides(codec, a, b) ==
    /\ b.title = InAttribute[a.title]
    /\ Len(b.slides) = Len(a.slides)
    /\ \A i \in 1..Len(a.slides) : SameSlide(codec, a.slides[i], b.slides[i])

\* Whatever a codec writes it also reads, unless a text cannot stand in XML;
\* and then every cell holds what it held, numbers and truth values exactly and
\* texts as XML gives them back, a range has what it had in each cell, and the
\* slides of a deck have their ids, titles and order, each its blocks with all
\* their texts, items, rows and addresses that hold something.
ExactValuesSurvive ==
    returned.from # None =>
        LET a == returned.from
            b == returned.answer.value
        IN IF returned.answer.ok
           THEN CASE returned.format = "range" ->
                       SameRange(DocToSheet(a), DocToSheet(b),
                                 RangeBounds(returned.file.content.address))
                  [] returned.format = "xlsx" ->
                       SameExactValues(InElement, DocToSheet(a), DocToSheet(b))
                  [] returned.format = "ods" ->
                       SameExactValues(InAttribute, DocToSheet(a), DocToSheet(b))
                  [] OTHER -> SameSlides(returned.format, a.body, b.body)
           ELSE Unwritable(a)

\* A conversion loses what it loses once: a document that has been through a
\* format and is not edited since returns unchanged from another trip.
TripsSettle ==
    returned.settled => returned.answer.ok /\ returned.answer.value = returned.from

\* The part of the i-th slide: the one the last slide relationship names that
\* has the i-th id of the presentation.
IsSlidePart(content, i, path) ==
    \E j \in 1..Len(content.rels) :
       /\ content.rels[j].slide /\ content.rels[j].id = content.order[i]
       /\ content.rels[j].target = path
       /\ \A k \in (j + 1)..Len(content.rels) :
             ~(content.rels[k].slide /\ content.rels[k].id = content.order[i])

\* When an import of one of these names no loss, nothing the file shows is
\* missing.  A workbook: it has one sheet, every filled cell of it is filled
\* in the document, and nothing is merged or styled.  A presentation: the
\* i-th slide of the document is the one of the i-th id, with the blocks that
\* stand in its part; every slide part is one of them; none has a transition,
\* media, or shapes and not one block.  (Shapes beside blocks are lost and not
\* named: the decoder does not look for them.)  A range that is answered:
\* every value stands at its offset from the address, in unbounded numbers.
LossesNamed ==
    LET content == returned.file.content
        d == returned.answer.value
    IN returned.answer.ok /\ IsLossless(returned.answer.report) =>
         CASE returned.format = "xlsx" ->
                /\ Len(content.sheets) = 1 /\ ~content.worksheet.merged
                /\ <<"xl/styles.xml">> \notin returned.file.container.parts
                /\ \A c \in ToSet(content.worksheet.cells) :
                      /\ ~c.style
                      /\ ~({c.f, c.v, c.is} \subseteq Blanks) =>
                            ParseCell(c.at) \in DOMAIN DocToSheet(d).cells
           [] returned.format = "pptx" ->
                /\ Len(d.body.slides) = Len(content.order)
                /\ \A i \in 1..Len(content.order) : \E path \in DOMAIN content.slides :
                      /\ IsSlidePart(content, i, path)
                      /\ SameSlide("pptx", content.slides[path], d.body.slides[i])
                /\ \A path \in DOMAIN content.slides :
                      /\ \E i \in 1..Len(content.order) : IsSlidePart(content, i, path)
                      /\ ~content.slides[path].transition /\ ~content.slides[path].media
                      /\ content.slides[path].shapes => content.slides[path].blocks # <<>>
           [] returned.format = "range" ->
                LET start == RangeBounds(IF content.address = None THEN returned.file.target.range
                                                                   ELSE content.address)[1]
                IN \A k \in 1..Len(content.values) :
                      ScalarValue(content.values[k]) =
                         CellOf(DocToSheet(d), Cell(start.column + Column(k, content.width),
                                                    start.row + Row(k, content.width)))
           [] OTHER -> TRUE

\* Every part that an exported package refers to is in it, its relationships
\* list each slide part once, and a drive would give it back.
PackagesClosed ==
    sent # None /\ file.format = "pptx" =>
        /\ ValidatePptxPackage(file.container)
        /\ PartsReferred(file.content.rels) \cup file.content.overrides
              \subseteq file.container.parts
        /\ DOMAIN file.content.slides \subseteq file.content.overrides
        /\ IsInjective([i \in 1..Len(file.content.rels) |-> file.content.rels[i].id])
        /\ IsInjective(SlidePaths(file.content))
        /\ ToSet(SlidePaths(file.content)) = DOMAIN file.content.slides

\* Undoing the last edit restores the document it was applied to, unless the
\* cell had changed since the edit was built; undoing never touches a
\* document of another id.
UndoRestores ==
    [][Len(applied') < Len(applied) =>
          LET last == Last(applied)
              cell == ParseCell(last.edit.op.at)
          IN /\ doc = last.after
                /\ CellOf(DocToSheet(last.on), cell) = CellOf(DocToSheet(last.before), cell)
                => doc' = last.before
             /\ doc.id # last.edit.doc => doc' = doc]_vars

\* However much an archive holds and whatever it declares, no more than the
\* limits and one byte is read; and what is kept at the end is whole: every
\* file entry with all its bytes.
ExtractionFaithful ==
    /\ extraction.buffer <= Min({limits.entry, limits.total}) + 1
    /\ extraction.total <= limits.total
    /\ SumFunction(extraction.kept) <= extraction.total
    /\ extraction.status = "reading" /\ extraction.next > Len(archive) =>
          \A i \in 1..Len(archive) :
             ~archive[i].dir /\ (\A j \in (i + 1)..Len(archive) : archive[j].name # archive[i].name)
             => /\ archive[i].name \in DOMAIN extraction.kept
                /\ extraction.kept[archive[i].name] = archive[i].actual
===============================================================================
