------------------------------ MODULE SheetFiles ------------------------------
(***************************************************************************)
(* Sheets as .xlsx and .ods files: xlsx.rs of sim-codec-ooxml and ods.rs   *)
(* of sim-codec-odf.  A file is its container and the elements the codecs  *)
(* write or look at; texts stand in it as they were written, and become    *)
(* what a parser makes of them when they are read.                         *)
(***************************************************************************)
EXTENDS SheetDocument, OfficePackages

Nowhere == Cell(0, 0)

TruthAs(form, value) ==
    CHOOSE t \in Texts : Spelling[t].form = form /\ BoolOf(t) = value
\* As digits and as words they are texts that XML gives back.
ASSUME TruthAssumption ==
    \A form \in {"integer", "words"}, b \in BOOLEAN :
       /\ \E t \in Texts : Spelling[t].form = form /\ BoolOf(t) = Bool(b)
       /\ \A read \in {InElement, InAttribute} :
             read[TruthAs(form, Bool(b))] = TruthAs(form, Bool(b))

ImportedId(scheme, name) == [scheme |-> scheme, name |-> name]

(***************************************************************************)
(* .xlsx                                                                   *)
(***************************************************************************)
XlsxCell(at, sim, t, f, v, is) ==
    [at |-> at, sim |-> sim, t |-> t, f |-> f, v |-> v, is |-> is, style |-> FALSE]

\* cell_xml
XlsxCellOf(at, value) ==
    CASE value.kind = "text" -> XlsxCell(at, "text", "inlineStr", Empty, Empty, value.text)
      [] value.kind = "number" ->
            XlsxCell(at, "number", "str", Empty, Canonical(value.ratio), Empty)
      [] value.kind = "bool" ->
            XlsxCell(at, "bool", "b", Empty, TruthAs("integer", value), Empty)
      [] value.kind = "formula" -> XlsxCell(at, "formula", "", value.text, Empty, Empty)

\* worksheet_xml: the rows in order, and in each its cells.
WorksheetXml(sheet) ==
    LET order == RowsFirst(DOMAIN sheet.cells)
    IN [merged |-> FALSE,
        cells |-> [i \in 1..Len(order) |-> XlsxCellOf(Display(order[i]), sheet.cells[order[i]])]]

WorkbookParts == Named({"xl/workbook.xml", "xl/_rels/workbook.xml.rels"})

\* package_entries: one sheet, related as rId1.
XlsxEncode(doc) ==
    LET sheet == DocToSheet(doc)
    IN IF sheet = NoSheet THEN Refused
       ELSE Answered(
              [format |-> "xlsx",
               container |-> WriteOoxml(WorkbookParts \cup Named({"xl/worksheets/sheet1.xml"})),
               content |-> [sheets |-> <<[name |-> sheet.name, rel |-> RelId(1)]>>,
                            rels |-> <<[id |-> RelId(1), worksheet |-> TRUE,
                                        target |-> <<"xl/worksheets/sheet1.xml">>]>>,
                            strings |-> <<>>,
                            worksheet |-> WorksheetXml(sheet)]], {})

\* A workbook that some program wrote: cells at different places, an inline
\* string where the type says so, and no cell that is there to be blank.
IsXlsxCell(c) ==
    /\ {c.f, c.v, c.is} \subseteq Texts
    /\ c.is \notin Blanks => c.t = "inlineStr"
    /\ c.sim # "blank"
IsWorkbook(content) ==
    /\ IsList(content.sheets) /\ \A s \in ToSet(content.sheets) : s.name \in Texts
    /\ IsList(content.strings) /\ ToSet(content.strings) \subseteq Texts
    /\ content.worksheet.merged \in BOOLEAN
    /\ IsList(content.worksheet.cells)
    /\ \A c \in ToSet(content.worksheet.cells) : IsXlsxCell(c)
    /\ \A c, d \in ToSet(content.worksheet.cells) : ParseCell(c.at) = ParseCell(d.at) => c = d

\* shared_strings: the strings of the workbook, as they read.
SharedStrings(content) == [i \in 1..Len(content.strings) |-> InElement[content.strings[i]]]

\* cell_text: the inline string, the shared string at a zero-based index, or
\* the value.
XlsxCellText(c, strings) ==
    LET index == Spelling[c.v]
    IN CASE c.t = "inlineStr" -> InElement[c.is]
         [] c.t = "s" -> IF index.form = "integer" /\ index.digits \in 0..(Len(strings) - 1)
                         THEN strings[index.digits + 1] ELSE None
         [] OTHER -> InElement[c.v]

\* Mutant of XlsxValue: a number is taken for the text it is written as.
XlsxValueByType(c, text) ==
    CASE c.t = "b" -> BoolOf(text)
      [] c.t \in {"s", "str", "inlineStr"} -> Text(text)
      [] OTHER -> NumberOf(text)

\* decode_cell behind the formula: by the kind this codec wrote, else by type.
XlsxValue(c, text) ==
    CASE c.sim = "blank" -> Blank
      [] c.sim = "bool" -> BoolOf(text)
      [] c.sim = "formula" -> Formula(text, 1)
      [] c.sim = "number" -> NumberOf(text)
      [] c.sim = "text" -> Text(text)
      [] OTHER ->
            CASE c.t = "b" -> BoolOf(text)
              [] c.t \notin {"b", "n", ""} -> Text(text)
              [] c.t \in {"n", ""} /\ text \in Blanks -> Blank
              [] OTHER -> NumberOf(text)

\* decode_cell: a formula element with a text comes first.
XlsxDecodeCell(c, strings) ==
    LET f == InElement[c.f]
        text == XlsxCellText(c, strings)
    IN CASE f = None -> None
         [] f \notin {None, Empty} -> Formula(f, 1)
         [] OTHER -> IF text = None THEN None ELSE XlsxValue(c, text)

\* decode: the first sheet of the workbook, through its relationship.
XlsxLosses(content, parts) ==
    {Dropped("sheets", Nowhere) : s \in {i \in 2..Len(content.sheets) : TRUE}}
    \cup {Dropped("styles", Nowhere) : p \in parts \cap Named({"xl/styles.xml"})}
    \cup {Dropped("mergeCells", Nowhere) : b \in {TRUE} \cap {content.worksheet.merged}}
    \cup {Dropped("style", ParseCell(content.worksheet.cells[i].at)) :
             i \in {j \in 1..Len(content.worksheet.cells) : content.worksheet.cells[j].style}}

WorksheetPath(content) ==
    LET i == SelectInSeq(content.rels, LAMBDA r : r.worksheet /\ r.id = content.sheets[1].rel)
    IN IF i = 0 THEN None ELSE content.rels[i].target

XlsxDecode(file) ==
    LET content == file.content
        cells == content.worksheet.cells
        name == InAttribute[content.sheets[1].name]
        sheet == SheetOf(name, [i \in 1..Len(cells) |->
                                  [at |-> cells[i].at,
                                   value |-> XlsxDecodeCell(cells[i], SharedStrings(content))]])
    IN IF \/ file.format # "xlsx" \/ ~OoxmlReadable(file.container)
          \/ ~(WorkbookParts \subseteq file.container.parts)
       THEN Refused
       ELSE IF \/ content.sheets = <<>>
               \/ WorksheetPath(content) \notin file.container.parts
               \/ None \in ToSet(SharedStrings(content)) \cup {name} \/ sheet = NoSheet
       THEN Refused
       ELSE Answered(SheetToDoc(ImportedId("xlsx", name), sheet),
                     XlsxLosses(content, file.container.parts))

(***************************************************************************)
(* .ods: rows of cells in table order.  A cell that this codec wrote also  *)
(* carries its A1 text, its kind and its value as attributes.              *)
(***************************************************************************)
OdsCell(at, sim, value, type, formula, office, text) ==
    [at |-> at, sim |-> sim, value |-> value, type |-> type, formula |-> formula,
     office |-> office, text |-> text, repeats |-> 1, covered |-> FALSE, style |-> FALSE]
OdsGap(count) == [OdsCell(None, "", None, "", None, None, Empty) EXCEPT !.repeats = count]
OdsRow(cells) == [repeats |-> 1, cells |-> cells]

\* A formula attribute: the name of a grammar in front, how many equals signs
\* follow, and the text behind them; white space around it means nothing.
OdsFormula(grammar, equals, text) == [grammar |-> grammar, equals |-> equals, text |-> text]

\* cell_xml: every kind with its value as attribute and as paragraph.
OdsCellOf(at, value) ==
    LET text == CASE value.kind = "number" -> Canonical(value.ratio)
                  [] value.kind = "bool" -> TruthAs("words", value)
                  [] OTHER -> value.text
    IN OdsCell(at, value.kind, text,
               IF value.kind = "bool" THEN "boolean" ELSE "string",
               IF value.kind = "formula" THEN OdsFormula("of:", 1, value.text) ELSE None,
               IF value.kind = "bool" THEN text ELSE None, text)

\* table_xml: empty rows up to the next row that has cells, and in each row
\* one repeated empty cell up to the next cell.
OdsRowOf(sheet, row) ==
    LET columns == {c.column : c \in {d \in DOMAIN sheet.cells : d.row = row}}
        gap(column) == column - 1 - Max({0} \cup {c \in columns : c < column})
        at(column) == OdsCellOf(Display(Cell(column, row)), sheet.cells[Cell(column, row)])
        order == InOrder(columns, [c \in columns |-> c])
    IN FlattenSeq([i \in 1..Len(order) |->
                      IF gap(order[i]) = 0 THEN <<at(order[i])>>
                      ELSE <<OdsGap(gap(order[i])), at(order[i])>>])
TableXml(sheet) ==
    [name |-> sheet.name, styled |-> FALSE,
     rows |-> [row \in 1..Max({0} \cup {c.row : c \in DOMAIN sheet.cells}) |->
                  OdsRow(OdsRowOf(sheet, row))]]

OdsEncode(doc) ==
    LET sheet == DocToSheet(doc)
    IN IF sheet = NoSheet THEN Refused
       ELSE Answered([format |-> "ods", container |-> WriteOdf("spreadsheet"),
                      content |-> [tables |-> <<TableXml(sheet)>>, styled |-> FALSE]], {})

\* A spreadsheet that some program wrote.
IsOdsCell(c) ==
    /\ c.text \in Texts /\ {c.value, c.office} \subseteq TextsAndNone
    /\ c.formula # None => c.formula.text \in Texts /\ c.formula.equals \in Nat
    /\ c.repeats \in Nat /\ c.covered \in BOOLEAN
IsOdsRow(row) ==
    /\ row.repeats \in Nat
    /\ IsList(row.cells) /\ \A c \in ToSet(row.cells) : IsOdsCell(c)
IsSpreadsheet(content) ==
    /\ IsList(content.tables)
    /\ \A t \in ToSet(content.tables) :
          t.name \in Texts /\ IsList(t.rows) /\ \A row \in ToSet(t.rows) : IsOdsRow(row)

\* normalize_formula: of the two grammars that are known, or of none, and with
\* an equals sign; anything else is refused.
NormalizeFormula(formula) ==
    IF formula.grammar \in {"of:", "oooc:", ""} /\ formula.equals > 0
    THEN Formula(InAttribute[formula.text], formula.equals)
    ELSE None

\* decode_untyped_cell: a formula, else by the declared type, else text.
OdsUntyped(c, text) ==
    LET office == IF c.office = None THEN text ELSE InAttribute[c.office]
    IN IF c.formula # None THEN NormalizeFormula(c.formula)
       ELSE CASE c.type = "boolean" -> BoolOf(office)
              [] c.type \in {"float", "currency", "percentage"} -> NumberOf(office)
              [] c.type \in {"", "other"} /\ text \in Blanks -> Blank
              [] OTHER -> Text(text)

\* decode_cell: by the kind and the value this codec wrote, if it did; a text
\* that cannot stand in XML is refused with all the content.
OdsDecodeCell(c) ==
    LET text == IF c.value = None THEN InElement[c.text] ELSE InAttribute[c.value]
    IN IF \/ None \in {text, InElement[c.text]}
          \/ c.office # None /\ InAttribute[c.office] = None
          \/ c.formula # None /\ InAttribute[c.formula.text] = None
       THEN None
       ELSE CASE c.sim = "blank" -> Blank
              [] c.sim = "bool" -> BoolOf(text)
              [] c.sim = "formula" -> Formula(text, 1)
              [] c.sim = "number" -> NumberOf(text)
              [] c.sim = "text" -> Text(text)
              [] OTHER -> OdsUntyped(c, text)

\* Where an element begins, behind others that are repeated.
PlaceOf(elements, j) ==
    1 + SumFunctionOnSet([k \in 1..Len(elements) |-> elements[k].repeats], 1..(j - 1))

\* decode_row: covered cells only take place; a repeated cell stands in every
\* column it is repeated over, the first where its A1 text says.
OdsCellWrites(c, column, row) ==
    IF c.covered \/ OdsDecodeCell(c) = Blank THEN <<>>
    ELSE [k \in 1..c.repeats |->
             [at |-> IF c.at # None /\ k = 1 THEN c.at ELSE Display(Cell(column + k - 1, row)),
              value |-> OdsDecodeCell(c)]]
OdsRowWrites(cells, row) ==
    FlattenSeq([j \in 1..Len(cells) |-> OdsCellWrites(cells[j], PlaceOf(cells, j), row)])

\* decode_rows: a repeated row is decoded as often as it is repeated.
OdsWrites(rows) ==
    FlattenSeq([i \in 1..Len(rows) |->
        FlattenSeq([k \in 1..rows[i].repeats |->
                       OdsRowWrites(rows[i].cells, PlaceOf(rows, i) + k - 1)])])

\* The losses decode names: styles at all, and the cells that have one.
OdsLosses(content) ==
    LET rows == content.tables[1].rows
        expanded == FlattenSeq([i \in 1..Len(rows) |->
                                   [k \in 1..rows[i].repeats |-> rows[i].cells]])
        styled(cells) == {j \in 1..Len(cells) : cells[j].style /\ ~cells[j].covered}
    IN {Dropped("styles", Nowhere) : b \in {TRUE} \cap
           {content.styled \/ \E t \in ToSet(content.tables) :
               t.styled \/ \E r \in ToSet(t.rows) : \E c \in ToSet(r.cells) : c.style}}
       \cup UNION {{Dropped("style", Cell(PlaceOf(expanded[i], j), i)) : j \in styled(expanded[i])}
                    : i \in 1..Len(expanded)}

\* decode: the first table of the content.
OdsDecode(file) ==
    LET content == file.content
        name == InAttribute[content.tables[1].name]
        sheet == SheetOf(name, OdsWrites(content.tables[1].rows))
    IN IF \/ file.format # "ods" \/ ~OdfReadable(file.container)
          \/ file.container.mimetype # "spreadsheet"
       THEN Refused
       ELSE IF content.tables = <<>> \/ name = None \/ sheet = NoSheet THEN Refused
       ELSE Answered(SheetToDoc(ImportedId("ods", name), sheet), OdsLosses(content))
===============================================================================
