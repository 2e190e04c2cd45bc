---------------------------- MODULE SheetDocument -----------------------------
(***************************************************************************)
(* Sheets and sheet documents of sim-lib-sheet (model.rs, doc.rs): A1      *)
(* references, sparse cells, the expression a document holds a sheet as,   *)
(* and the edit that sets one cell and carries its inverse.                *)
(***************************************************************************)
EXTENDS OfficeText

CONSTANT MaxIndex    \* the largest u32, scaled down

ASSUME MaxIndexAssumption == MaxIndex \in Nat \ {0}

\* A cell reference, and its A1 text: the numbers of its letters and the row.
Cell(column, row) == [column |-> column, row |-> row]

\* Display: base 26 without a zero, the last letter first.
Letters[column \in 0..MaxIndex] ==
    IF column = 0 THEN <<>>
    ELSE Append(Letters[(column - 1) \div 26], ((column - 1) % 26) + 1)
Display(cell) == [letters |-> Letters[cell.column], row |-> cell.row]

\* The column of some letters, MaxIndex + 1 once it overflows.
ColumnOf(letters) ==
    LET upTo[i \in 0..Len(letters)] ==
            IF i = 0 THEN 0
            ELSE IF upTo[i - 1] * 26 + letters[i] <= MaxIndex THEN upTo[i - 1] * 26 + letters[i]
                                                              ELSE MaxIndex + 1
    IN upTo[Len(letters)]

Cells == [column : 1..MaxIndex, row : 1..MaxIndex]

\* FromStr: both parts are there, and neither is zero or too large.
ParseCell(a1) ==
    IF /\ ColumnOf(a1.letters) \in 1..MaxIndex
       /\ a1.row \in 1..MaxIndex
    THEN Cell(ColumnOf(a1.letters), a1.row)
    ELSE None

(***************************************************************************)
(* Values.  A formula is its text without the equals signs it begins with, *)
(* and how many these are.                                                 *)
(***************************************************************************)
CellValue(kind, text, ratio, equals) ==
    [kind |-> kind, text |-> text, ratio |-> ratio, equals |-> equals]
Blank == CellValue("blank", Empty, <<0, 1>>, 0)
Text(text) == CellValue("text", text, <<0, 1>>, 0)
Number(ratio) == CellValue("number", Empty, ratio, 0)
Bool(b) == CellValue("bool", Empty, <<IF b THEN 1 ELSE 0, 1>>, 0)
Formula(body, equals) == CellValue("formula", body, <<0, 1>>, equals)

CellValues == [kind : {"blank", "text", "number", "bool", "formula"}, text : Texts,
               ratio : Int \X Int, equals : Nat]
\* A failed conversion gives no cell and no value, and what is absent no A1 text.
ASSUME NoneAssumption ==
    /\ None \notin [column : Nat, row : Nat] \cup [letters : Seq(Int), row : Nat]
    /\ None \notin CellValues

\* What a text is as a number or a truth value, None when it is none.
NumberOf(text) == IF Exact(text) = None THEN None ELSE Number(Exact(text))
BoolOf(text) == IF Truth[text] = "neither" THEN None ELSE Bool(Truth[text] = "true")

\* Sheet::cell, Sheet::set_cell.
CellOf(sheet, cell) == IF cell \in DOMAIN sheet.cells THEN sheet.cells[cell] ELSE Blank

WithCell(cells, cell, value) ==
    [c \in DOMAIN cells \cup {cell} |-> IF c = cell THEN value ELSE cells[c]]

\* Mutant of SetCell: a blank leaves what was there.
SetCellKeepsOld(sheet, cell, value) ==
    [name |-> sheet.name,
     cells |-> IF value = Blank THEN sheet.cells ELSE WithCell(sheet.cells, cell, value)]

SetCell(sheet, cell, value) ==
    [name |-> sheet.name,
     cells |-> IF value = Blank THEN [c \in DOMAIN sheet.cells \ {cell} |-> sheet.cells[c]]
                                ELSE WithCell(sheet.cells, cell, value)]

\* The members of a finite set in the order of their places; cells by rows,
\* then columns, and in the order of the map, by columns, then rows.
InOrder(S, place) ==
    [i \in 1..Cardinality(S) |->
        CHOOSE x \in S : Cardinality({y \in S : place[y] < place[x]}) = i - 1]
RowsFirst(cells) == InOrder(cells, [c \in cells |-> c.row * (MaxIndex + 1) + c.column])
ColumnsFirst(cells) == InOrder(cells, [c \in cells |-> c.column * (MaxIndex + 1) + c.row])

NoSheet == [name |-> None, cells |-> <<>>]

\* A sheet from cells set one after the other, each with its A1 text: the last
\* value set in a cell counts, and a blank empties it.  A reference or a value
\* that does not convert refuses them all.
SheetOf(name, writes) ==
    LET cell == [i \in 1..Len(writes) |-> ParseCell(writes[i].at)]
        last(c) == writes[Max({i \in 1..Len(writes) : cell[i] = c})].value
    IN IF \E i \in 1..Len(writes) : cell[i] = None \/ writes[i].value = None
       THEN NoSheet
       ELSE [name |-> name,
             cells |-> [c \in {d \in ToSet(cell) : last(d) # Blank} |-> last(c)]]

\* The expression a document holds: the name and the cells in map order, a
\* number by its canonical text in the rational domain.
ValueToExpr(value) ==
    [kind |-> value.kind, equals |-> value.equals, truth |-> value.ratio = <<1, 1>>,
     literal |-> IF value.kind = "number" THEN Canonical(value.ratio) ELSE value.text]
ValueFromExpr(expr) ==
    CASE expr.kind = "blank" -> Blank
      [] expr.kind = "text" -> Text(expr.literal)
      [] expr.kind = "bool" -> Bool(expr.truth)
      [] expr.kind = "formula" -> Formula(expr.literal, expr.equals)
      [] expr.kind = "number" ->
            LET ratio == RationalFromStr(Spelling[expr.literal])
            IN IF ratio = None THEN None ELSE Number(ratio)
      [] OTHER -> None

SheetToExpr(sheet) ==
    LET order == ColumnsFirst(DOMAIN sheet.cells)
    IN [name |-> sheet.name,
        cells |-> [i \in 1..Len(order) |->
                      [at |-> Display(order[i]), value |-> ValueToExpr(sheet.cells[order[i]])]]]
SheetFromExpr(expr) ==
    SheetOf(expr.name, [i \in 1..Len(expr.cells) |->
                           [at |-> expr.cells[i].at, value |-> ValueFromExpr(expr.cells[i].value)]])

\* A value, and a sheet, that some program can hold.
IsValue(v) ==
    \/ v = Blank
    \/ \E t \in Texts : v = Text(t) \/ (Exact(t) # None /\ v = Number(Exact(t)))
    \/ \E b \in BOOLEAN : v = Bool(b)
    \/ v.text \in Texts /\ v.equals \in Nat /\ v = Formula(v.text, v.equals)
IsSheet(s) ==
    /\ s.name \in Texts
    /\ s = [name |-> s.name, cells |-> [c \in DOMAIN s.cells |-> s.cells[c]]]
    /\ IsFiniteSet(DOMAIN s.cells) /\ DOMAIN s.cells \subseteq Cells
    /\ \A c \in DOMAIN s.cells : IsValue(s.cells[c]) /\ s.cells[c] # Blank

(***************************************************************************)
(* Documents and edits (doc.rs).                                           *)
(***************************************************************************)
SheetToDoc(id, sheet) == [kind |-> "sheet", id |-> id, body |-> SheetToExpr(sheet)]
DocToSheet(doc) == IF doc.kind = "sheet" THEN SheetFromExpr(doc.body) ELSE NoSheet

SetCellExpr(cell, value) ==
    [kind |-> "set-cell", at |-> Display(cell), value |-> ValueToExpr(value)]

\* set_cell_edit: the inverse is the cell as the given document has it.
SetCellEdit(doc, cell, value) ==
    [doc |-> doc.id, domain |-> "office/sheet",
     op |-> SetCellExpr(cell, value),
     inverse |-> SetCellExpr(cell, CellOf(DocToSheet(doc), cell))]
InvertEdit(edit) == [edit EXCEPT !.op = edit.inverse, !.inverse = edit.op]

\* apply_sheet_edit: of a sheet document, by an edit of it.
ApplySheetEdit(doc, edit) ==
    IF \/ doc.kind # "sheet" \/ edit.domain # "office/sheet" \/ edit.doc # doc.id
       \/ edit.op.kind # "set-cell"
       \/ ParseCell(edit.op.at) = None \/ ValueFromExpr(edit.op.value) = None
       \/ DocToSheet(doc) = NoSheet
    THEN NoDoc
    ELSE SheetToDoc(doc.id, SetCell(DocToSheet(doc), ParseCell(edit.op.at),
                                    ValueFromExpr(edit.op.value)))

\* decode_suite_intent: what a user did to a cell of a suite pane, as an edit in
\* the suite's own domain.  What was in the cell is not known there.
Nil == [ValueToExpr(Blank) EXCEPT !.kind = "nil"]
DecodeSuiteIntent(docs, intent) ==
    IF \/ intent.kind # "edit-field"
       \/ \A doc \in docs : doc.id # intent.target
       \/ intent.segment # "cell" \/ intent.at = None \/ intent.value = None
    THEN None
    ELSE [doc |-> intent.target, domain |-> "office/cell",
          op |-> [kind |-> "set-cell", at |-> intent.at, value |-> intent.value],
          inverse |-> [kind |-> "restore-cell", at |-> intent.at, value |-> Nil]]
===============================================================================
