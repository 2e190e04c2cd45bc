------------------------------ MODULE GraphRanges ------------------------------
(***************************************************************************)
(* Sheets as ranges of a workbook behind Microsoft Graph: graph.rs of      *)
(* sim-lib-sheet.  A write is planned as an edit that carries the values   *)
(* of the range; a read makes a sheet of an answer.  The values are JSON   *)
(* scalars, and only their shape tells what a cell was.                    *)
(***************************************************************************)
EXTENDS SheetDocument

\* A scalar: its JSON type, its characters behind any equals signs, how many
\* these are, and a truth value.
Scalar(json, text, equals, truth) ==
    [json |-> json, text |-> text, equals |-> equals, truth |-> truth]

\* An address: its first and last cell, or one cell twice.
Address(first, last) == [first |-> first, last |-> last]
RangeBounds(address) == <<ParseCell(address.first), ParseCell(address.last)>>

\* The cells of a range, row by row.
Column(k, width) == (k - 1) % width
Row(k, width) == (k - 1) \div width

\* cell_value_to_bridge_expr: numbers travel as their canonical text.
BridgeValue(value) ==
    CASE value.kind = "blank" -> Scalar("null", Empty, 0, FALSE)
      [] value.kind = "bool" -> Scalar("bool", Empty, 0, value.ratio = <<1, 1>>)
      [] value.kind = "number" -> Scalar("string", Canonical(value.ratio), 0, FALSE)
      [] OTHER -> Scalar("string", value.text, value.equals, FALSE)

\* plan_write_graph_range: refused for a range that ends before it starts; it
\* keeps nothing to invert the write with.
PlanWriteRange(doc, target) ==
    LET sheet == DocToSheet(doc)
        bounds == RangeBounds(target.range)
        first == bounds[1]
        last == bounds[2]
        width == last.column - first.column + 1
    IN IF sheet = NoSheet \/ None \in {first, last} THEN Refused
       ELSE IF last.column < first.column \/ last.row < first.row THEN Refused
       ELSE Answered(
              [doc |-> <<"site/msgraph", target>>, domain |-> "office/sheet/graph-range",
               inverse |-> None,
               op |-> [address |-> target.range, width |-> width,
                       values |-> [k \in 1..(width * (last.row - first.row + 1)) |->
                          BridgeValue(CellOf(sheet, Cell(first.column + Column(k, width),
                                                         first.row + Row(k, width))))]]], {})

\* cell_value_from_json: text that spells an exact number becomes one, text
\* that begins with an equals sign a formula; what is no scalar is refused.
ScalarValue(scalar) ==
    CASE scalar.json = "null" -> Blank
      [] scalar.json = "bool" -> Bool(scalar.truth)
      [] scalar.json = "number" -> NumberOf(scalar.text)
      [] scalar.json = "string" ->
            LET ratio == RationalFromStr(Spelling[scalar.text])
            IN IF scalar.equals > 0 THEN Formula(scalar.text, scalar.equals)
               ELSE IF scalar.text = Empty THEN Blank
               ELSE IF ratio = None THEN Text(scalar.text) ELSE Number(ratio)
      [] OTHER -> None

\* Values that a service answers with.
IsScalars(values) ==
    /\ IsList(values)
    /\ \A s \in ToSet(values) : s.text \in Texts /\ s.equals \in Nat /\ s.truth \in BOOLEAN

\* graph_range_json_to_sheet: the answer names its address, or it is the one
\* asked for; columns and rows are added in u32.
Wrapped(n) == n % (MaxIndex + 1)
ReadRange(target, answer) ==
    LET address == IF answer.address = None THEN target.range ELSE answer.address
        start == RangeBounds(address)[1]
        cells == [k \in 1..Len(answer.values) |->
                     [at |-> Display(Cell(Wrapped(start.column + Column(k, answer.width)),
                                          Wrapped(start.row + Row(k, answer.width)))),
                      value |-> ScalarValue(answer.values[k])]]
    IN IF None \in {RangeBounds(address)[i] : i \in 1..2} THEN NoSheet
       ELSE SheetOf(target.worksheet, cells)
===============================================================================
