----------------------------- MODULE MCSheetEngine -----------------------------
(* A small instance of SheetEngine for TLC. *)
EXTENDS SheetEngine

CONSTANTS a, b, c

Plain(kind, n) == [kind |-> kind, reads |-> <<>>, adds |-> n, fails |-> FALSE]
Reading(cells, n) == [kind |-> "formula", reads |-> cells, adds |-> n, fails |-> FALSE]
Failing(cells) == [kind |-> "formula", reads |-> cells, adds |-> 0, fails |-> TRUE]

\* Formulas for chains, cycles of one, two and three cells, a cell read twice,
\* and a read that hides behind a failing one.
MCCellValue ==
    {Blank, Plain("text", 0), Plain("malformed", 0), Plain("number", 1), Plain("number", 2),
     Reading(<<b>>, 1), Reading(<<c, a>>, 0), Reading(<<c, c>>, 0), Failing(<<b>>)}

MCFormula == {Reading(<<a>>, 0), Reading(<<b, a>>, 1)}

\* Sheets that clear, replace and add cells at once, and one that cannot be
\* converted.
MCSheet ==
    {[x \in Cell |-> Blank],
     [x \in Cell |-> IF x = a THEN Reading(<<b>>, 1) ELSE Plain("number", 1)],
     [x \in Cell |-> IF x = b THEN Reading(<<c, a>>, 0) ELSE Plain("malformed", 0)]}
================================================================================
