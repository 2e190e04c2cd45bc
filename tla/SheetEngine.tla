------------------------------ MODULE SheetEngine ------------------------------
(***************************************************************************)
(* SheetFormulaEngine of sim-lib-sheet (formula.rs): cells and formulas    *)
(* are queries of an incremental engine that remembers their values, and   *)
(* set_cell and sync_sheet invalidate what a change makes stale.           *)
(*                                                                         *)
(* The incremental engine (sim_incremental_core, external) is modelled by  *)
(* its contract: verify reuses what is remembered, evaluates what is not,  *)
(* remembers every outcome but a cycle together with the cells observed,   *)
(* and invalidate forgets whatever observed the cell, directly or through  *)
(* other cells.                                                            *)
(*                                                                         *)
(* A formula is what its text makes the evaluator do: the cells it reads,  *)
(* from left to right, what it adds to them, and whether it then fails (a  *)
(* syntax error behind its reads, a division by a literal zero).           *)
(***************************************************************************)
EXTENDS Integers, Sequences, FiniteSetsExt, Functions

CONSTANTS Cell,
          CellValue,   \* the values callers put into cells
          Formula,     \* the formulas callers evaluate
          Sheet,       \* the sheets callers synchronize with
          None

Content == [kind: {"blank", "text", "number", "formula", "malformed"},
            reads: Seq(Cell), adds: Int, fails: BOOLEAN]
Blank == [kind |-> "blank", reads |-> <<>>, adds |-> 0, fails |-> FALSE]

ASSUME ValueAssumption == CellValue \subseteq Content /\ Blank \in CellValue
ASSUME FormulaAssumption == Formula \subseteq [kind: {"formula"}, reads: Seq(Cell), adds: Int, fails: BOOLEAN]
ASSUME SheetAssumption == Sheet \subseteq [Cell -> CellValue]

\* A CellRef is a row and a column of 32 bits each, and a FormulaKey is either a
\* cell or a formula.
ASSUME CellAssumption == IsFiniteSet(Cell) /\ Cell \cap Formula = {}

Outcomes == [kind: {"number", "non_numeric", "failed", "cycle"}, number: Int, cell: Cell \cup {None}]
Memo == [value: Outcomes, observed: SUBSET Cell]

ASSUME NoneAssumption == None \notin Content \cup Cell \cup Memo

VARIABLES
    source,      \* SharedSource: cell -> content, None where there is none
    registered,  \* registered_cells
    memos,       \* the incremental engine: key -> what it remembers
    sheet,       \* history: the cells as the calls have described them
    answer       \* the answer to eval_formula, until the cells change

vars == <<source, registered, memos, sheet, answer>>

Key == Cell \cup Formula

\* The outcome of a query: Ok(number), a FormulaFailure, or a cycle.
Outcome(kind, number, cell) == [kind |-> kind, number |-> number, cell |-> cell]
Number(n) == Outcome("number", n, None)
NonNumericCell(c) == Outcome("non_numeric", 0, c)
Failed == Outcome("failed", 0, None)
Cycle == Outcome("cycle", 0, None)

Init ==
    /\ source = [c \in Cell |-> None]
    /\ registered = {}
    /\ memos = [k \in Key |-> None]
    /\ sheet = [c \in Cell |-> Blank]
    /\ answer = None

(***************************************************************************)
(* Evaluating a formula over the outcomes of the cells                     *)
(***************************************************************************)
\* The reads that stop the evaluation of a formula.
Stops(formula, value) == {i \in DOMAIN formula.reads : value[formula.reads[i]].kind # "number"}

\* evaluate_formula_source: the first read that is no number decides.
Evaluate(formula, value) ==
    LET stops == Stops(formula, value)
    IN IF stops # {} THEN value[formula.reads[Min(stops)]]
       ELSE IF formula.fails THEN Failed
       ELSE Number(formula.adds
                   + SumFunctionOnSet([i \in DOMAIN formula.reads |-> value[formula.reads[i]].number],
                                      DOMAIN formula.reads))

\* The cells it has read by then.
CellsRead(formula, value) ==
    LET stops == Stops(formula, value)
    IN {formula.reads[i] : i \in {j \in DOMAIN formula.reads : \A s \in stops : j <= s}}

Numeric(content) == content # None /\ content.kind \in {"number", "formula"}

\* eval_cell_query.
CellOutcome(c, content, value) ==
    IF Numeric(content) THEN Evaluate(content, value) ELSE NonNumericCell(c)

(***************************************************************************)
(* The incremental engine                                                  *)
(***************************************************************************)
\* The outcome of every cell: remembered, or evaluated while no cell under
\* evaluation is read again.
Verified ==
    LET V[active \in SUBSET Cell] ==
            [c \in Cell |->
                IF memos[c] # None THEN memos[c].value
                ELSE IF c \notin registered THEN NonNumericCell(c)
                ELSE IF c \in active THEN Cycle
                ELSE CellOutcome(c, source[c], V[active \cup {c}])]
    IN V[{}]

\* What verifying f evaluates anew: f, and the registered cells read on the way.
Demanded(f, reads) ==
    {k \in Key : \A S \in SUBSET Key :
        (f \in S /\ \A j \in S : memos[j] = None =>
                        \A c \in reads[j] : c \in registered => c \in S) => k \in S}

\* invalidate: forget what observed one of the cells, and what observed that.
Invalidated(cells) ==
    LET stale == {k \in Key : \A S \in SUBSET Key :
                     (\A j \in Key : memos[j] # None /\ memos[j].observed \cap (cells \cup S) # {}
                                       => j \in S) => k \in S}
    IN [k \in Key |-> IF k \in stale THEN None ELSE memos[k]]

(***************************************************************************)
(* The calls                                                               *)
(***************************************************************************)
\* EngineCellValue::from_cell_value: a blank cell has no content.
FromCellValue(value) == IF value.kind = "blank" THEN None ELSE value

\* Mutant of SetCell: a cell set to blank is not invalidated.
SetCellForgetful(c, value) ==
    /\ registered' = registered \cup {c}
    /\ source' = [source EXCEPT ![c] = FromCellValue(value)]
    /\ memos' = IF FromCellValue(value) \in {None, source[c]} THEN memos ELSE Invalidated({c})
    /\ sheet' = [sheet EXCEPT ![c] = value]
    /\ answer' = None

\* The query is registered before the value is converted, and stays when that
\* fails; a value equal to the present one invalidates nothing.
SetCell(c, value) ==
    /\ registered' = registered \cup {c}
    /\ \/ /\ value.kind = "malformed"
          /\ UNCHANGED <<source, memos, sheet, answer>>
       \/ /\ value.kind # "malformed"
          /\ source' = [source EXCEPT ![c] = FromCellValue(value)]
          /\ memos' = IF source'[c] = source[c] THEN memos ELSE Invalidated({c})
          /\ sheet' = [sheet EXCEPT ![c] = value]
          /\ answer' = None

\* replace_source over the cells of the current and the next source.
Entries(cells) == {c \in Cell : cells[c] # None}

\* Mutant of Changed: only the cells of the next source are compared.
ChangedNext(next) == {c \in Entries(next) : source[c] # next[c]}

Changed(next) == {c \in Entries(source) \cup Entries(next) : source[c] # next[c]}

\* sync_sheet: nothing happens unless every value converts.
SyncSheet(cells) ==
    LET next == [c \in Cell |-> FromCellValue(cells[c])]
    IN /\ \A c \in Cell : cells[c].kind # "malformed"
       /\ registered' = registered \cup Entries(source) \cup Entries(next)
       /\ source' = next
       /\ memos' = Invalidated(Changed(next))
       /\ sheet' = cells
       /\ answer' = None

\* Mutant of Observed: a cell query does not observe its own epoch.
ObservedReads(k, reads) == reads

\* What a remembered outcome depends on: the cells read, missing ones
\* included, and for a cell its own epoch.
Observed(k, reads) == reads \cup {c \in Cell : c = k}

\* eval_formula: the formula query is registered, which nothing else can tell,
\* and verified.
EvalFormula(f) ==
    LET value == Verified
        reads == [k \in Key |-> IF k \notin Cell THEN CellsRead(k, value)
                                ELSE IF Numeric(source[k]) THEN CellsRead(source[k], value)
                                ELSE {}]
        OutcomeOf(k) == IF memos[k] # None THEN memos[k].value
                        ELSE IF k \in Cell THEN value[k]
                        ELSE Evaluate(k, value)
        fresh == {k \in Demanded(f, reads) : memos[k] = None /\ OutcomeOf(k) # Cycle}
    IN /\ memos' = [k \in Key |->
                       IF k \in fresh
                       THEN [value |-> OutcomeOf(k), observed |-> Observed(k, reads[k])]
                       ELSE memos[k]]
       /\ answer' = [formula |-> f, value |-> OutcomeOf(f)]
       /\ UNCHANGED <<source, registered, sheet>>

Next ==
    \/ \E c \in Cell, value \in CellValue : SetCell(c, value)
    \/ \E cells \in Sheet : SyncSheet(cells)
    \/ \E f \in Formula : EvalFormula(f)

Spec == Init /\ [][Next]_vars

(***************************************************************************)
(* Properties                                                              *)
(***************************************************************************)
\* A full recomputation from the cells, which remembers nothing.
Recomputed ==
    LET V[active \in SUBSET Cell] ==
            [c \in Cell |-> IF c \in active THEN Cycle
                            ELSE CellOutcome(c, sheet[c], V[active \cup {c}])]
    IN V[{}]

\* However cells were set, cleared and synchronized, in whatever order formulas
\* were evaluated in between, eval_formula answers as a full recomputation over
\* the cells does (tests.rs, repeated_edits_match_full_recomputation).
AnswersCurrent ==
    answer # None => answer.value = Evaluate(answer.formula, Recomputed)

\* Nothing remembered is stale, whether or not it is ever asked for again.
MemosCurrent ==
    \A k \in Key : memos[k] # None =>
        memos[k].value = IF k \in Cell THEN Recomputed[k] ELSE Evaluate(k, Recomputed)

\* A formula is refused as cyclic only when some cell it reaches reaches
\* itself, and always when it reaches such a cell and nothing it reaches stops
\* the evaluation before: no remembered value hides a cycle closed later.
Links == {cd \in Cell \X Cell : cd[2] \in {sheet[cd[1]].reads[i] : i \in DOMAIN sheet[cd[1]].reads}}

ReachedFrom(cells) ==
    {c \in Cell : \A S \in SUBSET Cell :
        (cells \subseteq S /\ \A l \in Links : l[1] \in S => l[2] \in S) => c \in S}

CyclesReported ==
    answer # None =>
        LET reads == {answer.formula.reads[i] : i \in DOMAIN answer.formula.reads}
            reached == ReachedFrom(reads)
            cyclic == \E c \in reached : c \in ReachedFrom({l[2] : l \in {m \in Links : m[1] = c}})
            unstopped == \A c \in reached : Numeric(sheet[c]) /\ ~sheet[c].fails
        IN /\ answer.value = Cycle => cyclic
           /\ cyclic /\ unstopped => answer.value = Cycle
================================================================================
