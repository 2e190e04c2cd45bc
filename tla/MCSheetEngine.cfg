SPECIFICATION Spec
CONSTANTS
    a = a
    b = b
    c = c
    None = None
    Cell = {a, b, c}
    CellValue <- MCCellValue
    Formula <- MCFormula
    Sheet <- MCSheet
INVARIANTS
    AnswersCurrent
    MemosCurrent
    CyclesReported
