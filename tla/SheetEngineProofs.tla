-------------------------- MODULE SheetEngineProofs --------------------------
(***************************************************************************)
(* What the sheet formula engine answers, for any finite grid of cells and *)
(* any values, formulas and sheets: nothing remembered is stale, every     *)
(* answer is that of a full recomputation, and cycles are reported         *)
(* exactly.                                                                *)
(*                                                                         *)
(* Verified and Recomputed are recursive functions on the set of cells     *)
(* under evaluation; that they have a solution, and what it satisfies, is  *)
(* proved from a largest counterexample among the sets of cells.  The      *)
(* outcomes from outside are a fixpoint (Fixpoint), knowing some of them   *)
(* beforehand changes none (KnownAgrees), and what an invalidation leaves  *)
(* is true of the new contents (RemainingCurrent).                         *)
(*                                                                         *)
(* MemosCurrent is not inductive: EngineOK adds that a memo observes all   *)
(* it has read, and that what it observes is remembered too or is blank.   *)
(***************************************************************************)
EXTENDS SheetEngine, FiniteSetTheorems, FunctionTheorems, WellFoundedInduction, TLAPS

(***************************************************************************)
(* Finite sets                                                             *)
(***************************************************************************)
LEMMA LeastNatural ==
    ASSUME NEW S \in SUBSET Nat, S # {}
    PROVE  \E m \in S : \A y \in S : m <= y
<1>1. PICK m \in S : \A y \in S : ~(<<y, m>> \in OpToRel(<, Nat))
  BY NatLessThanWellFounded, WFMin
<1>2. \A y \in S : ~(y < m)
  BY <1>1 DEF OpToRel
<1> QED
  BY <1>2

LEMMA MinimalMember ==
    ASSUME NEW S, IsFiniteSet(S), NEW T \in SUBSET SUBSET S, T # {}
    PROVE  \E A \in T : \A B \in T : B \subseteq A => B = A
<1>. DEFINE sizes == {Cardinality(A) : A \in T}
<1>1. \A A \in T : IsFiniteSet(A) /\ Cardinality(A) \in Nat
  BY FS_Subset, FS_CardinalityType
<1>2. sizes \in SUBSET Nat /\ sizes # {}
  BY <1>1
<1>3. PICK least \in sizes : \A s \in sizes : least <= s
  <2>. HIDE DEF sizes
  <2> QED
    BY <1>2, LeastNatural
<1>4. PICK A \in T : least = Cardinality(A)
  OBVIOUS
<1>5. ASSUME NEW B \in T, B \subseteq A PROVE B = A
  <2>1. Cardinality(A) <= Cardinality(B)
    BY <1>3, <1>4
  <2>2. Cardinality(B) <= Cardinality(A) /\ (Cardinality(A) = Cardinality(B) => A = B)
    BY <1>1, <1>5, FS_Subset
  <2> QED
    BY <1>1, <2>1, <2>2
<1> QED
  BY <1>5

LEMMA MaximalMember ==
    ASSUME NEW S, IsFiniteSet(S), NEW T \in SUBSET SUBSET S, T # {}
    PROVE  \E A \in T : \A B \in T : A \subseteq B => B = A
<1>. DEFINE U == {S \ A : A \in T}
<1>1. U \in SUBSET SUBSET S /\ U # {}
  <2>1. \A x \in U : x \in SUBSET S
    OBVIOUS
  <2>2. U # {}
    <3>1. PICK A \in T : TRUE
      OBVIOUS
    <3>2. S \ A \in U
      OBVIOUS
    <3> QED
      BY <3>2
  <2>. HIDE DEF U
  <2> QED
    BY <2>1, <2>2
<1>2. PICK C \in U : \A D \in U : D \subseteq C => D = C
  <2>. HIDE DEF U
  <2> QED
    BY <1>1, MinimalMember
<1>3. PICK A \in T : C = S \ A
  OBVIOUS
<1>4. ASSUME NEW B \in T, A \subseteq B PROVE B = A
  <2>1. S \ B \in U /\ S \ B \subseteq C
    BY <1>3, <1>4
  <2>2. S \ B = C
    BY <1>2, <2>1
  <2>3. A \subseteq S /\ B \subseteq S
    OBVIOUS
  <2> QED
    BY <1>3, <1>4, <2>2, <2>3
<1> QED
  BY <1>4

(***************************************************************************)
(* Sums                                                                    *)
(***************************************************************************)
SumTurn(f, G, s) ==
    IF s = {} THEN 0 ELSE f[CHOOSE x \in s : TRUE] + G[s \ {CHOOSE x \in s : TRUE}]

LEMMA SumByTurns ==
    ASSUME NEW f, NEW S
    PROVE  SumFunctionOnSet(f, S)
              = (CHOOSE G : G = [s \in SUBSET S |-> SumTurn(f, G, s)])[S]
  BY DEF SumFunctionOnSet, FoldFunctionOnSet, MapThenFoldSet, SumTurn

\* A recursion on sets has a solution: each turn is right for one member more.
LEMMA SumSolved ==
    ASSUME NEW f, NEW S, IsFiniteSet(S)
    PROVE  \E G : G = [s \in SUBSET S |-> SumTurn(f, G, s)]
<1>. DEFINE Right(G, n) == \A s \in SUBSET S : Cardinality(s) < n => G[s] = SumTurn(f, G, s)
            wrong == {n \in Nat : ~ \E G : Right(G, n)}
            Next1(G) == [s \in SUBSET S |-> SumTurn(f, G, s)]
<1>1. \A s \in SUBSET S : IsFiniteSet(s) /\ Cardinality(s) \in Nat
  BY FS_Subset, FS_CardinalityType
<1>2. ASSUME NEW G, NEW n \in Nat, Right(G, n) PROVE Right(Next1(G), n + 1)
  <2> SUFFICES ASSUME NEW s \in SUBSET S, Cardinality(s) < n + 1
               PROVE  SumTurn(f, G, s) = SumTurn(f, Next1(G), s)
    OBVIOUS
  <2>1. CASE s = {}
    BY <2>1 DEF SumTurn
  <2>2. CASE s # {}
    <3>1. PICK x \in s : x = CHOOSE y \in s : TRUE
      BY <2>2
    <3>2. Cardinality(s \ {x}) = Cardinality(s) - 1 /\ s \ {x} \in SUBSET S
      BY <1>1, <3>1, FS_RemoveElement
    <3>3. G[s \ {x}] = Next1(G)[s \ {x}]
      BY <1>1, <1>2, <3>2
    <3>. HIDE DEF Next1
    <3> QED
      BY <2>2, <3>1, <3>3 DEF SumTurn
  <2> QED
    BY <2>1, <2>2
<1>3. wrong = {}
  <2>1. SUFFICES ASSUME wrong # {} PROVE FALSE
    OBVIOUS
  <2>2. wrong \in SUBSET Nat
    OBVIOUS
  <2>3. PICK n \in wrong : \A m \in wrong : n <= m
    <3>. HIDE DEF wrong
    <3> QED
      BY <2>1, <2>2, LeastNatural
  <2>4. CASE n = 0
    <3>1. Right([s \in SUBSET S |-> 0], 0)
      BY <1>1
    <3>. HIDE DEF Right
    <3> QED
      BY <2>4, <3>1
  <2>5. CASE n # 0
    <3>1. n - 1 \in Nat /\ n - 1 \notin wrong /\ n = (n - 1) + 1
      BY <2>3, <2>5
    <3>. HIDE DEF Right, Next1
    <3>2. PICK G : Right(G, n - 1)
      BY <3>1
    <3>3. Right(Next1(G), (n - 1) + 1)
      BY <1>2, <3>1, <3>2
    <3> QED
      BY <3>1, <3>3
  <2> QED
    BY <2>4, <2>5
<1>4. Cardinality(S) + 1 \in Nat /\ Cardinality(S) \in Nat
  BY FS_CardinalityType
<1>5. PICK G : Right(G, Cardinality(S) + 1)
  <2>. HIDE DEF Right
  <2> QED
    BY <1>3, <1>4
<1>6. \A s \in SUBSET S : G[s] = SumTurn(f, G, s)
  <2> SUFFICES ASSUME NEW s \in SUBSET S PROVE Cardinality(s) < Cardinality(S) + 1
    BY <1>5
  <2> QED
    BY <1>1, <1>4, FS_Subset
<1>7. Next1(G) = Next1(Next1(G))
  <2>1. ASSUME NEW s \in SUBSET S PROVE SumTurn(f, G, s) = SumTurn(f, Next1(G), s)
    <3>1. CASE s = {}
      BY <3>1 DEF SumTurn
    <3>2. CASE s # {}
      <4>1. PICK x \in s : x = CHOOSE y \in s : TRUE
        BY <3>2
      <4>2. s \ {x} \in SUBSET S
        OBVIOUS
      <4>3. G[s \ {x}] = Next1(G)[s \ {x}]
        BY <1>6, <4>2
      <4>. HIDE DEF Next1
      <4> QED
        BY <3>2, <4>1, <4>3 DEF SumTurn
    <3> QED
      BY <3>1, <3>2
  <2> QED
    BY <2>1
<1> QED
  BY <1>7

LEMMA SumIsInteger ==
    ASSUME NEW S, IsFiniteSet(S), NEW f, \A x \in S : f[x] \in Int
    PROVE  SumFunctionOnSet(f, S) \in Int
<1>. DEFINE P(G) == G = [s \in SUBSET S |-> SumTurn(f, G, s)]
<1>1. PICK G : G = (CHOOSE H : P(H)) /\ P(G)
  <2>1. \E H : P(H)
    BY SumSolved
  <2> QED
    BY <2>1
<1>2. SumFunctionOnSet(f, S) = G[S]
  BY <1>1, SumByTurns
<1>. DEFINE bad == {s \in SUBSET S : G[s] \notin Int}
<1>3. SUFFICES ASSUME bad # {} PROVE FALSE
  BY <1>2
<1>4. PICK s \in bad : \A t \in bad : t \subseteq s => t = s
  <2>1. bad \in SUBSET SUBSET S
    OBVIOUS
  <2>. HIDE DEF bad
  <2> QED
    BY <1>3, <2>1, MinimalMember
<1>5. G[s] = SumTurn(f, G, s)
  <2>. HIDE DEF SumTurn
  <2> QED
    BY <1>1
<1>6. s # {}
  BY <1>4, <1>5 DEF SumTurn
<1>7. PICK x \in s : x = CHOOSE y \in s : TRUE
  BY <1>6
<1>8. G[s \ {x}] \in Int
  BY <1>4, <1>7
<1> QED
  BY <1>4, <1>5, <1>6, <1>7, <1>8 DEF SumTurn

(***************************************************************************)
(* Evaluating a formula                                                    *)
(***************************************************************************)
Values == [Cell -> Outcomes]

LEMMA ReadsOf ==
    ASSUME NEW f \in Content
    PROVE  /\ Len(f.reads) \in Nat /\ DOMAIN f.reads = 1..Len(f.reads)
           /\ \A i \in DOMAIN f.reads : i \in Nat /\ f.reads[i] \in Cell
           /\ f.adds \in Int
<1>1. f.reads \in Seq(Cell) /\ f.adds \in Int
  BY DEF Content
<1> QED
  BY <1>1

LEMMA StopsOf ==
    ASSUME NEW f \in Content, NEW v, Stops(f, v) # {}
    PROVE  Min(Stops(f, v)) \in Stops(f, v) /\ \A s \in Stops(f, v) : Min(Stops(f, v)) <= s
<1>. DEFINE S == Stops(f, v)
<1>1. S \in SUBSET Nat
  BY ReadsOf DEF Stops
<1>. HIDE DEF S
<1>2. \E m \in S : \A y \in S : m <= y
  BY <1>1, LeastNatural DEF S
<1>3. Min(S) \in S /\ \A y \in S : Min(S) <= y
  BY <1>2 DEF Min
<1> QED
  BY <1>3 DEF S

\* Where the evaluation stops, and what it has read by then.
LEMMA StoppedAt ==
    ASSUME NEW f \in Content, NEW v, Stops(f, v) # {}
    PROVE  \E m \in DOMAIN f.reads :
              /\ v[f.reads[m]].kind # "number"
              /\ \A i \in DOMAIN f.reads : i < m => v[f.reads[i]].kind = "number"
              /\ Evaluate(f, v) = v[f.reads[m]]
              /\ CellsRead(f, v) = {f.reads[i] : i \in {j \in DOMAIN f.reads : j <= m}}
<1>1. PICK m \in Stops(f, v) : m = Min(Stops(f, v)) /\ \A s \in Stops(f, v) : m <= s
  BY StopsOf
<1>2. m \in DOMAIN f.reads /\ v[f.reads[m]].kind # "number"
  BY DEF Stops
<1>3. \A i \in DOMAIN f.reads : i \in Nat
  BY ReadsOf
<1>4. \A i \in DOMAIN f.reads : i < m => v[f.reads[i]].kind = "number"
  <2>1. ASSUME NEW i \in DOMAIN f.reads, i < m PROVE i \notin Stops(f, v)
    <3>1. i \in Nat /\ m \in Nat
      BY <1>2, <1>3
    <3> QED
      BY <1>1, <2>1, <3>1
  <2> QED
    BY <2>1 DEF Stops
<1>5. Evaluate(f, v) = v[f.reads[m]]
  BY <1>1 DEF Evaluate
<1>6. \A j \in DOMAIN f.reads : (\A s \in Stops(f, v) : j <= s) <=> j <= m
  <2>1. \A s \in Stops(f, v) : s \in Nat
    BY <1>3 DEF Stops
  <2> QED
    BY <1>1, <1>3, <2>1
<1>7. CellsRead(f, v) = {f.reads[i] : i \in {j \in DOMAIN f.reads : j <= m}}
  <2>1. {j \in DOMAIN f.reads : \A s \in Stops(f, v) : j <= s} = {j \in DOMAIN f.reads : j <= m}
    BY <1>6
  <2> QED
    BY <2>1 DEF CellsRead
<1> QED
  BY <1>2, <1>4, <1>5, <1>7

LEMMA Unstopped ==
    ASSUME NEW f \in Content, NEW v, Stops(f, v) = {}
    PROVE  /\ \A i \in DOMAIN f.reads : v[f.reads[i]].kind = "number"
           /\ CellsRead(f, v) = {f.reads[i] : i \in DOMAIN f.reads}
           /\ Evaluate(f, v).kind \in {"number", "failed"}
           /\ ~f.fails => Evaluate(f, v).kind = "number"
<1>1. \A i \in DOMAIN f.reads : v[f.reads[i]].kind = "number"
  BY DEF Stops
<1>2. CellsRead(f, v) = {f.reads[i] : i \in DOMAIN f.reads}
  BY DEF CellsRead
<1>3. Evaluate(f, v).kind \in {"number", "failed"} /\ (~f.fails => Evaluate(f, v).kind = "number")
  BY DEF Evaluate, Number, Failed, Outcome
<1> QED
  BY <1>1, <1>2, <1>3

LEMMA CellsReadAreRead ==
    ASSUME NEW f \in Content, NEW v
    PROVE  CellsRead(f, v) \subseteq {f.reads[i] : i \in DOMAIN f.reads} /\ CellsRead(f, v) \subseteq Cell
  BY ReadsOf DEF CellsRead

LEMMA EvaluateTyped ==
    ASSUME NEW f \in Content, NEW v \in Values
    PROVE  Evaluate(f, v) \in Outcomes
<1>1. CASE Stops(f, v) # {}
  BY <1>1, StoppedAt, ReadsOf DEF Values
<1>2. CASE Stops(f, v) = {}
  <2>1. PICK n : n = f.adds + SumFunctionOnSet([i \in DOMAIN f.reads |-> v[f.reads[i]].number], DOMAIN f.reads)
    OBVIOUS
  <2>. DEFINE g == [i \in DOMAIN f.reads |-> v[f.reads[i]].number]
  <2>2. IsFiniteSet(DOMAIN f.reads)
    BY ReadsOf, FS_Interval
  <2>3. \A i \in DOMAIN f.reads : g[i] \in Int
    BY ReadsOf DEF Values, Outcomes
  <2>4. SumFunctionOnSet(g, DOMAIN f.reads) \in Int
    <3>. HIDE DEF g
    <3> QED
      BY <2>2, <2>3, SumIsInteger
  <2>5. n \in Int
    BY <2>1, <2>4, ReadsOf
  <2>6. Evaluate(f, v) \in {Failed, Number(n)}
    BY <1>2, <2>1 DEF Evaluate
  <2> QED
    BY <2>5, <2>6 DEF Failed, Number, Outcome, Outcomes
<1> QED
  BY <1>1, <1>2

\* An evaluation depends on the cells it reads alone.
LEMMA EvaluateSame ==
    ASSUME NEW f \in Content, NEW v, NEW w, \A c \in CellsRead(f, v) : w[c] = v[c]
    PROVE  Evaluate(f, w) = Evaluate(f, v) /\ CellsRead(f, w) = CellsRead(f, v)
<1>1. CASE Stops(f, v) = {}
  <2>1. \A i \in DOMAIN f.reads : w[f.reads[i]] = v[f.reads[i]]
    BY <1>1, Unstopped
  <2>2. Stops(f, w) = {}
    BY <1>1, <2>1 DEF Stops
  <2>3. [i \in DOMAIN f.reads |-> w[f.reads[i]].number] = [i \in DOMAIN f.reads |-> v[f.reads[i]].number]
    BY <2>1
  <2>4. Evaluate(f, w) = Evaluate(f, v)
    BY <1>1, <2>2, <2>3, Zenon DEF Evaluate
  <2>5. CellsRead(f, v) = {f.reads[i] : i \in DOMAIN f.reads}
    BY <1>1, Unstopped, Zenon
  <2>6. CellsRead(f, w) = {f.reads[i] : i \in DOMAIN f.reads}
    BY <2>2, Unstopped, Zenon
  <2> QED
    BY <2>4, <2>5, <2>6, Zenon
<1>2. CASE Stops(f, v) # {}
  <2>1. PICK m \in DOMAIN f.reads :
              /\ v[f.reads[m]].kind # "number"
              /\ \A i \in DOMAIN f.reads : i < m => v[f.reads[i]].kind = "number"
              /\ Evaluate(f, v) = v[f.reads[m]]
              /\ CellsRead(f, v) = {f.reads[i] : i \in {j \in DOMAIN f.reads : j <= m}}
    BY <1>2, StoppedAt
  <2>2. \A i \in DOMAIN f.reads : i <= m => w[f.reads[i]] = v[f.reads[i]]
    BY <2>1
  <2>3. m \in Stops(f, w)
    BY <2>1, <2>2, ReadsOf DEF Stops
  <2>4. PICK n \in DOMAIN f.reads :
              /\ w[f.reads[n]].kind # "number"
              /\ \A i \in DOMAIN f.reads : i < n => w[f.reads[i]].kind = "number"
              /\ Evaluate(f, w) = w[f.reads[n]]
              /\ CellsRead(f, w) = {f.reads[i] : i \in {j \in DOMAIN f.reads : j <= n}}
    BY <2>3, StoppedAt
  <2>5. m \in Nat /\ n \in Nat
    BY ReadsOf
  <2>6. ~(m < n) /\ ~(n < m)
    BY <2>1, <2>2, <2>4, <2>5
  <2>7. m = n
    BY <2>5, <2>6
  <2> QED
    BY <2>1, <2>2, <2>4, <2>5, <2>7
<1> QED
  BY <1>1, <1>2

\* A cycle is what a cell read makes of the evaluation, and nothing else.
LEMMA EvaluateCycle ==
    ASSUME NEW f \in Content, NEW v
    PROVE  Evaluate(f, v) = Cycle <=> \E c \in CellsRead(f, v) : v[c] = Cycle
<1>1. Cycle.kind = "cycle"
  BY DEF Cycle, Outcome
<1>2. CASE Stops(f, v) = {}
  <2>1. \A c \in CellsRead(f, v) : v[c].kind = "number"
    BY <1>2, Unstopped
  <2> QED
    BY <1>1, <1>2, <2>1, Unstopped
<1>3. CASE Stops(f, v) # {}
  <2>1. PICK m \in DOMAIN f.reads :
              /\ v[f.reads[m]].kind # "number"
              /\ \A i \in DOMAIN f.reads : i < m => v[f.reads[i]].kind = "number"
              /\ Evaluate(f, v) = v[f.reads[m]]
              /\ CellsRead(f, v) = {f.reads[i] : i \in {j \in DOMAIN f.reads : j <= m}}
    BY <1>3, StoppedAt
  <2>2. f.reads[m] \in CellsRead(f, v)
    BY <2>1, ReadsOf
  <2>3. ASSUME NEW i \in DOMAIN f.reads, i <= m, v[f.reads[i]] = Cycle PROVE i = m
    BY <1>1, <2>1, <2>3, ReadsOf
  <2> QED
    BY <2>1, <2>2, <2>3
<1> QED
  BY <1>2, <1>3

\* An evaluation that is no cycle is the same wherever no cycle is hidden.
LEMMA EvaluateAgrees ==
    ASSUME NEW f \in Content, NEW v, NEW w, Evaluate(f, v) # Cycle,
           \A c \in CellsRead(f, v) : v[c] # Cycle => w[c] = v[c]
    PROVE  Evaluate(f, w) = Evaluate(f, v) /\ CellsRead(f, w) = CellsRead(f, v)
  BY EvaluateCycle, EvaluateSame

(***************************************************************************)
(* The outcomes of the cells                                               *)
(***************************************************************************)
Contents == [Cell -> Content \cup {None}]

\* The cells the query of a cell reads.
CellReads(content, v) == IF Numeric(content) THEN CellsRead(content, v) ELSE {}

LEMMA OutcomeTyped ==
    ASSUME NEW c \in Cell, NEW x \in Content \cup {None}, NEW v \in Values
    PROVE  CellOutcome(c, x, v) \in Outcomes /\ NonNumericCell(c) \in Outcomes /\ Cycle \in Outcomes
<1>1. NonNumericCell(c) \in Outcomes /\ Cycle \in Outcomes
  BY DEF NonNumericCell, Cycle, Outcome, Outcomes
<1>2. Numeric(x) => x \in Content
  BY DEF Numeric
<1> QED
  BY <1>1, <1>2, EvaluateTyped DEF CellOutcome

LEMMA OutcomeSame ==
    ASSUME NEW c, NEW x \in Content \cup {None}, NEW v, NEW w, \A d \in CellReads(x, v) : w[d] = v[d]
    PROVE  CellOutcome(c, x, w) = CellOutcome(c, x, v) /\ CellReads(x, w) = CellReads(x, v)
<1>1. Numeric(x) => x \in Content
  BY DEF Numeric
<1> QED
  BY <1>1, EvaluateSame DEF CellOutcome, CellReads

LEMMA OutcomeCycle ==
    ASSUME NEW c, NEW x \in Content \cup {None}, NEW v
    PROVE  CellOutcome(c, x, v) = Cycle <=> \E d \in CellReads(x, v) : v[d] = Cycle
<1>1. Numeric(x) => x \in Content
  BY DEF Numeric
<1>2. NonNumericCell(c) # Cycle
  BY DEF NonNumericCell, Cycle, Outcome
<1> QED
  BY <1>1, <1>2, EvaluateCycle DEF CellOutcome, CellReads

LEMMA OutcomeAgrees ==
    ASSUME NEW c, NEW x \in Content \cup {None}, NEW v, NEW w, CellOutcome(c, x, v) # Cycle,
           \A d \in CellReads(x, v) : v[d] # Cycle => w[d] = v[d]
    PROVE  CellOutcome(c, x, w) = CellOutcome(c, x, v) /\ CellReads(x, w) = CellReads(x, v)
  BY OutcomeCycle, OutcomeSame

LEMMA CellReadsCells ==
    ASSUME NEW x \in Content \cup {None}, NEW v
    PROVE  CellReads(x, v) \subseteq Cell
  BY CellsReadAreRead DEF CellReads, Numeric

\* One turn of the evaluation under the cells of A, over what is known.
Turn(known, pre, content, F, A) ==
    [c \in Cell |-> IF c \in known THEN pre[c]
                    ELSE IF c \in A THEN Cycle
                    ELSE CellOutcome(c, content[c], F[A \cup {c}])]

LEMMA TurnSolved ==
    ASSUME NEW known, NEW pre, NEW content
    PROVE  \E F : F = [A \in SUBSET Cell |-> Turn(known, pre, content, F, A)]
<1>. DEFINE Step(F) == [A \in SUBSET Cell |-> Turn(known, pre, content, F, A)]
            rank == [A \in SUBSET Cell |-> Cardinality(Cell \ A)]
            Right(F, n) == \A A \in SUBSET Cell :
                              rank[A] < n => F[A] = Turn(known, pre, content, F, A)
            wrong == {n \in Nat : ~ \E F : Right(F, n)}
<1>1. ASSUME NEW A \in SUBSET Cell
      PROVE  /\ rank[A] \in Nat /\ rank[A] <= Cardinality(Cell)
             /\ \A c \in Cell \ A : rank[A \cup {c}] = rank[A] - 1
  <2>1. PICK T \in SUBSET Cell : T = Cell \ A
    OBVIOUS
  <2>2. IsFiniteSet(T) /\ Cardinality(T) \in Nat /\ Cardinality(T) <= Cardinality(Cell)
    BY CellAssumption, FS_Subset, FS_CardinalityType
  <2>3. ASSUME NEW c \in T PROVE rank[A \cup {c}] = Cardinality(T) - 1
    <3>1. A \cup {c} \in SUBSET Cell /\ Cell \ (A \cup {c}) = T \ {c}
      BY <2>1
    <3>2. rank[A \cup {c}] = Cardinality(T \ {c})
      BY <3>1
    <3> QED
      BY <2>2, <3>2, FS_RemoveElement
  <2>4. rank[A] = Cardinality(T)
    BY <2>1
  <2>. HIDE DEF rank
  <2> QED
    BY <2>1, <2>2, <2>3, <2>4
<1>. HIDE DEF rank
<1>2. ASSUME NEW F, NEW A \in SUBSET Cell, \A c \in Cell \ A : F[A \cup {c}] = Step(F)[A \cup {c}]
      PROVE  Turn(known, pre, content, F, A) = Turn(known, pre, content, Step(F), A)
  <2>. HIDE DEF Step
  <2> QED
    BY <1>2 DEF Turn
<1>3. ASSUME NEW F, NEW n \in Nat, Right(F, n) PROVE Right(Step(F), n + 1)
  <2> SUFFICES ASSUME NEW A \in SUBSET Cell, rank[A] < n + 1
               PROVE  Turn(known, pre, content, F, A) = Turn(known, pre, content, Step(F), A)
    OBVIOUS
  <2> SUFFICES ASSUME NEW c \in Cell \ A PROVE F[A \cup {c}] = Step(F)[A \cup {c}]
    <3>. HIDE DEF Step, Right
    <3> QED
      BY <1>2
  <2>1. A \cup {c} \in SUBSET Cell
    OBVIOUS
  <2>2. rank[A \cup {c}] < n
    <3>1. rank[A] \in Nat /\ rank[A \cup {c}] = rank[A] - 1
      BY <1>1
    <3> QED
      BY <3>1
  <2> QED
    BY <1>3, <2>1, <2>2
<1>4. wrong = {}
  <2>1. SUFFICES ASSUME wrong # {} PROVE FALSE
    OBVIOUS
  <2>2. wrong \in SUBSET Nat
    OBVIOUS
  <2>3. PICK n \in wrong : \A m \in wrong : n <= m
    <3>. HIDE DEF wrong
    <3> QED
      BY <2>1, <2>2, LeastNatural
  <2>4. CASE n = 0
    <3>1. Right([A \in SUBSET Cell |-> {}], 0)
      BY <1>1
    <3>. HIDE DEF Right
    <3> QED
      BY <2>4, <3>1
  <2>5. CASE n # 0
    <3>1. n - 1 \in Nat /\ n - 1 \notin wrong /\ n = (n - 1) + 1
      <4>. HIDE DEF wrong
      <4> QED
        BY <2>2, <2>3, <2>5
    <3>. HIDE DEF Right, Step
    <3>2. PICK F : Right(F, n - 1)
      BY <3>1
    <3>3. Right(Step(F), (n - 1) + 1)
      BY <1>3, <3>1, <3>2
    <3> QED
      BY <3>1, <3>3
  <2> QED
    BY <2>4, <2>5
<1>5. Cardinality(Cell) + 1 \in Nat /\ Cardinality(Cell) \in Nat
  BY CellAssumption, FS_CardinalityType
<1>6. PICK F : Right(F, Cardinality(Cell) + 1)
  <2>. HIDE DEF Right
  <2> QED
    BY <1>4, <1>5
<1>7. \A A \in SUBSET Cell : F[A] = Step(F)[A]
  <2> SUFFICES ASSUME NEW A \in SUBSET Cell PROVE rank[A] < Cardinality(Cell) + 1
    BY <1>6
  <2> QED
    BY <1>1, <1>5
<1>8. Step(F) = Step(Step(F))
  <2>1. ASSUME NEW A \in SUBSET Cell
        PROVE  Turn(known, pre, content, F, A) = Turn(known, pre, content, Step(F), A)
    <3>1. \A c \in Cell \ A : F[A \cup {c}] = Step(F)[A \cup {c}]
      <4>. HIDE DEF Step
      <4> QED
        BY <1>7
    <3>. HIDE DEF Step
    <3> QED
      BY <1>2, <3>1
  <2> QED
    BY <2>1
<1> QED
  BY <1>8

\* F gives the outcome of every cell when the cells of known have those of pre
\* and the rest are evaluated, under any set of cells already being evaluated.
Computes(F, known, pre, content) ==
    /\ F \in [SUBSET Cell -> Values]
    /\ \A A \in SUBSET Cell, c \in Cell :
          F[A][c] = IF c \in known THEN pre[c]
                    ELSE IF c \in A THEN Cycle
                    ELSE CellOutcome(c, content[c], F[A \cup {c}])

LEMMA TurnComputes ==
    ASSUME NEW known, NEW pre, \A c \in known \cap Cell : pre[c] \in Outcomes, NEW content \in Contents,
           NEW F, F = [A \in SUBSET Cell |-> Turn(known, pre, content, F, A)]
    PROVE  Computes(F, known, pre, content)
<1>1. \A A \in SUBSET Cell : F[A] = Turn(known, pre, content, F, A)
  <2>. HIDE DEF Turn
  <2> QED
    OBVIOUS
<1>2. \A A \in SUBSET Cell, c \in Cell :
          F[A][c] = IF c \in known THEN pre[c]
                    ELSE IF c \in A THEN Cycle
                    ELSE CellOutcome(c, content[c], F[A \cup {c}])
  <2> SUFFICES ASSUME NEW A \in SUBSET Cell, NEW c \in Cell
               PROVE  F[A][c] = IF c \in known THEN pre[c]
                                ELSE IF c \in A THEN Cycle
                                ELSE CellOutcome(c, content[c], F[A \cup {c}])
    OBVIOUS
  <2>1. F[A][c] = Turn(known, pre, content, F, A)[c]
    BY <1>1
  <2> QED
    BY <2>1, Zenon DEF Turn
<1>. DEFINE bad == {A \in SUBSET Cell : F[A] \notin Values}
<1>3. bad = {}
  <2>1. SUFFICES ASSUME bad # {} PROVE FALSE
    OBVIOUS
  <2>2. PICK A \in bad : \A B \in bad : A \subseteq B => B = A
    <3>1. bad \in SUBSET SUBSET Cell
      OBVIOUS
    <3>. HIDE DEF bad
    <3> QED
      BY <2>1, <3>1, CellAssumption, MaximalMember
  <2>3. ASSUME NEW c \in Cell PROVE F[A][c] \in Outcomes
    <3>1. CASE c \in known
      BY <1>2, <3>1
    <3>2. CASE c \in A /\ c \notin known
      <4>1. Cycle \in Outcomes
        BY DEF Cycle, Outcome, Outcomes
      <4> QED
        BY <1>2, <3>2, <4>1
    <3>3. CASE c \notin A /\ c \notin known
      <4>1. F[A \cup {c}] \in Values
        <5>1. A \cup {c} \in SUBSET Cell /\ A \cup {c} # A
          BY <3>3
        <5>2. A \cup {c} \notin bad
          <6>. HIDE DEF bad
          <6> QED
            BY <2>2, <5>1
        <5> QED
          BY <5>1, <5>2
      <4>2. content[c] \in Content \cup {None}
        BY DEF Contents
      <4>3. CellOutcome(c, content[c], F[A \cup {c}]) \in Outcomes
        BY <4>1, <4>2, OutcomeTyped
      <4> QED
        BY <1>2, <3>3, <4>3
    <3> QED
      BY <3>1, <3>2, <3>3
  <2>4. F[A] = [c \in Cell |-> F[A][c]]
    BY <1>1 DEF Turn
  <2>5. F[A] \in Values
    BY <2>3, <2>4 DEF Values
  <2> QED
    BY <2>5
<1>4. F \in [SUBSET Cell -> Values]
  <2>1. F = [A \in SUBSET Cell |-> F[A]]
    <3>. HIDE DEF Turn
    <3> QED
      OBVIOUS
  <2>2. \A A \in SUBSET Cell : F[A] \in Values
    BY <1>3
  <2>. HIDE DEF Values
  <2> QED
    BY <2>1, <2>2
<1> QED
  BY <1>2, <1>4 DEF Computes

\* Where the evaluation under A finds no cycle, it finds the same under less.
LEMMA Grows ==
    ASSUME NEW known, NEW pre, NEW content \in Contents, NEW F, Computes(F, known, pre, content),
           NEW A \in SUBSET Cell, NEW B \in SUBSET A, NEW c \in Cell, F[A][c] # Cycle
    PROVE  F[B][c] = F[A][c]
<1>. DEFINE Differs(X) == \E Y \in SUBSET X, d \in Cell : F[X][d] # Cycle /\ F[Y][d] # F[X][d]
            bad == {X \in SUBSET Cell : Differs(X)}
<1>1. SUFFICES ASSUME bad # {} PROVE FALSE
  OBVIOUS
<1>2. PICK X \in bad : \A Z \in bad : X \subseteq Z => Z = X
  <2>1. bad \in SUBSET SUBSET Cell
    OBVIOUS
  <2>. HIDE DEF bad
  <2> QED
    BY <1>1, <2>1, CellAssumption, MaximalMember
<1>3. PICK Y \in SUBSET X, d \in Cell : F[X][d] # Cycle /\ F[Y][d] # F[X][d]
  OBVIOUS
<1>4. X \in SUBSET Cell /\ Y \in SUBSET Cell
  OBVIOUS
<1>5. d \notin known /\ d \notin X /\ d \notin Y
  BY <1>3, <1>4 DEF Computes
<1>6. /\ F[X][d] = CellOutcome(d, content[d], F[X \cup {d}])
      /\ F[Y][d] = CellOutcome(d, content[d], F[Y \cup {d}])
  BY <1>4, <1>5 DEF Computes
<1>7. X \cup {d} \in SUBSET Cell /\ X \cup {d} \notin bad /\ Y \cup {d} \in SUBSET (X \cup {d})
  <2>1. X \cup {d} \in SUBSET Cell /\ X \cup {d} # X /\ Y \cup {d} \in SUBSET (X \cup {d})
    BY <1>4, <1>5
  <2>. HIDE DEF bad
  <2> QED
    BY <1>2, <2>1
<1>8. \A e \in Cell : F[X \cup {d}][e] # Cycle => F[Y \cup {d}][e] = F[X \cup {d}][e]
  BY <1>7
<1>9. content[d] \in Content \cup {None}
  BY DEF Contents
<1>10. \A e \in CellReads(content[d], F[X \cup {d}]) : e \in Cell
  BY <1>9, CellReadsCells
<1>11. CellOutcome(d, content[d], F[X \cup {d}]) # Cycle
  BY <1>3, <1>6
<1>12. \A e \in CellReads(content[d], F[X \cup {d}]) :
          F[X \cup {d}][e] # Cycle => F[Y \cup {d}][e] = F[X \cup {d}][e]
  BY <1>8, <1>10
<1>13. CellOutcome(d, content[d], F[Y \cup {d}]) = CellOutcome(d, content[d], F[X \cup {d}])
  <2>1. PICK v, w : v = F[X \cup {d}] /\ w = F[Y \cup {d}]
    OBVIOUS
  <2>2. CellOutcome(d, content[d], v) # Cycle
        /\ \A e \in CellReads(content[d], v) : v[e] # Cycle => w[e] = v[e]
    BY <1>11, <1>12, <2>1
  <2>3. CellOutcome(d, content[d], w) = CellOutcome(d, content[d], v)
    BY <1>9, <2>2, OutcomeAgrees
  <2> QED
    BY <2>1, <2>3
<1> QED
  BY <1>3, <1>6, <1>13

\* A cell that is itself a cycle makes no difference to those that are none.
LEMMA CycleAside ==
    ASSUME NEW known, NEW pre, NEW content \in Contents, NEW F, Computes(F, known, pre, content),
           NEW c \in Cell, F[{}][c] = Cycle,
           NEW A \in SUBSET Cell, NEW d \in Cell, F[A][d] # Cycle
    PROVE  F[A \cup {c}][d] = F[A][d]
<1>. DEFINE Differs(X) == \E e \in Cell : F[X][e] # Cycle /\ F[X \cup {c}][e] # F[X][e]
            bad == {X \in SUBSET Cell : Differs(X)}
<1>1. SUFFICES ASSUME bad # {} PROVE FALSE
  OBVIOUS
<1>2. PICK X \in bad : \A Z \in bad : X \subseteq Z => Z = X
  <2>1. bad \in SUBSET SUBSET Cell
    OBVIOUS
  <2>. HIDE DEF bad
  <2> QED
    BY <1>1, <2>1, CellAssumption, MaximalMember
<1>3. PICK e \in Cell : F[X][e] # Cycle /\ F[X \cup {c}][e] # F[X][e]
  OBVIOUS
<1>4. X \in SUBSET Cell /\ X \cup {c} \in SUBSET Cell
  OBVIOUS
<1>5. e # c
  <2>1. {} \in SUBSET X
    OBVIOUS
  <2> QED
    BY <1>3, <1>4, <2>1, Grows
<1>6. e \notin known /\ e \notin X \cup {c}
  BY <1>3, <1>4, <1>5 DEF Computes
<1>7. /\ F[X][e] = CellOutcome(e, content[e], F[X \cup {e}])
      /\ F[X \cup {c}][e] = CellOutcome(e, content[e], F[(X \cup {e}) \cup {c}])
  <2>1. (X \cup {c}) \cup {e} = (X \cup {e}) \cup {c}
    OBVIOUS
  <2>2. F[X \cup {c}][e] = CellOutcome(e, content[e], F[(X \cup {c}) \cup {e}])
    BY <1>4, <1>6 DEF Computes
  <2>3. F[X][e] = CellOutcome(e, content[e], F[X \cup {e}])
    BY <1>4, <1>6 DEF Computes
  <2> QED
    BY <2>1, <2>2, <2>3
<1>8. X \cup {e} \in SUBSET Cell /\ X \cup {e} \notin bad
  <2>1. X \cup {e} \in SUBSET Cell /\ X \cup {e} # X
    BY <1>4, <1>6
  <2>. HIDE DEF bad
  <2> QED
    BY <1>2, <2>1
<1>9. \A g \in Cell : F[X \cup {e}][g] # Cycle => F[(X \cup {e}) \cup {c}][g] = F[X \cup {e}][g]
  BY <1>8
<1>10. content[e] \in Content \cup {None}
  BY DEF Contents
<1>11. \A g \in CellReads(content[e], F[X \cup {e}]) : g \in Cell
  BY <1>10, CellReadsCells
<1> QED
  BY <1>3, <1>7, <1>9, <1>10, <1>11, OutcomeAgrees, SMTT(30)

\* From outside, a cell that is not known has the outcome of its query over the
\* outcomes of all cells: the evaluation is a fixpoint.
LEMMA Fixpoint ==
    ASSUME NEW known, NEW pre, NEW content \in Contents, NEW F, Computes(F, known, pre, content),
           NEW c \in Cell, c \notin known
    PROVE  F[{}][c] = CellOutcome(c, content[c], F[{}])
<1>1. {} \in SUBSET Cell /\ {c} \in SUBSET Cell /\ {} \in SUBSET {c} /\ {} \cup {c} = {c}
  OBVIOUS
<1>2. F[{}][c] = CellOutcome(c, content[c], F[{c}])
  BY <1>1 DEF Computes
<1>3. content[c] \in Content \cup {None}
  BY DEF Contents
<1>4. CASE F[{}][c] # Cycle
  <2>1. \A d \in Cell : F[{c}][d] # Cycle => F[{}][d] = F[{c}][d]
    BY <1>1, Grows
  <2>2. \A d \in CellReads(content[c], F[{c}]) : d \in Cell
    BY <1>3, CellReadsCells
  <2> QED
    BY <1>2, <1>3, <1>4, <2>1, <2>2, OutcomeAgrees
<1>5. CASE F[{}][c] = Cycle
  <2>1. ASSUME NEW d \in Cell, F[{}][d] # Cycle PROVE F[{c}][d] = F[{}][d]
    <3>1. PICK none \in SUBSET Cell : none = {}
      BY <1>1
    <3>2. F[none \cup {c}][d] = F[none][d]
      BY <1>5, <2>1, <3>1, CycleAside
    <3> QED
      BY <1>1, <3>1, <3>2
  <2>2. \A d \in CellReads(content[c], F[{}]) : d \in Cell
    BY <1>3, CellReadsCells
  <2>3. SUFFICES ASSUME CellOutcome(c, content[c], F[{}]) # Cycle PROVE FALSE
    BY <1>5
  <2>4. CellOutcome(c, content[c], F[{c}]) = CellOutcome(c, content[c], F[{}])
    BY <1>1, <1>3, <2>1, <2>2, <2>3, OutcomeAgrees
  <2> QED
    BY <1>2, <1>5, <2>3, <2>4
<1> QED
  BY <1>4, <1>5

\* Knowing some outcomes beforehand, none of them a cycle, changes none of them.
LEMMA KnownAgrees ==
    ASSUME NEW content \in Contents, NEW none, NEW G, Computes(G, {}, none, content),
           NEW known, NEW pre, \A c \in known \cap Cell : pre[c] = G[{}][c] /\ pre[c] # Cycle,
           NEW F, Computes(F, known, pre, content)
    PROVE  F[{}] = G[{}]
<1>0. {} \in SUBSET Cell /\ \A A \in SUBSET Cell : {} \in SUBSET A
  OBVIOUS
<1>1. ASSUME NEW A \in SUBSET Cell, NEW c \in Cell, F[A][c] # Cycle
      PROVE  F[A][c] = G[{}][c]
  <2>. DEFINE Differs(X) == \E d \in Cell : F[X][d] # Cycle /\ F[X][d] # G[{}][d]
              bad == {X \in SUBSET Cell : Differs(X)}
  <2>1. SUFFICES ASSUME bad # {} PROVE FALSE
    BY <1>1
  <2>2. PICK X \in bad : \A Z \in bad : X \subseteq Z => Z = X
    <3>1. bad \in SUBSET SUBSET Cell
      OBVIOUS
    <3>. HIDE DEF bad
    <3> QED
      BY <2>1, <3>1, CellAssumption, MaximalMember
  <2>3. PICK d \in Cell : F[X][d] # Cycle /\ F[X][d] # G[{}][d]
    OBVIOUS
  <2>4. X \in SUBSET Cell
    OBVIOUS
  <2>5. d \notin known /\ d \notin X
    BY <2>3, <2>4 DEF Computes
  <2>6. F[X][d] = CellOutcome(d, content[d], F[X \cup {d}])
    BY <2>4, <2>5 DEF Computes
  <2>7. X \cup {d} \in SUBSET Cell /\ X \cup {d} \notin bad
    <3>1. X \cup {d} \in SUBSET Cell /\ X \cup {d} # X
      BY <2>4, <2>5
    <3>. HIDE DEF bad
    <3> QED
      BY <2>2, <3>1
  <2>8. \A e \in Cell : F[X \cup {d}][e] # Cycle => G[{}][e] = F[X \cup {d}][e]
    BY <2>7
  <2>9. content[d] \in Content \cup {None}
    BY DEF Contents
  <2>10. \A e \in CellReads(content[d], F[X \cup {d}]) : e \in Cell
    BY <2>9, CellReadsCells
  <2>11. CellOutcome(d, content[d], G[{}]) = F[X][d]
    BY <2>3, <2>6, <2>8, <2>9, <2>10, OutcomeAgrees, SMTT(30)
  <2>12. G[{}][d] = CellOutcome(d, content[d], G[{}])
    <3>1. PICK nobody : nobody = {} /\ Computes(G, nobody, none, content) /\ d \notin nobody
      OBVIOUS
    <3> QED
      BY <3>1, Fixpoint
  <2> QED
    BY <2>3, <2>11, <2>12
<1>2. ASSUME NEW A \in SUBSET Cell, NEW c \in Cell, G[A][c] # Cycle
      PROVE  F[A][c] = G[A][c]
  <2>. DEFINE Differs(X) == \E d \in Cell : G[X][d] # Cycle /\ F[X][d] # G[X][d]
              bad == {X \in SUBSET Cell : Differs(X)}
  <2>1. SUFFICES ASSUME bad # {} PROVE FALSE
    BY <1>2
  <2>2. PICK X \in bad : \A Z \in bad : X \subseteq Z => Z = X
    <3>1. bad \in SUBSET SUBSET Cell
      OBVIOUS
    <3>. HIDE DEF bad
    <3> QED
      BY <2>1, <3>1, CellAssumption, MaximalMember
  <2>3. PICK d \in Cell : G[X][d] # Cycle /\ F[X][d] # G[X][d]
    OBVIOUS
  <2>4. X \in SUBSET Cell
    OBVIOUS
  <2>5. G[{}][d] = G[X][d]
    BY <1>0, <2>3, <2>4, Grows
  <2>6. d \notin known
    BY <2>3, <2>4, <2>5 DEF Computes
  <2>7. d \notin X
    BY <2>3, <2>4 DEF Computes
  <2>8. /\ F[X][d] = CellOutcome(d, content[d], F[X \cup {d}])
        /\ G[X][d] = CellOutcome(d, content[d], G[X \cup {d}])
    BY <2>4, <2>6, <2>7 DEF Computes
  <2>9. X \cup {d} \in SUBSET Cell /\ X \cup {d} \notin bad
    <3>1. X \cup {d} \in SUBSET Cell /\ X \cup {d} # X
      BY <2>4, <2>7
    <3>. HIDE DEF bad
    <3> QED
      BY <2>2, <3>1
  <2>10. \A e \in Cell : G[X \cup {d}][e] # Cycle => F[X \cup {d}][e] = G[X \cup {d}][e]
    BY <2>9
  <2>11. content[d] \in Content \cup {None}
    BY DEF Contents
  <2>12. \A e \in CellReads(content[d], G[X \cup {d}]) : e \in Cell
    BY <2>11, CellReadsCells
  <2>13. CellOutcome(d, content[d], G[X \cup {d}]) # Cycle
    BY <2>3, <2>8
  <2>14. \A e \in CellReads(content[d], G[X \cup {d}]) :
            G[X \cup {d}][e] # Cycle => F[X \cup {d}][e] = G[X \cup {d}][e]
    BY <2>10, <2>12
  <2>15. CellOutcome(d, content[d], F[X \cup {d}]) = CellOutcome(d, content[d], G[X \cup {d}])
    BY <2>11, <2>13, <2>14, OutcomeAgrees
  <2> QED
    BY <2>3, <2>8, <2>15
<1>3. \A c \in Cell : F[{}][c] = G[{}][c]
  BY <1>0, <1>1, <1>2
<1>4. F[{}] \in Values /\ G[{}] \in Values
  BY <1>0 DEF Computes
<1> QED
  BY <1>3, <1>4 DEF Values

(***************************************************************************)
(* What is verified and what is recomputed                                 *)
(***************************************************************************)
\* The source is what the calls have described, converted.
SourceOK ==
    /\ sheet \in [Cell -> CellValue]
    /\ source = [c \in Cell |-> FromCellValue(sheet[c])]

RegisteredOK == registered \subseteq Cell /\ \A c \in Cell : source[c] # None => c \in registered

MemosTyped == memos \in [Key -> Memo \cup {None}]

LEMMA SourceTyped == SourceOK => source \in Contents
<1> SUFFICES ASSUME SourceOK, NEW c \in Cell PROVE FromCellValue(sheet[c]) \in Content \cup {None}
  BY DEF SourceOK, Contents
<1> QED
  BY ValueAssumption DEF SourceOK, FromCellValue

RecomputedOK == \E F : Computes(F, {}, {}, source) /\ Recomputed = F[{}]

LEMMA RecomputedComputes == SourceOK => RecomputedOK
<1> SUFFICES ASSUME SourceOK PROVE RecomputedOK
  OBVIOUS
<1>. DEFINE Body(F, A) == [c \in Cell |-> IF c \in A THEN Cycle ELSE CellOutcome(c, sheet[c], F[A \cup {c}])]
            P(F) == F = [A \in SUBSET Cell |-> Body(F, A)]
<1>1. \A c \in Cell : \A v : CellOutcome(c, sheet[c], v) = CellOutcome(c, source[c], v)
  <2> SUFFICES ASSUME NEW c \in Cell, NEW v
               PROVE  CellOutcome(c, sheet[c], v) = CellOutcome(c, source[c], v)
    OBVIOUS
  <2>1. source[c] = IF sheet[c].kind = "blank" THEN None ELSE sheet[c]
    BY DEF SourceOK, FromCellValue
  <2>2. sheet[c].kind = "blank" => ~Numeric(sheet[c]) /\ ~Numeric(source[c])
    BY <2>1 DEF Numeric
  <2> QED
    BY <2>1, <2>2 DEF CellOutcome
<1>2. \A F, A : Body(F, A) = Turn({}, {}, source, F, A)
  BY <1>1 DEF Turn
<1>3. \A F : P(F) <=> F = [A \in SUBSET Cell |-> Turn({}, {}, source, F, A)]
  <2>. HIDE DEF Body
  <2> QED
    BY <1>2
<1>4. \E F : P(F)
  <2>. HIDE DEF P
  <2>1. PICK F : F = [A \in SUBSET Cell |-> Turn({}, {}, source, F, A)]
    BY TurnSolved, Zenon
  <2> QED
    BY <1>3, <2>1, Zenon
<1>5. PICK F : F = (CHOOSE G : P(G)) /\ P(F)
  <2>. HIDE DEF P
  <2> QED
    BY <1>4
<1>6. Recomputed = F[{}]
  BY <1>5 DEF Recomputed
<1>7. F = [A \in SUBSET Cell |-> Turn({}, {}, source, F, A)]
  <2>. HIDE DEF P
  <2> QED
    BY <1>3, <1>5
<1>8. Computes(F, {}, {}, source)
  BY <1>7, SourceTyped, TurnComputes
<1> QED
  BY <1>6, <1>8 DEF RecomputedOK

\* What is remembered, and the blank outcome of a cell nobody registered.
Known == {c \in Cell : memos[c] # None \/ c \notin registered}
KnownOutcome == [c \in Cell |-> IF memos[c] # None THEN memos[c].value ELSE NonNumericCell(c)]

LEMMA VerifiedComputes ==
    ASSUME SourceOK, MemosTyped
    PROVE  \E F : Computes(F, Known, KnownOutcome, source) /\ Verified = F[{}]
<1>. DEFINE Body(F, A) ==
               [c \in Cell |->
                   IF memos[c] # None THEN memos[c].value
                   ELSE IF c \notin registered THEN NonNumericCell(c)
                   ELSE IF c \in A THEN Cycle
                   ELSE CellOutcome(c, source[c], F[A \cup {c}])]
            P(F) == F = [A \in SUBSET Cell |-> Body(F, A)]
<1>1. \A F, A : Body(F, A) = Turn(Known, KnownOutcome, source, F, A)
  <2> SUFFICES ASSUME NEW F, NEW A, NEW c \in Cell
               PROVE  (IF memos[c] # None THEN memos[c].value
                       ELSE IF c \notin registered THEN NonNumericCell(c)
                       ELSE IF c \in A THEN Cycle
                       ELSE CellOutcome(c, source[c], F[A \cup {c}]))
                      = (IF c \in Known THEN KnownOutcome[c]
                         ELSE IF c \in A THEN Cycle
                         ELSE CellOutcome(c, source[c], F[A \cup {c}]))
    BY DEF Turn
  <2>1. c \in Known <=> memos[c] # None \/ c \notin registered
    BY DEF Known
  <2>2. KnownOutcome[c] = IF memos[c] # None THEN memos[c].value ELSE NonNumericCell(c)
    BY DEF KnownOutcome
  <2> QED
    BY <2>1, <2>2, Zenon
<1>2. \A F : P(F) <=> F = [A \in SUBSET Cell |-> Turn(Known, KnownOutcome, source, F, A)]
  <2>. HIDE DEF Body
  <2> QED
    BY <1>1
<1>3. \E F : P(F)
  <2>. HIDE DEF P
  <2>1. PICK F : F = [A \in SUBSET Cell |-> Turn(Known, KnownOutcome, source, F, A)]
    BY TurnSolved, Zenon
  <2> QED
    BY <1>2, <2>1, Zenon
<1>4. PICK F : F = (CHOOSE G : P(G)) /\ P(F)
  <2>. HIDE DEF P
  <2> QED
    BY <1>3
<1>5. Verified = F[{}]
  BY <1>4 DEF Verified
<1>6. F = [A \in SUBSET Cell |-> Turn(Known, KnownOutcome, source, F, A)]
  <2>. HIDE DEF P
  <2> QED
    BY <1>2, <1>4
<1>7. \A c \in Known \cap Cell : KnownOutcome[c] \in Outcomes
  <2> SUFFICES ASSUME NEW c \in Cell
               PROVE  (IF memos[c] # None THEN memos[c].value ELSE NonNumericCell(c)) \in Outcomes
    BY DEF KnownOutcome
  <2>1. memos[c] \in Memo \cup {None}
    BY DEF MemosTyped, Key
  <2>2. NonNumericCell(c) \in Outcomes
    BY DEF NonNumericCell, Outcome, Outcomes
  <2> QED
    BY <2>1, <2>2 DEF Memo
<1>8. Computes(F, Known, KnownOutcome, source)
  BY <1>6, <1>7, SourceTyped, TurnComputes
<1> QED
  BY <1>5, <1>8

(***************************************************************************)
(* What is remembered                                                      *)
(***************************************************************************)
\* The outcome of a key and the cells its query reads, over outcomes v.
KeyOutcome(k, v) == IF k \in Cell THEN v[k] ELSE Evaluate(k, v)
KeyReads(k, content, v) == IF k \in Cell THEN CellReads(content[k], v) ELSE CellsRead(k, v)

\* A memo is the outcome, and it observes the cell itself and all it has read;
\* what it observes is remembered too, or has no content.
MemoOK(k, m, content, v) ==
    /\ m[k].value = KeyOutcome(k, v) /\ m[k].value # Cycle
    /\ KeyReads(k, content, v) \subseteq m[k].observed
    /\ k \in Cell => k \in m[k].observed
    /\ \A c \in m[k].observed : m[c] # None \/ content[c] = None

AllOK(m, content, v) == \A k \in Key : m[k] # None => MemoOK(k, m, content, v)

MemosOK == AllOK(memos, source, Recomputed)

\* What n still remembers of m has observed none of the cells of D and nothing
\* that n has forgotten.
Remains(m, n, D) ==
    \A k \in Key : n[k] # None =>
        /\ n[k] = m[k]
        /\ \A c \in m[k].observed : c \notin D /\ (m[c] # None => n[c] # None)

LEMMA KeyTyped ==
    /\ Cell \subseteq Key /\ Formula \subseteq Content /\ \A k \in Formula : k \notin Cell
    /\ \A k \in Key : k \in Cell \/ k \in Formula
<1>1. Formula \subseteq Content
  BY FormulaAssumption DEF Content
<1> QED
  BY <1>1, CellAssumption DEF Key

\* The reads of a key whose outcome is no cycle are no cycles.
LEMMA KeyReadsOf ==
    ASSUME NEW content \in Contents, NEW none, NEW F, Computes(F, {}, none, content), NEW k \in Key,
           KeyOutcome(k, F[{}]) # Cycle
    PROVE  \A c \in KeyReads(k, content, F[{}]) : c \in Cell /\ F[{}][c] # Cycle
<1>1. CASE k \in Cell
  <2>1. content[k] \in Content \cup {None}
    BY <1>1 DEF Contents
  <2>2. F[{}][k] = CellOutcome(k, content[k], F[{}])
    BY <1>1, Fixpoint
  <2>3. \A c \in CellReads(content[k], F[{}]) : c \in Cell /\ F[{}][c] # Cycle
    BY <1>1, <2>1, <2>2, OutcomeCycle, CellReadsCells DEF KeyOutcome
  <2> QED
    BY <1>1, <2>3 DEF KeyReads
<1>2. CASE k \notin Cell
  <2>1. k \in Content
    BY <1>2, KeyTyped
  <2> QED
    BY <1>2, <2>1, EvaluateCycle, CellsReadAreRead DEF KeyReads, KeyOutcome
<1> QED
  BY <1>1, <1>2

\* What is still remembered after the cells of D changed is true of the new
\* contents.
LEMMA RemainingCurrent ==
    ASSUME NEW content \in Contents, NEW next \in Contents, NEW D, \A c \in Cell \ D : next[c] = content[c],
           NEW F, Computes(F, {}, {}, content), NEW G, Computes(G, {}, {}, next),
           NEW m \in [Key -> Memo \cup {None}], NEW n, AllOK(m, content, F[{}]), Remains(m, n, D)
    PROVE  AllOK(n, next, G[{}])
<1> SUFFICES ASSUME NEW k \in Key, n[k] # None PROVE MemoOK(k, n, next, G[{}])
  BY DEF AllOK
<1>0. {} \in SUBSET Cell /\ \A A \in SUBSET Cell : {} \in SUBSET A
  OBVIOUS
<1>. DEFINE Q == {c \in Cell : c \notin D /\ (n[c] # None \/ content[c] = None)}
<1>1. ASSUME NEW j \in Key, n[j] # None
      PROVE  /\ n[j] = m[j] /\ MemoOK(j, m, content, F[{}]) /\ KeyOutcome(j, F[{}]) # Cycle
             /\ m[j].observed \subseteq Q
  <2>1. n[j] = m[j] /\ m[j] # None /\ m[j] \in Memo /\ MemoOK(j, m, content, F[{}])
    BY <1>1 DEF AllOK, Remains
  <2>2. m[j].observed \subseteq Cell
    BY <2>1 DEF Memo
  <2>3. \A c \in m[j].observed : c \notin D /\ (n[c] # None \/ content[c] = None)
    BY <1>1, <2>1 DEF MemoOK, Remains
  <2> QED
    BY <2>1, <2>2, <2>3 DEF MemoOK
<1>2. ASSUME NEW c \in Q PROVE CellReads(content[c], F[{}]) \subseteq Q
  <2>1. CASE n[c] # None
    <3>1. c \in Key /\ c \in Cell
      BY KeyTyped
    <3> QED
      BY <1>1, <2>1, <3>1 DEF MemoOK, KeyReads
  <2>2. CASE content[c] = None
    BY <2>2 DEF CellReads, Numeric
  <2> QED
    BY <2>1, <2>2
<1>. DEFINE Differs(X) == \E d \in Q : F[X][d] # Cycle /\ G[X][d] # F[X][d]
            bad == {X \in SUBSET Cell : Differs(X)}
<1>3. bad = {}
  <2>1. SUFFICES ASSUME bad # {} PROVE FALSE
    OBVIOUS
  <2>2. PICK X \in bad : \A Z \in bad : X \subseteq Z => Z = X
    <3>1. bad \in SUBSET SUBSET Cell
      OBVIOUS
    <3>. HIDE DEF bad
    <3> QED
      BY <2>1, <3>1, CellAssumption, MaximalMember
  <2>3. PICK d \in Q : F[X][d] # Cycle /\ G[X][d] # F[X][d]
    OBVIOUS
  <2>4. X \in SUBSET Cell /\ d \in Cell /\ next[d] = content[d] /\ content[d] \in Content \cup {None}
    BY DEF Contents
  <2>5. d \notin X
    BY <2>3, <2>4 DEF Computes
  <2>6. /\ F[X][d] = CellOutcome(d, content[d], F[X \cup {d}])
        /\ G[X][d] = CellOutcome(d, content[d], G[X \cup {d}])
    BY <2>4, <2>5 DEF Computes
  <2>7. X \cup {d} \in SUBSET Cell /\ X \cup {d} \notin bad
    <3>1. X \cup {d} \in SUBSET Cell /\ X \cup {d} # X
      BY <2>4, <2>5
    <3>. HIDE DEF bad
    <3> QED
      BY <2>2, <3>1
  <2>8. PICK v, w : v = F[X \cup {d}] /\ w = G[X \cup {d}]
    OBVIOUS
  <2>9. \A c \in CellReads(content[d], v) : v[c] # Cycle
    BY <2>3, <2>4, <2>6, <2>8, OutcomeCycle
  <2>10. CellReads(content[d], v) \subseteq Q
    <3>1. \A c \in Cell : v[c] # Cycle => F[{}][c] = v[c]
      <4>1. PICK A \in SUBSET Cell, B \in SUBSET Cell : A = X \cup {d} /\ B = {} /\ B \in SUBSET A
        BY <2>7
      <4>2. ASSUME NEW c \in Cell, F[A][c] # Cycle PROVE F[B][c] = F[A][c]
        <5>1. PICK known, pre : Computes(F, known, pre, content)
          OBVIOUS
        <5> QED
          BY <4>1, <4>2, <5>1, Grows
      <4>3. \A c \in Cell : F[X \cup {d}][c] # Cycle => F[B][c] = F[X \cup {d}][c]
        BY <4>1, <4>2
      <4> QED
        BY <2>8, <4>1, <4>3
    <3>2. CellOutcome(d, content[d], v) # Cycle
      BY <2>3, <2>6, <2>8
    <3>3. \A c \in CellReads(content[d], v) : c \in Cell
      BY <2>4, CellReadsCells
    <3>4. PICK r : r = F[{}]
      OBVIOUS
    <3>5. CellReads(content[d], r) = CellReads(content[d], v)
      <4>1. \A c \in CellReads(content[d], v) : v[c] # Cycle => r[c] = v[c]
        BY <3>1, <3>3, <3>4
      <4> QED
        BY <2>4, <3>2, <4>1, OutcomeAgrees
    <3> QED
      BY <1>2, <3>4, <3>5
  <2>11. \A c \in CellReads(content[d], v) : w[c] = v[c]
    BY <2>7, <2>8, <2>9, <2>10
  <2>12. CellOutcome(d, content[d], w) = CellOutcome(d, content[d], v)
    BY <2>4, <2>11, OutcomeSame
  <2> QED
    BY <2>3, <2>6, <2>8, <2>12
<1>4. \A c \in Q : F[{}][c] # Cycle => G[{}][c] = F[{}][c]
  BY <1>0, <1>3
<1>5. PICK v, w : v = F[{}] /\ w = G[{}]
  OBVIOUS
<1>6. KeyReads(k, content, v) \subseteq Q /\ \A c \in KeyReads(k, content, v) : w[c] = v[c]
  <2>1. KeyReads(k, content, v) \subseteq Q
    BY <1>1, <1>5 DEF MemoOK
  <2>2. \A c \in KeyReads(k, content, v) : v[c] # Cycle
    BY <1>1, <1>5, KeyReadsOf
  <2> QED
    BY <1>4, <1>5, <2>1, <2>2
<1>7. KeyOutcome(k, w) = KeyOutcome(k, v) /\ KeyReads(k, next, w) = KeyReads(k, content, v)
  <2>1. CASE k \in Cell
    <3>1. k \in Q
      <4>1. k \in m[k].observed
        BY <1>1, <2>1 DEF MemoOK
      <4> QED
        BY <1>1, <4>1
    <3>2. next[k] = content[k] /\ content[k] \in Content \cup {None}
      BY <2>1, <3>1 DEF Contents
    <3>3. w[k] = v[k]
      BY <1>1, <1>4, <1>5, <2>1, <3>1 DEF KeyOutcome
    <3>4. CellReads(content[k], w) = CellReads(content[k], v)
      BY <1>6, <2>1, <3>2, OutcomeSame DEF KeyReads
    <3> QED
      BY <2>1, <3>2, <3>3, <3>4 DEF KeyOutcome, KeyReads
  <2>2. CASE k \notin Cell
    <3>1. k \in Content
      BY <2>2, KeyTyped
    <3> QED
      BY <1>6, <2>2, <3>1, EvaluateSame DEF KeyOutcome, KeyReads
  <2> QED
    BY <2>1, <2>2
<1>8. \A c \in m[k].observed : n[c] # None \/ next[c] = None
  BY <1>1
<1>. HIDE DEF Q
<1> QED
  BY <1>1, <1>5, <1>7, <1>8 DEF MemoOK

\* invalidate leaves nothing that observed the cells or what it forgot.
LEMMA InvalidatedOf ==
    ASSUME MemosTyped, NEW cells
    PROVE  /\ Invalidated(cells) \in [Key -> Memo \cup {None}]
           /\ Remains(memos, Invalidated(cells), cells)
<1>. DEFINE Closed(S) == \A j \in Key : memos[j] # None /\ memos[j].observed \cap (cells \cup S) # {} => j \in S
            stale == {k \in Key : \A S \in SUBSET Key : Closed(S) => k \in S}
<1>1. Invalidated(cells) = [k \in Key |-> IF k \in stale THEN None ELSE memos[k]]
  BY DEF Invalidated
<1>2. \A j \in Key : memos[j] # None /\ memos[j].observed \cap (cells \cup stale) # {} => j \in stale
  <2> SUFFICES ASSUME NEW j \in Key, memos[j] # None, memos[j].observed \cap (cells \cup stale) # {},
                      NEW S \in SUBSET Key, Closed(S)
               PROVE  j \in S
    OBVIOUS
  <2>1. stale \subseteq S
    OBVIOUS
  <2>2. memos[j].observed \cap (cells \cup S) # {}
    BY <2>1
  <2> QED
    BY <2>2
<1>3. \A k \in Key : memos[k] # None => memos[k].observed \subseteq Key
  BY KeyTyped DEF MemosTyped, Memo
<1>. HIDE DEF stale
<1>4. \A k \in Key : Invalidated(cells)[k] = IF k \in stale THEN None ELSE memos[k]
  BY <1>1
<1>5. Invalidated(cells) \in [Key -> Memo \cup {None}]
  BY <1>1 DEF MemosTyped
<1> QED
  BY <1>2, <1>3, <1>4, <1>5 DEF Remains

(***************************************************************************)
(* The calls                                                               *)
(***************************************************************************)
AnswerOK ==
    answer # None => answer.formula \in Formula /\ answer.value = Evaluate(answer.formula, Recomputed)

EngineOK == SourceOK /\ RegisteredOK /\ MemosTyped /\ MemosOK /\ AnswerOK

LEMMA RecomputedUnique ==
    ASSUME NEW content \in Contents, NEW F, NEW G, Computes(F, {}, {}, content), Computes(G, {}, {}, content)
    PROVE  F[{}] = G[{}]
  BY KnownAgrees

LEMMA RecomputedNext == SourceOK' => RecomputedOK'
  BY RecomputedComputes, PTL

LEMMA SourceTypedNext == SourceOK' => source' \in Contents
<1> SUFFICES ASSUME SourceOK', NEW c \in Cell PROVE FromCellValue(sheet'[c]) \in Content \cup {None}
  BY DEF SourceOK, Contents
<1> QED
  BY ValueAssumption DEF SourceOK, FromCellValue

\* What is verified is what a recomputation finds.
LEMMA VerifiedIsRecomputed == EngineOK => Verified = Recomputed
<1> SUFFICES ASSUME EngineOK PROVE Verified = Recomputed
  OBVIOUS
<1>1. source \in Contents
  BY SourceTyped DEF EngineOK
<1>2. PICK G : Computes(G, {}, {}, source) /\ Recomputed = G[{}]
  BY RecomputedComputes DEF EngineOK, RecomputedOK
<1>3. PICK F : Computes(F, Known, KnownOutcome, source) /\ Verified = F[{}]
  BY VerifiedComputes DEF EngineOK
<1>4. ASSUME NEW c \in Known \cap Cell
      PROVE  KnownOutcome[c] = G[{}][c] /\ KnownOutcome[c] # Cycle
  <2>1. CASE memos[c] # None
    <3>1. MemoOK(c, memos, source, Recomputed)
      BY <2>1 DEF EngineOK, MemosOK, AllOK, Key
    <3>2. KnownOutcome[c] = memos[c].value
      BY <2>1 DEF KnownOutcome
    <3> QED
      BY <1>2, <3>1, <3>2 DEF MemoOK, KeyOutcome
  <2>2. CASE memos[c] = None
    <3>1. source[c] = None
      BY <2>2 DEF Known, EngineOK, RegisteredOK
    <3>2. G[{}][c] = CellOutcome(c, source[c], G[{}])
      <4>1. PICK known : known = {} /\ Computes(G, known, known, source)
        BY <1>2
      <4> QED
        BY <1>1, <4>1, Fixpoint
    <3>3. CellOutcome(c, source[c], G[{}]) = NonNumericCell(c)
      BY <3>1 DEF CellOutcome, Numeric
    <3>4. KnownOutcome[c] = NonNumericCell(c)
      BY <2>2 DEF KnownOutcome
    <3>5. NonNumericCell(c) # Cycle
      BY DEF NonNumericCell, Cycle, Outcome
    <3> QED
      BY <3>2, <3>3, <3>4, <3>5
  <2> QED
    BY <2>1, <2>2
<1>5. F[{}] = G[{}]
  BY <1>1, <1>2, <1>3, <1>4, KnownAgrees
<1> QED
  BY <1>2, <1>3, <1>5

\* A change of the source keeps what is remembered true, when it invalidates
\* the cells whose content it changes.
LEMMA ChangeKeeps ==
    ASSUME EngineOK, SourceOK', NEW cells, \A c \in Cell \ cells : source'[c] = source[c],
           memos' = Invalidated(cells)
    PROVE  MemosTyped' /\ MemosOK'
<1>1. source \in Contents /\ source' \in Contents
  BY SourceTyped, SourceTypedNext DEF EngineOK
<1>2. PICK F : Computes(F, {}, {}, source) /\ Recomputed = F[{}]
  BY RecomputedComputes DEF EngineOK, RecomputedOK
<1>3. PICK G : Computes(G, {}, {}, source') /\ Recomputed' = G[{}]
  BY RecomputedNext DEF RecomputedOK
<1>4. /\ memos \in [Key -> Memo \cup {None}] /\ memos' \in [Key -> Memo \cup {None}]
      /\ Remains(memos, memos', cells)
  BY InvalidatedOf DEF EngineOK, MemosTyped
<1>5. AllOK(memos, source, F[{}])
  BY <1>2 DEF EngineOK, MemosOK
<1>6. AllOK(memos', source', G[{}])
  BY <1>1, <1>2, <1>3, <1>4, <1>5, RemainingCurrent
<1>7. AllOK(memos', source', Recomputed')
  BY <1>3, <1>6
<1> QED
  BY <1>4, <1>7 DEF MemosTyped, MemosOK

LEMMA SameSourceSame ==
    ASSUME SourceOK, SourceOK', source' = source
    PROVE  Recomputed' = Recomputed
<1>1. PICK F : Computes(F, {}, {}, source) /\ Recomputed = F[{}]
  BY RecomputedComputes DEF RecomputedOK
<1>2. PICK G : Computes(G, {}, {}, source') /\ Recomputed' = G[{}]
  BY RecomputedNext DEF RecomputedOK
<1> QED
  BY <1>1, <1>2, SourceTyped, RecomputedUnique

LEMMA SetCellKeeps ==
    ASSUME EngineOK, NEW c \in Cell, NEW value \in CellValue, SetCell(c, value)
    PROVE  EngineOK'
<1>1. registered' = registered \cup {c}
  BY DEF SetCell
<1>2. CASE UNCHANGED <<source, memos, sheet, answer>>
  <2>1. SourceOK' /\ MemosTyped'
    BY <1>2 DEF EngineOK, SourceOK, MemosTyped
  <2>2. Recomputed' = Recomputed
    BY <1>2, <2>1, SameSourceSame DEF EngineOK
  <2>3. RegisteredOK'
    BY <1>1, <1>2 DEF EngineOK, RegisteredOK
  <2>4. MemosOK' /\ AnswerOK'
    BY <1>2, <2>2 DEF EngineOK, MemosOK, AnswerOK
  <2> QED
    BY <2>1, <2>3, <2>4 DEF EngineOK
<1>3. CASE value.kind # "malformed"
  <2>1. /\ source' = [source EXCEPT ![c] = FromCellValue(value)]
        /\ memos' = IF source'[c] = source[c] THEN memos ELSE Invalidated({c})
        /\ sheet' = [sheet EXCEPT ![c] = value]
        /\ answer' = None
    BY <1>3 DEF SetCell
  <2>2. SourceOK'
    <3>1. sheet' \in [Cell -> CellValue]
      BY <2>1 DEF EngineOK, SourceOK
    <3>2. source' = [d \in Cell |-> FromCellValue(sheet'[d])]
      <4>1. \A d \in Cell : source'[d] = FromCellValue(sheet'[d])
        BY <2>1 DEF EngineOK, SourceOK
      <4>2. source' = [d \in Cell |-> source'[d]]
        BY <2>1 DEF EngineOK, SourceOK
      <4> QED
        BY <4>1, <4>2
    <3> QED
      BY <3>1, <3>2 DEF SourceOK
  <2>3. source'[c] = FromCellValue(value) /\ \A d \in Cell \ {c} : source'[d] = source[d]
    BY <2>1 DEF EngineOK, SourceOK
  <2>4. RegisteredOK'
    BY <1>1, <2>3 DEF EngineOK, RegisteredOK
  <2>5. MemosTyped' /\ MemosOK'
    <3>1. CASE source'[c] = source[c]
      <4>1. memos' = memos /\ source' = source
        BY <2>1, <2>3, <3>1 DEF EngineOK, SourceOK
      <4>2. Recomputed' = Recomputed
        BY <2>2, <4>1, SameSourceSame DEF EngineOK
      <4> QED
        BY <4>1, <4>2 DEF EngineOK, MemosTyped, MemosOK
    <3>2. CASE source'[c] # source[c]
      BY <2>1, <2>2, <2>3, <3>2, ChangeKeeps
    <3> QED
      BY <3>1, <3>2
  <2>6. AnswerOK'
    BY <2>1 DEF AnswerOK
  <2> QED
    BY <2>2, <2>4, <2>5, <2>6 DEF EngineOK
<1> QED
  BY <1>2, <1>3 DEF SetCell

LEMMA SyncSheetKeeps ==
    ASSUME EngineOK, NEW cells \in Sheet, SyncSheet(cells)
    PROVE  EngineOK'
<1>. DEFINE next == [c \in Cell |-> FromCellValue(cells[c])]
<1>1. /\ registered' = registered \cup Entries(source) \cup Entries(next)
      /\ source' = next
      /\ memos' = Invalidated(Changed(next))
      /\ sheet' = cells
      /\ answer' = None
  BY DEF SyncSheet
<1>2. SourceOK'
  BY <1>1, SheetAssumption DEF SourceOK
<1>. HIDE DEF next
<1>3. RegisteredOK'
  <2>1. Entries(source) \subseteq Cell /\ Entries(next) \subseteq Cell
        /\ \A c \in Cell : next[c] # None => c \in Entries(next)
    BY DEF Entries
  <2> QED
    BY <1>1, <2>1 DEF EngineOK, RegisteredOK
<1>4. \A c \in Cell \ Changed(next) : source'[c] = source[c]
  BY <1>1 DEF Changed, Entries
<1>5. MemosTyped' /\ MemosOK'
  BY <1>1, <1>2, <1>4, ChangeKeeps
<1>6. AnswerOK'
  BY <1>1 DEF AnswerOK
<1> QED
  BY <1>2, <1>3, <1>5, <1>6 DEF EngineOK

\* eval_formula remembers, of what it evaluates anew, all that is no cycle, and
\* answers with the outcome of its formula.
LEMMA EvalFormulaEffect ==
    ASSUME EngineOK, NEW f \in Formula, EvalFormula(f)
    PROVE  \E fresh \in SUBSET Key :
              /\ \A k \in fresh : KeyOutcome(k, Recomputed) # Cycle
              /\ \A k \in fresh : \A c \in KeyReads(k, source, Recomputed) :
                    c \in registered /\ memos[c] = None /\ KeyOutcome(c, Recomputed) # Cycle => c \in fresh
              /\ memos' = [k \in Key |->
                             IF k \in fresh
                             THEN [value |-> KeyOutcome(k, Recomputed),
                                   observed |-> KeyReads(k, source, Recomputed) \cup {c \in Cell : c = k}]
                             ELSE memos[k]]
              /\ answer' = [formula |-> f, value |-> Evaluate(f, Recomputed)]
              /\ UNCHANGED <<source, registered, sheet>>
<1>. DEFINE value == Verified
            reads == [k \in Key |-> IF k \notin Cell THEN CellsRead(k, value)
                                    ELSE IF Numeric(source[k]) THEN CellsRead(source[k], value)
                                    ELSE {}]
            OutcomeOf(k) == IF memos[k] # None THEN memos[k].value
                            ELSE IF k \in Cell THEN value[k]
                            ELSE Evaluate(k, value)
            fresh == {k \in Demanded(f, reads) : memos[k] = None /\ OutcomeOf(k) # Cycle}
<1>1. value = Recomputed
  BY VerifiedIsRecomputed
<1>2. /\ memos' = [k \in Key |->
                     IF k \in fresh
                     THEN [value |-> OutcomeOf(k), observed |-> Observed(k, reads[k])]
                     ELSE memos[k]]
      /\ answer' = [formula |-> f, value |-> OutcomeOf(f)]
      /\ UNCHANGED <<source, registered, sheet>>
  BY DEF EvalFormula
<1>. HIDE DEF value
<1>3. \A k \in Key : reads[k] = KeyReads(k, source, Recomputed)
  BY <1>1 DEF KeyReads, CellReads
<1>4. ASSUME NEW k \in Key PROVE OutcomeOf(k) = KeyOutcome(k, Recomputed)
  <2>1. CASE memos[k] # None
    BY <2>1 DEF EngineOK, MemosOK, AllOK, MemoOK
  <2>2. CASE memos[k] = None
    BY <1>1, <2>2 DEF KeyOutcome
  <2> QED
    BY <2>1, <2>2
<1>. HIDE DEF reads, OutcomeOf
<1>5. Demanded(f, reads) \subseteq Key
  BY DEF Demanded
<1>6. fresh \in SUBSET Key /\ \A k \in fresh : KeyOutcome(k, Recomputed) # Cycle
  BY <1>4, <1>5
<1>7. ASSUME NEW k \in fresh, NEW c \in KeyReads(k, source, Recomputed),
             c \in registered, memos[c] = None, KeyOutcome(c, Recomputed) # Cycle
      PROVE  c \in fresh
  <2>1. c \in Key
    BY <1>7, KeyTyped DEF EngineOK, RegisteredOK
  <2>2. k \in Demanded(f, reads) /\ memos[k] = None /\ c \in reads[k]
    BY <1>3, <1>6, <1>7
  <2>3. c \in Demanded(f, reads)
    BY <1>7, <2>1, <2>2 DEF Demanded
  <2> QED
    BY <1>4, <1>7, <2>1, <2>3
<1>8. f \in Key /\ KeyOutcome(f, Recomputed) = Evaluate(f, Recomputed)
  BY KeyTyped DEF KeyOutcome, Key
<1>9. answer' = [formula |-> f, value |-> Evaluate(f, Recomputed)]
  BY <1>2, <1>4, <1>8
<1>. HIDE DEF fresh
<1>10. memos' = [k \in Key |->
                    IF k \in fresh
                    THEN [value |-> KeyOutcome(k, Recomputed),
                          observed |-> KeyReads(k, source, Recomputed) \cup {c \in Cell : c = k}]
                    ELSE memos[k]]
  BY <1>2, <1>3, <1>4 DEF Observed
<1> QED
  BY <1>2, <1>6, <1>7, <1>9, <1>10

LEMMA EvalFormulaKeeps ==
    ASSUME EngineOK, NEW f \in Formula, EvalFormula(f)
    PROVE  EngineOK'
<1>1. PICK fresh \in SUBSET Key :
              /\ \A k \in fresh : KeyOutcome(k, Recomputed) # Cycle
              /\ \A k \in fresh : \A c \in KeyReads(k, source, Recomputed) :
                    c \in registered /\ memos[c] = None /\ KeyOutcome(c, Recomputed) # Cycle => c \in fresh
              /\ memos' = [k \in Key |->
                             IF k \in fresh
                             THEN [value |-> KeyOutcome(k, Recomputed),
                                   observed |-> KeyReads(k, source, Recomputed) \cup {c \in Cell : c = k}]
                             ELSE memos[k]]
              /\ answer' = [formula |-> f, value |-> Evaluate(f, Recomputed)]
              /\ UNCHANGED <<source, registered, sheet>>
  BY EvalFormulaEffect
<1>2. SourceOK' /\ RegisteredOK'
  BY <1>1 DEF EngineOK, SourceOK, RegisteredOK
<1>3. Recomputed' = Recomputed
  BY <1>1, <1>2, SameSourceSame DEF EngineOK
<1>4. source \in Contents
  BY SourceTyped DEF EngineOK
<1>5. PICK F : Computes(F, {}, {}, source) /\ Recomputed = F[{}]
  BY RecomputedComputes DEF EngineOK, RecomputedOK
<1>6. PICK v \in Values : v = Recomputed
  <2>1. {} \in SUBSET Cell
    OBVIOUS
  <2> QED
    BY <1>5, <2>1 DEF Computes
<1>7. ASSUME NEW k \in fresh
      PROVE  /\ \A c \in KeyReads(k, source, v) : c \in Cell /\ v[c] # Cycle
             /\ KeyOutcome(k, v) \in Outcomes
  <2>1. KeyOutcome(k, F[{}]) # Cycle /\ k \in Key
    BY <1>1, <1>5
  <2>2. \A c \in KeyReads(k, source, F[{}]) : c \in Cell /\ F[{}][c] # Cycle
    <3>1. PICK none : none = {} /\ Computes(F, {}, none, source)
      BY <1>5
    <3> QED
      BY <1>4, <2>1, <3>1, KeyReadsOf
  <2>3. KeyOutcome(k, v) \in Outcomes
    BY <2>1, KeyTyped, EvaluateTyped DEF KeyOutcome, Values
  <2> QED
    BY <1>5, <1>6, <2>2, <2>3
<1>. DEFINE memo(k) == [value |-> KeyOutcome(k, v), observed |-> KeyReads(k, source, v) \cup {c \in Cell : c = k}]
<1>8. ASSUME NEW k \in fresh
      PROVE  memo(k) \in Memo /\ memo(k) # None
  <2>1. KeyReads(k, source, v) \cup {c \in Cell : c = k} \in SUBSET Cell
    BY <1>7
  <2>2. memo(k) \in Memo
    BY <1>7, <2>1 DEF Memo
  <2> QED
    BY <2>2, NoneAssumption
<1>9. memos' = [k \in Key |-> IF k \in fresh THEN memo(k) ELSE memos[k]]
  BY <1>1, <1>6
<1>10. MemosTyped'
  <2>1. \A k \in Key : (IF k \in fresh THEN memo(k) ELSE memos[k]) \in Memo \cup {None}
    <3>. HIDE DEF memo
    <3> QED
      BY <1>8 DEF EngineOK, MemosTyped
  <2>. HIDE DEF memo
  <2> QED
    BY <1>9, <2>1 DEF MemosTyped
<1>11. \A k \in Key : memos[k] # None => memos'[k] # None
  <2>. HIDE DEF memo
  <2> QED
    BY <1>8, <1>9
<1>12. ASSUME NEW k \in Key, memos'[k] # None PROVE MemoOK(k, memos', source, v)
  <2>1. CASE k \in fresh
    <3>1. memos'[k] = memo(k)
      <4>. HIDE DEF memo
      <4> QED
        BY <1>9, <2>1
    <3>2. memos'[k].value = KeyOutcome(k, v)
          /\ memos'[k].observed = KeyReads(k, source, v) \cup {c \in Cell : c = k}
      BY <3>1
    <3>3. ASSUME NEW c \in KeyReads(k, source, v) PROVE memos'[c] # None \/ source[c] = None
      <4>1. c \in Cell /\ c \in Key /\ KeyOutcome(c, v) # Cycle
        BY <1>7, <2>1, KeyTyped DEF KeyOutcome
      <4>2. CASE c \notin registered
        BY <4>1, <4>2 DEF EngineOK, RegisteredOK
      <4>3. CASE memos[c] # None
        BY <1>11, <4>1, <4>3
      <4>4. CASE c \in registered /\ memos[c] = None
        <5>1. c \in fresh
          BY <1>1, <1>6, <2>1, <4>1, <4>4
        <5>. HIDE DEF memo
        <5> QED
          BY <1>8, <1>9, <4>1, <5>1
      <4> QED
        BY <4>2, <4>3, <4>4
    <3>. HIDE DEF memo
    <3> QED
      BY <1>1, <1>6, <1>12, <2>1, <3>2, <3>3 DEF MemoOK
  <2>2. CASE k \notin fresh
    <3>1. memos'[k] = memos[k]
      <4>. HIDE DEF memo
      <4> QED
        BY <1>9, <2>2
    <3>2. MemoOK(k, memos, source, v) /\ memos[k].observed \subseteq Key
      BY <1>6, <1>12, <3>1, KeyTyped DEF EngineOK, MemosOK, AllOK, MemosTyped, Memo
    <3> QED
      BY <1>11, <3>1, <3>2 DEF MemoOK
  <2> QED
    BY <2>1, <2>2
<1>13. MemosOK'
  BY <1>1, <1>3, <1>6, <1>12 DEF MemosOK, AllOK
<1>14. AnswerOK'
  BY <1>1, <1>3 DEF AnswerOK
<1> QED
  BY <1>2, <1>10, <1>13, <1>14 DEF EngineOK

LEMMA EngineInvariant == Spec => []EngineOK
<1>1. Init => EngineOK
  <2> SUFFICES ASSUME Init PROVE EngineOK
    OBVIOUS
  <2>1. SourceOK /\ RegisteredOK
    BY ValueAssumption DEF Init, SourceOK, RegisteredOK, FromCellValue, Blank
  <2>2. MemosTyped /\ MemosOK /\ AnswerOK
    BY DEF Init, MemosTyped, MemosOK, AllOK, AnswerOK
  <2> QED
    BY <2>1, <2>2 DEF EngineOK
<1>2. EngineOK /\ [Next]_vars => EngineOK'
  <2> SUFFICES ASSUME EngineOK, [Next]_vars PROVE EngineOK'
    OBVIOUS
  <2>1. ASSUME NEW c \in Cell, NEW value \in CellValue, SetCell(c, value) PROVE EngineOK'
    BY <2>1, SetCellKeeps
  <2>2. ASSUME NEW cells \in Sheet, SyncSheet(cells) PROVE EngineOK'
    BY <2>2, SyncSheetKeeps
  <2>3. ASSUME NEW f \in Formula, EvalFormula(f) PROVE EngineOK'
    BY <2>3, EvalFormulaKeeps
  <2>4. CASE UNCHANGED vars
    <3>1. UNCHANGED <<source, registered, memos, sheet, answer>>
      BY <2>4 DEF vars
    <3>2. SourceOK' /\ RegisteredOK' /\ MemosTyped'
      BY <3>1 DEF EngineOK, SourceOK, RegisteredOK, MemosTyped
    <3>3. Recomputed' = Recomputed
      BY <3>1, <3>2, SameSourceSame DEF EngineOK
    <3>4. MemosOK' /\ AnswerOK'
      BY <3>1, <3>3 DEF EngineOK, MemosOK, AllOK, AnswerOK
    <3> QED
      BY <3>2, <3>4 DEF EngineOK
  <2> QED
    BY <2>1, <2>2, <2>3, <2>4 DEF Next
<1> QED
  BY <1>1, <1>2, PTL DEF Spec

\* Nothing the incremental engine remembers is stale, after any calls of
\* set_cell, sync_sheet and eval_formula.
THEOREM SheetMemosCurrent == Spec => []MemosCurrent
<1>1. EngineOK => MemosCurrent
  BY DEF EngineOK, MemosOK, AllOK, MemoOK, KeyOutcome, MemosCurrent
<1> QED
  BY <1>1, EngineInvariant, PTL

\* eval_formula answers as a full recomputation over the cells would.
THEOREM SheetAnswersCurrent == Spec => []AnswersCurrent
<1>1. EngineOK => AnswersCurrent
  BY DEF EngineOK, AnswerOK, AnswersCurrent
<1> QED
  BY <1>1, EngineInvariant, PTL

(***************************************************************************)
(* Cycles                                                                  *)
(***************************************************************************)
FormulaReads(f) == {f.reads[i] : i \in DOMAIN f.reads}
After(c) == ReachedFrom({l[2] : l \in {m \in Links : m[1] = c}})

LEMMA LinksOf ==
    ASSUME SourceOK, NEW c \in Cell
    PROVE  /\ sheet[c] \in Content
           /\ \A d : <<c, d>> \in Links <=> d \in FormulaReads(sheet[c])
           /\ Numeric(source[c]) => source[c] = sheet[c]
           /\ Numeric(sheet[c]) => source[c] = sheet[c]
<1>1. sheet[c] \in Content /\ source[c] = FromCellValue(sheet[c])
  BY ValueAssumption DEF SourceOK
<1>2. \A d \in FormulaReads(sheet[c]) : d \in Cell
  BY <1>1, ReadsOf DEF FormulaReads
<1>3. \A d : <<c, d>> \in Links <=> d \in FormulaReads(sheet[c])
  BY <1>2 DEF Links, FormulaReads
<1> QED
  BY <1>1, <1>3 DEF FromCellValue, Numeric

LEMMA ReachedOf ==
    ASSUME NEW cells \in SUBSET Cell
    PROVE  /\ ReachedFrom(cells) \subseteq Cell /\ cells \subseteq ReachedFrom(cells)
           /\ \A c, d : c \in ReachedFrom(cells) /\ <<c, d>> \in Links => d \in ReachedFrom(cells)
<1>1. \A l \in Links : l[2] \in Cell
  BY DEF Links
<1>2. ASSUME NEW c, NEW d, c \in ReachedFrom(cells), <<c, d>> \in Links
      PROVE  d \in ReachedFrom(cells)
  <2>1. d \in Cell
    BY <1>1, <1>2
  <2>2. ASSUME NEW S \in SUBSET Cell, cells \subseteq S, \A l \in Links : l[1] \in S => l[2] \in S
        PROVE  d \in S
    <3>1. c \in S
      BY <1>2, <2>2 DEF ReachedFrom
    <3> QED
      BY <1>2, <2>2, <3>1
  <2> QED
    BY <2>1, <2>2 DEF ReachedFrom
<1> QED
  BY <1>2 DEF ReachedFrom

LEMMA ReachedLeast ==
    ASSUME NEW cells, NEW S \in SUBSET Cell, cells \subseteq S,
           \A c \in S : \A d : <<c, d>> \in Links => d \in S
    PROVE  ReachedFrom(cells) \subseteq S
<1>1. \A l \in Links : l = <<l[1], l[2]>>
  BY DEF Links
<1>2. \A l \in Links : l[1] \in S => l[2] \in S
  BY <1>1
<1> QED
  BY <1>2 DEF ReachedFrom

LEMMA AfterOf ==
    ASSUME NEW c \in Cell
    PROVE  /\ After(c) \subseteq Cell
           /\ \A d : <<c, d>> \in Links => d \in After(c)
           /\ \A d, e : d \in After(c) /\ <<d, e>> \in Links => e \in After(c)
           /\ \A d \in After(c) : After(d) \subseteq After(c)
<1>. DEFINE succ(x) == {l[2] : l \in {m \in Links : m[1] = x}}
<1>1. \A x : succ(x) \in SUBSET Cell /\ After(x) = ReachedFrom(succ(x))
  BY DEF Links, After
<1>2. \A x, d : <<x, d>> \in Links => d \in succ(x)
  OBVIOUS
<1>3. \A x : \A d \in succ(x) : <<x, d>> \in Links
  BY DEF Links
<1>. HIDE DEF succ
<1>4. /\ After(c) \subseteq Cell /\ \A d : <<c, d>> \in Links => d \in After(c)
      /\ \A d, e : d \in After(c) /\ <<d, e>> \in Links => e \in After(c)
  BY <1>1, <1>2, ReachedOf
<1>5. ASSUME NEW d \in After(c) PROVE After(d) \subseteq After(c)
  <2>1. succ(d) \subseteq After(c)
    BY <1>3, <1>4
  <2>2. \A x \in After(c) : \A y : <<x, y>> \in Links => y \in After(c)
    BY <1>4
  <2>3. ReachedFrom(succ(d)) \subseteq After(c)
    BY <1>4, <2>1, <2>2, ReachedLeast
  <2> QED
    BY <1>1, <2>3
<1> QED
  BY <1>4, <1>5

\* A cell that is a cycle reads one that is.
LEMMA CycleReadsCycle ==
    ASSUME EngineOK, NEW c \in Cell, Recomputed[c] = Cycle
    PROVE  \E d \in Cell : <<c, d>> \in Links /\ Recomputed[d] = Cycle
<1>1. PICK F, none : none = {} /\ Computes(F, none, none, source) /\ Recomputed = F[{}]
  BY RecomputedComputes DEF EngineOK, RecomputedOK
<1>2. source \in Contents /\ source[c] \in Content \cup {None}
  BY SourceTyped DEF EngineOK, Contents
<1>3. Recomputed[c] = CellOutcome(c, source[c], Recomputed)
  BY <1>1, <1>2, Fixpoint
<1>4. PICK d \in CellReads(source[c], Recomputed) : Recomputed[d] = Cycle
  BY <1>2, <1>3, OutcomeCycle
<1>5. Numeric(source[c]) /\ source[c] = sheet[c] /\ sheet[c] \in Content
  BY <1>4, LinksOf DEF CellReads, EngineOK
<1>6. d \in Cell /\ d \in FormulaReads(sheet[c])
  BY <1>4, <1>5, CellsReadAreRead DEF CellReads, FormulaReads
<1> QED
  BY <1>4, <1>6, LinksOf DEF EngineOK

\* Of the cycles reached, the one with the fewest cells behind it is behind one
\* of those, and so behind itself.
LEMMA CycleHasLoop ==
    ASSUME EngineOK, NEW f \in Formula, Evaluate(f, Recomputed) = Cycle
    PROVE  \E c \in ReachedFrom(FormulaReads(f)) : c \in After(c)
<1>. DEFINE reached == ReachedFrom(FormulaReads(f))
            Z == {c \in reached : Recomputed[c] = Cycle}
            T == {After(c) : c \in Z}
<1>1. f \in Content /\ FormulaReads(f) \in SUBSET Cell
  BY KeyTyped, ReadsOf DEF FormulaReads
<1>2. reached \subseteq Cell /\ FormulaReads(f) \subseteq reached
      /\ \A c, d : c \in reached /\ <<c, d>> \in Links => d \in reached
  BY <1>1, ReachedOf
<1>. HIDE DEF reached
<1>3. Z # {}
  <2>1. PICK c \in CellsRead(f, Recomputed) : Recomputed[c] = Cycle
    BY <1>1, EvaluateCycle
  <2>2. c \in reached
    BY <1>1, <1>2, CellsReadAreRead DEF FormulaReads
  <2> QED
    BY <2>1, <2>2
<1>4. T \in SUBSET SUBSET Cell /\ T # {}
  <2>1. \A c \in Z : After(c) \in SUBSET Cell
    BY <1>2, AfterOf
  <2>2. \A x \in T : x \in SUBSET Cell
    BY <2>1
  <2>3. T # {}
    BY <1>3
  <2>. HIDE DEF T
  <2> QED
    BY <2>2, <2>3
<1>5. PICK A \in T : \A B \in T : B \subseteq A => B = A
  <2>. HIDE DEF T
  <2> QED
    BY <1>4, CellAssumption, MinimalMember
<1>6. PICK c \in Z : A = After(c)
  OBVIOUS
<1>7. PICK d \in Cell : <<c, d>> \in Links /\ Recomputed[d] = Cycle
  BY <1>2, <1>6, CycleReadsCycle
<1>8. d \in Z /\ c \in Cell
  BY <1>2, <1>6, <1>7
<1>9. d \in After(c) /\ After(d) \subseteq After(c)
  BY <1>7, <1>8, AfterOf
<1>10. After(d) = After(c)
  <2>1. After(d) \in T
    BY <1>8
  <2>. HIDE DEF T
  <2> QED
    BY <1>5, <1>6, <1>9, <2>1
<1> QED
  BY <1>8, <1>9, <1>10 DEF reached

\* Over cells that are numbers or cycles, a number is made of numbers.
LEMMA LoopIsCycle ==
    ASSUME EngineOK, NEW f \in Formula, NEW c \in ReachedFrom(FormulaReads(f)), c \in After(c),
           \A d \in ReachedFrom(FormulaReads(f)) : Numeric(sheet[d]) /\ ~sheet[d].fails
    PROVE  Evaluate(f, Recomputed) = Cycle
<1>. DEFINE reached == ReachedFrom(FormulaReads(f))
<1>1. f \in Content /\ FormulaReads(f) \in SUBSET Cell
  BY KeyTyped, ReadsOf DEF FormulaReads
<1>2. reached \subseteq Cell /\ FormulaReads(f) \subseteq reached
      /\ \A x, y : x \in reached /\ <<x, y>> \in Links => y \in reached
  BY <1>1, ReachedOf
<1>3. ASSUME NEW d \in reached
      PROVE  /\ d \in Cell /\ sheet[d] \in Content /\ ~sheet[d].fails
             /\ \A v : CellOutcome(d, source[d], v) = Evaluate(sheet[d], v)
             /\ \A y : <<d, y>> \in Links <=> y \in FormulaReads(sheet[d])
             /\ \A i \in DOMAIN sheet[d].reads : sheet[d].reads[i] \in reached
  <2>1. d \in Cell /\ Numeric(sheet[d]) /\ ~sheet[d].fails
    BY <1>2
  <2>2. sheet[d] \in Content /\ source[d] = sheet[d]
        /\ \A y : <<d, y>> \in Links <=> y \in FormulaReads(sheet[d])
    BY <2>1, LinksOf DEF EngineOK
  <2>3. \A i \in DOMAIN sheet[d].reads : sheet[d].reads[i] \in FormulaReads(sheet[d])
    BY DEF FormulaReads
  <2>4. \A v : CellOutcome(d, source[d], v) = Evaluate(sheet[d], v)
    BY <2>1, <2>2 DEF CellOutcome
  <2>. HIDE DEF reached
  <2>5. \A i \in DOMAIN sheet[d].reads : sheet[d].reads[i] \in reached
    <3> SUFFICES ASSUME NEW i \in DOMAIN sheet[d].reads PROVE sheet[d].reads[i] \in reached
      OBVIOUS
    <3>1. <<d, sheet[d].reads[i]>> \in Links
      BY <2>2, <2>3
    <3> QED
      BY <1>2, <1>3, <3>1
  <2> QED
    BY <2>1, <2>2, <2>4, <2>5
<1>. HIDE DEF reached
<1>4. PICK F : Computes(F, {}, {}, source) /\ Recomputed = F[{}]
  BY RecomputedComputes DEF EngineOK, RecomputedOK
<1>5. source \in Contents
  BY SourceTyped DEF EngineOK
<1>6. ASSUME NEW A \in SUBSET Cell, NEW d \in reached
      PROVE  F[A][d] = IF d \in A THEN Cycle ELSE Evaluate(sheet[d], F[A \cup {d}])
  BY <1>3, <1>4, <1>6 DEF Computes
<1>7. Cycle.kind = "cycle"
  BY DEF Cycle, Outcome
<1>. DEFINE Other(A) == \E d \in reached : F[A][d] # Cycle /\ F[A][d].kind # "number"
            bad == {A \in SUBSET Cell : Other(A)}
<1>8. bad = {}
  <2>1. SUFFICES ASSUME bad # {} PROVE FALSE
    OBVIOUS
  <2>2. PICK A \in bad : \A B \in bad : A \subseteq B => B = A
    <3>1. bad \in SUBSET SUBSET Cell
      OBVIOUS
    <3>. HIDE DEF bad
    <3> QED
      BY <2>1, <3>1, CellAssumption, MaximalMember
  <2>3. PICK d \in reached : F[A][d] # Cycle /\ F[A][d].kind # "number"
    OBVIOUS
  <2>4. d \notin A /\ d \in Cell /\ A \in SUBSET Cell
    BY <1>2, <1>6, <2>3
  <2>5. A \cup {d} \in SUBSET Cell /\ A \cup {d} \notin bad
    <3>1. A \cup {d} \in SUBSET Cell /\ A \cup {d} # A
      BY <2>4
    <3>. HIDE DEF bad
    <3> QED
      BY <2>2, <3>1
  <2>6. PICK v : v = F[A \cup {d}]
    OBVIOUS
  <2>7. F[A][d] = Evaluate(sheet[d], v)
    BY <1>6, <2>4, <2>6
  <2>8. CASE Stops(sheet[d], v) = {}
    BY <1>3, <2>3, <2>7, <2>8, Unstopped
  <2>9. CASE Stops(sheet[d], v) # {}
    <3>1. PICK m \in DOMAIN sheet[d].reads :
             v[sheet[d].reads[m]].kind # "number" /\ Evaluate(sheet[d], v) = v[sheet[d].reads[m]]
      BY <1>3, <2>9, StoppedAt
    <3>2. v[sheet[d].reads[m]] = Cycle
      BY <1>3, <2>5, <2>6, <3>1
    <3> QED
      BY <2>3, <2>7, <3>1, <3>2
  <2> QED
    BY <2>8, <2>9
<1>9. ASSUME NEW A \in SUBSET Cell, NEW d \in reached, F[A][d].kind = "number", NEW y, <<d, y>> \in Links
      PROVE  d \notin A /\ y \in reached /\ F[A \cup {d}][y].kind = "number" /\ F[A][y].kind = "number"
  <2>1. d \notin A
    BY <1>6, <1>7, <1>9
  <2>2. PICK v, B : B = A \cup {d} /\ v = F[B]
    OBVIOUS
  <2>3. B \in SUBSET Cell /\ A \in SUBSET B
    BY <1>2, <2>2
  <2>4. Evaluate(sheet[d], v).kind = "number"
    BY <1>6, <1>9, <2>1, <2>2
  <2>5. Stops(sheet[d], v) = {}
    <3>1. SUFFICES ASSUME Stops(sheet[d], v) # {} PROVE FALSE
      OBVIOUS
    <3>2. PICK m \in DOMAIN sheet[d].reads :
             v[sheet[d].reads[m]].kind # "number" /\ Evaluate(sheet[d], v) = v[sheet[d].reads[m]]
      BY <1>3, <3>1, StoppedAt
    <3> QED
      BY <2>4, <3>2
  <2>6. PICK i \in DOMAIN sheet[d].reads : y = sheet[d].reads[i]
    BY <1>3, <1>9 DEF FormulaReads
  <2>7. y \in reached /\ y \in Cell /\ v[y].kind = "number"
    BY <1>2, <1>3, <2>5, <2>6, Unstopped
  <2>8. F[B][y] # Cycle
    BY <1>7, <2>2, <2>7
  <2>9. F[A][y] = F[B][y]
    <3>1. PICK known, pre : Computes(F, known, pre, source)
      BY <1>4
    <3> QED
      BY <1>5, <2>3, <2>7, <2>8, <3>1, Grows
  <2> QED
    BY <2>1, <2>2, <2>7, <2>9
<1>. DEFINE Follows(A) ==
               \A d \in reached : \A y :
                  F[A][d].kind = "number" /\ <<d, y>> \in Links =>
                     y \in reached /\ F[A \cup {d}][y].kind = "number" /\ F[A][y].kind = "number"
<1>f. \A A \in SUBSET Cell : Follows(A)
  BY <1>9
<1>10. SUFFICES ASSUME Evaluate(f, Recomputed) # Cycle PROVE FALSE
  OBVIOUS
<1>11. {} \in SUBSET Cell /\ c \in Cell /\ {c} \in SUBSET Cell /\ c \in reached
  BY <1>2 DEF reached
<1>12. \A y \in FormulaReads(f) : F[{}][y].kind = "number"
  <2>1. \A i \in DOMAIN f.reads : f.reads[i] \in reached
    BY <1>2 DEF FormulaReads
  <2>2. CASE Stops(f, Recomputed) # {}
    <3>1. PICK m \in DOMAIN f.reads :
             Recomputed[f.reads[m]].kind # "number" /\ Evaluate(f, Recomputed) = Recomputed[f.reads[m]]
      BY <1>1, <2>2, StoppedAt
    <3> QED
      BY <1>4, <1>8, <1>10, <1>11, <2>1, <3>1
  <2>3. CASE Stops(f, Recomputed) = {}
    BY <1>1, <1>4, <2>3, Unstopped DEF FormulaReads
  <2> QED
    BY <2>2, <2>3
<1>13. F[{}][c].kind = "number"
  <2>. DEFINE N == {d \in reached : F[{}][d].kind = "number"}
  <2>1. N \in SUBSET Cell /\ FormulaReads(f) \subseteq N /\ \A x \in N : \A y : <<x, y>> \in Links => y \in N
    <3>1. FormulaReads(f) \subseteq N
      BY <1>2, <1>12
    <3>2. ASSUME NEW x \in N, NEW y, <<x, y>> \in Links PROVE y \in N
      <4>1. Follows({})
        BY <1>f, <1>11
      <4> QED
        BY <3>2, <4>1
    <3>3. N \in SUBSET Cell
      BY <1>2
    <3>. HIDE DEF N
    <3> QED
      BY <3>1, <3>2, <3>3
  <2>2. ReachedFrom(FormulaReads(f)) \subseteq N
    <3>. HIDE DEF N
    <3> QED
      BY <2>1, ReachedLeast
  <2> QED
    BY <2>2
<1>14. After(c) \subseteq {d \in reached : F[{c}][d].kind = "number"}
  <2>. DEFINE S == {d \in reached : F[{c}][d].kind = "number"}
              succ == {l[2] : l \in {m \in Links : m[1] = c}}
  <2>1. succ \subseteq S
    <3>1. \A y \in succ : <<c, y>> \in Links
      BY DEF Links
    <3>2. {} \cup {c} = {c}
      OBVIOUS
    <3>3. \A y : <<c, y>> \in Links => y \in reached /\ F[{} \cup {c}][y].kind = "number"
      BY <1>9, <1>11, <1>13
    <3> QED
      BY <3>1, <3>2, <3>3
  <2>2. S \in SUBSET Cell /\ \A x \in S : \A y : <<x, y>> \in Links => y \in S
    <3>1. ASSUME NEW x \in S, NEW y, <<x, y>> \in Links PROVE y \in S
      <4>1. Follows({c})
        BY <1>f, <1>11
      <4> QED
        BY <3>1, <4>1
    <3>2. S \in SUBSET Cell
      BY <1>2
    <3>. HIDE DEF S
    <3> QED
      BY <3>1, <3>2
  <2>3. After(c) = ReachedFrom(succ)
    BY DEF After
  <2>4. After(c) \subseteq S
    <3>. HIDE DEF S, succ
    <3> QED
      BY <2>1, <2>2, <2>3, ReachedLeast
  <2> QED
    BY <2>4
<1>15. F[{c}][c] = Cycle
  BY <1>6, <1>11
<1> QED
  BY <1>7, <1>14, <1>15

\* eval_formula refuses a formula as cyclic only when a cell it reaches reaches
\* itself, and always when it does and nothing stops the evaluation before.
THEOREM SheetCyclesReported == Spec => []CyclesReported
<1>1. EngineOK => CyclesReported
  <2> SUFFICES ASSUME EngineOK, answer # None PROVE CyclesReported
    BY DEF CyclesReported
  <2>1. PICK f \in Formula : f = answer.formula /\ answer.value = Evaluate(f, Recomputed)
    BY DEF EngineOK, AnswerOK
  <2>. DEFINE reached == ReachedFrom(FormulaReads(f))
              cyclic == \E c \in reached : c \in After(c)
              unstopped == \A c \in reached : Numeric(sheet[c]) /\ ~sheet[c].fails
  <2>2. answer.value = Cycle => cyclic
    BY <2>1, CycleHasLoop
  <2>3. cyclic /\ unstopped => answer.value = Cycle
    BY <2>1, LoopIsCycle
  <2> QED
    BY <2>1, <2>2, <2>3 DEF CyclesReported, FormulaReads, After
<1> QED
  BY <1>1, EngineInvariant, PTL
==============================================================================
