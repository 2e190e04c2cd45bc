---------------------------- MODULE DocStoreProofs ----------------------------
(***************************************************************************)
(* The document store keeps its types and follows the ledger whatever its  *)
(* processes do, and answers undo and evidence from all it has projected.  *)
(* It implements DocProjection, create races included: what is committed   *)
(* is lost only to a creator that found the path absent, and never once    *)
(* the store has settled.                                                  *)
(***************************************************************************)
EXTENDS DocStore, FiniteSetTheorems, WellFoundedInduction, TLAPS

(***************************************************************************)
(* Types, and the projection follows the ledger                            *)
(***************************************************************************)
IInv == TablesOK /\ ProjectionFollowsLedger

LEMMA InitIInv == Init => IInv
<1> SUFFICES ASSUME Init PROVE IInv
  OBVIOUS
<1>1. TablesOK
  BY InitialFileAssumption DEF Init, TablesOK
<1>2. ProjectionFollowsLedger
  BY DEF Init, ProjectionFollowsLedger
<1> QED BY <1>1, <1>2 DEF IInv

LEMMA InvertedType == \A e \in Edit : Inverted(e) \in Edit
  BY DEF Edit, Inverted

\* Emptying the tables keeps both parts.
LEMMA EmptyIInv ==
    ASSUME IInv, EmptyTables, ledger' = ledger,
           file' \in {"absent", "partial", "whole"},
           session' \in [Process -> {"closed", "creating", "writing", "opening", "rw", "ro"}]
    PROVE  IInv'
  BY DEF IInv, TablesOK, ProjectionFollowsLedger, EmptyTables

\* A step that leaves the tables and the ledger alone keeps both parts.
LEMMA SessionIInv ==
    ASSUME IInv, UNCHANGED <<file, docs, rows, facts, ledger>>,
           session' \in [Process -> {"closed", "creating", "writing", "opening", "rw", "ro"}]
    PROVE  IInv'
  BY DEF IInv, TablesOK, ProjectionFollowsLedger

LEMMA LifeIInv == ASSUME IInv, NEW p \in Process, Life(p) PROVE IInv'
<1> USE DEF IInv, TablesOK
<1>1. CASE TestPath(p)
  BY <1>1, SessionIInv DEF TestPath
<1>2. CASE Truncate(p)
  BY <1>2, EmptyIInv DEF Truncate
<1>3. CASE WriteEmptyStore(p)
  BY <1>3, EmptyIInv DEF WriteEmptyStore
<1>4. CASE Open(p)
  BY <1>4, SessionIInv DEF Open
<1>5. CASE OpenReadOnly(p)
  BY <1>5, SessionIInv DEF OpenReadOnly
<1>6. CASE Crash(p)
  BY <1>6, SessionIInv DEF Crash
<1> QED BY <1>1, <1>2, <1>3, <1>4, <1>5, <1>6 DEF Life

LEMMA RefuseIInv == ASSUME IInv, NEW op, Refuse(op) PROVE IInv'
  BY SessionIInv DEF Refuse, IInv, TablesOK

LEMMA SaveDocIInv ==
    ASSUME IInv, NEW p \in Process, NEW d \in DocId, NEW body \in Body, SaveDoc(p, d, body)
    PROVE  IInv'
  BY RefuseIInv DEF SaveDoc, IInv, TablesOK, ProjectionFollowsLedger

LEMMA LedgerCommitIInv ==
    ASSUME IInv, NEW s \in Sequences64, NEW edit \in LedgerEdit, LedgerCommit(s, edit)
    PROVE  IInv'
<1>1. ledger[s] = None /\ edit \in Edit
  BY BoundsAssumption, LedgerEditAssumption DEF LedgerCommit, Sequences64
<1>2. TablesOK'
  BY <1>1 DEF LedgerCommit, IInv, TablesOK
<1>3. ASSUME NEW t \in 0..SignedMax, rows'[t] # None
      PROVE  rows'[t] = [doc |-> ledger'[t].doc, edit |-> ledger'[t],
                         inverse |-> Inverted(ledger'[t])]
  <2>1. rows[t] = [doc |-> ledger[t].doc, edit |-> ledger[t], inverse |-> Inverted(ledger[t])]
    BY <1>3 DEF LedgerCommit, IInv, ProjectionFollowsLedger
  <2>2. t \in Sequences64
    BY BoundsAssumption DEF Sequences64
  <2>3. rows[t] \in Row
    BY <1>3 DEF LedgerCommit, IInv, TablesOK
  <2>4. ledger[t] \in Edit
    BY <2>1, <2>3 DEF Row
  <2>5. t # s
    BY <1>1, <2>4, NoneAssumption
  <2> QED BY <2>1, <2>2, <2>5 DEF LedgerCommit, IInv, TablesOK
<1> QED BY <1>2, <1>3 DEF IInv, ProjectionFollowsLedger

LEMMA ProjectCommitIInv ==
    ASSUME IInv, NEW p \in Process, NEW d \in DocId, NEW s \in Sequences64,
           NEW edit \in LedgerEdit, ledger[s] = edit \/ (FitsSigned(s) /\ rows[s] # None),
           ProjectCommit(p, d, edit, s)
    PROVE  IInv'
<1>1. CASE Refuse("project_commit")
  BY <1>1, RefuseIInv
<1>2. CASE ~Refuse("project_commit")
  <2>1. /\ ledger[s] = edit
        /\ ledger[s].doc = d
        /\ s <= SignedMax
        /\ rows' = [rows EXCEPT ![s] =
               [doc |-> d, edit |-> ledger[s], inverse |-> Inverted(ledger[s])]]
        /\ UNCHANGED <<file, docs, facts, ledger, session>>
    BY <1>2 DEF ProjectCommit, FitsSigned
  <2>2. s \in 0..SignedMax /\ ledger[s] \in Edit
    BY <2>1, BoundsAssumption, LedgerEditAssumption DEF Sequences64
  <2>3. [doc |-> d, edit |-> ledger[s], inverse |-> Inverted(ledger[s])] \in Row
    BY <2>2, InvertedType DEF Row
  <2>4. TablesOK'
    BY <2>1, <2>2, <2>3 DEF IInv, TablesOK
  <2>5. ProjectionFollowsLedger'
    BY <2>1, <2>2 DEF IInv, TablesOK, ProjectionFollowsLedger
  <2> QED BY <2>4, <2>5 DEF IInv
<1> QED BY <1>1, <1>2

\* The key under which evidence that fits the column is stored.
KeyOf(e) == [subject |-> e.subject, link |-> e.link, captured_at_seq |-> e.captured_at_seq]

LEMMA EvidenceKey ==
    ASSUME NEW e \in SuppliedEvidence, FitsSigned(e.captured_at_seq)
    PROVE  KeyOf(e) \in Fact /\ e.hint \in Hint /\ e.hint # None
<1>1. /\ e.subject \in DocId /\ e.link \in Link /\ e.hint \in Hint
      /\ e.captured_at_seq \in 0..SeqMax
  BY EvidenceAssumption DEF Evidence, Sequences64
<1>2. e.captured_at_seq \in 0..SignedMax
  BY <1>1, BoundsAssumption DEF FitsSigned
<1> QED BY <1>1, <1>2, NoneAssumption DEF KeyOf, Fact

LEMMA AttachIInv ==
    ASSUME IInv, NEW p \in Process, NEW e \in SuppliedEvidence, Attach(p, e)
    PROVE  IInv'
<1>1. CASE Refuse("attach")
  BY <1>1, RefuseIInv
<1>2. CASE ~Refuse("attach")
  <2>1. /\ FitsSigned(e.captured_at_seq)
        /\ facts' = [facts EXCEPT ![KeyOf(e)] = e.hint]
        /\ UNCHANGED <<file, docs, rows, ledger, session>>
    BY <1>2 DEF Attach, KeyOf
  <2>2. facts' \in [Fact -> Hint \cup {None}]
    BY <2>1, EvidenceKey DEF IInv, TablesOK
  <2> QED BY <2>1, <2>2 DEF IInv, TablesOK, ProjectionFollowsLedger
<1> QED BY <1>1, <1>2

LEMMA ReadIInv ==
    ASSUME IInv, NEW p \in Process, NEW d \in DocId,
           LoadDoc(p, d) \/ UndoLast(p, d) \/ EvidenceFor(p, d)
    PROVE  IInv'
  BY RefuseIInv, SessionIInv DEF LoadDoc, UndoLast, EvidenceFor, IInv, TablesOK

LEMMA NextIInv == IInv /\ [Next]_vars => IInv'
<1> SUFFICES ASSUME IInv, [Next]_vars PROVE IInv'
  OBVIOUS
<1>1. ASSUME NEW p \in Process, Life(p) PROVE IInv'
  BY <1>1, LifeIInv
<1>2. ASSUME NEW p \in Process, Call(p) PROVE IInv'
  BY <1>2, SaveDocIInv, ReadIInv, ProjectCommitIInv, AttachIInv DEF Call
<1>3. ASSUME NEW s \in Sequences64, NEW edit \in LedgerEdit, LedgerCommit(s, edit) PROVE IInv'
  BY <1>3, LedgerCommitIInv
<1>4. CASE UNCHANGED vars
  BY <1>4, SessionIInv DEF vars, IInv, TablesOK
<1> QED BY <1>1, <1>2, <1>3, <1>4 DEF Next

THEOREM StoreInvariant == Spec => []IInv
  BY InitIInv, NextIInv, PTL DEF Spec

\* Every projected row is the ledger's own commit under the ledger's own
\* sequence (project_commit), for any number of processes.
THEOREM StoreFollowsLedger == Spec => []ProjectionFollowsLedger
<1>1. IInv => ProjectionFollowsLedger
  BY DEF IInv
<1> QED BY <1>1, StoreInvariant, PTL

(***************************************************************************)
(* Settling                                                                *)
(***************************************************************************)
\* No step, of a starting process or of any other, unsettles the store.
LEMMA LifeSettles ==
    ASSUME IInv, NEW p \in Process, Life(p)
    PROVE  Settled => Settled'
<1> USE DEF Settled, IInv, TablesOK
<1>1. CASE TestPath(p)
  BY <1>1 DEF TestPath
<1>2. CASE Truncate(p)
  BY <1>2 DEF Truncate
<1>3. CASE WriteEmptyStore(p)
  BY <1>3 DEF WriteEmptyStore
<1>4. CASE Open(p)
  BY <1>4 DEF Open
<1>5. CASE OpenReadOnly(p)
  BY <1>5 DEF OpenReadOnly
<1>6. CASE Crash(p)
  BY <1>6 DEF Crash
<1> QED BY <1>1, <1>2, <1>3, <1>4, <1>5, <1>6 DEF Life

\* A call moves neither the file nor any process.
LEMMA CallStays ==
    ASSUME NEW p \in Process, Call(p)
    PROVE  UNCHANGED <<file, session>>
  BY DEF Call, SaveDoc, LoadDoc, UndoLast, EvidenceFor, ProjectCommit, Attach, Refuse

LEMMA StaysSettled ==
    ASSUME UNCHANGED <<file, session>> PROVE Settled' <=> Settled
  BY DEF Settled

LEMMA NextSettles == ASSUME IInv, [Next]_vars PROVE Settled => Settled'
<1>1. ASSUME NEW s \in Sequences64, NEW edit \in LedgerEdit, LedgerCommit(s, edit)
      PROVE  Settled => Settled'
  BY <1>1, StaysSettled DEF LedgerCommit
<1>2. CASE UNCHANGED vars
  BY <1>2, StaysSettled DEF vars
<1>3. ASSUME NEW p \in Process, Call(p) PROVE Settled => Settled'
  BY <1>3, CallStays, StaysSettled
<1> QED BY <1>1, <1>2, <1>3, LifeSettles DEF Next

\* What a step of a starting process does to the tables: a creator that found
\* the path absent empties them, and no other touches them.
Creates(p) == Truncate(p) \/ WriteEmptyStore(p)

LEMMA CreatesUnsettled ==
    ASSUME NEW p \in Process, Creates(p) PROVE ~Settled
  BY DEF Creates, Truncate, WriteEmptyStore, Settled

LEMMA LifeTables ==
    ASSUME NEW p \in Process, Life(p), ~Creates(p)
    PROVE  UNCHANGED tables
  BY DEF Life, Creates, TestPath, Open, OpenReadOnly, Crash, tables

(***************************************************************************)
(* The refinement                                                          *)
(***************************************************************************)
LEMMA EditOfSome == \A r \in Row : EditOf(r) \in Edit /\ EditOf(r) # None
  BY NoneAssumption DEF EditOf, Row

LEMMA InitRefines == Init => Projection!Init
  BY DEF Init, Projection!Init, EditOf, Settled

\* A step that leaves the tables alone stutters, or settles the store.
LEMMA QuietRefines ==
    ASSUME UNCHANGED tables, Settled => Settled'
    PROVE  [Projection!Next]_(Projection!vars)
<1>1. CASE Settled' <=> Settled
  BY <1>1 DEF tables, Projection!vars, Settled
<1>2. CASE ~Settled /\ Settled'
  <2>1. Projection!Settle
    BY <1>2 DEF tables, Projection!Settle
  <2> QED BY <2>1 DEF Projection!Next
<1> QED BY <1>1, <1>2 DEF Settled

LEMMA CreateRefines ==
    ASSUME NEW p \in Process, Creates(p)
    PROVE  [Projection!Next]_(Projection!vars)
<1>1. EmptyTables /\ ~Settled
  BY CreatesUnsettled DEF Creates, Truncate, WriteEmptyStore
<1>2. Projection!Reset
  BY <1>1 DEF EmptyTables, Projection!Reset, EditOf, Settled
<1> QED BY <1>2 DEF Projection!Next

LEMMA SaveDocRefines ==
    ASSUME NEW p \in Process, NEW d \in DocId, NEW body \in Body, SaveDoc(p, d, body)
    PROVE  [Projection!Next]_(Projection!vars)
<1>1. CASE Refuse("save_doc")
  BY <1>1, StaysSettled, QuietRefines DEF Refuse, tables
<1>2. CASE ~Refuse("save_doc")
  <2>1. Projection!Save(d, body)
    BY <1>2 DEF SaveDoc, Projection!Save, Settled
  <2> QED BY <2>1 DEF Projection!Next
<1> QED BY <1>1, <1>2

LEMMA ProjectCommitRefines ==
    ASSUME IInv, NEW p \in Process, NEW d \in DocId, NEW s \in Sequences64,
           NEW edit \in LedgerEdit, ProjectCommit(p, d, edit, s)
    PROVE  [Projection!Next]_(Projection!vars)
<1>1. CASE Refuse("project_commit")
  BY <1>1, StaysSettled, QuietRefines DEF Refuse, tables
<1>2. CASE ~Refuse("project_commit")
  <2> DEFINE row == [doc |-> d, edit |-> edit, inverse |-> Inverted(edit)]
  <2>1. /\ s <= SignedMax
        /\ rows[s] = None
        /\ rows' = [rows EXCEPT ![s] = row]
        /\ edit.doc = d
        /\ UNCHANGED <<file, docs, facts, session>>
    BY <1>2 DEF ProjectCommit, FitsSigned
  <2>2. s \in 0..SignedMax /\ edit \in Edit
    BY <2>1, BoundsAssumption, LedgerEditAssumption DEF Sequences64
  <2>3. row \in Row
    BY <2>2, InvertedType DEF Row, Edit
  <2>4. EditOf(row) = edit
    BY <2>3, NoneAssumption DEF EditOf
  <2>5. [t \in 0..SignedMax |-> EditOf(rows[t])][s] = None
    BY <2>1, <2>2 DEF EditOf
  <2>6. [t \in 0..SignedMax |-> EditOf(rows'[t])]
          = [[t \in 0..SignedMax |-> EditOf(rows[t])] EXCEPT ![s] = edit]
    <3>1. ASSUME NEW t \in 0..SignedMax
          PROVE  EditOf(rows'[t]) = IF t = s THEN edit ELSE EditOf(rows[t])
      BY <2>1, <2>2, <2>4 DEF IInv, TablesOK
    <3> QED BY <3>1
  <2>7. Projection!Project(s, edit)
    BY <2>1, <2>2, <2>5, <2>6 DEF Projection!Project, Settled
  <2> QED BY <2>2, <2>7 DEF Projection!Next
<1> QED BY <1>1, <1>2

LEMMA AttachRefines ==
    ASSUME NEW p \in Process, NEW e \in SuppliedEvidence, Attach(p, e)
    PROVE  [Projection!Next]_(Projection!vars)
<1>1. CASE Refuse("attach")
  BY <1>1, StaysSettled, QuietRefines DEF Refuse, tables
<1>2. CASE ~Refuse("attach")
  <2>1. FitsSigned(e.captured_at_seq) /\ Projection!Attach(KeyOf(e), e.hint)
    BY <1>2 DEF Attach, KeyOf, Projection!Attach, Settled
  <2> QED BY <2>1, EvidenceKey DEF Projection!Next
<1> QED BY <1>1, <1>2

LEMMA NextRefines ==
    ASSUME IInv, [Next]_vars
    PROVE  [Projection!Next]_(Projection!vars)
<1>1. ASSUME NEW p \in Process, Life(p) PROVE [Projection!Next]_(Projection!vars)
  BY <1>1, CreateRefines, LifeTables, LifeSettles, QuietRefines
<1>2. ASSUME NEW p \in Process, Call(p) PROVE [Projection!Next]_(Projection!vars)
  <2>1. ASSUME NEW d \in DocId, LoadDoc(p, d) \/ UndoLast(p, d) \/ EvidenceFor(p, d)
        PROVE  [Projection!Next]_(Projection!vars)
    <3>1. UNCHANGED tables /\ UNCHANGED <<file, session>>
      BY <2>1 DEF LoadDoc, UndoLast, EvidenceFor, Refuse, tables
    <3> QED BY <3>1, StaysSettled, QuietRefines
  <2> QED BY <1>2, <2>1, SaveDocRefines, ProjectCommitRefines, AttachRefines DEF Call
<1>3. ASSUME NEW s \in Sequences64, NEW edit \in LedgerEdit, LedgerCommit(s, edit)
      PROVE  [Projection!Next]_(Projection!vars)
  BY <1>3, StaysSettled, QuietRefines DEF LedgerCommit, tables
<1>4. CASE UNCHANGED vars
  BY <1>4, StaysSettled, QuietRefines DEF vars, tables
<1> QED BY <1>1, <1>2, <1>3, <1>4 DEF Next

\* The store implements the durable projection through crashes, restarts and
\* create races (create, save_doc, project_commit, attach): it is reset only
\* while it is being created.
THEOREM StoreImplementsProjection == Spec => ImplementsProjection
<1>1. Init => Projection!Init
  BY InitRefines
<1>2. IInv /\ [Next]_vars => [Projection!Next]_(Projection!vars)
  BY NextRefines
<1> QED BY <1>1, <1>2, StoreInvariant, PTL DEF Spec, ImplementsProjection, Projection!Spec

(***************************************************************************)
(* Durability                                                              *)
(***************************************************************************)
Survives ==
    /\ Settled => Settled'
    /\ Kept \/ (~Settled /\ \E p \in Process : Truncate(p) \/ WriteEmptyStore(p))

LEMMA CallKeeps == ASSUME IInv, NEW p \in Process, Call(p) PROVE Kept
<1> USE DEF Kept
<1>1. ASSUME NEW d \in DocId, NEW body \in Body, SaveDoc(p, d, body) PROVE Kept
  BY <1>1, NoneAssumption DEF SaveDoc, Refuse, IInv, TablesOK
<1>2. ASSUME NEW d \in DocId, LoadDoc(p, d) \/ UndoLast(p, d) \/ EvidenceFor(p, d) PROVE Kept
  BY <1>2 DEF LoadDoc, UndoLast, EvidenceFor, Refuse
<1>3. ASSUME NEW d \in DocId, NEW s \in Sequences64, NEW edit \in LedgerEdit,
             ProjectCommit(p, d, edit, s)
      PROVE  Kept
  BY <1>3 DEF ProjectCommit, Refuse, IInv, TablesOK
<1>4. ASSUME NEW e \in SuppliedEvidence, Attach(p, e) PROVE Kept
  <2>1. CASE Refuse("attach")
    BY <2>1 DEF Refuse
  <2>2. CASE ~Refuse("attach")
    <3>1. /\ FitsSigned(e.captured_at_seq)
          /\ facts' = [facts EXCEPT ![KeyOf(e)] = e.hint]
          /\ UNCHANGED <<docs, rows>>
      BY <1>4, <2>2 DEF Attach, KeyOf
    <3>2. KeyOf(e) \in Fact /\ e.hint # None
      BY <3>1, EvidenceKey
    <3>3. facts \in [Fact -> Hint \cup {None}]
      BY DEF IInv, TablesOK
    <3>4. \A f \in Fact : facts[f] # None => facts'[f] # None
      BY <3>1, <3>2, <3>3
    <3> QED BY <3>1, <3>4
  <2> QED BY <2>1, <2>2
<1> QED BY <1>1, <1>2, <1>3, <1>4 DEF Call

LEMMA NextSurvives == ASSUME IInv, [Next]_vars PROVE Survives
<1>1. ASSUME UNCHANGED tables PROVE Kept
  BY <1>1 DEF tables, Kept
<1>2. ASSUME NEW p \in Process, Life(p)
      PROVE  Kept \/ (~Settled /\ \E q \in Process : Truncate(q) \/ WriteEmptyStore(q))
  BY <1>1, <1>2, LifeTables, CreatesUnsettled DEF Creates
<1>3. ASSUME NEW s \in Sequences64, NEW edit \in LedgerEdit, LedgerCommit(s, edit) PROVE Kept
  BY <1>1, <1>3 DEF LedgerCommit, tables
<1>4. CASE UNCHANGED vars
  BY <1>1, <1>4, NextSettles DEF vars, tables, Survives
<1> QED BY <1>2, <1>3, <1>4, CallKeeps, NextSettles DEF Next, Survives

\* For any number of creators: no step, crash or restart loses a commit, a
\* snapshot or an evidence fact, except a creator that found the path absent,
\* and not even that one once the store has settled.
THEOREM StoreCommittedSurvives == Spec => CommittedSurvives
<1>1. IInv /\ [Next]_vars => [Survives]_vars
  BY NextSurvives
<1> QED BY <1>1, StoreInvariant, PTL DEF Spec, CommittedSurvives, Survives

(***************************************************************************)
(* Undo                                                                    *)
(***************************************************************************)
\* A non-empty set of sequences has a last one.
LEMMA LastSequence ==
    ASSUME NEW S, S \subseteq 0..SignedMax, S # {}
    PROVE  \E m \in S : \A t \in S : t <= m
<1> DEFINE T == {SignedMax - s : s \in S}
<1>1. T \subseteq Nat /\ T # {}
  <2>1. \A s \in S : SignedMax - s \in Nat
    BY BoundsAssumption
  <2>2. PICK s \in S : TRUE
    OBVIOUS
  <2>3. SignedMax - s \in T
    BY <2>2
  <2> QED BY <2>1, <2>3
<1>2. PICK t \in T : \A u \in T : ~(<<u, t>> \in OpToRel(<, Nat))
  <2> HIDE DEF T
  <2> QED BY <1>1, NatLessThanWellFounded, WFMin
<1>3. \A u \in T : ~(u < t)
  BY <1>1, <1>2 DEF OpToRel
<1>4. PICK m \in S : t = SignedMax - m
  OBVIOUS
<1>5. \A s \in S : ~(SignedMax - s < SignedMax - m)
  BY <1>3, <1>4
<1> QED BY <1>5, BoundsAssumption

LEMMA RowsFollow ==
    ASSUME IInv, NEW s \in 0..SignedMax, rows[s] # None
    PROVE  rows[s].doc = ledger[s].doc /\ rows[s].inverse = Inverted(ledger[s])
<1>1. rows[s] = [doc |-> ledger[s].doc, edit |-> ledger[s], inverse |-> Inverted(ledger[s])]
  BY DEF IInv, ProjectionFollowsLedger
<1> QED BY <1>1

LEMMA CommitsOf ==
    ASSUME IInv, NEW d \in DocId
    PROVE  SeqsOf(d) = {s \in 0..SignedMax : rows[s] # None /\ ledger[s].doc = d}
  BY RowsFollow DEF SeqsOf

\* The latest row of a document is that of its greatest sequence.
LEMMA LatestCommit ==
    ASSUME IInv, NEW d \in DocId, SeqsOf(d) # {}
    PROVE  /\ Latest(d) = Max(SeqsOf(d))
           /\ rows[Latest(d)].inverse = Inverted(ledger[Latest(d)])
<1>1. SeqsOf(d) \subseteq 0..SignedMax
  BY DEF SeqsOf
<1>2. PICK m \in SeqsOf(d) : \A t \in SeqsOf(d) : t <= m
  BY <1>1, LastSequence
<1>3. Latest(d) \in SeqsOf(d) /\ \A t \in SeqsOf(d) : t <= Latest(d)
  BY <1>2 DEF Latest
<1>4. Max(SeqsOf(d)) \in SeqsOf(d) /\ \A t \in SeqsOf(d) : Max(SeqsOf(d)) >= t
  <2>1. \A t \in SeqsOf(d) : m >= t
    BY <1>1, <1>2
  <2> QED BY <2>1 DEF Max
<1>5. Latest(d) = Max(SeqsOf(d))
  BY <1>1, <1>3, <1>4, BoundsAssumption
<1>6. rows[Latest(d)].inverse = Inverted(ledger[Latest(d)])
  BY <1>3, RowsFollow DEF SeqsOf
<1> QED BY <1>5, <1>6

UndoAnswered ==
    (reply' # reply /\ reply'.op = "undo_last" /\ reply'.kind = "ok") =>
        LET projected == {s \in 0..SignedMax : rows[s] # None /\ ledger[s].doc = reply'.doc}
        IN IF projected = {} THEN reply'.edit = None
           ELSE reply'.edit = Inverted(ledger[Max(projected)])

LEMMA UndoLastAnswered ==
    ASSUME IInv, NEW p \in Process, NEW d \in DocId, UndoLast(p, d)
    PROVE  UndoAnswered
<1>1. CASE Refuse("undo_last")
  BY <1>1 DEF Refuse, Answer, UndoAnswered
<1>2. CASE reply' = [Answer("undo_last", "ok") EXCEPT
                        !.doc = d,
                        !.edit = IF SeqsOf(d) = {} THEN None ELSE rows[Latest(d)].inverse]
  <2>1. /\ reply'.doc = d
        /\ reply'.edit = IF SeqsOf(d) = {} THEN None ELSE rows[Latest(d)].inverse
    BY <1>2 DEF Answer
  <2>2. SeqsOf(d) = {s \in 0..SignedMax : rows[s] # None /\ ledger[s].doc = d}
    BY CommitsOf
  <2> QED BY <2>1, <2>2, LatestCommit DEF UndoAnswered
<1> QED BY <1>1, <1>2 DEF UndoLast

LEMMA NextUndoAnswered == IInv /\ [Next]_vars => UndoAnswered
<1> SUFFICES ASSUME IInv, [Next]_vars PROVE UndoAnswered
  OBVIOUS
<1>1. ASSUME reply' = reply \/ reply'.op # "undo_last" PROVE UndoAnswered
  BY <1>1 DEF UndoAnswered
<1>2. ASSUME NEW op, op # "undo_last", Refuse(op) PROVE UndoAnswered
  BY <1>1, <1>2 DEF Refuse, Answer
<1>3. ASSUME NEW p \in Process, Life(p) PROVE UndoAnswered
  BY <1>1, <1>3 DEF Life, TestPath, Truncate, WriteEmptyStore, Open, OpenReadOnly, Crash, Answer
<1>4. ASSUME NEW p \in Process, Call(p) PROVE UndoAnswered
  <2>1. ASSUME NEW d \in DocId, NEW body \in Body, SaveDoc(p, d, body) PROVE UndoAnswered
    BY <1>1, <1>2, <2>1 DEF SaveDoc, Answer
  <2>2. ASSUME NEW d \in DocId, LoadDoc(p, d) PROVE UndoAnswered
    BY <1>1, <1>2, <2>2 DEF LoadDoc, Answer
  <2>3. ASSUME NEW d \in DocId, EvidenceFor(p, d) PROVE UndoAnswered
    BY <1>1, <1>2, <2>3 DEF EvidenceFor, Answer
  <2>4. ASSUME NEW d \in DocId, NEW s \in Sequences64, NEW edit \in LedgerEdit,
               ProjectCommit(p, d, edit, s)
        PROVE  UndoAnswered
    BY <1>1, <1>2, <2>4 DEF ProjectCommit, Answer
  <2>5. ASSUME NEW e \in SuppliedEvidence, Attach(p, e) PROVE UndoAnswered
    BY <1>1, <1>2, <2>5 DEF Attach, Answer
  <2> QED BY <1>4, <2>1, <2>2, <2>3, <2>4, <2>5, UndoLastAnswered DEF Call
<1>5. ASSUME NEW s \in Sequences64, NEW edit \in LedgerEdit, LedgerCommit(s, edit)
      PROVE  UndoAnswered
  BY <1>1, <1>5 DEF LedgerCommit
<1>6. CASE UNCHANGED vars
  BY <1>1, <1>6 DEF vars
<1> QED BY <1>3, <1>4, <1>5, <1>6 DEF Next

\* undo_last answers with the reverse of the greatest projected sequence of
\* the document, for any number of processes and any order of projection.
THEOREM StoreUndoReversesLatest == Spec => UndoReversesLatest
<1>1. IInv /\ [Next]_vars => [UndoAnswered]_vars
  BY NextUndoAnswered
<1> QED BY <1>1, StoreInvariant, PTL DEF Spec, UndoReversesLatest, UndoAnswered

(***************************************************************************)
(* Evidence                                                                *)
(***************************************************************************)
Attached == {f \in Fact : facts[f] # None}
AttachedTo(d) == {f \in Fact : f.subject = d /\ facts[f] # None}
FactsFinite == IsFiniteSet(Attached)

LEMMA InitFinite == Init => FactsFinite
  BY FS_EmptySet DEF Init, FactsFinite, Attached

LEMMA EmptyFinite == EmptyTables => FactsFinite'
  BY FS_EmptySet DEF EmptyTables, FactsFinite, Attached

LEMMA SameFinite == FactsFinite /\ facts' = facts => FactsFinite'
  BY DEF FactsFinite, Attached

LEMMA AttachFinite ==
    ASSUME IInv, FactsFinite, NEW p, NEW e \in SuppliedEvidence, Attach(p, e)
    PROVE  FactsFinite'
<1>1. CASE facts' = facts
  BY <1>1, SameFinite
<1>2. CASE facts' = [facts EXCEPT ![KeyOf(e)] = e.hint]
  <2>1. Attached' \subseteq Attached \cup {KeyOf(e)}
    BY <1>2 DEF Attached, IInv, TablesOK
  <2>2. IsFiniteSet(Attached \cup {KeyOf(e)})
    BY FS_AddElement DEF FactsFinite
  <2> QED BY <2>1, <2>2, FS_Subset DEF FactsFinite
<1> QED BY <1>1, <1>2 DEF Attach, KeyOf, Refuse

LEMMA NextFinite == IInv /\ FactsFinite /\ [Next]_vars => FactsFinite'
<1> SUFFICES ASSUME IInv, FactsFinite, [Next]_vars PROVE FactsFinite'
  OBVIOUS
<1>1. ASSUME NEW p \in Process, Life(p) PROVE FactsFinite'
  BY <1>1, EmptyFinite, SameFinite
     DEF Life, TestPath, Truncate, WriteEmptyStore, Open, OpenReadOnly, Crash
<1>2. ASSUME NEW p \in Process, Call(p) PROVE FactsFinite'
  BY <1>2, SameFinite, AttachFinite
     DEF Call, SaveDoc, LoadDoc, UndoLast, EvidenceFor, ProjectCommit, Refuse
<1>3. ASSUME NEW s \in Sequences64, NEW edit \in LedgerEdit, LedgerCommit(s, edit) PROVE FactsFinite'
  BY <1>3, SameFinite DEF LedgerCommit
<1>4. CASE UNCHANGED vars
  BY <1>4, SameFinite DEF vars
<1> QED BY <1>1, <1>2, <1>3, <1>4 DEF Next

\* What is recorded of a subject has one place in the order of the query.
Record(d, S) ==
    /\ IsFiniteSet(S)
    /\ \A a \in S : a.fact \in Fact /\ a.fact.subject = d
    /\ \A a, b \in S : a.fact = b.fact => a = b

LEMMA FactTyped ==
    ASSUME NEW f \in Fact
    PROVE  /\ f.link \in Int /\ f.captured_at_seq \in Int
           /\ f = [subject |-> f.subject, link |-> f.link, captured_at_seq |-> f.captured_at_seq]
<1>1. f.link \in Link /\ f.captured_at_seq \in 0..SignedMax
  BY DEF Fact
<1>2. f = [subject |-> f.subject, link |-> f.link, captured_at_seq |-> f.captured_at_seq]
  BY DEF Fact
<1> QED BY <1>1, <1>2, LinkAssumption

LEMMA BeforeTotal ==
    ASSUME NEW d, NEW S, Record(d, S), NEW a \in S, NEW b \in S, a # b
    PROVE  Before(a, b) \/ Before(b, a)
<1>1. a.fact \in Fact /\ b.fact \in Fact /\ a.fact.subject = b.fact.subject /\ a.fact # b.fact
  BY DEF Record
<1>2. a.fact.captured_at_seq # b.fact.captured_at_seq \/ a.fact.link # b.fact.link
  BY <1>1, FactTyped
<1> QED BY <1>1, <1>2, FactTyped DEF Before

Behind(a, S) == {b \in S : Before(b, a)}

\* Whoever is behind another has more before it.
LEMMA BehindGrows ==
    ASSUME NEW d, NEW S, Record(d, S), NEW a \in S, NEW b \in S, Before(a, b)
    PROVE  Cardinality(Behind(a, S)) < Cardinality(Behind(b, S))
<1>1. \A c \in S : c.fact.link \in Int /\ c.fact.captured_at_seq \in Int
  BY FactTyped DEF Record
<1>2. Behind(a, S) \subseteq Behind(b, S)
  BY <1>1 DEF Before, Behind
<1>3. a \in Behind(b, S) /\ a \notin Behind(a, S)
  BY <1>1 DEF Before, Behind
<1>4. IsFiniteSet(Behind(b, S)) /\ IsFiniteSet(Behind(a, S))
  BY FS_Subset DEF Behind, Record
<1>5. /\ Cardinality(Behind(a, S)) <= Cardinality(Behind(b, S))
      /\ Cardinality(Behind(b, S)) = Cardinality(Behind(a, S)) => Behind(b, S) = Behind(a, S)
  BY <1>2, <1>4, FS_Subset
<1>6. Cardinality(Behind(a, S)) \in Nat /\ Cardinality(Behind(b, S)) \in Nat
  BY <1>4, FS_CardinalityType
<1> QED BY <1>3, <1>5, <1>6

LEMMA BehindFew ==
    ASSUME NEW d, NEW S, Record(d, S), NEW a \in S
    PROVE  Cardinality(Behind(a, S)) \in 0..(Cardinality(S) - 1)
<1>1. Cardinality(S) \in Nat
  BY FS_CardinalityType DEF Record
<1>2. a \notin Behind(a, S)
  BY FactTyped DEF Before, Behind, Record
<1>3. Behind(a, S) \subseteq S \ {a}
  BY <1>2 DEF Behind
<1>4. IsFiniteSet(S \ {a}) /\ Cardinality(S \ {a}) = Cardinality(S) - 1
  BY FS_RemoveElement DEF Record
<1>5. IsFiniteSet(Behind(a, S)) /\ Cardinality(Behind(a, S)) <= Cardinality(S) - 1
  BY <1>3, <1>4, FS_Subset
<1>6. Cardinality(Behind(a, S)) \in Nat
  BY <1>5, FS_CardinalityType
<1> QED BY <1>1, <1>5, <1>6

LEMMA BehindApart ==
    ASSUME NEW d, NEW S, Record(d, S), NEW a \in S, NEW b \in S,
           Cardinality(Behind(a, S)) = Cardinality(Behind(b, S))
    PROVE  a = b
<1> SUFFICES ASSUME a # b PROVE FALSE
  OBVIOUS
<1>1. Cardinality(S) \in Nat
  BY FS_CardinalityType DEF Record
<1>2. Cardinality(Behind(a, S)) \in Int /\ Cardinality(Behind(b, S)) \in Int
  BY <1>1, BehindFew
<1> QED BY <1>2, BeforeTotal, BehindGrows

\* Every place is taken: places are given to different facts, and there are as
\* many places as facts.
LEMMA PlacesTaken ==
    ASSUME NEW d, NEW S, Record(d, S), NEW i \in 1..Cardinality(S)
    PROVE  \E a \in S : Cardinality(Behind(a, S)) = i - 1
<1> DEFINE n == Cardinality(S)
           place == [a \in S |-> Cardinality(Behind(a, S))]
<1>1. n \in Nat
  BY FS_CardinalityType DEF Record
<1>2. \A a \in S : Cardinality(Behind(a, S)) \in 0..(n - 1)
  BY BehindFew
<1>3. \A a, b \in S : Cardinality(Behind(a, S)) = Cardinality(Behind(b, S)) => a = b
  BY BehindApart
<1>4. place \in Injection(S, 0..(n - 1))
  BY <1>2, <1>3 DEF Injection, IsInjective
<1>5. IsFiniteSet(0..(n - 1)) /\ Cardinality(0..(n - 1)) = n
  <2>1. 0 \in Int /\ n - 1 \in Int /\ (n - 1) - 0 + 1 = n
    BY <1>1
  <2>2. IsFiniteSet(0..(n - 1)) /\ Cardinality(0..(n - 1)) = IF 0 > n - 1 THEN 0 ELSE (n - 1) - 0 + 1
    BY <2>1, FS_Interval
  <2>3. n - 1 >= 0 \/ n = 0
    BY <1>1
  <2> QED BY <1>1, <2>1, <2>2, <2>3
<1>6. place \in Surjection(S, 0..(n - 1))
  <2> HIDE DEF place
  <2> QED BY <1>4, <1>5, FS_Injection
<1>7. PICK a \in S : place[a] = i - 1
  <2>1. i - 1 \in 0..(n - 1)
    BY <1>1
  <2> QED BY <1>6, <2>1 DEF Surjection
<1> QED BY <1>7

LEMMA InOrderSorts ==
    ASSUME NEW d, NEW S, Record(d, S)
    PROVE  /\ Len(InOrder(S)) = Cardinality(S) /\ DOMAIN InOrder(S) = 1..Cardinality(S)
           /\ {InOrder(S)[i] : i \in DOMAIN InOrder(S)} = S
           /\ \A i, j \in DOMAIN InOrder(S) : i # j => InOrder(S)[i] # InOrder(S)[j]
           /\ \A i, j \in DOMAIN InOrder(S) : i < j =>
                 InOrder(S)[i].fact.captured_at_seq <= InOrder(S)[j].fact.captured_at_seq
<1>1. Cardinality(S) \in Nat
  BY FS_CardinalityType DEF Record
<1>2. Len(InOrder(S)) = Cardinality(S) /\ DOMAIN InOrder(S) = 1..Cardinality(S)
  BY <1>1 DEF InOrder
<1>3. ASSUME NEW i \in 1..Cardinality(S)
      PROVE  InOrder(S)[i] \in S /\ Cardinality(Behind(InOrder(S)[i], S)) = i - 1
  <2>1. InOrder(S)[i] = CHOOSE a \in S : Cardinality(Behind(a, S)) = i - 1
    BY <1>3 DEF InOrder, Behind
  <2> QED BY <2>1, PlacesTaken
<1>4. ASSUME NEW i \in 1..Cardinality(S), NEW j \in 1..Cardinality(S), i < j
      PROVE  InOrder(S)[i].fact.captured_at_seq <= InOrder(S)[j].fact.captured_at_seq
  <2> DEFINE a == InOrder(S)[i]
             b == InOrder(S)[j]
  <2>1. /\ a \in S /\ Cardinality(Behind(a, S)) = i - 1
        /\ b \in S /\ Cardinality(Behind(b, S)) = j - 1
    BY <1>3, <1>4
  <2> HIDE DEF a, b
  <2>2. ~Before(b, a)
    BY <1>1, <1>4, <2>1, BehindGrows
  <2>3. a.fact.captured_at_seq \in Int /\ b.fact.captured_at_seq \in Int
    BY <2>1, FactTyped DEF Record
  <2>4. a.fact.captured_at_seq <= b.fact.captured_at_seq
    BY <2>2, <2>3 DEF Before
  <2> QED BY <2>4 DEF a, b
<1>5. ASSUME NEW i \in 1..Cardinality(S), NEW j \in 1..Cardinality(S), i # j
      PROVE  InOrder(S)[i] # InOrder(S)[j]
  <2>1. i - 1 # j - 1
    BY <1>1, <1>5
  <2> QED BY <1>3, <2>1
<1>6. ASSUME NEW a \in S PROVE \E i \in 1..Cardinality(S) : InOrder(S)[i] = a
  <2>1. Cardinality(Behind(a, S)) + 1 \in 1..Cardinality(S)
    BY <1>1, BehindFew
  <2>2. PICK i \in 1..Cardinality(S) : i = Cardinality(Behind(a, S)) + 1
    BY <2>1
  <2>3. InOrder(S)[i] \in S /\ Cardinality(Behind(InOrder(S)[i], S)) = Cardinality(Behind(a, S))
    BY <1>1, <1>3, <2>2, BehindFew
  <2> QED BY <2>3, BehindApart
<1>7. {InOrder(S)[i] : i \in 1..Cardinality(S)} = S
  BY <1>3, <1>6
<1> QED BY <1>2, <1>4, <1>5, <1>7

LEMMA FactsRecord ==
    ASSUME FactsFinite, NEW d \in DocId
    PROVE  /\ Record(d, FactsOf(d))
           /\ {a.fact : a \in FactsOf(d)} = AttachedTo(d)
           /\ \A a \in FactsOf(d) : a.hint = facts[a.fact]
           /\ \A a, b \in FactsOf(d) : a.fact = b.fact => a = b
<1> DEFINE entry == [f \in AttachedTo(d) |-> [fact |-> f, hint |-> facts[f]]]
<1>1. IsFiniteSet(AttachedTo(d))
  BY FS_Subset DEF FactsFinite, Attached, AttachedTo
<1>2. FactsOf(d) = {[fact |-> f, hint |-> facts[f]] : f \in AttachedTo(d)}
  BY DEF FactsOf, AttachedTo
<1>3. /\ \A a \in FactsOf(d) : a.fact \in AttachedTo(d) /\ a.hint = facts[a.fact]
      /\ \A a, b \in FactsOf(d) : a.fact = b.fact => a = b
  BY <1>2
<1>4. IsFiniteSet(FactsOf(d))
  <2>1. entry \in Bijection(AttachedTo(d), FactsOf(d))
    BY <1>2 DEF Bijection, Injection, Surjection, IsInjective
  <2>2. ExistsBijection(AttachedTo(d), FactsOf(d))
    BY <2>1 DEF ExistsBijection
  <2> QED BY <1>1, <2>2, FS_Bijection
<1>5. Record(d, FactsOf(d))
  BY <1>3, <1>4 DEF Record, AttachedTo
<1>6. {a.fact : a \in FactsOf(d)} = AttachedTo(d)
  <2>1. ASSUME NEW f \in AttachedTo(d) PROVE \E a \in FactsOf(d) : f = a.fact
    <3>1. [fact |-> f, hint |-> facts[f]] \in FactsOf(d)
      BY <1>2
    <3> QED BY <3>1
  <2> QED BY <1>3, <2>1
<1> QED BY <1>3, <1>5, <1>6

EvidenceAnswered ==
    (reply' # reply /\ reply'.op = "evidence_for" /\ reply'.kind = "ok") =>
        LET answered == reply'.evidence
        IN /\ {answered[i].fact : i \in DOMAIN answered} =
                  {f \in Fact : f.subject = reply'.doc /\ facts[f] # None}
           /\ \A i, j \in DOMAIN answered : i # j => answered[i].fact # answered[j].fact
           /\ \A i \in DOMAIN answered : answered[i].hint = facts[answered[i].fact]
           /\ \A i, j \in DOMAIN answered : i < j =>
                  answered[i].fact.captured_at_seq <= answered[j].fact.captured_at_seq

LEMMA EvidenceForAnswered ==
    ASSUME FactsFinite, NEW p \in Process, NEW d \in DocId, EvidenceFor(p, d)
    PROVE  EvidenceAnswered
<1>1. CASE Refuse("evidence_for")
  BY <1>1 DEF Refuse, Answer, EvidenceAnswered
<1>2. CASE reply' = [Answer("evidence_for", "ok") EXCEPT
                        !.doc = d, !.evidence = InOrder(FactsOf(d))]
  <2> DEFINE answered == reply'.evidence
  <2>1. reply'.doc = d /\ answered = InOrder(FactsOf(d))
    BY <1>2 DEF Answer
  <2> HIDE DEF answered
  <2>2. Record(d, FactsOf(d))
    BY FactsRecord
  <2>3. /\ {answered[i] : i \in DOMAIN answered} = FactsOf(d)
        /\ \A i, j \in DOMAIN answered : i # j => answered[i] # answered[j]
        /\ \A i, j \in DOMAIN answered : i < j =>
              answered[i].fact.captured_at_seq <= answered[j].fact.captured_at_seq
    BY <2>1, <2>2, InOrderSorts
  <2>4. \A i \in DOMAIN answered : answered[i] \in FactsOf(d)
    BY <2>3
  <2>5. {answered[i].fact : i \in DOMAIN answered} = {a.fact : a \in FactsOf(d)}
    BY <2>3
  <2>6. {answered[i].fact : i \in DOMAIN answered} =
           {f \in Fact : f.subject = reply'.doc /\ facts[f] # None}
    BY <2>1, <2>5, FactsRecord DEF AttachedTo
  <2>7. \A i, j \in DOMAIN answered : i # j => answered[i].fact # answered[j].fact
    BY <2>3, <2>4, FactsRecord
  <2>8. \A i \in DOMAIN answered : answered[i].hint = facts[answered[i].fact]
    BY <2>4, FactsRecord
  <2> QED BY <2>3, <2>6, <2>7, <2>8 DEF EvidenceAnswered, answered
<1> QED BY <1>1, <1>2 DEF EvidenceFor

LEMMA NextEvidenceAnswered == FactsFinite /\ [Next]_vars => EvidenceAnswered
<1> SUFFICES ASSUME FactsFinite, [Next]_vars PROVE EvidenceAnswered
  OBVIOUS
<1>1. ASSUME reply' = reply \/ reply'.op # "evidence_for" PROVE EvidenceAnswered
  BY <1>1 DEF EvidenceAnswered
<1>2. ASSUME NEW op, op # "evidence_for", Refuse(op) PROVE EvidenceAnswered
  BY <1>1, <1>2 DEF Refuse, Answer
<1>3. ASSUME NEW p \in Process, Life(p) PROVE EvidenceAnswered
  BY <1>1, <1>3 DEF Life, TestPath, Truncate, WriteEmptyStore, Open, OpenReadOnly, Crash, Answer
<1>4. ASSUME NEW p \in Process, Call(p) PROVE EvidenceAnswered
  <2>1. ASSUME NEW d \in DocId, NEW body \in Body, SaveDoc(p, d, body) PROVE EvidenceAnswered
    BY <1>1, <1>2, <2>1 DEF SaveDoc, Answer
  <2>2. ASSUME NEW d \in DocId, LoadDoc(p, d) PROVE EvidenceAnswered
    BY <1>1, <1>2, <2>2 DEF LoadDoc, Answer
  <2>3. ASSUME NEW d \in DocId, UndoLast(p, d) PROVE EvidenceAnswered
    BY <1>1, <1>2, <2>3 DEF UndoLast, Answer
  <2>4. ASSUME NEW d \in DocId, NEW s \in Sequences64, NEW edit \in LedgerEdit,
               ProjectCommit(p, d, edit, s)
        PROVE  EvidenceAnswered
    BY <1>1, <1>2, <2>4 DEF ProjectCommit, Answer
  <2>5. ASSUME NEW e \in SuppliedEvidence, Attach(p, e) PROVE EvidenceAnswered
    BY <1>1, <1>2, <2>5 DEF Attach, Answer
  <2> QED BY <1>4, <2>1, <2>2, <2>3, <2>4, <2>5, EvidenceForAnswered DEF Call
<1>5. ASSUME NEW s \in Sequences64, NEW edit \in LedgerEdit, LedgerCommit(s, edit)
      PROVE  EvidenceAnswered
  BY <1>1, <1>5 DEF LedgerCommit
<1>6. CASE UNCHANGED vars
  BY <1>1, <1>6 DEF vars
<1> QED BY <1>3, <1>4, <1>5, <1>6 DEF Next

\* evidence_for answers all the facts of the subject and no other, each once,
\* with the hint attached last, in the order of capture, however many there are.
THEOREM StoreEvidenceComplete == Spec => EvidenceComplete
<1>1. Init => FactsFinite
  BY InitFinite
<1>2. IInv /\ FactsFinite /\ [Next]_vars => FactsFinite'
  BY NextFinite
<1>3. FactsFinite /\ [Next]_vars => [EvidenceAnswered]_vars
  BY NextEvidenceAnswered
<1> QED BY <1>1, <1>2, <1>3, StoreInvariant, PTL DEF Spec, EvidenceComplete, EvidenceAnswered
===============================================================================
