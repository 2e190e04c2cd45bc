------------------------------- MODULE DocStore -------------------------------
(***************************************************************************)
(* The document store of sim-lib-doc-store: one SQLite file shared by      *)
(* processes that create it, open it, project ledger commits into it, ask  *)
(* for undo edits, attach evidence, and crash.                             *)
(*                                                                         *)
(* DocStore::create is three steps other processes can come between: the   *)
(* existence test, the truncating write of the empty store, and the open.  *)
(* Every other method is one transaction or one query of the relational    *)
(* session (external), hence atomic.  A body stands for an encoded         *)
(* document, an operation for an encoded edit payload; a fact is the       *)
(* primary key of evidence_facts.                                          *)
(***************************************************************************)
EXTENDS Integers, FiniteSets, SequencesExt

CONSTANTS
    Process,
    Creator,       \* the processes that may be started before the store exists
    DocId, Body,
    Op,            \* domain-owned edit payloads
    Link,          \* (role, external reference) pairs, numbered in the order
                   \* the (predicate, object) columns sort
    Hint,          \* immutable hints, "no hint" among them
    SignedMax,     \* i64::MAX
    SeqMax,        \* u64::MAX
    LedgerEdit,    \* the edits the host's ledger commits
    SuppliedEvidence,  \* the evidence callers attach
    InitialFile,   \* the files the processes may start from
    None

ASSUME BoundsAssumption == SignedMax \in Nat /\ SeqMax \in Nat /\ SignedMax < SeqMax
ASSUME LinkAssumption == Link \subseteq Nat
ASSUME InitialFileAssumption == InitialFile \subseteq {"absent", "whole"}

Sequences64 == 0..SeqMax
Edit == [doc: DocId, op: Op, inverse: Op]
Inverted(edit) == [doc |-> edit.doc, op |-> edit.inverse, inverse |-> edit.op]
Row == [doc: DocId, edit: Edit, inverse: Edit]
Fact == [subject: DocId, link: Link, captured_at_seq: 0..SignedMax]
Evidence == [subject: DocId, link: Link, captured_at_seq: Sequences64, hint: Hint]

ASSUME CreatorAssumption == Creator \subseteq Process
ASSUME LedgerEditAssumption == LedgerEdit \subseteq Edit
ASSUME EvidenceAssumption == SuppliedEvidence \subseteq Evidence
ASSUME NoneAssumption ==
    None \notin Body /\ None \notin Edit /\ None \notin Row /\ None \notin Hint

VARIABLES
    file,      \* the path: "absent", "partial" (a write under way), "whole"
    docs,      \* table docs: id -> body
    rows,      \* table edit_projection: seq -> row
    facts,     \* table evidence_facts: key -> immutable_hint
    ledger,    \* the host's ledger: sequence -> committed edit (external)
    session,   \* per process: where it is in create, or the session it holds
    reply      \* the answer to the last call

tables == <<docs, rows, facts>>
vars == <<file, docs, rows, facts, ledger, session, reply>>

Answer(op, kind) == [op |-> op, kind |-> kind, doc |-> None, edit |-> None,
                     body |-> None, evidence |-> <<>>]

EmptyTables ==
    /\ docs' = [d \in DocId |-> None]
    /\ rows' = [s \in 0..SignedMax |-> None]
    /\ facts' = [f \in Fact |-> None]

Init ==
    /\ file \in InitialFile
    /\ docs = [d \in DocId |-> None]
    /\ rows = [s \in 0..SignedMax |-> None]
    /\ facts = [f \in Fact |-> None]
    /\ ledger = [s \in Sequences64 |-> None]
    /\ session = [p \in Process |-> "closed"]
    /\ reply = Answer("none", "none")

(***************************************************************************)
(* Creating, opening, crashing                                             *)
(***************************************************************************)
\* Mutant of TestPath: the existence test is dropped.
TestNothing(p) ==
    /\ session[p] = "closed"
    /\ p \in Creator \/ file = "whole"
    /\ session' = [session EXCEPT ![p] = "creating"]
    /\ UNCHANGED <<file, docs, rows, facts, ledger, reply>>

\* create: the existence test decides what this process does next.  A process
\* that is no Creator is started once the store is there.
TestPath(p) ==
    /\ session[p] = "closed"
    /\ p \in Creator \/ file = "whole"
    /\ session' = [session EXCEPT ![p] = IF file = "absent" THEN "creating" ELSE "opening"]
    /\ UNCHANGED <<file, docs, rows, facts, ledger, reply>>

\* std::fs::write, first half: the path is opened with truncation, whatever
\* has been written there since the test.
Truncate(p) ==
    /\ session[p] = "creating"
    /\ file' = "partial"
    /\ EmptyTables
    /\ session' = [session EXCEPT ![p] = "writing"]
    /\ UNCHANGED <<ledger, reply>>

\* std::fs::write, second half: the bytes of the empty store.
WriteEmptyStore(p) ==
    /\ session[p] = "writing"
    /\ file' = "whole"
    /\ EmptyTables
    /\ session' = [session EXCEPT ![p] = "opening"]
    /\ UNCHANGED <<ledger, reply>>

\* open: the driver accepts a whole store file and nothing else.
Open(p) ==
    /\ session[p] = "opening"
    /\ session' = [session EXCEPT ![p] = IF file = "whole" THEN "rw" ELSE "closed"]
    /\ reply' = Answer("create", IF file = "whole" THEN "ok" ELSE "err")
    /\ UNCHANGED <<file, docs, rows, facts, ledger>>

OpenReadOnly(p) ==
    /\ session[p] = "closed"
    /\ session' = [session EXCEPT ![p] = IF file = "whole" THEN "ro" ELSE "closed"]
    /\ reply' = Answer("open_read_only", IF file = "whole" THEN "ok" ELSE "err")
    /\ UNCHANGED <<file, docs, rows, facts, ledger>>

\* The process dies, or drops its store, wherever it is.
Crash(p) ==
    /\ session[p] # "closed"
    /\ session' = [session EXCEPT ![p] = "closed"]
    /\ UNCHANGED <<file, docs, rows, facts, ledger, reply>>

(***************************************************************************)
(* Calls on a session                                                      *)
(***************************************************************************)
Holds(p) == session[p] \in {"rw", "ro"}
MayRead(p) == Holds(p) /\ file = "whole"
MayWrite(p) == session[p] = "rw" /\ file = "whole"

Refuse(op) ==
    reply' = Answer(op, "err") /\ UNCHANGED <<file, docs, rows, facts, ledger, session>>

\* save_doc: upsert on the primary key.
SaveDoc(p, d, body) ==
    /\ Holds(p)
    /\ \/ /\ MayWrite(p)
          /\ docs' = [docs EXCEPT ![d] = body]
          /\ reply' = Answer("save_doc", "ok")
          /\ UNCHANGED <<file, rows, facts, ledger, session>>
       \/ ~MayWrite(p) /\ Refuse("save_doc")

LoadDoc(p, d) ==
    /\ Holds(p)
    /\ \/ /\ MayRead(p)
          /\ reply' = [Answer("load_doc", "ok") EXCEPT !.doc = d, !.body = docs[d]]
          /\ UNCHANGED <<file, docs, rows, facts, ledger, session>>
       \/ ~MayRead(p) /\ Refuse("load_doc")

\* The host's ledger commits an edit under a fresh, larger sequence (external).
LedgerCommit(s, edit) ==
    /\ \A t \in s..SeqMax : ledger[t] = None
    /\ ledger' = [ledger EXCEPT ![s] = edit]
    /\ UNCHANGED <<file, docs, rows, facts, session, reply>>

\* sequence(): the i64 the u64 becomes, if it fits.
FitsSigned(s) == s <= SignedMax

\* Mutants of ProjectCommit: the edit's own document is not compared with the
\* one named; the insert is an upsert, as in the other tables.
ProjectUnchecked(p, d, edit, s) ==
    /\ MayWrite(p)
    /\ FitsSigned(s)
    /\ rows[s] = None
    /\ rows' = [rows EXCEPT ![s] = [doc |-> d, edit |-> edit, inverse |-> Inverted(edit)]]
    /\ reply' = Answer("project_commit", "ok")
    /\ UNCHANGED <<file, docs, facts, ledger, session>>

ProjectUpserts(p, d, edit, s) ==
    /\ MayWrite(p)
    /\ edit.doc = d
    /\ FitsSigned(s)
    /\ rows' = [rows EXCEPT ![s] = [doc |-> d, edit |-> edit, inverse |-> Inverted(edit)]]
    /\ reply' = Answer("project_commit", "ok")
    /\ UNCHANGED <<file, docs, facts, ledger, session>>

\* project_commit: a plain insert, so a sequence already projected fails.
ProjectCommit(p, d, edit, s) ==
    /\ Holds(p)
    /\ \/ /\ MayWrite(p)
          /\ edit.doc = d
          /\ FitsSigned(s)
          /\ rows[s] = None
          /\ rows' = [rows EXCEPT ![s] =
                         [doc |-> d, edit |-> edit, inverse |-> Inverted(edit)]]
          /\ reply' = Answer("project_commit", "ok")
          /\ UNCHANGED <<file, docs, facts, ledger, session>>
       \/ /\ \/ ~MayWrite(p)
             \/ edit.doc # d
             \/ ~FitsSigned(s)
             \/ FitsSigned(s) /\ rows[s] # None
          /\ Refuse("project_commit")

SeqsOf(d) == {s \in 0..SignedMax : rows[s] # None /\ rows[s].doc = d}
\* Mutant of Latest: ascending order.
Earliest(d) == CHOOSE s \in SeqsOf(d) : \A t \in SeqsOf(d) : t >= s
Latest(d) == CHOOSE s \in SeqsOf(d) : \A t \in SeqsOf(d) : t <= s

\* undo_last: a query; neither the row nor the snapshot changes.
UndoLast(p, d) ==
    /\ Holds(p)
    /\ \/ /\ MayRead(p)
          /\ reply' = [Answer("undo_last", "ok") EXCEPT
                         !.doc = d,
                         !.edit = IF SeqsOf(d) = {} THEN None ELSE rows[Latest(d)].inverse]
          /\ UNCHANGED <<file, docs, rows, facts, ledger, session>>
       \/ ~MayRead(p) /\ Refuse("undo_last")

\* evidence::attach: an upsert whose key is every column but the hint.
Attach(p, e) ==
    LET key == [subject |-> e.subject, link |-> e.link, captured_at_seq |-> e.captured_at_seq]
    IN /\ Holds(p)
       /\ \/ /\ MayWrite(p)
             /\ FitsSigned(e.captured_at_seq)
             /\ facts' = [facts EXCEPT ![key] = e.hint]
             /\ reply' = Answer("attach", "ok")
             /\ UNCHANGED <<file, docs, rows, ledger, session>>
          \/ (~MayWrite(p) \/ ~FitsSigned(e.captured_at_seq)) /\ Refuse("attach")

FactsOf(subject) ==
    {[fact |-> f, hint |-> facts[f]] :
        f \in {g \in Fact : g.subject = subject /\ facts[g] # None}}

\* Mutant of Before: ordered by identity first.
BeforeByLink(a, b) ==
    \/ a.fact.link < b.fact.link
    \/ a.fact.link = b.fact.link /\ a.fact.captured_at_seq < b.fact.captured_at_seq

Before(a, b) ==
    \/ a.fact.captured_at_seq < b.fact.captured_at_seq
    \/ a.fact.captured_at_seq = b.fact.captured_at_seq /\ a.fact.link < b.fact.link

\* The order of the query: each behind all that are Before it.
InOrder(S) ==
    [i \in 1..Cardinality(S) |-> CHOOSE a \in S : Cardinality({b \in S : Before(b, a)}) = i - 1]

EvidenceFor(p, subject) ==
    /\ Holds(p)
    /\ \/ /\ MayRead(p)
          /\ reply' = [Answer("evidence_for", "ok") EXCEPT
                         !.doc = subject, !.evidence = InOrder(FactsOf(subject))]
          /\ UNCHANGED <<file, docs, rows, facts, ledger, session>>
       \/ ~MayRead(p) /\ Refuse("evidence_for")

Life(p) ==
    TestPath(p) \/ Truncate(p) \/ WriteEmptyStore(p) \/ Open(p) \/ OpenReadOnly(p) \/ Crash(p)

\* A host projects what its ledger committed, possibly naming the wrong
\* document, possibly again, in any order; or the entry of a foreign ledger
\* whose sequence is already taken here.
Call(p) ==
    \/ \E d \in DocId, body \in Body : SaveDoc(p, d, body)
    \/ \E d \in DocId : LoadDoc(p, d) \/ UndoLast(p, d) \/ EvidenceFor(p, d)
    \/ \E d \in DocId, s \in Sequences64, edit \in LedgerEdit :
            /\ ledger[s] = edit \/ (FitsSigned(s) /\ rows[s] # None)
            /\ ProjectCommit(p, d, edit, s)
    \/ \E e \in SuppliedEvidence : Attach(p, e)

Next ==
    \/ \E p \in Process : Life(p) \/ Call(p)
    \/ \E s \in Sequences64, edit \in LedgerEdit : LedgerCommit(s, edit)

Spec == Init /\ [][Next]_vars

(***************************************************************************)
(* Properties                                                              *)
(***************************************************************************)
TablesOK ==
    /\ file \in {"absent", "partial", "whole"}
    /\ docs \in [DocId -> Body \cup {None}]
    /\ rows \in [0..SignedMax -> Row \cup {None}]
    /\ facts \in [Fact -> Hint \cup {None}]
    /\ ledger \in [Sequences64 -> Edit \cup {None}]
    /\ session \in [Process -> {"closed", "creating", "writing", "opening", "rw", "ro"}]

\* The cache is never a second source of truth: every projected row holds, under
\* the sequence the ledger gave it, the edit the ledger committed there, filed
\* under the document that edit targets, with its exact reverse beside it.
ProjectionFollowsLedger ==
    \A s \in 0..SignedMax : rows[s] # None =>
        rows[s] = [doc |-> ledger[s].doc, edit |-> ledger[s], inverse |-> Inverted(ledger[s])]

Kept ==
    /\ \A s \in 0..SignedMax : rows[s] # None => rows'[s] = rows[s]
    /\ \A d \in DocId : docs[d] # None => docs'[d] # None
    /\ \A f \in Fact : facts[f] # None => facts'[f] # None

\* The file is there, and no process that found it absent is still on its way
\* to write it.
Settled ==
    /\ file # "absent"
    /\ \A p \in Process : session[p] \notin {"creating", "writing"}

\* What is committed stays (BROCHURE: "Local document state survives process
\* restarts"): no process, starting, crashing, calling or projecting again,
\* removes or alters a projected commit, or loses a snapshot or an evidence
\* fact.  The one exception is the race inside create: until the store has
\* settled, a process that found the path absent truncates and rewrites it,
\* whatever was committed since.  Once settled, the store stays settled.
CommittedSurvives ==
    [][/\ Settled => Settled'
       /\ Kept \/ (~Settled /\ \E p \in Process : Truncate(p) \/ WriteEmptyStore(p))]_vars

\* Undo reverses the edit of this document that comes last in the ledger's
\* order among those projected, whatever the order of projection and whichever
\* process projected it.
UndoReversesLatest ==
    [][(reply' # reply /\ reply'.op = "undo_last" /\ reply'.kind = "ok") =>
        LET projected == {s \in 0..SignedMax : rows[s] # None /\ ledger[s].doc = reply'.doc}
        IN IF projected = {} THEN reply'.edit = None
           ELSE reply'.edit = Inverted(ledger[Max(projected)])]_vars

\* The evidence of a subject is all the facts attached to it and none of
\* another's, each once, with the hint recorded last, in capture order.
EvidenceComplete ==
    [][(reply' # reply /\ reply'.op = "evidence_for" /\ reply'.kind = "ok") =>
        LET answered == reply'.evidence
        IN /\ {answered[i].fact : i \in DOMAIN answered} =
                  {f \in Fact : f.subject = reply'.doc /\ facts[f] # None}
           /\ \A i, j \in DOMAIN answered : i # j => answered[i].fact # answered[j].fact
           /\ \A i \in DOMAIN answered : answered[i].hint = facts[answered[i].fact]
           /\ \A i, j \in DOMAIN answered : i < j =>
                  answered[i].fact.captured_at_seq <= answered[j].fact.captured_at_seq]_vars

\* "Opens or creates an exactly compatible store" (store.rs:64): a file these
\* processes alone wrote is never refused by create.
CreateOpens == ~(reply.op = "create" /\ reply.kind = "err")

(***************************************************************************)
(* The abstract projection this store implements, create races included.   *)
(***************************************************************************)
EditOf(row) == IF row = None THEN None ELSE row.edit

Projection == INSTANCE DocProjection
              WITH rows <- [s \in 0..SignedMax |-> EditOf(rows[s])], settled <- Settled

\* The store is the durable projection that DocProjection describes: it may be
\* reset while it is being created, and never again.
ImplementsProjection == Projection!Spec
===============================================================================
