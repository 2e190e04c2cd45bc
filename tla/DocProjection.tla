---------------------------- MODULE DocProjection ----------------------------
(***************************************************************************)
(* What sim-lib-doc-store promises its host, without files, processes or   *)
(* crashes: one durable projection of a ledger.  Snapshots are replaced    *)
(* whole, a commit row is written once under the sequence the ledger gave  *)
(* it and never changes, and an evidence fact, once attached, stays.       *)
(* While it is being created the projection may be reset to the empty one; *)
(* once it has settled, it is not.                                         *)
(***************************************************************************)
EXTENDS Integers

CONSTANTS DocId, Body, Fact, Hint, Edit, SignedMax, None

VARIABLES docs, rows, facts, settled

vars == <<docs, rows, facts, settled>>

Init ==
    /\ docs = [d \in DocId |-> None]
    /\ rows = [s \in 0..SignedMax |-> None]
    /\ facts = [f \in Fact |-> None]
    /\ settled \in BOOLEAN

Save(d, body) ==
    /\ docs' = [docs EXCEPT ![d] = body]
    /\ UNCHANGED <<rows, facts, settled>>

Project(s, edit) ==
    /\ rows[s] = None
    /\ rows' = [rows EXCEPT ![s] = edit]
    /\ UNCHANGED <<docs, facts, settled>>

Attach(f, hint) ==
    /\ facts' = [facts EXCEPT ![f] = hint]
    /\ UNCHANGED <<docs, rows, settled>>

Settle ==
    /\ ~settled
    /\ settled' = TRUE
    /\ UNCHANGED <<docs, rows, facts>>

Reset ==
    /\ ~settled
    /\ docs' = [d \in DocId |-> None]
    /\ rows' = [s \in 0..SignedMax |-> None]
    /\ facts' = [f \in Fact |-> None]
    /\ settled' \in BOOLEAN

Next ==
    \/ \E d \in DocId, body \in Body : Save(d, body)
    \/ \E s \in 0..SignedMax, edit \in Edit : Project(s, edit)
    \/ \E f \in Fact, hint \in Hint : Attach(f, hint)
    \/ Settle \/ Reset

Spec == Init /\ [][Next]_vars
=============================================================================
