------------------------- MODULE OperationalStore -------------------------
(***************************************************************************)
(* The operational store: one SQLite database in WAL mode and the          *)
(* connections that the dashboard's request threads, the CLI and the       *)
(* workflows open on it (src/src/clay_ops/store.py).                       *)
(*                                                                         *)
(* A connection that writes holds SQLite's single writer lock and works on *)
(* its own uncommitted copy of the tables; a commit publishes the copy, a  *)
(* rollback, a crash or a closed connection throws it away.  Readers see   *)
(* the committed tables only.                                              *)
(*                                                                         *)
(* A table is the set of its rows.  Event identifiers are uuid4 values,    *)
(* drawn here from a counter, and the SHA-256 record hash of a row covers  *)
(* its event identifier, so two rows never share a hash: the identifier    *)
(* stands for the hash.  Payloads, actors and times are left out.          *)
(***************************************************************************)
EXTENDS Naturals

CONSTANTS
    Conns,        \* store connections: one per request thread or command
    NoConn,       \* the writer lock is free
    Runs,         \* run identifiers
    Approvals,    \* approval identifiers
    Scopes,       \* approval scopes, compared whole
    MaxFresh,     \* bound: identifiers drawn in a behaviour
    MaxDepth      \* bound: nesting of transaction() blocks

ASSUME NoConnAssumption == NoConn \notin Conns
ASSUME BoundsAssumption == MaxFresh \in Nat /\ MaxDepth \in Nat \ {0}

Decisions == {"approved", "rejected", "changes_requested"}

\* The hash that precedes the first event of a run.
GENESIS == 0

Ids == Nat \ {0}

\* Rows.  "batch" is a history field: the outermost transaction, or the
\* standalone call, that inserted the row.
EventRow    == [run: Runs, sequence: Ids, previous_hash: Nat, record_hash: Ids, batch: Ids]
ApprovalRow == [approval_id: Approvals, run: Runs, scope: Scopes]
DecisionRow == [approval_id: Approvals, decision: Decisions, scope: Scopes, batch: Ids]

Tables == [events: SUBSET EventRow, approvals: SUBSET ApprovalRow, decisions: SUBSET DecisionRow]

EmptyTables == [events |-> {}, approvals |-> {}, decisions |-> {}]

\* The statement a connection is in the middle of.
NoOp      == [kind |-> "none"]
CommitOp  == [kind |-> "commit"]
AppendOp  == [kind: {"append"}, run: Runs, sequence: Ids, previous_hash: Nat]
ResolveOp == [kind: {"resolve"}, approval_id: Approvals, decision: Decisions, scope: Scopes]

VARIABLES
    db,       \* the committed tables: what every reader sees
    lock,     \* the connection that holds the writer lock
    work,     \* work[c]: the uncommitted tables of the writer c
    depth,    \* depth[c]: _transaction_depth
    op,       \* op[c]: the statement c is in the middle of
    batch,    \* history: batch[c] is the batch that c has open
    fresh     \* the next identifier

vars == <<db, lock, work, depth, op, batch, fresh>>

----------------------------------------------------------------------------
(* SELECTs *)

RowsOf(t, r) == {e \in t.events : e.run = r}

\* ORDER BY sequence DESC LIMIT 1
LastEvent(t, r) == CHOOSE e \in RowsOf(t, r) : \A f \in RowsOf(t, r) : f.sequence <= e.sequence

\* Mutant: the first event gets number 0.
NextSequence_FromZero(t, r) ==
    IF RowsOf(t, r) = {} THEN 0 ELSE LastEvent(t, r).sequence + 1

\* Mutant: the SELECT of append_event forgets WHERE run_id.
PreviousHash_AnyRun(t, r) ==
    IF t.events = {} THEN GENESIS
    ELSE (CHOOSE e \in t.events : \A f \in t.events : f.record_hash <= e.record_hash).record_hash

NextSequence(t, r) == IF RowsOf(t, r) = {} THEN 1 ELSE LastEvent(t, r).sequence + 1
PreviousHash(t, r) == IF RowsOf(t, r) = {} THEN GENESIS ELSE LastEvent(t, r).record_hash

\* Mutant: resolve_approval without its APPROVAL_REPLAY check.
Resolvable_NoReplayCheck(t, o) ==
    \E a \in t.approvals : a.approval_id = o.approval_id /\ a.scope = o.scope

\* The checks of resolve_approval, in its order: the request exists, the scope
\* is the requested one, nothing has been decided.
Resolvable(t, o) ==
    /\ \E a \in t.approvals : a.approval_id = o.approval_id /\ a.scope = o.scope
    /\ \A d \in t.decisions : d.approval_id # o.approval_id

----------------------------------------------------------------------------
(* The writer lock *)

Standalone(c) == depth[c] = 0

\* What a statement of c reads: the transaction's own tables, or, once BEGIN
\* IMMEDIATE has the lock, the committed ones.
Base(c) == IF Standalone(c) THEN db ELSE work[c]

\* Mutant: BEGIN without IMMEDIATE, which does not wait for the other writer.
BeginImmediate_Deferred(c, t) ==
    /\ fresh < MaxFresh
    /\ lock' = c
    /\ work' = [work EXCEPT ![c] = t]
    /\ batch' = [batch EXCEPT ![c] = fresh]
    /\ fresh' = fresh + 1

\* BEGIN IMMEDIATE, after which c works on t.  It waits for the lock; a wait
\* longer than the busy timeout raises before anything has changed, so it is
\* no step here.
BeginImmediate(c, t) ==
    /\ lock = NoConn
    /\ fresh < MaxFresh
    /\ lock' = c
    /\ work' = [work EXCEPT ![c] = t]
    /\ batch' = [batch EXCEPT ![c] = fresh]
    /\ fresh' = fresh + 1

\* A statement inside transaction() takes no lock of its own.
UseTransaction(c, t) ==
    /\ lock = c
    /\ work' = [work EXCEPT ![c] = t]
    /\ UNCHANGED <<lock, batch, fresh>>

Begin(c, t) == IF Standalone(c) THEN BeginImmediate(c, t) ELSE UseTransaction(c, t)

\* Give the lock back and forget the copy.
Release(c) ==
    /\ lock' = NoConn
    /\ work' = [work EXCEPT ![c] = EmptyTables]
    /\ depth' = [depth EXCEPT ![c] = 0]
    /\ op' = [op EXCEPT ![c] = NoOp]
    /\ UNCHANGED <<batch, fresh>>

\* db.commit() and db.rollback()
Commit(c)   == db' = work[c] /\ Release(c)
Rollback(c) == Release(c) /\ UNCHANGED db

\* After its INSERT a standalone call still has to commit.
AfterInsert(c) == IF Standalone(c) THEN CommitOp ELSE NoOp

----------------------------------------------------------------------------
(* transaction() *)

BeginTransaction(c) ==
    /\ Standalone(c) /\ op[c] = NoOp
    /\ BeginImmediate(c, db)
    /\ depth' = [depth EXCEPT ![c] = 1]
    /\ UNCHANGED <<db, op>>

EnterNested(c) ==
    /\ ~Standalone(c) /\ op[c] = NoOp
    /\ depth[c] < MaxDepth
    /\ depth' = [depth EXCEPT ![c] = @ + 1]
    /\ UNCHANGED <<db, lock, work, op, batch, fresh>>

\* Mutant: every block commits when it ends, not only the outermost one.
LeaveNested_Commits(c) ==
    /\ depth[c] > 1 /\ op[c] = NoOp
    /\ depth' = [depth EXCEPT ![c] = @ - 1]
    /\ db' = work[c]
    /\ UNCHANGED <<lock, work, op, batch, fresh>>

\* The end of an inner block, normal or by an exception that the caller
\* catches: neither commits nor rolls back.
LeaveNested(c) ==
    /\ depth[c] > 1 /\ op[c] = NoOp
    /\ depth' = [depth EXCEPT ![c] = @ - 1]
    /\ UNCHANGED <<db, lock, work, op, batch, fresh>>

CommitTransaction(c) ==
    /\ depth[c] = 1 /\ op[c] = NoOp
    /\ Commit(c)

\* An exception leaves every open block.
RollbackTransaction(c) ==
    /\ ~Standalone(c) /\ op[c] = NoOp
    /\ Rollback(c)

----------------------------------------------------------------------------
(* Statements: each reads, inserts and, when standalone, commits *)

\* create_approval through _execute: the implicit transaction of one INSERT.
CreateApproval(c, a, r, s) ==
    /\ op[c] = NoOp
    /\ \A x \in Base(c).approvals : x.approval_id # a
    /\ Begin(c, [Base(c) EXCEPT !.approvals =
                   @ \cup {[approval_id |-> a, run |-> r, scope |-> s]}])
    /\ op' = [op EXCEPT ![c] = AfterInsert(c)]
    /\ UNCHANGED <<db, depth>>

\* append_event up to its SELECT of the last event of the run.
AppendRead(c, r) ==
    /\ op[c] = NoOp
    /\ Begin(c, Base(c))
    /\ op' = [op EXCEPT ![c] =
         [kind |-> "append", run |-> r, sequence |-> NextSequence(Base(c), r),
          previous_hash |-> PreviousHash(Base(c), r)]]
    /\ UNCHANGED <<db, depth>>

\* append_event's INSERT.
AppendInsert(c) ==
    /\ op[c].kind = "append"
    /\ fresh < MaxFresh
    /\ work' = [work EXCEPT ![c].events = @ \cup
         {[run |-> op[c].run, sequence |-> op[c].sequence,
           previous_hash |-> op[c].previous_hash, record_hash |-> fresh,
           batch |-> batch[c]]}]
    /\ fresh' = fresh + 1
    /\ op' = [op EXCEPT ![c] = AfterInsert(c)]
    /\ UNCHANGED <<db, lock, depth, batch>>

\* resolve_approval up to its checks.
ResolveRead(c, a, d, s) ==
    /\ op[c] = NoOp
    /\ Begin(c, Base(c))
    /\ op' = [op EXCEPT ![c] =
         [kind |-> "resolve", approval_id |-> a, decision |-> d, scope |-> s]]
    /\ UNCHANGED <<db, depth>>

\* resolve_approval's INSERT.
ResolveInsert(c) ==
    /\ op[c].kind = "resolve"
    /\ Resolvable(work[c], op[c])
    /\ work' = [work EXCEPT ![c].decisions = @ \cup
         {[approval_id |-> op[c].approval_id, decision |-> op[c].decision,
           scope |-> op[c].scope, batch |-> batch[c]]}]
    /\ op' = [op EXCEPT ![c] = AfterInsert(c)]
    /\ UNCHANGED <<db, lock, depth, batch, fresh>>

\* ApprovalError: not found, wrong scope or APPROVAL_REPLAY.  Standalone it
\* rolls back; inside a transaction the exception is the caller's.
ResolveRefuse(c) ==
    /\ op[c].kind = "resolve"
    /\ ~Resolvable(work[c], op[c])
    /\ IF Standalone(c)
       THEN Rollback(c)
       ELSE /\ op' = [op EXCEPT ![c] = NoOp]
            /\ UNCHANGED <<db, lock, work, depth, batch, fresh>>

StandaloneCommit(c) ==
    /\ op[c].kind = "commit"
    /\ Commit(c)

\* The process dies or the connection is closed in the middle of anything:
\* SQLite forgets what was not committed.
Crash(c) ==
    /\ lock = c
    /\ Rollback(c)

----------------------------------------------------------------------------
Init ==
    /\ db = EmptyTables
    /\ lock = NoConn
    /\ work = [c \in Conns |-> EmptyTables]
    /\ depth = [c \in Conns |-> 0]
    /\ op = [c \in Conns |-> NoOp]
    /\ batch = [c \in Conns |-> 1]
    /\ fresh = 1

Next ==
    \E c \in Conns :
        \/ BeginTransaction(c)
        \/ EnterNested(c)
        \/ LeaveNested(c)
        \/ CommitTransaction(c)
        \/ RollbackTransaction(c)
        \/ \E a \in Approvals, r \in Runs, s \in Scopes : CreateApproval(c, a, r, s)
        \/ \E r \in Runs : AppendRead(c, r)
        \/ AppendInsert(c)
        \/ \E a \in Approvals, d \in Decisions, s \in Scopes : ResolveRead(c, a, d, s)
        \/ ResolveInsert(c)
        \/ ResolveRefuse(c)
        \/ StandaloneCommit(c)
        \/ Crash(c)

Spec == Init /\ [][Next]_vars

----------------------------------------------------------------------------
(* Properties *)

TypeOK ==
    /\ db \in Tables
    /\ lock \in Conns \cup {NoConn}
    /\ work \in [Conns -> Tables]
    /\ depth \in [Conns -> Nat]
    /\ op \in [Conns -> {NoOp, CommitOp} \cup AppendOp \cup ResolveOp]
    /\ batch \in [Conns -> Ids]
    /\ fresh \in Ids

\* The events of every run are numbered 1, 2, 3, ... without a gap or a
\* duplicate, and each carries the hash of the one before it.
Chained(t) ==
    /\ \A e, f \in t.events : e.run = f.run /\ e.sequence = f.sequence => e = f
    /\ \A e \in t.events :
          \/ e.sequence = 1 /\ e.previous_hash = GENESIS
          \/ \E p \in t.events :
                /\ p.run = e.run
                /\ e.sequence = p.sequence + 1
                /\ e.previous_hash = p.record_hash

\* Whoever reads a timeline finds one unbroken hash chain per run, whatever
\* connections append to it at the same time (append_event).
EventsChained == Chained(db)

\* While an append is between its SELECT and its INSERT, no other connection
\* commits an event of that run: the tail it read is never stale, and
\* UNIQUE(run_id, sequence) never has to reject a fork.
AppendNeverCollides ==
    \A c \in Conns : op[c].kind = "append" =>
        \A e \in RowsOf(db, op[c].run) : e.sequence < op[c].sequence

\* An approval has at most one decision, made for the scope that was
\* requested (resolve_approval).
DecidedOnce(t) ==
    /\ \A d, e \in t.decisions : d.approval_id = e.approval_id => d = e
    /\ \A d \in t.decisions :
          \E a \in t.approvals : a.approval_id = d.approval_id /\ a.scope = d.scope

DecidedOnceAsRequested == DecidedOnce(db)

\* What a reader has seen never changes or goes away: rows are only added.
AppendOnly ==
    [][ /\ db.events \subseteq db'.events
        /\ db.approvals \subseteq db'.approvals
        /\ db.decisions \subseteq db'.decisions ]_vars

BatchesOf(events, decisions) ==
    {e.batch : e \in events} \cup {d.batch : d \in decisions}

\* A transaction becomes visible in one piece: no reader sees an event or a
\* decision of a transaction and later another one of the same transaction.
BatchesWhole ==
    [][ BatchesOf(db'.events \ db.events, db'.decisions \ db.decisions)
          \cap BatchesOf(db.events, db.decisions) = {} ]_vars

============================================================================
