---------------------- MODULE OperationalStore_proofs ----------------------
(***************************************************************************)
(* Proofs about the operational store, for any set of connections, runs,   *)
(* approvals and scopes and any bounds.                                    *)
(***************************************************************************)
EXTENDS StoreRefinesLedger, FiniteSetTheorems, SequenceTheorems, TLAPS

\* A run that has events has a last one: what ORDER BY sequence DESC LIMIT 1
\* needs to return the tail.
HasLast(t) ==
    \A r \in Runs : RowsOf(t, r) # {} =>
        \E e \in RowsOf(t, r) : \A f \in RowsOf(t, r) : f.sequence <= e.sequence

\* The numbers of a run's events start at 1 and leave none out.
Gapless(t) ==
    \A r \in Runs : \A e \in RowsOf(t, r) : \A i \in 1..e.sequence :
        \E f \in RowsOf(t, r) : f.sequence = i

Sound(t) == Chained(t) /\ HasLast(t) /\ Gapless(t) /\ DecidedOnce(t)

\* Only the connection that has the lock has uncommitted tables, an open
\* transaction or a statement under way.
LockHolder ==
    \A c \in Conns : lock # c =>
        work[c] = EmptyTables /\ depth[c] = 0 /\ op[c] = NoOp

Included(s, t) ==
    /\ s.events \subseteq t.events
    /\ s.approvals \subseteq t.approvals
    /\ s.decisions \subseteq t.decisions

\* The writer's copy adds to the committed tables.
WriterExtends == \A c \in Conns : lock = c => Included(db, work[c])

\* An event about to be inserted follows the last one of its run.
InsertFollowsTail ==
    \A c \in Conns : op[c].kind = "append" =>
        /\ op[c].sequence = NextSequence(work[c], op[c].run)
        /\ op[c].previous_hash = PreviousHash(work[c], op[c].run)

AllSound == Sound(db) /\ \A c \in Conns : Sound(work[c])

IInv == TypeOK /\ LockHolder /\ WriterExtends /\ AllSound /\ InsertFollowsTail

----------------------------------------------------------------------------
(* Lemmas about the tables *)

LEMMA EmptySound == Sound(EmptyTables)
  BY DEF Sound, Chained, HasLast, Gapless, DecidedOnce, RowsOf, EmptyTables

\* The SELECT of append_event returns a row of the run that no other exceeds.
LEMMA LastEventFacts ==
  ASSUME NEW t, HasLast(t), NEW r \in Runs, RowsOf(t, r) # {}
  PROVE  /\ LastEvent(t, r) \in RowsOf(t, r)
         /\ \A f \in RowsOf(t, r) : f.sequence <= LastEvent(t, r).sequence
  BY DEF HasLast, LastEvent

LEMMA NextTypes ==
  ASSUME NEW t \in Tables, HasLast(t), NEW r \in Runs
  PROVE  NextSequence(t, r) \in Ids /\ PreviousHash(t, r) \in Nat
<1>1. CASE RowsOf(t, r) = {}
  BY <1>1 DEF NextSequence, PreviousHash, GENESIS, Ids
<1>2. CASE RowsOf(t, r) # {}
  <2>1. LastEvent(t, r) \in EventRow
    BY <1>2, LastEventFacts DEF RowsOf, Tables
  <2> QED BY <1>2, <2>1 DEF NextSequence, PreviousHash, EventRow, Ids
<1> QED BY <1>1, <1>2

\* Inserting the successor of the tail keeps the chain whole.
LEMMA InsertEventSound ==
  ASSUME NEW t \in Tables, Sound(t), NEW e \in EventRow,
         e.sequence = NextSequence(t, e.run),
         e.previous_hash = PreviousHash(t, e.run)
  PROVE  Sound([t EXCEPT !.events = @ \cup {e}])
<1> DEFINE u == [t EXCEPT !.events = @ \cup {e}]
<1>1. /\ u.events = t.events \cup {e}
      /\ u.decisions = t.decisions
      /\ u.approvals = t.approvals
  BY DEF Tables
<1>2. e.run \in Runs /\ e.sequence \in Ids
  BY DEF EventRow
<1>3. \A f \in t.events : f.sequence \in Ids /\ f.run \in Runs
  BY DEF Tables, EventRow
<1>4. \A f \in t.events : f.run = e.run => f.sequence < e.sequence
  <2> SUFFICES ASSUME NEW f \in t.events, f.run = e.run
               PROVE  f.sequence < e.sequence
    OBVIOUS
  <2>1. f \in RowsOf(t, e.run)
    BY DEF RowsOf
  <2>2. /\ LastEvent(t, e.run) \in t.events
        /\ f.sequence <= LastEvent(t, e.run).sequence
    BY <2>1, <1>2, LastEventFacts DEF Sound, RowsOf
  <2>3. e.sequence = LastEvent(t, e.run).sequence + 1
    BY <2>1 DEF NextSequence
  <2> QED BY <2>2, <2>3, <1>3 DEF Ids
<1>5. Chained(u)
  <2>1. ASSUME NEW f \in u.events, NEW g \in u.events,
               f.run = g.run, f.sequence = g.sequence
        PROVE  f = g
    BY <2>1, <1>1, <1>2, <1>3, <1>4 DEF Sound, Chained, Ids
  <2>2. ASSUME NEW f \in t.events
        PROVE  \/ f.sequence = 1 /\ f.previous_hash = GENESIS
               \/ \E p \in u.events : /\ p.run = f.run
                                      /\ f.sequence = p.sequence + 1
                                      /\ f.previous_hash = p.record_hash
    BY <1>1 DEF Sound, Chained
  <2>3. \/ e.sequence = 1 /\ e.previous_hash = GENESIS
        \/ \E p \in u.events : /\ p.run = e.run
                               /\ e.sequence = p.sequence + 1
                               /\ e.previous_hash = p.record_hash
    <3>1. CASE RowsOf(t, e.run) = {}
      BY <3>1 DEF NextSequence, PreviousHash
    <3>2. CASE RowsOf(t, e.run) # {}
      <4>1. LastEvent(t, e.run) \in u.events /\ LastEvent(t, e.run).run = e.run
        BY <3>2, <1>1, <1>2, LastEventFacts DEF Sound, RowsOf
      <4> QED BY <3>2, <4>1 DEF NextSequence, PreviousHash
    <3> QED BY <3>1, <3>2
  <2> QED BY <2>1, <2>2, <2>3, <1>1 DEF Chained
<1>6. HasLast(u)
  <2> SUFFICES ASSUME NEW r \in Runs, RowsOf(u, r) # {}
               PROVE  \E g \in RowsOf(u, r) : \A f \in RowsOf(u, r) : f.sequence <= g.sequence
    BY DEF HasLast
  <2>1. CASE r = e.run
    <3>1. e \in RowsOf(u, r)
      BY <2>1, <1>1 DEF RowsOf
    <3>2. \A f \in RowsOf(u, r) : f.sequence <= e.sequence
      BY <2>1, <1>1, <1>2, <1>3, <1>4 DEF RowsOf, Ids
    <3> QED BY <3>1, <3>2
  <2>2. CASE r # e.run
    <3>1. RowsOf(u, r) = RowsOf(t, r)
      BY <2>2, <1>1 DEF RowsOf
    <3> QED BY <3>1 DEF Sound, HasLast
  <2> QED BY <2>1, <2>2
<1>7. Gapless(u)
  <2> SUFFICES ASSUME NEW r \in Runs, NEW f \in RowsOf(u, r), NEW i \in 1..f.sequence
               PROVE  \E g \in RowsOf(u, r) : g.sequence = i
    BY DEF Gapless
  <2>1. \A g \in RowsOf(t, r) : g \in RowsOf(u, r)
    BY <1>1 DEF RowsOf
  <2>2. CASE f \in t.events
    <3>1. f \in RowsOf(t, r)
      BY <2>2 DEF RowsOf
    <3> QED BY <2>1, <3>1 DEF Sound, Gapless
  <2>3. CASE f = e
    <3>1. r = e.run /\ i \in 1..e.sequence
      BY <2>3 DEF RowsOf
    <3>2. CASE i = e.sequence
      BY <2>3, <3>2
    <3>3. CASE i # e.sequence /\ RowsOf(t, r) = {}
      BY <3>1, <3>3 DEF NextSequence
    <3>4. CASE i # e.sequence /\ RowsOf(t, r) # {}
      <4>1. LastEvent(t, r) \in RowsOf(t, r)
        BY <3>4, LastEventFacts DEF Sound
      <4>2. e.sequence = LastEvent(t, r).sequence + 1 /\ LastEvent(t, r).sequence \in Ids
        BY <3>1, <3>4, <4>1, <1>3 DEF NextSequence, RowsOf
      <4>3. i \in 1..LastEvent(t, r).sequence
        BY <3>1, <3>4, <4>2 DEF Ids
      <4> QED BY <2>1, <4>1, <4>3 DEF Sound, Gapless
    <3> QED BY <3>2, <3>3, <3>4
  <2> QED BY <2>2, <2>3, <1>1 DEF RowsOf
<1>8. DecidedOnce(u)
  BY <1>1 DEF Sound, DecidedOnce
<1> QED BY <1>5, <1>6, <1>7, <1>8 DEF Sound

\* Recording a decision that passed resolve_approval's checks keeps one
\* decision per approval, with the scope of the request.
LEMMA InsertDecisionSound ==
  ASSUME NEW t \in Tables, Sound(t), NEW d \in DecisionRow, Resolvable(t, d)
  PROVE  Sound([t EXCEPT !.decisions = @ \cup {d}])
<1> DEFINE u == [t EXCEPT !.decisions = @ \cup {d}]
<1>1. /\ u.events = t.events
      /\ u.decisions = t.decisions \cup {d}
      /\ u.approvals = t.approvals
  BY DEF Tables
<1>2. Chained(u) /\ HasLast(u) /\ Gapless(u)
  BY <1>1 DEF Sound, Chained, HasLast, Gapless, RowsOf
<1>3. DecidedOnce(u)
  BY <1>1 DEF Sound, DecidedOnce, Resolvable
<1> QED BY <1>2, <1>3 DEF Sound

LEMMA InsertApprovalSound ==
  ASSUME NEW t \in Tables, Sound(t), NEW a \in ApprovalRow
  PROVE  Sound([t EXCEPT !.approvals = @ \cup {a}])
<1> DEFINE u == [t EXCEPT !.approvals = @ \cup {a}]
<1>1. /\ u.events = t.events
      /\ u.decisions = t.decisions
      /\ u.approvals = t.approvals \cup {a}
  BY DEF Tables
<1>2. Chained(u) /\ HasLast(u) /\ Gapless(u)
  BY <1>1 DEF Sound, Chained, HasLast, Gapless, RowsOf
<1>3. DecidedOnce(u)
  BY <1>1 DEF Sound, DecidedOnce
<1> QED BY <1>2, <1>3 DEF Sound

----------------------------------------------------------------------------
(* Lemmas about steps: every action either leaves its connection holding the *)
(* lock on a sound copy of the tables, or gives the lock back.               *)

Ops == {NoOp, CommitOp} \cup AppendOp \cup ResolveOp

\* o is a statement that may follow on tables t.
FollowsTail(t, o) ==
    o.kind = "append" => /\ o.sequence = NextSequence(t, o.run)
                         /\ o.previous_hash = PreviousHash(t, o.run)

LEMMA WriteStep ==
  ASSUME IInv, NEW c \in Conns, NEW t \in Tables, NEW n \in Nat, NEW o \in Ops,
         Sound(t), Included(db, t), FollowsTail(t, o),
         lock \in {NoConn, c}, lock' = c, db' = db,
         work' = [work EXCEPT ![c] = t],
         depth' = [depth EXCEPT ![c] = n],
         op' = [op EXCEPT ![c] = o],
         batch' \in [Conns -> Ids], fresh' \in Ids
  PROVE  IInv'
<1>1. TypeOK'
  BY DEF IInv, TypeOK, Ops
<1>2. \A k \in Conns : k # c => /\ work'[k] = work[k] /\ depth'[k] = depth[k]
                                /\ op'[k] = op[k] /\ lock # k
  BY NoConnAssumption DEF IInv, TypeOK
<1>3. work'[c] = t /\ op'[c] = o
  BY DEF IInv, TypeOK
<1>4. LockHolder'
  BY <1>2 DEF IInv, LockHolder
<1>5. WriterExtends'
  BY <1>3 DEF WriterExtends, Included
<1>6. AllSound'
  <2>1. Sound(db')
    BY DEF IInv, AllSound
  <2>2. \A k \in Conns : Sound(work'[k])
    BY <1>2, <1>3 DEF IInv, AllSound
  <2> QED BY <2>1, <2>2 DEF AllSound, Sound, Chained, HasLast, Gapless, DecidedOnce, RowsOf
<1>7. InsertFollowsTail'
  <2> SUFFICES ASSUME NEW k \in Conns, op'[k].kind = "append"
               PROVE  /\ op'[k].sequence = NextSequence(work'[k], op'[k].run)
                      /\ op'[k].previous_hash = PreviousHash(work'[k], op'[k].run)
    BY DEF InsertFollowsTail, NextSequence, PreviousHash, LastEvent, RowsOf
  <2>1. CASE k = c
    BY <2>1, <1>3 DEF FollowsTail
  <2>2. CASE k # c
    BY <2>2, <1>2 DEF IInv, LockHolder, NoOp
  <2> QED BY <2>1, <2>2
<1> QED BY <1>1, <1>4, <1>5, <1>6, <1>7 DEF IInv

LEMMA ReleaseStep ==
  ASSUME IInv, NEW c \in Conns, lock = c, Release(c), db' \in {db, work[c]}
  PROVE  IInv'
<1> USE DEF Release
<1>1. TypeOK'
  <2>1. EmptyTables \in Tables
    BY DEF EmptyTables, Tables
  <2> QED BY <2>1 DEF IInv, TypeOK
<1>2. \A k \in Conns : work'[k] = EmptyTables /\ depth'[k] = 0 /\ op'[k] = NoOp
  BY DEF IInv, TypeOK, LockHolder
<1>3. LockHolder'
  BY <1>2 DEF LockHolder
<1>4. WriterExtends'
  BY NoConnAssumption DEF WriterExtends
<1>5. AllSound'
  <2>1. Sound(db') /\ \A k \in Conns : Sound(work'[k])
    BY <1>2, EmptySound DEF IInv, AllSound
  <2> QED BY <2>1 DEF AllSound, Sound, Chained, HasLast, Gapless, DecidedOnce, RowsOf
<1>6. InsertFollowsTail'
  BY <1>2 DEF InsertFollowsTail, NoOp
<1> QED BY <1>1, <1>3, <1>4, <1>5, <1>6 DEF IInv

\* What a connection reads and works on is sound and extends what is committed.
LEMMA BaseFacts ==
  ASSUME IInv, NEW c \in Conns
  PROVE  /\ Base(c) \in Tables /\ Sound(Base(c)) /\ Included(db, Base(c))
         /\ (depth[c] # 0 \/ op[c] # NoOp) =>
                lock = c /\ work[c] \in Tables /\ Sound(work[c]) /\ Included(db, work[c])
<1>1. db \in Tables /\ work[c] \in Tables /\ Sound(db) /\ Sound(work[c])
  BY DEF IInv, TypeOK, AllSound
<1>2. lock = c => Included(db, work[c])
  BY DEF IInv, WriterExtends
<1>3. (depth[c] # 0 \/ op[c] # NoOp) => lock = c
  BY DEF IInv, LockHolder
<1>4. Included(db, db)
  BY DEF Included
<1> QED BY <1>1, <1>2, <1>3, <1>4 DEF Base, Standalone

LEMMA BeginFacts ==
  ASSUME IInv, NEW c \in Conns, NEW t, Begin(c, t)
  PROVE  /\ lock \in {NoConn, c} /\ lock' = c
         /\ work' = [work EXCEPT ![c] = t]
         /\ batch' \in [Conns -> Ids] /\ fresh' \in Ids
  BY DEF Begin, BeginImmediate, UseTransaction, IInv, TypeOK, Ids

----------------------------------------------------------------------------
(* The inductive invariant *)

LEMMA InitIInv == Init => IInv
<1> SUFFICES ASSUME Init PROVE IInv
  OBVIOUS
<1> USE DEF Init
<1>1. TypeOK
  BY DEF TypeOK, Tables, EmptyTables, Ids
<1>2. LockHolder
  BY DEF LockHolder
<1>3. WriterExtends
  BY NoConnAssumption DEF WriterExtends
<1>4. AllSound
  BY EmptySound DEF AllSound
<1>5. InsertFollowsTail
  BY DEF InsertFollowsTail, NoOp
<1> QED BY <1>1, <1>2, <1>3, <1>4, <1>5 DEF IInv

LEMMA NextIInv == IInv /\ [Next]_vars => IInv'
<1> SUFFICES ASSUME IInv, [Next]_vars PROVE IInv'
  OBVIOUS
<1>0. CASE UNCHANGED vars
  <2> USE <1>0 DEF vars
  <2>1. TypeOK' /\ LockHolder'
    BY DEF IInv, TypeOK, LockHolder
  <2>2. WriterExtends'
    BY DEF IInv, WriterExtends, Included
  <2>3. AllSound'
    BY DEF IInv, AllSound, Sound, Chained, HasLast, Gapless, DecidedOnce, RowsOf
  <2>4. InsertFollowsTail'
    <3> SUFFICES ASSUME NEW k \in Conns, op'[k].kind = "append"
                 PROVE  /\ op'[k].sequence = NextSequence(work'[k], op'[k].run)
                        /\ op'[k].previous_hash = PreviousHash(work'[k], op'[k].run)
      BY DEF InsertFollowsTail, NextSequence, PreviousHash, LastEvent, RowsOf
    <3> QED BY DEF IInv, InsertFollowsTail
  <2> QED BY <2>1, <2>2, <2>3, <2>4 DEF IInv
<1> SUFFICES ASSUME Next PROVE IInv'
  BY <1>0
<1> PICK c \in Conns :
        \/ BeginTransaction(c)
        \/ EnterNested(c)
        \/ LeaveNested(c)
        \/ CommitTransaction(c)
        \/ RollbackTransaction(c)
        \/ \E a \in Approvals, r \in Runs, s \in Scopes : CreateApproval(c, a, r, s)
        \/ \E r \in Runs : AppendRead(c, r)
        \/ AppendInsert(c)
        \/ \E a \in Approvals, d \in Decisions, s \in Scopes : ResolveRead(c, a, d, s)
        \/ ResolveInsert(c)
        \/ ResolveRefuse(c)
        \/ StandaloneCommit(c)
        \/ Crash(c)
  BY DEF Next
<1>a. NoOp \in Ops /\ CommitOp \in Ops /\ AfterInsert(c) \in Ops
  BY DEF Ops, AfterInsert
<1>b. \A t : FollowsTail(t, NoOp) /\ FollowsTail(t, AfterInsert(c))
  BY DEF FollowsTail, NoOp, CommitOp, AfterInsert
<1>c. /\ depth[c] \in Nat /\ depth = [depth EXCEPT ![c] = depth[c]]
      /\ op = [op EXCEPT ![c] = op[c]] /\ work = [work EXCEPT ![c] = work[c]]
      /\ op[c] \in Ops /\ FollowsTail(work[c], op[c])
      /\ batch \in [Conns -> Ids] /\ fresh \in Ids
  BY DEF IInv, TypeOK, Ops, FollowsTail, InsertFollowsTail
<1>1. CASE BeginTransaction(c)
  <2>1. /\ lock = NoConn /\ lock' = c /\ db' = db
        /\ work' = [work EXCEPT ![c] = db]
        /\ depth' = [depth EXCEPT ![c] = 1]
        /\ op' = [op EXCEPT ![c] = NoOp]
        /\ batch' \in [Conns -> Ids] /\ fresh' \in Ids
    BY <1>1, <1>c DEF BeginTransaction, BeginImmediate, Ids
  <2>2. db \in Tables /\ Sound(db) /\ Included(db, db)
    BY DEF IInv, TypeOK, AllSound, Included
  <2> QED BY <2>1, <2>2, <1>a, <1>b, WriteStep
<1>2. CASE EnterNested(c)
  <2>1. lock = c /\ work[c] \in Tables /\ Sound(work[c]) /\ Included(db, work[c])
    BY <1>2, BaseFacts DEF EnterNested, Standalone
  <2>2. /\ depth' = [depth EXCEPT ![c] = depth[c] + 1] /\ depth[c] + 1 \in Nat
        /\ op' = [op EXCEPT ![c] = op[c]] /\ work' = [work EXCEPT ![c] = work[c]]
        /\ lock' = c /\ db' = db /\ batch' \in [Conns -> Ids] /\ fresh' \in Ids
    BY <1>2, <1>c, <2>1 DEF EnterNested
  <2> QED BY <2>1, <2>2, <1>c, WriteStep
<1>3. CASE LeaveNested(c)
  <2>1. lock = c /\ work[c] \in Tables /\ Sound(work[c]) /\ Included(db, work[c])
    BY <1>3, <1>c, BaseFacts DEF LeaveNested
  <2>2. /\ depth' = [depth EXCEPT ![c] = depth[c] - 1] /\ depth[c] - 1 \in Nat
        /\ op' = [op EXCEPT ![c] = op[c]] /\ work' = [work EXCEPT ![c] = work[c]]
        /\ lock' = c /\ db' = db /\ batch' \in [Conns -> Ids] /\ fresh' \in Ids
    BY <1>3, <1>c, <2>1 DEF LeaveNested
  <2> QED BY <2>1, <2>2, <1>c, WriteStep
<1>4. CASE CommitTransaction(c)
  <2>1. lock = c
    BY <1>4, BaseFacts DEF CommitTransaction
  <2> QED BY <1>4, <2>1, ReleaseStep DEF CommitTransaction, Commit
<1>5. CASE RollbackTransaction(c)
  <2>1. lock = c
    BY <1>5, BaseFacts DEF RollbackTransaction, Standalone
  <2> QED BY <1>5, <2>1, ReleaseStep DEF RollbackTransaction, Rollback
<1>6. ASSUME NEW a \in Approvals, NEW r \in Runs, NEW s \in Scopes, CreateApproval(c, a, r, s)
      PROVE  IInv'
  <2> DEFINE row == [approval_id |-> a, run |-> r, scope |-> s]
             t == [Base(c) EXCEPT !.approvals = @ \cup {row}]
  <2>1. row \in ApprovalRow
    BY DEF ApprovalRow
  <2>2. Base(c) \in Tables /\ Sound(Base(c)) /\ Included(db, Base(c))
    BY BaseFacts
  <2>3. t \in Tables /\ Included(db, t)
    BY <2>1, <2>2 DEF Tables, Included
  <2>4. Sound(t)
    BY <2>1, <2>2, InsertApprovalSound
  <2>5. /\ Begin(c, t) /\ db' = db /\ depth' = [depth EXCEPT ![c] = depth[c]]
        /\ op' = [op EXCEPT ![c] = AfterInsert(c)]
    BY <1>6, <1>c DEF CreateApproval
  <2>6. /\ lock \in {NoConn, c} /\ lock' = c /\ work' = [work EXCEPT ![c] = t]
        /\ batch' \in [Conns -> Ids] /\ fresh' \in Ids
    BY <2>5, BeginFacts
  <2> HIDE DEF t
  <2> QED BY <2>3, <2>4, <2>5, <2>6, <1>a, <1>b, <1>c, WriteStep
<1>7. ASSUME NEW r \in Runs, AppendRead(c, r)
      PROVE  IInv'
  <2> DEFINE o == [kind |-> "append", run |-> r, sequence |-> NextSequence(Base(c), r),
                   previous_hash |-> PreviousHash(Base(c), r)]
  <2>1. Base(c) \in Tables /\ Sound(Base(c)) /\ Included(db, Base(c))
    BY BaseFacts
  <2>2. o \in Ops
    BY <2>1, NextTypes DEF Ops, AppendOp, Sound
  <2>3. FollowsTail(Base(c), o)
    BY DEF FollowsTail
  <2>4. /\ Begin(c, Base(c)) /\ db' = db /\ depth' = [depth EXCEPT ![c] = depth[c]]
        /\ op' = [op EXCEPT ![c] = o]
    BY <1>7, <1>c DEF AppendRead
  <2>5. /\ lock \in {NoConn, c} /\ lock' = c /\ work' = [work EXCEPT ![c] = Base(c)]
        /\ batch' \in [Conns -> Ids] /\ fresh' \in Ids
    BY <2>4, BeginFacts
  <2> HIDE DEF o
  <2> QED BY <2>1, <2>2, <2>3, <2>4, <2>5, <1>c, WriteStep
<1>8. CASE AppendInsert(c)
  <2> DEFINE e == [run |-> op[c].run, sequence |-> op[c].sequence,
                   previous_hash |-> op[c].previous_hash, record_hash |-> fresh,
                   batch |-> batch[c]]
             t == [work[c] EXCEPT !.events = @ \cup {e}]
  <2>1. op[c] # NoOp /\ op[c] \in AppendOp
    BY <1>8, <1>c DEF AppendInsert, NoOp, CommitOp, Ops, ResolveOp
  <2>2. lock = c /\ work[c] \in Tables /\ Sound(work[c]) /\ Included(db, work[c])
    BY <2>1, BaseFacts
  <2>3. e \in EventRow
    BY <2>1, <1>c DEF EventRow, AppendOp
  <2>4. Sound(t)
    <3>1. /\ e.sequence = NextSequence(work[c], e.run)
          /\ e.previous_hash = PreviousHash(work[c], e.run)
      BY <1>8 DEF AppendInsert, IInv, InsertFollowsTail
    <3> HIDE DEF e
    <3> QED BY <2>2, <2>3, <3>1, InsertEventSound
  <2>5. t \in Tables /\ Included(db, t)
    BY <2>2, <2>3 DEF Tables, Included
  <2>6. /\ db' = db /\ lock' = c /\ depth' = [depth EXCEPT ![c] = depth[c]]
        /\ op' = [op EXCEPT ![c] = AfterInsert(c)]
        /\ work' = [work EXCEPT ![c] = t]
        /\ batch' \in [Conns -> Ids] /\ fresh' \in Ids
    BY <1>8, <1>c, <2>2 DEF AppendInsert, Ids
  <2> HIDE DEF t
  <2> QED BY <2>2, <2>4, <2>5, <2>6, <1>a, <1>b, <1>c, WriteStep
<1>9. ASSUME NEW a \in Approvals, NEW d \in Decisions, NEW s \in Scopes, ResolveRead(c, a, d, s)
      PROVE  IInv'
  <2> DEFINE o == [kind |-> "resolve", approval_id |-> a, decision |-> d, scope |-> s]
  <2>1. Base(c) \in Tables /\ Sound(Base(c)) /\ Included(db, Base(c))
    BY BaseFacts
  <2>2. o \in Ops /\ FollowsTail(Base(c), o)
    BY DEF Ops, ResolveOp, FollowsTail
  <2>3. /\ Begin(c, Base(c)) /\ db' = db /\ depth' = [depth EXCEPT ![c] = depth[c]]
        /\ op' = [op EXCEPT ![c] = o]
    BY <1>9, <1>c DEF ResolveRead
  <2>4. /\ lock \in {NoConn, c} /\ lock' = c /\ work' = [work EXCEPT ![c] = Base(c)]
        /\ batch' \in [Conns -> Ids] /\ fresh' \in Ids
    BY <2>3, BeginFacts
  <2> HIDE DEF o
  <2> QED BY <2>1, <2>2, <2>3, <2>4, <1>c, WriteStep
<1>10. CASE ResolveInsert(c)
  <2> DEFINE d == [approval_id |-> op[c].approval_id, decision |-> op[c].decision,
                   scope |-> op[c].scope, batch |-> batch[c]]
             t == [work[c] EXCEPT !.decisions = @ \cup {d}]
  <2>1. op[c] # NoOp /\ op[c] \in ResolveOp
    BY <1>10, <1>c DEF ResolveInsert, NoOp, CommitOp, Ops, AppendOp
  <2>2. lock = c /\ work[c] \in Tables /\ Sound(work[c]) /\ Included(db, work[c])
    BY <2>1, BaseFacts
  <2>3. d \in DecisionRow
    BY <2>1, <1>c DEF DecisionRow, ResolveOp
  <2>4. Sound(t)
    <3>1. Resolvable(work[c], d)
      BY <1>10 DEF ResolveInsert, Resolvable
    <3> HIDE DEF d
    <3> QED BY <2>2, <2>3, <3>1, InsertDecisionSound
  <2>5. t \in Tables /\ Included(db, t)
    BY <2>2, <2>3 DEF Tables, Included
  <2>6. /\ db' = db /\ lock' = c /\ depth' = [depth EXCEPT ![c] = depth[c]]
        /\ op' = [op EXCEPT ![c] = AfterInsert(c)]
        /\ work' = [work EXCEPT ![c] = t]
        /\ batch' \in [Conns -> Ids] /\ fresh' \in Ids
    BY <1>10, <1>c, <2>2 DEF ResolveInsert
  <2> HIDE DEF t
  <2> QED BY <2>2, <2>4, <2>5, <2>6, <1>a, <1>b, <1>c, WriteStep
<1>11. CASE ResolveRefuse(c)
  <2>1. lock = c /\ work[c] \in Tables /\ Sound(work[c]) /\ Included(db, work[c])
    BY <1>11, BaseFacts DEF ResolveRefuse, NoOp
  <2>2. CASE Standalone(c)
    BY <1>11, <2>1, <2>2, ReleaseStep DEF ResolveRefuse, Rollback
  <2>3. CASE ~Standalone(c)
    <3>1. /\ db' = db /\ lock' = c /\ depth' = [depth EXCEPT ![c] = depth[c]]
          /\ op' = [op EXCEPT ![c] = NoOp]
          /\ work' = [work EXCEPT ![c] = work[c]]
          /\ batch' \in [Conns -> Ids] /\ fresh' \in Ids
      BY <1>11, <1>c, <2>1, <2>3 DEF ResolveRefuse
    <3> QED BY <2>1, <3>1, <1>a, <1>b, <1>c, WriteStep
  <2> QED BY <2>2, <2>3
<1>12. CASE StandaloneCommit(c)
  <2>1. lock = c
    BY <1>12, BaseFacts DEF StandaloneCommit, NoOp
  <2> QED BY <1>12, <2>1, ReleaseStep DEF StandaloneCommit, Commit
<1>13. CASE Crash(c)
  BY <1>13, ReleaseStep DEF Crash, Rollback
<1> QED
  BY <1>1, <1>2, <1>3, <1>4, <1>5, <1>6, <1>7, <1>8, <1>9, <1>10, <1>11, <1>12, <1>13

THEOREM InductiveInvariant == Spec => []IInv
  BY InitIInv, NextIInv, PTL DEF Spec

\* The types of the store's variables.
THEOREM TypeCorrect == Spec => []TypeOK
<1>1. IInv => TypeOK
  BY DEF IInv
<1> QED BY <1>1, InductiveInvariant, PTL

\* append_event: one unbroken hash chain per run, for any number of
\* connections, runs and events.
THEOREM ChainUnbroken == Spec => []EventsChained
<1>1. IInv => EventsChained
  BY DEF IInv, AllSound, Sound, EventsChained
<1> QED BY <1>1, InductiveInvariant, PTL

\* append_event: no other connection extends the run between the SELECT and
\* the INSERT, so UNIQUE(run_id, sequence) never rejects an append.
THEOREM AppendsNeverCollide == Spec => []AppendNeverCollides
<1>1. IInv => AppendNeverCollides
  <2> SUFFICES ASSUME IInv, NEW c \in Conns, op[c].kind = "append",
                      NEW e \in RowsOf(db, op[c].run)
               PROVE  e.sequence < op[c].sequence
    BY DEF AppendNeverCollides
  <2>1. op[c] \in AppendOp
    BY DEF IInv, TypeOK, NoOp, CommitOp, AppendOp, ResolveOp
  <2>2. lock = c /\ work[c] \in Tables /\ Sound(work[c]) /\ Included(db, work[c])
    BY BaseFacts DEF NoOp
  <2>3. e \in RowsOf(work[c], op[c].run) /\ op[c].run \in Runs
    BY <2>1, <2>2 DEF RowsOf, Included, AppendOp
  <2>4. /\ e.sequence <= LastEvent(work[c], op[c].run).sequence
        /\ LastEvent(work[c], op[c].run) \in EventRow
        /\ e \in EventRow
    BY <2>2, <2>3, LastEventFacts DEF Sound, RowsOf, Tables
  <2>5. op[c].sequence = LastEvent(work[c], op[c].run).sequence + 1
    BY <2>3 DEF IInv, InsertFollowsTail, NextSequence
  <2> QED BY <2>4, <2>5 DEF EventRow, Ids
<1> QED BY <1>1, InductiveInvariant, PTL

\* resolve_approval: an approval is decided at most once, for its own scope.
THEOREM OneDecisionPerApproval == Spec => []DecidedOnceAsRequested
<1>1. IInv => DecidedOnceAsRequested
  BY DEF IInv, AllSound, Sound, DecidedOnceAsRequested
<1> QED BY <1>1, InductiveInvariant, PTL

----------------------------------------------------------------------------
(* Action properties *)

LEMMA OnlyHolderPublishes ==
  ASSUME IInv, [Next]_vars, db' # db
  PROVE  \E c \in Conns : lock = c /\ db' = work[c]
<1>1. PICK c \in Conns : CommitTransaction(c) \/ StandaloneCommit(c)
  BY DEF Next, vars, BeginTransaction, EnterNested, LeaveNested, RollbackTransaction,
     Rollback, CreateApproval, AppendRead, AppendInsert, ResolveRead, ResolveInsert,
     ResolveRefuse, Crash
<1>2. lock = c
  BY <1>1, BaseFacts DEF CommitTransaction, StandaloneCommit, NoOp
<1> QED BY <1>1, <1>2 DEF CommitTransaction, StandaloneCommit, Commit

\* Events, approval requests and decisions, once visible, stay as they are.
THEOREM HistoryAppendOnly == Spec => AppendOnly
<1>1. IInv /\ [Next]_vars => [ /\ db.events \subseteq db'.events
                               /\ db.approvals \subseteq db'.approvals
                               /\ db.decisions \subseteq db'.decisions ]_vars
  <2> SUFFICES ASSUME IInv, [Next]_vars
               PROVE  Included(db, db')
    BY DEF Included
  <2>1. CASE db' = db
    BY <2>1 DEF Included
  <2>2. CASE db' # db
    BY <2>2, OnlyHolderPublishes DEF IInv, WriterExtends
  <2> QED BY <2>1, <2>2
<1> QED BY <1>1, InductiveInvariant, PTL DEF Spec, AppendOnly

----------------------------------------------------------------------------
(* A transaction is visible whole *)

\* Batch identifiers grow, the writer's is not yet visible, and all that the
\* writer has added carries it.
BatchInv ==
    /\ \A b \in BatchesOf(db.events, db.decisions) : b < fresh
    /\ \A c \in Conns : lock = c =>
          /\ batch[c] < fresh
          /\ batch[c] \notin BatchesOf(db.events, db.decisions)
          /\ BatchesOf(work[c].events \ db.events, work[c].decisions \ db.decisions)
                \subseteq {batch[c]}

LEMMA KeepBatch ==
  ASSUME IInv, BatchInv, NEW c \in Conns, NEW t \in Tables, Begin(c, t), db' = db,
         t.events = Base(c).events, t.decisions = Base(c).decisions
  PROVE  BatchInv'
<1>1. CASE Standalone(c)
  <2>1. /\ lock' = c /\ batch'[c] = fresh /\ fresh' = fresh + 1 /\ fresh \in Ids
        /\ work'[c] = t /\ t.events = db.events /\ t.decisions = db.decisions
    BY <1>1 DEF Begin, BeginImmediate, Base, IInv, TypeOK
  <2>2. \A b \in BatchesOf(db.events, db.decisions) : b \in Ids /\ b < fresh
    BY DEF IInv, TypeOK, Tables, EventRow, DecisionRow, BatchInv, BatchesOf
  <2>3. \A b \in BatchesOf(db.events, db.decisions) : b < fresh' /\ b # batch'[c]
    BY <2>1, <2>2 DEF Ids
  <2>4. BatchesOf(work'[c].events \ db.events, work'[c].decisions \ db.decisions) = {}
    BY <2>1 DEF BatchesOf
  <2>5. batch'[c] < fresh'
    BY <2>1 DEF Ids
  <2> QED BY <2>1, <2>3, <2>4, <2>5 DEF BatchInv, BatchesOf
<1>2. CASE ~Standalone(c)
  <2>1. /\ lock = c /\ lock' = c /\ batch' = batch /\ fresh' = fresh
        /\ work'[c] = t /\ t.events = work[c].events /\ t.decisions = work[c].decisions
    BY <1>2 DEF Begin, UseTransaction, Base, IInv, TypeOK
  <2> QED BY <2>1 DEF BatchInv, BatchesOf
<1> QED BY <1>1, <1>2

LEMMA ReleaseBatch ==
  ASSUME IInv, BatchInv, NEW c \in Conns, lock = c, Release(c), db' \in {db, work[c]}
  PROVE  BatchInv'
<1>1. lock' = NoConn /\ fresh' = fresh
  BY DEF Release
<1>2. \A b \in BatchesOf(db'.events, db'.decisions) : b < fresh
  BY DEF BatchInv, BatchesOf
<1> QED BY <1>1, <1>2, NoConnAssumption DEF BatchInv, BatchesOf

LEMMA NextBatchInv == IInv /\ BatchInv /\ [Next]_vars => BatchInv'
<1> SUFFICES ASSUME IInv, BatchInv, [Next]_vars PROVE BatchInv'
  OBVIOUS
<1>0. CASE UNCHANGED vars
  BY <1>0 DEF vars, BatchInv, BatchesOf
<1>1. ASSUME NEW c \in Conns, BeginTransaction(c)
      PROVE  BatchInv'
  <2>1. Begin(c, db) /\ db' = db /\ db \in Tables /\ Base(c) = db
    BY <1>1 DEF BeginTransaction, Begin, Base, IInv, TypeOK
  <2> QED BY <2>1, KeepBatch
<1>2. ASSUME NEW c \in Conns, EnterNested(c) \/ LeaveNested(c)
      PROVE  BatchInv'
  BY <1>2 DEF EnterNested, LeaveNested, BatchInv, BatchesOf
<1>3. ASSUME NEW c \in Conns, CommitTransaction(c) \/ RollbackTransaction(c)
      PROVE  BatchInv'
  <2>1. lock = c
    BY <1>3, BaseFacts DEF CommitTransaction, RollbackTransaction, Standalone
  <2> QED BY <1>3, <2>1, ReleaseBatch
          DEF CommitTransaction, RollbackTransaction, Commit, Rollback
<1>4. ASSUME NEW c \in Conns, NEW a \in Approvals, NEW r \in Runs, NEW s \in Scopes,
             CreateApproval(c, a, r, s)
      PROVE  BatchInv'
  <2> DEFINE t == [Base(c) EXCEPT !.approvals =
                     @ \cup {[approval_id |-> a, run |-> r, scope |-> s]}]
  <2>1. t \in Tables /\ t.events = Base(c).events /\ t.decisions = Base(c).decisions
    BY BaseFacts DEF Tables, ApprovalRow
  <2>2. Begin(c, t) /\ db' = db
    BY <1>4 DEF CreateApproval
  <2> HIDE DEF t
  <2> QED BY <2>1, <2>2, KeepBatch
<1>5. ASSUME NEW c \in Conns, NEW r \in Runs, AppendRead(c, r)
      PROVE  BatchInv'
  BY <1>5, BaseFacts, KeepBatch DEF AppendRead
<1>6. ASSUME NEW c \in Conns, AppendInsert(c)
      PROVE  BatchInv'
  <2>1. lock = c /\ work[c] \in Tables
    BY <1>6, BaseFacts DEF AppendInsert, NoOp
  <2>2. /\ db' = db /\ lock' = lock /\ batch' = batch /\ fresh' = fresh + 1
        /\ work'[c].decisions = work[c].decisions
        /\ \E e : e.batch = batch[c] /\ work'[c].events = work[c].events \cup {e}
    <3> DEFINE e == [run |-> op[c].run, sequence |-> op[c].sequence,
                     previous_hash |-> op[c].previous_hash, record_hash |-> fresh,
                     batch |-> batch[c]]
    <3>1. /\ db' = db /\ lock' = lock /\ batch' = batch /\ fresh' = fresh + 1
          /\ work'[c] = [work[c] EXCEPT !.events = @ \cup {e}]
      BY <1>6 DEF AppendInsert, IInv, TypeOK
    <3>2. e.batch = batch[c]
      OBVIOUS
    <3> HIDE DEF e
    <3> QED BY <2>1, <3>1, <3>2 DEF Tables
  <2>3. \A b \in BatchesOf(db.events, db.decisions) : b \in Ids
    BY DEF IInv, TypeOK, Tables, EventRow, DecisionRow, BatchesOf
  <2>4. batch[c] \in Ids /\ fresh \in Ids
    BY DEF IInv, TypeOK
  <2> QED BY <2>1, <2>2, <2>3, <2>4 DEF BatchInv, BatchesOf, Ids
<1>7. ASSUME NEW c \in Conns, NEW a \in Approvals, NEW d \in Decisions, NEW s \in Scopes,
             ResolveRead(c, a, d, s)
      PROVE  BatchInv'
  BY <1>7, BaseFacts, KeepBatch DEF ResolveRead
<1>8. ASSUME NEW c \in Conns, ResolveInsert(c)
      PROVE  BatchInv'
  <2>1. lock = c /\ work[c] \in Tables
    BY <1>8, BaseFacts DEF ResolveInsert, NoOp
  <2>2. /\ db' = db /\ lock' = lock /\ batch' = batch /\ fresh' = fresh
        /\ work'[c].events = work[c].events
        /\ \E d : d.batch = batch[c] /\ work'[c].decisions = work[c].decisions \cup {d}
    <3> DEFINE d == [approval_id |-> op[c].approval_id, decision |-> op[c].decision,
                     scope |-> op[c].scope, batch |-> batch[c]]
    <3>1. /\ db' = db /\ lock' = lock /\ batch' = batch /\ fresh' = fresh
          /\ work'[c] = [work[c] EXCEPT !.decisions = @ \cup {d}]
      BY <1>8 DEF ResolveInsert, IInv, TypeOK
    <3>2. d.batch = batch[c]
      OBVIOUS
    <3> HIDE DEF d
    <3> QED BY <2>1, <3>1, <3>2 DEF Tables
  <2> QED BY <2>1, <2>2 DEF BatchInv, BatchesOf
<1>9. ASSUME NEW c \in Conns, ResolveRefuse(c)
      PROVE  BatchInv'
  <2>1. lock = c
    BY <1>9, BaseFacts DEF ResolveRefuse, NoOp
  <2>2. CASE Standalone(c)
    BY <1>9, <2>1, <2>2, ReleaseBatch DEF ResolveRefuse, Rollback
  <2>3. CASE ~Standalone(c)
    BY <1>9, <2>3 DEF ResolveRefuse, BatchInv, BatchesOf
  <2> QED BY <2>2, <2>3
<1>10. ASSUME NEW c \in Conns, StandaloneCommit(c) \/ Crash(c)
       PROVE  BatchInv'
  <2>1. lock = c
    BY <1>10, BaseFacts DEF StandaloneCommit, Crash, NoOp
  <2> QED BY <1>10, <2>1, ReleaseBatch DEF StandaloneCommit, Crash, Commit, Rollback
<1> QED
  BY <1>0, <1>1, <1>2, <1>3, <1>4, <1>5, <1>6, <1>7, <1>8, <1>9, <1>10 DEF Next

\* transaction(): what a transaction wrote is visible from its commit on, all
\* of it, and never if it was rolled back or interrupted.
THEOREM TransactionsVisibleWhole == Spec => BatchesWhole
<1>1. Init => BatchInv
  BY NoConnAssumption DEF Init, BatchInv, BatchesOf, EmptyTables
<1>2. IInv /\ BatchInv /\ [Next]_vars
        => [ BatchesOf(db'.events \ db.events, db'.decisions \ db.decisions)
               \cap BatchesOf(db.events, db.decisions) = {} ]_vars
  <2> SUFFICES ASSUME IInv, BatchInv, [Next]_vars
               PROVE  BatchesOf(db'.events \ db.events, db'.decisions \ db.decisions)
                        \cap BatchesOf(db.events, db.decisions) = {}
    OBVIOUS
  <2>1. CASE db' = db
    BY <2>1 DEF BatchesOf
  <2>2. CASE db' # db
    BY <2>2, OnlyHolderPublishes DEF BatchInv
  <2> QED BY <2>1, <2>2
<1> QED BY <1>1, <1>2, NextBatchInv, InductiveInvariant, PTL DEF Spec, BatchesWhole

----------------------------------------------------------------------------
(* The store implements the ledger.  What a reader lists of a run has as    *)
(* many entries as the number of its last event says.                       *)

Height(t, r) == NextSequence(t, r) - 1

\* The row at place i of a run's timeline.
RowAt(t, r, i) == CHOOSE e \in RowsOf(t, r) : e.sequence = i

LEMMA HeightOfLast ==
  ASSUME NEW t \in Tables, Sound(t), NEW r \in Runs, RowsOf(t, r) # {}
  PROVE  /\ LastEvent(t, r) \in RowsOf(t, r)
         /\ \A e \in RowsOf(t, r) : e.sequence <= LastEvent(t, r).sequence
         /\ LastEvent(t, r).sequence \in Ids
         /\ Height(t, r) = LastEvent(t, r).sequence
<1>1. /\ LastEvent(t, r) \in RowsOf(t, r)
      /\ \A e \in RowsOf(t, r) : e.sequence <= LastEvent(t, r).sequence
  BY LastEventFacts DEF Sound
<1>2. LastEvent(t, r).sequence \in Ids
  BY <1>1 DEF RowsOf, Tables, EventRow
<1>3. NextSequence(t, r) = LastEvent(t, r).sequence + 1
  BY DEF NextSequence
<1>4. Height(t, r) = LastEvent(t, r).sequence
  BY <1>2, <1>3 DEF Height, Ids
<1> QED BY <1>1, <1>2, <1>4

LEMMA RowAtFacts ==
  ASSUME NEW t \in Tables, Sound(t), NEW r \in Runs
  PROVE  /\ Height(t, r) \in Nat
         /\ \A i \in 1..Height(t, r) : /\ RowAt(t, r, i) \in RowsOf(t, r)
                                       /\ RowAt(t, r, i).sequence = i
                                       /\ RowAt(t, r, i).record_hash \in Ids
         /\ \A e \in RowsOf(t, r) : /\ e.sequence \in 1..Height(t, r)
                                    /\ RowAt(t, r, e.sequence) = e
<1>1. \A e \in RowsOf(t, r) : e \in EventRow /\ e.run = r /\ e \in t.events
  BY DEF RowsOf, Tables
<1>2. Height(t, r) \in Nat
  BY NextTypes DEF Height, Sound, Ids
<1>3. \A e \in RowsOf(t, r) : e.sequence \in 1..Height(t, r)
  <2> SUFFICES ASSUME NEW e \in RowsOf(t, r) PROVE e.sequence \in 1..Height(t, r)
    OBVIOUS
  <2>1. e.sequence \in Ids /\ RowsOf(t, r) # {}
    BY <1>1 DEF EventRow
  <2> QED BY <2>1, HeightOfLast DEF Ids
<1>4. ASSUME NEW i \in 1..Height(t, r)
      PROVE  \E e \in RowsOf(t, r) : e.sequence = i
  <2>1. RowsOf(t, r) # {}
    BY DEF Height, NextSequence
  <2> QED BY <2>1, HeightOfLast DEF Sound, Gapless
<1>5. \A i \in 1..Height(t, r) : /\ RowAt(t, r, i) \in RowsOf(t, r)
                                 /\ RowAt(t, r, i).sequence = i
  BY <1>4 DEF RowAt
<1>6. \A i \in 1..Height(t, r) : RowAt(t, r, i).record_hash \in Ids
  BY <1>1, <1>5 DEF EventRow
<1>7. ASSUME NEW e \in RowsOf(t, r)
      PROVE  RowAt(t, r, e.sequence) = e
  <2>1. /\ RowAt(t, r, e.sequence) \in RowsOf(t, r)
        /\ RowAt(t, r, e.sequence).sequence = e.sequence
    BY <1>3, <1>5
  <2> QED BY <1>1, <2>1 DEF Sound, Chained
<1> QED BY <1>2, <1>3, <1>5, <1>6, <1>7

\* The rows of a run are as many as its last number: counting them and
\* numbering them agree.
LEMMA RowsCounted ==
  ASSUME NEW t \in Tables, Sound(t), NEW r \in Runs
  PROVE  Cardinality(RowsOf(t, r)) = Height(t, r)
<1> DEFINE h == Height(t, r)
           f == [i \in 1..h |-> RowAt(t, r, i)]
<1>1. h \in Nat
  BY RowAtFacts
<1>2. f \in [1..h -> RowsOf(t, r)]
  BY RowAtFacts
<1>3. \A i, j \in 1..h : f[i] = f[j] => i = j
  BY RowAtFacts
<1>4. \A e \in RowsOf(t, r) : \E i \in 1..h : f[i] = e
  <2> SUFFICES ASSUME NEW e \in RowsOf(t, r) PROVE \E i \in 1..h : f[i] = e
    OBVIOUS
  <2>1. e.sequence \in 1..h /\ RowAt(t, r, e.sequence) = e
    BY RowAtFacts
  <2> QED BY <2>1
<1>5. ExistsBijection(1..h, RowsOf(t, r))
  <2> HIDE DEF f, h
  <2> QED BY <1>2, <1>3, <1>4
          DEF ExistsBijection, Bijection, Injection, Surjection, IsInjective
<1> QED BY <1>1, <1>5, FS_CountingElements

LEMMA TimelineFacts ==
  ASSUME NEW t \in Tables, Sound(t), NEW r \in Runs
  PROVE  /\ Height(t, r) \in Nat
         /\ Timeline(t, r) = [i \in 1..Height(t, r) |-> RowAt(t, r, i).record_hash]
         /\ Timeline(t, r) \in Seq(Ids)
         /\ Len(Timeline(t, r)) = Height(t, r)
<1>1. Height(t, r) \in Nat
  BY RowAtFacts
<1>2. Timeline(t, r) = [i \in 1..Height(t, r) |-> RowAt(t, r, i).record_hash]
  BY RowsCounted DEF Timeline, RowAt
<1>3. \A i \in 1..Height(t, r) : RowAt(t, r, i).record_hash \in Ids
  BY RowAtFacts
<1>4. Timeline(t, r) \in [1..Height(t, r) -> Ids]
  BY <1>2, <1>3
<1>5. Timeline(t, r) \in Seq(Ids)
  BY <1>1, <1>4, SeqDef
<1>6. Len(Timeline(t, r)) = Height(t, r)
  BY <1>1, <1>4, <1>5
<1> QED BY <1>1, <1>2, <1>5, <1>6

LEMMA SameRows ==
  ASSUME NEW t, NEW u, NEW r, RowsOf(t, r) = RowsOf(u, r)
  PROVE  Timeline(t, r) = Timeline(u, r)
<1> DEFINE Listed(rows) ==
      [i \in 1..Cardinality(rows) |-> (CHOOSE e \in rows : e.sequence = i).record_hash]
<1>1. Timeline(t, r) = Listed(RowsOf(t, r)) /\ Timeline(u, r) = Listed(RowsOf(u, r))
  BY DEF Timeline
<1> HIDE DEF Listed
<1> QED BY <1>1

\* What tables t, seen by one connection, add to tables s, seen by all.
Added(s, t, r) ==
    SubSeq(Timeline(t, r), Len(Timeline(s, r)) + 1, Len(Timeline(t, r)))

LEMMA AddedFacts ==
  ASSUME NEW s \in Tables, NEW t \in Tables, Sound(s), Sound(t), Included(s, t),
         NEW r \in Runs
  PROVE  /\ Height(s, r) \in Nat /\ Height(t, r) \in Nat /\ Height(s, r) <= Height(t, r)
         /\ Added(s, t, r) \in Seq(Ids)
         /\ Len(Added(s, t, r)) = Height(t, r) - Height(s, r)
         /\ \A i \in 1..(Height(t, r) - Height(s, r)) :
               Added(s, t, r)[i] = Timeline(t, r)[Height(s, r) + i]
         /\ \A i \in 1..Height(s, r) : Timeline(t, r)[i] = Timeline(s, r)[i]
<1> DEFINE m == Height(s, r)
           n == Height(t, r)
<1>1. m \in Nat /\ n \in Nat
  BY RowAtFacts
<1>2. \A i \in 1..m : i \in 1..n /\ RowAt(t, r, i) = RowAt(s, r, i)
  <2> SUFFICES ASSUME NEW i \in 1..m PROVE i \in 1..n /\ RowAt(t, r, i) = RowAt(s, r, i)
    OBVIOUS
  <2>1. RowAt(s, r, i) \in RowsOf(s, r) /\ RowAt(s, r, i).sequence = i
    BY RowAtFacts
  <2>2. RowAt(s, r, i) \in RowsOf(t, r)
    BY <2>1 DEF RowsOf, Included
  <2> QED BY <2>1, <2>2, RowAtFacts
<1>3. m <= n
  <2>1. CASE m = 0
    BY <1>1, <2>1
  <2>2. CASE m # 0
    BY <1>1, <1>2, <2>2
  <2> QED BY <2>1, <2>2
<1>4. \A i \in 1..m : Timeline(t, r)[i] = Timeline(s, r)[i]
  <2> SUFFICES ASSUME NEW i \in 1..m PROVE Timeline(t, r)[i] = Timeline(s, r)[i]
    OBVIOUS
  <2>1. Timeline(t, r)[i] = RowAt(t, r, i).record_hash
    BY <1>2, TimelineFacts
  <2>2. Timeline(s, r)[i] = RowAt(s, r, i).record_hash
    BY TimelineFacts
  <2> QED BY <2>1, <2>2, <1>2
<1>5. /\ Len(Timeline(s, r)) = m /\ Len(Timeline(t, r)) = n
      /\ Timeline(t, r) \in Seq(Ids)
  BY TimelineFacts
<1>6. \A i \in (m + 1)..n : Timeline(t, r)[i] \in Ids
  BY <1>1, <1>5, ElementOfSeq
<1>7. /\ Added(s, t, r) \in Seq(Ids)
      /\ Len(Added(s, t, r)) = IF m + 1 <= n THEN n - (m + 1) + 1 ELSE 0
      /\ \A i \in 1..(n - (m + 1) + 1) : Added(s, t, r)[i] = Timeline(t, r)[(m + 1) + i - 1]
  <2>1. Added(s, t, r) = SubSeq(Timeline(t, r), m + 1, n) /\ m + 1 \in Int /\ n \in Int
    BY <1>1, <1>5 DEF Added
  <2> HIDE DEF m, n
  <2> QED BY <2>1, <1>6, SubSeqProperties
<1>8. /\ Len(Added(s, t, r)) = n - m
      /\ \A i \in 1..(n - m) : Added(s, t, r)[i] = Timeline(t, r)[m + i]
  <2> HIDE DEF m, n
  <2>1. n - (m + 1) + 1 = n - m /\ \A i \in Int : (m + 1) + i - 1 = m + i
    BY <1>1
  <2> QED BY <1>1, <1>3, <1>7, <2>1
<1> QED BY <1>1, <1>3, <1>4, <1>7, <1>8

\* Nothing is added to tables by themselves.
LEMMA NothingAdded ==
  ASSUME NEW s \in Tables, NEW t \in Tables, Sound(s), Sound(t), Included(s, t),
         NEW r \in Runs, RowsOf(s, r) = RowsOf(t, r)
  PROVE  Added(s, t, r) = <<>>
<1>1. Len(Added(s, t, r)) = 0 /\ Added(s, t, r) \in Seq(Ids)
  <2>1. Height(s, r) = Height(t, r)
    BY DEF Height, NextSequence, LastEvent
  <2> QED BY <2>1, AddedFacts
<1> QED BY <1>1, EmptySeq

\* Publishing what was added makes the timeline of all that of the writer.
LEMMA PublishAdded ==
  ASSUME NEW s \in Tables, NEW t \in Tables, Sound(s), Sound(t), Included(s, t),
         NEW r \in Runs
  PROVE  Timeline(s, r) \o Added(s, t, r) = Timeline(t, r)
<1> DEFINE m == Height(s, r)
           n == Height(t, r)
           a == Added(s, t, r)
           x == Timeline(s, r)
           y == Timeline(t, r)
<1>1. /\ m \in Nat /\ n \in Nat /\ m <= n /\ a \in Seq(Ids) /\ Len(a) = n - m
      /\ \A i \in 1..(n - m) : a[i] = y[m + i]
      /\ \A i \in 1..m : y[i] = x[i]
  BY AddedFacts
<1>2. x \in Seq(Ids) /\ Len(x) = m /\ y \in Seq(Ids) /\ Len(y) = n
  BY TimelineFacts
<1> HIDE DEF m, n, a, x, y
<1>3. /\ x \o a \in Seq(Ids) /\ Len(x \o a) = m + (n - m)
      /\ \A i \in 1..(m + (n - m)) : (x \o a)[i] = IF i <= m THEN x[i] ELSE a[i - m]
  BY <1>1, <1>2, ConcatProperties
<1>4. m + (n - m) = n
  BY <1>1
<1>5. \A i \in 1..n : (x \o a)[i] = y[i]
  <2> SUFFICES ASSUME NEW i \in 1..n PROVE (x \o a)[i] = y[i]
    OBVIOUS
  <2>1. CASE i <= m
    BY <1>1, <1>3, <1>4, <2>1
  <2>2. CASE ~(i <= m)
    <3>1. i - m \in 1..(n - m) /\ m + (i - m) = i
      BY <1>1, <2>2
    <3> QED BY <1>1, <1>3, <1>4, <2>2, <3>1
  <2> QED BY <2>1, <2>2
<1>6. x \o a = y
  BY <1>1, <1>2, <1>3, <1>4, <1>5, SeqEqual
<1> QED BY <1>6 DEF x, a, y

\* An insert by append_event adds one entry to its run.
LEMMA InsertAdds ==
  ASSUME NEW s \in Tables, NEW t \in Tables, NEW u \in Tables,
         Sound(s), Sound(t), Sound(u), Included(s, t), NEW e \in EventRow,
         e.sequence = NextSequence(t, e.run), u.events = t.events \cup {e},
         Included(s, u), NEW r \in Runs
  PROVE  Added(s, u, r) = IF r = e.run THEN Append(Added(s, t, r), e.record_hash)
                                       ELSE Added(s, t, r)
<1>1. CASE r # e.run
  <2>1. RowsOf(u, r) = RowsOf(t, r)
    BY <1>1 DEF RowsOf
  <2>2. Timeline(u, r) = Timeline(t, r)
    BY <2>1, SameRows
  <2> QED BY <1>1, <2>2 DEF Added
<1>2. CASE r = e.run
  <2> DEFINE m == Height(s, r)
             n == Height(t, r)
             a == Added(s, t, r)
             b == Added(s, u, r)
  <2>1. e \in RowsOf(u, r) /\ \A f \in RowsOf(t, r) : f \in RowsOf(u, r)
    BY <1>2 DEF RowsOf
  <2>2. /\ m \in Nat /\ n \in Nat /\ m <= n /\ a \in Seq(Ids) /\ Len(a) = n - m
        /\ \A i \in 1..(n - m) : a[i] = Timeline(t, r)[m + i]
    BY AddedFacts
  <2>3. e.sequence = n + 1 /\ e.record_hash \in Ids
    <3>1. NextSequence(t, r) \in Nat
      BY NextTypes DEF Sound, Ids
    <3> QED BY <1>2, <3>1 DEF Height, EventRow
  <2>4. Height(u, r) = n + 1
    <3>1. RowsOf(u, r) # {}
      BY <2>1
    <3>2. /\ LastEvent(u, r) \in RowsOf(u, r)
          /\ e.sequence <= LastEvent(u, r).sequence
      BY <2>1, <3>1, HeightOfLast
    <3>3. LastEvent(u, r).sequence \in Ids /\ Height(u, r) = LastEvent(u, r).sequence
      BY <3>1, HeightOfLast
    <3>4. LastEvent(u, r) = e \/ LastEvent(u, r) \in RowsOf(t, r)
      BY <3>2 DEF RowsOf
    <3>5. \A f \in RowsOf(t, r) : f.sequence \in 1..n
      BY RowAtFacts
    <3> HIDE DEF n
    <3> QED BY <2>2, <2>3, <3>2, <3>3, <3>4, <3>5 DEF Ids
  <2>5. /\ b \in Seq(Ids) /\ Len(b) = (n + 1) - m
        /\ \A i \in 1..((n + 1) - m) : b[i] = Timeline(u, r)[m + i]
    BY <2>4, AddedFacts
  <2>6. Timeline(u, r)[n + 1] = e.record_hash
    <3>1. RowAt(u, r, n + 1) = e
      BY <2>1, <2>3, RowAtFacts
    <3>2. n + 1 \in 1..Height(u, r)
      BY <2>2, <2>4
    <3> QED BY <3>1, <3>2, TimelineFacts
  <2>7. \A i \in 1..n : Timeline(u, r)[i] = Timeline(t, r)[i]
    <3>1. \A i \in 1..n : RowAt(u, r, i) = RowAt(t, r, i)
      <4> SUFFICES ASSUME NEW i \in 1..n PROVE RowAt(u, r, i) = RowAt(t, r, i)
        OBVIOUS
      <4>1. RowAt(t, r, i) \in RowsOf(t, r) /\ RowAt(t, r, i).sequence = i
        BY RowAtFacts
      <4> QED BY <2>1, <4>1, RowAtFacts
    <3>2. \A i \in 1..n : i \in 1..Height(u, r)
      BY <2>2, <2>4
    <3> QED BY <3>1, <3>2, TimelineFacts
  <2>8. /\ Append(a, e.record_hash) \in Seq(Ids)
        /\ Len(Append(a, e.record_hash)) = (n - m) + 1
        /\ \A i \in 1..((n - m) + 1) :
              Append(a, e.record_hash)[i] = IF i = (n - m) + 1 THEN e.record_hash ELSE a[i]
    <3> HIDE DEF a, m, n
    <3> QED BY <2>2, <2>3, AppendProperties
  <2> HIDE DEF a, b, m, n
  <2>9. (n + 1) - m = (n - m) + 1
    BY <2>2
  <2>10. \A i \in 1..((n - m) + 1) : b[i] = Append(a, e.record_hash)[i]
    <3> SUFFICES ASSUME NEW i \in 1..((n - m) + 1) PROVE b[i] = Append(a, e.record_hash)[i]
      OBVIOUS
    <3>1. CASE i = (n - m) + 1
      <4>1. m + i = n + 1
        BY <2>2, <3>1
      <4> QED BY <2>5, <2>6, <2>8, <2>9, <3>1, <4>1
    <3>2. CASE i # (n - m) + 1
      <4>1. i \in 1..(n - m) /\ m + i \in 1..n
        BY <2>2, <3>2
      <4> QED BY <2>2, <2>5, <2>7, <2>8, <2>9, <3>2, <4>1
    <3> QED BY <3>1, <3>2
  <2>11. b = Append(a, e.record_hash)
    BY <2>5, <2>8, <2>9, <2>10, SeqEqual
  <2> QED BY <1>2, <2>11 DEF a, b
<1> QED BY <1>1, <1>2

LEMMA DecisionFacts ==
  ASSUME NEW t \in Tables, NEW a \in Approvals
  PROVE  /\ DecisionOf(t, a) \in Decisions \cup {Undecided}
         /\ Undecided \notin Decisions
         /\ DecisionOf(t, a) = Undecided <=> ~\E d \in t.decisions : d.approval_id = a
<1>1. Undecided \notin Decisions
  BY DEF Undecided, Decisions
<1>2. CASE \E d \in t.decisions : d.approval_id = a
  <2> DEFINE d == CHOOSE d \in t.decisions : d.approval_id = a
  <2>1. d \in t.decisions
    BY <1>2
  <2>2. d \in DecisionRow
    BY <2>1 DEF Tables
  <2>3. d.decision \in Decisions
    BY <2>2 DEF DecisionRow
  <2>4. DecisionOf(t, a) = d.decision
    BY <1>2 DEF DecisionOf
  <2> HIDE DEF d
  <2> QED BY <1>1, <1>2, <2>3, <2>4
<1>3. CASE ~\E d \in t.decisions : d.approval_id = a
  BY <1>1, <1>3 DEF DecisionOf
<1> QED BY <1>1, <1>2, <1>3

\* The decision of a row is the decision of its approval.
LEMMA DecisionOfRow ==
  ASSUME NEW t \in Tables, Sound(t), NEW d \in t.decisions
  PROVE  DecisionOf(t, d.approval_id) = d.decision
<1> DEFINE e == CHOOSE e \in t.decisions : e.approval_id = d.approval_id
<1>1. e \in t.decisions /\ e.approval_id = d.approval_id
  OBVIOUS
<1>2. e = d
  <2> HIDE DEF e
  <2> QED BY <1>1 DEF Sound, DecidedOnce
<1>3. DecisionOf(t, d.approval_id) = e.decision
  BY DEF DecisionOf
<1> QED BY <1>2, <1>3

\* A decision that all see is the one a connection sees in its own tables.
LEMMA DecisionKept ==
  ASSUME NEW s \in Tables, NEW t \in Tables, Sound(s), Sound(t), Included(s, t),
         NEW a \in Approvals, DecisionOf(s, a) # Undecided
  PROVE  DecisionOf(t, a) = DecisionOf(s, a)
<1>1. PICK d \in s.decisions : d.approval_id = a
  BY DecisionFacts
<1>2. d \in t.decisions
  BY DEF Included
<1> QED BY <1>1, <1>2, DecisionOfRow

\* What a connection has staged: what its tables t add to the committed s.
Staged(s, t) ==
    [log |-> [r \in Runs |-> Added(s, t, r)],
     decided |-> [a \in Approvals |->
        IF DecisionOf(s, a) = Undecided THEN DecisionOf(t, a) ELSE Undecided]]

\* The tables a connection works on, or would if it began now.
Current(c) == IF lock = c THEN work[c] ELSE db

LogBar     == [r \in Runs |-> Timeline(db, r)]
DecidedBar == [a \in Approvals |-> DecisionOf(db, a)]
StagedBar  == [c \in Conns |-> StagedBy(c)]

LEMMA StagedSame ==
  ASSUME NEW s \in Tables, NEW t \in Tables, Sound(s), Sound(t), Included(s, t),
         NEW u \in Tables, Sound(u), Included(s, u),
         u.events = t.events, u.decisions = t.decisions
  PROVE  Staged(s, u) = Staged(s, t)
<1>1. \A r \in Runs : Added(s, u, r) = Added(s, t, r)
  <2> SUFFICES ASSUME NEW r \in Runs PROVE Added(s, u, r) = Added(s, t, r)
    OBVIOUS
  <2>1. RowsOf(u, r) = RowsOf(t, r)
    BY DEF RowsOf
  <2>2. Timeline(u, r) = Timeline(t, r)
    BY <2>1, SameRows
  <2> QED BY <2>2 DEF Added
<1>2. \A a \in Approvals : DecisionOf(u, a) = DecisionOf(t, a)
  BY Zenon DEF DecisionOf
<1> QED BY <1>1, <1>2 DEF Staged

LEMMA StagedNothing ==
  ASSUME NEW s \in Tables, Sound(s)
  PROVE  Staged(s, s) = L!Nothing
<1>1. Included(s, s)
  BY DEF Included
<1>2. \A r \in Runs : Added(s, s, r) = <<>>
  BY <1>1, NothingAdded
<1>3. [r \in Runs |-> Added(s, s, r)] = [r \in Runs |-> <<>>]
  BY <1>2
<1>4. [a \in Approvals |-> IF DecisionOf(s, a) = Undecided THEN DecisionOf(s, a) ELSE Undecided]
        = [a \in Approvals |-> Undecided]
  OBVIOUS
<1> QED BY <1>3, <1>4 DEF Staged, L!Nothing

\* The state of the ledger that a state of the store stands for, for any
\* connection that has the lock or could take it.
Mapped(c) ==
    lock \in {NoConn, c} =>
        /\ db \in Tables /\ Sound(db)
        /\ Current(c) \in Tables /\ Sound(Current(c)) /\ Included(db, Current(c))
        /\ StagedBar = [k \in Conns |-> IF k = c THEN Staged(db, Current(c)) ELSE L!Nothing]

AllMapped == \A c \in Conns : Mapped(c)

LEMMA MappedState == IInv => AllMapped
<1> SUFFICES ASSUME IInv, NEW c \in Conns, lock \in {NoConn, c} PROVE Mapped(c)
  BY DEF AllMapped, Mapped
<1>1. db \in Tables /\ Sound(db) /\ work[c] \in Tables /\ Sound(work[c])
  BY DEF IInv, TypeOK, AllSound
<1>2. Current(c) \in Tables /\ Sound(Current(c)) /\ Included(db, Current(c))
  BY <1>1 DEF Current, IInv, WriterExtends, Included
<1>3. StagedBy(c) = Staged(db, Current(c))
  <2>1. CASE lock = c
    BY <2>1 DEF StagedBy, Staged, Current, Added
  <2>2. CASE lock # c
    BY <1>1, <2>2, StagedNothing DEF StagedBy, Current, L!Nothing
  <2> QED BY <2>1, <2>2
<1>4. \A k \in Conns : k # c => StagedBy(k) = L!Nothing
  BY NoConnAssumption DEF StagedBy, L!Nothing
<1> QED BY <1>1, <1>2, <1>3, <1>4 DEF StagedBar, Mapped

LEMMA MappedNext == IInv' => AllMapped'
  BY MappedState, PTL

MappedVars == <<LogBar, DecidedBar, StagedBar>>

\* A statement of c that leaves it with tables t stages what t adds.
LEMMA StageStep ==
  ASSUME IInv, IInv', NEW c \in Conns, NEW t \in Tables,
         lock \in {NoConn, c}, lock' = c, db' = db, work' = [work EXCEPT ![c] = t]
  PROVE  /\ Mapped(c)
         /\ Sound(t) /\ Included(db, t)
         /\ LogBar' = LogBar /\ DecidedBar' = DecidedBar
         /\ StagedBar' = [StagedBar EXCEPT ![c] = Staged(db, t)]
<1>1. Mapped(c) /\ Mapped(c)'
  BY MappedState, MappedNext DEF AllMapped
<1>2. Current(c)' = t
  BY DEF IInv, TypeOK, Current
<1>3. StagedBar' = [k \in Conns |-> IF k = c THEN Staged(db, t) ELSE L!Nothing]
  <2>1. Staged(db, Current(c))' = Staged(db, t)
    BY <1>2 DEF Staged, Added, Timeline, DecisionOf, RowsOf
  <2>2. (L!Nothing)' = L!Nothing
    BY DEF L!Nothing
  <2> QED BY <1>1, <2>1, <2>2 DEF Mapped
<1>4. Sound(t) /\ Included(db, t)
  BY <1>1, <1>2 DEF Mapped, Sound, Included, Chained, HasLast, Gapless, DecidedOnce, RowsOf
<1>5. LogBar' = LogBar /\ DecidedBar' = DecidedBar
  BY DEF LogBar, DecidedBar, Timeline, DecisionOf, RowsOf
<1> QED BY <1>1, <1>3, <1>4, <1>5 DEF Mapped

\* A statement that inserts no event and no decision is none of the ledger's.
LEMMA QuietStep ==
  ASSUME IInv, IInv', NEW c \in Conns, NEW t \in Tables,
         Begin(c, t), db' = db, t.events = Base(c).events, t.decisions = Base(c).decisions
  PROVE  UNCHANGED MappedVars
<1>1. /\ lock \in {NoConn, c} /\ lock' = c /\ work' = [work EXCEPT ![c] = t]
  BY BeginFacts
<1>2. Current(c) = Base(c)
  BY NoConnAssumption DEF Begin, BeginImmediate, UseTransaction, Current, Base
<1>3. Staged(db, t) = Staged(db, Current(c))
  BY <1>1, <1>2, StageStep, StagedSame DEF Mapped
<1>4. StagedBar = [k \in Conns |-> IF k = c THEN Staged(db, Current(c)) ELSE L!Nothing]
  BY <1>1, StageStep DEF Mapped
<1>5. StagedBar' = [StagedBar EXCEPT ![c] = Staged(db, Current(c))]
  BY <1>1, <1>3, StageStep
<1>6. StagedBar' = StagedBar
  BY <1>4, <1>5
<1> QED BY <1>1, <1>6, StageStep DEF MappedVars

\* The end of a transaction, or of a standalone call, that nobody saw.
LEMMA DiscardStep ==
  ASSUME IInv, IInv', NEW c \in Conns, lock = c, Release(c), db' = db
  PROVE  L!Discard(c)
<1>1. Mapped(c) /\ Mapped(c)' /\ lock' = NoConn
  BY MappedState, MappedNext DEF AllMapped, Release
<1>2. Current(c)' = db
  BY <1>1, NoConnAssumption DEF Current
<1>3. Staged(db, Current(c))' = L!Nothing
  <2>1. Staged(db, Current(c))' = Staged(db, db)
    BY <1>2 DEF Staged, Added, Timeline, DecisionOf, RowsOf
  <2> QED BY <1>1, <2>1, StagedNothing DEF Mapped
<1>4. (L!Nothing)' = L!Nothing
  BY DEF L!Nothing
<1>5. StagedBar' = [StagedBar EXCEPT ![c] = L!Nothing]
  BY <1>1, <1>3, <1>4 DEF Mapped
<1>6. LogBar' = LogBar /\ DecidedBar' = DecidedBar
  BY DEF LogBar, DecidedBar, Timeline, DecisionOf, RowsOf
<1> QED BY <1>5, <1>6 DEF L!Discard, LogBar, DecidedBar, StagedBar

\* A commit publishes what the connection had staged, and nothing else.
LEMMA PublishStep ==
  ASSUME IInv, IInv', NEW c \in Conns, lock = c, Release(c), db' = work[c]
  PROVE  L!Publish(c)
<1>1. Mapped(c) /\ Mapped(c)' /\ lock' = NoConn /\ Current(c) = work[c]
  BY MappedState, MappedNext DEF AllMapped, Release, Current
<1>2. StagedBar[c] = Staged(db, work[c])
  BY <1>1 DEF Mapped
<1>3. /\ db \in Tables /\ Sound(db) /\ work[c] \in Tables /\ Sound(work[c])
      /\ Included(db, work[c])
  BY <1>1 DEF Mapped
<1>4. StagedBar' = [StagedBar EXCEPT ![c] = L!Nothing]
  <2>1. Current(c)' = work[c]
    BY <1>1, NoConnAssumption DEF Current
  <2>2. Staged(db, Current(c))' = Staged(work[c], work[c])
    BY <2>1 DEF Staged, Added, Timeline, DecisionOf, RowsOf
  <2>3. Staged(db, Current(c))' = L!Nothing
    BY <1>3, <2>2, StagedNothing
  <2>4. (L!Nothing)' = L!Nothing
    BY DEF L!Nothing
  <2> QED BY <1>1, <2>3, <2>4 DEF Mapped
<1>5. LogBar' = [r \in Runs |-> LogBar[r] \o StagedBar[c].log[r]]
  <2>1. \A r \in Runs : Timeline(db, r) \o Added(db, work[c], r) = Timeline(work[c], r)
    BY <1>3, PublishAdded
  <2>2. LogBar' = [r \in Runs |-> Timeline(work[c], r)]
    BY DEF LogBar, Timeline, RowsOf
  <2>3. \A r \in Runs : /\ LogBar[r] = Timeline(db, r)
                        /\ StagedBar[c].log[r] = Added(db, work[c], r)
    BY <1>2 DEF LogBar, Staged
  <2> QED BY <2>1, <2>2, <2>3
<1>6. \A a \in Approvals : StagedBar[c].decided[a] =
         IF DecisionOf(db, a) = Undecided THEN DecisionOf(work[c], a) ELSE Undecided
  BY <1>2 DEF Staged
<1>7. \A a \in Approvals : StagedBar[c].decided[a] # Undecided => DecidedBar[a] = Undecided
  BY <1>6 DEF DecidedBar
<1>8. DecidedBar' = [a \in Approvals |->
        IF StagedBar[c].decided[a] = Undecided THEN DecidedBar[a] ELSE StagedBar[c].decided[a]]
  <2>1. DecidedBar' = [a \in Approvals |-> DecisionOf(work[c], a)]
    BY DEF DecidedBar, DecisionOf
  <2>2. ASSUME NEW a \in Approvals
        PROVE  DecisionOf(work[c], a) = IF StagedBar[c].decided[a] = Undecided
                                        THEN DecidedBar[a] ELSE StagedBar[c].decided[a]
    <3>1. DecidedBar[a] = DecisionOf(db, a)
      BY DEF DecidedBar
    <3>2. DecisionOf(db, a) # Undecided => DecisionOf(work[c], a) = DecisionOf(db, a)
      BY <1>3, DecisionKept
    <3> QED BY <1>6, <3>1, <3>2
  <2> QED BY <2>1, <2>2
<1> QED BY <1>4, <1>5, <1>7, <1>8 DEF L!Publish, LogBar, DecidedBar, StagedBar

\* append_event's INSERT stages one entry.
LEMMA EntryStep ==
  ASSUME IInv, IInv', NEW c \in Conns, AppendInsert(c)
  PROVE  L!StageEntry(c)
<1> DEFINE e == [run |-> op[c].run, sequence |-> op[c].sequence,
                 previous_hash |-> op[c].previous_hash, record_hash |-> fresh,
                 batch |-> batch[c]]
           t == [work[c] EXCEPT !.events = @ \cup {e}]
<1>1. op[c] # NoOp /\ op[c] \in AppendOp
  BY DEF AppendInsert, IInv, TypeOK, NoOp, CommitOp, ResolveOp
<1>2. lock = c /\ work[c] \in Tables /\ Sound(work[c]) /\ Included(db, work[c])
  BY <1>1, BaseFacts
<1>3. /\ e \in EventRow /\ e.run \in Runs /\ e.record_hash = fresh /\ fresh \in 1..MaxFresh
      /\ e.sequence = NextSequence(work[c], e.run)
  BY <1>1, BoundsAssumption
     DEF EventRow, AppendOp, AppendInsert, IInv, TypeOK, InsertFollowsTail, Ids
<1>4. t \in Tables /\ t.events = work[c].events \cup {e} /\ t.decisions = work[c].decisions
  BY <1>2, <1>3 DEF Tables
<1>5. db' = db /\ lock' = c /\ work' = [work EXCEPT ![c] = t]
  BY <1>2 DEF AppendInsert
<1> HIDE DEF e, t
<1>6. /\ Mapped(c) /\ Sound(t) /\ Included(db, t)
      /\ LogBar' = LogBar /\ DecidedBar' = DecidedBar
      /\ StagedBar' = [StagedBar EXCEPT ![c] = Staged(db, t)]
  BY <1>2, <1>4, <1>5, StageStep
<1>7. /\ StagedBar = [k \in Conns |-> IF k = c THEN Staged(db, work[c]) ELSE L!Nothing]
      /\ db \in Tables /\ Sound(db)
  BY <1>2, <1>6 DEF Mapped, Current
<1>8. \A r \in Runs : Added(db, t, r) = IF r = e.run THEN Append(Added(db, work[c], r), fresh)
                                                    ELSE Added(db, work[c], r)
  BY <1>2, <1>3, <1>4, <1>6, <1>7, InsertAdds
<1>9. \A a \in Approvals : DecisionOf(t, a) = DecisionOf(work[c], a)
  BY <1>4, Zenon DEF DecisionOf
<1>10. Staged(db, t) = [Staged(db, work[c]) EXCEPT !.log[e.run] = Append(@, fresh)]
  <2> DEFINE log(x) == [r \in Runs |-> Added(db, x, r)]
             decided(x) == [a \in Approvals |->
                IF DecisionOf(db, a) = Undecided THEN DecisionOf(x, a) ELSE Undecided]
  <2>1. log(t) = [log(work[c]) EXCEPT ![e.run] = Append(@, fresh)]
    BY <1>3, <1>8
  <2>2. decided(t) = decided(work[c])
    BY <1>9
  <2>3. \A x : Staged(db, x) = [log |-> log(x), decided |-> decided(x)]
    BY DEF Staged
  <2> HIDE DEF log, decided
  <2> QED BY <2>1, <2>2, <2>3
<1>11. StagedBar' = [StagedBar EXCEPT ![c].log[e.run] = Append(@, fresh)]
  BY <1>6, <1>7, <1>10
<1> QED BY <1>3, <1>6, <1>11 DEF L!StageEntry, LogBar, DecidedBar, StagedBar

\* resolve_approval's INSERT stages one decision, of an approval that nobody
\* has seen decided.
LEMMA DecisionStep ==
  ASSUME IInv, IInv', NEW c \in Conns, ResolveInsert(c)
  PROVE  L!StageDecision(c)
<1> DEFINE d == [approval_id |-> op[c].approval_id, decision |-> op[c].decision,
                 scope |-> op[c].scope, batch |-> batch[c]]
           t == [work[c] EXCEPT !.decisions = @ \cup {d}]
<1>1. op[c] # NoOp /\ op[c] \in ResolveOp
  BY DEF ResolveInsert, IInv, TypeOK, NoOp, CommitOp, AppendOp
<1>2. lock = c /\ work[c] \in Tables /\ Sound(work[c]) /\ Included(db, work[c])
  BY <1>1, BaseFacts
<1>3. /\ d \in DecisionRow /\ d.approval_id \in Approvals /\ d.decision \in Decisions
      /\ \A x \in work[c].decisions : x.approval_id # d.approval_id
  BY <1>1 DEF DecisionRow, ResolveOp, ResolveInsert, Resolvable, IInv, TypeOK
<1>4. /\ t \in Tables /\ t.events = work[c].events
      /\ t.decisions = work[c].decisions \cup {d}
  BY <1>2, <1>3 DEF Tables
<1>5. db' = db /\ lock' = c /\ work' = [work EXCEPT ![c] = t]
  BY <1>2 DEF ResolveInsert
<1> HIDE DEF d, t
<1>6. /\ Mapped(c) /\ Sound(t) /\ Included(db, t)
      /\ LogBar' = LogBar /\ DecidedBar' = DecidedBar
      /\ StagedBar' = [StagedBar EXCEPT ![c] = Staged(db, t)]
  BY <1>2, <1>4, <1>5, StageStep
<1>7. /\ StagedBar = [k \in Conns |-> IF k = c THEN Staged(db, work[c]) ELSE L!Nothing]
      /\ db \in Tables /\ Sound(db)
  BY <1>2, <1>6 DEF Mapped, Current
<1>8. \A r \in Runs : Added(db, t, r) = Added(db, work[c], r)
  <2> SUFFICES ASSUME NEW r \in Runs PROVE Added(db, t, r) = Added(db, work[c], r)
    OBVIOUS
  <2>1. RowsOf(t, r) = RowsOf(work[c], r)
    BY <1>4 DEF RowsOf
  <2>2. Timeline(t, r) = Timeline(work[c], r)
    BY <2>1, SameRows
  <2> QED BY <2>2 DEF Added
<1>9. DecisionOf(work[c], d.approval_id) = Undecided
  BY <1>2, <1>3, DecisionFacts
<1>10. DecisionOf(db, d.approval_id) = Undecided
  <2>1. \A x \in db.decisions : x.approval_id # d.approval_id
    BY <1>2, <1>3 DEF Included
  <2> QED BY <1>3, <1>7, <2>1, DecisionFacts
<1>11. DecisionOf(t, d.approval_id) = d.decision
  BY <1>4, <1>6, DecisionOfRow
<1>12. \A a \in Approvals : a # d.approval_id => DecisionOf(t, a) = DecisionOf(work[c], a)
  <2> SUFFICES ASSUME NEW a \in Approvals, a # d.approval_id
               PROVE  DecisionOf(t, a) = DecisionOf(work[c], a)
    OBVIOUS
  <2>1. CASE \E x \in work[c].decisions : x.approval_id = a
    <3>1. PICK x \in work[c].decisions : x.approval_id = a
      BY <2>1
    <3>2. x \in t.decisions
      BY <1>4, <3>1
    <3> QED BY <1>2, <1>6, <3>1, <3>2, <1>4, DecisionOfRow
  <2>2. CASE ~\E x \in work[c].decisions : x.approval_id = a
    <3>1. ~\E x \in t.decisions : x.approval_id = a
      BY <1>4, <2>2
    <3> QED BY <1>2, <1>4, <2>2, <3>1, DecisionFacts
  <2> QED BY <2>1, <2>2
<1>13. Staged(db, t) = [Staged(db, work[c]) EXCEPT !.decided[d.approval_id] = d.decision]
  <2> DEFINE log(x) == [r \in Runs |-> Added(db, x, r)]
             decided(x) == [a \in Approvals |->
                IF DecisionOf(db, a) = Undecided THEN DecisionOf(x, a) ELSE Undecided]
  <2>1. log(t) = log(work[c])
    BY <1>8
  <2>2. decided(t) = [decided(work[c]) EXCEPT ![d.approval_id] = d.decision]
    BY <1>3, <1>10, <1>11, <1>12
  <2>3. \A x : Staged(db, x) = [log |-> log(x), decided |-> decided(x)]
    BY DEF Staged
  <2> HIDE DEF log, decided
  <2> QED BY <2>1, <2>2, <2>3
<1>14. StagedBar' = [StagedBar EXCEPT ![c].decided[d.approval_id] = d.decision]
  BY <1>6, <1>7, <1>13
<1>15. /\ DecidedBar[d.approval_id] = Undecided
       /\ StagedBar[c].decided[d.approval_id] = Undecided
  BY <1>3, <1>7, <1>9, <1>10 DEF DecidedBar, Staged
<1> QED BY <1>3, <1>6, <1>14, <1>15 DEF L!StageDecision, LogBar, DecidedBar, StagedBar

LEMMA InitMapped == Init => L!LedgerInit
<1> SUFFICES ASSUME Init PROVE L!LedgerInit
  OBVIOUS
<1>1. db = EmptyTables /\ db \in Tables /\ Sound(db) /\ IInv
  BY InitIInv, EmptySound DEF Init, IInv, TypeOK
<1>2. \A r \in Runs : Timeline(db, r) = <<>>
  <2> SUFFICES ASSUME NEW r \in Runs PROVE Timeline(db, r) = <<>>
    OBVIOUS
  <2>1. Height(db, r) = 0
    BY <1>1 DEF Height, NextSequence, RowsOf, EmptyTables
  <2>2. Timeline(db, r) \in Seq(Ids) /\ Len(Timeline(db, r)) = 0
    BY <1>1, <2>1, TimelineFacts
  <2> QED BY <2>2, EmptySeq
<1>3. \A a \in Approvals : DecisionOf(db, a) = Undecided
  BY <1>1 DEF DecisionOf, EmptyTables
<1>4. \A k \in Conns : StagedBy(k) = L!Nothing
  BY NoConnAssumption DEF Init, StagedBy, L!Nothing
<1> QED BY <1>2, <1>3, <1>4 DEF L!LedgerInit

LEMMA NextMapped ==
  ASSUME IInv, IInv', [Next]_vars
  PROVE  [L!LedgerNext]_(L!ledgerVars)
<1> SUFFICES UNCHANGED MappedVars \/ \E c \in Conns : \/ L!StageEntry(c) \/ L!StageDecision(c)
                                                    \/ L!Publish(c) \/ L!Discard(c)
  BY DEF L!LedgerNext, L!ledgerVars, MappedVars, LogBar, DecidedBar, StagedBar
<1>a. ASSUME UNCHANGED <<db, lock, work>>
      PROVE  UNCHANGED MappedVars
  BY <1>a DEF MappedVars, LogBar, DecidedBar, StagedBar, StagedBy, Timeline, DecisionOf, RowsOf
<1>b. ASSUME NEW c \in Conns, op[c] # NoOp \/ depth[c] # 0
      PROVE  lock = c
  BY <1>b, BaseFacts
<1>0. CASE UNCHANGED vars
  BY <1>0, <1>a DEF vars
<1>1. ASSUME NEW c \in Conns, BeginTransaction(c)
      PROVE  UNCHANGED MappedVars
  <2>1. Begin(c, db) /\ db' = db /\ db \in Tables /\ Base(c) = db
    BY <1>1 DEF BeginTransaction, Begin, Base, IInv, TypeOK
  <2> QED BY <2>1, QuietStep
<1>2. ASSUME NEW c \in Conns, EnterNested(c) \/ LeaveNested(c)
      PROVE  UNCHANGED MappedVars
  BY <1>2, <1>a DEF EnterNested, LeaveNested
<1>3. ASSUME NEW c \in Conns, CommitTransaction(c)
      PROVE  L!Publish(c)
  BY <1>3, <1>b, PublishStep DEF CommitTransaction, Commit
<1>4. ASSUME NEW c \in Conns, RollbackTransaction(c)
      PROVE  L!Discard(c)
  BY <1>4, <1>b, DiscardStep DEF RollbackTransaction, Rollback, Standalone
<1>5. ASSUME NEW c \in Conns, NEW a \in Approvals, NEW r \in Runs, NEW s \in Scopes,
             CreateApproval(c, a, r, s)
      PROVE  UNCHANGED MappedVars
  <2> DEFINE t == [Base(c) EXCEPT !.approvals =
                     @ \cup {[approval_id |-> a, run |-> r, scope |-> s]}]
  <2>1. t \in Tables /\ t.events = Base(c).events /\ t.decisions = Base(c).decisions
    BY BaseFacts DEF Tables, ApprovalRow
  <2>2. Begin(c, t) /\ db' = db
    BY <1>5 DEF CreateApproval
  <2> HIDE DEF t
  <2> QED BY <2>1, <2>2, QuietStep
<1>6. ASSUME NEW c \in Conns, NEW r \in Runs, AppendRead(c, r)
      PROVE  UNCHANGED MappedVars
  BY <1>6, BaseFacts, QuietStep DEF AppendRead
<1>7. ASSUME NEW c \in Conns, AppendInsert(c)
      PROVE  L!StageEntry(c)
  BY <1>7, EntryStep
<1>8. ASSUME NEW c \in Conns, NEW a \in Approvals, NEW d \in Decisions, NEW s \in Scopes,
             ResolveRead(c, a, d, s)
      PROVE  UNCHANGED MappedVars
  BY <1>8, BaseFacts, QuietStep DEF ResolveRead
<1>9. ASSUME NEW c \in Conns, ResolveInsert(c)
      PROVE  L!StageDecision(c)
  BY <1>9, DecisionStep
<1>10. ASSUME NEW c \in Conns, ResolveRefuse(c)
       PROVE  L!Discard(c) \/ UNCHANGED MappedVars
  <2>1. lock = c
    BY <1>10, <1>b DEF ResolveRefuse, NoOp
  <2>2. CASE Standalone(c)
    BY <1>10, <2>1, <2>2, DiscardStep DEF ResolveRefuse, Rollback
  <2>3. CASE ~Standalone(c)
    BY <1>10, <2>3, <1>a DEF ResolveRefuse
  <2> QED BY <2>2, <2>3
<1>11. ASSUME NEW c \in Conns, StandaloneCommit(c)
       PROVE  L!Publish(c)
  BY <1>11, <1>b, PublishStep DEF StandaloneCommit, Commit, NoOp
<1>12. ASSUME NEW c \in Conns, Crash(c)
       PROVE  L!Discard(c)
  BY <1>12, DiscardStep DEF Crash, Rollback
<1> QED
  BY <1>0, <1>1, <1>2, <1>3, <1>4, <1>5, <1>6, <1>7, <1>8, <1>9, <1>10, <1>11, <1>12 DEF Next

\* The store, with its lock, its copies and its rollbacks, keeps the promise of
\* the ledger: for any number of connections, runs and approvals, each client
\* stages on its own and publishes all or nothing, after what is published.
THEOREM StoreImplementsLedger == Spec => ImplementsLedger
<1>1. IInv /\ IInv' /\ [Next]_vars => [L!LedgerNext]_(L!ledgerVars)
  BY NextMapped
<1> QED
  BY <1>1, InitMapped, InductiveInvariant, PTL DEF Spec, ImplementsLedger, L!LedgerSpec

============================================================================
