------------------------ MODULE StoreRefinesLedger ------------------------
(***************************************************************************)
(* The operational store implements the ledger: the refinement mapping.    *)
(* The log of a run is what list_events returns, in the order of the       *)
(* sequence numbers; what a connection has staged is what its uncommitted  *)
(* tables add to the committed ones.                                       *)
(***************************************************************************)
EXTENDS OperationalStore, FiniteSets, Sequences

Undecided == "pending"

\* list_events: ORDER BY sequence
Timeline(t, r) ==
    [i \in 1..Cardinality(RowsOf(t, r)) |->
        (CHOOSE e \in RowsOf(t, r) : e.sequence = i).record_hash]

\* get_approval's status
DecisionOf(t, a) ==
    IF \E d \in t.decisions : d.approval_id = a
    THEN (CHOOSE d \in t.decisions : d.approval_id = a).decision
    ELSE Undecided

StagedBy(c) ==
    IF lock # c
    THEN [log |-> [r \in Runs |-> <<>>], decided |-> [a \in Approvals |-> Undecided]]
    ELSE [log |-> [r \in Runs |->
                     LET n == Len(Timeline(db, r))
                     IN  SubSeq(Timeline(work[c], r), n + 1, Len(Timeline(work[c], r)))],
          decided |-> [a \in Approvals |->
                         IF DecisionOf(db, a) = Undecided
                         THEN DecisionOf(work[c], a) ELSE Undecided]]

L == INSTANCE Ledger WITH
        Clients <- Conns, Entries <- 1..MaxFresh, Choices <- Decisions,
        log     <- [r \in Runs |-> Timeline(db, r)],
        decided <- [a \in Approvals |-> DecisionOf(db, a)],
        staged  <- [c \in Conns |-> StagedBy(c)]

\* Every behaviour of the store is one of the ledger: entries and decisions
\* of a transaction appear together or not at all, after what was published
\* before, whatever the interleaving of connections, rollbacks and crashes.
ImplementsLedger == L!LedgerSpec

============================================================================
