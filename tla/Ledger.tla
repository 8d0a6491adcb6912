------------------------------ MODULE Ledger ------------------------------
(***************************************************************************)
(* What the operational store promises to its readers: an append-only log  *)
(* of events per run and a decision per approval that is made once.  A     *)
(* client stages entries that only it sees and then publishes all of them  *)
(* at once, or discards them.  There is no lock here: that the clients do  *)
(* not disturb each other is what the store has to achieve.                *)
(***************************************************************************)
EXTENDS Sequences

CONSTANTS Clients, Runs, Entries, Approvals, Choices, Undecided

VARIABLES
    log,      \* log[r]: the published entries of run r
    decided,  \* decided[a]: the published decision of approval a
    staged    \* staged[c]: what client c has written and not published

ledgerVars == <<log, decided, staged>>

Nothing ==
    [log |-> [r \in Runs |-> <<>>], decided |-> [a \in Approvals |-> Undecided]]

LedgerInit ==
    /\ log = [r \in Runs |-> <<>>]
    /\ decided = [a \in Approvals |-> Undecided]
    /\ staged = [c \in Clients |-> Nothing]

StageEntry(c) ==
    /\ \E r \in Runs, e \in Entries :
          staged' = [staged EXCEPT ![c].log[r] = Append(@, e)]
    /\ UNCHANGED <<log, decided>>

StageDecision(c) ==
    /\ \E a \in Approvals, d \in Choices :
          /\ decided[a] = Undecided
          /\ staged[c].decided[a] = Undecided
          /\ staged' = [staged EXCEPT ![c].decided[a] = d]
    /\ UNCHANGED <<log, decided>>

Publish(c) ==
    /\ \A a \in Approvals :
          staged[c].decided[a] # Undecided => decided[a] = Undecided
    /\ log' = [r \in Runs |-> log[r] \o staged[c].log[r]]
    /\ decided' = [a \in Approvals |->
         IF staged[c].decided[a] = Undecided THEN decided[a] ELSE staged[c].decided[a]]
    /\ staged' = [staged EXCEPT ![c] = Nothing]

Discard(c) ==
    /\ staged' = [staged EXCEPT ![c] = Nothing]
    /\ UNCHANGED <<log, decided>>

LedgerNext ==
    \E c \in Clients :
        StageEntry(c) \/ StageDecision(c) \/ Publish(c) \/ Discard(c)

LedgerSpec == LedgerInit /\ [][LedgerNext]_ledgerVars

============================================================================
