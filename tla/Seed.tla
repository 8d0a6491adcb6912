------------------------------- MODULE Seed -------------------------------
(***************************************************************************)
(* The startup seed of "clay-ops serve" (seed.py, cli.py): every start     *)
(* walks over a fixed plan of records, each with a fixed primary key, and  *)
(* inserts the ones that are missing, one store call after the other and   *)
(* without a transaction.  The projects and the context are each looked up *)
(* before they are inserted; the six draft records are inserted together   *)
(* when the last of them, the generation request, is missing.              *)
(*                                                                         *)
(* A server process can be killed between any two store calls and started  *)
(* again, and a second one may be started while the first still seeds: the *)
(* seed runs before the port is bound.                                     *)
(***************************************************************************)
EXTENDS Naturals, Sequences

CONSTANTS
    Servers,      \* server processes
    ProjectIds,   \* the projects of CLAY_PROJECTS, in order
    MaxCrashes    \* bound: kills in a behaviour

ASSUME ProjectsAssumption == ProjectIds \in Seq(STRING) /\ Len(ProjectIds) > 0
ASSUME MaxCrashesAssumption == MaxCrashes \in Nat

\* Mutant: the generation request is saved first.
Draft_RequestFirst == <<"request", "task", "run", "run.created", "approval", "approval.requested">>

Draft == <<"task", "run", "run.created", "approval", "approval.requested", "request">>
Plan  == ProjectIds \o <<"context">> \o Draft

FirstDraft   == Len(ProjectIds) + 2
DraftEvents  == <<"run.created", "approval.requested">>
IsEvent(rec) == \E i \in DOMAIN DraftEvents : DraftEvents[i] = rec

\* The records of the plan are rows of different tables, or have different keys.
ASSUME PlanAssumption == \A i, j \in DOMAIN Plan : Plan[i] = Plan[j] => i = j

VARIABLES
    stored,    \* the records of the plan that are in the database
    events,    \* the timeline of the draft's run
    pc,        \* pc[s]: down, check, create, ready (serving) or failed
    at,        \* at[s]: the position in the plan
    crashes,   \* kills so far
    torn,      \* history: a server died or failed between two draft records
    overlap    \* history: two servers were seeding at the same time

vars == <<stored, events, pc, at, crashes, torn, overlap>>

Seeding(s) == pc[s] \in {"check", "create"}

\* Mutant: every record is inserted without looking it up.
GoTo_NoLookup(s, i) ==
    /\ at' = [at EXCEPT ![s] = i]
    /\ pc' = [pc EXCEPT ![s] = IF i > Len(Plan) THEN "ready" ELSE "create"]

\* Go to a step of the plan; draft records after the first are not looked up.
GoTo(s, i) ==
    /\ at' = [at EXCEPT ![s] = i]
    /\ pc' = [pc EXCEPT ![s] = CASE i > Len(Plan)  -> "ready"
                                 [] i > FirstDraft /\ i <= Len(Plan) -> "create"
                                 [] OTHER -> "check"]

\* "clay-ops serve"
Start(s) ==
    /\ pc[s] \in {"down", "failed"}
    /\ GoTo(s, 1)
    /\ overlap' = (overlap \/ \E t \in Servers : Seeding(t))
    /\ UNCHANGED <<stored, events, crashes, torn>>

\* What the lookup asks for: the record itself, or the end of the draft.
Lookup(i) == IF i = FirstDraft THEN "request" ELSE Plan[i]

CheckFound(s) ==
    /\ pc[s] = "check"
    /\ Lookup(at[s]) \in stored
    /\ GoTo(s, IF at[s] = FirstDraft THEN Len(Plan) + 1 ELSE at[s] + 1)
    /\ UNCHANGED <<stored, events, crashes, torn, overlap>>

CheckMissing(s) ==
    /\ pc[s] = "check"
    /\ Lookup(at[s]) \notin stored
    /\ pc' = [pc EXCEPT ![s] = "create"]
    /\ UNCHANGED <<stored, events, at, crashes, torn, overlap>>

\* Mutant: INSERT OR REPLACE.
CanInsert_OrReplace(rec) == TRUE

\* An event is appended under a new identifier; any other record has a fixed
\* primary key that must be free.
CanInsert(rec) == IsEvent(rec) \/ rec \notin stored

\* Mutant: every insert leaves an event.
Create_LogsAll(s) ==
    /\ pc[s] = "create"
    /\ CanInsert(Plan[at[s]])
    /\ stored' = stored \cup {Plan[at[s]]}
    /\ events' = Append(events, Plan[at[s]])
    /\ GoTo(s, at[s] + 1)
    /\ UNCHANGED <<crashes, torn, overlap>>

Create(s) ==
    /\ pc[s] = "create"
    /\ CanInsert(Plan[at[s]])
    /\ stored' = stored \cup {Plan[at[s]]}
    /\ events' = IF IsEvent(Plan[at[s]]) THEN Append(events, Plan[at[s]]) ELSE events
    /\ GoTo(s, at[s] + 1)
    /\ UNCHANGED <<crashes, torn, overlap>>

\* sqlite3.IntegrityError: main() does not catch it, the command ends.
CreateFails(s) ==
    /\ pc[s] = "create"
    /\ ~CanInsert(Plan[at[s]])
    /\ pc' = [pc EXCEPT ![s] = "failed"]
    /\ torn' = (torn \/ at[s] > FirstDraft)
    /\ UNCHANGED <<stored, events, at, crashes, overlap>>

\* Killed, or stopped by an error of the database, at any moment.
Crash(s) ==
    /\ pc[s] \notin {"down", "failed"}
    /\ crashes < MaxCrashes
    /\ pc' = [pc EXCEPT ![s] = "down"]
    /\ crashes' = crashes + 1
    /\ torn' = (torn \/ (Seeding(s) /\ at[s] > FirstDraft))
    /\ UNCHANGED <<stored, events, at, overlap>>

\* Ctrl-C while serving.
Stop(s) ==
    /\ pc[s] = "ready"
    /\ pc' = [pc EXCEPT ![s] = "down"]
    /\ UNCHANGED <<stored, events, at, crashes, torn, overlap>>

Init ==
    /\ stored = {}
    /\ events = <<>>
    /\ pc = [s \in Servers |-> "down"]
    /\ at = [s \in Servers |-> 1]
    /\ crashes = 0
    /\ torn = FALSE
    /\ overlap = FALSE

Run(s) == Start(s) \/ CheckFound(s) \/ CheckMissing(s) \/ Create(s) \/ CreateFails(s)

Next == \E s \in Servers : Run(s) \/ Crash(s) \/ Stop(s)

Spec == Init /\ [][Next]_vars

\* The operator starts a server that is down, and a started server runs on.
FairSpec == Spec /\ \A s \in Servers : WF_vars(Run(s))

----------------------------------------------------------------------------
(* Properties *)

TypeOK ==
    /\ stored \subseteq {Plan[i] : i \in DOMAIN Plan}
    /\ \A i \in DOMAIN events : IsEvent(events[i])
    /\ pc \in [Servers -> {"down", "check", "create", "ready", "failed"}]
    /\ at \in [Servers -> 1..(Len(Plan) + 1)]
    /\ crashes \in 0..MaxCrashes
    /\ torn \in BOOLEAN /\ overlap \in BOOLEAN

\* Nothing is seeded twice: whatever is killed, restarted or run side by side,
\* the draft's timeline holds each of its two events at most once, in order.
EventsSeededOnce == events = SubSeq(DraftEvents, 1, Len(events))

\* A draft that shows in the dashboard is linked to its task, run, approval
\* and events: the generation request is the last record.
DraftWhole ==
    "request" \in stored =>
        /\ \A i \in DOMAIN Plan : Plan[i] \in stored
        /\ events = DraftEvents

\* Once everything is seeded, a start changes nothing, not even one that
\* looked the draft up before it was complete.
RerunChangesNothing ==
    [][ (\A i \in DOMAIN Plan : Plan[i] \in stored)
           => stored' = stored /\ events' = events ]_vars

\* A start fails only after another one was interrupted in the middle of the
\* draft, or while another one is seeding.
FailsOnlyIfDisturbed ==
    \A s \in Servers : pc[s] = "failed" => torn \/ overlap

\* "Safe to re-run": a server that is started again after it was killed gets
\* to serve in the end.
StartupRecovers == \A s \in Servers : pc[s] = "down" ~> pc[s] = "ready"

============================================================================
