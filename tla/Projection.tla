----------------------------- MODULE Projection -----------------------------
(***************************************************************************)
(* The dashboard snapshot (ProjectionService.snapshot, projection.py) of   *)
(* the image-generation records, taken while submit, decide_approval,      *)
(* resolve and execute go on.                                              *)
(*                                                                         *)
(* snapshot opens no transaction: the approvals, the runs, the timeline of *)
(* each run, the providers, the projects, the assets and the generation    *)
(* requests are read by statements of their own, each of what is committed *)
(* at that moment, and joined at the end.  So what it shows never was the  *)
(* state of the store: what can be relied on rests on the order of its     *)
(* reads against the order in which the calls write.                       *)
(***************************************************************************)
EXTENDS ImageGeneration

VARIABLES
    step,    \* position in Reads of the next read, or the end
    left,    \* the runs whose timeline is still to be read
    shown    \* what has been read

projectionVars == <<vars, step, left, shown>>

\* Mutant: the approvals are read after the runs.
Reads_ApprovalsLate ==
    <<"runs", "events", "approvals", "projects", "requests">>

\* Mutant: the generation requests are read before the timelines.
Reads_RequestsEarly ==
    <<"approvals", "runs", "requests", "events", "projects">>

Reads == <<"approvals", "runs", "events", "projects", "requests">>

NothingShown ==
    [approvals |-> [q \in Requests |-> "none"], runs |-> {},
     events |-> [q \in Requests |-> <<>>], projects |-> {},
     requests |-> [q \in Requests |-> "none"]]

Reading(table) == step \in DOMAIN Reads /\ Reads[step] = table /\ UNCHANGED vars

ReadApprovals ==
    /\ Reading("approvals")
    /\ shown' = [shown EXCEPT !.approvals =
         [q \in Requests |-> IF Stored("approvals", q) THEN decision[q] ELSE "none"]]
    /\ step' = step + 1
    /\ UNCHANGED left

ReadRuns ==
    /\ Reading("runs")
    /\ shown' = [shown EXCEPT !.runs = {q \in Requests : Stored("runs", q)}]
    /\ left' = {q \in Requests : Stored("runs", q)}
    /\ step' = step + 1

\* The timeline of one run after the other.
ReadEvents ==
    /\ Reading("events")
    /\ \/ \E q \in left :
             /\ shown' = [shown EXCEPT !.events[q] = timeline[q]]
             /\ left' = left \ {q}
             /\ UNCHANGED step
       \/ /\ left = {}
          /\ step' = step + 1
          /\ UNCHANGED <<shown, left>>

ReadProjects ==
    /\ Reading("projects")
    /\ shown' = [shown EXCEPT !.projects = {q \in Requests : Stored("projects", q)}]
    /\ step' = step + 1
    /\ UNCHANGED left

ReadRequests ==
    /\ Reading("requests")
    /\ shown' = [shown EXCEPT !.requests =
         [q \in Requests |-> IF Stored("generation_requests", q)
                             THEN request[q].attempt_status ELSE "none"]]
    /\ step' = step + 1
    /\ UNCHANGED left

\* The answer is sent; the dashboard asks again.
Answer ==
    /\ step > Len(Reads)
    /\ step' = 1 /\ left' = {} /\ shown' = NothingShown
    /\ UNCHANGED vars

Snapshot ==
    \/ ReadApprovals \/ ReadRuns \/ ReadEvents
    \/ ReadProjects \/ ReadRequests \/ Answer

ProjectionInit == Init /\ step = 1 /\ left = {} /\ shown = NothingShown

ProjectionNext ==
    \/ Snapshot
    \/ Next /\ UNCHANGED <<step, left, shown>>

ProjectionSpec == ProjectionInit /\ [][ProjectionNext]_projectionVars

\* A thread that serves a call is scheduled as long as it need not wait for the
\* provider (ProviderAnswers is left to the properties).
ProjectionFairSpec == ProjectionSpec /\ \A w \in Workers : WF_vars(ContinueLocal(w))

\* The status a run is shown with: the one of its last event.
ShownStatus(q) ==
    IF shown.events[q] = <<>> THEN "unknown"
    ELSE shown.events[q][Len(shown.events[q])].status

\* needs_ryan: the approvals that were pending, each joined with its run, its
\* project and its generation request, as far as these have been read.
NeedsRyan == {q \in Requests : shown.approvals[q] = "pending"}
QueueEntry(q) ==
    [run |-> q \in shown.runs, project |-> q \in shown.projects,
     request |-> shown.requests[q] # "none"]

----------------------------------------------------------------------------
(* Properties *)

Answered == step > Len(Reads)

ShownEvents(q, types) ==
    {i \in DOMAIN shown.events[q] : shown.events[q][i].event_type \in types}

\* An entry of the queue "needs Ryan" always names its run, which has a status,
\* and its project, although they are read after the approval and the submit
\* may still be going on.  Only its generation request may be missing.
QueueJoined ==
    Answered => \A q \in NeedsRyan :
        /\ QueueEntry(q).run /\ QueueEntry(q).project
        /\ ShownStatus(q) # "unknown"

\* In two pairs of records what is read first is never ahead of what is read
\* later: a decision that DemoOrchestrator.resolve made comes with its event,
\* and a run whose attempt has finished comes with a request that counts as
\* attempted.  The other way round it may be: an approval can be shown pending
\* beside the events of its decision, or of the execution that followed it.
LaterReadsCatchUp ==
    Answered => \A q \in Requests :
        /\ shown.approvals[q] \in Decisions /\ ShownEvents(q, DecisionEvents) = {} =>
              EventsOf(q, {"approval.resolved"}) = {}
        /\ ShownEvents(q, {"image.provider.finished"}) # {} =>
              shown.requests[q] = "attempted"
=============================================================================
