------------------------------ MODULE DemoRun ------------------------------
(***************************************************************************)
(* The end-of-day demo: DemoOrchestrator.run (demo.py) and the Hermes Runs *)
(* API adapter it calls (adapters/hermes_api.py), with what the projection *)
(* says of them (projection.py).                                           *)
(*                                                                         *)
(* The whole run is one database transaction, opened before Hermes is      *)
(* probed and held while the remote run is polled.  The remote run is not  *)
(* part of the transaction: it starts, waits, ends and answers on its own, *)
(* and outlives the rollback.                                              *)
(*                                                                         *)
(* What _run does between two calls to Hermes is one step: nobody else     *)
(* sees its rows before the commit, and a failure in the middle of it      *)
(* rolls back as much as a failure at either end.  A step that calls       *)
(* Hermes is taken when the response has been read to its end, or has      *)
(* failed; it may never be, since the timeout of the transport is one of   *)
(* each socket operation.  Artifact files are in module Artifacts.         *)
(***************************************************************************)
EXTENDS Naturals, Sequences, FiniteSets

CONSTANTS
    Demos,     \* calls of run, each with a run_id, hence an idempotency key, of its own
    NoDemo,
    MayAbort   \* whether a local step may raise, or the process die

ASSUME NoDemoAssumption == NoDemo \notin Demos
ASSUME MayAbortAssumption == MayAbort \in BOOLEAN

\* "failed" stands for failed, error and cancelled, which the code treats
\* alike, and "running" for every state the code does not know.
TERMINAL_HERMES_STATES == {"completed", "failed", "stopped"}
RemoteStates == {"none", "running", "waiting_for_approval"} \cup TERMINAL_HERMES_STATES

\* The text of a remote run, by what _campaign_payload makes of it: there is
\* none; or it is the text of a "hermes-structured-run", unless it is JSON that
\* names a source of its own, be it the fallback or anything else.
Texts == {"none", "hermes-structured-run", "local-fallback", "other"}

VARIABLES
    lock,      \* the demo that holds the database's writer lock
    visible,   \* visible[d]: the committed rows of d's run
    draft,     \* draft[d]: the rows d's transaction has written
    remote,    \* remote[d]: the state of the remote run Hermes has for d's key
    output,    \* output[d]: the text which that run returns
    expired,   \* expired[d]: the deadline d is polling against has passed
    local,     \* local[d]: hermes_run_id is set; the hermes_status to record; the text
    pc

vars == <<lock, visible, draft, remote, output, expired, local, pc>>

NoRows == [execution_mode |-> "none", timeline |-> << >>, result |-> << >>]
NoLocal == [hermes_run_id |-> FALSE, hermes_status |-> "unavailable",
            hermes_output |-> "none"]

Event(type, status) == [event_type |-> type, status |-> status, remote_status |-> "none",
                        submission_completed |-> FALSE]

Goto(d, label) == pc' = [pc EXCEPT ![d] = label]

\* append_event, in d's transaction
Append1(d, e) == draft' = [draft EXCEPT ![d].timeline = Append(@, e)]

----------------------------------------------------------------------------
(* The transaction of run *)

Begin(d) ==
    /\ pc[d] = "idle"
    /\ lock = NoDemo
    /\ lock' = d
    /\ Goto(d, "probe")
    /\ UNCHANGED <<visible, draft, remote, output, expired, local>>

\* BEGIN IMMEDIATE gives up: the other demo holds the lock for minutes.
BeginRefused(d) ==
    /\ pc[d] = "idle"
    /\ lock # NoDemo
    /\ Goto(d, "raised")
    /\ UNCHANGED <<lock, visible, draft, remote, output, expired, local>>

\* run ends, and with it the transaction and the local variables.
Leave(d, label) ==
    /\ draft' = [draft EXCEPT ![d] = NoRows]
    /\ local' = [local EXCEPT ![d] = NoLocal]
    /\ expired' = [expired EXCEPT ![d] = FALSE]
    /\ lock' = NoDemo
    /\ Goto(d, label)

\* Mutant: the transaction commits on the way out of an exception, too.
RollsBack_Commits(d) == visible' = [visible EXCEPT ![d] = draft[d]]

RollsBack(d) == UNCHANGED visible

\* An exception leaves run, or the process dies: the rows are gone.
Raise(d) ==
    /\ RollsBack(d)
    /\ Leave(d, "raised")

\* Any other exception: a store or artifact call fails, or Hermes answers
\* something the code does not expect.
Abort(d) ==
    /\ MayAbort /\ lock = d
    /\ Raise(d)
    /\ UNCHANGED <<remote, output>>

Commit(d) ==
    /\ pc[d] = "commit"
    /\ visible' = [visible EXCEPT ![d] = draft[d]]
    /\ Leave(d, "done")
    /\ UNCHANGED <<remote, output>>

----------------------------------------------------------------------------
(* _run, up to the submission *)

\* hermes is None, or it does not advertise per-run toolset constraints (or
\* the probe fails, and the capabilities are taken to be empty), or it does.
\* canon.resolved stands for canon.degraded, too: nothing depends on which.
Probe(d) ==
    /\ pc[d] = "probe"
    /\ \E hermes \in {"none", "unconstrained", "constrained"} :
          /\ draft' = [draft EXCEPT ![d] =
                [execution_mode |-> IF hermes = "constrained" THEN "structured"
                                                              ELSE "manual/unstructured",
                 timeline |->
                    <<Event("run.created", "queued"),
                      Event("canon.resolved", "running"),
                      Event("agent.stage.started", "running")>>
                    \o IF hermes = "unconstrained"
                       THEN <<Event("hermes.run.unavailable", "degraded")>> ELSE << >>,
                 result |-> << >>]]
          /\ local' = [local EXCEPT ![d].hermes_status =
                IF hermes = "unconstrained" THEN "unavailable_constraints" ELSE "unavailable"]
          /\ Goto(d, IF hermes = "constrained" THEN "submit" ELSE "build")
    /\ UNCHANGED <<lock, visible, remote, output, expired>>

\* except (CapabilityMismatch, HermesOffline): go on without Hermes
WithoutHermes(d) ==
    /\ Append1(d, [Event("hermes.run.failed", "degraded") EXCEPT
                     !.submission_completed = local[d].hermes_run_id])
    /\ local' = [local EXCEPT ![d].hermes_status = "unavailable"]
    /\ Goto(d, "build")
    /\ UNCHANGED <<lock, visible>>

\* create_demo_run: the POST is answered with a run id.
Submit(d) ==
    /\ pc[d] = "submit"
    /\ remote' = [remote EXCEPT ![d] = "running"]
    /\ Append1(d, Event("hermes.run.submitted", "running"))
    /\ local' = [local EXCEPT ![d].hermes_run_id = TRUE]
    /\ expired' = [expired EXCEPT ![d] = FALSE]
    /\ Goto(d, "poll")
    /\ UNCHANGED <<lock, visible, output>>

\* create_demo_run: a capability is no longer advertised, or the adapter gets
\* no usable answer.  Hermes may have accepted the run and only the answer be
\* lost.
SubmitFails(d) ==
    /\ pc[d] = "submit"
    /\ remote' \in {remote, [remote EXCEPT ![d] = "running"]}
    /\ WithoutHermes(d)
    /\ UNCHANGED <<output, expired>>

----------------------------------------------------------------------------
(* Polling.  get_run answers "degraded" when Hermes is unreachable, and     *)
(* raises CapabilityMismatch when run_status is no longer advertised.       *)

GetRun(d) == {remote[d], "degraded"}

\* Mutant: a run that waits for an approval counts as ended.
Settled_OrWaiting(s) == s \in TERMINAL_HERMES_STATES \cup {"waiting_for_approval"}

Settled(s) == s \in TERMINAL_HERMES_STATES

\* Mutant: the first loop has no deadline.
GivesUp_Never(d, s) == s = "waiting_for_approval"

GivesUp(d, s) == s = "waiting_for_approval" \/ expired[d]

Poll(d) ==
    /\ pc[d] = "poll"
    /\ \E s \in GetRun(d) :
          /\ Goto(d, IF Settled(s) THEN "observe" ELSE IF GivesUp(d, s) THEN "stop" ELSE "poll")
          /\ local' = [local EXCEPT ![d].hermes_status = s]
    /\ UNCHANGED <<lock, visible, draft, remote, output, expired>>

PollMismatch(d) ==
    /\ pc[d] \in {"poll", "wait"}
    /\ WithoutHermes(d)
    /\ UNCHANGED <<remote, output, expired>>

StopAccepted(d) ==
    /\ Goto(d, "wait")
    /\ UNCHANGED local

\* stop_run is accepted: it asks, and the remote run may still complete.
Stop(d) ==
    /\ pc[d] = "stop"
    /\ Append1(d, [Event("hermes.run.stop_requested", "degraded") EXCEPT
                     !.remote_status = local[d].hermes_status])
    /\ expired' = [expired EXCEPT ![d] = FALSE]
    /\ StopAccepted(d)
    /\ UNCHANGED <<lock, visible, remote, output>>

\* stop_run fails in any way: hermes.run.stop_failed is appended, and
\* NonterminalHermesRun takes it back with everything else.
StopFails(d) ==
    /\ pc[d] = "stop"
    /\ Raise(d)
    /\ UNCHANGED <<remote, output>>

\* Mutant: at the second deadline the run is recorded as it is.
Wait_NoRaise(d) ==
    /\ pc[d] = "wait"
    /\ \E s \in GetRun(d) :
          /\ Goto(d, IF Settled(s) \/ expired[d] THEN "observe" ELSE "wait")
          /\ local' = [local EXCEPT ![d].hermes_status = s]
    /\ UNCHANGED <<lock, visible, draft, remote, output, expired>>

\* The second loop: 30 seconds for a terminal state, or NonterminalHermesRun.
Wait(d) ==
    /\ pc[d] = "wait"
    /\ \E s \in GetRun(d) :
          /\ Settled(s) \/ ~expired[d]
          /\ Goto(d, IF Settled(s) THEN "observe" ELSE "wait")
          /\ local' = [local EXCEPT ![d].hermes_status = s]
    /\ UNCHANGED <<lock, visible, draft, remote, output, expired>>

WaitFails(d) ==
    /\ pc[d] = "wait" /\ expired[d]
    /\ \E s \in GetRun(d) : ~Settled(s)
    /\ Raise(d)
    /\ UNCHANGED <<remote, output>>

\* Mutant: the text of a run is used whatever its state.
ExtractOutput_Any(d) == output[d]

\* _extract_output, of a completed run only
ExtractOutput(d) == IF local[d].hermes_status = "completed" THEN output[d] ELSE "none"

\* The stream of the run's events is read until Hermes closes it, or fails, and
\* the terminal state is recorded, and for a failure a failure.json.
Observe(d) ==
    LET s == local[d].hermes_status
        seen == [Event("hermes.run.observed", IF s = "completed" THEN "running" ELSE "degraded")
                   EXCEPT !.remote_status = s]
        failure == [Event("hermes.run.terminal_failure", "degraded") EXCEPT !.remote_status = s]
    IN  /\ pc[d] = "observe"
        /\ draft' = [draft EXCEPT ![d].timeline =
              @ \o IF s = "completed" THEN <<seen>> ELSE <<seen, failure>>]
        /\ local' = [local EXCEPT ![d].hermes_output = ExtractOutput(d)]
        /\ Goto(d, "build")
        /\ UNCHANGED <<lock, visible, remote, output, expired>>

----------------------------------------------------------------------------
(* The local stages, the approval request and the result *)

BuildEvents ==
    <<Event("agent.stage.completed", "running"),     \* campaign-direction
      Event("agent.handoff", "running"),
      Event("agent.stage.completed", "running"),     \* copy-options
      Event("agent.stage.completed", "running"),     \* website-build
      Event("agent.stage.completed", "running"),     \* email-design
      Event("agent.stage.completed", "degraded"),    \* image-attempt
      Event("approval.requested", "awaiting_approval")>>

ResultMode(d) == IF local[d].hermes_run_id THEN "structured" ELSE "manual/unstructured"

\* _campaign_payload: the source that the campaign direction names.
Source(d) == IF local[d].hermes_output = "none" THEN "local-fallback" ELSE local[d].hermes_output

\* The result: the source of its campaign, and what it says of Hermes.
Result(d) ==
    [execution_mode |-> ResultMode(d),
     hermes_run_id  |-> local[d].hermes_run_id,
     hermes_status  |-> local[d].hermes_status,
     source         |-> Source(d)]

Build(d) ==
    /\ pc[d] = "build"
    /\ draft' = [draft EXCEPT ![d].timeline = @ \o BuildEvents, ![d].result = <<Result(d)>>]
    /\ Goto(d, "commit")
    /\ UNCHANGED <<lock, visible, remote, output, expired, local>>

----------------------------------------------------------------------------
(* Hermes and the clock *)

\* A remote run that has started may wait for an approval, resume, and end;
\* text may come with any end.
Remote(d) ==
    /\ remote[d] \in {"running", "waiting_for_approval"}
    /\ \E s \in RemoteStates \ {"none", remote[d]}, text \in Texts :
          /\ text # "none" => s \in TERMINAL_HERMES_STATES
          /\ remote' = [remote EXCEPT ![d] = s]
          /\ output' = [output EXCEPT ![d] = text]
    /\ UNCHANGED <<lock, visible, draft, expired, local, pc>>

Deadline(d) ==
    /\ pc[d] \in {"poll", "wait"} /\ ~expired[d]
    /\ expired' = [expired EXCEPT ![d] = TRUE]
    /\ UNCHANGED <<lock, visible, draft, remote, output, local, pc>>

----------------------------------------------------------------------------
(* What the projection says of the committed runs *)

InTimeline(d, type) ==
    \E i \in DOMAIN visible[d].timeline : visible[d].timeline[i].event_type = type

HermesEvents ==
    {"hermes.run.unavailable", "hermes.run.submitted", "hermes.run.stop_requested",
     "hermes.run.observed", "hermes.run.terminal_failure", "hermes.run.failed"}

\* s is the last status that a Hermes event reports, or else the one of the result.
HermesStatus(d, s) ==
    LET timeline == visible[d].timeline
        seen == {i \in DOMAIN timeline : timeline[i].remote_status # "none"}
    IN  IF seen # {}
        THEN \E i \in seen : timeline[i].remote_status = s /\ \A j \in seen : j <= i
        ELSE visible[d].result[1].hermes_status = s

HermesVerified(d) ==
    /\ visible[d].result # << >>
    /\ visible[d].result[1].hermes_run_id
    /\ HermesStatus(d, "completed")

HermesHealth ==
    IF \E d \in Demos : HermesVerified(d) THEN "connected_verified"
    ELSE IF \E d \in Demos, type \in HermesEvents : InTimeline(d, type) THEN "degraded"
    ELSE "not_configured"

----------------------------------------------------------------------------

Init ==
    /\ lock = NoDemo
    /\ visible = [d \in Demos |-> NoRows]
    /\ draft = [d \in Demos |-> NoRows]
    /\ remote = [d \in Demos |-> "none"]
    /\ output = [d \in Demos |-> "none"]
    /\ expired = [d \in Demos |-> FALSE]
    /\ local = [d \in Demos |-> NoLocal]
    /\ pc = [d \in Demos |-> "idle"]

\* The steps of the thread that serves d which wait for nobody.
LocalStep(d) == Begin(d) \/ BeginRefused(d) \/ Build(d) \/ Commit(d)

\* The steps that end a call to Hermes, whatever it answers.
HermesStep(d) ==
    \/ Probe(d) \/ Submit(d) \/ SubmitFails(d) \/ Poll(d) \/ PollMismatch(d)
    \/ Stop(d) \/ StopFails(d) \/ Wait(d) \/ WaitFails(d) \/ Observe(d)

Step(d) == LocalStep(d) \/ HermesStep(d)

Next == \E d \in Demos : Step(d) \/ Abort(d) \/ Remote(d) \/ Deadline(d)

Spec == Init /\ [][Next]_vars

\* A thread that has its answer goes on, and time passes.  That an answer
\* comes is not assumed.
FairSpec == Spec /\ \A d \in Demos : WF_vars(LocalStep(d)) /\ WF_vars(Deadline(d))

----------------------------------------------------------------------------
(* Properties *)

Events ==
    [event_type : HermesEvents \cup
        {"run.created", "canon.resolved", "agent.stage.started",
         "agent.stage.completed", "agent.handoff", "approval.requested"},
     status : {"queued", "running", "degraded", "awaiting_approval"},
     remote_status : RemoteStates \cup {"degraded"},
     submission_completed : BOOLEAN]

HermesStatuses == RemoteStates \cup {"unavailable", "unavailable_constraints", "degraded"}

IsRows(R) ==
    /\ R.execution_mode \in {"none", "structured", "manual/unstructured"}
    /\ \A i \in DOMAIN R.timeline : R.timeline[i] \in Events
    /\ \A i \in DOMAIN R.result :
          /\ R.result[i].execution_mode \in {"structured", "manual/unstructured"}
          /\ R.result[i].hermes_status \in HermesStatuses \ {"none", "degraded"}

\* The variables have their types; a result never records that Hermes was
\* unreachable while it was polled as if that were the state of the remote run.
TypeOK ==
    /\ lock \in Demos \cup {NoDemo}
    /\ \A d \in Demos : IsRows(visible[d]) /\ IsRows(draft[d])
    /\ remote \in [Demos -> RemoteStates]
    /\ output \in [Demos -> Texts]
    /\ expired \in [Demos -> BOOLEAN]
    /\ local \in [Demos -> [hermes_run_id : BOOLEAN, hermes_status : HermesStatuses,
                            hermes_output : Texts]]
    /\ pc \in [Demos -> {"idle", "probe", "submit", "poll", "stop", "wait", "observe",
                         "build", "commit", "done", "raised"}]

\* Whatever Hermes and the failing steps do, a demo run is seen with its
\* approval request and its result, or not at all.
RunWhole ==
    \A d \in Demos : visible[d] # NoRows =>
        /\ InTimeline(d, "approval.requested")
        /\ Len(visible[d].result) = 1

\* A terminal state in a result is the one the remote run ended in, although
\* the run may have ended while it was being stopped.
StatusIsTheRemotes ==
    \A d \in Demos : \A i \in DOMAIN visible[d].result :
        visible[d].result[i].hermes_status \in TERMINAL_HERMES_STATES =>
            visible[d].result[i].hermes_status = remote[d]

\* A campaign that names another source than the fallback was made from the
\* text of a remote run that completed, and names what that text does.
OutputOnlyFromCompleted ==
    \A d \in Demos : \A i \in DOMAIN visible[d].result :
        visible[d].result[i].source # "local-fallback" =>
            remote[d] = "completed" /\ output[d] = visible[d].result[i].source

\* A result says "structured" exactly if its timeline says that Hermes answered
\* the submission, and then there is a remote run.
ResultModeBacked ==
    \A d \in Demos : \A i \in DOMAIN visible[d].result :
        /\ visible[d].result[i].execution_mode = "structured"
              <=> InTimeline(d, "hermes.run.submitted")
        /\ InTimeline(d, "hermes.run.submitted") => remote[d] # "none"

\* A remote run that is still going on when its demo is committed is one the
\* timeline reports as failed, never one it reports as observed.
NoLiveRunUnreported ==
    \A d \in Demos :
        visible[d] # NoRows /\ remote[d] \in {"running", "waiting_for_approval"} =>
            InTimeline(d, "hermes.run.failed") /\ ~InTimeline(d, "hermes.run.observed")

\* The dashboard calls Hermes verified only if a remote run really completed.
HealthTruthful ==
    HermesHealth = "connected_verified" => \E d \in Demos : remote[d] = "completed"

\* What a committed demo and the dashboard claim of a remote run is true of it:
\* the end it came to, the text of it that was used, that it was submitted, and
\* that one has completed.  They need not claim all there is: where only the
\* answer to the submission was lost, the result says manual/unstructured and
\* unavailable while Hermes runs the request, and JSON from Hermes may call
\* itself the fallback.
HermesClaimsTrue ==
    /\ StatusIsTheRemotes
    /\ OutputOnlyFromCompleted
    /\ ResultModeBacked
    /\ HealthTruthful

\* Every response of Hermes comes to an end, or fails.  The code does not see to
\* it: the timeout of the transport is one of each socket operation, and the
\* body, or the stream of events, is read until Hermes closes it.
ResponsesEnd == \A d \in Demos : WF_vars(HermesStep(d))

\* If every response ends, a demo that holds the database lets go of it, whatever
\* the responses say: both polling loops end at a deadline.
LockReleased == ResponsesEnd => \A d \in Demos : (lock = d) ~> (lock # d)

\* docs/OPERATING-INVARIANTS.md, 9: Hermes activity is structured only when
\* launched through the Runs API.  Of the run row, it does not hold: the row is
\* written before the run is submitted.
RowModeTruthful ==
    \A d \in Demos :
        visible[d].execution_mode = "structured" => InTimeline(d, "hermes.run.submitted")

\* docs/OPERATING-INVARIANTS.md, 10: degraded integrations are reported.  It
\* does not hold of a run that could not be stopped: the evidence is rolled back.
DegradedReported ==
    (\E d \in Demos : remote[d] # "none" /\ pc[d] \in {"done", "raised"}) =>
        HermesHealth # "not_configured"
============================================================================
