-------------------------- MODULE ImageGeneration --------------------------
(***************************************************************************)
(* Approval-gated image generation: ImageGenerationWorkflow.submit and     *)
(* execute (workflows/image_generation.py), decide_approval                *)
(* (approval_actions.py) and DemoOrchestrator.resolve (demo.py), run by    *)
(* concurrent request threads over one store.                              *)
(*                                                                         *)
(* A store call is one step on the committed tables: OperationalStore      *)
(* shows that writers are serialised and that a transaction is visible     *)
(* whole.  Between two store calls anything may happen, and any of them    *)
(* may raise (a locked database) or be the last thing its process does.    *)
(*                                                                         *)
(* submit names a project, a task, a run, a request and at most one        *)
(* approval with one uuid, so a request q stands for all five.  Requests   *)
(* differ in content: the request hash of q is q.                          *)
(***************************************************************************)
EXTENDS Naturals, Sequences, FiniteSets

CONSTANTS
    Workers,     \* threads, each serving one call
    Requests,    \* the uuid suffixes submit draws
    Operations,  \* which calls are made: a subset of AllOperations
    MaxOutputs,  \* bound: images a provider returns
    MayAbort     \* whether a call may end between two of its steps

AllOperations == {"submit", "decide", "resolve", "execute"}

ASSUME OperationsAssumption == Operations \subseteq AllOperations
ASSUME MaxOutputsAssumption == MaxOutputs \in Nat
ASSUME MayAbortAssumption == MayAbort \in BOOLEAN
ASSUME RequestsAssumption == "no-request" \notin Requests

Decisions == {"approved", "rejected", "changes_requested"}
Outcomes  == {"partial", "completed", "failed", "cancelled"}
Tables    == {"projects", "tasks", "runs", "approvals", "generation_requests"}
NoRequest == "no-request"

VARIABLES
    rows,        \* the rows that exist: <<table, q>>
    timeline,    \* timeline[q]: the events of run q
    decision,    \* decision[q]: "pending" or the decision on approval q
    request,     \* request[q]: the document of request q, once it is stored
    available,   \* whether the provider reports itself available
    calls,       \* history: calls[q] provider calls made for q
    assets,      \* assets[q]: generated variants stored for q
    pc,          \* pc[w]: the next step of thread w
    arg,         \* arg[w]: what w holds in its local variables
    reply        \* reply[w]: what w answered

vars == <<rows, timeline, decision, request, available, calls, assets, pc, arg, reply>>

Event(type, status) == [event_type |-> type, status |-> status, request_hash |-> NoRequest]

Stored(table, q) == <<table, q>> \in rows

\* append_event
Append1(q, e) == timeline' = [timeline EXCEPT ![q] = Append(@, e)]

Goto(w, label) == pc' = [pc EXCEPT ![w] = label]

\* The call of w returns or raises.
Return(w, answer) ==
    /\ pc' = [pc EXCEPT ![w] = "done"]
    /\ reply' = [reply EXCEPT ![w] = answer]

----------------------------------------------------------------------------
(* submit *)

\* The uuid is new; validation has passed.
SubmitProject(w, q) ==
    /\ pc[w] = "idle" /\ "submit" \in Operations
    /\ \A t \in Tables : ~Stored(t, q)
    /\ rows' = rows \cup {<<"projects", q>>}
    /\ arg' = [arg EXCEPT ![w].request = q]
    /\ Goto(w, "submit_task")
    /\ UNCHANGED <<timeline, decision, request, available, calls, assets, reply>>

SubmitTask(w) ==
    /\ pc[w] = "submit_task"
    /\ rows' = rows \cup {<<"tasks", arg[w].request>>}
    /\ Goto(w, "submit_run")
    /\ UNCHANGED <<timeline, decision, request, available, calls, assets, arg, reply>>

SubmitRun(w) ==
    /\ pc[w] = "submit_run"
    /\ rows' = rows \cup {<<"runs", arg[w].request>>}
    /\ Goto(w, "submit_created")
    /\ UNCHANGED <<timeline, decision, request, available, calls, assets, arg, reply>>

\* Mutant: the request is saved before its approval is created.
SubmitCreated_RequestFirst(w) ==
    /\ pc[w] = "submit_created"
    /\ Append1(arg[w].request, Event("run.created", "queued"))
    /\ arg' = [arg EXCEPT ![w].choice = IF available THEN "awaiting_approval" ELSE "blocked"]
    /\ Goto(w, "submit_request")
    /\ UNCHANGED <<rows, decision, request, available, calls, assets, reply>>

\* The run.created event, and then the capability check: an available provider
\* may still not support the model, the ratio or the number of variants.
SubmitCreated(w) ==
    /\ pc[w] = "submit_created"
    /\ Append1(arg[w].request, Event("run.created", "queued"))
    /\ \E supported \in BOOLEAN :
          /\ supported => available
          /\ arg' = [arg EXCEPT ![w].choice = IF supported THEN "awaiting_approval" ELSE "blocked"]
          /\ Goto(w, IF supported THEN "submit_approval" ELSE "submit_event")
    /\ UNCHANGED <<rows, decision, request, available, calls, assets, reply>>

SubmitApproval(w) ==
    /\ pc[w] = "submit_approval"
    /\ rows' = rows \cup {<<"approvals", arg[w].request>>}
    /\ Goto(w, "submit_event")
    /\ UNCHANGED <<timeline, decision, request, available, calls, assets, arg, reply>>

SubmitEvent(w) ==
    /\ pc[w] = "submit_event"
    /\ Append1(arg[w].request,
               Event(IF arg[w].choice = "blocked" THEN "image.generation.blocked"
                                                  ELSE "approval.requested",
                     arg[w].choice))
    /\ Goto(w, "submit_request")
    /\ UNCHANGED <<rows, decision, request, available, calls, assets, arg, reply>>

SubmitRequest(w) ==
    /\ pc[w] = "submit_request"
    /\ rows' = rows \cup {<<"generation_requests", arg[w].request>>}
    /\ request' = [request EXCEPT ![arg[w].request] =
         [status |-> arg[w].choice, attempt_status |-> "not_attempted",
          approval |-> arg[w].choice = "awaiting_approval"]]
    /\ Return(w, arg[w].choice)
    /\ UNCHANGED <<timeline, decision, available, calls, assets, arg>>

----------------------------------------------------------------------------
(* decide_approval: approval a, the request id the caller sends, and the   *)
(* hash it sends, if any                                                   *)

DecideRead(w, a, q, d) ==
    /\ pc[w] = "idle" /\ "decide" \in Operations
    /\ CASE ~Stored("approvals", a) ->
              Return(w, "APPROVAL_NOT_FOUND") /\ UNCHANGED arg
         [] Stored("approvals", a) /\ decision[a] # "pending" ->
              Return(w, "APPROVAL_ALREADY_FINALIZED") /\ UNCHANGED arg
         [] OTHER ->
              /\ arg' = [arg EXCEPT ![w].request = a, ![w].linked = q, ![w].choice = d]
              /\ Goto(w, "decide_request")
              /\ UNCHANGED reply
    /\ UNCHANGED <<rows, timeline, decision, request, available, calls, assets>>

DecideRequest(w) ==
    /\ pc[w] = "decide_request"
    /\ \E submitted \in Requests \cup {NoRequest, "stale-hash"} :
          CASE ~Stored("generation_requests", arg[w].linked) ->
                 Return(w, "REQUEST_NOT_FOUND")
            [] Stored("generation_requests", arg[w].linked)
                 /\ submitted \notin {NoRequest, arg[w].linked} ->
                 Return(w, "REQUEST_HASH_MISMATCH")
            [] OTHER -> Goto(w, "decide_resolve") /\ UNCHANGED reply
    /\ UNCHANGED <<rows, timeline, decision, request, available, calls, assets, arg>>

\* Mutant: the decision is written without looking for an earlier one.
DecideResolve_NoReplayCheck(w) ==
    /\ pc[w] = "decide_resolve"
    /\ decision' = [decision EXCEPT ![arg[w].request] = arg[w].choice]
    /\ Goto(w, "decide_event")
    /\ UNCHANGED <<rows, timeline, request, available, calls, assets, arg, reply>>

\* Mutant: a decision other than approval is not put in the timeline.
DecideResolve_ApprovalEventOnly(w) ==
    /\ pc[w] = "decide_resolve"
    /\ IF decision[arg[w].request] = "pending"
       THEN /\ decision' = [decision EXCEPT ![arg[w].request] = arg[w].choice]
            /\ IF arg[w].choice = "approved"
               THEN Goto(w, "decide_event") /\ UNCHANGED reply
               ELSE Return(w, "decided")
       ELSE Return(w, "APPROVAL_REPLAY") /\ UNCHANGED decision
    /\ UNCHANGED <<rows, timeline, request, available, calls, assets, arg>>

\* store.resolve_approval, a transaction of its own.
DecideResolve(w) ==
    /\ pc[w] = "decide_resolve"
    /\ IF decision[arg[w].request] = "pending"
       THEN /\ decision' = [decision EXCEPT ![arg[w].request] = arg[w].choice]
            /\ Goto(w, "decide_event")
            /\ UNCHANGED reply
       ELSE Return(w, "APPROVAL_REPLAY") /\ UNCHANGED decision
    /\ UNCHANGED <<rows, timeline, request, available, calls, assets, arg>>

\* The run status a decision leads to.
DecidedStatus(d) == IF d = "approved" THEN "approved_local_only" ELSE d

DecideEvent(w) ==
    /\ pc[w] = "decide_event"
    /\ Append1(arg[w].request,
               [event_type |-> "approval.decided", status |-> DecidedStatus(arg[w].choice),
                request_hash |-> arg[w].linked])
    /\ Return(w, "decided")
    /\ UNCHANGED <<rows, decision, request, available, calls, assets, arg>>

----------------------------------------------------------------------------
(* DemoOrchestrator.resolve: one transaction *)

ResolvedEvents(d) ==
    <<Event("approval.resolved", DecidedStatus(d))>>
      \o IF d = "approved" THEN <<Event("run.resumed", "approved_local_only")>> ELSE <<>>

\* Mutant: no transaction around the decision and its event.
Resolve_TwoCommits(w, a, d) ==
    /\ pc[w] = "idle" /\ "resolve" \in Operations
    /\ Stored("approvals", a) /\ decision[a] = "pending"
    /\ decision' = [decision EXCEPT ![a] = d]
    /\ arg' = [arg EXCEPT ![w].request = a, ![w].choice = d]
    /\ Goto(w, "decide_event")
    /\ UNCHANGED <<rows, timeline, request, available, calls, assets, reply>>

Resolve(w, a, d) ==
    /\ pc[w] = "idle" /\ "resolve" \in Operations
    /\ IF Stored("approvals", a) /\ decision[a] = "pending"
       THEN /\ decision' = [decision EXCEPT ![a] = d]
            /\ timeline' = [timeline EXCEPT ![a] = @ \o ResolvedEvents(d)]
            /\ Return(w, "decided")
       ELSE /\ Return(w, IF Stored("approvals", a) THEN "APPROVAL_REPLAY" ELSE "APPROVAL_NOT_FOUND")
            /\ UNCHANGED <<decision, timeline>>
    /\ UNCHANGED <<rows, request, available, calls, assets, arg>>

----------------------------------------------------------------------------
(* execute *)

\* The request is read once: attempt_status is the one of now.
ExecuteRead(w, q) ==
    /\ pc[w] = "idle" /\ "execute" \in Operations
    /\ IF Stored("generation_requests", q) /\ request[q].approval
       THEN /\ arg' = [arg EXCEPT ![w].request = q, ![w].choice = request[q].attempt_status]
            /\ Goto(w, "execute_approval")
            /\ UNCHANGED reply
       ELSE Return(w, "refused") /\ UNCHANGED arg
    /\ UNCHANGED <<rows, timeline, decision, request, available, calls, assets>>

\* Mutant: any decision counts as the approval.
ExecuteApproval_AnyDecision(w) ==
    /\ pc[w] = "execute_approval"
    /\ decision[arg[w].request] # "pending"
    /\ arg[w].choice = "not_attempted"
    /\ available
    /\ Goto(w, "execute_start")
    /\ UNCHANGED <<rows, timeline, decision, request, available, calls, assets, arg, reply>>

\* Mutant: the started event is left to the end.
ExecuteApproval_NoStartedEvent(w) ==
    /\ pc[w] = "execute_approval"
    /\ decision[arg[w].request] = "approved"
    /\ arg[w].choice = "not_attempted"
    /\ available
    /\ Goto(w, "execute_generate")
    /\ UNCHANGED <<rows, timeline, decision, request, available, calls, assets, arg, reply>>

ExecuteApproval(w) ==
    /\ pc[w] = "execute_approval"
    /\ IF /\ decision[arg[w].request] = "approved"
          /\ arg[w].choice = "not_attempted"
          /\ available
       THEN Goto(w, "execute_start") /\ UNCHANGED reply
       ELSE Return(w, "refused")
    /\ UNCHANGED <<rows, timeline, decision, request, available, calls, assets, arg>>

ExecuteStart(w) ==
    /\ pc[w] = "execute_start"
    /\ Append1(arg[w].request, Event("image.provider.started", "running"))
    /\ Goto(w, "execute_generate")
    /\ UNCHANGED <<rows, decision, request, available, calls, assets, arg, reply>>

\* provider.generate: returns outputs with a status, any other status counting
\* as failed, or raises.
ExecuteGenerate(w) ==
    /\ pc[w] = "execute_generate"
    /\ calls' = [calls EXCEPT ![arg[w].request] = @ + 1]
    /\ \/ \E s \in Outcomes, n \in 0..MaxOutputs :
             /\ arg' = [arg EXCEPT ![w].choice = s, ![w].outputs = n]
             /\ Goto(w, IF n = 0 THEN "execute_update" ELSE "execute_import")
       \/ /\ arg' = [arg EXCEPT ![w].choice = "failed", ![w].outputs = 0]
          /\ Goto(w, "execute_update")
    /\ UNCHANGED <<rows, timeline, decision, request, available, assets, reply>>

\* Mutant: imports one output too many.
ExecuteImport_OneTooMany(w) ==
    /\ pc[w] = "execute_import"
    /\ assets' = [assets EXCEPT ![arg[w].request] = @ + 1]
    /\ arg' = [arg EXCEPT ![w].outputs = @ - 1]
    /\ Goto(w, IF arg[w].outputs = 0 THEN "execute_update" ELSE "execute_import")
    /\ UNCHANGED <<rows, timeline, decision, request, available, calls, reply>>

\* import_generated, for one output after the other; an exception ends the
\* imports and makes the attempt a failed one.
ExecuteImport(w) ==
    /\ pc[w] = "execute_import"
    /\ \/ /\ assets' = [assets EXCEPT ![arg[w].request] = @ + 1]
          /\ arg' = [arg EXCEPT ![w].outputs = @ - 1]
          /\ Goto(w, IF arg[w].outputs = 1 THEN "execute_update" ELSE "execute_import")
       \/ /\ arg' = [arg EXCEPT ![w].choice = "failed", ![w].outputs = 0]
          /\ Goto(w, "execute_update")
          /\ UNCHANGED assets
    /\ UNCHANGED <<rows, timeline, decision, request, available, calls, reply>>

\* Mutant: only a completed attempt gets its finished event.
ExecuteUpdate_FinishCompletedOnly(w) ==
    /\ pc[w] = "execute_update"
    /\ request' = [request EXCEPT ![arg[w].request].status = arg[w].choice,
                                  ![arg[w].request].attempt_status = "attempted"]
    /\ IF arg[w].choice = "completed"
       THEN Goto(w, "execute_finish") /\ UNCHANGED reply
       ELSE Return(w, arg[w].choice)
    /\ UNCHANGED <<rows, timeline, decision, available, calls, assets, arg>>

\* update_generation_request: of its read and its write only the write is a
\* step, since nothing else it writes back ever changes.
ExecuteUpdate(w) ==
    /\ pc[w] = "execute_update"
    /\ request' = [request EXCEPT ![arg[w].request].status = arg[w].choice,
                                  ![arg[w].request].attempt_status = "attempted"]
    /\ Goto(w, "execute_finish")
    /\ UNCHANGED <<rows, timeline, decision, available, calls, assets, arg, reply>>

ExecuteFinish(w) ==
    /\ pc[w] = "execute_finish"
    /\ Append1(arg[w].request, Event("image.provider.finished", arg[w].choice))
    /\ Return(w, arg[w].choice)
    /\ UNCHANGED <<rows, decision, request, available, calls, assets, arg>>

----------------------------------------------------------------------------
\* The provider comes and goes.
ProviderChange ==
    /\ available' = ~available
    /\ UNCHANGED <<rows, timeline, decision, request, calls, assets, pc, arg, reply>>

\* The process dies, or the next store call raises and ends the call.
Abort(w) ==
    /\ MayAbort
    /\ pc[w] \notin {"idle", "done", "dead"}
    /\ Goto(w, "dead")
    /\ UNCHANGED <<rows, timeline, decision, request, available, calls, assets, arg, reply>>

Init ==
    /\ rows = {}
    /\ timeline = [q \in Requests |-> <<>>]
    /\ decision = [q \in Requests |-> "pending"]
    /\ request = [q \in Requests |->
         [status |-> "none", attempt_status |-> "not_attempted", approval |-> FALSE]]
    /\ available \in BOOLEAN
    /\ calls = [q \in Requests |-> 0]
    /\ assets = [q \in Requests |-> 0]
    /\ pc = [w \in Workers |-> "idle"]
    /\ arg = [w \in Workers |->
         [request |-> NoRequest, linked |-> NoRequest, choice |-> "none", outputs |-> 0]]
    /\ reply = [w \in Workers |-> "none"]

\* The steps of a call that has begun: all but one wait for nothing outside the
\* process.
ContinueLocal(w) ==
    \/ SubmitTask(w) \/ SubmitRun(w) \/ SubmitCreated(w)
    \/ SubmitApproval(w) \/ SubmitEvent(w) \/ SubmitRequest(w)
    \/ DecideRequest(w) \/ DecideResolve(w) \/ DecideEvent(w)
    \/ ExecuteApproval(w) \/ ExecuteStart(w)
    \/ ExecuteImport(w) \/ ExecuteUpdate(w) \/ ExecuteFinish(w)

Continue(w) == ContinueLocal(w) \/ ExecuteGenerate(w)

Next ==
    \/ \E w \in Workers :
          \/ \E q \in Requests : SubmitProject(w, q)
          \/ \E a, q \in Requests, d \in Decisions : DecideRead(w, a, q, d)
          \/ \E a \in Requests, d \in Decisions : Resolve(w, a, d)
          \/ \E q \in Requests : ExecuteRead(w, q)
          \/ Continue(w)
          \/ Abort(w)
    \/ ProviderChange

Spec == Init /\ [][Next]_vars

\* A thread that serves a call is scheduled as long as it need not wait for the
\* provider.
FairSpec == Spec /\ \A w \in Workers : WF_vars(ContinueLocal(w))

\* provider.generate has no timeout: that it ever returns or raises is up to the
\* provider, and no part of the fairness.
ProviderAnswers == \A w \in Workers : WF_vars(ExecuteGenerate(w))

----------------------------------------------------------------------------
(* Properties *)

TypeOK ==
    /\ rows \subseteq Tables \X Requests
    /\ \A q \in Requests : \A i \in DOMAIN timeline[q] :
          timeline[q][i].request_hash \in Requests \cup {NoRequest}
    /\ decision \in [Requests -> {"pending"} \cup Decisions]
    /\ request \in [Requests -> [status: {"none", "awaiting_approval", "blocked"} \cup Outcomes,
                                 attempt_status: {"not_attempted", "attempted"},
                                 approval: BOOLEAN]]
    /\ available \in BOOLEAN
    /\ calls \in [Requests -> Nat] /\ assets \in [Requests -> Nat]
    /\ \A w \in Workers :
          /\ arg[w].request \in Requests \cup {NoRequest}
          /\ arg[w].outputs \in 0..MaxOutputs

EventsOf(q, types) == {i \in DOMAIN timeline[q] : timeline[q][i].event_type \in types}

DecisionEvents == {"approval.decided", "approval.resolved"}

\* A stored generation request has everything it refers to, whatever call died
\* on the way: its project, task, run and events, and an approval exactly when
\* it names one (the order of the writes of submit).
RequestWhole ==
    \A q \in Requests : Stored("generation_requests", q) =>
        /\ \A t \in {"projects", "tasks", "runs"} : Stored(t, q)
        /\ Stored("approvals", q) <=> request[q].approval
        /\ EventsOf(q, {"approval.requested", "image.generation.blocked"}) # {}

\* The provider is only ever called for a request whose approval was granted;
\* rejecting or asking for changes keeps it from being called for good
\* (execute checks, and calls several steps later).
CalledOnlyWhenApproved ==
    \A q \in Requests : calls[q] > 0 => decision[q] = "approved"

\* No call of the provider goes unannounced, and no outcome is recorded without
\* a call: every call has a started event of its own before it, a request counts
\* as attempted only after a call, it has an outcome exactly when attempted, and
\* a finished event comes last.  An announced attempt whose thread ended between
\* the event and the call has none: a started event alone proves no call.
AttemptEvidence ==
    \A q \in Requests :
        /\ calls[q] <= Cardinality(EventsOf(q, {"image.provider.started"}))
        /\ request[q].attempt_status = "attempted" => calls[q] > 0
        /\ request[q].attempt_status = "attempted" <=> request[q].status \in Outcomes
        /\ EventsOf(q, {"image.provider.finished"}) # {} => request[q].attempt_status = "attempted"

\* The timeline tells the decision that was made, once, however many threads
\* decide at the same time.
TimelineMatchesDecision ==
    \A q \in Requests :
        /\ \A i, j \in EventsOf(q, DecisionEvents) : i = j
        /\ \A i \in EventsOf(q, DecisionEvents) :
              timeline[q][i].status = DecidedStatus(decision[q])

\* The first decision stands.
FirstDecisionStands ==
    [][ \A q \in Requests : decision[q] # "pending" => decision'[q] = decision[q] ]_vars

\* Only a decide_approval that stopped between its two commits, or died there,
\* separates a decision from its event; DemoOrchestrator.resolve never does.
GapOnlyInsideDecide ==
    \A q \in Requests :
        decision[q] # "pending" /\ EventsOf(q, DecisionEvents) = {} =>
            \E w \in Workers : /\ pc[w] \in {"decide_event", "dead"}
                                /\ arg[w].request = q /\ arg[w].linked # NoRequest

\* Together: the timeline tells the decision that was made, and the only reason
\* for it not to is a decide_approval that has not come to its second commit.
TimelineTellsDecision == TimelineMatchesDecision /\ GapOnlyInsideDecide

\* Without crashes every decision gets its event.
DecisionRecorded ==
    \A q \in Requests : decision[q] # "pending" ~> EventsOf(q, DecisionEvents) # {}

\* Without crashes, and if the provider answers every call, every attempt that
\* starts ends with an outcome.
AttemptFinishes ==
    ProviderAnswers =>
        \A q \in Requests :
            EventsOf(q, {"image.provider.started"}) # {}
              ~> EventsOf(q, {"image.provider.finished"}) # {} /\ request[q].status \in Outcomes

\* "Replays are rejected": the provider is called at most once for a request.
AttemptedOnce == \A q \in Requests : calls[q] <= 1
=============================================================================
