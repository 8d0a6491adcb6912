-------------------------- MODULE Projection_proofs --------------------------
(***************************************************************************)
(* For any number of threads, requests and answers, and any aborts: an     *)
(* entry of the dashboard's queue names its run, with a status, and its    *)
(* project, and nothing is shown without what came before it.              *)
(***************************************************************************)
EXTENDS Projection, ImageGeneration_proofs

Shown == [approvals : [Requests -> {"none", "pending"} \cup Decisions],
          runs : SUBSET Requests,
          events : [Requests -> Seq(Entries)],
          projects : SUBSET Requests,
          requests : [Requests -> {"none", "not_attempted", "attempted"}]]

ProjectionTypes == step \in 1..6 /\ left \subseteq Requests /\ shown \in Shown

\* The approvals that have been read.
Named == {q \in Requests : shown.approvals[q] # "none"}

\* What has been read so far of one of them.
QueuedAt(q) ==
    /\ Stored("approvals", q)
    /\ step > 2 => q \in shown.runs
    /\ step = 3 /\ q \notin left => shown.events[q] # <<>>
    /\ step > 3 => shown.events[q] # <<>>
    /\ step > 4 => q \in shown.projects

QueueInv == ProjectionTypes /\ (step > 1 => \A q \in Named : QueuedAt(q))

\* A snapshot changes no record.
LEMMA ReadsOnly ==
  /\ ProjectionInit => Init
  /\ [ProjectionNext]_projectionVars => [Next]_vars
  BY DEF ProjectionInit, ProjectionNext, Snapshot, projectionVars, Reading, ReadApprovals, ReadRuns,
         ReadEvents, ReadProjects, ReadRequests, Answer

\* So whatever holds of the calls holds with a dashboard looking on.
THEOREM DashboardLooksOn == ProjectionSpec => Spec
  BY ReadsOnly, PTL DEF ProjectionSpec, Spec

LEMMA ReadAt ==
  ASSUME NEW t, Reading(t)
  PROVE  /\ t = "approvals" => step = 1
         /\ t = "runs" => step = 2
         /\ t = "events" => step = 3
         /\ t = "projects" => step = 4
         /\ t = "requests" => step = 5
         /\ UNCHANGED vars /\ UNCHANGED rows
<1>1. /\ step \in 1..5 /\ Reads[step] = t /\ UNCHANGED vars
      /\ Reads = <<"approvals", "runs", "events", "projects", "requests">>
  BY DEF Reading, Reads
<1>2. /\ Reads[1] = "approvals" /\ Reads[2] = "runs" /\ Reads[3] = "events"
      /\ Reads[4] = "projects" /\ Reads[5] = "requests"
  BY <1>1
<1>3. step \in {1, 2, 3, 4, 5}
  BY <1>1
<1> QED
  BY <1>1, <1>2, <1>3 DEF vars

\* No call takes a row away, and with what was there go what it was joined with.
LEMMA RowsStay == IInv /\ [Next]_vars => rows \subseteq rows'
<1> SUFFICES ASSUME IInv, [Next]_vars
             PROVE  rows \subseteq rows'
  OBVIOUS
<1>1. ASSUME NEW w \in Workers, Continue(w)
      PROVE  rows \subseteq rows'
  BY <1>1 DEF Continue, ContinueLocal, SubmitTask, SubmitRun, SubmitCreated, SubmitApproval, SubmitEvent,
     SubmitRequest, DecideRequest, DecideResolve, DecideEvent, ExecuteApproval, ExecuteStart,
     ExecuteGenerate, ExecuteImport, ExecuteUpdate, ExecuteFinish
<1> QED
  BY <1>1 DEF Next, vars, SubmitProject, DecideRead, Resolve, ExecuteRead, Abort, ProviderChange

LEMMA InitQueueInv == ProjectionInit => QueueInv
<1> SUFFICES ASSUME ProjectionInit
             PROVE  QueueInv
  OBVIOUS
<1>1. step = 1 /\ left = {} /\ shown = NothingShown
  BY DEF ProjectionInit
<1>2. shown \in Shown
  BY <1>1 DEF NothingShown, Shown
<1> QED
  BY <1>1, <1>2 DEF QueueInv, ProjectionTypes

\* A step of a call while a snapshot is being taken.
LEMMA CallQueueInv ==
  ASSUME IInv, QueueInv, [Next]_vars, UNCHANGED <<step, left, shown>>
  PROVE  QueueInv'
<1>1. rows \subseteq rows'
  BY RowsStay
<1> QED
  BY <1>1 DEF QueueInv, ProjectionTypes, Named, QueuedAt, Stored

LEMMA SnapshotQueueInv ==
  ASSUME IInv, WholeInv, QueueInv, Snapshot
  PROVE  QueueInv'
<1>1. CASE ReadApprovals
  <2>1. step = 1 /\ step' = 2 /\ UNCHANGED <<rows, left>>
    BY <1>1, ReadAt DEF ReadApprovals
  <2> DEFINE now == [q \in Requests |-> IF Stored("approvals", q) THEN decision[q] ELSE "none"]
  <2>2. shown' = [shown EXCEPT !.approvals = now]
    BY <1>1 DEF ReadApprovals
  <2>3. now \in [Requests -> {"none", "pending"} \cup Decisions]
    BY DEF IInv, Types
  <2>4. ProjectionTypes' /\ shown'.approvals = now
    <3> HIDE DEF now
    <3>1. shown \in Shown /\ left \subseteq Requests
      BY DEF QueueInv, ProjectionTypes
    <3>2. shown' \in Shown /\ shown'.approvals = now
      BY <2>2, <2>3, <3>1 DEF Shown
    <3> QED
      BY <2>1, <3>1, <3>2 DEF ProjectionTypes
  <2>5. \A q \in Requests : now[q] # "none" => Stored("approvals", q)
    OBVIOUS
  <2>6. \A q \in Named' : Stored("approvals", q)'
    <3> HIDE DEF now
    <3> QED
      BY <2>1, <2>4, <2>5 DEF Named, Stored
  <2> QED
    BY <2>1, <2>4, <2>6 DEF QueueInv, QueuedAt
<1>2. CASE ReadRuns
  <2>1. /\ step = 2 /\ step' = 3 /\ UNCHANGED rows
        /\ shown' = [shown EXCEPT !.runs = {q \in Requests : Stored("runs", q)}]
        /\ left' = {q \in Requests : Stored("runs", q)}
    BY <1>2, ReadAt DEF ReadRuns
  <2>2. /\ ProjectionTypes' /\ shown'.approvals = shown.approvals
        /\ shown'.runs = {q \in Requests : Stored("runs", q)}
    <3>1. shown \in Shown /\ left \subseteq Requests
      BY DEF QueueInv, ProjectionTypes
    <3>2. {q \in Requests : Stored("runs", q)} \in SUBSET Requests
      OBVIOUS
    <3>3. /\ shown' \in Shown /\ shown'.approvals = shown.approvals
          /\ shown'.runs = {q \in Requests : Stored("runs", q)}
      BY <2>1, <3>1, <3>2 DEF Shown
    <3> QED
      BY <2>1, <3>2, <3>3 DEF ProjectionTypes
  <2>3. \A q \in Named : Stored("approvals", q) /\ Stored("runs", q)
    BY <2>1 DEF QueueInv, QueuedAt, Named, WholeInv, JoinedAt
  <2>4. \A q \in Named' : Stored("approvals", q)' /\ q \in shown'.runs /\ q \in left'
    BY <2>1, <2>2, <2>3 DEF Named, Stored
  <2> QED
    BY <2>1, <2>2, <2>4 DEF QueueInv, QueuedAt
<1>3. CASE ReadEvents
  <2>1. step = 3 /\ UNCHANGED rows
    BY <1>3, ReadAt DEF ReadEvents
  <2>2. CASE left = {} /\ step' = 4 /\ UNCHANGED <<shown, left>>
    BY <2>1, <2>2 DEF QueueInv, ProjectionTypes, QueuedAt, Named, Stored
  <2>3. ASSUME NEW p \in left, left' = left \ {p}, UNCHANGED step,
               shown' = [shown EXCEPT !.events[p] = timeline[p]]
        PROVE  QueueInv'
    <3>1. p \in Requests /\ shown \in Shown /\ timeline[p] \in Seq(Entries)
      BY <2>3 DEF QueueInv, ProjectionTypes, WholeInv, Timelines
    <3>2. /\ shown' \in Shown /\ shown'.approvals = shown.approvals /\ shown'.runs = shown.runs
          /\ shown'.events[p] = timeline[p]
          /\ \A q \in Requests \ {p} : shown'.events[q] = shown.events[q]
      BY <2>3, <3>1 DEF Shown
    <3>3. p \in Named => timeline[p] # <<>>
      BY <2>1, <3>1 DEF QueueInv, QueuedAt, WholeInv, JoinedAt, Begun
    <3>4. ASSUME NEW q \in Named'
          PROVE  QueuedAt(q)'
      <4>1. q \in Requests /\ q \in Named /\ QueuedAt(q)
        BY <2>1, <3>2 DEF Named, QueueInv
      <4>2. q \notin left' => shown'.events[q] # <<>>
        BY <2>1, <2>3, <3>2, <3>3, <4>1 DEF QueuedAt
      <4> QED
        BY <2>1, <2>3, <3>2, <4>1, <4>2 DEF QueuedAt, Stored
    <3> QED
      BY <2>1, <2>3, <3>2, <3>4 DEF QueueInv, ProjectionTypes
  <2> QED
    BY <1>3, <2>1, <2>2, <2>3 DEF ReadEvents
<1>4. CASE ReadProjects
  <2>1. /\ step = 4 /\ step' = 5 /\ UNCHANGED <<rows, left>>
        /\ shown' = [shown EXCEPT !.projects = {q \in Requests : Stored("projects", q)}]
    BY <1>4, ReadAt DEF ReadProjects
  <2>2. /\ ProjectionTypes' /\ shown'.approvals = shown.approvals
        /\ shown'.runs = shown.runs /\ shown'.events = shown.events
        /\ shown'.projects = {q \in Requests : Stored("projects", q)}
    <3>1. shown \in Shown /\ left \subseteq Requests
      BY DEF QueueInv, ProjectionTypes
    <3>2. {q \in Requests : Stored("projects", q)} \in SUBSET Requests
      OBVIOUS
    <3>3. /\ shown' \in Shown /\ shown'.approvals = shown.approvals
          /\ shown'.runs = shown.runs /\ shown'.events = shown.events
          /\ shown'.projects = {q \in Requests : Stored("projects", q)}
      BY <2>1, <3>1, <3>2 DEF Shown
    <3> QED
      BY <2>1, <3>1, <3>3 DEF ProjectionTypes
  <2>3. \A q \in Named : Stored("projects", q)
    BY <2>1 DEF QueueInv, QueuedAt, Named, WholeInv, JoinedAt
  <2>4. \A q \in Named' : QueuedAt(q)'
    <3> SUFFICES ASSUME NEW q \in Named'
                 PROVE  QueuedAt(q)'
      OBVIOUS
    <3>1. q \in Requests /\ q \in Named /\ QueuedAt(q)
      BY <2>1, <2>2 DEF Named, QueueInv
    <3>2. Stored("approvals", q)' /\ q \in shown'.projects
      BY <2>1, <2>2, <2>3, <3>1 DEF QueuedAt, Stored
    <3> QED
      BY <2>1, <2>2, <3>1, <3>2 DEF QueuedAt
  <2> QED
    BY <2>2, <2>4 DEF QueueInv
<1>5. CASE ReadRequests
  <2>1. step = 5 /\ step' = 6 /\ UNCHANGED <<rows, left>>
    BY <1>5, ReadAt DEF ReadRequests
  <2> DEFINE now == [q \in Requests |-> IF Stored("generation_requests", q)
                                        THEN request[q].attempt_status ELSE "none"]
  <2>2. shown' = [shown EXCEPT !.requests = now]
    BY <1>5 DEF ReadRequests
  <2>3. now \in [Requests -> {"none", "not_attempted", "attempted"}]
    BY DEF IInv, Types, Documents
  <2> HIDE DEF now
  <2>4. /\ ProjectionTypes' /\ shown'.approvals = shown.approvals /\ shown'.runs = shown.runs
        /\ shown'.events = shown.events /\ shown'.projects = shown.projects
    <3>1. shown \in Shown /\ left \subseteq Requests
      BY DEF QueueInv, ProjectionTypes
    <3>2. /\ shown' \in Shown /\ shown'.approvals = shown.approvals /\ shown'.runs = shown.runs
          /\ shown'.events = shown.events /\ shown'.projects = shown.projects
      BY <2>2, <2>3, <3>1 DEF Shown
    <3> QED
      BY <2>1, <3>1, <3>2 DEF ProjectionTypes
  <2>5. \A q \in Named' : QueuedAt(q)'
    <3> SUFFICES ASSUME NEW q \in Named'
                 PROVE  QueuedAt(q)'
      OBVIOUS
    <3>1. q \in Named /\ QueuedAt(q)
      BY <2>1, <2>4 DEF Named, QueueInv
    <3> QED
      BY <2>1, <2>4, <3>1 DEF QueuedAt, Stored
  <2> QED
    BY <2>4, <2>5 DEF QueueInv
<1>6. CASE Answer
  <2>1. step' = 1 /\ left' = {} /\ shown' = NothingShown
    BY <1>6 DEF Answer
  <2>2. shown' \in Shown
    BY <2>1 DEF NothingShown, Shown
  <2> QED
    BY <2>1, <2>2 DEF QueueInv, ProjectionTypes
<1> QED
  BY <1>1, <1>2, <1>3, <1>4, <1>5, <1>6 DEF Snapshot

\* An entry of the queue names its run, which has a status, and its project:
\* the approval is read first, and submit stores it after all three.
THEOREM QueueIsJoined == ProjectionSpec => []QueueJoined
<1>1. QueueInv => QueueJoined
  <2> SUFFICES ASSUME QueueInv, step > 5, NEW q \in NeedsRyan
               PROVE  /\ QueueEntry(q).run /\ QueueEntry(q).project
                      /\ ShownStatus(q) # "unknown"
    BY DEF QueueJoined, Answered, Reads
  <2>1. /\ q \in shown.runs /\ q \in shown.projects /\ q \in Requests
        /\ shown.events[q] # <<>> /\ shown.events[q] \in Seq(Entries)
    BY DEF QueueInv, QueuedAt, ProjectionTypes, Shown, NeedsRyan, Named
  <2>2. shown.events[q][Len(shown.events[q])] \in Entries
    BY <2>1
  <2>3. ShownStatus(q) # "unknown"
    BY <2>1, <2>2 DEF ShownStatus, Entries, Choices, Decisions, Outcomes
  <2> QED
    BY <2>1, <2>3 DEF QueueEntry
<1>2. IInv /\ WholeInv /\ QueueInv /\ [ProjectionNext]_projectionVars => QueueInv'
  <2> SUFFICES ASSUME IInv, WholeInv, QueueInv, [ProjectionNext]_projectionVars
               PROVE  QueueInv'
    OBVIOUS
  <2>1. Snapshot \/ ([Next]_vars /\ UNCHANGED <<step, left, shown>>)
    BY DEF ProjectionNext, projectionVars
  <2> QED
    BY <2>1, CallQueueInv, SnapshotQueueInv
<1> QED
  BY <1>1, <1>2, ReadsOnly, InitIInv, NextIInv, InitWholeInv, NextWholeInv, InitQueueInv, PTL
     DEF ProjectionSpec

----------------------------------------------------------------------------
(* What is read first and what is read later *)

\* What is shown of a timeline is how it began.
ShownBefore(q) ==
    \A i \in DOMAIN shown.events[q] :
        i \in DOMAIN timeline[q] /\ timeline[q][i] = shown.events[q][i]

TimelineRead(q) == step > 3 \/ (step = 3 /\ q \notin left)

\* A decision that is shown has been made; if the timeline that was read after it
\* does not tell it, it was not resolve that made it; and an attempt that is
\* shown to have finished was read before the request that it is of.
CauseAt(q) ==
    /\ ShownBefore(q)
    /\ step > 1 /\ shown.approvals[q] \in Decisions => decision[q] # "pending"
    /\ step > 1 /\ TimelineRead(q) /\ shown.approvals[q] \in Decisions
         /\ ShownEvents(q, DecisionEvents) = {} => EventsOf(q, {"approval.resolved"}) = {}
    /\ step > 5 /\ ShownEvents(q, {"image.provider.finished"}) # {} =>
         shown.requests[q] = "attempted"

CauseInv == \A q \in Requests : CauseAt(q)

LEMMA InitCauseInv == ProjectionInit => CauseInv
  BY DEF ProjectionInit, NothingShown, CauseInv, CauseAt, ShownBefore

LEMMA CallCauseInv ==
  ASSUME IInv, WholeInv, CauseInv, [Next]_vars, UNCHANGED <<step, left, shown>>
  PROVE  CauseInv'
<1> SUFFICES ASSUME NEW q \in Requests
             PROVE  CauseAt(q)'
  BY DEF CauseInv
<1>1. CauseAt(q) /\ Grows(q, Entries)
  BY NextGrows DEF CauseInv, WholeInv
<1>2. ShownBefore(q)'
  BY <1>1 DEF CauseAt, ShownBefore, Grows
<1>3. decision[q] # "pending" =>
        /\ decision'[q] # "pending"
        /\ EventsOf(q, {"approval.resolved"})' = EventsOf(q, {"approval.resolved"})
  <2>1. decision[q] # "pending" => decision'[q] = decision[q]
    BY DecisionsStand DEF vars
  <2> QED
    BY <2>1, ResolvedKept DEF WholeInv
<1>4. /\ ShownEvents(q, DecisionEvents)' = ShownEvents(q, DecisionEvents)
      /\ ShownEvents(q, {"image.provider.finished"})' = ShownEvents(q, {"image.provider.finished"})
      /\ TimelineRead(q)' = TimelineRead(q)
  BY DEF ShownEvents, TimelineRead
<1> QED
  BY <1>1, <1>2, <1>3, <1>4 DEF CauseAt

LEMMA SnapshotCauseInv ==
  ASSUME IInv, WholeInv, RecordInv, QueueInv, CauseInv, Snapshot
  PROVE  CauseInv'
<1> SUFFICES ASSUME NEW q \in Requests
             PROVE  CauseAt(q)'
  BY DEF CauseInv
<1>1. CauseAt(q) /\ shown \in Shown
  BY DEF CauseInv, QueueInv, ProjectionTypes
<1>2. CASE ReadApprovals
  <2>1. step = 1 /\ step' = 2 /\ UNCHANGED vars
    BY <1>2, ReadAt DEF ReadApprovals
  <2> DEFINE now == [p \in Requests |-> IF Stored("approvals", p) THEN decision[p] ELSE "none"]
  <2>2. shown' = [shown EXCEPT !.approvals = now]
    BY <1>2 DEF ReadApprovals
  <2>3. now[q] \in Decisions => decision[q] # "pending"
    BY DEF Decisions
  <2> HIDE DEF now
  <2>4. shown'.approvals = now /\ shown'.events = shown.events
    BY <1>1, <2>2 DEF Shown
  <2>5. ShownBefore(q)'
    BY <1>1, <2>1, <2>4 DEF CauseAt, ShownBefore, vars
  <2>6. shown'.approvals[q] \in Decisions => decision'[q] # "pending"
    BY <2>1, <2>3, <2>4 DEF vars
  <2> QED
    BY <2>1, <2>5, <2>6 DEF CauseAt, TimelineRead
<1>3. CASE ReadRuns
  <2>1. /\ step = 2 /\ step' = 3 /\ UNCHANGED vars
        /\ shown' = [shown EXCEPT !.runs = {p \in Requests : Stored("runs", p)}]
        /\ left' = {p \in Requests : Stored("runs", p)}
    BY <1>3, ReadAt DEF ReadRuns
  <2>2. shown'.approvals = shown.approvals /\ shown'.events = shown.events
    BY <1>1, <2>1 DEF Shown
  <2>3. ShownBefore(q)'
    BY <1>1, <2>1, <2>2 DEF CauseAt, ShownBefore, vars
  <2>4. shown.approvals[q] \in Decisions => q \in left'
    <3> SUFFICES ASSUME shown.approvals[q] \in Decisions
                 PROVE  q \in left'
      OBVIOUS
    <3>1. q \in Named
      BY DEF Named, Decisions
    <3> QED
      BY <2>1, <3>1 DEF QueueInv, QueuedAt, WholeInv, JoinedAt
  <2>5. shown'.approvals[q] \in Decisions => decision'[q] # "pending"
    BY <1>1, <2>1, <2>2 DEF CauseAt, vars
  <2> QED
    BY <2>1, <2>2, <2>3, <2>4, <2>5 DEF CauseAt, TimelineRead
<1>4. CASE ReadEvents
  <2>1. step = 3 /\ UNCHANGED vars /\ step' \in {3, 4}
    BY <1>4, ReadAt DEF ReadEvents
  <2>2. /\ UNCHANGED <<decision, timeline>>
        /\ EventsOf(q, {"approval.resolved"})' = EventsOf(q, {"approval.resolved"})
    BY <2>1 DEF vars, EventsOf
  <2>3. CASE UNCHANGED shown /\ TimelineRead(q)
    BY <1>1, <2>1, <2>2, <2>3 DEF CauseAt, ShownBefore, ShownEvents
  <2>4. ASSUME NEW p \in left, left' = left \ {p}, UNCHANGED step,
               shown' = [shown EXCEPT !.events[p] = timeline[p]]
        PROVE  CauseAt(q)'
    <3>1. p \in Requests
      BY DEF QueueInv, ProjectionTypes
    <3>2. /\ shown'.approvals = shown.approvals
          /\ shown'.events[q] = IF q = p THEN timeline[q] ELSE shown.events[q]
      BY <1>1, <2>4, <3>1 DEF Shown
    <3>3. ShownBefore(q)'
      BY <1>1, <2>2, <3>2 DEF CauseAt, ShownBefore
    <3>4. CASE q = p
      <4>1. ShownEvents(q, DecisionEvents)' = EventsOf(q, DecisionEvents)
        BY <3>2, <3>4 DEF ShownEvents, EventsOf
      <4>2. EventsOf(q, {"approval.resolved"}) \subseteq EventsOf(q, DecisionEvents)
        BY DEF EventsOf, DecisionEvents
      <4> QED
        BY <1>1, <2>1, <2>2, <2>4, <3>2, <3>3, <4>1, <4>2 DEF CauseAt
    <3>5. CASE q # p
      <4>1. ShownEvents(q, DecisionEvents)' = ShownEvents(q, DecisionEvents)
        BY <3>2, <3>5 DEF ShownEvents
      <4>2. TimelineRead(q)' = TimelineRead(q)
        BY <2>4, <3>5 DEF TimelineRead
      <4> QED
        BY <1>1, <2>1, <2>2, <2>4, <3>2, <3>3, <4>1, <4>2 DEF CauseAt
    <3> QED
      BY <3>4, <3>5
  <2>5. (left = {} /\ UNCHANGED <<shown, left>>) => UNCHANGED shown /\ TimelineRead(q)
    BY <2>1 DEF TimelineRead
  <2> QED
    BY <1>4, <2>3, <2>4, <2>5 DEF ReadEvents
<1>5. CASE ReadProjects
  <2>1. /\ step = 4 /\ step' = 5 /\ UNCHANGED vars
        /\ shown' = [shown EXCEPT !.projects = {p \in Requests : Stored("projects", p)}]
    BY <1>5, ReadAt DEF ReadProjects
  <2>2. shown'.approvals = shown.approvals /\ shown'.events = shown.events
    BY <1>1, <2>1 DEF Shown
  <2>3. TimelineRead(q) /\ UNCHANGED <<decision, timeline>>
    BY <2>1 DEF TimelineRead, vars
  <2> QED
    BY <1>1, <2>1, <2>2, <2>3 DEF CauseAt, ShownBefore, ShownEvents, EventsOf
<1>6. CASE ReadRequests
  <2>1. step = 5 /\ step' = 6 /\ UNCHANGED vars
    BY <1>6, ReadAt DEF ReadRequests
  <2> DEFINE now == [p \in Requests |-> IF Stored("generation_requests", p)
                                        THEN request[p].attempt_status ELSE "none"]
  <2>2. shown' = [shown EXCEPT !.requests = now]
    BY <1>6 DEF ReadRequests
  <2>3. ShownEvents(q, {"image.provider.finished"}) # {} => now[q] = "attempted"
    <3>1. ShownEvents(q, {"image.provider.finished"}) \subseteq Finished(q)
      BY <1>1 DEF CauseAt, ShownBefore, ShownEvents, Finished, EventsOf
    <3>2. Finished(q) # {} => Attempted(q) /\ Stored("generation_requests", q)
      BY DEF RecordInv, RecordAt
    <3> QED
      BY <3>1, <3>2 DEF Attempted
  <2> HIDE DEF now
  <2>4. /\ shown'.approvals = shown.approvals /\ shown'.events = shown.events
        /\ shown'.requests = now
    BY <1>1, <2>2 DEF Shown
  <2>5. TimelineRead(q) /\ UNCHANGED <<decision, timeline>>
    BY <2>1 DEF TimelineRead, vars
  <2> QED
    BY <1>1, <2>1, <2>3, <2>4, <2>5 DEF CauseAt, ShownBefore, ShownEvents, EventsOf
<1>7. CASE Answer
  <2>1. step' = 1 /\ shown' = NothingShown
    BY <1>7 DEF Answer
  <2>2. shown'.events[q] = <<>>
    BY <2>1 DEF NothingShown
  <2> QED
    BY <2>1, <2>2 DEF CauseAt, ShownBefore
<1> QED
  BY <1>2, <1>3, <1>4, <1>5, <1>6, <1>7 DEF Snapshot

\* In two pairs of records what is read first is never ahead of what is read
\* later: resolve's decision and its event, a finished attempt and its request.
THEOREM LaterReadsAreNewer == ProjectionSpec => []LaterReadsCatchUp
<1>1. ProjectionTypes /\ CauseInv => LaterReadsCatchUp
  <2> SUFFICES ASSUME ProjectionTypes, CauseInv, step > 5, NEW q \in Requests
               PROVE  /\ shown.approvals[q] \in Decisions /\ ShownEvents(q, DecisionEvents) = {} =>
                           EventsOf(q, {"approval.resolved"}) = {}
                      /\ ShownEvents(q, {"image.provider.finished"}) # {} =>
                           shown.requests[q] = "attempted"
    BY DEF LaterReadsCatchUp, Answered, Reads
  <2>1. step > 1 /\ step > 3
    BY DEF ProjectionTypes
  <2> QED
    BY <2>1 DEF CauseInv, CauseAt, TimelineRead
<1>2. QueueInv => ProjectionTypes
  BY DEF QueueInv
<1>3. /\ IInv /\ WholeInv /\ QueueInv /\ [ProjectionNext]_projectionVars => QueueInv'
      /\ IInv /\ WholeInv /\ RecordInv /\ QueueInv /\ CauseInv
           /\ [ProjectionNext]_projectionVars => CauseInv'
  <2> SUFFICES ASSUME IInv, WholeInv, QueueInv, [ProjectionNext]_projectionVars
               PROVE  QueueInv' /\ (RecordInv /\ CauseInv => CauseInv')
    OBVIOUS
  <2>1. Snapshot \/ ([Next]_vars /\ UNCHANGED <<step, left, shown>>)
    BY DEF ProjectionNext, projectionVars
  <2> QED
    BY <2>1, CallQueueInv, SnapshotQueueInv, CallCauseInv, SnapshotCauseInv
<1> QED
  BY <1>1, <1>2, <1>3, ReadsOnly, InitIInv, NextIInv, InitWholeInv, NextWholeInv, InitEvidence,
     NextRecordInv, InitQueueInv, InitCauseInv, PTL DEF ProjectionSpec
=============================================================================
