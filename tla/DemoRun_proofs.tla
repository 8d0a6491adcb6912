--------------------------- MODULE DemoRun_proofs ---------------------------
(***************************************************************************)
(* For any number of demos, whatever Hermes does and whichever step fails: *)
(* a demo is seen whole or not at all, what it claims of a remote run is   *)
(* true, and it says so if it lost sight of one that goes on.              *)
(***************************************************************************)
EXTENDS DemoRun, Integers, TLAPS

\* All that a field of a row or a local variable may say.
Words ==
    {"none", "running", "waiting_for_approval", "completed", "failed", "stopped", "degraded",
     "queued", "awaiting_approval", "unavailable", "unavailable_constraints",
     "run.created", "canon.resolved", "agent.stage.started", "agent.stage.completed",
     "agent.handoff", "approval.requested",
     "hermes.run.unavailable", "hermes.run.submitted", "hermes.run.stop_requested",
     "hermes.run.observed", "hermes.run.terminal_failure", "hermes.run.failed",
     "structured", "manual/unstructured", "hermes-structured-run", "local-fallback", "other"}

Entry == [event_type : Words, status : Words, remote_status : Words,
          submission_completed : BOOLEAN]

Results == [execution_mode : Words, hermes_run_id : BOOLEAN, hermes_status : Words,
            source : Words]

Rows == [execution_mode : Words, timeline : Seq(Entry), result : Seq(Results)]

Labels == {"idle", "probe", "submit", "poll", "stop", "wait", "observe", "build", "commit",
           "done", "raised"}

Types ==
    /\ visible \in [Demos -> Rows]
    /\ draft \in [Demos -> Rows]
    /\ remote \in [Demos -> RemoteStates]
    /\ output \in [Demos -> Texts]
    /\ local \in [Demos -> [hermes_run_id : BOOLEAN, hermes_status : Words,
                            hermes_output : Texts]]
    /\ pc \in [Demos -> Labels]

\* The events of a timeline.
Elements(s) == {s[i] : i \in DOMAIN s}

Says(s, type) == \E e \in Elements(s) : e.event_type = type

\* What a timeline says of the remote run of d is true.
TimelineTrue(s, d) ==
    /\ \A e \in Elements(s) :
          e.remote_status \in TERMINAL_HERMES_STATES => remote[d] = e.remote_status
    /\ Says(s, "hermes.run.observed") => remote[d] \in TERMINAL_HERMES_STATES
    /\ Says(s, "hermes.run.submitted") => remote[d] # "none"

\* It reports a remote run that may still be going on.
Accounted(s, d) ==
    remote[d] \in {"running", "waiting_for_approval"} =>
        Says(s, "hermes.run.failed") /\ ~Says(s, "hermes.run.observed")

ResultTrue(R, d) ==
    /\ R.result[1].hermes_status \in TERMINAL_HERMES_STATES =>
          remote[d] = R.result[1].hermes_status
    /\ R.result[1].source # "local-fallback" =>
          remote[d] = "completed" /\ output[d] = R.result[1].source
    /\ R.result[1].execution_mode = "structured" <=> Says(R.timeline, "hermes.run.submitted")

WholeRows(R, d) ==
    /\ Says(R.timeline, "approval.requested") /\ Len(R.result) = 1
    /\ TimelineTrue(R.timeline, d) /\ Accounted(R.timeline, d) /\ ResultTrue(R, d)

\* What d has of Hermes in its local variables, and how it agrees with what its
\* transaction has written.
DraftInv(d) ==
    /\ TimelineTrue(draft[d].timeline, d)
    /\ local[d].hermes_status \in TERMINAL_HERMES_STATES => remote[d] = local[d].hermes_status
    /\ local[d].hermes_output # "none" =>
          remote[d] = "completed" /\ output[d] = local[d].hermes_output
    /\ pc[d] \in {"idle", "probe", "submit"} => ~local[d].hermes_run_id /\ remote[d] = "none"
    /\ pc[d] \in {"submit", "poll", "stop", "wait", "observe", "build"} =>
          (local[d].hermes_run_id <=> Says(draft[d].timeline, "hermes.run.submitted"))
    /\ pc[d] \in {"submit", "poll", "stop", "wait", "observe"} =>
          ~Says(draft[d].timeline, "hermes.run.observed")
    /\ pc[d] = "observe" => local[d].hermes_status \in TERMINAL_HERMES_STATES
    /\ pc[d] = "build" => Accounted(draft[d].timeline, d)
    /\ pc[d] = "commit" => WholeRows(draft[d], d)

VisibleInv(d) ==
    /\ pc[d] # "done" => visible[d] = NoRows
    /\ pc[d] = "done" => WholeRows(visible[d], d)

\* The demo that holds the lock is in its transaction.
HolderInv == \A d \in Demos : lock = d => pc[d] \notin {"idle", "done", "raised"}

DemoInv == Types /\ HolderInv /\ \A d \in Demos : DraftInv(d) /\ VisibleInv(d)

LEMMA Concatenated ==
  ASSUME NEW s \in Seq(Entry), NEW t \in Seq(Entry)
  PROVE  s \o t \in Seq(Entry) /\ Elements(s \o t) = Elements(s) \cup Elements(t)
<1>1. /\ DOMAIN s = 1..Len(s) /\ DOMAIN t = 1..Len(t) /\ Len(s) \in Nat /\ Len(t) \in Nat
      /\ s \o t \in Seq(Entry) /\ DOMAIN (s \o t) = 1..(Len(s) + Len(t))
      /\ \A i \in 1..Len(s) : (s \o t)[i] = s[i]
      /\ \A i \in 1..Len(t) : (s \o t)[Len(s) + i] = t[i]
  OBVIOUS
<1>2. ASSUME NEW e \in Elements(s \o t)
      PROVE  e \in Elements(s) \cup Elements(t)
  <2>1. PICK i \in 1..(Len(s) + Len(t)) : e = (s \o t)[i]
    BY <1>1 DEF Elements
  <2>2. CASE i \in 1..Len(s)
    BY <1>1, <2>1, <2>2 DEF Elements
  <2>3. CASE i \notin 1..Len(s)
    <3>1. i - Len(s) \in 1..Len(t) /\ i = Len(s) + (i - Len(s))
      BY <1>1, <2>3
    <3>2. e = t[i - Len(s)]
      BY <1>1, <2>1, <3>1
    <3> QED
      BY <1>1, <3>1, <3>2 DEF Elements
  <2> QED
    BY <2>2, <2>3
<1>3. Elements(s) \subseteq Elements(s \o t)
  <2>1. \A i \in 1..Len(s) : i \in 1..(Len(s) + Len(t))
    BY <1>1
  <2> QED
    BY <1>1, <2>1 DEF Elements
<1>4. Elements(t) \subseteq Elements(s \o t)
  <2>1. \A i \in 1..Len(t) : Len(s) + i \in 1..(Len(s) + Len(t))
    BY <1>1
  <2> QED
    BY <1>1, <2>1 DEF Elements
<1> QED
  BY <1>1, <1>2, <1>3, <1>4

LEMMA Appended ==
  ASSUME NEW s \in Seq(Entry), NEW e \in Entry
  PROVE  Append(s, e) \in Seq(Entry) /\ Elements(Append(s, e)) = Elements(s) \cup {e}
<1>1. /\ DOMAIN s = 1..Len(s) /\ Len(s) \in Nat /\ Append(s, e) \in Seq(Entry)
      /\ DOMAIN Append(s, e) = 1..(Len(s) + 1) /\ Append(s, e)[Len(s) + 1] = e
      /\ \A i \in 1..Len(s) : Append(s, e)[i] = s[i]
  OBVIOUS
<1>2. 1..(Len(s) + 1) = 1..Len(s) \cup {Len(s) + 1}
  BY <1>1
<1> QED
  BY <1>1, <1>2 DEF Elements

LEMMA EventEntry ==
  ASSUME NEW type \in Words, NEW status \in Words
  PROVE  /\ Event(type, status) \in Entry
         /\ Event(type, status).event_type = type
         /\ Event(type, status).remote_status = "none"
         /\ \A s \in Words :
               /\ [Event(type, status) EXCEPT !.remote_status = s] \in Entry
               /\ [Event(type, status) EXCEPT !.remote_status = s].event_type = type
               /\ [Event(type, status) EXCEPT !.remote_status = s].remote_status = s
         /\ \A b \in BOOLEAN :
               /\ [Event(type, status) EXCEPT !.submission_completed = b] \in Entry
               /\ [Event(type, status) EXCEPT !.submission_completed = b].event_type = type
               /\ [Event(type, status) EXCEPT !.submission_completed = b].remote_status = "none"
<1> DEFINE e == Event(type, status)
<1>1. e = [event_type |-> type, status |-> status, remote_status |-> "none",
           submission_completed |-> FALSE]
  BY DEF Event
<1> HIDE DEF e
<1>2. e \in Entry /\ e.event_type = type /\ e.remote_status = "none"
  BY <1>1 DEF Entry, Words
<1>3. ASSUME NEW s \in Words
      PROVE  /\ [e EXCEPT !.remote_status = s] \in Entry
             /\ [e EXCEPT !.remote_status = s].event_type = type
             /\ [e EXCEPT !.remote_status = s].remote_status = s
  BY <1>1 DEF Entry
<1>4. ASSUME NEW b \in BOOLEAN
      PROVE  /\ [e EXCEPT !.submission_completed = b] \in Entry
             /\ [e EXCEPT !.submission_completed = b].event_type = type
             /\ [e EXCEPT !.submission_completed = b].remote_status = "none"
  BY <1>1 DEF Entry, Words
<1> QED
  BY <1>2, <1>3, <1>4 DEF e

LEMMA Nothing ==
  /\ NoRows \in Rows /\ NoRows.timeline = <<>> /\ Elements(<<>>) = {}
  /\ NoLocal \in [hermes_run_id : BOOLEAN, hermes_status : Words, hermes_output : Texts]
  /\ "none" \notin TERMINAL_HERMES_STATES /\ "unavailable" \notin TERMINAL_HERMES_STATES
<1>1. <<>> \in Seq(Entry) /\ <<>> \in Seq(Results)
  OBVIOUS
<1>2. Elements(<<>>) = {}
  BY DEF Elements
<1>3. NoRows \in Rows /\ NoRows.timeline = <<>>
  BY <1>1 DEF NoRows, Rows, Words
<1>4. NoLocal \in [hermes_run_id : BOOLEAN, hermes_status : Words, hermes_output : Texts]
  BY DEF NoLocal, Texts, Words
<1> QED
  BY <1>2, <1>3, <1>4 DEF TERMINAL_HERMES_STATES

LEMMA InitDemoInv == Init => DemoInv
<1> SUFFICES ASSUME Init
             PROVE  DemoInv
  OBVIOUS
<1>1. Types
  BY Nothing DEF Init, Types, RemoteStates, Texts, Labels
<1>2. ASSUME NEW d \in Demos
      PROVE  DraftInv(d) /\ VisibleInv(d)
  <2>1. /\ visible[d] = NoRows /\ draft[d] = NoRows /\ remote[d] = "none"
        /\ local[d] = NoLocal /\ pc[d] = "idle"
    BY <1>2 DEF Init
  <2>2. TimelineTrue(draft[d].timeline, d)
    BY <2>1, Nothing DEF TimelineTrue, Says
  <2> QED
    BY <2>1, <2>2, Nothing DEF DraftInv, VisibleInv, NoLocal
<1>3. HolderInv
  BY NoDemoAssumption DEF Init, HolderInv
<1> QED
  BY <1>1, <1>2, <1>3 DEF DemoInv

\* A step of d does not concern the other demos.
LEMMA OwnStep ==
  ASSUME DemoInv, NEW d \in Demos, Types',
         \A c \in Demos \ {d} : /\ visible'[c] = visible[c] /\ draft'[c] = draft[c]
                                /\ remote'[c] = remote[c] /\ output'[c] = output[c]
                                /\ local'[c] = local[c] /\ pc'[c] = pc[c],
         lock' \in {lock, NoDemo, d}, lock' = d => pc'[d] \notin {"idle", "done", "raised"},
         DraftInv(d)', VisibleInv(d)'
  PROVE  DemoInv'
<1>1. ASSUME NEW c \in Demos \ {d}
      PROVE  DraftInv(c)' /\ VisibleInv(c)'
  BY DEF DemoInv, DraftInv, VisibleInv, TimelineTrue, Accounted, ResultTrue, WholeRows
<1>2. HolderInv'
  BY NoDemoAssumption DEF DemoInv, HolderInv
<1> QED
  BY <1>1, <1>2 DEF DemoInv

\* What is committed stays true of a remote run that goes on by itself.
LEMMA StillTrue ==
  ASSUME NEW d \in Demos, Remote(d), Types
  PROVE  /\ remote'[d] \in RemoteStates \ {"none"} /\ remote[d] \notin TERMINAL_HERMES_STATES
         /\ \A s : /\ TimelineTrue(s, d) => TimelineTrue(s, d)'
                   /\ Accounted(s, d) => Accounted(s, d)'
         /\ \A R : ResultTrue(R, d) => ResultTrue(R, d)'
<1>1. /\ remote[d] \in {"running", "waiting_for_approval"}
      /\ remote'[d] \in RemoteStates \ {"none"}
  BY DEF Remote, Types
<1>2. remote[d] \notin TERMINAL_HERMES_STATES /\ remote[d] # "completed"
  BY <1>1 DEF TERMINAL_HERMES_STATES
<1> QED
  BY <1>1, <1>2 DEF TimelineTrue, Accounted, ResultTrue

LEMMA RemoteDemoInv ==
  ASSUME DemoInv, NEW d \in Demos, Remote(d)
  PROVE  DemoInv'
<1>1. /\ UNCHANGED <<lock, visible, draft, local, pc>>
      /\ \A c \in Demos \ {d} : remote'[c] = remote[c] /\ output'[c] = output[c]
      /\ remote' \in [Demos -> RemoteStates] /\ output' \in [Demos -> Texts]
  BY DEF Remote, DemoInv, Types
<1>2. Types'
  BY <1>1 DEF DemoInv, Types
<1>3. /\ remote'[d] \in RemoteStates \ {"none"} /\ remote[d] \notin TERMINAL_HERMES_STATES
      /\ \A s : /\ TimelineTrue(s, d) => TimelineTrue(s, d)'
                /\ Accounted(s, d) => Accounted(s, d)'
      /\ \A R : ResultTrue(R, d) => ResultTrue(R, d)'
  BY StillTrue DEF DemoInv
<1>4. /\ TimelineTrue(draft[d].timeline, d)'
      /\ Accounted(draft[d].timeline, d) => Accounted(draft[d].timeline, d)'
      /\ WholeRows(draft[d], d) => WholeRows(draft[d], d)'
      /\ WholeRows(visible[d], d) => WholeRows(visible[d], d)'
  BY <1>1, <1>3 DEF DemoInv, DraftInv, WholeRows
<1>5. remote[d] # "none" /\ remote[d] # "completed"
  BY <1>3 DEF Remote, TERMINAL_HERMES_STATES
<1>6. DraftInv(d)' /\ VisibleInv(d)'
  BY <1>1, <1>3, <1>4, <1>5 DEF DemoInv, DraftInv, VisibleInv
<1>7. lock' = d => pc'[d] \notin {"idle", "done", "raised"}
  BY <1>1 DEF DemoInv, HolderInv
<1> QED
  BY <1>1, <1>2, <1>6, <1>7, OwnStep

\* Steps that change neither the remote run nor what is visible.
LEMMA QuietStep ==
  ASSUME DemoInv, NEW d \in Demos, NEW R \in Rows, NEW x, NEW l \in Labels,
         x \in [hermes_run_id : BOOLEAN, hermes_status : Words, hermes_output : Texts],
         pc[d] # "done", l # "done",
         draft' = [draft EXCEPT ![d] = R], local' = [local EXCEPT ![d] = x],
         pc' = [pc EXCEPT ![d] = l], UNCHANGED <<visible, remote, output>>,
         lock' \in {lock, NoDemo, d}, lock' = d => l \notin {"idle", "done", "raised"},
         /\ TimelineTrue(R.timeline, d)
         /\ x.hermes_status \in TERMINAL_HERMES_STATES => remote[d] = x.hermes_status
         /\ x.hermes_output # "none" => remote[d] = "completed" /\ output[d] = x.hermes_output
         /\ l \in {"idle", "probe", "submit"} => ~x.hermes_run_id /\ remote[d] = "none"
         /\ l \in {"submit", "poll", "stop", "wait", "observe", "build"} =>
               (x.hermes_run_id <=> Says(R.timeline, "hermes.run.submitted"))
         /\ l \in {"submit", "poll", "stop", "wait", "observe"} =>
               ~Says(R.timeline, "hermes.run.observed")
         /\ l = "observe" => x.hermes_status \in TERMINAL_HERMES_STATES
         /\ l = "build" => Accounted(R.timeline, d)
         /\ l = "commit" => WholeRows(R, d)
  PROVE  DemoInv'
<1>1. draft'[d] = R /\ local'[d] = x /\ pc'[d] = l /\ Types'
  BY DEF DemoInv, Types
<1>2. UNCHANGED remote /\ UNCHANGED output /\ UNCHANGED visible
  OBVIOUS
<1>3. TimelineTrue(draft[d].timeline, d)'
  BY <1>1, <1>2 DEF TimelineTrue
<1>4. l = "build" => Accounted(draft[d].timeline, d)'
  BY <1>1, <1>2 DEF Accounted
<1>5. l = "commit" => WholeRows(draft[d], d)'
  BY <1>1, <1>2 DEF TimelineTrue, Accounted, WholeRows, ResultTrue
<1>6. DraftInv(d)'
  BY <1>1, <1>2, <1>3, <1>4, <1>5 DEF DraftInv
<1>7. VisibleInv(d)'
  BY <1>1, <1>2 DEF DemoInv, VisibleInv
<1>8. \A c \in Demos \ {d} : /\ visible'[c] = visible[c] /\ draft'[c] = draft[c]
                              /\ remote'[c] = remote[c] /\ output'[c] = output[c]
                              /\ local'[c] = local[c] /\ pc'[c] = pc[c]
  BY DEF DemoInv, Types
<1> QED
  BY <1>1, <1>6, <1>7, <1>8, OwnStep

\* Only the place of d changes, of what the invariant is about.
LEMMA MovesOn ==
  ASSUME DemoInv, NEW d \in Demos, NEW l \in Labels, pc[d] # "done", l # "done",
         pc' = [pc EXCEPT ![d] = l], UNCHANGED <<visible, draft, remote, output, local>>,
         lock' \in {lock, NoDemo, d}, lock' = d => l \notin {"idle", "done", "raised"},
         /\ l \in {"idle", "probe", "submit"} => pc[d] \in {"idle", "probe", "submit"}
         /\ l \in {"submit", "poll", "stop", "wait", "observe", "build", "commit"} =>
               pc[d] \in {"submit", "poll", "stop", "wait", "observe"}
         /\ l = "observe" => local[d].hermes_status \in TERMINAL_HERMES_STATES
         /\ l \notin {"build", "commit"}
  PROVE  DemoInv'
<1>1. /\ draft[d] \in Rows
      /\ local[d] \in [hermes_run_id : BOOLEAN, hermes_status : Words, hermes_output : Texts]
      /\ draft' = [draft EXCEPT ![d] = draft[d]] /\ local' = [local EXCEPT ![d] = local[d]]
      /\ DraftInv(d)
  BY DEF DemoInv, Types
<1> QED
  BY <1>1, QuietStep DEF DraftInv

\* run ends without its transaction.
LEMMA Raises ==
  ASSUME DemoInv, NEW d \in Demos, pc[d] # "done", Raise(d), UNCHANGED <<remote, output>>
  PROVE  DemoInv'
<1>1. /\ draft' = [draft EXCEPT ![d] = NoRows] /\ local' = [local EXCEPT ![d] = NoLocal]
      /\ pc' = [pc EXCEPT ![d] = "raised"] /\ lock' = NoDemo /\ UNCHANGED visible
  BY DEF Raise, RollsBack, Leave, Goto
<1>2. /\ NoLocal.hermes_status \notin TERMINAL_HERMES_STATES /\ NoLocal.hermes_output = "none"
      /\ TimelineTrue(NoRows.timeline, d)
  BY Nothing DEF NoLocal, TimelineTrue, Says
<1>3. "raised" \in Labels /\ lock' # d
  BY <1>1, NoDemoAssumption DEF Labels
<1> QED
  BY <1>1, <1>2, <1>3, Nothing, QuietStep

\* A timeline to which events are appended.
LEMMA Longer ==
  ASSUME NEW d \in Demos, NEW s, NEW T, NEW E, Elements(T) = Elements(s) \cup E
  PROVE  /\ \A type : Says(T, type) <=> Says(s, type) \/ \E e \in E : e.event_type = type
         /\ /\ TimelineTrue(s, d)
            /\ \A e \in E : /\ e.remote_status \in TERMINAL_HERMES_STATES =>
                                 remote[d] = e.remote_status
                            /\ e.event_type = "hermes.run.observed" =>
                                 remote[d] \in TERMINAL_HERMES_STATES
                            /\ e.event_type = "hermes.run.submitted" => remote[d] # "none"
            => TimelineTrue(T, d)
<1>1. \A type : Says(T, type) <=> Says(s, type) \/ \E e \in E : e.event_type = type
  BY DEF Says
<1> QED
  BY <1>1 DEF TimelineTrue

\* The parts of a demo's own state, with their types.
LEMMA Own ==
  ASSUME DemoInv, NEW d \in Demos
  PROVE  /\ draft[d] \in Rows /\ draft[d].timeline \in Seq(Entry)
         /\ visible[d] \in Rows
         /\ local[d] \in [hermes_run_id : BOOLEAN, hermes_status : Words,
                          hermes_output : Texts]
         /\ remote[d] \in RemoteStates /\ output[d] \in Texts /\ pc[d] \in Labels
         /\ DraftInv(d) /\ VisibleInv(d)
<1>1. draft[d] \in Rows
  BY DEF DemoInv, Types
<1>2. draft[d].timeline \in Seq(Entry)
  BY <1>1 DEF Rows
<1> QED
  BY <1>1, <1>2 DEF DemoInv, Types

LEMMA BeginInv ==
  ASSUME DemoInv, NEW d \in Demos, Begin(d) \/ BeginRefused(d)
  PROVE  DemoInv'
<1>1. CASE Begin(d)
  <2>1. /\ pc[d] = "idle" /\ pc' = [pc EXCEPT ![d] = "probe"] /\ lock' = d
        /\ UNCHANGED <<visible, draft, remote, output, local>> /\ "probe" \in Labels
    BY <1>1 DEF Begin, Goto, Labels
  <2> QED
    BY <2>1, MovesOn
<1>2. CASE BeginRefused(d)
  <2>1. /\ pc[d] = "idle" /\ pc' = [pc EXCEPT ![d] = "raised"] /\ lock' = lock
        /\ UNCHANGED <<visible, draft, remote, output, local>> /\ "raised" \in Labels
    BY <1>2 DEF BeginRefused, Goto, Labels
  <2>2. lock # d
    BY <2>1 DEF DemoInv, HolderInv
  <2> QED
    BY <2>1, <2>2, MovesOn
<1> QED
  BY <1>1, <1>2

\* The events that Probe writes, when Hermes can be used and when it cannot.
LEMMA FirstEvents ==
  LET e == Event("run.created", "queued")
      f == Event("canon.resolved", "running")
      g == Event("agent.stage.started", "running")
      h == Event("hermes.run.unavailable", "degraded")
  IN  /\ <<e, f, g>> \in Seq(Entry) /\ Elements(<<e, f, g>>) = {e, f, g}
      /\ <<h>> \in Seq(Entry) /\ Elements(<<h>>) = {h}
      /\ <<>> \in Seq(Entry) /\ Elements(<<>>) = {}
      /\ \A x \in {e, f, g, h} :
            /\ x.remote_status \notin TERMINAL_HERMES_STATES
            /\ x.event_type # "hermes.run.observed" /\ x.event_type # "hermes.run.submitted"
<1> DEFINE e == Event("run.created", "queued")
           f == Event("canon.resolved", "running")
           g == Event("agent.stage.started", "running")
           h == Event("hermes.run.unavailable", "degraded")
<1>1. e \in Entry /\ f \in Entry /\ g \in Entry /\ h \in Entry
  <2>1. \A t, s \in Words : Event(t, s) \in Entry
    BY EventEntry
  <2>2. {"run.created", "canon.resolved", "agent.stage.started", "hermes.run.unavailable",
         "queued", "running", "degraded"} \subseteq Words
    BY DEF Words
  <2> QED
    BY <2>1, <2>2
<1>2. \A x \in {e, f, g, h} :
            /\ x.remote_status \notin TERMINAL_HERMES_STATES
            /\ x.event_type # "hermes.run.observed" /\ x.event_type # "hermes.run.submitted"
  BY Nothing DEF Event
<1> HIDE DEF e, f, g, h
<1>3. <<e, f, g>> \in Seq(Entry) /\ Elements(<<e, f, g>>) = {e, f, g}
  <2>1. DOMAIN <<e, f, g>> = {1, 2, 3} /\ <<e, f, g>> \in Seq(Entry)
    BY <1>1
  <2> QED
    BY <2>1 DEF Elements
<1>4. <<h>> \in Seq(Entry) /\ Elements(<<h>>) = {h}
  BY <1>1 DEF Elements
<1>5. <<>> \in Seq(Entry) /\ Elements(<<>>) = {}
  BY Nothing
<1> QED
  BY <1>2, <1>3, <1>4, <1>5 DEF e, f, g, h

LEMMA ProbeInv ==
  ASSUME DemoInv, NEW d \in Demos, Probe(d)
  PROVE  DemoInv'
<1> DEFINE first == <<Event("run.created", "queued"), Event("canon.resolved", "running"),
                      Event("agent.stage.started", "running")>>
<1>1. PICK hermes \in {"none", "unconstrained", "constrained"} :
          /\ draft' = [draft EXCEPT ![d] =
                [execution_mode |-> IF hermes = "constrained" THEN "structured"
                                                              ELSE "manual/unstructured",
                 timeline |->
                    first
                    \o IF hermes = "unconstrained"
                       THEN <<Event("hermes.run.unavailable", "degraded")>> ELSE << >>,
                 result |-> << >>]]
          /\ local' = [local EXCEPT ![d].hermes_status =
                IF hermes = "unconstrained" THEN "unavailable_constraints" ELSE "unavailable"]
          /\ Goto(d, IF hermes = "constrained" THEN "submit" ELSE "build")
  BY DEF Probe
<1> DEFINE more == IF hermes = "unconstrained"
                   THEN <<Event("hermes.run.unavailable", "degraded")>> ELSE << >>
           T == first \o more
           R == [execution_mode |-> IF hermes = "constrained" THEN "structured"
                                                              ELSE "manual/unstructured",
                 timeline |-> T, result |-> << >>]
           x == [local[d] EXCEPT !.hermes_status =
                   IF hermes = "unconstrained" THEN "unavailable_constraints"
                                               ELSE "unavailable"]
           l == IF hermes = "constrained" THEN "submit" ELSE "build"
<1>2. pc[d] = "probe" /\ UNCHANGED <<lock, visible, remote, output>>
  BY DEF Probe
<1>3. /\ first \in Seq(Entry) /\ more \in Seq(Entry)
      /\ \A y \in Elements(first) \cup Elements(more) :
            /\ y.remote_status \notin TERMINAL_HERMES_STATES
            /\ y.event_type # "hermes.run.observed" /\ y.event_type # "hermes.run.submitted"
  BY FirstEvents
<1> HIDE DEF first, more
<1>4. T \in Seq(Entry) /\ Elements(T) = Elements(first) \cup Elements(more)
  BY <1>3, Concatenated
<1> HIDE DEF T
<1>5. /\ TimelineTrue(T, d) /\ ~Says(T, "hermes.run.submitted")
      /\ ~Says(T, "hermes.run.observed")
  BY <1>3, <1>4 DEF TimelineTrue, Says
<1>6. R \in Rows /\ R.timeline = T
  <2>1. <<>> \in Seq(Results)
    OBVIOUS
  <2> QED
    BY <1>4, <2>1 DEF Rows, Words
<1>7. /\ x \in [hermes_run_id : BOOLEAN, hermes_status : Words, hermes_output : Texts]
      /\ x.hermes_status \notin TERMINAL_HERMES_STATES
      /\ x.hermes_run_id = local[d].hermes_run_id /\ x.hermes_output = local[d].hermes_output
  BY Own DEF Words, TERMINAL_HERMES_STATES
<1>8. /\ draft' = [draft EXCEPT ![d] = R] /\ local' = [local EXCEPT ![d] = x]
      /\ pc' = [pc EXCEPT ![d] = l]
  <2>1. draft' = [draft EXCEPT ![d] = R]
    BY <1>1 DEF T, more
  <2>2. local' = [local EXCEPT ![d] = x]
    BY <1>1
  <2> QED
    BY <1>1, <2>1, <2>2 DEF Goto
<1>9. /\ ~local[d].hermes_run_id /\ remote[d] = "none"
      /\ local[d].hermes_output # "none" =>
          remote[d] = "completed" /\ output[d] = local[d].hermes_output
  BY <1>2, Own DEF DraftInv
<1>10. Accounted(R.timeline, d)
  BY <1>9 DEF Accounted
<1>11. l \in {"submit", "build"} /\ l \in Labels
  BY DEF Labels
<1> HIDE DEF R, x, l
<1> QED
  BY <1>2, <1>5, <1>6, <1>7, <1>8, <1>9, <1>10, <1>11, QuietStep

\* What a step appends to the timeline in its transaction.
LEMMA OneMore ==
  ASSUME DemoInv, NEW d \in Demos, NEW e \in Entry
  PROVE  /\ [draft[d] EXCEPT !.timeline = Append(@, e)] \in Rows
         /\ [draft[d] EXCEPT !.timeline = Append(@, e)].timeline = Append(draft[d].timeline, e)
         /\ Append1(d, e) =>
               draft' = [draft EXCEPT ![d] = [draft[d] EXCEPT !.timeline = Append(@, e)]]
         /\ Elements(Append(draft[d].timeline, e)) = Elements(draft[d].timeline) \cup {e}
<1>1. draft[d] \in Rows /\ draft[d].timeline \in Seq(Entry)
  BY Own
<1>2. /\ Append(draft[d].timeline, e) \in Seq(Entry)
      /\ Elements(Append(draft[d].timeline, e)) = Elements(draft[d].timeline) \cup {e}
  BY <1>1, Appended
<1>3. [draft[d] EXCEPT !.timeline = Append(@, e)] \in Rows
  BY <1>1, <1>2 DEF Rows
<1>4. [draft[d] EXCEPT !.timeline = Append(@, e)].timeline = Append(draft[d].timeline, e)
  BY <1>1 DEF Rows
<1>5. Append1(d, e) =>
         draft' = [draft EXCEPT ![d] = [draft[d] EXCEPT !.timeline = Append(@, e)]]
  BY DEF Append1
<1> QED
  BY <1>2, <1>3, <1>4, <1>5

LEMMA SubmitInv ==
  ASSUME DemoInv, NEW d \in Demos, Submit(d)
  PROVE  DemoInv'
<1> DEFINE e == Event("hermes.run.submitted", "running")
           R == [draft[d] EXCEPT !.timeline = Append(@, e)]
           x == [local[d] EXCEPT !.hermes_run_id = TRUE]
<1>1. /\ pc[d] = "submit" /\ remote' = [remote EXCEPT ![d] = "running"]
      /\ Append1(d, e) /\ local' = [local EXCEPT ![d].hermes_run_id = TRUE]
      /\ pc' = [pc EXCEPT ![d] = "poll"] /\ UNCHANGED <<lock, visible, output>>
  BY DEF Submit, Goto
<1>2. e \in Entry /\ e.event_type = "hermes.run.submitted" /\ e.remote_status = "none"
  <2>1. "hermes.run.submitted" \in Words /\ "running" \in Words
    BY DEF Words
  <2> QED
    BY <2>1, EventEntry
<1> HIDE DEF e
<1>3. /\ R \in Rows /\ R.timeline = Append(draft[d].timeline, e)
      /\ draft' = [draft EXCEPT ![d] = R]
      /\ Elements(R.timeline) = Elements(draft[d].timeline) \cup {e}
  BY <1>1, <1>2, OneMore
<1> HIDE DEF R
<1>4. /\ x \in [hermes_run_id : BOOLEAN, hermes_status : Words, hermes_output : Texts]
      /\ x.hermes_status = local[d].hermes_status /\ x.hermes_run_id
      /\ x.hermes_output = local[d].hermes_output
      /\ local' = [local EXCEPT ![d] = x]
  <2>1. local[d] \in [hermes_run_id : BOOLEAN, hermes_status : Words, hermes_output : Texts]
    BY Own
  <2> QED
    BY <1>1, <2>1
<1> HIDE DEF x
<1>5. "running" \in RemoteStates /\ "running" \notin TERMINAL_HERMES_STATES
  BY DEF RemoteStates, TERMINAL_HERMES_STATES
<1>6. Types'
  BY <1>1, <1>3, <1>4, <1>5 DEF DemoInv, Types, Labels
<1>7. /\ draft'[d] = R /\ local'[d] = x /\ pc'[d] = "poll" /\ remote'[d] = "running"
      /\ output' = output /\ visible' = visible
  BY <1>1, <1>3, <1>4 DEF DemoInv, Types
<1>8. /\ remote[d] = "none" /\ TimelineTrue(draft[d].timeline, d)
      /\ local[d].hermes_output = "none"
      /\ local[d].hermes_status \notin TERMINAL_HERMES_STATES
      /\ ~Says(draft[d].timeline, "hermes.run.observed")
  BY <1>1, Own, Nothing DEF DraftInv
<1>9. /\ Says(R.timeline, "hermes.run.submitted") /\ ~Says(R.timeline, "hermes.run.observed")
      /\ \A y \in Elements(R.timeline) : y.remote_status \notin TERMINAL_HERMES_STATES
  BY <1>2, <1>3, <1>8, Nothing DEF TimelineTrue, Says
<1>10. TimelineTrue(draft[d].timeline, d)'
  BY <1>7, <1>9 DEF TimelineTrue
<1>11. DraftInv(d)'
  BY <1>4, <1>5, <1>7, <1>8, <1>9, <1>10 DEF DraftInv
<1>12. VisibleInv(d)'
  BY <1>1, <1>7, Own DEF VisibleInv
<1>13. \A c \in Demos \ {d} : /\ visible'[c] = visible[c] /\ draft'[c] = draft[c]
                               /\ remote'[c] = remote[c] /\ output'[c] = output[c]
                               /\ local'[c] = local[c] /\ pc'[c] = pc[c]
  BY <1>1, <1>3, <1>4 DEF DemoInv, Types
<1> QED
  BY <1>1, <1>6, <1>7, <1>11, <1>12, <1>13, OwnStep

LEMMA WithoutHermesInv ==
  ASSUME DemoInv, NEW d \in Demos, SubmitFails(d) \/ PollMismatch(d)
  PROVE  DemoInv'
<1> DEFINE e == [Event("hermes.run.failed", "degraded") EXCEPT
                   !.submission_completed = local[d].hermes_run_id]
           R == [draft[d] EXCEPT !.timeline = Append(@, e)]
           x == [local[d] EXCEPT !.hermes_status = "unavailable"]
<1>1. /\ pc[d] \in {"submit", "poll", "wait"}
      /\ remote' = remote \/ (pc[d] = "submit" /\ remote' = [remote EXCEPT ![d] = "running"])
      /\ Append1(d, e) /\ local' = [local EXCEPT ![d].hermes_status = "unavailable"]
      /\ pc' = [pc EXCEPT ![d] = "build"] /\ UNCHANGED <<lock, visible, output>>
  BY DEF SubmitFails, PollMismatch, WithoutHermes, Goto
<1>2. e \in Entry /\ e.event_type = "hermes.run.failed" /\ e.remote_status = "none"
  <2>1. local[d].hermes_run_id \in BOOLEAN
    BY Own
  <2>2. "hermes.run.failed" \in Words /\ "degraded" \in Words
    BY DEF Words
  <2> QED
    BY <2>1, <2>2, EventEntry
<1> HIDE DEF e
<1>3. /\ R \in Rows /\ R.timeline = Append(draft[d].timeline, e)
      /\ draft' = [draft EXCEPT ![d] = R]
      /\ Elements(R.timeline) = Elements(draft[d].timeline) \cup {e}
  BY <1>1, <1>2, OneMore
<1> HIDE DEF R
<1>4. /\ x \in [hermes_run_id : BOOLEAN, hermes_status : Words, hermes_output : Texts]
      /\ x.hermes_status = "unavailable" /\ x.hermes_run_id = local[d].hermes_run_id
      /\ x.hermes_output = local[d].hermes_output
      /\ local' = [local EXCEPT ![d] = x]
  <2>1. local[d] \in [hermes_run_id : BOOLEAN, hermes_status : Words, hermes_output : Texts]
    BY Own
  <2> QED
    BY <1>1, <2>1 DEF Words
<1> HIDE DEF x
<1>5. "running" \in RemoteStates /\ "running" \notin TERMINAL_HERMES_STATES
  BY DEF RemoteStates, TERMINAL_HERMES_STATES
<1>6. Types'
  <2>1. Types
    BY DEF DemoInv
  <2>2. remote' \in [Demos -> RemoteStates]
    BY <1>1, <1>5, <2>1 DEF Types
  <2>3. local' \in [Demos -> [hermes_run_id : BOOLEAN, hermes_status : Words,
                              hermes_output : Texts]]
    BY <1>4, <2>1 DEF Types
  <2>4. draft' \in [Demos -> Rows] /\ pc' \in [Demos -> Labels]
    BY <1>1, <1>3, <2>1 DEF Types, Labels
  <2> QED
    BY <1>1, <2>1, <2>2, <2>3, <2>4 DEF Types
<1>7. /\ draft'[d] = R /\ local'[d] = x /\ pc'[d] = "build"
      /\ remote'[d] = remote[d] \/ (remote[d] = "none" /\ remote'[d] = "running")
      /\ output' = output /\ visible' = visible
  BY <1>1, <1>3, <1>4, Own DEF DemoInv, Types, DraftInv
<1>8. /\ TimelineTrue(draft[d].timeline, d)
      /\ local[d].hermes_output # "none" =>
          remote[d] = "completed" /\ output[d] = local[d].hermes_output
      /\ local[d].hermes_run_id <=> Says(draft[d].timeline, "hermes.run.submitted")
      /\ ~Says(draft[d].timeline, "hermes.run.observed")
  BY <1>1, Own DEF DraftInv
<1>9. /\ \A type : type # "hermes.run.failed" =>
             (Says(R.timeline, type) <=> Says(draft[d].timeline, type))
      /\ Says(R.timeline, "hermes.run.failed") /\ TimelineTrue(R.timeline, d)
  BY <1>2, <1>3, <1>8, Nothing DEF TimelineTrue, Says
<1>10. TimelineTrue(draft[d].timeline, d)'
  BY <1>5, <1>7, <1>9, Nothing DEF TimelineTrue
<1>11. Accounted(draft[d].timeline, d)'
  BY <1>7, <1>8, <1>9 DEF Accounted
<1>12. DraftInv(d)'
  BY <1>4, <1>7, <1>8, <1>9, <1>10, <1>11, Nothing DEF DraftInv
<1>13. VisibleInv(d)'
  BY <1>1, <1>7, Own DEF VisibleInv
<1>14. \A c \in Demos \ {d} : /\ visible'[c] = visible[c] /\ draft'[c] = draft[c]
                               /\ remote'[c] = remote[c] /\ output'[c] = output[c]
                               /\ local'[c] = local[c] /\ pc'[c] = pc[c]
  BY <1>1, <1>3, <1>4 DEF DemoInv, Types
<1> QED
  BY <1>1, <1>6, <1>7, <1>12, <1>13, <1>14, OwnStep

\* What Hermes answers is its state, or nothing.
LEMMA Answered ==
  ASSUME NEW d \in Demos, NEW s \in GetRun(d), DemoInv
  PROVE  s \in Words /\ (Settled(s) => s \in TERMINAL_HERMES_STATES /\ remote[d] = s)
         /\ (s \in TERMINAL_HERMES_STATES => remote[d] = s)
<1>1. remote[d] \in RemoteStates /\ "degraded" \notin TERMINAL_HERMES_STATES
  BY Own DEF TERMINAL_HERMES_STATES
<1> QED
  BY <1>1 DEF GetRun, Settled, RemoteStates, TERMINAL_HERMES_STATES, Words

LEMMA PollInv ==
  ASSUME DemoInv, NEW d \in Demos, Poll(d) \/ Wait(d)
  PROVE  DemoInv'
<1>1. PICK s \in GetRun(d), l \in {"observe", "stop", "poll", "wait"} :
        /\ pc' = [pc EXCEPT ![d] = l] /\ (l = "observe" => Settled(s))
        /\ local' = [local EXCEPT ![d].hermes_status = s]
  BY DEF Poll, Wait, Goto
<1> DEFINE x == [local[d] EXCEPT !.hermes_status = s]
<1>2. pc[d] \in {"poll", "wait"} /\ UNCHANGED <<lock, visible, draft, remote, output>>
  BY DEF Poll, Wait
<1>3. s \in Words /\ (s \in TERMINAL_HERMES_STATES => remote[d] = s)
      /\ (l = "observe" => s \in TERMINAL_HERMES_STATES)
  BY <1>1, Answered
<1>4. /\ x \in [hermes_run_id : BOOLEAN, hermes_status : Words, hermes_output : Texts]
      /\ x.hermes_status = s /\ x.hermes_run_id = local[d].hermes_run_id
      /\ x.hermes_output = local[d].hermes_output
      /\ local' = [local EXCEPT ![d] = x]
  <2>1. local[d] \in [hermes_run_id : BOOLEAN, hermes_status : Words, hermes_output : Texts]
    BY Own
  <2> QED
    BY <1>1, <1>3, <2>1
<1> HIDE DEF x
<1>5. draft[d] \in Rows /\ draft' = [draft EXCEPT ![d] = draft[d]] /\ DraftInv(d)
  BY <1>2, Own DEF DemoInv, Types
<1>6. l \in Labels
  BY DEF Labels
<1>7. /\ TimelineTrue(draft[d].timeline, d) /\ ~Says(draft[d].timeline, "hermes.run.observed")
      /\ x.hermes_output # "none" => remote[d] = "completed" /\ output[d] = x.hermes_output
      /\ x.hermes_run_id <=> Says(draft[d].timeline, "hermes.run.submitted")
  BY <1>2, <1>4, <1>5 DEF DraftInv
<1> QED
  BY <1>1, <1>2, <1>3, <1>4, <1>5, <1>6, <1>7, QuietStep

LEMMA StopInv ==
  ASSUME DemoInv, NEW d \in Demos, Stop(d)
  PROVE  DemoInv'
<1> DEFINE e == [Event("hermes.run.stop_requested", "degraded") EXCEPT
                   !.remote_status = local[d].hermes_status]
           R == [draft[d] EXCEPT !.timeline = Append(@, e)]
<1>1. /\ pc[d] = "stop" /\ Append1(d, e) /\ pc' = [pc EXCEPT ![d] = "wait"]
      /\ UNCHANGED <<lock, visible, remote, output, local>>
  BY DEF Stop, StopAccepted, Goto
<1>2. e \in Entry /\ e.event_type = "hermes.run.stop_requested"
      /\ e.remote_status = local[d].hermes_status
  <2>1. local[d].hermes_status \in Words
    BY Own
  <2>2. "hermes.run.stop_requested" \in Words /\ "degraded" \in Words
    BY DEF Words
  <2> QED
    BY <2>1, <2>2, EventEntry
<1> HIDE DEF e
<1>3. /\ R \in Rows /\ R.timeline = Append(draft[d].timeline, e)
      /\ draft' = [draft EXCEPT ![d] = R]
      /\ Elements(R.timeline) = Elements(draft[d].timeline) \cup {e}
  BY <1>1, <1>2, OneMore
<1> HIDE DEF R
<1>4. /\ local[d] \in [hermes_run_id : BOOLEAN, hermes_status : Words, hermes_output : Texts]
      /\ local' = [local EXCEPT ![d] = local[d]] /\ DraftInv(d)
  BY <1>1, Own DEF DemoInv, Types
<1>5. /\ \A type : type # "hermes.run.stop_requested" =>
             (Says(R.timeline, type) <=> Says(draft[d].timeline, type))
      /\ TimelineTrue(R.timeline, d)
  BY <1>2, <1>3, <1>4 DEF TimelineTrue, Says, DraftInv
<1>6. "wait" \in Labels
  BY DEF Labels
<1> QED
  BY <1>1, <1>3, <1>4, <1>5, <1>6, QuietStep DEF DraftInv

LEMMA RaiseInv ==
  ASSUME DemoInv, NEW d \in Demos, StopFails(d) \/ WaitFails(d) \/ Abort(d)
  PROVE  DemoInv'
<1>1. pc[d] # "done"
  BY DEF StopFails, WaitFails, Abort, DemoInv, HolderInv
<1>2. Raise(d) /\ UNCHANGED <<remote, output>>
  BY DEF StopFails, WaitFails, Abort
<1> QED
  BY <1>1, <1>2, Raises

LEMMA ObserveInv ==
  ASSUME DemoInv, NEW d \in Demos, Observe(d)
  PROVE  DemoInv'
<1> DEFINE s == local[d].hermes_status
           seen == [Event("hermes.run.observed", IF s = "completed" THEN "running"
                                                                    ELSE "degraded")
                      EXCEPT !.remote_status = s]
           failure == [Event("hermes.run.terminal_failure", "degraded")
                         EXCEPT !.remote_status = s]
           more == IF s = "completed" THEN <<seen>> ELSE <<seen, failure>>
           T == draft[d].timeline \o more
           R == [draft[d] EXCEPT !.timeline = T]
           x == [local[d] EXCEPT !.hermes_output = ExtractOutput(d)]
<1>1. /\ pc[d] = "observe" /\ pc' = [pc EXCEPT ![d] = "build"]
      /\ draft' = [draft EXCEPT ![d].timeline = @ \o more]
      /\ local' = [local EXCEPT ![d].hermes_output = ExtractOutput(d)]
      /\ UNCHANGED <<lock, visible, remote, output>>
  BY DEF Observe, Goto
<1>2. /\ draft[d] \in Rows /\ draft[d].timeline \in Seq(Entry) /\ DraftInv(d)
      /\ local[d] \in [hermes_run_id : BOOLEAN, hermes_status : Words, hermes_output : Texts]
      /\ output[d] \in Texts
  BY Own
<1>3. s \in TERMINAL_HERMES_STATES /\ remote[d] = s /\ s \in Words
  BY <1>1, <1>2 DEF DraftInv
<1>4. /\ seen \in Entry /\ failure \in Entry
      /\ seen.event_type = "hermes.run.observed" /\ seen.remote_status = s
      /\ failure.event_type = "hermes.run.terminal_failure" /\ failure.remote_status = s
  <2>1. {"hermes.run.observed", "hermes.run.terminal_failure", "running", "degraded"}
          \subseteq Words
    BY DEF Words
  <2>2. (IF s = "completed" THEN "running" ELSE "degraded") \in Words
    BY <2>1
  <2> HIDE DEF s
  <2>3. seen \in Entry /\ seen.event_type = "hermes.run.observed" /\ seen.remote_status = s
    BY <1>3, <2>1, <2>2, EventEntry
  <2>4. failure \in Entry /\ failure.event_type = "hermes.run.terminal_failure"
        /\ failure.remote_status = s
    BY <1>3, <2>1, EventEntry
  <2> QED
    BY <2>3, <2>4
<1> HIDE DEF seen, failure
<1>5. more \in Seq(Entry) /\ seen \in Elements(more) /\ Elements(more) \subseteq {seen, failure}
  BY <1>4 DEF Elements
<1> HIDE DEF more
<1>6. T \in Seq(Entry) /\ Elements(T) = Elements(draft[d].timeline) \cup Elements(more)
  BY <1>2, <1>5, Concatenated
<1>7. draft' = [draft EXCEPT ![d] = R]
  BY <1>1
<1> HIDE DEF T
<1>8. R \in Rows /\ R.timeline = T
  BY <1>2, <1>6 DEF Rows
<1> HIDE DEF R
<1>9. /\ x \in [hermes_run_id : BOOLEAN, hermes_status : Words, hermes_output : Texts]
      /\ x.hermes_status = s /\ x.hermes_run_id = local[d].hermes_run_id
      /\ x.hermes_output = ExtractOutput(d)
      /\ local' = [local EXCEPT ![d] = x]
  <2>1. ExtractOutput(d) \in Texts
    BY <1>2 DEF ExtractOutput, Texts
  <2> QED
    BY <1>1, <1>2, <2>1
<1>10. x.hermes_output # "none" => remote[d] = "completed" /\ output[d] = x.hermes_output
  BY <1>3, <1>9 DEF ExtractOutput
<1> HIDE DEF x
<1>11. /\ TimelineTrue(T, d)
       /\ Says(T, "hermes.run.submitted") <=> Says(draft[d].timeline, "hermes.run.submitted")
  <2>1. TimelineTrue(draft[d].timeline, d)
    BY <1>2 DEF DraftInv
  <2>2. \A e \in Elements(more) :
           /\ e.remote_status \in TERMINAL_HERMES_STATES => remote[d] = e.remote_status
           /\ e.event_type = "hermes.run.observed" => remote[d] \in TERMINAL_HERMES_STATES
           /\ e.event_type # "hermes.run.submitted"
    BY <1>3, <1>4, <1>5
  <2> HIDE DEF s
  <2> QED
    BY <1>6, <2>1, <2>2 DEF TimelineTrue, Says
<1>12. Accounted(R.timeline, d)
  BY <1>3 DEF Accounted, TERMINAL_HERMES_STATES
<1>13. "build" \in Labels
  BY DEF Labels
<1>14. x.hermes_run_id <=> Says(R.timeline, "hermes.run.submitted")
  BY <1>1, <1>2, <1>8, <1>9, <1>11 DEF DraftInv
<1> QED
  BY <1>1, <1>3, <1>7, <1>8, <1>9, <1>10, <1>11, <1>12, <1>13, <1>14, QuietStep

\* The local stages write their events, the last of them the approval request.
LEMMA StageEvents ==
  /\ BuildEvents \in Seq(Entry)
  /\ \E e \in Elements(BuildEvents) : e.event_type = "approval.requested"
  /\ \A e \in Elements(BuildEvents) :
        /\ e.remote_status \notin TERMINAL_HERMES_STATES
        /\ e.event_type \notin {"hermes.run.observed", "hermes.run.submitted",
                                "hermes.run.failed"}
<1> DEFINE a == Event("agent.stage.completed", "running")
           b == Event("agent.handoff", "running")
           c == Event("agent.stage.completed", "degraded")
           e == Event("approval.requested", "awaiting_approval")
<1>1. a \in Entry /\ b \in Entry /\ c \in Entry /\ e \in Entry
  <2>1. \A t, s \in Words : Event(t, s) \in Entry
    BY EventEntry
  <2>2. {"agent.stage.completed", "agent.handoff", "approval.requested", "running",
         "degraded", "awaiting_approval"} \subseteq Words
    BY DEF Words
  <2> QED
    BY <2>1, <2>2
<1>2. /\ \A x \in {a, b, c, e} :
            /\ x.remote_status \notin TERMINAL_HERMES_STATES
            /\ x.event_type \notin {"hermes.run.observed", "hermes.run.submitted",
                                    "hermes.run.failed"}
      /\ e.event_type = "approval.requested"
  BY Nothing DEF Event
<1>3. BuildEvents = <<a, b, a, a, a, c, e>>
  BY DEF BuildEvents
<1> HIDE DEF a, b, c, e
<1>4. /\ BuildEvents \in Seq(Entry) /\ DOMAIN BuildEvents = 1..7 /\ BuildEvents[7] = e
      /\ \A i \in 1..7 : BuildEvents[i] \in {a, b, c, e}
  BY <1>1, <1>3
<1>5. e \in Elements(BuildEvents) /\ Elements(BuildEvents) \subseteq {a, b, c, e}
  BY <1>4 DEF Elements
<1> QED
  BY <1>2, <1>4, <1>5

LEMMA BuildInv ==
  ASSUME DemoInv, NEW d \in Demos, Build(d)
  PROVE  DemoInv'
<1> DEFINE T == draft[d].timeline \o BuildEvents
           r == Result(d)
           R == [draft[d] EXCEPT !.timeline = T, !.result = <<r>>]
<1>1. /\ pc[d] = "build" /\ pc' = [pc EXCEPT ![d] = "commit"]
      /\ draft' = [draft EXCEPT ![d] = R] /\ UNCHANGED <<lock, visible, remote, output, local>>
  BY DEF Build, Goto
<1>2. /\ draft[d] \in Rows /\ draft[d].timeline \in Seq(Entry) /\ DraftInv(d)
      /\ local[d] \in [hermes_run_id : BOOLEAN, hermes_status : Words, hermes_output : Texts]
      /\ local' = [local EXCEPT ![d] = local[d]]
  BY <1>1, Own DEF DemoInv, Types
<1>3. /\ r \in Results /\ r.hermes_status = local[d].hermes_status
      /\ r.source # "local-fallback" =>
            local[d].hermes_output # "none" /\ r.source = local[d].hermes_output
      /\ r.execution_mode = "structured" <=> local[d].hermes_run_id
  BY <1>2 DEF Result, Results, ResultMode, Source, Texts, Words
<1> HIDE DEF r
<1>4. T \in Seq(Entry) /\ Elements(T) = Elements(draft[d].timeline) \cup Elements(BuildEvents)
  BY <1>2, StageEvents, Concatenated
<1> HIDE DEF T
<1>5. R \in Rows /\ R.timeline = T /\ R.result = <<r>>
  <2>1. <<r>> \in Seq(Results)
    BY <1>3
  <2> QED
    BY <1>2, <1>4, <2>1 DEF Rows
<1> HIDE DEF R
<1>6. Len(R.result) = 1 /\ R.result[1] = r
  BY <1>5
<1>7. /\ Says(T, "approval.requested")
      /\ \A type \in {"hermes.run.observed", "hermes.run.submitted", "hermes.run.failed"} :
            Says(T, type) <=> Says(draft[d].timeline, type)
  BY <1>4, StageEvents DEF Says
<1>8. TimelineTrue(T, d)
  BY <1>2, <1>4, <1>7, StageEvents DEF DraftInv, TimelineTrue
<1>9. Accounted(T, d)
  BY <1>1, <1>2, <1>7 DEF DraftInv, Accounted
<1>10. ResultTrue(R, d)
  BY <1>1, <1>2, <1>3, <1>5, <1>6, <1>7 DEF DraftInv, ResultTrue
<1>11. WholeRows(R, d)
  BY <1>5, <1>6, <1>7, <1>8, <1>9, <1>10 DEF WholeRows
<1>12. "commit" \in Labels
  BY DEF Labels
<1> QED
  BY <1>1, <1>2, <1>5, <1>8, <1>11, <1>12, QuietStep DEF DraftInv

LEMMA CommitInv ==
  ASSUME DemoInv, NEW d \in Demos, Commit(d)
  PROVE  DemoInv'
<1>1. /\ pc[d] = "commit" /\ visible' = [visible EXCEPT ![d] = draft[d]]
      /\ draft' = [draft EXCEPT ![d] = NoRows] /\ local' = [local EXCEPT ![d] = NoLocal]
      /\ pc' = [pc EXCEPT ![d] = "done"] /\ lock' = NoDemo /\ UNCHANGED <<remote, output>>
  BY DEF Commit, Leave, Goto
<1>2. draft[d] \in Rows /\ DraftInv(d)
  BY Own
<1>3. Types'
  BY <1>1, <1>2, Nothing DEF DemoInv, Types, Labels
<1>4. /\ visible'[d] = draft[d] /\ draft'[d] = NoRows /\ local'[d] = NoLocal
      /\ pc'[d] = "done" /\ remote' = remote /\ output' = output
  BY <1>1 DEF DemoInv, Types
<1>5. WholeRows(draft[d], d)
  BY <1>1, <1>2 DEF DraftInv
<1>6. VisibleInv(d)'
  BY <1>4, <1>5 DEF VisibleInv, WholeRows, TimelineTrue, Accounted, ResultTrue
<1>7. DraftInv(d)'
  BY <1>4, Nothing DEF DraftInv, NoLocal, TimelineTrue, Says
<1>8. \A c \in Demos \ {d} : /\ visible'[c] = visible[c] /\ draft'[c] = draft[c]
                              /\ remote'[c] = remote[c] /\ output'[c] = output[c]
                              /\ local'[c] = local[c] /\ pc'[c] = pc[c]
  BY <1>1 DEF DemoInv, Types
<1>9. lock' # d
  BY <1>1, NoDemoAssumption
<1> QED
  BY <1>1, <1>3, <1>6, <1>7, <1>8, <1>9, OwnStep

\* Nothing that the invariant is about changes.
LEMMA SameDemos ==
  ASSUME DemoInv, UNCHANGED <<lock, visible, draft, remote, output, local, pc>>
  PROVE  DemoInv'
  BY DEF DemoInv, Types, HolderInv, DraftInv, VisibleInv, WholeRows, TimelineTrue, Accounted,
         ResultTrue

LEMMA NextDemoInv == DemoInv /\ [Next]_vars => DemoInv'
<1> SUFFICES ASSUME DemoInv, [Next]_vars
             PROVE  DemoInv'
  OBVIOUS
<1>1. CASE UNCHANGED vars
  BY <1>1, SameDemos DEF vars
<1>2. ASSUME NEW d \in Demos, Step(d)
      PROVE  DemoInv'
  BY <1>2, BeginInv, ProbeInv, SubmitInv, WithoutHermesInv, PollInv, StopInv, RaiseInv,
     ObserveInv, BuildInv, CommitInv
  DEF Step, LocalStep, HermesStep
<1>3. ASSUME NEW d \in Demos, Deadline(d)
      PROVE  DemoInv'
  BY <1>3, SameDemos DEF Deadline
<1>4. ASSUME NEW d \in Demos, Abort(d) \/ Remote(d)
      PROVE  DemoInv'
  BY <1>4, RaiseInv, RemoteDemoInv
<1> QED
  BY <1>1, <1>2, <1>3, <1>4 DEF Next

LEMMA DemosInv == Spec => []DemoInv
  BY InitDemoInv, NextDemoInv, PTL DEF Spec

----------------------------------------------------------------------------

\* What is known of the rows that are seen of a demo.
LEMMA Seen ==
  ASSUME DemoInv, NEW d \in Demos
  PROVE  /\ visible[d] \in Rows
         /\ visible[d] = NoRows \/ WholeRows(visible[d], d)
         /\ \A type : InTimeline(d, type) <=> Says(visible[d].timeline, type)
         /\ visible[d] = NoRows =>
               visible[d].result = <<>> /\ \A type : ~InTimeline(d, type)
         /\ DOMAIN visible[d].result \subseteq {1}
<1>1. visible[d] \in Rows /\ (visible[d] = NoRows \/ WholeRows(visible[d], d))
  BY Own DEF VisibleInv
<1>2. \A type : InTimeline(d, type) <=> Says(visible[d].timeline, type)
  BY DEF InTimeline, Says, Elements
<1>3. visible[d] = NoRows => visible[d].result = <<>> /\ \A type : ~InTimeline(d, type)
  BY <1>2, Nothing DEF NoRows, Says
<1>4. DOMAIN visible[d].result \subseteq {1}
  <2>1. CASE visible[d] = NoRows
    BY <1>3, <2>1
  <2>2. CASE WholeRows(visible[d], d)
    BY <1>1, <2>2 DEF WholeRows, Rows
  <2> QED
    BY <1>1, <2>1, <2>2
<1> QED
  BY <1>1, <1>2, <1>3, <1>4

\* A demo run is seen with its approval request and its one result, or not at
\* all, whichever step of it fails: DemoOrchestrator.run is one transaction.
THEOREM DemosWhole == Spec => []RunWhole
<1>1. DemoInv => RunWhole
  BY Seen DEF RunWhole, WholeRows
<1> QED
  BY <1>1, DemosInv, PTL

\* A remote run that goes on when its demo is committed is one the timeline
\* reports as failed, never one it reports as observed.
THEOREM LiveRunsReported == Spec => []NoLiveRunUnreported
<1>1. DemoInv => NoLiveRunUnreported
  BY Seen DEF NoLiveRunUnreported, WholeRows, Accounted
<1> QED
  BY <1>1, DemosInv, PTL

LEMMA ResultsTold ==
  DemoInv => StatusIsTheRemotes /\ OutputOnlyFromCompleted /\ ResultModeBacked
<1> SUFFICES ASSUME DemoInv, NEW d \in Demos, NEW i \in DOMAIN visible[d].result
             PROVE  /\ visible[d].result[i].hermes_status \in TERMINAL_HERMES_STATES =>
                          visible[d].result[i].hermes_status = remote[d]
                    /\ visible[d].result[i].source # "local-fallback" =>
                          remote[d] = "completed" /\ output[d] = visible[d].result[i].source
                    /\ visible[d].result[i].execution_mode = "structured"
                          <=> InTimeline(d, "hermes.run.submitted")
                    /\ InTimeline(d, "hermes.run.submitted") => remote[d] # "none"
  BY DEF StatusIsTheRemotes, OutputOnlyFromCompleted, ResultModeBacked
<1>1. i = 1 /\ WholeRows(visible[d], d)
  BY Seen
<1> QED
  BY <1>1, Seen DEF WholeRows, ResultTrue, TimelineTrue

LEMMA HealthTold == DemoInv => HealthTruthful
<1> SUFFICES ASSUME DemoInv, NEW d \in Demos, HermesVerified(d)
             PROVE  remote[d] = "completed"
  BY DEF HealthTruthful, HermesHealth
<1>1. visible[d].result # <<>> /\ HermesStatus(d, "completed")
  BY DEF HermesVerified
<1>2. WholeRows(visible[d], d)
  BY <1>1, Seen
<1>3. "completed" \in TERMINAL_HERMES_STATES
  BY DEF TERMINAL_HERMES_STATES
<1>4. CASE \E i \in DOMAIN visible[d].timeline :
              visible[d].timeline[i].remote_status = "completed"
  BY <1>2, <1>3, <1>4 DEF WholeRows, TimelineTrue, Elements
<1>5. CASE visible[d].result[1].hermes_status = "completed"
  BY <1>2, <1>3, <1>5 DEF WholeRows, ResultTrue
<1> QED
  BY <1>1, <1>4, <1>5 DEF HermesStatus

\* What a committed demo and the dashboard claim of a remote run is true of it:
\* the end it came to, the text of it that was used, that it was submitted, and
\* that one has completed (demo.py, projection.py).  Nothing is claimed of a run
\* whose answer to the submission was lost.
THEOREM HermesClaimsHold == Spec => []HermesClaimsTrue
<1>1. DemoInv => HermesClaimsTrue
  BY ResultsTold, HealthTold DEF HermesClaimsTrue
<1> QED
  BY <1>1, DemosInv, PTL

----------------------------------------------------------------------------
(* Types: what the rows and the local variables may say, field by field. *)

Modes == {"structured", "manual/unstructured"}

\* What a demo may record of Hermes once it goes on to its local stages, and
\* what it may have been told when it asks Hermes to stop the run.
Recordable == TERMINAL_HERMES_STATES \cup {"unavailable", "unavailable_constraints"}
Answers    == RemoteStates \cup {"degraded"}

StatusAt(label, s) ==
    /\ s \in HermesStatuses
    /\ label = "build" => s \in Recordable
    /\ label = "stop" => s \in Answers

RowsTyped(R) ==
    /\ R.execution_mode \in Modes \cup {"none"}
    /\ Elements(R.timeline) \subseteq Events
    /\ \A i \in DOMAIN R.result :
          /\ R.result[i].execution_mode \in Modes
          /\ R.result[i].hermes_status \in HermesStatuses \ {"none", "degraded"}

TypedInv ==
    /\ lock \in Demos \cup {NoDemo}
    /\ expired \in [Demos -> BOOLEAN]
    /\ \A d \in Demos :
          /\ RowsTyped(visible[d]) /\ RowsTyped(draft[d])
          /\ StatusAt(pc[d], local[d].hermes_status)

LEMMA StatusSets ==
  /\ TERMINAL_HERMES_STATES \subseteq RemoteStates
  /\ RemoteStates \subseteq HermesStatuses /\ Recordable \subseteq HermesStatuses \ {"none", "degraded"}
  /\ "degraded" \in HermesStatuses /\ "unavailable" \in Recordable
  /\ "unavailable_constraints" \in Recordable
  BY DEF TERMINAL_HERMES_STATES, RemoteStates, HermesStatuses, Recordable

EventNames ==
    HermesEvents \cup {"run.created", "canon.resolved", "agent.stage.started",
                       "agent.stage.completed", "agent.handoff", "approval.requested"}

EventStatuses == {"queued", "running", "degraded", "awaiting_approval"}

LEMMA EventTyped ==
  ASSUME NEW type \in EventNames, NEW status \in EventStatuses
  PROVE  /\ Event(type, status) \in Events
         /\ \A s \in Answers : [Event(type, status) EXCEPT !.remote_status = s] \in Events
         /\ \A b \in BOOLEAN : [Event(type, status) EXCEPT !.submission_completed = b] \in Events
<1> DEFINE e == Event(type, status)
<1>1. e = [event_type |-> type, status |-> status, remote_status |-> "none",
           submission_completed |-> FALSE]
  BY DEF Event
<1>2. "none" \in Answers
  BY DEF RemoteStates, Answers
<1>3. Events = [event_type : EventNames, status : EventStatuses, remote_status : Answers,
                submission_completed : BOOLEAN]
  BY DEF Events, EventNames, EventStatuses, Answers
<1> HIDE DEF e
<1>4. e \in Events
  BY <1>1, <1>2, <1>3
<1>5. \A s \in Answers : [e EXCEPT !.remote_status = s] \in Events
  BY <1>1, <1>3
<1>6. \A b \in BOOLEAN : [e EXCEPT !.submission_completed = b] \in Events
  BY <1>1, <1>2, <1>3
<1> QED
  BY <1>4, <1>5, <1>6 DEF e

LEMMA NothingTyped == RowsTyped(NoRows) /\ NoLocal.hermes_status \in HermesStatuses
  BY Nothing, StatusSets DEF RowsTyped, NoRows, NoLocal, Elements

\* A step of d that writes R, and leaves x in its local variables.
LEMMA TypedStep ==
  ASSUME DemoInv, TypedInv, NEW d \in Demos, NEW R, NEW x, NEW l,
         draft' = [draft EXCEPT ![d] = R], local' = [local EXCEPT ![d] = x],
         pc' = [pc EXCEPT ![d] = l], RowsTyped(R), StatusAt(l, x.hermes_status),
         visible' \in {visible, [visible EXCEPT ![d] = draft[d]]},
         lock' \in {lock, d, NoDemo}, expired' \in [Demos -> BOOLEAN]
  PROVE  TypedInv'
<1>1. /\ draft'[d] = R /\ local'[d] = x /\ pc'[d] = l
      /\ \A c \in Demos \ {d} : draft'[c] = draft[c] /\ local'[c] = local[c] /\ pc'[c] = pc[c]
      /\ \A c \in Demos : visible'[c] \in {visible[c], draft[c]}
  BY DEF DemoInv, Types
<1>2. lock' \in Demos \cup {NoDemo}
  BY DEF TypedInv
<1>3. ASSUME NEW c \in Demos
      PROVE  /\ RowsTyped(visible'[c]) /\ RowsTyped(draft'[c])
             /\ StatusAt(pc'[c], local'[c].hermes_status)
  BY <1>1 DEF TypedInv
<1> QED
  BY <1>2, <1>3 DEF TypedInv, RowsTyped, StatusAt

\* What d has, with what the earlier invariant says of it.
LEMMA OwnTyped ==
  ASSUME DemoInv, TypedInv, NEW d \in Demos
  PROVE  /\ RowsTyped(draft[d]) /\ local[d].hermes_status \in HermesStatuses
         /\ draft[d] \in Rows /\ draft[d].timeline \in Seq(Entry)
         /\ draft' = draft => draft' = [draft EXCEPT ![d] = draft[d]]
         /\ local' = local => local' = [local EXCEPT ![d] = local[d]]
         /\ \A s : [local[d] EXCEPT !.hermes_status = s].hermes_status = s
         /\ local[d] \in [hermes_run_id : BOOLEAN, hermes_status : Words,
                          hermes_output : Texts]
         /\ \A b \in BOOLEAN : [expired EXCEPT ![d] = b] \in [Demos -> BOOLEAN]
  BY Own DEF TypedInv, DemoInv, Types, StatusAt

\* d ends.
LEMMA LeaveTyped ==
  ASSUME DemoInv, TypedInv, NEW d \in Demos, NEW l, Leave(d, l), l \notin {"build", "stop"},
         visible' \in {visible, [visible EXCEPT ![d] = draft[d]]}
  PROVE  TypedInv'
<1>1. /\ draft' = [draft EXCEPT ![d] = NoRows] /\ local' = [local EXCEPT ![d] = NoLocal]
      /\ pc' = [pc EXCEPT ![d] = l] /\ lock' = NoDemo /\ expired' \in [Demos -> BOOLEAN]
  BY OwnTyped DEF Leave, Goto
<1>2. StatusAt(l, NoLocal.hermes_status)
  BY NothingTyped DEF StatusAt
<1> QED
  BY <1>1, <1>2, NothingTyped, TypedStep

\* d appends one event to its timeline.
LEMMA AppendTyped ==
  ASSUME DemoInv, TypedInv, NEW d \in Demos, NEW e \in Entry, e \in Events, Append1(d, e)
  PROVE  \E R : draft' = [draft EXCEPT ![d] = R] /\ RowsTyped(R)
<1> DEFINE R == [draft[d] EXCEPT !.timeline = Append(@, e)]
<1>1. draft' = [draft EXCEPT ![d] = R] /\ R.timeline = Append(draft[d].timeline, e)
  BY OneMore
<1>2. Elements(R.timeline) = Elements(draft[d].timeline) \cup {e}
  BY <1>1, OneMore
<1>3. R.execution_mode = draft[d].execution_mode /\ R.result = draft[d].result
  BY OwnTyped DEF Rows
<1> HIDE DEF R
<1>4. RowsTyped(R)
  BY <1>2, <1>3, OwnTyped DEF RowsTyped
<1> QED
  BY <1>1, <1>4

\* The events of the local stages and of the beginning.
LEMMA StagesTyped ==
  /\ Elements(BuildEvents) \subseteq Events
  /\ LET first == <<Event("run.created", "queued"), Event("canon.resolved", "running"),
                    Event("agent.stage.started", "running")>>
         more == <<Event("hermes.run.unavailable", "degraded")>>
     IN  Elements(first) \subseteq Events /\ Elements(more) \subseteq Events
<1> DEFINE a == Event("agent.stage.completed", "running")
           b == Event("agent.handoff", "running")
           c == Event("agent.stage.completed", "degraded")
           e == Event("approval.requested", "awaiting_approval")
           f == Event("run.created", "queued")
           g == Event("canon.resolved", "running")
           h == Event("agent.stage.started", "running")
           k == Event("hermes.run.unavailable", "degraded")
<1>1. {a, b, c, e, f, g, h, k} \subseteq Events
  <2>1. \A t \in EventNames, s \in EventStatuses : Event(t, s) \in Events
    BY EventTyped
  <2>2. /\ {"agent.stage.completed", "agent.handoff", "approval.requested", "run.created",
            "canon.resolved", "agent.stage.started", "hermes.run.unavailable"} \subseteq EventNames
        /\ {"queued", "running", "degraded", "awaiting_approval"} \subseteq EventStatuses
    BY DEF EventNames, EventStatuses, HermesEvents
  <2> QED
    BY <2>1, <2>2
<1>2. BuildEvents = <<a, b, a, a, a, c, e>>
  BY DEF BuildEvents
<1> HIDE DEF a, b, c, e, f, g, h, k
<1>3. DOMAIN BuildEvents = 1..7 /\ \A i \in 1..7 : BuildEvents[i] \in {a, b, c, e}
  BY <1>2
<1>4. Elements(BuildEvents) \subseteq Events
  BY <1>1, <1>3 DEF Elements
<1>5. DOMAIN <<f, g, h>> = {1, 2, 3} /\ Elements(<<f, g, h>>) \subseteq Events
  BY <1>1 DEF Elements
<1>6. Elements(<<k>>) \subseteq Events
  BY <1>1 DEF Elements
<1> QED
  BY <1>4, <1>5, <1>6 DEF f, g, h, k

LEMMA ProbeTyped ==
  ASSUME DemoInv, TypedInv, NEW d \in Demos, Probe(d)
  PROVE  TypedInv'
<1> DEFINE first == <<Event("run.created", "queued"), Event("canon.resolved", "running"),
                      Event("agent.stage.started", "running")>>
<1>1. PICK hermes \in {"none", "unconstrained", "constrained"} :
          /\ draft' = [draft EXCEPT ![d] =
                [execution_mode |-> IF hermes = "constrained" THEN "structured"
                                                              ELSE "manual/unstructured",
                 timeline |->
                    first
                    \o IF hermes = "unconstrained"
                       THEN <<Event("hermes.run.unavailable", "degraded")>> ELSE << >>,
                 result |-> << >>]]
          /\ local' = [local EXCEPT ![d].hermes_status =
                IF hermes = "unconstrained" THEN "unavailable_constraints" ELSE "unavailable"]
          /\ Goto(d, IF hermes = "constrained" THEN "submit" ELSE "build")
  BY DEF Probe
<1> DEFINE more == IF hermes = "unconstrained"
                   THEN <<Event("hermes.run.unavailable", "degraded")>> ELSE << >>
           T == first \o more
           R == [execution_mode |-> IF hermes = "constrained" THEN "structured"
                                                              ELSE "manual/unstructured",
                 timeline |-> T, result |-> << >>]
           status == IF hermes = "unconstrained" THEN "unavailable_constraints" ELSE "unavailable"
           x == [local[d] EXCEPT !.hermes_status = status]
<1>2. /\ first \in Seq(Entry) /\ Elements(first) \subseteq Events
      /\ more \in Seq(Entry) /\ Elements(more) \subseteq Events
  BY FirstEvents, StagesTyped, Nothing
<1>3. draft' = [draft EXCEPT ![d] = R]
  BY <1>1
<1>4. /\ local' = [local EXCEPT ![d] = x]
      /\ UNCHANGED <<lock, visible, expired>>
      /\ \E l \in {"submit", "build"} : pc' = [pc EXCEPT ![d] = l]
  BY <1>1 DEF Probe, Goto
<1>5. status \in Recordable /\ status \in HermesStatuses
  BY StatusSets
<1> HIDE DEF first, more, status
<1>6. Elements(T) \subseteq Events
  BY <1>2, Concatenated
<1> HIDE DEF T
<1>7. RowsTyped(R)
  BY <1>6 DEF RowsTyped, Modes
<1>8. x.hermes_status \in Recordable /\ x.hermes_status \in HermesStatuses
  BY <1>5, OwnTyped
<1> HIDE DEF R, x
<1>9. expired' \in [Demos -> BOOLEAN]
  BY <1>4 DEF TypedInv
<1> QED
  BY <1>3, <1>4, <1>7, <1>8, <1>9, TypedStep DEF StatusAt

\* The POST, its failure, and the stop request.
LEMMA HermesStepTyped ==
  ASSUME DemoInv, TypedInv, NEW d \in Demos,
         Submit(d) \/ SubmitFails(d) \/ PollMismatch(d) \/ Stop(d)
  PROVE  TypedInv'
<1>1. /\ local[d].hermes_status \in HermesStatuses /\ local[d].hermes_run_id \in BOOLEAN
      /\ local[d] \in [hermes_run_id : BOOLEAN, hermes_status : Words, hermes_output : Texts]
  BY OwnTyped
<1>2. CASE Submit(d)
  <2> DEFINE e == Event("hermes.run.submitted", "running")
  <2>1. e \in Entry /\ e \in Events
    <3>1. /\ "hermes.run.submitted" \in Words /\ "running" \in Words
          /\ "hermes.run.submitted" \in EventNames /\ "running" \in EventStatuses
      BY DEF Words, EventNames, EventStatuses, HermesEvents
    <3> QED
      BY <3>1, EventEntry, EventTyped
  <2>2. Append1(d, e)
    BY <1>2 DEF Submit
  <2> HIDE DEF e
  <2>3. PICK R : draft' = [draft EXCEPT ![d] = R] /\ RowsTyped(R)
    BY <2>1, <2>2, AppendTyped
  <2>4. /\ local' = [local EXCEPT ![d] = [local[d] EXCEPT !.hermes_run_id = TRUE]]
        /\ [local[d] EXCEPT !.hermes_run_id = TRUE].hermes_status \in HermesStatuses
    BY <1>1, <1>2 DEF Submit
  <2>5. /\ pc' = [pc EXCEPT ![d] = "poll"] /\ UNCHANGED <<lock, visible>>
        /\ expired' \in [Demos -> BOOLEAN]
    BY <1>2, OwnTyped DEF Submit, Goto
  <2> QED
    BY <2>3, <2>4, <2>5, TypedStep DEF StatusAt
<1>3. CASE SubmitFails(d) \/ PollMismatch(d)
  <2> DEFINE e == [Event("hermes.run.failed", "degraded") EXCEPT
                     !.submission_completed = local[d].hermes_run_id]
             x == [local[d] EXCEPT !.hermes_status = "unavailable"]
  <2>1. e \in Entry /\ e \in Events
    <3>1. /\ "hermes.run.failed" \in Words /\ "degraded" \in Words
          /\ "hermes.run.failed" \in EventNames /\ "degraded" \in EventStatuses
      BY DEF Words, EventNames, EventStatuses, HermesEvents
    <3> QED
      BY <1>1, <3>1, EventEntry, EventTyped
  <2>2. /\ Append1(d, e) /\ local' = [local EXCEPT ![d] = x]
        /\ pc' = [pc EXCEPT ![d] = "build"] /\ UNCHANGED <<lock, visible, expired>>
    BY <1>3 DEF SubmitFails, PollMismatch, WithoutHermes, Goto
  <2>3. x.hermes_status \in Recordable /\ x.hermes_status \in HermesStatuses
    BY OwnTyped, StatusSets
  <2> HIDE DEF e, x
  <2>4. PICK R : draft' = [draft EXCEPT ![d] = R] /\ RowsTyped(R)
    BY <2>1, <2>2, AppendTyped
  <2>5. expired' \in [Demos -> BOOLEAN]
    BY <2>2 DEF TypedInv
  <2> QED
    BY <2>2, <2>3, <2>4, <2>5, TypedStep DEF StatusAt
<1>4. CASE Stop(d)
  <2> DEFINE e == [Event("hermes.run.stop_requested", "degraded") EXCEPT
                     !.remote_status = local[d].hermes_status]
  <2>1. local[d].hermes_status \in Answers /\ local[d].hermes_status \in Words
    BY <1>1, <1>4 DEF Stop, TypedInv, StatusAt
  <2>2. e \in Entry /\ e \in Events
    <3>1. /\ "hermes.run.stop_requested" \in Words /\ "degraded" \in Words
          /\ "hermes.run.stop_requested" \in EventNames /\ "degraded" \in EventStatuses
      BY DEF Words, EventNames, EventStatuses, HermesEvents
    <3> QED
      BY <2>1, <3>1, EventEntry, EventTyped
  <2>3. /\ Append1(d, e) /\ UNCHANGED <<local, lock, visible>>
        /\ pc' = [pc EXCEPT ![d] = "wait"] /\ expired' \in [Demos -> BOOLEAN]
    BY <1>4, OwnTyped DEF Stop, StopAccepted, Goto
  <2> HIDE DEF e
  <2>4. PICK R : draft' = [draft EXCEPT ![d] = R] /\ RowsTyped(R)
    BY <2>2, <2>3, AppendTyped
  <2>5. local' = [local EXCEPT ![d] = local[d]]
    BY <2>3, OwnTyped
  <2> QED
    BY <1>1, <2>3, <2>4, <2>5, TypedStep DEF StatusAt
<1> QED
  BY <1>2, <1>3, <1>4

\* Polling, before and after the stop request.
LEMMA PollTyped ==
  ASSUME DemoInv, TypedInv, NEW d \in Demos, Poll(d) \/ Wait(d)
  PROVE  TypedInv'
<1>1. PICK s \in GetRun(d), l \in {"observe", "stop", "poll", "wait"} :
         /\ local' = [local EXCEPT ![d].hermes_status = s]
         /\ pc' = [pc EXCEPT ![d] = l]
  BY DEF Poll, Wait, Goto
<1>2. s \in Answers /\ s \in HermesStatuses
  BY StatusSets, Own DEF GetRun, Answers
<1>3. StatusAt(l, [local[d] EXCEPT !.hermes_status = s].hermes_status)
  BY <1>1, <1>2, OwnTyped DEF StatusAt
<1>4. /\ draft' = [draft EXCEPT ![d] = draft[d]] /\ UNCHANGED <<lock, visible>>
      /\ expired' \in [Demos -> BOOLEAN]
  BY OwnTyped DEF Poll, Wait, TypedInv
<1> QED
  BY <1>1, <1>3, <1>4, OwnTyped, TypedStep

LEMMA ObserveTyped ==
  ASSUME DemoInv, TypedInv, NEW d \in Demos, Observe(d)
  PROVE  TypedInv'
<1> DEFINE s == local[d].hermes_status
           seen == [Event("hermes.run.observed", IF s = "completed" THEN "running"
                                                                    ELSE "degraded")
                      EXCEPT !.remote_status = s]
           failure == [Event("hermes.run.terminal_failure", "degraded")
                         EXCEPT !.remote_status = s]
           more == IF s = "completed" THEN <<seen>> ELSE <<seen, failure>>
           T == draft[d].timeline \o more
           R == [draft[d] EXCEPT !.timeline = T]
           x == [local[d] EXCEPT !.hermes_output = ExtractOutput(d)]
<1>1. /\ pc[d] = "observe" /\ pc' = [pc EXCEPT ![d] = "build"]
      /\ draft' = [draft EXCEPT ![d] = R] /\ local' = [local EXCEPT ![d] = x]
      /\ UNCHANGED <<lock, visible, expired>>
  BY DEF Observe, Goto
<1>2. s \in TERMINAL_HERMES_STATES
  BY <1>1, Own DEF DraftInv
<1>3. s \in Answers /\ s \in Words /\ s \in Recordable /\ s \in HermesStatuses
  BY <1>2, StatusSets, Own DEF Answers, Recordable
<1>4. seen \in Entry /\ failure \in Entry /\ seen \in Events /\ failure \in Events
  <2>1. /\ {"hermes.run.observed", "hermes.run.terminal_failure"} \subseteq Words \cap EventNames
        /\ {"running", "degraded"} \subseteq Words \cap EventStatuses
    BY DEF Words, EventNames, EventStatuses, HermesEvents
  <2>2. (IF s = "completed" THEN "running" ELSE "degraded") \in Words \cap EventStatuses
    BY <2>1
  <2> HIDE DEF s
  <2> QED
    BY <1>3, <2>1, <2>2, EventEntry, EventTyped
<1>5. /\ x.hermes_status = s
  BY OwnTyped
<1> HIDE DEF s, seen, failure, x
<1>6. more \in Seq(Entry) /\ Elements(more) \subseteq Events
  BY <1>4 DEF Elements
<1> HIDE DEF more
<1>7. /\ T \in Seq(Entry) /\ Elements(T) = Elements(draft[d].timeline) \cup Elements(more)
  BY <1>6, OwnTyped, Concatenated
<1> HIDE DEF T
<1>8. /\ R.timeline = T /\ R.execution_mode = draft[d].execution_mode
      /\ R.result = draft[d].result
  BY OwnTyped DEF Rows
<1> HIDE DEF R
<1>9. RowsTyped(R)
  BY <1>6, <1>7, <1>8, OwnTyped DEF RowsTyped
<1>10. expired' \in [Demos -> BOOLEAN]
  BY <1>1 DEF TypedInv
<1> QED
  BY <1>1, <1>3, <1>5, <1>9, <1>10, TypedStep DEF StatusAt

LEMMA BuildTyped ==
  ASSUME DemoInv, TypedInv, NEW d \in Demos, Build(d)
  PROVE  TypedInv'
<1> DEFINE T == draft[d].timeline \o BuildEvents
           r == Result(d)
           R == [draft[d] EXCEPT !.timeline = T, !.result = <<r>>]
<1>1. /\ pc[d] = "build" /\ pc' = [pc EXCEPT ![d] = "commit"]
      /\ draft' = [draft EXCEPT ![d] = R] /\ UNCHANGED <<lock, visible, expired, local>>
  BY DEF Build, Goto
<1>2. local[d].hermes_status \in Recordable
  BY <1>1 DEF TypedInv, StatusAt
<1>3. r.execution_mode \in Modes /\ r.hermes_status \in HermesStatuses \ {"none", "degraded"}
  BY <1>2, StatusSets DEF Result, ResultMode, Modes
<1> HIDE DEF r
<1>4. T \in Seq(Entry) /\ Elements(T) = Elements(draft[d].timeline) \cup Elements(BuildEvents)
  BY OwnTyped, StageEvents, Concatenated
<1> HIDE DEF T
<1>5. /\ R.timeline = T /\ R.execution_mode = draft[d].execution_mode /\ R.result = <<r>>
  BY OwnTyped DEF Rows
<1> HIDE DEF R
<1>6. RowsTyped(R)
  BY <1>3, <1>4, <1>5, OwnTyped, StagesTyped DEF RowsTyped
<1>7. /\ local' = [local EXCEPT ![d] = local[d]] /\ expired' \in [Demos -> BOOLEAN]
      /\ StatusAt("commit", local[d].hermes_status)
  BY <1>1, OwnTyped DEF TypedInv, StatusAt
<1> QED
  BY <1>1, <1>6, <1>7, TypedStep

LEMMA InitTypedInv == Init => TypedInv
<1> SUFFICES ASSUME Init
             PROVE  TypedInv
  OBVIOUS
<1>1. \A d \in Demos : visible[d] = NoRows /\ draft[d] = NoRows /\ local[d] = NoLocal /\ pc[d] = "idle"
  BY DEF Init
<1>2. lock = NoDemo /\ expired \in [Demos -> BOOLEAN]
  BY DEF Init
<1> QED
  BY <1>1, <1>2, NothingTyped DEF TypedInv, StatusAt

LEMMA NextTypedInv == DemoInv /\ TypedInv /\ [Next]_vars => TypedInv'
<1> SUFFICES ASSUME DemoInv, TypedInv, [Next]_vars
             PROVE  TypedInv'
  OBVIOUS
<1>1. CASE UNCHANGED vars
  BY <1>1 DEF vars, TypedInv, RowsTyped, StatusAt
<1>2. ASSUME NEW d \in Demos, Begin(d) \/ BeginRefused(d)
      PROVE  TypedInv'
  <2>1. /\ UNCHANGED <<visible, draft, expired, local>> /\ lock' \in {lock, d}
        /\ \E l \in {"probe", "raised"} : pc' = [pc EXCEPT ![d] = l]
    BY <1>2 DEF Begin, BeginRefused, Goto
  <2>2. /\ draft' = [draft EXCEPT ![d] = draft[d]] /\ local' = [local EXCEPT ![d] = local[d]]
        /\ expired' \in [Demos -> BOOLEAN]
        /\ \A l \in {"probe", "raised"} : StatusAt(l, local[d].hermes_status)
    BY <2>1, OwnTyped DEF TypedInv, StatusAt
  <2> QED
    BY <2>1, <2>2, OwnTyped, TypedStep
<1>3. ASSUME NEW d \in Demos, StopFails(d) \/ WaitFails(d) \/ Abort(d) \/ Commit(d)
      PROVE  TypedInv'
  <2>1. /\ visible' \in {visible, [visible EXCEPT ![d] = draft[d]]}
        /\ \E l \in {"raised", "done"} : Leave(d, l)
    BY <1>3 DEF StopFails, WaitFails, Abort, Commit, Raise, RollsBack
  <2> QED
    BY <2>1, LeaveTyped
<1>4. ASSUME NEW d \in Demos, Remote(d) \/ Deadline(d)
      PROVE  TypedInv'
  <2>1. UNCHANGED <<lock, visible, draft, local, pc>> /\ expired' \in [Demos -> BOOLEAN]
    BY <1>4 DEF Remote, Deadline, TypedInv
  <2> QED
    BY <2>1 DEF TypedInv, RowsTyped, StatusAt
<1>5. ASSUME NEW d \in Demos, Step(d)
      PROVE  TypedInv'
  BY <1>2, <1>3, <1>5, ProbeTyped, HermesStepTyped, PollTyped, ObserveTyped, BuildTyped
  DEF Step, LocalStep, HermesStep
<1> QED
  BY <1>1, <1>3, <1>4, <1>5 DEF Next

\* A result only ever records a state the remote run ended in, or that Hermes was
\* not used: never that it was unreachable at one poll, and never the state of a
\* run that had not begun (demo.py).
THEOREM DemoTypesKept == Spec => []TypeOK
<1>1. DemoInv /\ TypedInv => TypeOK
  <2> SUFFICES ASSUME DemoInv, TypedInv
               PROVE  TypeOK
    OBVIOUS
  <2>1. \A R : RowsTyped(R) => IsRows(R)
    BY DEF RowsTyped, IsRows, Modes, Elements
  <2>2. local \in [Demos -> [hermes_run_id : BOOLEAN, hermes_status : HermesStatuses,
                             hermes_output : Texts]]
    BY DEF DemoInv, Types, TypedInv, StatusAt
  <2> QED
    BY <2>1, <2>2 DEF TypeOK, DemoInv, Types, TypedInv, Labels
<1> QED
  BY <1>1, DemosInv, InitTypedInv, NextTypedInv, PTL DEF Spec

----------------------------------------------------------------------------
(* What a committed demo says of a run it lost, or never started.  The row is *)
(* written before the submission and may be wrong; the timeline is not.       *)

\* A submission was tried, and the timeline says how it went.
Reported(s) == Says(s, "hermes.run.submitted") \/ Says(s, "hermes.run.failed")

Told(R, d) == remote[d] # "none" \/ R.execution_mode = "structured" => Reported(R.timeline)

ToldInv ==
    \A d \in Demos :
        /\ pc[d] \in {"poll", "stop", "wait", "observe", "build", "commit"} => Told(draft[d], d)
        /\ visible[d] # NoRows => Told(visible[d], d)

\* Where a demo is committed, degraded integrations are reported: the dashboard
\* does not say "not configured" if Hermes ever got a run.  And a row that says
\* "structured" of a run that was never submitted is corrected by its timeline,
\* which says that the submission failed, and by its result.
CommittedReported ==
    \A d \in Demos : visible[d] # NoRows =>
        /\ remote[d] # "none" => HermesHealth # "not_configured"
        /\ visible[d].execution_mode = "structured" /\ ~InTimeline(d, "hermes.run.submitted") =>
              /\ InTimeline(d, "hermes.run.failed")
              /\ visible[d].result[1].execution_mode = "manual/unstructured"

LEMMA ToldStep ==
  ASSUME DemoInv, ToldInv, NEW d \in Demos, NEW l, pc' = [pc EXCEPT ![d] = l],
         \A c \in Demos \ {d} : /\ visible'[c] = visible[c] /\ draft'[c] = draft[c]
                                /\ remote'[c] = remote[c],
         l \in {"poll", "stop", "wait", "observe", "build", "commit"} => Told(draft[d], d)',
         visible'[d] # NoRows => Told(visible[d], d)'
  PROVE  ToldInv'
<1>1. ASSUME NEW c \in Demos \ {d}
      PROVE  /\ pc'[c] \in {"poll", "stop", "wait", "observe", "build", "commit"} =>
                   Told(draft[c], c)'
             /\ visible'[c] # NoRows => Told(visible[c], c)'
  BY DEF DemoInv, Types, ToldInv, Told
<1>2. pc'[d] = l
  BY DEF DemoInv, Types
<1> QED
  BY <1>1, <1>2 DEF ToldInv

\* d goes on to say at least what it said.
LEMMA SaysMore ==
  ASSUME DemoInv, ToldInv, NEW d \in Demos, NEW l, pc' = [pc EXCEPT ![d] = l],
         pc[d] \in {"poll", "stop", "wait", "observe", "build"}, NEW R,
         draft' = [draft EXCEPT ![d] = R], R.execution_mode = draft[d].execution_mode,
         Elements(draft[d].timeline) \subseteq Elements(R.timeline),
         UNCHANGED <<visible, remote>>
  PROVE  ToldInv'
<1>1. draft'[d] = R /\ visible[d] = NoRows
  BY Own DEF DemoInv, Types, VisibleInv
<1>2. Told(draft[d], d)'
  BY <1>1 DEF ToldInv, Told, Reported, Says
<1> QED
  BY <1>1, <1>2, ToldStep DEF DemoInv, Types

\* d appends e.
LEMMA AppendSays ==
  ASSUME DemoInv, NEW d \in Demos, NEW e \in Entry, Append1(d, e)
  PROVE  \E R : /\ draft' = [draft EXCEPT ![d] = R]
                /\ R.execution_mode = draft[d].execution_mode
                /\ Elements(R.timeline) = Elements(draft[d].timeline) \cup {e}
<1> DEFINE R == [draft[d] EXCEPT !.timeline = Append(@, e)]
<1>1. draft' = [draft EXCEPT ![d] = R] /\ R.timeline = Append(draft[d].timeline, e)
  BY OneMore
<1>2. R.execution_mode = draft[d].execution_mode
  BY Own DEF Rows
<1>3. Elements(R.timeline) = Elements(draft[d].timeline) \cup {e}
  BY <1>1, OneMore
<1> HIDE DEF R
<1> QED
  BY <1>1, <1>2, <1>3

\* A demo that does not try to use Hermes says "manual/unstructured".
LEMMA ProbeTold ==
  ASSUME DemoInv, ToldInv, NEW d \in Demos, Probe(d)
  PROVE  ToldInv'
<1>1. \E l \in {"submit", "build"} :
         /\ pc' = [pc EXCEPT ![d] = l]
         /\ l = "build" => \E R : /\ draft' = [draft EXCEPT ![d] = R]
                                  /\ R.execution_mode = "manual/unstructured"
  <2>1. PICK hermes, T :
           /\ draft' = [draft EXCEPT ![d] =
                 [execution_mode |-> IF hermes = "constrained" THEN "structured"
                                                               ELSE "manual/unstructured",
                  timeline |-> T, result |-> << >>]]
           /\ pc' = [pc EXCEPT ![d] = IF hermes = "constrained" THEN "submit" ELSE "build"]
    BY DEF Probe, Goto
  <2>2. CASE hermes = "constrained"
    BY <2>1, <2>2
  <2>3. CASE hermes # "constrained"
    <3> DEFINE R == [execution_mode |-> "manual/unstructured", timeline |-> T,
                     result |-> << >>]
    <3>1. draft' = [draft EXCEPT ![d] = R] /\ pc' = [pc EXCEPT ![d] = "build"]
      BY <2>1, <2>3
    <3>2. R.execution_mode = "manual/unstructured"
      OBVIOUS
    <3> HIDE DEF R
    <3> QED
      BY <3>1, <3>2
  <2> QED
    BY <2>2, <2>3
<1>2. pc[d] = "probe" /\ UNCHANGED <<visible, remote>>
  BY DEF Probe
<1>3. \A c \in Demos \ {d} : draft'[c] = draft[c]
  BY DEF Probe, DemoInv, Types
<1>4. remote[d] = "none" /\ visible[d] = NoRows
  BY <1>2, Own DEF DraftInv, VisibleInv
<1>5. \A R : draft' = [draft EXCEPT ![d] = R] => draft'[d] = R
  BY DEF DemoInv, Types
<1>6. PICK l \in {"submit", "build"} :
         /\ pc' = [pc EXCEPT ![d] = l]
         /\ l = "build" => draft'[d].execution_mode = "manual/unstructured"
  BY <1>1, <1>5
<1>7. l = "build" => Told(draft[d], d)'
  BY <1>2, <1>4, <1>6 DEF Told
<1> QED
  BY <1>2, <1>3, <1>4, <1>6, <1>7, ToldStep

\* A submission is told of when it is answered and when it is not.
LEMMA SubmissionTold ==
  ASSUME DemoInv, ToldInv, NEW d \in Demos, Submit(d) \/ SubmitFails(d) \/ PollMismatch(d)
  PROVE  ToldInv'
<1>1. /\ pc[d] \in {"submit", "poll", "wait"} /\ UNCHANGED visible
      /\ \A c \in Demos \ {d} : remote'[c] = remote[c]
      /\ \E l \in {"poll", "build"} : pc' = [pc EXCEPT ![d] = l]
  BY DEF Submit, SubmitFails, PollMismatch, WithoutHermes, Goto, DemoInv, Types
<1>2. PICK e \in Entry : /\ e.event_type \in {"hermes.run.submitted", "hermes.run.failed"}
                         /\ Append1(d, e)
  <2>1. {"hermes.run.submitted", "hermes.run.failed", "running", "degraded"} \subseteq Words
    BY DEF Words
  <2>2. CASE Submit(d)
    <3> DEFINE e == Event("hermes.run.submitted", "running")
    <3>1. e \in Entry /\ e.event_type = "hermes.run.submitted"
      BY <2>1, EventEntry
    <3> QED
      BY <2>2, <3>1 DEF Submit
  <2>3. CASE SubmitFails(d) \/ PollMismatch(d)
    <3> DEFINE e == [Event("hermes.run.failed", "degraded") EXCEPT
                       !.submission_completed = local[d].hermes_run_id]
    <3>1. local[d].hermes_run_id \in BOOLEAN
      BY Own
    <3>2. e \in Entry /\ e.event_type = "hermes.run.failed"
      BY <2>1, <3>1, EventEntry
    <3>3. Append1(d, e)
      BY <2>3 DEF SubmitFails, PollMismatch, WithoutHermes
    <3> QED
      BY <3>2, <3>3
  <2> QED
    BY <2>2, <2>3
<1>3. PICK R : /\ draft' = [draft EXCEPT ![d] = R]
               /\ Elements(R.timeline) = Elements(draft[d].timeline) \cup {e}
  BY <1>2, AppendSays
<1>4. draft'[d] = R /\ \A c \in Demos \ {d} : draft'[c] = draft[c]
  BY <1>3 DEF DemoInv, Types
<1>5. Told(draft[d], d)'
  BY <1>2, <1>3, <1>4 DEF Told, Reported, Says
<1>6. visible'[d] = NoRows
  BY <1>1, Own DEF VisibleInv
<1> QED
  BY <1>1, <1>4, <1>5, <1>6, ToldStep

\* Polling, stopping and the local stages take nothing back.
LEMMA AfterwardsTold ==
  ASSUME DemoInv, ToldInv, NEW d \in Demos,
         Poll(d) \/ Wait(d) \/ Stop(d) \/ Observe(d) \/ Build(d)
  PROVE  ToldInv'
<1>1. /\ pc[d] \in {"poll", "stop", "wait", "observe", "build"} /\ UNCHANGED <<visible, remote>>
      /\ \E l : pc' = [pc EXCEPT ![d] = l]
  BY DEF Poll, Wait, Stop, StopAccepted, Observe, Build, Goto
<1>2. draft[d] \in Rows /\ draft[d].timeline \in Seq(Entry)
  BY Own
<1>3. CASE Poll(d) \/ Wait(d)
  <2>1. draft' = [draft EXCEPT ![d] = draft[d]]
    BY <1>3 DEF Poll, Wait, DemoInv, Types
  <2> QED
    BY <1>1, <2>1, SaysMore
<1>4. CASE Stop(d)
  <2> DEFINE e == [Event("hermes.run.stop_requested", "degraded") EXCEPT
                     !.remote_status = local[d].hermes_status]
  <2>1. "hermes.run.stop_requested" \in Words /\ "degraded" \in Words
        /\ local[d].hermes_status \in Words
    BY Own DEF Words
  <2>2. e \in Entry
    BY <2>1, EventEntry
  <2>3. Append1(d, e)
    BY <1>4 DEF Stop
  <2> HIDE DEF e
  <2>4. PICK R : /\ draft' = [draft EXCEPT ![d] = R]
                 /\ R.execution_mode = draft[d].execution_mode
                 /\ Elements(R.timeline) = Elements(draft[d].timeline) \cup {e}
    BY <2>2, <2>3, AppendSays
  <2> QED
    BY <1>1, <2>4, SaysMore
<1>5. ASSUME NEW more \in Seq(Entry), NEW R, R.timeline = draft[d].timeline \o more,
             R.execution_mode = draft[d].execution_mode, draft' = [draft EXCEPT ![d] = R]
      PROVE  ToldInv'
  <2>1. Elements(draft[d].timeline) \subseteq Elements(R.timeline)
    BY <1>2, <1>5, Concatenated
  <2> QED
    BY <1>1, <1>5, <2>1, SaysMore
<1>6. CASE Observe(d)
  <2> DEFINE s == local[d].hermes_status
             seen == [Event("hermes.run.observed", IF s = "completed" THEN "running"
                                                                      ELSE "degraded")
                        EXCEPT !.remote_status = s]
             failure == [Event("hermes.run.terminal_failure", "degraded")
                           EXCEPT !.remote_status = s]
             more == IF s = "completed" THEN <<seen>> ELSE <<seen, failure>>
             R == [draft[d] EXCEPT !.timeline = @ \o more]
  <2>1. s \in Words /\ {"hermes.run.observed", "hermes.run.terminal_failure", "running",
                        "degraded"} \subseteq Words
    BY Own DEF Words
  <2>2. (IF s = "completed" THEN "running" ELSE "degraded") \in Words
    BY <2>1
  <2>3. draft' = [draft EXCEPT ![d] = R]
    BY <1>6 DEF Observe
  <2> HIDE DEF s
  <2>4. seen \in Entry /\ failure \in Entry
    BY <2>1, <2>2, EventEntry
  <2> HIDE DEF seen, failure
  <2>5. more \in Seq(Entry)
    BY <2>4
  <2> HIDE DEF more
  <2>6. R.timeline = draft[d].timeline \o more /\ R.execution_mode = draft[d].execution_mode
    BY <1>2 DEF Rows
  <2> QED
    BY <1>5, <2>3, <2>5, <2>6
<1>7. CASE Build(d)
  <2> DEFINE R == [draft[d] EXCEPT !.timeline = @ \o BuildEvents, !.result = <<Result(d)>>]
  <2>1. draft' = [draft EXCEPT ![d] = R]
    BY <1>7 DEF Build
  <2>2. /\ R.timeline = draft[d].timeline \o BuildEvents
        /\ R.execution_mode = draft[d].execution_mode
    BY <1>2 DEF Rows
  <2> HIDE DEF R
  <2> QED
    BY <1>5, <2>1, <2>2, StageEvents
<1> QED
  BY <1>3, <1>4, <1>6, <1>7

LEMMA NextToldInv == DemoInv /\ ToldInv /\ [Next]_vars => ToldInv'
<1> SUFFICES ASSUME DemoInv, ToldInv, [Next]_vars
             PROVE  ToldInv'
  OBVIOUS
<1>1. CASE UNCHANGED vars
  BY <1>1 DEF vars, ToldInv, Told
<1>2. ASSUME NEW d \in Demos, Begin(d) \/ BeginRefused(d)
      PROVE  ToldInv'
  <2>1. /\ \E l \in {"probe", "raised"} : pc' = [pc EXCEPT ![d] = l]
        /\ UNCHANGED <<visible, draft, remote>>
    BY <1>2 DEF Begin, BeginRefused, Goto
  <2>2. visible'[d] # NoRows => Told(visible[d], d)'
    BY <2>1 DEF ToldInv, Told
  <2> QED
    BY <2>1, <2>2, ToldStep
<1>3. ASSUME NEW d \in Demos, StopFails(d) \/ WaitFails(d) \/ Abort(d)
      PROVE  ToldInv'
  <2>1. /\ pc' = [pc EXCEPT ![d] = "raised"] /\ UNCHANGED <<visible, remote>>
        /\ \A c \in Demos \ {d} : draft'[c] = draft[c]
    BY <1>3 DEF StopFails, WaitFails, Abort, Raise, RollsBack, Leave, Goto, DemoInv, Types
  <2>2. visible'[d] # NoRows => Told(visible[d], d)'
    BY <2>1 DEF ToldInv, Told
  <2> QED
    BY <2>1, <2>2, ToldStep
<1>4. ASSUME NEW d \in Demos, Commit(d)
      PROVE  ToldInv'
  <2>1. /\ pc[d] = "commit" /\ pc' = [pc EXCEPT ![d] = "done"] /\ UNCHANGED remote
        /\ visible'[d] = draft[d]
        /\ \A c \in Demos \ {d} : draft'[c] = draft[c] /\ visible'[c] = visible[c]
    BY <1>4 DEF Commit, Leave, Goto, DemoInv, Types
  <2>2. Told(visible[d], d)'
    BY <2>1 DEF ToldInv, Told
  <2> QED
    BY <2>1, <2>2, ToldStep
<1>5. ASSUME NEW d \in Demos, Remote(d)
      PROVE  ToldInv'
  <2>1. /\ UNCHANGED <<visible, draft, pc>> /\ remote[d] # "none"
        /\ \A c \in Demos \ {d} : remote'[c] = remote[c]
    BY <1>5 DEF Remote, DemoInv, Types
  <2>2. ASSUME NEW c \in Demos, NEW R, Told(R, c)
        PROVE  remote'[c] # "none" \/ R.execution_mode = "structured" => Reported(R.timeline)
    BY <2>1, <2>2 DEF Told
  <2> QED
    BY <2>1, <2>2 DEF ToldInv, Told
<1>6. ASSUME NEW d \in Demos, Deadline(d)
      PROVE  ToldInv'
  BY <1>6 DEF Deadline, ToldInv, Told
<1>7. ASSUME NEW d \in Demos, Step(d)
      PROVE  ToldInv'
  BY <1>2, <1>3, <1>4, <1>7, ProbeTold, SubmissionTold, AfterwardsTold
  DEF Step, LocalStep, HermesStep
<1> QED
  BY <1>1, <1>3, <1>5, <1>6, <1>7 DEF Next

\* What holds of the two statements of docs/OPERATING-INVARIANTS.md that fail
\* where a demo is rolled back, or where its row is read alone.
THEOREM CommittedRunsReported == Spec => []CommittedReported
<1>1. Init => ToldInv
  BY DEF Init, ToldInv
<1>2. DemoInv /\ TypedInv /\ ToldInv => CommittedReported
  <2> SUFFICES ASSUME DemoInv, TypedInv, ToldInv, NEW d \in Demos, visible[d] # NoRows
               PROVE  /\ remote[d] # "none" => HermesHealth # "not_configured"
                      /\ visible[d].execution_mode = "structured"
                           /\ ~InTimeline(d, "hermes.run.submitted") =>
                            /\ InTimeline(d, "hermes.run.failed")
                            /\ visible[d].result[1].execution_mode = "manual/unstructured"
    BY DEF CommittedReported
  <2>1. Told(visible[d], d) /\ WholeRows(visible[d], d)
    BY Seen DEF ToldInv
  <2>2. remote[d] # "none" => HermesHealth # "not_configured"
    <3>1. remote[d] # "none" => \E type \in HermesEvents : InTimeline(d, type)
      BY <2>1, Seen DEF Told, Reported, HermesEvents
    <3> QED
      BY <3>1 DEF HermesHealth
  <2>3. visible[d].result[1].execution_mode \in Modes
    <3>1. 1 \in DOMAIN visible[d].result
      BY <2>1, Seen DEF WholeRows, Rows
    <3> QED
      BY <3>1 DEF TypedInv, RowsTyped
  <2>4. ASSUME visible[d].execution_mode = "structured", ~InTimeline(d, "hermes.run.submitted")
        PROVE  /\ InTimeline(d, "hermes.run.failed")
               /\ visible[d].result[1].execution_mode = "manual/unstructured"
    BY <2>1, <2>3, <2>4, Seen DEF Told, Reported, WholeRows, ResultTrue, Modes
  <2> QED
    BY <2>2, <2>4
<1> QED
  BY <1>1, <1>2, NextToldInv, InitDemoInv, NextDemoInv, InitTypedInv, NextTypedInv,
     PTL DEF Spec

=============================================================================
