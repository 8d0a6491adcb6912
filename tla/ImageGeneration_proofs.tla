----------------------- MODULE ImageGeneration_proofs -----------------------
(***************************************************************************)
(* For any number of threads and requests, and any aborts: decisions are   *)
(* made once, and the provider is only called under an approval.           *)
(***************************************************************************)
EXTENDS ImageGeneration, Integers, FiniteSetTheorems, TLAPS

Choices == {"none", "awaiting_approval", "blocked", "not_attempted", "attempted"}
             \cup Decisions \cup Outcomes
Documents == [status : Choices, attempt_status : {"not_attempted", "attempted"},
              approval : BOOLEAN]

Args == [request : Requests \cup {NoRequest}, linked : Requests \cup {NoRequest},
         choice : Choices, outputs : Int]

\* A thread in the middle of a call knows the request it is about.
Busy == {"submit_task", "submit_run", "submit_created", "submit_approval", "submit_event",
         "submit_request", "decide_request", "decide_resolve", "decide_event",
         "execute_approval", "execute_start", "execute_generate", "execute_import",
         "execute_update", "execute_finish"}

\* In the middle of decide_approval, before the decision is made.
Deciding == {"decide_request", "decide_resolve"}

Labels == Busy \cup {"idle", "done", "dead"}

\* What the proofs need of the types.
Types ==
    /\ decision \in [Requests -> {"pending"} \cup Decisions]
    /\ request \in [Requests -> Documents]
    /\ calls \in [Requests -> Nat]
    /\ pc \in [Workers -> Labels]
    /\ arg \in [Workers -> Args]

KnowsRequest == \A w \in Workers : pc[w] \in Busy => arg[w].request \in Requests
KnowsChoice  == \A w \in Workers : pc[w] \in Deciding => arg[w].choice \in Decisions

\* Between its check and its call, execute relies on an approval.
Authorized ==
    \A w \in Workers : pc[w] \in {"execute_start", "execute_generate"} =>
        decision[arg[w].request] = "approved"

IInv == Types /\ KnowsRequest /\ KnowsChoice /\ Authorized /\ CalledOnlyWhenApproved

\* A step of w that makes no decision, calls the provider only under an approval,
\* and does not take w to where execute relies on one.
LEMMA LocalStep ==
  ASSUME IInv, NEW w \in Workers,
         NEW l \in Labels \ {"execute_start", "execute_generate"},
         pc' = [pc EXCEPT ![w] = l],
         arg' \in [Workers -> Args], \A v \in Workers \ {w} : arg'[v] = arg[v],
         l \in Busy => arg'[w].request \in Requests,
         l \in Deciding => arg'[w].choice \in Decisions,
         request' \in [Requests -> Documents],
         calls' \in [Requests -> Nat],
         \A q \in Requests : calls'[q] > 0 => calls[q] > 0 \/ decision[q] = "approved",
         UNCHANGED decision
  PROVE  IInv'
<1>1. Types'
  BY DEF IInv, Types
<1>2. \A v \in Workers : pc'[v] = IF v = w THEN l ELSE pc[v]
  BY DEF IInv, Types
<1>3. KnowsRequest'
  BY <1>2 DEF IInv, KnowsRequest
<1>4. KnowsChoice'
  BY <1>2 DEF IInv, KnowsChoice
<1>5. Authorized'
  BY <1>2 DEF IInv, Authorized
<1>6. CalledOnlyWhenApproved'
  BY DEF IInv, CalledOnlyWhenApproved
<1> QED
  BY <1>1, <1>3, <1>4, <1>5, <1>6 DEF IInv

LEMMA QuietStep ==
  ASSUME IInv, NEW w \in Workers,
         NEW l \in Labels \ {"execute_start", "execute_generate"},
         pc' = [pc EXCEPT ![w] = l],
         arg' \in [Workers -> Args], \A v \in Workers \ {w} : arg'[v] = arg[v],
         arg'[w].request \in Requests,
         l \in Deciding => arg'[w].choice \in Decisions,
         request' \in [Requests -> Documents],
         UNCHANGED <<decision, calls>>
  PROVE  IInv'
<1>1. calls' \in [Requests -> Nat]
  BY DEF IInv, Types
<1> QED
  BY <1>1, LocalStep

\* The usual case: only the place of w changes, of what the invariant is about.
LEMMA GoOn ==
  ASSUME IInv, NEW w \in Workers, pc[w] \in Busy,
         NEW l \in Labels \ {"execute_start", "execute_generate"},
         l \in Deciding => pc[w] \in Deciding,
         pc' = [pc EXCEPT ![w] = l],
         UNCHANGED <<decision, request, calls, arg>>
  PROVE  IInv'
<1>1. arg' \in [Workers -> Args] /\ request' \in [Requests -> Documents]
  BY DEF IInv, Types
<1>2. arg'[w].request \in Requests
  BY DEF IInv, KnowsRequest
<1>3. l \in Deciding => arg'[w].choice \in Decisions
  BY DEF IInv, KnowsChoice
<1> QED
  BY <1>1, <1>2, <1>3, QuietStep

\* w answers its caller.
LEMMA Answers ==
  ASSUME IInv, NEW w \in Workers, pc' = [pc EXCEPT ![w] = "done"],
         UNCHANGED <<decision, request, calls, arg>>
  PROVE  IInv'
<1>1. /\ arg' \in [Workers -> Args] /\ request' \in [Requests -> Documents]
      /\ calls' \in [Requests -> Nat]
  BY DEF IInv, Types
<1>2. "done" \in Labels /\ "done" \notin Busy \cup Deciding
  BY DEF Labels, Busy, Deciding
<1> QED
  BY <1>1, <1>2, LocalStep

\* w goes to where it relies on an approval that it has, or has just seen.
LEMMA ReliesOnApproval ==
  ASSUME IInv, NEW w \in Workers, arg[w].request \in Requests,
         decision[arg[w].request] = "approved",
         NEW l \in {"execute_start", "execute_generate"}, pc' = [pc EXCEPT ![w] = l],
         UNCHANGED <<decision, request, calls, arg>>
  PROVE  IInv'
<1>1. l \in Labels
  BY DEF Labels, Busy
<1>2. Types'
  BY <1>1 DEF IInv, Types
<1>3. \A v \in Workers : pc'[v] = IF v = w THEN l ELSE pc[v]
  BY DEF IInv, Types
<1>4. KnowsRequest'
  BY <1>3 DEF IInv, KnowsRequest
<1>5. KnowsChoice'
  BY <1>3 DEF IInv, KnowsChoice, Deciding
<1>6. Authorized'
  BY <1>3 DEF IInv, Authorized
<1>7. CalledOnlyWhenApproved'
  BY DEF IInv, CalledOnlyWhenApproved
<1> QED
  BY <1>2, <1>4, <1>5, <1>6, <1>7 DEF IInv

\* A decision on a where there was none, by a thread that goes on to l.
LEMMA DecisionStep ==
  ASSUME IInv, NEW w \in Workers, NEW a \in Requests, NEW d \in Decisions,
         decision[a] = "pending", decision' = [decision EXCEPT ![a] = d],
         NEW l \in Labels, pc' = [pc EXCEPT ![w] = l],
         l \notin Deciding \cup {"execute_start", "execute_generate"},
         l \in Busy => arg[w].request \in Requests,
         UNCHANGED <<request, calls, arg>>
  PROVE  IInv'
<1>1. Types'
  BY DEF IInv, Types
<1>2. \A v \in Workers : pc'[v] = IF v = w THEN l ELSE pc[v]
  BY DEF IInv, Types
<1>3. KnowsRequest'
  BY <1>2 DEF IInv, KnowsRequest
<1>4. \A q \in Requests : decision[q] = "approved" => decision'[q] = "approved"
  BY DEF IInv, Types
<1>5. Authorized'
  <2> SUFFICES ASSUME NEW v \in Workers, pc'[v] \in {"execute_start", "execute_generate"}
               PROVE  decision'[arg'[v].request] = "approved"
    BY DEF Authorized
  <2>1. pc[v] \in {"execute_start", "execute_generate"}
    BY <1>2
  <2>2. arg[v].request \in Requests /\ decision[arg[v].request] = "approved"
    BY <2>1 DEF IInv, KnowsRequest, Busy, Authorized
  <2> QED
    BY <2>2, <1>4
<1>6. KnowsChoice'
  BY <1>2 DEF IInv, KnowsChoice
<1>7. CalledOnlyWhenApproved'
  BY <1>4 DEF IInv, CalledOnlyWhenApproved
<1> QED
  BY <1>1, <1>3, <1>5, <1>6, <1>7 DEF IInv

LEMMA InitIInv == Init => IInv
<1> SUFFICES ASSUME Init
             PROVE  IInv
  OBVIOUS
<1>1. decision \in [Requests -> {"pending"} \cup Decisions] /\ calls \in [Requests -> Nat]
  BY DEF Init
<1>2. request \in [Requests -> Documents]
  BY DEF Init, Documents, Choices
<1>3. pc \in [Workers -> Labels] /\ \A w \in Workers : pc[w] = "idle"
  BY DEF Init, Labels
<1>4. arg \in [Workers -> Args]
  BY DEF Init, Args, Choices
<1>5. CalledOnlyWhenApproved
  BY DEF Init, CalledOnlyWhenApproved
<1> QED
  BY <1>1, <1>2, <1>3, <1>4, <1>5 DEF IInv, Types, KnowsRequest, KnowsChoice, Busy, Deciding,
     Authorized

\* The steps of submit.
LEMMA SubmitIInv ==
  ASSUME IInv, NEW w \in Workers,
         \/ \E q \in Requests : SubmitProject(w, q)
         \/ SubmitTask(w) \/ SubmitRun(w) \/ SubmitCreated(w)
         \/ SubmitApproval(w) \/ SubmitEvent(w) \/ SubmitRequest(w)
  PROVE  IInv'
<1>1. ASSUME NEW q \in Requests, SubmitProject(w, q)
      PROVE  IInv'
  <2>1. arg' = [arg EXCEPT ![w].request = q] /\ pc' = [pc EXCEPT ![w] = "submit_task"]
    BY <1>1 DEF SubmitProject, Goto
  <2>2. UNCHANGED <<decision, request, calls>> /\ "submit_task" \in Labels \ Deciding
    BY <1>1 DEF SubmitProject, Labels, Busy, Deciding
  <2>3. arg' \in [Workers -> Args] /\ arg'[w].request = q
    BY <2>1 DEF IInv, Types, Args
  <2>4. \A v \in Workers \ {w} : arg'[v] = arg[v]
    BY <2>1 DEF IInv, Types
  <2>5. request' \in [Requests -> Documents]
    BY <2>2 DEF IInv, Types
  <2> QED
    BY <2>1, <2>2, <2>3, <2>4, <2>5, QuietStep
<1>2. CASE SubmitTask(w)
  BY <1>2, GoOn DEF SubmitTask, Goto, Labels, Busy, Deciding
<1>3. CASE SubmitRun(w)
  BY <1>3, GoOn DEF SubmitRun, Goto, Labels, Busy, Deciding
<1>4. CASE SubmitCreated(w)
  <2>1. PICK supported \in BOOLEAN :
           /\ arg' = [arg EXCEPT ![w].choice =
                        IF supported THEN "awaiting_approval" ELSE "blocked"]
           /\ Goto(w, IF supported THEN "submit_approval" ELSE "submit_event")
    BY <1>4 DEF SubmitCreated
  <2>2. arg' \in [Workers -> Args] /\ arg'[w].request = arg[w].request
    BY <2>1 DEF IInv, Types, Args, Choices
  <2>3. \A v \in Workers \ {w} : arg'[v] = arg[v]
    BY <2>1 DEF IInv, Types
  <2>4. arg[w].request \in Requests /\ UNCHANGED <<decision, request, calls>>
    BY <1>4 DEF SubmitCreated, Busy, IInv, KnowsRequest
  <2>5. request' \in [Requests -> Documents]
    BY <2>4 DEF IInv, Types
  <2>6. PICK l \in {"submit_approval", "submit_event"} : pc' = [pc EXCEPT ![w] = l]
    BY <2>1 DEF Goto
  <2>7. l \in Labels /\ l \notin Deciding \cup {"execute_start", "execute_generate"}
    BY <2>6 DEF Labels, Busy, Deciding
  <2> QED
    BY <2>2, <2>3, <2>4, <2>5, <2>6, <2>7, QuietStep
<1>5. CASE SubmitApproval(w)
  BY <1>5, GoOn DEF SubmitApproval, Goto, Labels, Busy, Deciding
<1>6. CASE SubmitEvent(w)
  BY <1>6, GoOn DEF SubmitEvent, Goto, Labels, Busy, Deciding
<1>7. CASE SubmitRequest(w)
  <2>1. arg[w] \in Args /\ arg \in [Workers -> Args] /\ request \in [Requests -> Documents]
    BY DEF IInv, Types
  <2>2. [status |-> arg[w].choice, attempt_status |-> "not_attempted",
         approval |-> arg[w].choice = "awaiting_approval"] \in Documents
    BY <2>1 DEF Args, Documents
  <2>3. request' \in [Requests -> Documents]
    BY <1>7, <2>1, <2>2 DEF SubmitRequest
  <2>4. pc' = [pc EXCEPT ![w] = "done"] /\ UNCHANGED <<decision, calls, arg>>
    BY <1>7 DEF SubmitRequest, Return
  <2>5. "done" \in Labels \ Deciding /\ "submit_request" \in Busy
    BY DEF Labels, Busy, Deciding
  <2>6. arg'[w].request \in Requests
    BY <1>7, <2>4, <2>5 DEF SubmitRequest, IInv, KnowsRequest
  <2> QED
    BY <2>1, <2>3, <2>4, <2>5, <2>6, QuietStep
<1> QED
  BY <1>1, <1>2, <1>3, <1>4, <1>5, <1>6, <1>7

\* The steps of decide_approval, and DemoOrchestrator.resolve.
LEMMA DecideIInv ==
  ASSUME IInv, NEW w \in Workers,
         \/ \E a, q \in Requests, d \in Decisions : DecideRead(w, a, q, d)
         \/ \E a \in Requests, d \in Decisions : Resolve(w, a, d)
         \/ DecideRequest(w) \/ DecideResolve(w) \/ DecideEvent(w)
  PROVE  IInv'
<1>1. ASSUME NEW a \in Requests, NEW q \in Requests, NEW d \in Decisions,
             DecideRead(w, a, q, d)
      PROVE  IInv'
  <2>1. UNCHANGED <<decision, request, calls>>
    BY <1>1 DEF DecideRead
  <2>2. CASE pc' = [pc EXCEPT ![w] = "done"] /\ UNCHANGED arg
    BY <2>1, <2>2, Answers
  <2>3. CASE /\ arg' = [arg EXCEPT ![w].request = a, ![w].linked = q, ![w].choice = d]
             /\ pc' = [pc EXCEPT ![w] = "decide_request"]
    <3>1. arg' \in [Workers -> Args] /\ arg'[w].request \in Requests
      BY <2>3 DEF IInv, Types, Args, Choices
    <3>5. arg'[w].choice \in Decisions
      BY <2>3 DEF IInv, Types, Args
    <3>2. \A v \in Workers \ {w} : arg'[v] = arg[v]
      BY <2>3 DEF IInv, Types
    <3>3. "decide_request" \in Labels
      BY DEF Labels, Busy
    <3>4. request' \in [Requests -> Documents]
      BY <2>1 DEF IInv, Types
    <3> QED
      BY <2>1, <2>3, <3>1, <3>2, <3>3, <3>4, <3>5, QuietStep
  <2>4. \/ pc' = [pc EXCEPT ![w] = "done"] /\ UNCHANGED arg
        \/ /\ arg' = [arg EXCEPT ![w].request = a, ![w].linked = q, ![w].choice = d]
           /\ pc' = [pc EXCEPT ![w] = "decide_request"]
    BY <1>1 DEF DecideRead, Return, Goto
  <2> QED
    BY <2>2, <2>3, <2>4
<1>2. ASSUME NEW a \in Requests, NEW d \in Decisions, Resolve(w, a, d)
      PROVE  IInv'
  <2>1. pc' = [pc EXCEPT ![w] = "done"] /\ UNCHANGED <<request, calls, arg>>
    BY <1>2 DEF Resolve, Return
  <2>2. CASE Stored("approvals", a) /\ decision[a] = "pending"
    <3>1. decision' = [decision EXCEPT ![a] = d]
      BY <1>2, <2>2 DEF Resolve
    <3>2. "done" \in Labels /\ "done" \notin Busy \cup Deciding
      BY DEF Labels, Busy, Deciding
    <3> QED
      BY <2>1, <2>2, <3>1, <3>2, DecisionStep
  <2>3. CASE ~(Stored("approvals", a) /\ decision[a] = "pending")
    <3>1. UNCHANGED decision
      BY <1>2, <2>3 DEF Resolve
    <3> QED
      BY <2>1, <3>1, Answers
  <2> QED
    BY <2>2, <2>3
<1>3. CASE DecideRequest(w)
  <2>1. pc[w] \in Busy \cap Deciding /\ UNCHANGED <<decision, request, calls, arg>>
    BY <1>3 DEF DecideRequest, Busy, Deciding
  <2>2. PICK l \in {"done", "decide_resolve"} : pc' = [pc EXCEPT ![w] = l]
    BY <1>3 DEF DecideRequest, Return, Goto
  <2>3. l \in Labels \ {"execute_start", "execute_generate"}
    BY <2>2 DEF Labels, Busy
  <2> QED
    BY <2>1, <2>2, <2>3, GoOn
<1>4. CASE DecideResolve(w)
  <2>1. arg[w].request \in Requests /\ UNCHANGED <<request, calls, arg>>
    BY <1>4 DEF DecideResolve, Busy, IInv, KnowsRequest
  <2>2. CASE decision[arg[w].request] = "pending"
    <3>1. decision' = [decision EXCEPT ![arg[w].request] = arg[w].choice]
      BY <1>4, <2>2 DEF DecideResolve
    <3>2. pc' = [pc EXCEPT ![w] = "decide_event"] /\ "decide_event" \in Labels \ Deciding
      BY <1>4, <2>2 DEF DecideResolve, Goto, Labels, Busy, Deciding
    <3>3. arg[w].choice \in Decisions
      BY <1>4 DEF DecideResolve, Deciding, IInv, KnowsChoice
    <3> QED
      BY <2>1, <2>2, <3>1, <3>2, <3>3, DecisionStep
  <2>3. CASE decision[arg[w].request] # "pending"
    <3>1. pc' = [pc EXCEPT ![w] = "done"] /\ UNCHANGED decision
      BY <1>4, <2>3 DEF DecideResolve, Return
    <3> QED
      BY <2>1, <3>1, Answers
  <2> QED
    BY <2>2, <2>3
<1>5. CASE DecideEvent(w)
  BY <1>5, Answers DEF DecideEvent, Return
<1> QED
  BY <1>1, <1>2, <1>3, <1>4, <1>5

\* The steps of execute.
LEMMA ExecuteIInv ==
  ASSUME IInv, NEW w \in Workers,
         \/ \E q \in Requests : ExecuteRead(w, q)
         \/ ExecuteApproval(w) \/ ExecuteStart(w) \/ ExecuteGenerate(w)
         \/ ExecuteImport(w) \/ ExecuteUpdate(w) \/ ExecuteFinish(w)
  PROVE  IInv'
<1>1. ASSUME NEW q \in Requests, ExecuteRead(w, q)
      PROVE  IInv'
  <2>1. UNCHANGED <<decision, request, calls>>
    BY <1>1 DEF ExecuteRead
  <2>2. CASE pc' = [pc EXCEPT ![w] = "done"] /\ UNCHANGED arg
    BY <2>1, <2>2, Answers
  <2>3. CASE /\ arg' = [arg EXCEPT ![w].request = q, ![w].choice = request[q].attempt_status]
             /\ pc' = [pc EXCEPT ![w] = "execute_approval"]
    <3>1. request[q].attempt_status \in Choices
      BY DEF IInv, Types, Documents, Choices
    <3>2. arg' \in [Workers -> Args] /\ arg'[w].request \in Requests
      BY <2>3, <3>1 DEF IInv, Types, Args
    <3>3. \A v \in Workers \ {w} : arg'[v] = arg[v]
      BY <2>3 DEF IInv, Types
    <3>4. "execute_approval" \in Labels \ Deciding
      BY DEF Labels, Busy, Deciding
    <3>5. request' \in [Requests -> Documents]
      BY <2>1 DEF IInv, Types
    <3> QED
      BY <2>1, <2>3, <3>2, <3>3, <3>4, <3>5, QuietStep
  <2> QED
    BY <1>1, <2>2, <2>3 DEF ExecuteRead, Return, Goto
<1>2. CASE ExecuteApproval(w)
  <2>1. UNCHANGED <<decision, request, calls, arg>> /\ arg[w].request \in Requests
    BY <1>2 DEF ExecuteApproval, Busy, IInv, KnowsRequest
  <2>2. CASE pc' = [pc EXCEPT ![w] = "done"]
    BY <2>1, <2>2, Answers
  <2>3. CASE /\ decision[arg[w].request] = "approved"
             /\ pc' = [pc EXCEPT ![w] = "execute_start"]
    BY <2>1, <2>3, ReliesOnApproval
  <2> QED
    BY <1>2, <2>2, <2>3 DEF ExecuteApproval, Return, Goto
<1>3. CASE ExecuteStart(w)
  <2>1. UNCHANGED <<decision, request, calls, arg>> /\ pc' = [pc EXCEPT ![w] = "execute_generate"]
    BY <1>3 DEF ExecuteStart, Goto
  <2>2. arg[w].request \in Requests /\ decision[arg[w].request] = "approved"
    BY <1>3 DEF ExecuteStart, Busy, IInv, KnowsRequest, Authorized
  <2> QED
    BY <2>1, <2>2, ReliesOnApproval
<1>4. CASE ExecuteGenerate(w)
  <2>1. arg[w].request \in Requests /\ decision[arg[w].request] = "approved"
    BY <1>4 DEF ExecuteGenerate, Busy, IInv, KnowsRequest, Authorized
  <2>2. /\ calls' = [calls EXCEPT ![arg[w].request] = @ + 1]
        /\ UNCHANGED <<decision, request>>
    BY <1>4 DEF ExecuteGenerate
  <2>3. /\ calls' \in [Requests -> Nat]
        /\ \A q \in Requests : calls'[q] > 0 => calls[q] > 0 \/ decision[q] = "approved"
    BY <2>1, <2>2 DEF IInv, Types
  <2>4. PICK s \in Outcomes, n \in Int, l \in {"execute_update", "execute_import"} :
           /\ arg' = [arg EXCEPT ![w].choice = s, ![w].outputs = n]
           /\ pc' = [pc EXCEPT ![w] = l]
    BY <1>4, MaxOutputsAssumption DEF ExecuteGenerate, Goto, Outcomes
  <2>5. arg' \in [Workers -> Args] /\ arg'[w].request \in Requests
    BY <2>1, <2>4 DEF IInv, Types, Args, Choices
  <2>6. \A v \in Workers \ {w} : arg'[v] = arg[v]
    BY <2>4 DEF IInv, Types
  <2>7. l \in Labels /\ l \notin Deciding \cup {"execute_start", "execute_generate"}
    BY <2>4 DEF Labels, Busy, Deciding
  <2>8. request' \in [Requests -> Documents]
    BY <2>2 DEF IInv, Types
  <2> QED
    BY <2>2, <2>3, <2>4, <2>5, <2>6, <2>7, <2>8, LocalStep
<1>5. CASE ExecuteImport(w)
  <2>1. arg[w].request \in Requests /\ UNCHANGED <<decision, request, calls>>
    BY <1>5 DEF ExecuteImport, Busy, IInv, KnowsRequest
  <2>2. arg[w] \in Args
    BY DEF IInv, Types
  <2>3. PICK s \in Choices, n \in Int, l \in {"execute_update", "execute_import"} :
           /\ arg' = [arg EXCEPT ![w].choice = s, ![w].outputs = n]
           /\ pc' = [pc EXCEPT ![w] = l]
    <3>1. CASE /\ arg' = [arg EXCEPT ![w].outputs = @ - 1]
               /\ Goto(w, IF arg[w].outputs = 1 THEN "execute_update" ELSE "execute_import")
      <4>1. arg' = [arg EXCEPT ![w].choice = arg[w].choice, ![w].outputs = arg[w].outputs - 1]
        BY <3>1, <2>2 DEF IInv, Types, Args
      <4>2. arg[w].choice \in Choices /\ arg[w].outputs - 1 \in Int
        BY <2>2 DEF Args
      <4> QED
        BY <3>1, <4>1, <4>2 DEF Goto
    <3>2. CASE /\ arg' = [arg EXCEPT ![w].choice = "failed", ![w].outputs = 0]
               /\ Goto(w, "execute_update")
      <4>1. "failed" \in Choices /\ 0 \in Int
        BY DEF Choices, Outcomes
      <4> QED
        BY <3>2, <4>1 DEF Goto
    <3> QED
      BY <1>5, <3>1, <3>2 DEF ExecuteImport
  <2>4. arg' \in [Workers -> Args] /\ arg'[w].request \in Requests
    BY <2>1, <2>3 DEF IInv, Types, Args
  <2>5. \A v \in Workers \ {w} : arg'[v] = arg[v]
    BY <2>3 DEF IInv, Types
  <2>6. l \in Labels /\ l \notin Deciding \cup {"execute_start", "execute_generate"}
    BY <2>3 DEF Labels, Busy, Deciding
  <2>7. request' \in [Requests -> Documents]
    BY <2>1 DEF IInv, Types
  <2> QED
    BY <2>1, <2>3, <2>4, <2>5, <2>6, <2>7, QuietStep
<1>6. CASE ExecuteUpdate(w)
  <2>1. arg[w].request \in Requests /\ arg[w].choice \in Choices
    BY <1>6 DEF ExecuteUpdate, Busy, IInv, KnowsRequest, Types, Args
  <2>2. /\ request' = [request EXCEPT ![arg[w].request].status = arg[w].choice,
                                      ![arg[w].request].attempt_status = "attempted"]
        /\ pc' = [pc EXCEPT ![w] = "execute_finish"] /\ UNCHANGED <<decision, calls, arg>>
    BY <1>6 DEF ExecuteUpdate, Goto
  <2>3. request' \in [Requests -> Documents]
    BY <2>1, <2>2 DEF IInv, Types, Documents
  <2>4. "execute_finish" \in Labels \ Deciding /\ arg' \in [Workers -> Args]
    BY <2>2 DEF Labels, Busy, Deciding, IInv, Types
  <2> QED
    BY <2>1, <2>2, <2>3, <2>4, QuietStep
<1>7. CASE ExecuteFinish(w)
  BY <1>7, Answers DEF ExecuteFinish, Return
<1> QED
  BY <1>1, <1>2, <1>3, <1>4, <1>5, <1>6, <1>7

LEMMA NextIInv == IInv /\ [Next]_vars => IInv'
<1> SUFFICES ASSUME IInv, [Next]_vars
             PROVE  IInv'
  OBVIOUS
<1>1. ASSUME NEW w \in Workers, Abort(w)
      PROVE  IInv'
  <2>1. pc' = [pc EXCEPT ![w] = "dead"] /\ UNCHANGED <<decision, request, calls, arg>>
    BY <1>1 DEF Abort, Goto
  <2>2. pc[w] \in Busy
    BY <1>1 DEF Abort, IInv, Types, Labels
  <2>3. "dead" \in Labels \ Deciding
    BY DEF Labels, Deciding
  <2> QED
    BY <2>1, <2>2, <2>3, GoOn
<1>2. CASE UNCHANGED <<decision, request, calls, pc, arg>>
  BY <1>2 DEF IInv, Types, KnowsRequest, KnowsChoice, Authorized, CalledOnlyWhenApproved
<1>3. ProviderChange \/ UNCHANGED vars => UNCHANGED <<decision, request, calls, pc, arg>>
  BY DEF ProviderChange, vars
<1> QED
  BY <1>1, <1>2, <1>3, SubmitIInv, DecideIInv, ExecuteIInv DEF Next, Continue, ContinueLocal

\* The provider is only ever called for a request whose approval was granted:
\* for any number of threads, whatever they do between the check and the call.
THEOREM OnlyApprovedCalls == Spec => []CalledOnlyWhenApproved
<1>1. IInv => CalledOnlyWhenApproved
  BY DEF IInv
<1> QED
  BY <1>1, InitIInv, NextIInv, PTL DEF Spec

LEMMA DecisionsStand ==
  ASSUME IInv, Next
  PROVE  \A q \in Requests : decision[q] # "pending" => decision'[q] = decision[q]
<1> DEFINE Stands == \A q \in Requests : decision[q] # "pending" => decision'[q] = decision[q]
<1>1. ASSUME NEW w \in Workers, NEW a \in Requests, NEW d \in Decisions, Resolve(w, a, d)
      PROVE  Stands
  BY <1>1 DEF Resolve, IInv, Types
<1>2. ASSUME NEW w \in Workers, DecideResolve(w)
      PROVE  Stands
  BY <1>2 DEF DecideResolve, IInv, Types
<1>3. ASSUME UNCHANGED decision
      PROVE  Stands
  BY <1>3
<1>4. ASSUME NEW w \in Workers, Continue(w), ~DecideResolve(w)
      PROVE  UNCHANGED decision
  BY <1>4 DEF Continue, ContinueLocal, SubmitTask, SubmitRun, SubmitCreated, SubmitApproval, SubmitEvent,
       SubmitRequest, DecideRequest, DecideEvent, ExecuteApproval, ExecuteStart,
       ExecuteGenerate, ExecuteImport, ExecuteUpdate, ExecuteFinish
<1>5. ASSUME NEW w \in Workers,
             \/ \E q \in Requests : SubmitProject(w, q) \/ ExecuteRead(w, q)
             \/ \E a, q \in Requests, d \in Decisions : DecideRead(w, a, q, d)
             \/ Abort(w)
      PROVE  UNCHANGED decision
  BY <1>5 DEF SubmitProject, ExecuteRead, DecideRead, Abort
<1>6. ASSUME ProviderChange
      PROVE  Stands
  BY <1>6, <1>3 DEF ProviderChange
<1>7. ASSUME NEW w \in Workers, Continue(w)
      PROVE  Stands
  BY <1>2, <1>3, <1>4, <1>7
<1>8. ASSUME NEW w \in Workers,
             \/ \E q \in Requests : SubmitProject(w, q) \/ ExecuteRead(w, q)
             \/ \E a, q \in Requests, d \in Decisions : DecideRead(w, a, q, d)
             \/ Abort(w)
      PROVE  Stands
  BY <1>3, <1>5, <1>8
<1> HIDE DEF Stands
<1>9. Stands
  BY <1>1, <1>6, <1>7, <1>8 DEF Next
<1> QED
  BY <1>9 DEF Stands

\* No call ever writes over a decision: decide_approval's read is not trusted at
\* the write, resolve_approval reads again in its transaction.
THEOREM DecisionStands == Spec => FirstDecisionStands
<1>1. IInv /\ [Next]_vars =>
        [\A q \in Requests : decision[q] # "pending" => decision'[q] = decision[q]]_vars
  BY DecisionsStand
<1> QED
  BY <1>1, InitIInv, NextIInv, PTL DEF Spec, FirstDecisionStands

----------------------------------------------------------------------------
(* Timelines: what the calls append, and when they tell a decision.  *)

EventTypes == {"run.created", "image.generation.blocked", "approval.requested",
               "approval.decided", "approval.resolved", "run.resumed",
               "image.provider.started", "image.provider.finished"}

Entries == [event_type : EventTypes,
            status : Choices \cup {"queued", "running", "approved_local_only"},
            request_hash : Requests \cup {NoRequest}]

Timelines == timeline \in [Requests -> Seq(Entries)]

\* All that is appended, but for the last event of execute.
Unfinished == {e \in Entries : e.event_type # "image.provider.finished"}

\* The timelines grow by what the events of E say, after all that was there.
Grows(q, E) ==
    /\ timeline'[q] \in Seq(Entries)
    /\ DOMAIN timeline[q] \subseteq DOMAIN timeline'[q]
    /\ \A i \in DOMAIN timeline[q] : timeline'[q][i] = timeline[q][i]
    /\ \A i \in DOMAIN timeline'[q] \ DOMAIN timeline[q] : timeline'[q][i] \in E

LEMMA AppendGrows ==
  ASSUME Timelines, NEW q \in Requests, NEW e \in Entries, Append1(q, e)
  PROVE  /\ Timelines'
         /\ \A p \in Requests : Grows(p, IF p = q THEN {e} ELSE {})
         /\ Len(timeline[q]) + 1 \in DOMAIN timeline'[q]
         /\ timeline'[q][Len(timeline[q]) + 1] = e
         /\ DOMAIN timeline'[q] = DOMAIN timeline[q] \cup {Len(timeline[q]) + 1}
<1>1. /\ timeline' = [timeline EXCEPT ![q] = Append(timeline[q], e)]
      /\ timeline[q] \in Seq(Entries)
  BY DEF Append1, Timelines
<1>2. /\ timeline'[q] = Append(timeline[q], e)
      /\ \A p \in Requests \ {q} : timeline'[p] = timeline[p]
  BY <1>1 DEF Timelines
<1>3. Timelines'
  BY <1>1 DEF Timelines
<1>4. /\ DOMAIN timeline'[q] = DOMAIN timeline[q] \cup {Len(timeline[q]) + 1}
      /\ timeline'[q][Len(timeline[q]) + 1] = e
      /\ \A i \in DOMAIN timeline[q] : timeline'[q][i] = timeline[q][i]
  BY <1>1, <1>2
<1>5. Grows(q, {e})
  BY <1>3, <1>4 DEF Grows, Timelines
<1>6. \A p \in Requests \ {q} : Grows(p, {})
  BY <1>2, <1>3 DEF Grows, Timelines
<1> QED
  BY <1>3, <1>4, <1>5, <1>6

LEMMA UnchangedGrows ==
  ASSUME Timelines, UNCHANGED timeline
  PROVE  Timelines' /\ \A p \in Requests : Grows(p, {})
  BY DEF Timelines, Grows

LEMMA AppendUnfinished ==
  ASSUME Timelines, NEW q \in Requests, NEW e \in Unfinished, Append1(q, e)
  PROVE  Timelines' /\ \A p \in Requests : Grows(p, Unfinished)
<1>1. e \in Entries
  BY DEF Unfinished
<1>2. Timelines' /\ \A p \in Requests : Grows(p, IF p = q THEN {e} ELSE {})
  BY <1>1, AppendGrows
<1> QED
  BY <1>2 DEF Grows

\* Events of other types leave the events of types T alone.
LEMMA SameEvents ==
  ASSUME NEW q \in Requests, NEW E, Grows(q, E), NEW T, \A e \in E : e.event_type \notin T
  PROVE  /\ EventsOf(q, T)' = EventsOf(q, T)
         /\ \A i \in EventsOf(q, T) : timeline'[q][i] = timeline[q][i]
  BY DEF EventsOf, Grows

\* A timeline never loses an event.
LEMMA MoreEvents ==
  ASSUME NEW q \in Requests, NEW E, Grows(q, E), NEW T
  PROVE  EventsOf(q, T) \subseteq EventsOf(q, T)'
  BY DEF EventsOf, Grows

Told(q) == EventsOf(q, DecisionEvents)

\* An approval without a decision has no event that tells one; a thread between
\* its decision and the event is the only one, has made that decision, and
\* nothing has told it.
TellInv ==
    /\ Timelines
    /\ TimelineTellsDecision
    /\ \A q \in Requests : decision[q] = "pending" => Told(q) = {}
    /\ \A w \in Workers : pc[w] = "decide_event" =>
          decision[arg[w].request] = arg[w].choice /\ Told(arg[w].request) = {}
    /\ \A w, v \in Workers :
          pc[w] = "decide_event" /\ pc[v] = "decide_event" /\ arg[w].request = arg[v].request
            => w = v
    /\ \A w \in Workers : pc[w] \in Deciding \cup {"decide_event"} => arg[w].linked \in Requests

Untelling == {e \in Entries : e.event_type \notin DecisionEvents}

\* A step that neither decides nor tells.
LEMMA TellsNothing ==
  ASSUME IInv, TellInv, NEW w \in Workers, NEW l, l # "decide_event",
         pc[w] \notin {"decide_event", "dead"}, pc' = [pc EXCEPT ![w] = l],
         \A v \in Workers \ {w} : arg'[v] = arg[v],
         l \in Deciding => arg'[w].linked \in Requests,
         UNCHANGED decision, Timelines',
         \A q \in Requests : Grows(q, Untelling)
  PROVE  TellInv'
<1>1. \A q \in Requests :
         /\ Told(q)' = Told(q)
         /\ \A i \in Told(q) : timeline'[q][i] = timeline[q][i]
  <2>1. \A e \in Untelling : e.event_type \notin DecisionEvents
    BY DEF Untelling
  <2> QED
    BY <2>1, SameEvents DEF Told
<1>2. \A v \in Workers : pc'[v] = IF v = w THEN l ELSE pc[v]
  BY DEF IInv, Types
<1>3. TimelineMatchesDecision'
  BY <1>1 DEF TellInv, TimelineTellsDecision, TimelineMatchesDecision, Told
<1>4. GapOnlyInsideDecide'
  <2> SUFFICES ASSUME NEW q \in Requests, decision[q] # "pending", Told(q) = {}
               PROVE  \E v \in Workers : /\ pc'[v] \in {"decide_event", "dead"}
                                         /\ arg'[v].request = q /\ arg'[v].linked # NoRequest
    BY <1>1 DEF GapOnlyInsideDecide, Told
  <2>1. PICK v \in Workers : /\ pc[v] \in {"decide_event", "dead"}
                             /\ arg[v].request = q /\ arg[v].linked # NoRequest
    BY DEF TellInv, TimelineTellsDecision, GapOnlyInsideDecide, Told
  <2> QED
    BY <1>2, <2>1
<1>5. \A q \in Requests : decision'[q] = "pending" => Told(q)' = {}
  BY <1>1 DEF TellInv
<1>6. (\A v \in Workers : pc[v] = "decide_event" =>
          decision[arg[v].request] = arg[v].choice /\ Told(arg[v].request) = {})'
  <2> SUFFICES ASSUME NEW v \in Workers, pc'[v] = "decide_event"
               PROVE  decision'[arg'[v].request] = arg'[v].choice /\ Told(arg[v].request)' = {}
    OBVIOUS
  <2>1. v # w /\ pc[v] = "decide_event" /\ arg'[v] = arg[v]
    BY <1>2
  <2>2. arg[v].request \in Requests
    BY <2>1 DEF IInv, KnowsRequest, Busy
  <2> QED
    BY <1>1, <2>1, <2>2 DEF TellInv, Told, EventsOf
<1>7. \A v, u \in Workers :
          pc'[v] = "decide_event" /\ pc'[u] = "decide_event" /\ arg'[v].request = arg'[u].request
            => v = u
  BY <1>2 DEF TellInv
<1>8. \A v \in Workers : pc'[v] \in Deciding \cup {"decide_event"} => arg'[v].linked \in Requests
  BY <1>2 DEF TellInv
<1> QED
  BY <1>3, <1>4, <1>5, <1>6, <1>7, <1>8 DEF TellInv, TimelineTellsDecision

\* The usual cases: no event at all, and one event that tells no decision.
LEMMA TellsNothingQuietly ==
  ASSUME IInv, TellInv, NEW w \in Workers, NEW l, l # "decide_event",
         pc[w] \notin {"decide_event", "dead"}, pc' = [pc EXCEPT ![w] = l],
         \A v \in Workers \ {w} : arg'[v] = arg[v],
         l \in Deciding => arg'[w].linked \in Requests,
         UNCHANGED <<decision, timeline>>
  PROVE  TellInv'
<1>1. Timelines' /\ \A q \in Requests : Grows(q, {})
  BY UnchangedGrows DEF TellInv
<1>2. UNCHANGED decision /\ \A q \in Requests : Grows(q, Untelling)
  BY <1>1 DEF Grows
<1> QED
  BY <1>1, <1>2, TellsNothing

LEMMA TellsOther ==
  ASSUME IInv, TellInv, NEW w \in Workers, NEW l, l \notin Deciding \cup {"decide_event"},
         pc[w] \notin {"decide_event", "dead"}, pc' = [pc EXCEPT ![w] = l],
         \A v \in Workers \ {w} : arg'[v] = arg[v],
         UNCHANGED decision,
         NEW q \in Requests, NEW e \in Entries, e.event_type \notin DecisionEvents, Append1(q, e)
  PROVE  TellInv'
<1>1. Timelines' /\ \A p \in Requests : Grows(p, Untelling)
  <2>1. e \in Untelling
    BY DEF Untelling
  <2>2. Timelines' /\ \A p \in Requests : Grows(p, IF p = q THEN {e} ELSE {})
    BY AppendGrows DEF TellInv
  <2> QED
    BY <2>1, <2>2 DEF Grows
<1> QED
  BY <1>1, TellsNothing

LEMMA InitTellInv == Init => TellInv
<1> SUFFICES ASSUME Init
             PROVE  TellInv
  OBVIOUS
<1>1. Timelines /\ \A q \in Requests : Told(q) = {} /\ decision[q] = "pending"
  BY DEF Init, Timelines, Told, EventsOf
<1>2. \A w \in Workers : pc[w] = "idle"
  BY DEF Init
<1> QED
  BY <1>1, <1>2 DEF TellInv, TimelineTellsDecision, TimelineMatchesDecision,
     GapOnlyInsideDecide, Told, Deciding

\* The steps of submit tell nothing.
LEMMA SubmitTellInv ==
  ASSUME IInv, TellInv, NEW w \in Workers,
         \/ \E q \in Requests : SubmitProject(w, q)
         \/ SubmitTask(w) \/ SubmitRun(w) \/ SubmitCreated(w)
         \/ SubmitApproval(w) \/ SubmitEvent(w) \/ SubmitRequest(w)
  PROVE  TellInv'
<1>1. ASSUME NEW q \in Requests, SubmitProject(w, q)
      PROVE  TellInv'
  <2>1. /\ pc[w] = "idle" /\ pc' = [pc EXCEPT ![w] = "submit_task"]
        /\ UNCHANGED <<decision, timeline>>
        /\ \A v \in Workers \ {w} : arg'[v] = arg[v]
    BY <1>1 DEF SubmitProject, Goto, IInv, Types
  <2> QED
    BY <2>1, TellsNothingQuietly DEF Deciding
<1>2. CASE SubmitTask(w)
  BY <1>2, TellsNothingQuietly DEF SubmitTask, Goto, Deciding
<1>3. CASE SubmitRun(w)
  BY <1>3, TellsNothingQuietly DEF SubmitRun, Goto, Deciding
<1>4. CASE SubmitCreated(w)
  <2>1. PICK l \in {"submit_approval", "submit_event"} : pc' = [pc EXCEPT ![w] = l]
    BY <1>4 DEF SubmitCreated, Goto
  <2>2. /\ pc[w] = "submit_created" /\ UNCHANGED decision
        /\ Append1(arg[w].request, Event("run.created", "queued"))
        /\ \A v \in Workers \ {w} : arg'[v] = arg[v]
    BY <1>4 DEF SubmitCreated, IInv, Types
  <2>3. arg[w].request \in Requests
    BY <2>2 DEF IInv, KnowsRequest, Busy
  <2>4. /\ Event("run.created", "queued") \in Entries
        /\ Event("run.created", "queued").event_type \notin DecisionEvents
    BY DEF Event, Entries, EventTypes, DecisionEvents
  <2>5. l \notin Deciding \cup {"decide_event"}
    BY <2>1 DEF Deciding
  <2> QED
    BY <2>1, <2>2, <2>3, <2>4, <2>5, TellsOther
<1>5. CASE SubmitApproval(w)
  BY <1>5, TellsNothingQuietly DEF SubmitApproval, Goto, Deciding
<1>6. CASE SubmitEvent(w)
  <2> DEFINE e == Event(IF arg[w].choice = "blocked" THEN "image.generation.blocked"
                                                     ELSE "approval.requested", arg[w].choice)
  <2>1. /\ pc[w] = "submit_event" /\ pc' = [pc EXCEPT ![w] = "submit_request"]
        /\ UNCHANGED <<decision, arg>> /\ Append1(arg[w].request, e)
    BY <1>6 DEF SubmitEvent, Goto
  <2>2. arg[w].request \in Requests /\ arg[w].choice \in Choices
    BY <2>1 DEF IInv, KnowsRequest, Busy, Types, Args
  <2>3. e \in Entries /\ e.event_type \notin DecisionEvents
    BY <2>2 DEF Event, Entries, EventTypes, DecisionEvents
  <2>4. UNCHANGED decision /\ \A v \in Workers \ {w} : arg'[v] = arg[v]
    BY <2>1
  <2> HIDE DEF e
  <2> QED
    BY <2>1, <2>2, <2>3, <2>4, TellsOther DEF Deciding
<1>7. CASE SubmitRequest(w)
  BY <1>7, TellsNothingQuietly DEF SubmitRequest, Return, Deciding
<1> QED
  BY <1>1, <1>2, <1>3, <1>4, <1>5, <1>6, <1>7

\* The steps of execute tell nothing.
LEMMA ExecuteTellInv ==
  ASSUME IInv, TellInv, NEW w \in Workers,
         \/ \E q \in Requests : ExecuteRead(w, q)
         \/ ExecuteApproval(w) \/ ExecuteStart(w) \/ ExecuteGenerate(w)
         \/ ExecuteImport(w) \/ ExecuteUpdate(w) \/ ExecuteFinish(w)
  PROVE  TellInv'
<1>1. CASE \/ \E q \in Requests : ExecuteRead(w, q)
           \/ ExecuteApproval(w) \/ ExecuteGenerate(w) \/ ExecuteImport(w) \/ ExecuteUpdate(w)
  <2>1. PICK l \in {"done", "execute_approval", "execute_start", "execute_update",
                    "execute_import", "execute_finish"} : pc' = [pc EXCEPT ![w] = l]
    BY <1>1 DEF ExecuteRead, ExecuteApproval, ExecuteGenerate, ExecuteImport, ExecuteUpdate,
                Return, Goto
  <2>2. /\ pc[w] \notin {"decide_event", "dead"} /\ UNCHANGED <<decision, timeline>>
        /\ \A v \in Workers \ {w} : arg'[v] = arg[v]
    BY <1>1 DEF ExecuteRead, ExecuteApproval, ExecuteGenerate, ExecuteImport, ExecuteUpdate,
                IInv, Types
  <2>3. l # "decide_event" /\ l \notin Deciding
    BY <2>1 DEF Deciding
  <2> QED
    BY <2>1, <2>2, <2>3, TellsNothingQuietly
<1>2. CASE ExecuteStart(w) \/ ExecuteFinish(w)
  <2>1. PICK l \in {"execute_generate", "done"},
             type \in {"image.provider.started", "image.provider.finished"},
             status \in {"running", arg[w].choice} :
          pc' = [pc EXCEPT ![w] = l] /\ Append1(arg[w].request, Event(type, status))
    BY <1>2 DEF ExecuteStart, ExecuteFinish, Goto, Return
  <2>2. /\ pc[w] \in {"execute_start", "execute_finish"} /\ UNCHANGED decision
        /\ \A v \in Workers \ {w} : arg'[v] = arg[v]
    BY <1>2 DEF ExecuteStart, ExecuteFinish
  <2>3. arg[w].request \in Requests /\ arg[w].choice \in Choices
    BY <2>2 DEF IInv, KnowsRequest, Busy, Types, Args
  <2>4. Event(type, status) \in Entries /\ Event(type, status).event_type \notin DecisionEvents
    BY <2>1, <2>3 DEF Event, Entries, EventTypes, DecisionEvents
  <2>5. l \notin Deciding \cup {"decide_event"}
    BY <2>1 DEF Deciding
  <2> QED
    BY <2>1, <2>2, <2>3, <2>4, <2>5, TellsOther
<1> QED
  BY <1>1, <1>2

\* The decision of decide_approval is made: w alone is to tell it.
LEMMA DecidedTellInv ==
  ASSUME IInv, TellInv, NEW w \in Workers, DecideResolve(w)
  PROVE  TellInv'
<1> DEFINE q == arg[w].request
<1>1. /\ pc[w] = "decide_resolve" /\ q \in Requests /\ arg[w].choice \in Decisions
      /\ arg[w].linked \in Requests /\ UNCHANGED <<timeline, arg>>
  BY DEF DecideResolve, IInv, KnowsRequest, KnowsChoice, Busy, Deciding, TellInv
<1>2. CASE decision[q] # "pending"
  BY <1>1, <1>2, TellsNothingQuietly DEF DecideResolve, Return, Deciding
<1>3. CASE decision[q] = "pending"
  <2>1. /\ decision' = [decision EXCEPT ![q] = arg[w].choice]
        /\ pc' = [pc EXCEPT ![w] = "decide_event"]
    BY <1>3 DEF DecideResolve, Goto
  <2>2. /\ decision'[q] = arg[w].choice
        /\ \A p \in Requests \ {q} : decision'[p] = decision[p]
        /\ \A v \in Workers : pc'[v] = IF v = w THEN "decide_event" ELSE pc[v]
    BY <1>1, <2>1 DEF IInv, Types
  <2>3. /\ Timelines' /\ Told(q) = {}
        /\ \A p \in Requests : Told(p)' = Told(p)
    BY <1>1, <1>3 DEF TellInv, Timelines, Told, EventsOf
  <2>4. "pending" \notin Choices
    BY DEF Choices, Decisions, Outcomes
  <2>5. TimelineMatchesDecision'
    <3> SUFFICES ASSUME NEW p \in Requests
                 PROVE  /\ \A i, j \in Told(p)' : i = j
                        /\ \A i \in Told(p)' : timeline'[p][i].status = DecidedStatus(decision'[p])
      BY DEF TimelineMatchesDecision, Told
    <3>1. CASE p = q
      BY <2>3, <3>1
    <3>2. CASE p # q
      <4>1. /\ \A i, j \in Told(p) : i = j
            /\ \A i \in Told(p) : timeline[p][i].status = DecidedStatus(decision[p])
        BY DEF TellInv, TimelineTellsDecision, TimelineMatchesDecision, Told
      <4> QED
        BY <1>1, <2>2, <2>3, <3>2, <4>1
    <3> QED
      BY <3>1, <3>2
  <2>6. GapOnlyInsideDecide'
    <3> SUFFICES ASSUME NEW p \in Requests, decision'[p] # "pending", Told(p)' = {}
                 PROVE  \E v \in Workers : /\ pc'[v] \in {"decide_event", "dead"}
                                           /\ arg'[v].request = p /\ arg'[v].linked # NoRequest
      BY DEF GapOnlyInsideDecide, Told
    <3>1. CASE p = q
      BY <1>1, <2>2, <3>1, RequestsAssumption DEF NoRequest
    <3>2. CASE p # q
      <4>1. PICK v \in Workers : /\ pc[v] \in {"decide_event", "dead"}
                                 /\ arg[v].request = p /\ arg[v].linked # NoRequest
        BY <2>2, <2>3, <3>2 DEF TellInv, TimelineTellsDecision, GapOnlyInsideDecide, Told
      <4> QED
        BY <1>1, <2>2, <4>1
    <3> QED
      BY <3>1, <3>2
  <2>7. \A p \in Requests : decision'[p] = "pending" => Told(p)' = {}
    BY <2>2, <2>3 DEF TellInv
  <2>8. ASSUME NEW v \in Workers, pc'[v] = "decide_event"
        PROVE  /\ decision'[arg[v].request] = arg[v].choice /\ Told(arg[v].request)' = {}
               /\ v # w => arg[v].request # q
    <3>1. CASE v = w
      <4>1. Told(q)' = {}
        BY <1>1, <2>3
      <4> QED
        BY <1>1, <2>2, <3>1, <4>1
    <3>2. CASE v # w
      <4>1. /\ decision[arg[v].request] = arg[v].choice /\ Told(arg[v].request) = {}
            /\ arg[v].request \in Requests /\ arg[v].choice \in Choices
        BY <2>2, <2>8, <3>2 DEF TellInv, IInv, KnowsRequest, Busy, Types, Args
      <4>2. PICK p \in Requests : p = arg[v].request /\ p = arg'[v].request
        BY <1>1, <4>1
      <4>3. p # q
        BY <1>3, <2>4, <4>1, <4>2
      <4>4. decision'[p] = arg'[v].choice /\ Told(p)' = {}
        BY <1>1, <2>2, <2>3, <4>1, <4>2, <4>3
      <4>5. Told(arg[v].request)' = Told(p)'
        BY <4>2 DEF Told, EventsOf
      <4> QED
        BY <1>1, <4>2, <4>3, <4>4, <4>5
    <3> QED
      BY <3>1, <3>2
  <2>9. (\A v \in Workers : pc[v] = "decide_event" =>
            decision[arg[v].request] = arg[v].choice /\ Told(arg[v].request) = {})'
    BY <1>1, <2>8
  <2>10. \A v, u \in Workers :
          pc'[v] = "decide_event" /\ pc'[u] = "decide_event" /\ arg'[v].request = arg'[u].request
            => v = u
    BY <1>1, <2>2, <2>8 DEF TellInv
  <2>11. \A v \in Workers : pc'[v] \in Deciding \cup {"decide_event"} => arg'[v].linked \in Requests
    BY <1>1, <2>2 DEF TellInv
  <2> QED
    BY <2>3, <2>5, <2>6, <2>7, <2>9, <2>10, <2>11 DEF TellInv, TimelineTellsDecision
<1> QED
  BY <1>2, <1>3

\* A decision is told, by its only event, and nobody else is to tell it.
LEMMA Tells ==
  ASSUME IInv, TellInv, NEW w \in Workers, NEW q \in Requests, NEW k,
         pc' = [pc EXCEPT ![w] = "done"], pc[w] # "dead", UNCHANGED arg,
         pc[w] = "decide_event" => arg[w].request = q,
         \A v \in Workers \ {w} : pc[v] = "decide_event" => arg[v].request # q,
         Timelines', \A p \in Requests \ {q} : Grows(p, {}) /\ decision'[p] = decision[p],
         EventsOf(q, DecisionEvents)' = {k},
         decision'[q] # "pending", timeline'[q][k].status = DecidedStatus(decision'[q])
  PROVE  TellInv'
<1>1. \A p \in Requests \ {q} :
         /\ Told(p)' = Told(p)
         /\ \A i \in Told(p) : timeline'[p][i] = timeline[p][i]
  <2> SUFFICES ASSUME NEW p \in Requests, p # q
               PROVE  /\ Told(p)' = Told(p)
                      /\ \A i \in Told(p) : timeline'[p][i] = timeline[p][i]
    OBVIOUS
  <2>1. Grows(p, {})
    OBVIOUS
  <2> QED
    BY <2>1, SameEvents DEF Told
<1>2. \A v \in Workers : pc'[v] = IF v = w THEN "done" ELSE pc[v]
  BY DEF IInv, Types
<1>3. TimelineMatchesDecision'
  <2> SUFFICES ASSUME NEW p \in Requests
               PROVE  /\ \A i, j \in Told(p)' : i = j
                      /\ \A i \in Told(p)' : timeline'[p][i].status = DecidedStatus(decision'[p])
    BY DEF TimelineMatchesDecision, Told
  <2>1. CASE p = q
    BY <2>1 DEF Told
  <2>2. CASE p # q
    <3>1. /\ \A i, j \in Told(p) : i = j
          /\ \A i \in Told(p) : timeline[p][i].status = DecidedStatus(decision[p])
      BY DEF TellInv, TimelineTellsDecision, TimelineMatchesDecision, Told
    <3> QED
      BY <1>1, <2>2, <3>1
  <2> QED
    BY <2>1, <2>2
<1>4. GapOnlyInsideDecide'
  <2> SUFFICES ASSUME NEW p \in Requests, decision'[p] # "pending", Told(p)' = {}
               PROVE  \E v \in Workers : /\ pc'[v] \in {"decide_event", "dead"}
                                         /\ arg'[v].request = p /\ arg'[v].linked # NoRequest
    BY DEF GapOnlyInsideDecide, Told
  <2>1. p # q
    BY DEF Told
  <2>2. PICK v \in Workers : /\ pc[v] \in {"decide_event", "dead"}
                             /\ arg[v].request = p /\ arg[v].linked # NoRequest
    BY <1>1, <2>1 DEF TellInv, TimelineTellsDecision, GapOnlyInsideDecide, Told
  <2> QED
    BY <1>2, <2>1, <2>2
<1>5. \A p \in Requests : decision'[p] = "pending" => Told(p)' = {}
  BY <1>1 DEF TellInv
<1>6. (\A v \in Workers : pc[v] = "decide_event" =>
          decision[arg[v].request] = arg[v].choice /\ Told(arg[v].request) = {})'
  <2> SUFFICES ASSUME NEW v \in Workers, pc'[v] = "decide_event"
               PROVE  decision'[arg'[v].request] = arg'[v].choice /\ Told(arg[v].request)' = {}
    OBVIOUS
  <2>1. v # w /\ pc[v] = "decide_event"
    BY <1>2
  <2>2. PICK p \in Requests : p = arg[v].request /\ p = arg'[v].request /\ p # q
    BY <2>1 DEF IInv, KnowsRequest, Busy
  <2>3. decision[p] = arg[v].choice /\ Told(p) = {}
    BY <2>1, <2>2 DEF TellInv
  <2>4. Told(arg[v].request)' = Told(p)'
    BY <2>2 DEF Told, EventsOf
  <2> QED
    BY <1>1, <2>2, <2>3, <2>4
<1>7. \A v, u \in Workers :
          pc'[v] = "decide_event" /\ pc'[u] = "decide_event" /\ arg'[v].request = arg'[u].request
            => v = u
  BY <1>2 DEF TellInv
<1>8. \A v \in Workers : pc'[v] \in Deciding \cup {"decide_event"} => arg'[v].linked \in Requests
  BY <1>2 DEF TellInv, Deciding
<1> QED
  BY <1>3, <1>4, <1>5, <1>6, <1>7, <1>8 DEF TellInv, TimelineTellsDecision

\* The second commit of decide_approval.
LEMMA DecideEventTellInv ==
  ASSUME IInv, TellInv, NEW w \in Workers, DecideEvent(w)
  PROVE  TellInv'
<1> PICK q \in Requests : q = arg[w].request
  BY DEF DecideEvent, IInv, KnowsRequest, Busy
<1> DEFINE k == Len(timeline[q]) + 1
           e == [event_type |-> "approval.decided", status |-> DecidedStatus(arg[w].choice),
                 request_hash |-> arg[w].linked]
<1>1. /\ pc[w] = "decide_event" /\ q \in Requests /\ arg[w].choice \in Choices
      /\ arg[w].linked \in Requests /\ decision[q] = arg[w].choice /\ Told(q) = {}
  BY DEF DecideEvent, IInv, KnowsRequest, Busy, Types, Args, TellInv
<1>2. /\ pc' = [pc EXCEPT ![w] = "done"] /\ UNCHANGED <<arg, decision>> /\ Append1(q, e)
  BY DEF DecideEvent, Return
<1>3. e \in Entries /\ e.event_type \in DecisionEvents
  BY <1>1 DEF Entries, EventTypes, DecidedStatus, DecisionEvents
<1> HIDE DEF e
<1>4. /\ Timelines' /\ timeline'[q][k] = e
      /\ DOMAIN timeline'[q] = DOMAIN timeline[q] \cup {k}
      /\ \A p \in Requests : Grows(p, IF p = q THEN {e} ELSE {})
  BY <1>1, <1>2, <1>3, AppendGrows DEF TellInv
<1>5. \A i \in DOMAIN timeline[q] : timeline'[q][i] = timeline[q][i]
  BY <1>1, <1>4 DEF Grows
<1>6. EventsOf(q, DecisionEvents)' = {k}
  <2> HIDE DEF k
  <2>1. EventsOf(q, DecisionEvents)' =
          {i \in DOMAIN timeline'[q] : timeline'[q][i].event_type \in DecisionEvents}
    BY <1>2 DEF EventsOf
  <2>2. \A i \in DOMAIN timeline[q] : timeline[q][i].event_type \notin DecisionEvents
    BY <1>1 DEF EventsOf, Told
  <2> QED
    BY <1>3, <1>4, <1>5, <2>1, <2>2
<1>7. \A p \in Requests \ {q} : Grows(p, {}) /\ decision'[p] = decision[p]
  BY <1>2, <1>4
<1>8. decision'[q] # "pending"
  BY <1>1, <1>2 DEF Choices, Decisions, Outcomes
<1>9. timeline'[q][k].status = DecidedStatus(decision'[q])
  BY <1>1, <1>2, <1>4 DEF e
<1>10. \A v \in Workers \ {w} : pc[v] = "decide_event" => arg[v].request # q
  BY <1>1 DEF TellInv
<1>11. pc[w] # "dead" /\ arg[w].request = q /\ UNCHANGED arg
  BY <1>1, <1>2
<1> HIDE DEF k
<1> QED
  BY <1>1, <1>2, <1>4, <1>6, <1>7, <1>8, <1>9, <1>10, <1>11, Tells

\* DemoOrchestrator.resolve decides and tells in one transaction.
LEMMA ResolveTellInv ==
  ASSUME IInv, TellInv, NEW w \in Workers, NEW q \in Requests, NEW d \in Decisions,
         Resolve(w, q, d)
  PROVE  TellInv'
<1>1. /\ pc[w] = "idle" /\ pc' = [pc EXCEPT ![w] = "done"] /\ UNCHANGED arg
  BY DEF Resolve, Return
<1>2. CASE ~(Stored("approvals", q) /\ decision[q] = "pending")
  <2>1. UNCHANGED <<decision, timeline>>
    BY <1>2 DEF Resolve
  <2> QED
    BY <1>1, <2>1, TellsNothingQuietly DEF Deciding
<1>3. CASE Stored("approvals", q) /\ decision[q] = "pending"
  <2> DEFINE s == timeline[q]
             k == Len(s) + 1
             E == ResolvedEvents(d)
  <2>1. /\ decision' = [decision EXCEPT ![q] = d]
        /\ timeline' = [timeline EXCEPT ![q] = s \o E]
    BY <1>3 DEF Resolve
  <2>2. /\ s \in Seq(Entries) /\ Told(q) = {}
        /\ d # "pending"
    BY <1>3 DEF TellInv, Timelines, Decisions
  <2>3. /\ E \in Seq(Entries) /\ Len(E) \in {1, 2}
        /\ E[1].event_type = "approval.resolved" /\ E[1].status = DecidedStatus(d)
        /\ Len(E) = 2 => E[2].event_type \notin DecisionEvents
    <3>1. /\ Event("approval.resolved", DecidedStatus(d)) \in Entries
          /\ Event("run.resumed", "approved_local_only") \in Entries
      BY DEF Event, Entries, EventTypes, DecidedStatus, Choices
    <3>2. CASE d = "approved"
      <4>1. E = <<Event("approval.resolved", DecidedStatus(d))>>
                  \o <<Event("run.resumed", "approved_local_only")>>
        BY <3>2 DEF ResolvedEvents
      <4>2. /\ E \in Seq(Entries) /\ Len(E) = 2
            /\ E[1] = Event("approval.resolved", DecidedStatus(d))
            /\ E[2] = Event("run.resumed", "approved_local_only")
        BY <3>1, <4>1
      <4> QED
        BY <4>2 DEF Event, DecisionEvents
    <3>3. CASE d # "approved"
      <4>1. E = <<Event("approval.resolved", DecidedStatus(d))>>
        BY <3>3 DEF ResolvedEvents
      <4> QED
        BY <3>1, <4>1 DEF Event, DecisionEvents
    <3> QED
      BY <3>2, <3>3
  <2> HIDE DEF E
  <2>4. /\ timeline'[q] = s \o E /\ Timelines'
        /\ \A p \in Requests \ {q} : timeline'[p] = timeline[p] /\ decision'[p] = decision[p]
        /\ decision'[q] = d
    <3>1. s \o E \in Seq(Entries)
      BY <2>2, <2>3
    <3> QED
      BY <2>1, <3>1 DEF TellInv, Timelines, IInv, Types
  <2>5. /\ DOMAIN timeline'[q] = 1..(Len(s) + Len(E)) /\ Len(s) \in Nat /\ DOMAIN s = 1..Len(s)
        /\ \A i \in 1..Len(s) : timeline'[q][i] = s[i]
        /\ \A i \in 1..Len(E) : timeline'[q][Len(s) + i] = E[i]
    BY <2>2, <2>3, <2>4
  <2>6. EventsOf(q, DecisionEvents)' = {k}
    <3>1. EventsOf(q, DecisionEvents)' =
            {i \in DOMAIN timeline'[q] : timeline'[q][i].event_type \in DecisionEvents}
      BY DEF EventsOf
    <3>2. \A i \in 1..Len(s) : timeline'[q][i].event_type \notin DecisionEvents
      BY <2>2, <2>5 DEF EventsOf, Told
    <3>3. k \in DOMAIN timeline'[q] /\ timeline'[q][k].event_type \in DecisionEvents
      BY <2>3, <2>5 DEF DecisionEvents
    <3>4. \A i \in DOMAIN timeline'[q] : i > k => timeline'[q][i].event_type \notin DecisionEvents
      <4> SUFFICES ASSUME NEW i \in DOMAIN timeline'[q], i > k
                   PROVE  timeline'[q][i].event_type \notin DecisionEvents
        OBVIOUS
      <4>1. i = Len(s) + 2 /\ Len(E) = 2
        BY <2>3, <2>5
      <4> QED
        BY <2>3, <2>5, <4>1
    <3>5. \A i \in DOMAIN timeline'[q] : i \in 1..Len(s) \/ i = k \/ i > k
      BY <2>5
    <3> HIDE DEF k
    <3> QED
      BY <3>1, <3>2, <3>3, <3>4, <3>5
  <2>7. timeline'[q][k].status = DecidedStatus(decision'[q])
    BY <2>3, <2>4, <2>5
  <2>8. \A p \in Requests \ {q} : Grows(p, {}) /\ decision'[p] = decision[p]
    BY <2>4 DEF Grows, Timelines
  <2>9. \A v \in Workers \ {w} : pc[v] = "decide_event" => arg[v].request # q
    BY <1>3 DEF TellInv, IInv, Types, Args, Choices, Decisions, Outcomes
  <2>10. pc[w] # "dead" /\ (pc[w] = "decide_event" => arg[w].request = q) /\ decision'[q] # "pending"
    BY <1>1, <2>2, <2>4
  <2> HIDE DEF k
  <2> QED
    BY <1>1, <2>4, <2>6, <2>7, <2>8, <2>9, <2>10, Tells
<1> QED
  BY <1>2, <1>3

LEMMA NextTellInv == IInv /\ TellInv /\ [Next]_vars => TellInv'
<1> SUFFICES ASSUME IInv, TellInv, [Next]_vars
             PROVE  TellInv'
  OBVIOUS
<1>1. ASSUME NEW w \in Workers, NEW a \in Requests, NEW q \in Requests, NEW d \in Decisions,
             DecideRead(w, a, q, d)
      PROVE  TellInv'
  <2>1. PICK l \in {"done", "decide_request"} : pc' = [pc EXCEPT ![w] = l]
    BY <1>1 DEF DecideRead, Return, Goto
  <2>2. /\ pc[w] = "idle" /\ UNCHANGED <<decision, timeline>>
        /\ \A v \in Workers \ {w} : arg'[v] = arg[v]
        /\ UNCHANGED arg \/ arg' = [arg EXCEPT ![w].request = a, ![w].linked = q, ![w].choice = d]
    BY <1>1 DEF DecideRead, IInv, Types
  <2>3. l \in Deciding => arg'[w].linked \in Requests
    <3>1. CASE UNCHANGED arg
      <4>1. pc' = [pc EXCEPT ![w] = "done"] \/ arg' = [arg EXCEPT ![w].request = a, ![w].linked = q, ![w].choice = d]
        BY <1>1 DEF DecideRead, Return, Goto
      <4>2. CASE pc' = [pc EXCEPT ![w] = "done"]
        BY <2>1, <4>2 DEF IInv, Types, Deciding
      <4>3. CASE arg' = [arg EXCEPT ![w].request = a, ![w].linked = q, ![w].choice = d]
        BY <4>3 DEF IInv, Types, Args
      <4> QED
        BY <4>1, <4>2, <4>3
    <3>2. CASE arg' = [arg EXCEPT ![w].request = a, ![w].linked = q, ![w].choice = d]
      BY <3>2 DEF IInv, Types, Args
    <3> QED
      BY <2>2, <3>1, <3>2
  <2> QED
    BY <2>1, <2>2, <2>3, TellsNothingQuietly
<1>2. ASSUME NEW w \in Workers, DecideRequest(w)
      PROVE  TellInv'
  <2>1. PICK l \in {"done", "decide_resolve"} : pc' = [pc EXCEPT ![w] = l]
    BY <1>2 DEF DecideRequest, Return, Goto
  <2>2. pc[w] = "decide_request" /\ UNCHANGED <<decision, timeline, arg>>
    BY <1>2 DEF DecideRequest
  <2>3. l \in Deciding => arg'[w].linked \in Requests
    BY <2>2 DEF TellInv, Deciding
  <2>4. l # "decide_event" /\ \A v \in Workers \ {w} : arg'[v] = arg[v]
    BY <2>1, <2>2
  <2> QED
    BY <2>1, <2>2, <2>3, <2>4, TellsNothingQuietly
<1>3. ASSUME NEW w \in Workers, Abort(w)
      PROVE  TellInv'
  <2>1. /\ UNCHANGED <<timeline, decision, arg>> /\ pc[w] # "dead"
        /\ \A v \in Workers : pc'[v] = IF v = w THEN "dead" ELSE pc[v]
    BY <1>3 DEF Abort, Goto, IInv, Types
  <2>2. TimelineMatchesDecision' /\ Timelines' /\ \A q \in Requests : Told(q)' = Told(q)
    BY <2>1 DEF TellInv, TimelineTellsDecision, TimelineMatchesDecision, Timelines, EventsOf, Told
  <2>3. GapOnlyInsideDecide'
    BY <2>1 DEF TellInv, TimelineTellsDecision, GapOnlyInsideDecide, EventsOf
  <2> QED
    BY <2>1, <2>2, <2>3 DEF TellInv, TimelineTellsDecision, Deciding, Told, EventsOf
<1>4. CASE UNCHANGED <<timeline, decision, arg, pc>>
  <2>1. TimelineTellsDecision'
    BY <1>4 DEF TellInv, TimelineTellsDecision, TimelineMatchesDecision, GapOnlyInsideDecide,
                EventsOf
  <2>2. Timelines' /\ \A q \in Requests : decision'[q] = "pending" => Told(q)' = {}
    BY <1>4 DEF TellInv, Timelines, EventsOf, Told
  <2>3. (\A w \in Workers : pc[w] = "decide_event" =>
            decision[arg[w].request] = arg[w].choice /\ Told(arg[w].request) = {})'
    BY <1>4 DEF TellInv, EventsOf, Told
  <2> QED
    BY <1>4, <2>1, <2>2, <2>3 DEF TellInv
<1>5. ProviderChange \/ UNCHANGED vars => UNCHANGED <<timeline, decision, arg, pc>>
  BY DEF ProviderChange, vars
<1> QED
  BY <1>1, <1>2, <1>3, <1>4, <1>5, SubmitTellInv, ExecuteTellInv, DecidedTellInv,
     DecideEventTellInv, ResolveTellInv DEF Next, Continue, ContinueLocal

\* However many threads decide, the timeline tells the decision that was made,
\* once; and where it does not tell it, a decide_approval stands between its two
\* commits, or has died there.
THEOREM DecisionTold == Spec => []TimelineTellsDecision
<1>1. TellInv => TimelineTellsDecision
  BY DEF TellInv
<1> QED
  BY <1>1, InitIInv, NextIInv, InitTellInv, NextTellInv, PTL DEF Spec

----------------------------------------------------------------------------
(* What submit leaves behind. *)

Submitting == {"submit_task", "submit_run", "submit_created", "submit_approval",
               "submit_event", "submit_request"}

Asked == {"approval.requested", "image.generation.blocked"}

Begun(q) == DOMAIN timeline[q] # {}

\* How far the submit of w has come with its request.
SubmitterInv(w) ==
    pc[w] \in Submitting =>
        /\ ~Stored("generation_requests", arg[w].request) /\ Stored("projects", arg[w].request)
        /\ pc[w] # "submit_task" => Stored("tasks", arg[w].request)
        /\ pc[w] \notin {"submit_task", "submit_run"} => Stored("runs", arg[w].request)
        /\ pc[w] \notin {"submit_event", "submit_request"} => ~Stored("approvals", arg[w].request)
        /\ pc[w] \in {"submit_approval", "submit_event", "submit_request"} =>
              Begun(arg[w].request)
        /\ pc[w] = "submit_approval" => arg[w].choice = "awaiting_approval"
        /\ pc[w] \in {"submit_event", "submit_request"} =>
              (Stored("approvals", arg[w].request) <=> arg[w].choice = "awaiting_approval")
        /\ pc[w] = "submit_request" => EventsOf(arg[w].request, Asked) # {}

LoneSubmitters ==
    \A w, v \in Workers :
        pc[w] \in Submitting /\ pc[v] \in Submitting /\ arg[w].request = arg[v].request => w = v

\* An approval comes after its project, its run and the first event of this.
JoinedAt(q) ==
    Stored("approvals", q) => Stored("projects", q) /\ Stored("runs", q) /\ Begun(q)

WholeAt(q) ==
    Stored("generation_requests", q) =>
        /\ \A t \in {"projects", "tasks", "runs"} : Stored(t, q)
        /\ Stored("approvals", q) <=> request[q].approval
        /\ EventsOf(q, Asked) # {}

WholeInv ==
    /\ Timelines
    /\ \A w \in Workers : SubmitterInv(w)
    /\ LoneSubmitters
    /\ \A q \in Requests : JoinedAt(q) /\ WholeAt(q)

LEMMA Persists ==
  ASSUME NEW q \in Requests, NEW E, Grows(q, E), rows \subseteq rows'
  PROVE  /\ Begun(q) => Begun(q)'
         /\ EventsOf(q, Asked) # {} => EventsOf(q, Asked)' # {}
         /\ \A t : Stored(t, q) => Stored(t, q)'
<1>1. EventsOf(q, Asked) \subseteq EventsOf(q, Asked)'
  BY MoreEvents
<1>2. Begun(q) => Begun(q)'
  BY DEF Begun, Grows
<1> QED
  BY <1>1, <1>2 DEF Stored

\* What a step of w that is about q leaves of the other threads and requests.
LEMMA OthersKept ==
  ASSUME IInv, WholeInv, NEW w \in Workers, NEW q \in Requests, NEW l,
         pc' = [pc EXCEPT ![w] = l], \A v \in Workers \ {w} : arg'[v] = arg[v],
         l \in Submitting => arg'[w].request = q,
         \/ pc[w] \in Submitting /\ arg[w].request = q
         \/ \A t \in Tables : ~Stored(t, q)
         \/ l \notin Submitting /\ UNCHANGED rows /\ request'[q].approval = request[q].approval,
         rows \subseteq rows',
         \A p \in Requests \ {q} : \A t : Stored(t, p)' => Stored(t, p),
         \A p \in Requests \ {q} : request'[p].approval = request[p].approval,
         \A p \in Requests : Grows(p, Entries)
  PROVE  /\ \A v \in Workers \ {w} : SubmitterInv(v)'
         /\ LoneSubmitters'
         /\ \A p \in Requests \ {q} : JoinedAt(p)' /\ WholeAt(p)'
<1>1. \A v \in Workers : pc'[v] = IF v = w THEN l ELSE pc[v]
  BY DEF IInv, Types
<1>2. ASSUME NEW v \in Workers \ {w}, pc[v] \in Submitting,
             l \in Submitting \/ ~UNCHANGED rows
      PROVE  arg[v].request # q
  BY <1>2 DEF WholeInv, SubmitterInv, LoneSubmitters, Tables
<1>3. ASSUME NEW v \in Workers \ {w}
      PROVE  SubmitterInv(v)'
  <2> SUFFICES ASSUME pc[v] \in Submitting
               PROVE  SubmitterInv(v)'
    BY <1>1 DEF SubmitterInv
  <2>1. PICK p \in Requests : p = arg[v].request /\ p = arg'[v].request
    BY DEF IInv, KnowsRequest, Busy, Submitting
  <2>2. \A t : Stored(t, p)' <=> Stored(t, p)
    <3>1. CASE UNCHANGED rows
      BY <3>1 DEF Stored
    <3>2. CASE ~UNCHANGED rows
      <4>1. p # q
        BY <1>2, <2>1, <3>2
      <4> QED
        BY <2>1, <4>1 DEF Stored
    <3> QED
      BY <3>1, <3>2
  <2>3. /\ Begun(p) => Begun(p)'
        /\ EventsOf(p, Asked) # {} => EventsOf(p, Asked)' # {}
    BY Persists
  <2>4. /\ ~Stored("generation_requests", p) /\ Stored("projects", p)
        /\ pc[v] # "submit_task" => Stored("tasks", p)
        /\ pc[v] \notin {"submit_task", "submit_run"} => Stored("runs", p)
        /\ pc[v] \notin {"submit_event", "submit_request"} => ~Stored("approvals", p)
        /\ pc[v] \in {"submit_approval", "submit_event", "submit_request"} => Begun(p)
        /\ pc[v] = "submit_approval" => arg[v].choice = "awaiting_approval"
        /\ pc[v] \in {"submit_event", "submit_request"} =>
              (Stored("approvals", p) <=> arg[v].choice = "awaiting_approval")
        /\ pc[v] = "submit_request" => EventsOf(p, Asked) # {}
    BY <2>1 DEF WholeInv, SubmitterInv
  <2>5. pc'[v] = pc[v] /\ arg'[v] = arg[v]
    BY <1>1
  <2>6. (pc[v] \in Submitting =>
           /\ ~Stored("generation_requests", p) /\ Stored("projects", p)
           /\ pc[v] # "submit_task" => Stored("tasks", p)
           /\ pc[v] \notin {"submit_task", "submit_run"} => Stored("runs", p)
           /\ pc[v] \notin {"submit_event", "submit_request"} => ~Stored("approvals", p)
           /\ pc[v] \in {"submit_approval", "submit_event", "submit_request"} => Begun(p)
           /\ pc[v] = "submit_approval" => arg[v].choice = "awaiting_approval"
           /\ pc[v] \in {"submit_event", "submit_request"} =>
                 (Stored("approvals", p) <=> arg[v].choice = "awaiting_approval")
           /\ pc[v] = "submit_request" => EventsOf(p, Asked) # {})'
    BY <2>2, <2>3, <2>4, <2>5
  <2> QED
    BY <2>1, <2>6 DEF SubmitterInv, Begun, EventsOf
<1>4. LoneSubmitters'
  <2> SUFFICES ASSUME NEW v \in Workers, NEW u \in Workers, v # u,
                      pc'[v] \in Submitting, pc'[u] \in Submitting
               PROVE  arg'[v].request # arg'[u].request
    BY DEF LoneSubmitters
  <2> QED
    BY <1>1, <1>2 DEF WholeInv, LoneSubmitters
<1>5. ASSUME NEW p \in Requests \ {q}
      PROVE  JoinedAt(p)' /\ WholeAt(p)'
  <2>1. \A t : Stored(t, p)' <=> Stored(t, p)
    BY DEF Stored
  <2>2. /\ Begun(p) => Begun(p)'
        /\ EventsOf(p, Asked) # {} => EventsOf(p, Asked)' # {}
    BY Persists
  <2> QED
    BY <2>1, <2>2 DEF WholeInv, JoinedAt, WholeAt
<1> QED
  BY <1>3, <1>4, <1>5

\* A step of a call that stores no row: w is then in no submit.
LEMMA NoRowStep ==
  ASSUME IInv, WholeInv, NEW w \in Workers, NEW l, l \notin Submitting,
         pc' = [pc EXCEPT ![w] = l], \A v \in Workers \ {w} : arg'[v] = arg[v],
         UNCHANGED rows, \A q \in Requests : request'[q].approval = request[q].approval,
         Timelines', \A q \in Requests : Grows(q, Entries)
  PROVE  WholeInv'
<1>1. \A v \in Workers : pc'[v] = IF v = w THEN l ELSE pc[v]
  BY DEF IInv, Types
<1>2. ASSUME NEW q \in Requests
      PROVE  JoinedAt(q)' /\ WholeAt(q)'
  <2>1. \A t : Stored(t, q)' <=> Stored(t, q)
    BY DEF Stored
  <2>2. /\ Begun(q) => Begun(q)'
        /\ EventsOf(q, Asked) # {} => EventsOf(q, Asked)' # {}
    BY Persists
  <2> QED
    BY <2>1, <2>2 DEF WholeInv, JoinedAt, WholeAt
<1>3. ASSUME NEW q \in Requests
      PROVE  (\A v \in Workers \ {w} : SubmitterInv(v)') /\ LoneSubmitters'
  <2>1. \A p \in Requests \ {q} : \A t : Stored(t, p)' => Stored(t, p)
    BY DEF Stored
  <2> QED
    BY <2>1, OthersKept
<1>4. SubmitterInv(w)'
  BY <1>1 DEF SubmitterInv
<1>5. CASE Requests # {}
  BY <1>2, <1>3, <1>4, <1>5 DEF WholeInv
<1>6. CASE Requests = {}
  <2>1. \A v \in Workers : pc[v] \notin Submitting
    BY <1>6 DEF IInv, KnowsRequest, Busy, Submitting
  <2> QED
    BY <1>1, <1>6, <2>1 DEF WholeInv, SubmitterInv, LoneSubmitters
<1> QED
  BY <1>5, <1>6

LEMMA NoRowNoEvent ==
  ASSUME IInv, WholeInv, NEW w \in Workers, NEW l, l \notin Submitting,
         pc' = [pc EXCEPT ![w] = l], \A v \in Workers \ {w} : arg'[v] = arg[v],
         UNCHANGED <<rows, timeline>>,
         \A q \in Requests : request'[q].approval = request[q].approval
  PROVE  WholeInv'
<1>1. Timelines' /\ \A q \in Requests : Grows(q, Entries)
  <2>1. Timelines' /\ \A q \in Requests : Grows(q, {})
    BY UnchangedGrows DEF WholeInv
  <2> QED
    BY <2>1 DEF Grows
<1>2. UNCHANGED rows
  OBVIOUS
<1> QED
  BY <1>1, <1>2, NoRowStep

LEMMA NoRowOneEvent ==
  ASSUME IInv, WholeInv, NEW w \in Workers, NEW l, l \notin Submitting,
         pc' = [pc EXCEPT ![w] = l], UNCHANGED <<arg, rows, request>>,
         NEW q \in Requests, NEW e \in Entries, Append1(q, e)
  PROVE  WholeInv'
<1>1. Timelines' /\ \A p \in Requests : Grows(p, Entries)
  <2>1. Timelines' /\ \A p \in Requests : Grows(p, IF p = q THEN {e} ELSE {})
    BY AppendGrows DEF WholeInv
  <2> QED
    BY <2>1 DEF Grows
<1>2. /\ UNCHANGED rows /\ \A v \in Workers \ {w} : arg'[v] = arg[v]
      /\ \A p \in Requests : request'[p].approval = request[p].approval
  OBVIOUS
<1> QED
  BY <1>1, <1>2, NoRowStep

LEMMA InitWholeInv == Init => WholeInv
<1> SUFFICES ASSUME Init
             PROVE  WholeInv
  OBVIOUS
<1>1. Timelines /\ rows = {} /\ \A w \in Workers : pc[w] = "idle"
  BY DEF Init, Timelines
<1> QED
  BY <1>1 DEF WholeInv, SubmitterInv, LoneSubmitters, JoinedAt, WholeAt, Submitting, Stored

\* A step of submit: w has q, and only the new row, event or document is q's.
LEMMA SubmitStep ==
  ASSUME IInv, WholeInv, NEW w \in Workers, NEW q \in Requests, NEW l,
         pc' = [pc EXCEPT ![w] = l], \A v \in Workers \ {w} : arg'[v] = arg[v],
         arg'[w].request = q,
         \/ pc[w] \in Submitting /\ arg[w].request = q
         \/ \A t \in Tables : ~Stored(t, q),
         rows' = rows \/ (\E t \in Tables : rows' = rows \cup {<<t, q>>}),
         \A p \in Requests \ {q} : request'[p] = request[p],
         Timelines', \A p \in Requests : Grows(p, Entries),
         SubmitterInv(w)', JoinedAt(q)', WholeAt(q)'
  PROVE  WholeInv'
<1>1. rows \subseteq rows' /\ \A p \in Requests \ {q} : \A t : Stored(t, p)' => Stored(t, p)
  BY DEF Stored
<1>2. /\ l \in Submitting => arg'[w].request = q
      /\ \A p \in Requests \ {q} : request'[p].approval = request[p].approval
  OBVIOUS
<1>3. /\ \A v \in Workers \ {w} : SubmitterInv(v)'
      /\ LoneSubmitters'
      /\ \A p \in Requests \ {q} : JoinedAt(p)' /\ WholeAt(p)'
  BY <1>1, <1>2, OthersKept
<1>4. (\A v \in Workers : SubmitterInv(v)') /\ \A p \in Requests : JoinedAt(p)' /\ WholeAt(p)'
  BY <1>3
<1> QED
  BY <1>3, <1>4 DEF WholeInv

LEMMA SubmitQuietly ==
  ASSUME WholeInv, UNCHANGED timeline
  PROVE  Timelines' /\ \A p \in Requests : Grows(p, Entries)
<1>1. Timelines' /\ \A p \in Requests : Grows(p, {})
  BY UnchangedGrows DEF WholeInv
<1> QED
  BY <1>1 DEF Grows

\* What w knows of its request q while it submits it.
LEMMA SubmitterKnows ==
  ASSUME IInv, WholeInv, NEW w \in Workers, pc[w] \in Submitting,
         NEW q \in Requests, q = arg[w].request
  PROVE  /\ ~Stored("generation_requests", q) /\ Stored("projects", q)
         /\ pc[w] # "submit_task" => Stored("tasks", q)
         /\ pc[w] \notin {"submit_task", "submit_run"} => Stored("runs", q)
         /\ pc[w] \notin {"submit_event", "submit_request"} => ~Stored("approvals", q)
         /\ pc[w] \in {"submit_approval", "submit_event", "submit_request"} => Begun(q)
         /\ pc[w] = "submit_approval" => arg[w].choice = "awaiting_approval"
         /\ pc[w] \in {"submit_event", "submit_request"} =>
               (Stored("approvals", q) <=> arg[w].choice = "awaiting_approval")
         /\ pc[w] = "submit_request" => EventsOf(q, Asked) # {}
  BY DEF WholeInv, SubmitterInv

LEMMA SubmitWholeInv ==
  ASSUME IInv, WholeInv, NEW w \in Workers,
         \/ \E q \in Requests : SubmitProject(w, q)
         \/ SubmitTask(w) \/ SubmitRun(w) \/ SubmitCreated(w)
         \/ SubmitApproval(w) \/ SubmitEvent(w) \/ SubmitRequest(w)
  PROVE  WholeInv'
<1>1. ASSUME NEW q \in Requests, SubmitProject(w, q)
      PROVE  WholeInv'
  <2>1. /\ \A t \in Tables : ~Stored(t, q) 
        /\ rows' = rows \cup {<<"projects", q>>}
        /\ pc' = [pc EXCEPT ![w] = "submit_task"]
        /\ arg' = [arg EXCEPT ![w].request = q]
        /\ UNCHANGED <<timeline, request>>
    BY <1>1 DEF SubmitProject, Goto
  <2>2. /\ pc'[w] = "submit_task" /\ arg'[w].request = q
        /\ \A v \in Workers \ {w} : arg'[v] = arg[v]
    BY <2>1 DEF IInv, Types, Args
  <2>3. /\ \A t : t # "projects" => (Stored(t, q)' <=> Stored(t, q))
        /\ Stored("projects", q)'
    BY <2>1 DEF Stored
  <2>4. /\ ~Stored("generation_requests", q)' /\ ~Stored("approvals", q)'
    BY <2>1, <2>3 DEF Tables
  <2>5. SubmitterInv(w)'
    BY <2>2, <2>3, <2>4 DEF SubmitterInv
  <2>6. JoinedAt(q)' /\ WholeAt(q)'
    BY <2>4 DEF JoinedAt, WholeAt
  <2>7. Timelines' /\ \A p \in Requests : Grows(p, Entries)
    BY <2>1, SubmitQuietly
  <2>8. \E t \in Tables : rows' = rows \cup {<<t, q>>}
    BY <2>1 DEF Tables
  <2> QED
    BY <2>1, <2>2, <2>5, <2>6, <2>7, <2>8, SubmitStep
<1> SUFFICES ASSUME pc[w] \in Submitting,
                    \/ SubmitTask(w) \/ SubmitRun(w) \/ SubmitCreated(w)
                    \/ SubmitApproval(w) \/ SubmitEvent(w) \/ SubmitRequest(w)
             PROVE  WholeInv'
  BY <1>1 DEF SubmitTask, SubmitRun, SubmitCreated, SubmitApproval, SubmitEvent, SubmitRequest,
     Submitting
<1>2. PICK q \in Requests : q = arg[w].request
  BY DEF IInv, KnowsRequest, Busy, Submitting
<1>3. /\ ~Stored("generation_requests", q) /\ Stored("projects", q)
      /\ pc[w] # "submit_task" => Stored("tasks", q)
      /\ pc[w] \notin {"submit_task", "submit_run"} => Stored("runs", q)
      /\ pc[w] \notin {"submit_event", "submit_request"} => ~Stored("approvals", q)
      /\ pc[w] \in {"submit_approval", "submit_event", "submit_request"} => Begun(q)
      /\ pc[w] = "submit_approval" => arg[w].choice = "awaiting_approval"
      /\ pc[w] \in {"submit_event", "submit_request"} =>
            (Stored("approvals", q) <=> arg[w].choice = "awaiting_approval")
      /\ pc[w] = "submit_request" => EventsOf(q, Asked) # {}
  BY <1>2, SubmitterKnows
<1>4. CASE SubmitTask(w)
  <2>1. /\ pc[w] = "submit_task" /\ rows' = rows \cup {<<"tasks", q>>}
        /\ pc' = [pc EXCEPT ![w] = "submit_run"] /\ UNCHANGED <<timeline, request, arg>>
    BY <1>2, <1>4 DEF SubmitTask, Goto
  <2>2. pc'[w] = "submit_run"
    BY <2>1 DEF IInv, Types
  <2>3. Stored("tasks", q)' /\ \A t : t # "tasks" => (Stored(t, q)' <=> Stored(t, q))
    BY <2>1 DEF Stored
  <2>4. SubmitterInv(w)'
    BY <1>2, <1>3, <2>1, <2>2, <2>3 DEF SubmitterInv
  <2>5. JoinedAt(q)' /\ WholeAt(q)'
    BY <1>3, <2>1, <2>3 DEF JoinedAt, WholeAt
  <2>6. Timelines' /\ \A p \in Requests : Grows(p, Entries)
    BY <2>1, SubmitQuietly
  <2>7. \E t \in Tables : rows' = rows \cup {<<t, q>>}
    BY <2>1 DEF Tables
  <2> QED
    BY <1>2, <2>1, <2>4, <2>5, <2>6, <2>7, SubmitStep
<1>5. CASE SubmitRun(w)
  <2>1. /\ pc[w] = "submit_run" /\ rows' = rows \cup {<<"runs", q>>}
        /\ pc' = [pc EXCEPT ![w] = "submit_created"] /\ UNCHANGED <<timeline, request, arg>>
    BY <1>2, <1>5 DEF SubmitRun, Goto
  <2>2. pc'[w] = "submit_created"
    BY <2>1 DEF IInv, Types
  <2>3. Stored("runs", q)' /\ \A t : t # "runs" => (Stored(t, q)' <=> Stored(t, q))
    BY <2>1 DEF Stored
  <2>4. SubmitterInv(w)'
    BY <1>2, <1>3, <2>1, <2>2, <2>3 DEF SubmitterInv
  <2>5. JoinedAt(q)' /\ WholeAt(q)'
    BY <1>3, <2>1, <2>3 DEF JoinedAt, WholeAt
  <2>6. Timelines' /\ \A p \in Requests : Grows(p, Entries)
    BY <2>1, SubmitQuietly
  <2>7. \E t \in Tables : rows' = rows \cup {<<t, q>>}
    BY <2>1 DEF Tables
  <2> QED
    BY <1>2, <2>1, <2>4, <2>5, <2>6, <2>7, SubmitStep
<1>6. CASE SubmitCreated(w)
  <2>1. /\ pc[w] = "submit_created" /\ UNCHANGED <<rows, request>>
        /\ Append1(q, Event("run.created", "queued"))
    BY <1>2, <1>6 DEF SubmitCreated
  <2>2. PICK supported \in BOOLEAN :
          /\ arg' = [arg EXCEPT ![w].choice = IF supported THEN "awaiting_approval" ELSE "blocked"]
          /\ pc' = [pc EXCEPT ![w] = IF supported THEN "submit_approval" ELSE "submit_event"]
    BY <1>6 DEF SubmitCreated, Goto
  <2>3. /\ pc'[w] = IF supported THEN "submit_approval" ELSE "submit_event"
        /\ arg'[w].choice = IF supported THEN "awaiting_approval" ELSE "blocked"
        /\ arg'[w].request = q /\ \A v \in Workers \ {w} : arg'[v] = arg[v]
    BY <1>2, <2>2 DEF IInv, Types, Args
  <2>4. Event("run.created", "queued") \in Entries
    BY DEF Event, Entries, EventTypes, Choices
  <2>5. /\ Timelines' /\ Begun(q)'
        /\ \A p \in Requests : Grows(p, IF p = q THEN {Event("run.created", "queued")} ELSE {})
    BY <2>1, <2>4, AppendGrows DEF WholeInv, Begun
  <2>6. \A p \in Requests : Grows(p, Entries)
    BY <2>4, <2>5 DEF Grows
  <2>7. \A t : Stored(t, q)' <=> Stored(t, q)
    BY <2>1 DEF Stored
  <2>8. SubmitterInv(w)'
    BY <1>3, <2>1, <2>3, <2>5, <2>7 DEF SubmitterInv, Begun
  <2>9. JoinedAt(q)' /\ WholeAt(q)'
    BY <1>3, <2>1, <2>7 DEF JoinedAt, WholeAt
  <2>10. rows' = rows /\ \A p \in Requests \ {q} : request'[p] = request[p]
    BY <2>1
  <2> QED
    BY <1>2, <2>2, <2>3, <2>5, <2>6, <2>8, <2>9, <2>10, SubmitStep
<1>7. CASE SubmitApproval(w)
  <2>1. /\ pc[w] = "submit_approval" /\ rows' = rows \cup {<<"approvals", q>>}
        /\ pc' = [pc EXCEPT ![w] = "submit_event"] /\ UNCHANGED <<timeline, request, arg>>
    BY <1>2, <1>7 DEF SubmitApproval, Goto
  <2>2. pc'[w] = "submit_event"
    BY <2>1 DEF IInv, Types
  <2>3. Stored("approvals", q)' /\ \A t : t # "approvals" => (Stored(t, q)' <=> Stored(t, q))
    BY <2>1 DEF Stored
  <2>4. Begun(q)'
    BY <1>3, <2>1 DEF Begun
  <2>5. SubmitterInv(w)'
    BY <1>2, <1>3, <2>1, <2>2, <2>3, <2>4 DEF SubmitterInv, Begun
  <2>6. JoinedAt(q)' /\ WholeAt(q)'
    BY <1>3, <2>1, <2>3, <2>4 DEF JoinedAt, WholeAt
  <2>7. Timelines' /\ \A p \in Requests : Grows(p, Entries)
    BY <2>1, SubmitQuietly
  <2>8. \E t \in Tables : rows' = rows \cup {<<t, q>>}
    BY <2>1 DEF Tables
  <2> QED
    BY <1>2, <2>1, <2>5, <2>6, <2>7, <2>8, SubmitStep
<1>8. CASE SubmitEvent(w)
  <2> DEFINE e == Event(IF arg[w].choice = "blocked" THEN "image.generation.blocked"
                                                     ELSE "approval.requested",
                        arg[w].choice)
  <2>1. /\ pc[w] = "submit_event" /\ UNCHANGED <<rows, request, arg>>
        /\ pc' = [pc EXCEPT ![w] = "submit_request"] /\ Append1(q, e)
    BY <1>2, <1>8 DEF SubmitEvent, Goto
  <2>2. pc'[w] = "submit_request"
    BY <2>1 DEF IInv, Types
  <2>3. e \in Entries /\ e.event_type \in Asked
    BY DEF Event, Entries, EventTypes, Asked, IInv, Types, Args
  <2> HIDE DEF e
  <2>4. /\ Timelines' /\ Begun(q)' /\ EventsOf(q, Asked)' # {}
        /\ \A p \in Requests : Grows(p, IF p = q THEN {e} ELSE {})
    BY <2>1, <2>3, AppendGrows DEF WholeInv, Begun, EventsOf
  <2>5. \A p \in Requests : Grows(p, Entries)
    BY <2>3, <2>4 DEF Grows
  <2>6. \A t : Stored(t, q)' <=> Stored(t, q)
    BY <2>1 DEF Stored
  <2>7. SubmitterInv(w)'
    BY <1>2, <1>3, <2>1, <2>2, <2>4, <2>6 DEF SubmitterInv, Begun, EventsOf
  <2>8. JoinedAt(q)' /\ WholeAt(q)'
    BY <1>3, <2>1, <2>4, <2>6 DEF JoinedAt, WholeAt
  <2>9. /\ rows' = rows /\ \A p \in Requests \ {q} : request'[p] = request[p]
        /\ \A v \in Workers \ {w} : arg'[v] = arg[v]
        /\ arg'[w].request = q
    BY <1>2, <2>1
  <2> QED
    BY <1>2, <2>1, <2>4, <2>5, <2>7, <2>8, <2>9, SubmitStep
<1>9. CASE SubmitRequest(w)
  <2> DEFINE document == [status |-> arg[w].choice, attempt_status |-> "not_attempted",
                          approval |-> arg[w].choice = "awaiting_approval"]
  <2>1. /\ pc[w] = "submit_request" /\ rows' = rows \cup {<<"generation_requests", q>>}
        /\ request' = [request EXCEPT ![q] = document]
        /\ pc' = [pc EXCEPT ![w] = "done"] /\ UNCHANGED <<timeline, arg>>
    BY <1>2, <1>9 DEF SubmitRequest, Return
  <2>2. pc'[w] = "done"
    BY <2>1 DEF IInv, Types
  <2>3. \A t : t # "generation_requests" => (Stored(t, q)' <=> Stored(t, q))
    BY <2>1 DEF Stored
  <2>4. request'[q].approval <=> arg[w].choice = "awaiting_approval"
    BY <2>1 DEF IInv, Types
  <2>5. SubmitterInv(w)'
    BY <2>2 DEF SubmitterInv, Submitting
  <2>6. (Begun(q) => Begun(q)') /\ EventsOf(q, Asked)' # {}
    BY <1>3, <2>1 DEF Begun, EventsOf
  <2>7. JoinedAt(q)' /\ WholeAt(q)'
    BY <1>3, <2>1, <2>3, <2>4, <2>6 DEF JoinedAt, WholeAt
  <2>8. Timelines' /\ \A p \in Requests : Grows(p, Entries)
    BY <2>1, SubmitQuietly
  <2>9. /\ \E t \in Tables : rows' = rows \cup {<<t, q>>}
        /\ \A p \in Requests \ {q} : request'[p] = request[p]
    BY <2>1 DEF Tables, IInv, Types
  <2> QED
    BY <1>2, <2>1, <2>5, <2>7, <2>8, <2>9, SubmitStep
<1> QED
  BY <1>4, <1>5, <1>6, <1>7, <1>8, <1>9

\* decide_approval and execute store no row, and append at most one event.
LEMMA DecideWholeInv ==
  ASSUME IInv, WholeInv, NEW w \in Workers,
         \/ \E a, q \in Requests, d \in Decisions : DecideRead(w, a, q, d)
         \/ DecideRequest(w) \/ DecideResolve(w) \/ DecideEvent(w)
  PROVE  WholeInv'
<1>1. CASE \E a, q \in Requests, d \in Decisions : DecideRead(w, a, q, d)
  <2>1. /\ \E l \in {"done", "decide_request"} : pc' = [pc EXCEPT ![w] = l]
        /\ UNCHANGED <<rows, timeline>> /\ UNCHANGED request
        /\ \A v \in Workers \ {w} : arg'[v] = arg[v]
    BY <1>1 DEF DecideRead, Return, Goto, IInv, Types
  <2> QED
    BY <2>1, NoRowNoEvent DEF Submitting
<1>2. CASE DecideRequest(w)
  <2>1. /\ \E l \in {"done", "decide_resolve"} : pc' = [pc EXCEPT ![w] = l]
        /\ UNCHANGED <<rows, timeline>> /\ UNCHANGED <<request, arg>>
    BY <1>2 DEF DecideRequest, Return, Goto
  <2> QED
    BY <2>1, NoRowNoEvent DEF Submitting
<1>3. CASE DecideResolve(w)
  <2>1. /\ \E l \in {"done", "decide_event"} : pc' = [pc EXCEPT ![w] = l]
        /\ UNCHANGED <<rows, timeline>> /\ UNCHANGED <<request, arg>>
    BY <1>3 DEF DecideResolve, Return, Goto
  <2> QED
    BY <2>1, NoRowNoEvent DEF Submitting
<1>4. CASE DecideEvent(w)
  <2> DEFINE e == [event_type |-> "approval.decided", status |-> DecidedStatus(arg[w].choice),
                   request_hash |-> arg[w].linked]
  <2>1. /\ pc' = [pc EXCEPT ![w] = "done"] /\ UNCHANGED <<arg, rows, request>>
        /\ Append1(arg[w].request, e) /\ pc[w] = "decide_event"
    BY <1>4 DEF DecideEvent, Return
  <2>2. arg[w].request \in Requests
    BY <2>1 DEF IInv, KnowsRequest, Busy
  <2>3. e \in Entries
    BY DEF Entries, EventTypes, DecidedStatus, IInv, Types, Args, Choices
  <2> HIDE DEF e
  <2> QED
    BY <2>1, <2>2, <2>3, NoRowOneEvent DEF Submitting
<1> QED
  BY <1>1, <1>2, <1>3, <1>4

LEMMA ExecuteWholeInv ==
  ASSUME IInv, WholeInv, NEW w \in Workers,
         \/ \E q \in Requests : ExecuteRead(w, q)
         \/ ExecuteApproval(w) \/ ExecuteStart(w) \/ ExecuteGenerate(w)
         \/ ExecuteImport(w) \/ ExecuteUpdate(w) \/ ExecuteFinish(w)
  PROVE  WholeInv'
<1>1. CASE \/ \E q \in Requests : ExecuteRead(w, q)
           \/ ExecuteApproval(w) \/ ExecuteGenerate(w) \/ ExecuteImport(w) \/ ExecuteUpdate(w)
  <2>1. /\ \E l \in {"done", "execute_approval", "execute_start", "execute_update",
                     "execute_import", "execute_finish"} : pc' = [pc EXCEPT ![w] = l]
        /\ UNCHANGED <<rows, timeline>>
        /\ \A v \in Workers \ {w} : arg'[v] = arg[v]
    BY <1>1 DEF ExecuteRead, ExecuteApproval, ExecuteGenerate, ExecuteImport, ExecuteUpdate,
                Return, Goto, IInv, Types
  <2>2. \A q \in Requests : request'[q].approval = request[q].approval
    <3>1. CASE UNCHANGED request
      BY <3>1
    <3>2. CASE ExecuteUpdate(w)
      <4>1. /\ request' = [request EXCEPT ![arg[w].request].status = arg[w].choice,
                                         ![arg[w].request].attempt_status = "attempted"]
            /\ request \in [Requests -> Documents]
        BY <3>2 DEF ExecuteUpdate, IInv, Types
      <4> QED
        BY <4>1 DEF Documents
    <3> QED
      BY <1>1, <3>1, <3>2 DEF ExecuteRead, ExecuteApproval, ExecuteGenerate, ExecuteImport
  <2> QED
    BY <2>1, <2>2, NoRowNoEvent DEF Submitting
<1>2. CASE ExecuteStart(w)
  <2>1. /\ pc' = [pc EXCEPT ![w] = "execute_generate"] /\ UNCHANGED <<arg, rows, request>>
        /\ Append1(arg[w].request, Event("image.provider.started", "running"))
        /\ arg[w].request \in Requests
    BY <1>2 DEF ExecuteStart, Goto, IInv, KnowsRequest, Busy
  <2>2. Event("image.provider.started", "running") \in Entries
    BY DEF Event, Entries, EventTypes
  <2> QED
    BY <2>1, <2>2, NoRowOneEvent DEF Submitting
<1>3. CASE ExecuteFinish(w)
  <2>1. /\ pc' = [pc EXCEPT ![w] = "done"] /\ UNCHANGED <<arg, rows, request>>
        /\ Append1(arg[w].request, Event("image.provider.finished", arg[w].choice))
        /\ arg[w].request \in Requests
    BY <1>3 DEF ExecuteFinish, Return, IInv, KnowsRequest, Busy
  <2>2. Event("image.provider.finished", arg[w].choice) \in Entries
    BY DEF Event, Entries, EventTypes, IInv, Types, Args
  <2> QED
    BY <2>1, <2>2, NoRowOneEvent DEF Submitting
<1> QED
  BY <1>1, <1>2, <1>3

\* What DemoOrchestrator.resolve appends is one event or two.
LEMMA ResolveGrows ==
  ASSUME Timelines, NEW q \in Requests, NEW d \in Decisions,
         timeline' = [timeline EXCEPT ![q] = @ \o ResolvedEvents(d)]
  PROVE  Timelines' /\ \A p \in Requests : Grows(p, Unfinished)
<1> DEFINE s == timeline[q]
           E == ResolvedEvents(d)
<1>1. E \in Seq(Unfinished)
  <2>1. /\ Event("approval.resolved", DecidedStatus(d)) \in Unfinished
        /\ Event("run.resumed", "approved_local_only") \in Unfinished
    BY DEF Event, Entries, EventTypes, DecidedStatus, Choices, Unfinished
  <2> QED
    BY <2>1 DEF ResolvedEvents
<1> HIDE DEF E
<1>2. E \in Seq(Entries)
  BY <1>1 DEF Unfinished
<1>3. s \in Seq(Entries) /\ s \o E \in Seq(Entries)
  BY <1>2 DEF Timelines
<1>4. /\ Timelines' /\ timeline'[q] = s \o E
      /\ \A p \in Requests \ {q} : timeline'[p] = timeline[p]
  BY <1>3 DEF Timelines, E
<1>5. /\ DOMAIN s = 1..Len(s) /\ Len(s) \in Nat /\ Len(E) \in Nat
      /\ DOMAIN timeline'[q] = 1..(Len(s) + Len(E))
      /\ \A i \in 1..Len(s) : timeline'[q][i] = s[i]
      /\ \A i \in 1..Len(E) : timeline'[q][Len(s) + i] = E[i]
  BY <1>2, <1>3, <1>4
<1>6. \A i \in DOMAIN timeline'[q] \ DOMAIN s : timeline'[q][i] \in Unfinished
  <2> SUFFICES ASSUME NEW i \in DOMAIN timeline'[q], i \notin DOMAIN s
               PROVE  timeline'[q][i] \in Unfinished
    OBVIOUS
  <2>1. i - Len(s) \in 1..Len(E) /\ i = Len(s) + (i - Len(s))
    BY <1>5
  <2>2. timeline'[q][i] = E[i - Len(s)]
    BY <1>5, <2>1
  <2> QED
    BY <1>1, <2>1, <2>2
<1>7. Grows(q, Unfinished)
  <2>1. timeline'[q] \in Seq(Entries)
    BY <1>3, <1>4
  <2>2. DOMAIN timeline[q] \subseteq DOMAIN timeline'[q]
    <3>1. 1..Len(s) \subseteq 1..(Len(s) + Len(E))
      BY <1>5
    <3> QED
      BY <1>5, <3>1
  <2>3. \A i \in DOMAIN timeline[q] : timeline'[q][i] = timeline[q][i]
    BY <1>5
  <2> HIDE DEF s
  <2> QED
    BY <1>6, <2>1, <2>2, <2>3 DEF Grows, s
<1>8. \A p \in Requests \ {q} : Grows(p, Unfinished)
  BY <1>4 DEF Grows, Timelines
<1> QED
  BY <1>4, <1>7, <1>8

LEMMA ResolveWholeInv ==
  ASSUME IInv, WholeInv, NEW w \in Workers, NEW q \in Requests, NEW d \in Decisions,
         Resolve(w, q, d)
  PROVE  WholeInv'
<1>1. /\ pc' = [pc EXCEPT ![w] = "done"] /\ UNCHANGED <<rows, request, arg>>
      /\ UNCHANGED timeline \/ timeline' = [timeline EXCEPT ![q] = @ \o ResolvedEvents(d)]
  BY DEF Resolve, Return
<1>2. CASE UNCHANGED timeline
  BY <1>1, <1>2, NoRowNoEvent DEF Submitting
<1>3. CASE timeline' = [timeline EXCEPT ![q] = @ \o ResolvedEvents(d)]
  <2>1. Timelines' /\ \A p \in Requests : Grows(p, Unfinished)
    BY <1>3, ResolveGrows DEF WholeInv
  <2>2. \A p \in Requests : Grows(p, Entries)
    BY <2>1 DEF Grows, Unfinished
  <2>3. /\ UNCHANGED rows /\ \A v \in Workers \ {w} : arg'[v] = arg[v]
        /\ \A p \in Requests : request'[p].approval = request[p].approval
    BY <1>1
  <2> QED
    BY <1>1, <2>1, <2>2, <2>3, NoRowStep DEF Submitting
<1> QED
  BY <1>1, <1>2, <1>3

LEMMA NextWholeInv == IInv /\ WholeInv /\ [Next]_vars => WholeInv'
<1> SUFFICES ASSUME IInv, WholeInv, [Next]_vars
             PROVE  WholeInv'
  OBVIOUS
<1>1. ASSUME NEW w \in Workers, Abort(w)
      PROVE  WholeInv'
  BY <1>1, NoRowNoEvent DEF Abort, Goto, Submitting
<1>2. CASE ProviderChange \/ UNCHANGED vars
  <2>1. UNCHANGED <<rows, timeline, request, arg, pc>>
    BY <1>2 DEF ProviderChange, vars
  <2> QED
    BY <2>1 DEF WholeInv, Timelines, SubmitterInv, LoneSubmitters, JoinedAt, WholeAt, Stored,
                Begun, EventsOf
<1> QED
  BY <1>1, <1>2, SubmitWholeInv, DecideWholeInv, ResolveWholeInv, ExecuteWholeInv
     DEF Next, Continue, ContinueLocal

\* A stored request has everything it refers to, whichever call died on the way.
THEOREM RequestsWhole == Spec => []RequestWhole
<1>1. WholeInv => RequestWhole
  BY DEF WholeInv, WholeAt, RequestWhole, Asked
<1> QED
  BY <1>1, InitIInv, NextIInv, InitWholeInv, NextWholeInv, PTL DEF Spec

----------------------------------------------------------------------------
(* What the records say of the attempts. *)

Executing == {"execute_approval", "execute_start", "execute_generate", "execute_import",
              "execute_update", "execute_finish"}

\* The threads that are about to call the provider for q.
Generating(q) == {w \in Workers : pc[w] = "execute_generate" /\ arg[w].request = q}

Started(q)  == EventsOf(q, {"image.provider.started"})
Finished(q) == EventsOf(q, {"image.provider.finished"})

\* Each of these has left its started event, and so has each call before it.
CountedAt(q) ==
    /\ IsFiniteSet(Generating(q))
    /\ calls[q] + Cardinality(Generating(q)) <= Cardinality(Started(q))

Attempted(q) == request[q].attempt_status = "attempted"

RecordAt(q) ==
    /\ Attempted(q) => calls[q] > 0 /\ Stored("generation_requests", q)
    /\ Attempted(q) <=> request[q].status \in Outcomes
    /\ Finished(q) # {} => Attempted(q)

ExecutorInv(w) ==
    /\ pc[w] \in Executing => Stored("generation_requests", arg[w].request)
    /\ pc[w] \in {"execute_import", "execute_update", "execute_finish"} =>
          calls[arg[w].request] > 0 /\ arg[w].choice \in Outcomes
    /\ pc[w] = "execute_finish" => Attempted(arg[w].request)
    /\ pc[w] \in {"submit_approval", "submit_event", "submit_request"} =>
          arg[w].choice \in {"awaiting_approval", "blocked"}

CountInv  == \A q \in Requests : CountedAt(q)
RecordInv == (\A w \in Workers : ExecutorInv(w)) /\ \A q \in Requests : RecordAt(q)

\* A timeline has finitely many events of any type.
LEMMA EventsFinite ==
  ASSUME NEW s \in Seq(Entries), NEW T
  PROVE  /\ IsFiniteSet({i \in DOMAIN s : s[i].event_type \in T})
         /\ Cardinality({i \in DOMAIN s : s[i].event_type \in T}) \in Nat
<1> DEFINE S == {i \in DOMAIN s : s[i].event_type \in T}
<1>1. DOMAIN s = 1..Len(s) /\ Len(s) \in Nat /\ S \subseteq DOMAIN s
  OBVIOUS
<1>2. IsFiniteSet(1..Len(s))
  BY <1>1, FS_Interval
<1>3. IsFiniteSet(S)
  BY <1>1, <1>2, FS_Subset
<1> QED
  BY <1>3, FS_CardinalityType

LEMMA StartedFinite ==
  ASSUME Timelines, Timelines', NEW q \in Requests
  PROVE  /\ IsFiniteSet(Started(q)) /\ Cardinality(Started(q)) \in Nat
         /\ IsFiniteSet(Started(q)') /\ Cardinality(Started(q)') \in Nat
<1>1. timeline[q] \in Seq(Entries) /\ timeline'[q] \in Seq(Entries)
  BY DEF Timelines
<1> QED
  BY <1>1, EventsFinite DEF Started, EventsOf

\* No thread comes to its call, and none has called.
LEMMA CountKept ==
  ASSUME IInv, Timelines, Timelines', NEW q \in Requests, CountedAt(q),
         Generating(q)' \subseteq Generating(q), calls'[q] = calls[q], NEW E, Grows(q, E)
  PROVE  CountedAt(q)'
<1>1. Started(q) \subseteq Started(q)'
  BY MoreEvents DEF Started
<1>2. IsFiniteSet(Started(q)') /\ Cardinality(Started(q)') \in Nat
  BY StartedFinite
<1>3. Cardinality(Started(q)) \in Nat
  BY StartedFinite
<1>4. Cardinality(Started(q)) <= Cardinality(Started(q)')
  BY <1>1, <1>2, FS_Subset
<1>5. /\ IsFiniteSet(Generating(q)')
      /\ Cardinality(Generating(q)') <= Cardinality(Generating(q))
  BY FS_Subset DEF CountedAt
<1>6. Cardinality(Generating(q)) \in Nat /\ Cardinality(Generating(q)') \in Nat
  BY <1>5, FS_CardinalityType DEF CountedAt
<1>7. calls[q] \in Nat
  BY DEF IInv, Types
<1> QED
  BY <1>3, <1>4, <1>5, <1>6, <1>7, <1>2 DEF CountedAt

\* The steps of a call that has begun, but for the one that says that its
\* attempt has finished.
Proceeds(w) ==
    \/ SubmitTask(w) \/ SubmitRun(w) \/ SubmitCreated(w)
    \/ SubmitApproval(w) \/ SubmitEvent(w) \/ SubmitRequest(w)
    \/ DecideRequest(w) \/ DecideResolve(w) \/ DecideEvent(w)
    \/ ExecuteApproval(w) \/ ExecuteStart(w) \/ ExecuteGenerate(w)
    \/ ExecuteImport(w) \/ ExecuteUpdate(w)

Unfinishing(w) ==
    \/ \E q \in Requests : SubmitProject(w, q) \/ ExecuteRead(w, q)
    \/ \E a, q \in Requests, d \in Decisions : DecideRead(w, a, q, d)
    \/ \E a \in Requests, d \in Decisions : Resolve(w, a, d)
    \/ Proceeds(w)
    \/ Abort(w)

\* Such a step appends no event or one, and only resolve says that it resolved.
LEMMA StepAppends ==
  ASSUME IInv, NEW w \in Workers, Proceeds(w)
  PROVE  \/ UNCHANGED timeline
         \/ /\ arg[w].request \in Requests
            /\ \E e \in Unfinished :
                  Append1(arg[w].request, e) /\ e.event_type # "approval.resolved"
<1>1. CASE SubmitCreated(w)
  <2> DEFINE e == Event("run.created", "queued")
  <2>1. Append1(arg[w].request, e) /\ arg[w].request \in Requests
    BY <1>1 DEF SubmitCreated, IInv, KnowsRequest, Busy
  <2>2. e \in Unfinished /\ e.event_type # "approval.resolved"
    BY DEF Event, Unfinished, Entries, EventTypes, IInv, Types, Args, Choices
  <2> HIDE DEF e
  <2> QED
    BY <2>1, <2>2
<1>2. CASE SubmitEvent(w)
  <2> DEFINE e == Event(IF arg[w].choice = "blocked" THEN "image.generation.blocked"
                                                     ELSE "approval.requested",
                        arg[w].choice)
  <2>1. Append1(arg[w].request, e) /\ arg[w].request \in Requests
    BY <1>2 DEF SubmitEvent, IInv, KnowsRequest, Busy
  <2>2. e \in Unfinished /\ e.event_type # "approval.resolved"
    BY DEF Event, Unfinished, Entries, EventTypes, IInv, Types, Args, Choices
  <2> HIDE DEF e
  <2> QED
    BY <2>1, <2>2
<1>3. CASE DecideEvent(w)
  <2> DEFINE e == [event_type |-> "approval.decided", status |-> DecidedStatus(arg[w].choice),
                   request_hash |-> arg[w].linked]
  <2>1. Append1(arg[w].request, e) /\ arg[w].request \in Requests
    BY <1>3 DEF DecideEvent, IInv, KnowsRequest, Busy
  <2>2. e \in Unfinished /\ e.event_type # "approval.resolved"
    BY DEF DecidedStatus, Unfinished, Entries, EventTypes, IInv, Types, Args, Choices
  <2> HIDE DEF e
  <2> QED
    BY <2>1, <2>2
<1>4. CASE ExecuteStart(w)
  <2> DEFINE e == Event("image.provider.started", "running")
  <2>1. Append1(arg[w].request, e) /\ arg[w].request \in Requests
    BY <1>4 DEF ExecuteStart, IInv, KnowsRequest, Busy
  <2>2. e \in Unfinished /\ e.event_type # "approval.resolved"
    BY DEF Event, Unfinished, Entries, EventTypes, IInv, Types, Args, Choices
  <2> HIDE DEF e
  <2> QED
    BY <2>1, <2>2
<1>5. CASE \/ SubmitTask(w) \/ SubmitRun(w) \/ SubmitApproval(w) \/ SubmitRequest(w)
           \/ DecideRequest(w) \/ DecideResolve(w) \/ ExecuteApproval(w)
           \/ ExecuteGenerate(w) \/ ExecuteImport(w) \/ ExecuteUpdate(w)
  BY <1>5 DEF SubmitTask, SubmitRun, SubmitApproval, SubmitRequest, DecideRequest, DecideResolve,
     ExecuteApproval, ExecuteGenerate, ExecuteImport, ExecuteUpdate
<1> QED
  BY <1>1, <1>2, <1>3, <1>4, <1>5 DEF Proceeds

LEMMA StepGrows ==
  ASSUME IInv, Timelines, NEW w \in Workers, Unfinishing(w)
  PROVE  Timelines' /\ \A q \in Requests : Grows(q, Unfinished)
<1>1. CASE UNCHANGED timeline
  BY <1>1, UnchangedGrows DEF Grows
<1>2. CASE Proceeds(w)
  BY <1>1, <1>2, StepAppends, AppendUnfinished
<1>3. ASSUME NEW a \in Requests, NEW d \in Decisions, Resolve(w, a, d)
      PROVE  Timelines' /\ \A q \in Requests : Grows(q, Unfinished)
  <2>1. UNCHANGED timeline \/ timeline' = [timeline EXCEPT ![a] = @ \o ResolvedEvents(d)]
    BY <1>3 DEF Resolve
  <2> QED
    BY <1>1, <2>1, ResolveGrows
<1> QED
  BY <1>1, <1>2, <1>3 DEF Unfinishing, SubmitProject, DecideRead, ExecuteRead, Abort

\* Timelines only grow.
LEMMA NextGrows ==
  ASSUME IInv, Timelines, [Next]_vars
  PROVE  Timelines' /\ \A q \in Requests : Grows(q, Entries)
<1>1. ASSUME NEW w \in Workers, ExecuteFinish(w)
      PROVE  Timelines' /\ \A q \in Requests : Grows(q, Entries)
  <2> DEFINE e == Event("image.provider.finished", arg[w].choice)
  <2>1. arg[w].request \in Requests /\ Append1(arg[w].request, e)
    BY <1>1 DEF ExecuteFinish, IInv, KnowsRequest, Busy
  <2>2. e \in Entries
    BY DEF Event, Entries, EventTypes, IInv, Types, Args
  <2> HIDE DEF e
  <2>3. Timelines' /\ \A q \in Requests : Grows(q, IF q = arg[w].request THEN {e} ELSE {})
    BY <2>1, <2>2, AppendGrows
  <2> QED
    BY <2>2, <2>3 DEF Grows
<1>2. ASSUME NEW w \in Workers, Unfinishing(w)
      PROVE  Timelines' /\ \A q \in Requests : Grows(q, Entries)
  <2>1. Timelines' /\ \A q \in Requests : Grows(q, Unfinished)
    BY <1>2, StepGrows
  <2> QED
    BY <2>1 DEF Grows, Unfinished
<1>3. CASE UNCHANGED timeline
  BY <1>3, UnchangedGrows DEF Grows
<1> QED
  BY <1>1, <1>2, <1>3 DEF Next, Continue, ContinueLocal, Unfinishing, Proceeds, ProviderChange, vars

\* Once there is a decision, nobody says any more that they resolved it.
LEMMA ResolvedKept ==
  ASSUME IInv, Timelines, [Next]_vars, NEW q \in Requests, decision[q] # "pending"
  PROVE  EventsOf(q, {"approval.resolved"})' = EventsOf(q, {"approval.resolved"})
<1>1. CASE UNCHANGED timeline
  BY <1>1 DEF EventsOf
<1>2. ASSUME NEW p \in Requests, NEW e \in Entries, Append1(p, e),
             e.event_type # "approval.resolved"
      PROVE  EventsOf(q, {"approval.resolved"})' = EventsOf(q, {"approval.resolved"})
  <2>1. Grows(q, IF q = p THEN {e} ELSE {})
    BY <1>2, AppendGrows
  <2> QED
    BY <1>2, <2>1, SameEvents
<1>3. ASSUME NEW w \in Workers, Proceeds(w)
      PROVE  EventsOf(q, {"approval.resolved"})' = EventsOf(q, {"approval.resolved"})
  BY <1>1, <1>2, <1>3, StepAppends DEF Unfinished
<1>4. ASSUME NEW w \in Workers, ExecuteFinish(w)
      PROVE  EventsOf(q, {"approval.resolved"})' = EventsOf(q, {"approval.resolved"})
  <2> DEFINE e == Event("image.provider.finished", arg[w].choice)
  <2>1. arg[w].request \in Requests /\ Append1(arg[w].request, e)
    BY <1>4 DEF ExecuteFinish, IInv, KnowsRequest, Busy
  <2>2. e \in Entries /\ e.event_type # "approval.resolved"
    BY DEF Event, Entries, EventTypes, IInv, Types, Args
  <2> HIDE DEF e
  <2> QED
    BY <1>2, <2>1, <2>2
<1>5. ASSUME NEW w \in Workers, NEW a \in Requests, NEW d \in Decisions, Resolve(w, a, d)
      PROVE  EventsOf(q, {"approval.resolved"})' = EventsOf(q, {"approval.resolved"})
  <2>1. UNCHANGED timeline
          \/ (a # q /\ timeline' = [timeline EXCEPT ![a] = @ \o ResolvedEvents(d)])
    BY <1>5 DEF Resolve
  <2>2. timeline'[q] = timeline[q]
    BY <2>1 DEF Timelines
  <2> QED
    BY <2>2 DEF EventsOf
<1> QED
  BY <1>1, <1>3, <1>4, <1>5 DEF Next, Continue, ContinueLocal, Proceeds, SubmitProject, DecideRead, ExecuteRead,
     Abort, ProviderChange, vars

\* ExecuteStart takes w to its call, and leaves the event of it.
LEMMA StartCounted ==
  ASSUME IInv, Timelines, Timelines', NEW w \in Workers, ExecuteStart(w),
         NEW q \in Requests, q = arg[w].request, CountedAt(q)
  PROVE  CountedAt(q)'
<1>1. /\ pc[w] = "execute_start" /\ pc' = [pc EXCEPT ![w] = "execute_generate"]
      /\ UNCHANGED <<arg, calls>>
      /\ Append1(q, Event("image.provider.started", "running"))
  BY DEF ExecuteStart, Goto
<1>2. Generating(q)' = Generating(q) \cup {w} /\ w \notin Generating(q)
  BY <1>1 DEF IInv, Types, Generating
<1>3. /\ IsFiniteSet(Generating(q)')
      /\ Cardinality(Generating(q)') = Cardinality(Generating(q)) + 1
  BY <1>2, FS_AddElement DEF CountedAt
<1> DEFINE k == Len(timeline[q]) + 1
<1>4. /\ DOMAIN timeline'[q] = DOMAIN timeline[q] \cup {k} /\ k \notin DOMAIN timeline[q]
      /\ timeline'[q][k] = Event("image.provider.started", "running")
      /\ \A i \in DOMAIN timeline[q] : timeline'[q][i] = timeline[q][i]
  <2>1. Event("image.provider.started", "running") \in Entries
    BY DEF Event, Entries, EventTypes
  <2>2. /\ \A p \in Requests :
              Grows(p, IF p = q THEN {Event("image.provider.started", "running")} ELSE {})
        /\ timeline'[q][k] = Event("image.provider.started", "running")
        /\ DOMAIN timeline'[q] = DOMAIN timeline[q] \cup {k}
    BY <1>1, <2>1, AppendGrows
  <2>3. DOMAIN timeline[q] = 1..Len(timeline[q]) /\ Len(timeline[q]) \in Nat
    BY DEF Timelines
  <2>4. k \notin DOMAIN timeline[q]
    BY <2>3
  <2> HIDE DEF k
  <2>5. \A i \in DOMAIN timeline[q] : timeline'[q][i] = timeline[q][i]
    BY <2>2 DEF Grows
  <2> QED
    BY <2>2, <2>4, <2>5
<1> HIDE DEF k
<1>5. Started(q)' = Started(q) \cup {k} /\ k \notin Started(q)
  BY <1>4 DEF Started, EventsOf, Event
<1>6. Cardinality(Started(q)') = Cardinality(Started(q)) + 1
  BY <1>5, StartedFinite, FS_AddElement
<1>7. Cardinality(Started(q)) \in Nat /\ Cardinality(Generating(q)) \in Nat /\ calls[q] \in Nat
  BY StartedFinite, FS_CardinalityType DEF CountedAt, IInv, Types
<1> QED
  BY <1>1, <1>3, <1>6, <1>7 DEF CountedAt

\* ExecuteGenerate takes w from its call.
LEMMA CallCounted ==
  ASSUME IInv, Timelines, Timelines', NEW w \in Workers, ExecuteGenerate(w),
         NEW q \in Requests, q = arg[w].request, CountedAt(q)
  PROVE  CountedAt(q)'
<1>1. /\ pc[w] = "execute_generate" /\ UNCHANGED timeline
      /\ calls' = [calls EXCEPT ![q] = @ + 1]
  BY DEF ExecuteGenerate
<1>2. PICK l \in {"execute_update", "execute_import"} : pc' = [pc EXCEPT ![w] = l]
  BY DEF ExecuteGenerate, Goto
<1>3. \A v \in Workers \ {w} : pc'[v] = pc[v] /\ arg'[v] = arg[v]
  BY <1>2 DEF ExecuteGenerate, IInv, Types
<1>4. Generating(q)' = Generating(q) \ {w} /\ w \in Generating(q)
  BY <1>1, <1>2, <1>3 DEF IInv, Types, Generating
<1>5. /\ IsFiniteSet(Generating(q)')
      /\ Cardinality(Generating(q)') = Cardinality(Generating(q)) - 1
  BY <1>4, FS_RemoveElement DEF CountedAt
<1>6. Started(q)' = Started(q)
  BY <1>1 DEF Started, EventsOf
<1>7. Cardinality(Started(q)) \in Nat /\ Cardinality(Generating(q)) \in Nat /\ calls[q] \in Nat
  BY StartedFinite, FS_CardinalityType DEF CountedAt, IInv, Types
<1>8. calls'[q] = calls[q] + 1
  BY <1>1 DEF IInv, Types
<1> QED
  BY <1>5, <1>6, <1>7, <1>8 DEF CountedAt

LEMMA NextCountInv == IInv /\ Timelines /\ CountInv /\ [Next]_vars => CountInv'
<1> SUFFICES ASSUME IInv, Timelines, CountInv, [Next]_vars, NEW q \in Requests
             PROVE  CountedAt(q)'
  BY DEF CountInv
<1>1. CountedAt(q) /\ Timelines' /\ Grows(q, Entries)
  BY NextGrows DEF CountInv
<1>2. ASSUME NEW w \in Workers, ExecuteStart(w) \/ ExecuteGenerate(w), q = arg[w].request
      PROVE  CountedAt(q)'
  BY <1>1, <1>2, StartCounted, CallCounted
<1>3. ASSUME NEW w \in Workers, ExecuteStart(w) \/ ExecuteGenerate(w), q # arg[w].request
      PROVE  CountedAt(q)'
  <2>1. /\ calls'[q] = calls[q] /\ arg'[w].request = arg[w].request
        /\ \A v \in Workers \ {w} : pc'[v] = pc[v] /\ arg'[v] = arg[v]
    <3>1. CASE ExecuteStart(w)
      BY <3>1 DEF ExecuteStart, Goto, IInv, Types
    <3>2. CASE ExecuteGenerate(w)
      <4>1. calls'[q] = calls[q]
        BY <1>3, <3>2 DEF ExecuteGenerate, IInv, Types
      <4>2. /\ \E l : pc' = [pc EXCEPT ![w] = l]
            /\ \E c, n : arg' = [arg EXCEPT ![w].choice = c, ![w].outputs = n]
        BY <3>2 DEF ExecuteGenerate, Goto
      <4> QED
        BY <4>1, <4>2 DEF IInv, Types, Args
    <3> QED
      BY <1>3, <3>1, <3>2
  <2>2. Generating(q)' \subseteq Generating(q)
    BY <1>3, <2>1 DEF Generating
  <2> QED
    BY <1>1, <2>1, <2>2, CountKept
<1>4. ASSUME NEW w \in Workers, NEW l, l # "execute_generate", pc' = [pc EXCEPT ![w] = l],
             \A v \in Workers \ {w} : arg'[v] = arg[v], UNCHANGED calls
      PROVE  CountedAt(q)'
  <2>1. Generating(q)' \subseteq Generating(q)
    BY <1>4 DEF IInv, Types, Generating
  <2> QED
    BY <1>1, <1>4, <2>1, CountKept
<1>5. ASSUME NEW w \in Workers, \E p \in Requests : SubmitProject(w, p)
      PROVE  CountedAt(q)'
  BY <1>4, <1>5 DEF SubmitProject, Goto, IInv, Types
<1>6. ASSUME NEW w \in Workers,
             \/ SubmitTask(w) \/ SubmitRun(w) \/ SubmitCreated(w)
             \/ SubmitApproval(w) \/ SubmitEvent(w) \/ SubmitRequest(w)
      PROVE  CountedAt(q)'
  BY <1>4, <1>6 DEF SubmitTask, SubmitRun, SubmitCreated, SubmitApproval, SubmitEvent,
     SubmitRequest, Goto, Return, IInv, Types
<1>7. ASSUME NEW w \in Workers,
             \/ \E a, p \in Requests, d \in Decisions : DecideRead(w, a, p, d)
             \/ \E a \in Requests, d \in Decisions : Resolve(w, a, d)
             \/ DecideRequest(w) \/ DecideResolve(w) \/ DecideEvent(w)
      PROVE  CountedAt(q)'
  <2>1. /\ \E l \in {"done", "decide_request", "decide_resolve", "decide_event"} :
              pc' = [pc EXCEPT ![w] = l]
        /\ UNCHANGED calls /\ \A v \in Workers \ {w} : arg'[v] = arg[v]
    BY <1>7 DEF DecideRead, Resolve, DecideRequest, DecideResolve, DecideEvent, Goto, Return,
       IInv, Types
  <2> QED
    BY <1>4, <2>1
<1>8. ASSUME NEW w \in Workers,
             \/ \E p \in Requests : ExecuteRead(w, p)
             \/ ExecuteApproval(w) \/ ExecuteImport(w) \/ ExecuteUpdate(w) \/ ExecuteFinish(w)
      PROVE  CountedAt(q)'
  <2>1. /\ \E l \in {"done", "execute_approval", "execute_start", "execute_import",
                     "execute_update", "execute_finish"} : pc' = [pc EXCEPT ![w] = l]
        /\ UNCHANGED calls /\ \A v \in Workers \ {w} : arg'[v] = arg[v]
    BY <1>8 DEF ExecuteRead, ExecuteApproval, ExecuteImport, ExecuteUpdate, ExecuteFinish, Goto,
       Return, IInv, Types
  <2> QED
    BY <1>4, <2>1
<1>9. ASSUME NEW w \in Workers, Abort(w)
      PROVE  CountedAt(q)'
  BY <1>4, <1>9 DEF Abort, Goto
<1>10. CASE ProviderChange \/ UNCHANGED vars
  <2>1. UNCHANGED <<pc, arg, calls>>
    BY <1>10 DEF ProviderChange, vars
  <2> QED
    BY <1>1, <2>1, CountKept DEF Generating
<1> QED
  BY <1>2, <1>3, <1>5, <1>6, <1>7, <1>8, <1>9, <1>10 DEF Next, Continue, ContinueLocal

LEMMA RecordKept ==
  ASSUME IInv, NEW q \in Requests, RecordAt(q), request'[q] = request[q],
         calls' \in [Requests -> Nat], calls'[q] >= calls[q],
         rows \subseteq rows', Grows(q, Unfinished)
  PROVE  RecordAt(q)'
<1>1. EventsOf(q, {"image.provider.finished"})' = EventsOf(q, {"image.provider.finished"})
  <2>1. \A e \in Unfinished : e.event_type \notin {"image.provider.finished"}
    BY DEF Unfinished
  <2> QED
    BY <2>1, SameEvents
<1>2. calls[q] \in Nat /\ calls'[q] \in Nat
  BY DEF IInv, Types
<1> QED
  BY <1>1, <1>2 DEF RecordAt, Attempted, Finished, Stored

\* A step of w leaves what the other threads rely on.
LEMMA RecordStep ==
  ASSUME IInv, RecordInv, NEW w \in Workers, NEW l, pc' = [pc EXCEPT ![w] = l],
         \A v \in Workers \ {w} : arg'[v] = arg[v], rows \subseteq rows',
         calls' \in [Requests -> Nat], \A q \in Requests : calls'[q] >= calls[q],
         \A q \in Requests : Stored("generation_requests", q) /\ Attempted(q) => Attempted(q)',
         \A q \in Requests : RecordAt(q)', ExecutorInv(w)'
  PROVE  RecordInv'
<1>1. ASSUME NEW v \in Workers \ {w}
      PROVE  ExecutorInv(v)'
  <2>1. pc'[v] = pc[v] /\ arg'[v] = arg[v] /\ ExecutorInv(v)
    BY DEF IInv, Types, RecordInv
  <2>2. CASE pc[v] \in Executing
    <3>1. PICK q \in Requests : q = arg[v].request
      BY <2>2 DEF IInv, KnowsRequest, Busy, Executing
    <3>2. calls[q] \in Nat /\ calls'[q] \in Nat /\ calls'[q] >= calls[q]
      BY DEF IInv, Types
    <3>3. Stored("generation_requests", q) /\ Stored("generation_requests", q)'
      BY <2>1, <2>2, <3>1 DEF ExecutorInv, Stored
    <3>4. /\ pc[v] \in {"execute_import", "execute_update", "execute_finish"} =>
                calls'[q] > 0 /\ arg[v].choice \in Outcomes
          /\ pc[v] = "execute_finish" => Attempted(q)'
      BY <2>1, <3>1, <3>2, <3>3 DEF ExecutorInv
    <3> QED
      BY <2>1, <2>2, <3>1, <3>3, <3>4 DEF ExecutorInv, Executing, Attempted, Stored
  <2>3. CASE pc[v] \notin Executing
    BY <2>1, <2>3 DEF ExecutorInv, Executing
  <2> QED
    BY <2>2, <2>3
<1> QED
  BY <1>1 DEF RecordInv

\* The usual case: neither a request nor the number of calls changes.
LEMMA QuietRecordStep ==
  ASSUME IInv, RecordInv, NEW w \in Workers, NEW l, pc' = [pc EXCEPT ![w] = l],
         \A v \in Workers \ {w} : arg'[v] = arg[v], rows \subseteq rows',
         UNCHANGED <<calls, request>>, \A q \in Requests : Grows(q, Unfinished),
         ExecutorInv(w)'
  PROVE  RecordInv'
<1>1. calls' \in [Requests -> Nat] /\ \A q \in Requests : calls'[q] >= calls[q]
  BY DEF IInv, Types
<1>2. \A q \in Requests : RecordAt(q)'
  BY <1>1, RecordKept DEF RecordInv
<1>3. \A q \in Requests : Attempted(q) => Attempted(q)'
  BY DEF Attempted
<1> QED
  BY <1>1, <1>2, <1>3, RecordStep

LEMMA SubmitRecordInv ==
  ASSUME IInv, WholeInv, RecordInv, NEW w \in Workers,
         \/ \E q \in Requests : SubmitProject(w, q)
         \/ SubmitTask(w) \/ SubmitRun(w) \/ SubmitCreated(w)
         \/ SubmitApproval(w) \/ SubmitEvent(w) \/ SubmitRequest(w)
  PROVE  RecordInv'
<1>1. \A q \in Requests : Grows(q, Unfinished)
  BY StepGrows DEF Unfinishing, Proceeds, WholeInv
<1>2. rows \subseteq rows' /\ UNCHANGED calls /\ \A v \in Workers \ {w} : arg'[v] = arg[v]
  BY DEF SubmitProject, SubmitTask, SubmitRun, SubmitCreated, SubmitApproval, SubmitEvent,
     SubmitRequest, IInv, Types
<1>3. CASE \/ \E q \in Requests : SubmitProject(w, q)
           \/ SubmitTask(w) \/ SubmitRun(w)
  <2>1. /\ \E l \in {"submit_task", "submit_run", "submit_created"} : pc' = [pc EXCEPT ![w] = l]
        /\ UNCHANGED request
    BY <1>3 DEF SubmitProject, SubmitTask, SubmitRun, Goto
  <2>2. ExecutorInv(w)'
    BY <2>1 DEF ExecutorInv, Executing, IInv, Types
  <2> QED
    BY <1>1, <1>2, <2>1, <2>2, QuietRecordStep
<1>4. CASE SubmitCreated(w)
  <2>1. /\ \E l \in {"submit_approval", "submit_event"} : pc' = [pc EXCEPT ![w] = l]
        /\ \E c \in {"awaiting_approval", "blocked"} : arg' = [arg EXCEPT ![w].choice = c]
        /\ UNCHANGED request
    BY <1>4 DEF SubmitCreated, Goto
  <2>2. ExecutorInv(w)'
    BY <2>1 DEF ExecutorInv, Executing, IInv, Types, Args
  <2> QED
    BY <1>1, <1>2, <2>1, <2>2, QuietRecordStep
<1>5. CASE SubmitApproval(w) \/ SubmitEvent(w)
  <2>1. /\ \E l \in {"submit_event", "submit_request"} : pc' = [pc EXCEPT ![w] = l]
        /\ pc[w] \in {"submit_approval", "submit_event"} /\ UNCHANGED <<request, arg>>
    BY <1>5 DEF SubmitApproval, SubmitEvent, Goto
  <2>2. ExecutorInv(w)'
    BY <2>1 DEF RecordInv, ExecutorInv, Executing, IInv, Types
  <2> QED
    BY <1>1, <1>2, <2>1, <2>2, QuietRecordStep
<1>6. CASE SubmitRequest(w)
  <2>1. PICK q \in Requests : q = arg[w].request /\ ~Stored("generation_requests", q)
    <3>1. pc[w] \in Submitting /\ arg[w].request \in Requests
      BY <1>6 DEF SubmitRequest, Submitting, IInv, KnowsRequest, Busy
    <3> QED
      BY <3>1, SubmitterKnows
  <2>2. /\ request' = [request EXCEPT ![q] =
             [status |-> arg[w].choice, attempt_status |-> "not_attempted",
              approval |-> arg[w].choice = "awaiting_approval"]]
        /\ pc' = [pc EXCEPT ![w] = "done"] /\ UNCHANGED timeline
        /\ arg[w].choice \in {"awaiting_approval", "blocked"}
    BY <1>6, <2>1 DEF SubmitRequest, Return, RecordInv, ExecutorInv
  <2>3. /\ request'[q].status \notin Outcomes /\ ~Attempted(q)'
        /\ \A p \in Requests \ {q} : request'[p] = request[p]
    BY <2>2 DEF IInv, Types, Attempted, Outcomes
  <2>4. calls' \in [Requests -> Nat] /\ \A p \in Requests : calls'[p] >= calls[p]
    BY <1>2 DEF IInv, Types
  <2>5. RecordAt(q)'
    <3>1. Finished(q) = {}
      BY <2>1 DEF RecordInv, RecordAt
    <3>2. Finished(q)' = {}
      BY <2>2, <3>1 DEF Finished, EventsOf
    <3> QED
      BY <2>3, <3>2 DEF RecordAt, Attempted
  <2>6. \A p \in Requests : RecordAt(p)'
    BY <1>1, <1>2, <2>3, <2>4, <2>5, RecordKept DEF RecordInv
  <2>7. \A p \in Requests : Stored("generation_requests", p) /\ Attempted(p) => Attempted(p)'
    BY <2>1, <2>3 DEF Attempted
  <2>8. ExecutorInv(w)'
    BY <2>2 DEF ExecutorInv, Executing, IInv, Types
  <2> QED
    BY <1>2, <2>2, <2>4, <2>6, <2>7, <2>8, RecordStep
<1> QED
  BY <1>3, <1>4, <1>5, <1>6

LEMMA DecideRecordInv ==
  ASSUME IInv, WholeInv, RecordInv, NEW w \in Workers,
         \/ \E a, q \in Requests, d \in Decisions : DecideRead(w, a, q, d)
         \/ DecideRequest(w) \/ DecideResolve(w) \/ DecideEvent(w)
         \/ \E a \in Requests, d \in Decisions : Resolve(w, a, d)
         \/ Abort(w)
  PROVE  RecordInv'
<1>1. \A q \in Requests : Grows(q, Unfinished)
  BY StepGrows DEF Unfinishing, Proceeds, WholeInv
<1>2. /\ \E l \in {"done", "dead", "decide_request", "decide_resolve", "decide_event"} :
            pc' = [pc EXCEPT ![w] = l]
      /\ UNCHANGED <<calls, request>> /\ rows \subseteq rows'
      /\ \A v \in Workers \ {w} : arg'[v] = arg[v]
  BY DEF DecideRead, DecideRequest, DecideResolve, DecideEvent, Resolve, Abort, Goto, Return,
     IInv, Types
<1>3. ExecutorInv(w)'
  BY <1>2 DEF ExecutorInv, Executing, IInv, Types
<1> QED
  BY <1>1, <1>2, <1>3, QuietRecordStep

LEMMA ExecuteRecordInv ==
  ASSUME IInv, WholeInv, RecordInv, NEW w \in Workers,
         \/ \E q \in Requests : ExecuteRead(w, q)
         \/ ExecuteApproval(w) \/ ExecuteStart(w) \/ ExecuteGenerate(w)
         \/ ExecuteImport(w) \/ ExecuteUpdate(w) \/ ExecuteFinish(w)
  PROVE  RecordInv'
<1>1. ~ExecuteFinish(w) => \A q \in Requests : Grows(q, Unfinished)
  BY StepGrows DEF Unfinishing, Proceeds, WholeInv
<1>2. rows \subseteq rows' /\ \A v \in Workers \ {w} : arg'[v] = arg[v]
  BY DEF ExecuteRead, ExecuteApproval, ExecuteStart, ExecuteGenerate, ExecuteImport, ExecuteUpdate,
     ExecuteFinish, IInv, Types
<1>3. ASSUME NEW q \in Requests, ExecuteRead(w, q)
      PROVE  RecordInv'
  <2>1. /\ \/ /\ pc' = [pc EXCEPT ![w] = "execute_approval"]
              /\ arg'[w].request = q /\ Stored("generation_requests", q)
           \/ pc' = [pc EXCEPT ![w] = "done"]
        /\ UNCHANGED <<calls, request, rows>>
    BY <1>3 DEF ExecuteRead, Goto, Return, IInv, Types, Args
  <2>2. ExecutorInv(w)'
    BY <2>1 DEF ExecutorInv, Executing, Stored, IInv, Types
  <2>3. ~ExecuteFinish(w)
    BY <1>3 DEF ExecuteRead, ExecuteFinish
  <2> QED
    BY <1>1, <1>2, <2>1, <2>2, <2>3, QuietRecordStep
<1> SUFFICES ASSUME pc[w] \in Executing,
                    \/ ExecuteApproval(w) \/ ExecuteStart(w) \/ ExecuteGenerate(w)
                    \/ ExecuteImport(w) \/ ExecuteUpdate(w) \/ ExecuteFinish(w)
             PROVE  RecordInv'
  BY <1>3 DEF ExecuteApproval, ExecuteStart, ExecuteGenerate, ExecuteImport, ExecuteUpdate,
     ExecuteFinish, Executing
<1>4. PICK q \in Requests : q = arg[w].request
  BY DEF IInv, KnowsRequest, Busy, Executing
<1>5. /\ Stored("generation_requests", q) /\ RecordAt(q)
      /\ pc[w] \in {"execute_import", "execute_update", "execute_finish"} =>
            calls[q] > 0 /\ arg[w].choice \in Outcomes
      /\ pc[w] = "execute_finish" => Attempted(q)
  BY <1>4 DEF RecordInv, ExecutorInv
<1>6. CASE ExecuteApproval(w) \/ ExecuteStart(w)
  <2>1. /\ \E l \in {"done", "execute_start", "execute_generate"} : pc' = [pc EXCEPT ![w] = l]
        /\ UNCHANGED <<calls, request, rows>> /\ UNCHANGED arg
    BY <1>6 DEF ExecuteApproval, ExecuteStart, Goto, Return
  <2>2. ExecutorInv(w)'
    BY <1>4, <1>5, <2>1 DEF ExecutorInv, Executing, Stored, IInv, Types
  <2>3. ~ExecuteFinish(w)
    BY <1>6 DEF ExecuteApproval, ExecuteStart, ExecuteFinish
  <2> QED
    BY <1>1, <1>2, <2>1, <2>2, <2>3, QuietRecordStep
<1>7. CASE ExecuteGenerate(w)
  <2>1. /\ \E l \in {"execute_update", "execute_import"} : pc' = [pc EXCEPT ![w] = l]
        /\ \E s \in Outcomes, n \in 0..MaxOutputs :
              arg' = [arg EXCEPT ![w].choice = s, ![w].outputs = n]
        /\ calls' = [calls EXCEPT ![q] = @ + 1] /\ UNCHANGED <<request, rows>>
    <3>1. 0 \in 0..MaxOutputs /\ "failed" \in Outcomes
      BY MaxOutputsAssumption DEF Outcomes
    <3> QED
      BY <1>4, <1>7, <3>1 DEF ExecuteGenerate, Goto
  <2>2. /\ calls' \in [Requests -> Nat] /\ calls'[q] = calls[q] + 1 /\ calls[q] \in Nat
        /\ \A p \in Requests : calls'[p] >= calls[p]
    BY <2>1 DEF IInv, Types
  <2>3. arg'[w].request = q /\ arg'[w].choice \in Outcomes
    BY <1>4, <2>1 DEF IInv, Types, Args
  <2>4. ExecutorInv(w)'
    BY <1>5, <2>1, <2>2, <2>3 DEF ExecutorInv, Executing, Stored, IInv, Types
  <2>5. ~ExecuteFinish(w)
    BY <1>7 DEF ExecuteGenerate, ExecuteFinish
  <2>6. \A p \in Requests : RecordAt(p)'
    BY <1>1, <1>2, <2>1, <2>2, <2>5, RecordKept DEF RecordInv
  <2>7. \A p \in Requests : Attempted(p) => Attempted(p)'
    BY <2>1 DEF Attempted
  <2> QED
    BY <1>2, <2>1, <2>2, <2>4, <2>6, <2>7, RecordStep
<1>8. CASE ExecuteImport(w)
  <2>1. /\ \E l \in {"execute_update", "execute_import"} : pc' = [pc EXCEPT ![w] = l]
        /\ arg'[w].request = q /\ arg'[w].choice \in {arg[w].choice, "failed"}
        /\ pc[w] = "execute_import" /\ UNCHANGED <<calls, request, rows>>
    BY <1>4, <1>8 DEF ExecuteImport, Goto, IInv, Types, Args
  <2>2. ExecutorInv(w)'
    BY <1>5, <2>1 DEF ExecutorInv, Executing, Stored, IInv, Types, Outcomes
  <2>3. ~ExecuteFinish(w)
    BY <1>8 DEF ExecuteImport, ExecuteFinish
  <2> QED
    BY <1>1, <1>2, <2>1, <2>2, <2>3, QuietRecordStep
<1>9. CASE ExecuteUpdate(w)
  <2>1. /\ request' = [request EXCEPT ![q].status = arg[w].choice, ![q].attempt_status = "attempted"]
        /\ pc' = [pc EXCEPT ![w] = "execute_finish"] /\ pc[w] = "execute_update"
        /\ UNCHANGED <<calls, rows, timeline, arg>>
    BY <1>4, <1>9 DEF ExecuteUpdate, Goto
  <2>2. /\ Attempted(q)' /\ request'[q].status \in Outcomes
        /\ \A p \in Requests \ {q} : request'[p] = request[p]
    BY <1>5, <2>1 DEF IInv, Types, Documents, Attempted
  <2>3. RecordAt(q)'
    BY <1>5, <2>1, <2>2 DEF RecordAt, Stored, Attempted
  <2>4. calls' \in [Requests -> Nat] /\ \A p \in Requests : calls'[p] >= calls[p]
    BY <2>1 DEF IInv, Types
  <2>5. ~ExecuteFinish(w)
    BY <1>9 DEF ExecuteUpdate, ExecuteFinish
  <2>6. \A p \in Requests : RecordAt(p)'
    BY <1>1, <1>2, <2>2, <2>3, <2>4, <2>5, RecordKept DEF RecordInv
  <2>7. \A p \in Requests : Attempted(p) => Attempted(p)'
    BY <2>2 DEF Attempted
  <2>8. ExecutorInv(w)'
    BY <1>4, <1>5, <2>1, <2>2 DEF ExecutorInv, Executing, Stored, Attempted, IInv, Types
  <2> QED
    BY <1>2, <2>1, <2>4, <2>6, <2>7, <2>8, RecordStep
<1>10. CASE ExecuteFinish(w)
  <2> DEFINE e == Event("image.provider.finished", arg[w].choice)
  <2>1. /\ pc' = [pc EXCEPT ![w] = "done"] /\ pc[w] = "execute_finish"
        /\ UNCHANGED <<calls, rows, request, arg>> /\ Append1(q, e)
    BY <1>4, <1>10 DEF ExecuteFinish, Return
  <2>2. e \in Entries
    BY DEF Event, Entries, EventTypes, IInv, Types, Args
  <2> HIDE DEF e
  <2>3. \A p \in Requests : Grows(p, IF p = q THEN {e} ELSE {})
    BY <2>1, <2>2, AppendGrows DEF WholeInv
  <2>4. calls' \in [Requests -> Nat] /\ \A p \in Requests : calls'[p] >= calls[p]
    BY <2>1 DEF IInv, Types
  <2>5. RecordAt(q)'
    BY <1>5, <2>1 DEF RecordAt, Attempted, Stored
  <2>6. ASSUME NEW p \in Requests \ {q}
        PROVE  RecordAt(p)'
    <3>1. Grows(p, {})
      BY <2>3
    <3>2. Grows(p, Unfinished)
      BY <3>1 DEF Grows
    <3> QED
      BY <2>1, <2>4, <3>2, RecordKept DEF RecordInv
  <2>7. \A p \in Requests : Attempted(p) => Attempted(p)'
    BY <2>1 DEF Attempted
  <2>8. ExecutorInv(w)'
    BY <2>1 DEF ExecutorInv, Executing, IInv, Types
  <2> QED
    BY <1>2, <2>1, <2>4, <2>5, <2>6, <2>7, <2>8, RecordStep
<1> QED
  BY <1>6, <1>7, <1>8, <1>9, <1>10

LEMMA NextRecordInv == IInv /\ WholeInv /\ RecordInv /\ [Next]_vars => RecordInv'
<1> SUFFICES ASSUME IInv, WholeInv, RecordInv, [Next]_vars
             PROVE  RecordInv'
  OBVIOUS
<1>1. CASE ProviderChange \/ UNCHANGED vars
  <2>1. UNCHANGED <<rows, timeline, request, calls, arg, pc>>
    BY <1>1 DEF ProviderChange, vars
  <2> QED
    BY <2>1 DEF RecordInv, RecordAt, ExecutorInv, Attempted, Finished, EventsOf, Stored
<1> QED
  BY <1>1, SubmitRecordInv, DecideRecordInv, ExecuteRecordInv DEF Next, Continue, ContinueLocal

LEMMA InitEvidence == Init => CountInv /\ RecordInv
<1> SUFFICES ASSUME Init
             PROVE  CountInv /\ RecordInv
  OBVIOUS
<1>1. ASSUME NEW q \in Requests
      PROVE  CountedAt(q) /\ RecordAt(q)
  <2>1. Generating(q) = {} /\ calls[q] = 0 /\ Started(q) = {} /\ Finished(q) = {}
    BY DEF Init, Generating, Started, Finished, EventsOf
  <2>2. request[q].attempt_status = "not_attempted" /\ request[q].status \notin Outcomes
    BY DEF Init, Outcomes
  <2> QED
    BY <2>1, <2>2, FS_EmptySet DEF CountedAt, RecordAt, Attempted
<1>2. \A w \in Workers : ExecutorInv(w)
  BY DEF Init, ExecutorInv, Executing
<1> QED
  BY <1>1, <1>2 DEF CountInv, RecordInv

\* No call of the provider goes unannounced: each has a started event of its own
\* before it; and what has an outcome was attempted.
THEOREM AttemptsEvident == Spec => []AttemptEvidence
<1>1. IInv /\ WholeInv /\ CountInv /\ RecordInv => AttemptEvidence
  <2> SUFFICES ASSUME IInv, WholeInv, CountInv, RecordInv, NEW q \in Requests
               PROVE  /\ calls[q] <= Cardinality(Started(q))
                      /\ Attempted(q) => calls[q] > 0
                      /\ Attempted(q) <=> request[q].status \in Outcomes
                      /\ Finished(q) # {} => Attempted(q)
    BY DEF AttemptEvidence, Started, Attempted, Finished
  <2>1. timeline[q] \in Seq(Entries)
    BY DEF WholeInv, Timelines
  <2>2. Cardinality(Started(q)) \in Nat
    BY <2>1, EventsFinite DEF Started, EventsOf
  <2>3. Cardinality(Generating(q)) \in Nat /\ calls[q] \in Nat
    BY FS_CardinalityType DEF CountInv, CountedAt, IInv, Types
  <2> QED
    BY <2>2, <2>3 DEF CountInv, CountedAt, RecordInv, RecordAt
<1>2. WholeInv => Timelines
  BY DEF WholeInv
<1> QED
  BY <1>1, <1>2, InitIInv, NextIInv, InitWholeInv, NextWholeInv, InitEvidence, NextCountInv,
     NextRecordInv, PTL DEF Spec

----------------------------------------------------------------------------
(* The types of the state, with what the earlier invariants do not need. *)

Statuses == {"none", "awaiting_approval", "blocked"} \cup Outcomes

\* A thread only imports while there are outputs left, so that it never counts
\* below none.
OutputsLeft(w) ==
    /\ arg[w].outputs \in 0..MaxOutputs
    /\ pc[w] = "execute_import" => arg[w].outputs # 0

TypedInv ==
    /\ rows \subseteq Tables \X Requests
    /\ \A q \in Requests : request[q].status \in Statuses
    /\ available \in BOOLEAN
    /\ assets \in [Requests -> Nat]
    /\ \A w \in Workers : OutputsLeft(w)

\* Rows are only added, by submit, each for the request of the thread.
LEMMA NextRows ==
  ASSUME IInv, TypedInv, [Next]_vars
  PROVE  rows' \subseteq Tables \X Requests
<1> DEFINE Kept == rows' \subseteq Tables \X Requests
<1>1. ASSUME NEW w \in Workers, NEW q \in Requests, SubmitProject(w, q)
      PROVE  Kept
  BY <1>1 DEF SubmitProject, TypedInv, Tables
<1>2. ASSUME NEW w \in Workers,
             SubmitTask(w) \/ SubmitRun(w) \/ SubmitApproval(w) \/ SubmitRequest(w)
      PROVE  Kept
  <2>1. arg[w].request \in Requests
    BY <1>2 DEF SubmitTask, SubmitRun, SubmitApproval, SubmitRequest, IInv, KnowsRequest, Busy
  <2>2. \E t \in Tables : rows' = rows \cup {<<t, arg[w].request>>}
    BY <1>2 DEF SubmitTask, SubmitRun, SubmitApproval, SubmitRequest, Tables
  <2> QED
    BY <2>1, <2>2 DEF TypedInv
<1>3. ASSUME NEW w \in Workers, Continue(w),
             ~(SubmitTask(w) \/ SubmitRun(w) \/ SubmitApproval(w) \/ SubmitRequest(w))
      PROVE  UNCHANGED rows
  BY <1>3 DEF Continue, ContinueLocal, SubmitCreated, SubmitEvent, DecideRequest, DecideResolve, DecideEvent,
     ExecuteApproval, ExecuteStart, ExecuteGenerate, ExecuteImport, ExecuteUpdate, ExecuteFinish
<1>4. ASSUME NEW w \in Workers,
             \/ \E q \in Requests : ExecuteRead(w, q)
             \/ \E a, q \in Requests, d \in Decisions : DecideRead(w, a, q, d)
             \/ \E a \in Requests, d \in Decisions : Resolve(w, a, d)
             \/ Abort(w)
      PROVE  UNCHANGED rows
  BY <1>4 DEF ExecuteRead, DecideRead, Resolve, Abort
<1>5. ProviderChange \/ UNCHANGED vars => UNCHANGED rows
  BY DEF ProviderChange, vars
<1>6. UNCHANGED rows => Kept
  BY DEF TypedInv
<1> HIDE DEF Kept
<1>7. ASSUME NEW w \in Workers, Continue(w)
      PROVE  Kept
  BY <1>2, <1>3, <1>6, <1>7
<1>8. Kept
  BY <1>1, <1>4, <1>5, <1>6, <1>7 DEF Next
<1> QED
  BY <1>8 DEF Kept

\* A document is stored by submit with what submit decided, and updated by execute
\* with the outcome of its attempt.
LEMMA NextStatuses ==
  ASSUME IInv, RecordInv, TypedInv, [Next]_vars
  PROVE  \A q \in Requests : request'[q].status \in Statuses
<1> DEFINE Kept == \A q \in Requests : request'[q].status \in Statuses
<1>1. ASSUME NEW w \in Workers, SubmitRequest(w)
      PROVE  Kept
  <2>1. arg[w].choice \in {"awaiting_approval", "blocked"}
    BY <1>1 DEF SubmitRequest, RecordInv, ExecutorInv
  <2> QED
    BY <1>1, <2>1 DEF SubmitRequest, TypedInv, Statuses, IInv, Types
<1>2. ASSUME NEW w \in Workers, ExecuteUpdate(w)
      PROVE  Kept
  <2>1. arg[w].choice \in Outcomes
    BY <1>2 DEF ExecuteUpdate, RecordInv, ExecutorInv
  <2> QED
    BY <1>2, <2>1 DEF ExecuteUpdate, TypedInv, Statuses, IInv, Types, Documents
<1>3. ASSUME NEW w \in Workers, Continue(w), ~SubmitRequest(w), ~ExecuteUpdate(w)
      PROVE  UNCHANGED request
  BY <1>3 DEF Continue, ContinueLocal, SubmitTask, SubmitRun, SubmitCreated, SubmitApproval, SubmitEvent,
     DecideRequest, DecideResolve, DecideEvent, ExecuteApproval, ExecuteStart, ExecuteGenerate,
     ExecuteImport, ExecuteFinish
<1>4. ASSUME NEW w \in Workers,
             \/ \E q \in Requests : SubmitProject(w, q) \/ ExecuteRead(w, q)
             \/ \E a, q \in Requests, d \in Decisions : DecideRead(w, a, q, d)
             \/ \E a \in Requests, d \in Decisions : Resolve(w, a, d)
             \/ Abort(w)
      PROVE  UNCHANGED request
  BY <1>4 DEF SubmitProject, ExecuteRead, DecideRead, Resolve, Abort
<1>5. ProviderChange \/ UNCHANGED vars => UNCHANGED request
  BY DEF ProviderChange, vars
<1>6. UNCHANGED request => Kept
  BY DEF TypedInv
<1> HIDE DEF Kept
<1>7. ASSUME NEW w \in Workers, Continue(w)
      PROVE  Kept
  BY <1>1, <1>2, <1>3, <1>6, <1>7
<1>8. Kept
  BY <1>4, <1>5, <1>6, <1>7 DEF Next
<1> QED
  BY <1>8 DEF Kept

\* Only an import adds a variant.
LEMMA NextAssets ==
  ASSUME IInv, TypedInv, [Next]_vars
  PROVE  available' \in BOOLEAN /\ assets' \in [Requests -> Nat]
<1> DEFINE Kept == available' \in BOOLEAN /\ assets' \in [Requests -> Nat]
<1>1. ASSUME NEW w \in Workers, ExecuteImport(w)
      PROVE  assets' \in [Requests -> Nat]
  <2>1. arg[w].request \in Requests
    BY <1>1 DEF ExecuteImport, IInv, KnowsRequest, Busy
  <2> QED
    BY <1>1, <2>1 DEF ExecuteImport, TypedInv
<1>2. ASSUME NEW w \in Workers, Continue(w), ~ExecuteImport(w)
      PROVE  UNCHANGED assets
  BY <1>2 DEF Continue, ContinueLocal, SubmitTask, SubmitRun, SubmitCreated, SubmitApproval, SubmitEvent,
     SubmitRequest, DecideRequest, DecideResolve, DecideEvent, ExecuteApproval, ExecuteStart,
     ExecuteGenerate, ExecuteUpdate, ExecuteFinish
<1>3. ASSUME NEW w \in Workers, Continue(w)
      PROVE  UNCHANGED available
  BY <1>3 DEF Continue, ContinueLocal, SubmitTask, SubmitRun, SubmitCreated, SubmitApproval, SubmitEvent,
     SubmitRequest, DecideRequest, DecideResolve, DecideEvent, ExecuteApproval, ExecuteStart,
     ExecuteGenerate, ExecuteImport, ExecuteUpdate, ExecuteFinish
<1>4. ASSUME NEW w \in Workers,
             \/ \E q \in Requests : SubmitProject(w, q) \/ ExecuteRead(w, q)
             \/ \E a, q \in Requests, d \in Decisions : DecideRead(w, a, q, d)
             \/ \E a \in Requests, d \in Decisions : Resolve(w, a, d)
             \/ Abort(w)
      PROVE  UNCHANGED <<available, assets>>
  BY <1>4 DEF SubmitProject, ExecuteRead, DecideRead, Resolve, Abort
<1>5. ProviderChange \/ UNCHANGED vars => Kept
  BY DEF ProviderChange, vars, TypedInv
<1>6. available \in BOOLEAN /\ assets \in [Requests -> Nat]
  BY DEF TypedInv
<1>7. ASSUME NEW w \in Workers, Continue(w)
      PROVE  Kept
  BY <1>1, <1>2, <1>3, <1>6, <1>7
<1>8. UNCHANGED <<available, assets>> => Kept
  BY <1>6
<1> HIDE DEF Kept
<1>9. Kept
  BY <1>4, <1>5, <1>7, <1>8 DEF Next
<1> QED
  BY <1>9 DEF Kept

LEMMA NextOutputs ==
  ASSUME IInv, TypedInv, [Next]_vars
  PROVE  \A w \in Workers : OutputsLeft(w)'
<1> DEFINE Kept == \A w \in Workers : OutputsLeft(w)'
<1>1. ASSUME NEW w \in Workers, OutputsLeft(w)',
             \A v \in Workers \ {w} : arg'[v] = arg[v] /\ pc'[v] = pc[v]
      PROVE  Kept
  BY <1>1 DEF TypedInv, OutputsLeft
<1>2. ASSUME NEW w \in Workers,
             arg'[w].outputs = arg[w].outputs, pc'[w] # "execute_import",
             \A v \in Workers \ {w} : arg'[v] = arg[v] /\ pc'[v] = pc[v]
      PROVE  Kept
  BY <1>1, <1>2 DEF TypedInv, OutputsLeft
<1>3. ASSUME NEW w \in Workers, ExecuteGenerate(w)
      PROVE  Kept
  <2>1. PICK s \in Outcomes, n \in 0..MaxOutputs :
           /\ arg' = [arg EXCEPT ![w].choice = s, ![w].outputs = n]
           /\ pc' = [pc EXCEPT ![w] = IF n = 0 THEN "execute_update" ELSE "execute_import"]
    BY <1>3, MaxOutputsAssumption DEF ExecuteGenerate, Goto, Outcomes
  <2>2. arg'[w].outputs = n /\ \A v \in Workers \ {w} : arg'[v] = arg[v] /\ pc'[v] = pc[v]
    BY <2>1 DEF IInv, Types, Args
  <2>3. pc'[w] = IF n = 0 THEN "execute_update" ELSE "execute_import"
    BY <2>1 DEF IInv, Types
  <2> QED
    BY <1>1, <2>2, <2>3 DEF OutputsLeft
<1>4. ASSUME NEW w \in Workers, ExecuteImport(w)
      PROVE  Kept
  <2>1. arg[w].outputs \in 0..MaxOutputs /\ arg[w].outputs # 0
    BY <1>4 DEF ExecuteImport, TypedInv, OutputsLeft
  <2>2. \A v \in Workers \ {w} : arg'[v] = arg[v] /\ pc'[v] = pc[v]
    BY <1>4 DEF ExecuteImport, Goto, IInv, Types
  <2>3. CASE /\ arg' = [arg EXCEPT ![w].outputs = @ - 1]
             /\ Goto(w, IF arg[w].outputs = 1 THEN "execute_update" ELSE "execute_import")
    <3>1. arg'[w].outputs = arg[w].outputs - 1
      BY <2>3 DEF IInv, Types, Args
    <3>2. pc'[w] = IF arg[w].outputs = 1 THEN "execute_update" ELSE "execute_import"
      BY <2>3 DEF Goto, IInv, Types
    <3>3. OutputsLeft(w)'
      BY <2>1, <3>1, <3>2, MaxOutputsAssumption DEF OutputsLeft
    <3> QED
      BY <1>1, <2>2, <3>3
  <2>4. CASE /\ arg' = [arg EXCEPT ![w].choice = "failed", ![w].outputs = 0]
             /\ Goto(w, "execute_update")
    <3>1. arg'[w].outputs = 0 /\ pc'[w] = "execute_update"
      BY <2>4 DEF Goto, IInv, Types, Args
    <3>2. OutputsLeft(w)'
      BY <3>1, MaxOutputsAssumption DEF OutputsLeft
    <3> QED
      BY <1>1, <2>2, <3>2
  <2> QED
    BY <1>4, <2>3, <2>4 DEF ExecuteImport
<1>5. ASSUME NEW w \in Workers,
             \/ SubmitTask(w) \/ SubmitRun(w) \/ SubmitApproval(w) \/ SubmitEvent(w)
             \/ SubmitRequest(w) \/ DecideRequest(w) \/ DecideResolve(w) \/ DecideEvent(w)
             \/ ExecuteApproval(w) \/ ExecuteStart(w) \/ ExecuteUpdate(w) \/ ExecuteFinish(w)
             \/ Abort(w) \/ \E a \in Requests, d \in Decisions : Resolve(w, a, d)
      PROVE  Kept
  <2>1. UNCHANGED arg
    BY <1>5 DEF SubmitTask, SubmitRun, SubmitApproval, SubmitEvent, SubmitRequest, DecideRequest,
       DecideResolve, DecideEvent, ExecuteApproval, ExecuteStart, ExecuteUpdate, ExecuteFinish,
       Abort, Resolve
  <2>2. PICK l : l # "execute_import" /\ pc' = [pc EXCEPT ![w] = l]
    BY <1>5 DEF SubmitTask, SubmitRun, SubmitApproval, SubmitEvent, SubmitRequest, DecideRequest,
       DecideResolve, DecideEvent, ExecuteApproval, ExecuteStart, ExecuteUpdate, ExecuteFinish,
       Abort, Resolve, Goto, Return
  <2>3. pc'[w] # "execute_import" /\ \A v \in Workers \ {w} : pc'[v] = pc[v]
    BY <2>2 DEF IInv, Types
  <2> QED
    BY <1>2, <2>1, <2>3
<1>6. ASSUME NEW w \in Workers,
             \/ \E q \in Requests : SubmitProject(w, q) \/ ExecuteRead(w, q)
             \/ \E a, q \in Requests, d \in Decisions : DecideRead(w, a, q, d)
             \/ SubmitCreated(w)
      PROVE  Kept
  <2> DEFINE Same == arg'[w].outputs = arg[w].outputs /\ \A v \in Workers \ {w} : arg'[v] = arg[v]
  <2>4. ASSUME NEW q \in Requests, SubmitProject(w, q)
        PROVE  Same
    BY <2>4 DEF SubmitProject, IInv, Types, Args
  <2>5. ASSUME NEW q \in Requests, ExecuteRead(w, q)
        PROVE  Same
    BY <2>5 DEF ExecuteRead, IInv, Types, Args
  <2>6. ASSUME NEW a \in Requests, NEW q \in Requests, NEW d \in Decisions, DecideRead(w, a, q, d)
        PROVE  Same
    <3>1. UNCHANGED arg \/ arg' = [arg EXCEPT ![w].request = a, ![w].linked = q, ![w].choice = d]
      BY <2>6 DEF DecideRead
    <3> QED
      BY <3>1 DEF IInv, Types, Args
  <2>7. ASSUME SubmitCreated(w)
        PROVE  Same
    <3>1. \E c \in Choices : arg' = [arg EXCEPT ![w].choice = c]
      BY <2>7 DEF SubmitCreated, Choices
    <3> QED
      BY <3>1 DEF IInv, Types, Args
  <2> HIDE DEF Same
  <2>8. Same
    BY <1>6, <2>4, <2>5, <2>6, <2>7
  <2>2. PICK l : l # "execute_import" /\ pc' = [pc EXCEPT ![w] = l]
    BY <1>6 DEF SubmitProject, ExecuteRead, DecideRead, SubmitCreated, Goto, Return
  <2>3. pc'[w] # "execute_import" /\ \A v \in Workers \ {w} : pc'[v] = pc[v]
    BY <2>2 DEF IInv, Types
  <2> QED
    BY <1>2, <2>3, <2>8 DEF Same
<1>7. ProviderChange \/ UNCHANGED vars => Kept
  BY DEF ProviderChange, vars, TypedInv, OutputsLeft
<1> HIDE DEF Kept
<1>8. Kept
  BY <1>3, <1>4, <1>5, <1>6, <1>7 DEF Next, Continue, ContinueLocal
<1> QED
  BY <1>8 DEF Kept

LEMMA InitTypedInv == Init => TypedInv
  BY MaxOutputsAssumption DEF Init, TypedInv, Statuses, OutputsLeft

LEMMA NextTypedInv == IInv /\ RecordInv /\ TypedInv /\ [Next]_vars => TypedInv'
<1> SUFFICES ASSUME IInv, RecordInv, TypedInv, [Next]_vars
             PROVE  TypedInv'
  OBVIOUS
<1>1. rows' \subseteq Tables \X Requests
  BY NextRows
<1>2. \A q \in Requests : request'[q].status \in Statuses
  BY NextStatuses
<1>3. available' \in BOOLEAN /\ assets' \in [Requests -> Nat]
  BY NextAssets
<1>4. \A w \in Workers : OutputsLeft(w)'
  BY NextOutputs
<1> QED
  BY <1>1, <1>2, <1>3, <1>4 DEF TypedInv

\* Every thread's place, every stored document and every counter stay within
\* what the code writes there: an import never counts below zero outputs, and a
\* document never shows a status that belongs to a decision or to a run.
THEOREM TypesKept == Spec => []TypeOK
<1>1. IInv /\ WholeInv /\ RecordInv /\ TypedInv => TypeOK
  <2> SUFFICES ASSUME IInv, WholeInv, RecordInv, TypedInv
               PROVE  TypeOK
    OBVIOUS
  <2>1. \A q \in Requests : \A i \in DOMAIN timeline[q] :
           timeline[q][i].request_hash \in Requests \cup {NoRequest}
    <3> SUFFICES ASSUME NEW q \in Requests, NEW i \in DOMAIN timeline[q]
                 PROVE  timeline[q][i].request_hash \in Requests \cup {NoRequest}
      OBVIOUS
    <3>1. timeline[q] \in Seq(Entries)
      BY DEF WholeInv, Timelines
    <3>2. timeline[q][i] \in Entries
      BY <3>1
    <3> QED
      BY <3>2 DEF Entries
  <2>2. request \in [Requests -> [status: Statuses,
                                  attempt_status: {"not_attempted", "attempted"},
                                  approval: BOOLEAN]]
    BY DEF IInv, Types, TypedInv, Documents
  <2>3. \A w \in Workers : arg[w].request \in Requests \cup {NoRequest}
    BY DEF IInv, Types, Args
  <2> QED
    BY <2>1, <2>2, <2>3 DEF TypeOK, Statuses, IInv, Types, TypedInv, OutputsLeft
<1> QED
  BY <1>1, InitIInv, NextIInv, InitWholeInv, NextWholeInv, InitEvidence, NextRecordInv,
     InitTypedInv, NextTypedInv, PTL DEF Spec
----------------------------------------------------------------------------
(* Replays.  A request may be called more than once, by threads that read it  *)
(* before the first of them stored its outcome; nobody joins them later.      *)

\* Thread w may still call the provider for q: it read q as not attempted, and
\* has neither been refused nor called.
Calling(w, q) ==
    /\ arg[w].request = q
    /\ \/ pc[w] = "execute_approval" /\ arg[w].choice = "not_attempted"
       \/ pc[w] \in {"execute_start", "execute_generate"}

Callers(q) == {w \in Workers : Calling(w, q)}

\* Once a request counts as attempted it does so for good, no thread becomes one
\* that may call the provider for it, and each call made takes one of those away:
\* as many calls remain as threads had read the request before its update.
NoNewCaller ==
    [][ \A q \in Requests : Attempted(q) =>
           /\ Attempted(q)'
           /\ Callers(q)' \subseteq Callers(q)
           /\ calls'[q] # calls[q] => /\ calls'[q] = calls[q] + 1
                                      /\ Callers(q)' # Callers(q) ]_vars

LEMMA StaysAttempted ==
  ASSUME IInv, WholeInv, RecordInv, [Next]_vars, NEW q \in Requests, Attempted(q)
  PROVE  Attempted(q)'
<1> DEFINE Kept == Attempted(q)'
<1>1. ASSUME NEW w \in Workers, SubmitRequest(w)
      PROVE  Kept
  <2>1. pc[w] \in Submitting /\ arg[w].request \in Requests
    BY <1>1 DEF SubmitRequest, Submitting, IInv, KnowsRequest, Busy
  <2>2. ~Stored("generation_requests", arg[w].request)
    BY <2>1, SubmitterKnows
  <2>3. arg[w].request # q
    BY <2>2 DEF RecordInv, RecordAt
  <2> QED
    BY <1>1, <2>1, <2>3 DEF SubmitRequest, Attempted, IInv, Types
<1>2. ASSUME NEW w \in Workers, ExecuteUpdate(w)
      PROVE  Kept
  <2>1. arg[w].request \in Requests
    BY <1>2 DEF ExecuteUpdate, IInv, KnowsRequest, Busy
  <2> QED
    BY <1>2, <2>1 DEF ExecuteUpdate, Attempted, IInv, Types, Documents
<1>3. ASSUME NEW w \in Workers, Continue(w), ~SubmitRequest(w), ~ExecuteUpdate(w)
      PROVE  UNCHANGED request
  BY <1>3 DEF Continue, ContinueLocal, SubmitTask, SubmitRun, SubmitCreated, SubmitApproval, SubmitEvent,
     DecideRequest, DecideResolve, DecideEvent, ExecuteApproval, ExecuteStart, ExecuteGenerate,
     ExecuteImport, ExecuteFinish
<1>4. ASSUME NEW w \in Workers,
             \/ \E p \in Requests : SubmitProject(w, p) \/ ExecuteRead(w, p)
             \/ \E a, p \in Requests, d \in Decisions : DecideRead(w, a, p, d)
             \/ \E a \in Requests, d \in Decisions : Resolve(w, a, d)
             \/ Abort(w)
      PROVE  UNCHANGED request
  BY <1>4 DEF SubmitProject, ExecuteRead, DecideRead, Resolve, Abort
<1>5. ProviderChange \/ UNCHANGED vars => UNCHANGED request
  BY DEF ProviderChange, vars
<1>6. UNCHANGED request => Kept
  BY DEF Attempted
<1> HIDE DEF Kept
<1>7. ASSUME NEW w \in Workers, Continue(w)
      PROVE  Kept
  BY <1>1, <1>2, <1>3, <1>6, <1>7
<1>8. Kept
  BY <1>4, <1>5, <1>6, <1>7 DEF Next
<1> QED
  BY <1>8 DEF Kept

\* A step of w changes the callers by w at most.
LEMMA OneCaller ==
  ASSUME IInv, NEW q \in Requests, NEW w \in Workers, NEW l, pc' = [pc EXCEPT ![w] = l],
         \A v \in Workers \ {w} : arg'[v] = arg[v], Calling(w, q)' => Calling(w, q)
  PROVE  Callers(q)' \subseteq Callers(q)
<1>1. ASSUME NEW v \in Workers \ {w}
      PROVE  Calling(v, q)' <=> Calling(v, q)
  BY <1>1 DEF Calling, IInv, Types
<1> QED
  BY <1>1 DEF Callers

\* One joins by reading the request, which counts as attempted by now.
LEMMA NoneJoins ==
  ASSUME IInv, [Next]_vars, NEW q \in Requests, Attempted(q)
  PROVE  Callers(q)' \subseteq Callers(q)
<1> DEFINE Kept == Callers(q)' \subseteq Callers(q)
           Away == {"submit_task", "submit_run", "submit_created", "submit_approval",
                    "submit_event", "submit_request", "decide_request", "decide_resolve",
                    "decide_event", "execute_import", "execute_update", "execute_finish",
                    "done", "dead"}
<1>1. ASSUME NEW w \in Workers, NEW l \in Away, pc' = [pc EXCEPT ![w] = l],
             \A v \in Workers \ {w} : arg'[v] = arg[v]
      PROVE  Kept
  <2>1. ~Calling(w, q)'
    BY <1>1 DEF Calling, IInv, Types
  <2> QED
    BY <1>1, <2>1, OneCaller
<1>2. ASSUME NEW w \in Workers, NEW p \in Requests, ExecuteRead(w, p)
      PROVE  Kept
  <2>1. CASE pc' = [pc EXCEPT ![w] = "execute_approval"]
                /\ arg' = [arg EXCEPT ![w].request = p, ![w].choice = request[p].attempt_status]
    <3>1. ~Calling(w, q)'
      BY <2>1 DEF Calling, Attempted, IInv, Types, Args
    <3> QED
      BY <2>1, <3>1, OneCaller DEF IInv, Types
  <2>2. CASE pc' = [pc EXCEPT ![w] = "done"] /\ UNCHANGED arg
    BY <1>1, <2>2
  <2> QED
    BY <1>2, <2>1, <2>2 DEF ExecuteRead, Goto, Return
<1>3. ASSUME NEW w \in Workers, ExecuteApproval(w) \/ ExecuteStart(w)
      PROVE  Kept
  <2>1. CASE ExecuteApproval(w) /\ pc' = [pc EXCEPT ![w] = "execute_start"]
    <3>1. Calling(w, q)' => Calling(w, q)
      BY <2>1 DEF ExecuteApproval, Calling, Goto, Return, IInv, Types
    <3> QED
      BY <2>1, <3>1, OneCaller DEF ExecuteApproval
  <2>2. CASE ExecuteStart(w)
    <3>1. pc' = [pc EXCEPT ![w] = "execute_generate"] /\ UNCHANGED arg
      BY <2>2 DEF ExecuteStart, Goto
    <3>2. Calling(w, q)' => Calling(w, q)
      BY <2>2, <3>1 DEF ExecuteStart, Calling, IInv, Types
    <3> QED
      BY <3>1, <3>2, OneCaller
  <2>3. CASE ExecuteApproval(w) /\ pc' = [pc EXCEPT ![w] = "done"]
    BY <1>1, <2>3 DEF ExecuteApproval
  <2> QED
    BY <1>3, <2>1, <2>2, <2>3 DEF ExecuteApproval, Goto, Return
<1>4. ASSUME NEW w \in Workers,
             \/ \E p \in Requests : SubmitProject(w, p)
             \/ SubmitTask(w) \/ SubmitRun(w) \/ SubmitCreated(w)
             \/ SubmitApproval(w) \/ SubmitEvent(w) \/ SubmitRequest(w)
      PROVE  Kept
  <2>1. /\ \E l \in Away : pc' = [pc EXCEPT ![w] = l]
        /\ \A v \in Workers \ {w} : arg'[v] = arg[v]
    BY <1>4 DEF SubmitProject, SubmitTask, SubmitRun, SubmitCreated, SubmitApproval,
       SubmitEvent, SubmitRequest, Goto, Return, IInv, Types
  <2> QED
    BY <1>1, <2>1
<1>5. ASSUME NEW w \in Workers,
             \/ \E a, p \in Requests, d \in Decisions : DecideRead(w, a, p, d)
             \/ DecideRequest(w) \/ DecideResolve(w) \/ DecideEvent(w)
             \/ \E a \in Requests, d \in Decisions : Resolve(w, a, d)
             \/ Abort(w)
      PROVE  Kept
  <2>1. /\ \E l \in Away : pc' = [pc EXCEPT ![w] = l]
        /\ \A v \in Workers \ {w} : arg'[v] = arg[v]
    BY <1>5 DEF DecideRead, DecideRequest, DecideResolve, DecideEvent, Resolve, Abort, Goto,
       Return, IInv, Types
  <2> QED
    BY <1>1, <2>1
<1>6. ASSUME NEW w \in Workers,
             ExecuteGenerate(w) \/ ExecuteImport(w) \/ ExecuteUpdate(w) \/ ExecuteFinish(w)
      PROVE  Kept
  <2>1. CASE ExecuteImport(w)
    <3>1. CASE arg[w].outputs = 1
      BY <1>1, <2>1, <3>1 DEF ExecuteImport, Goto, IInv, Types
    <3>2. CASE arg[w].outputs # 1
      <4>1. \A v \in Workers \ {w} : arg'[v] = arg[v]
        BY <2>1 DEF ExecuteImport, IInv, Types
      <4>2. \E l \in Away : pc' = [pc EXCEPT ![w] = l]
        BY <2>1, <3>2 DEF ExecuteImport, Goto
      <4> QED
        BY <1>1, <4>1, <4>2
    <3> QED
      BY <3>1, <3>2
  <2>2. CASE ~ExecuteImport(w)
    <3>1. /\ \E l \in Away : pc' = [pc EXCEPT ![w] = l]
          /\ \A v \in Workers \ {w} : arg'[v] = arg[v]
      BY <1>6, <2>2 DEF ExecuteGenerate, ExecuteUpdate, ExecuteFinish, Goto, Return, IInv, Types
    <3> QED
      BY <1>1, <3>1
  <2> QED
    BY <2>1, <2>2
<1>7. ASSUME ProviderChange \/ UNCHANGED vars
      PROVE  Kept
  <2>1. UNCHANGED <<pc, arg>>
    BY <1>7 DEF ProviderChange, vars
  <2> QED
    BY <2>1 DEF Callers, Calling
<1> HIDE DEF Kept
<1>8. ASSUME NEW w \in Workers, Continue(w)
      PROVE  Kept
  BY <1>3, <1>4, <1>5, <1>6, <1>8 DEF Continue, ContinueLocal
<1>9. Kept
  BY <1>2, <1>4, <1>5, <1>7, <1>8 DEF Next
<1> QED
  BY <1>9 DEF Kept

\* A call is made by one of them, which then is one no more.
LEMMA CallerLeaves ==
  ASSUME IInv, [Next]_vars, NEW q \in Requests, calls'[q] # calls[q]
  PROVE  calls'[q] = calls[q] + 1 /\ Callers(q)' # Callers(q)
<1>1. PICK w \in Workers : ExecuteGenerate(w)
  <2>1. ASSUME NEW w \in Workers, Continue(w), ~ExecuteGenerate(w)
        PROVE  UNCHANGED calls
    BY <2>1 DEF Continue, ContinueLocal, SubmitTask, SubmitRun, SubmitCreated, SubmitApproval, SubmitEvent,
       SubmitRequest, DecideRequest, DecideResolve, DecideEvent, ExecuteApproval, ExecuteStart,
       ExecuteImport, ExecuteUpdate, ExecuteFinish
  <2>2. ASSUME NEW w \in Workers,
               \/ \E p \in Requests : SubmitProject(w, p) \/ ExecuteRead(w, p)
               \/ \E a, p \in Requests, d \in Decisions : DecideRead(w, a, p, d)
               \/ \E a \in Requests, d \in Decisions : Resolve(w, a, d)
               \/ Abort(w)
        PROVE  UNCHANGED calls
    BY <2>2 DEF SubmitProject, ExecuteRead, DecideRead, Resolve, Abort
  <2>3. ProviderChange \/ UNCHANGED vars => UNCHANGED calls
    BY DEF ProviderChange, vars
  <2> QED
    BY <2>1, <2>2, <2>3 DEF Next
<1>2. arg[w].request = q /\ calls'[q] = calls[q] + 1
  <2>1. calls' = [calls EXCEPT ![arg[w].request] = @ + 1]
    BY <1>1 DEF ExecuteGenerate
  <2>2. arg[w].request \in Requests
    BY <1>1 DEF ExecuteGenerate, IInv, KnowsRequest, Busy
  <2> QED
    BY <2>1, <2>2 DEF IInv, Types
<1>3. w \in Callers(q)
  BY <1>1, <1>2 DEF Callers, Calling, ExecuteGenerate
<1>4. w \notin Callers(q)'
  <2>1. \E l \in {"execute_import", "execute_update"} : pc' = [pc EXCEPT ![w] = l]
    BY <1>1 DEF ExecuteGenerate, Goto
  <2>2. pc'[w] \in {"execute_import", "execute_update"}
    BY <2>1 DEF IInv, Types
  <2> QED
    BY <2>2 DEF Callers, Calling
<1> QED
  BY <1>2, <1>3, <1>4

\* What is left of "replays are rejected": a request that counts as attempted gets
\* no further caller, however many threads execute it, whatever they do between
\* their read and their call, and wherever one of them dies.
THEOREM ReplaysEnd == Spec => NoNewCaller
<1> DEFINE Step == \A q \in Requests : Attempted(q) =>
                      /\ Attempted(q)'
                      /\ Callers(q)' \subseteq Callers(q)
                      /\ calls'[q] # calls[q] => /\ calls'[q] = calls[q] + 1
                                                 /\ Callers(q)' # Callers(q)
<1>1. IInv /\ WholeInv /\ RecordInv /\ [Next]_vars => [Step]_vars
  <2> SUFFICES ASSUME IInv, WholeInv, RecordInv, [Next]_vars
               PROVE  Step
    OBVIOUS
  <2> QED
    BY StaysAttempted, NoneJoins, CallerLeaves
<1> QED
  BY <1>1, InitIInv, NextIInv, InitWholeInv, NextWholeInv, InitEvidence, NextRecordInv,
     PTL DEF Spec, NoNewCaller
=============================================================================
