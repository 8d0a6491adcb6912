----------------------------- MODULE Seed_proofs -----------------------------
(***************************************************************************)
(* Proofs about the startup seed: whatever number of servers start, are    *)
(* killed and start again, the draft is inserted once and in order, and a  *)
(* draft that shows is whole.                                              *)
(***************************************************************************)
EXTENDS Seed, SequenceTheorems, TLAPS

States == {"down", "check", "create", "ready", "failed"}

SeedTypes == pc \in [Servers -> States] /\ at \in [Servers -> Nat]

\* A server that looks up or inserts is at a record of the plan, and looks no
\* draft record up but the first.
AtInPlan ==
    \A s \in Servers :
        /\ pc[s] \in {"check", "create"} => at[s] \in DOMAIN Plan
        /\ pc[s] = "check" => at[s] <= FirstDraft

\* s is past the first draft record: it has inserted the one before.
InDraft(s) == pc[s] = "create" /\ at[s] > FirstDraft

\* The records before the draft are there when a server is past them, and when
\* the draft has begun.
BeforeDraft ==
    \A i \in DOMAIN Plan : i < FirstDraft =>
        /\ \A s \in Servers : pc[s] \in {"check", "create"} /\ i < at[s] => Plan[i] \in stored
        /\ "task" \in stored => Plan[i] \in stored

\* The draft records that are stored are the first ones of the draft.
DraftPrefix == \A k \in 1..5 : Draft[k + 1] \in stored => Draft[k] \in stored

\* The timeline holds the events that count as stored, once and in order.
EventsOfStored ==
    events = CASE "approval.requested" \in stored -> DraftEvents
               [] "run.created" \in stored /\ "approval.requested" \notin stored -> <<"run.created">>
               [] OTHER -> <<>>

\* One server at a time is inside the draft, and it stands where the stored
\* records end: who inserted the task, whose key is fixed, is alone.
OneInDraft ==
    /\ \A s \in Servers : InDraft(s) =>
          /\ Plan[at[s] - 1] \in stored
          /\ Plan[at[s]] \notin stored
    /\ \A s, t \in Servers : InDraft(s) /\ InDraft(t) => s = t

SeedInv ==
    /\ SeedTypes /\ AtInPlan /\ BeforeDraft
    /\ DraftPrefix /\ EventsOfStored /\ OneInDraft

----------------------------------------------------------------------------

\* The plan: at least one project, the context, and the six draft records.
LEMMA PlanIsSequence ==
  /\ Len(ProjectIds) \in Nat \ {0}
  /\ FirstDraft \in Nat /\ FirstDraft > 2 /\ FirstDraft = Len(ProjectIds) + 2
  /\ Len(Plan) \in Nat /\ Len(Plan) = FirstDraft + 5 /\ DOMAIN Plan = 1..Len(Plan)
  /\ \A k \in 1..6 : FirstDraft + (k - 1) \in DOMAIN Plan /\ Plan[FirstDraft + (k - 1)] = Draft[k]
<1> DEFINE Records == STRING \cup {"context"} \cup {Draft[i] : i \in 1..6}
           Before == ProjectIds \o <<"context">>
<1>1. ProjectIds \in Seq(Records) /\ Len(ProjectIds) \in Nat \ {0}
  BY ProjectsAssumption
<1>2. <<"context">> \in Seq(Records) /\ Len(<<"context">>) = 1
  OBVIOUS
<1>3. Draft \in Seq(Records) /\ Len(Draft) = 6 /\ DOMAIN Draft = 1..6
  BY DEF Draft
<1> HIDE DEF Records
<1>4. Before \in Seq(Records) /\ Len(Before) = Len(ProjectIds) + 1
  BY <1>1, <1>2
<1>5. Plan = Before \o Draft
  BY DEF Plan
<1> HIDE DEF Before
<1>10. /\ Before \o Draft \in Seq(Records) /\ Len(Before \o Draft) = Len(Before) + Len(Draft)
       /\ \A i \in 1..(Len(Before) + Len(Draft)) :
             (Before \o Draft)[i] = IF i <= Len(Before) THEN Before[i] ELSE Draft[i - Len(Before)]
  BY <1>3, <1>4, ConcatProperties
<1>6. Len(Plan) = Len(Before) + 6 /\ DOMAIN Plan = 1..Len(Plan)
  <2>1. DOMAIN (Before \o Draft) = 1..Len(Before \o Draft)
    BY <1>10
  <2> QED
    BY <1>3, <1>5, <1>10, <2>1
<1>7. ASSUME NEW k \in 1..6
      PROVE  Plan[Len(Before) + k] = Draft[k]
  <2>1. Len(Before) + k \in 1..(Len(Before) + Len(Draft)) /\ Len(Before) + k > Len(Before)
        /\ (Len(Before) + k) - Len(Before) = k
    BY <1>1, <1>3, <1>4
  <2> QED
    BY <1>3, <1>4, <1>5, <1>10, <2>1
<1>8. FirstDraft = Len(ProjectIds) + 2
  BY DEF FirstDraft
<1>9. ASSUME NEW k \in 1..6
      PROVE  FirstDraft + (k - 1) = Len(Before) + k /\ FirstDraft + (k - 1) \in DOMAIN Plan
  BY <1>1, <1>4, <1>6, <1>8
<1> QED
  BY <1>1, <1>4, <1>6, <1>7, <1>8, <1>9

\* A position of the plan from the first draft record on.
LEMMA DraftPosition ==
  ASSUME NEW i \in DOMAIN Plan, i >= FirstDraft
  PROVE  /\ i \in Nat /\ (i - FirstDraft) + 1 \in 1..6
         /\ i = FirstDraft + (((i - FirstDraft) + 1) - 1)
         /\ Plan[i] = Draft[(i - FirstDraft) + 1]
<1>1. i \in Nat /\ (i - FirstDraft) + 1 \in 1..6 /\ i = FirstDraft + (((i - FirstDraft) + 1) - 1)
  BY PlanIsSequence
<1> DEFINE k == (i - FirstDraft) + 1
<1>2. k \in 1..6 /\ i = FirstDraft + (k - 1)
  BY <1>1
<1> HIDE DEF k
<1>3. Plan[i] = Draft[k]
  BY <1>2, PlanIsSequence
<1> QED
  BY <1>1, <1>3 DEF k

\* The draft records, and that the records before them are others.
LEMMA DraftRecords ==
  /\ Draft[1] = "task" /\ Draft[2] = "run" /\ Draft[3] = "run.created"
  /\ Draft[4] = "approval" /\ Draft[5] = "approval.requested" /\ Draft[6] = "request"
  /\ \A i \in DOMAIN Plan : \A k \in 1..6 : i < FirstDraft => Plan[i] # Draft[k]
<1>1. \A i \in DOMAIN Plan : \A k \in 1..6 : i < FirstDraft => Plan[i] # Draft[k]
  <2> SUFFICES ASSUME NEW i \in DOMAIN Plan, NEW k \in 1..6, i < FirstDraft, Plan[i] = Draft[k]
               PROVE  FALSE
    OBVIOUS
  <2>1. FirstDraft + (k - 1) \in DOMAIN Plan /\ Plan[FirstDraft + (k - 1)] = Plan[i]
    BY PlanIsSequence
  <2>2. FirstDraft + (k - 1) # i
    BY PlanIsSequence
  <2> QED
    BY <2>1, <2>2, PlanAssumption
<1> QED
  BY <1>1 DEF Draft

\* Events are the third and the fifth draft record.
LEMMA EventRecords == \A rec : IsEvent(rec) <=> rec \in {"run.created", "approval.requested"}
  BY DEF IsEvent, DraftEvents

\* Where a server goes in the plan.
LEMMA GoesTo ==
  ASSUME SeedTypes, NEW s \in Servers, NEW i \in Nat \ {0}, GoTo(s, i),
         i > FirstDraft => i > Len(Plan) \/ pc[s] = "create"
  PROVE  /\ SeedTypes' /\ at'[s] = i
         /\ i > Len(Plan) => pc'[s] = "ready"
         /\ i <= FirstDraft => pc'[s] = "check"
         /\ i > FirstDraft /\ i <= Len(Plan) => pc'[s] = "create"
         /\ \A t \in Servers \ {s} : pc'[t] = pc[t] /\ at'[t] = at[t]
<1>1. SeedTypes'
  BY DEF GoTo, SeedTypes, States
<1>2. at'[s] = i /\ \A t \in Servers \ {s} : pc'[t] = pc[t] /\ at'[t] = at[t]
  BY DEF GoTo, SeedTypes
<1>3. pc'[s] = CASE i > Len(Plan) -> "ready"
                 [] i > FirstDraft /\ i <= Len(Plan) -> "create"
                 [] OTHER -> "check"
  BY DEF GoTo, SeedTypes
<1> QED
  BY <1>1, <1>2, <1>3, PlanIsSequence

\* A step that stores nothing and lets no server further into the plan than it
\* has looked.
LEMMA StoresNothing ==
  ASSUME SeedInv, UNCHANGED <<stored, events>>, SeedTypes', AtInPlan',
         \A s \in Servers : InDraft(s)' => InDraft(s) /\ at'[s] = at[s],
         \A s \in Servers, i \in DOMAIN Plan :
             pc'[s] \in {"check", "create"} /\ i < at'[s] /\ i < FirstDraft =>
                (pc[s] \in {"check", "create"} /\ i < at[s]) \/ Plan[i] \in stored
  PROVE  SeedInv'
<1>1. BeforeDraft'
  BY DEF SeedInv, BeforeDraft
<1>2. DraftPrefix' /\ EventsOfStored'
  BY DEF SeedInv, DraftPrefix, EventsOfStored
<1>3. OneInDraft'
  BY DEF SeedInv, OneInDraft
<1> QED
  BY <1>1, <1>2, <1>3 DEF SeedInv

LEMMA InitSeedInv == Init => SeedInv
<1> SUFFICES ASSUME Init
             PROVE  SeedInv
  OBVIOUS
<1>1. SeedTypes /\ AtInPlan /\ BeforeDraft /\ DraftPrefix /\ OneInDraft
  BY DEF Init, SeedTypes, States, AtInPlan, BeforeDraft, DraftPrefix, OneInDraft, InDraft
<1>2. EventsOfStored
  BY DEF Init, EventsOfStored
<1> QED
  BY <1>1, <1>2 DEF SeedInv

\* Inserting a record before the draft.
LEMMA CreateBefore ==
  ASSUME SeedInv, NEW s \in Servers, Create(s), at[s] < FirstDraft
  PROVE  SeedInv'
<1> DEFINE rec == Plan[at[s]]
<1>1. pc[s] = "create" /\ at[s] \in DOMAIN Plan /\ at[s] \in Nat \ {0}
  BY PlanIsSequence DEF Create, SeedInv, AtInPlan
<1>2. \A k \in 1..6 : rec # Draft[k]
  BY <1>1, DraftRecords
<1>3. ~IsEvent(rec)
  BY <1>2, DraftRecords, EventRecords
<1>4. stored' = stored \cup {rec} /\ events' = events
  BY <1>3 DEF Create
<1>5. SeedTypes' /\ at'[s] = at[s] + 1 /\ pc'[s] = "check"
      /\ \A t \in Servers \ {s} : pc'[t] = pc[t] /\ at'[t] = at[t]
  <2>1. at[s] + 1 \in Nat \ {0} /\ GoTo(s, at[s] + 1) /\ at[s] + 1 <= FirstDraft /\ SeedTypes
    BY <1>1, PlanIsSequence DEF Create, SeedInv
  <2>2. ~(at[s] + 1 > FirstDraft)
    BY <1>1, <2>1, PlanIsSequence
  <2> QED
    BY <2>1, <2>2, GoesTo
<1> HIDE DEF rec
<1>6. AtInPlan'
  BY <1>1, <1>5, PlanIsSequence DEF SeedInv, AtInPlan
<1>7. BeforeDraft'
  <2> SUFFICES ASSUME NEW i \in DOMAIN Plan, i < FirstDraft
               PROVE  /\ \A t \in Servers : pc'[t] \in {"check", "create"} /\ i < at'[t]
                                              => Plan[i] \in stored'
                      /\ "task" \in stored' => Plan[i] \in stored'
    BY DEF BeforeDraft
  <2>1. i \in Nat /\ (i < at[s] + 1 => i < at[s] \/ i = at[s])
    BY <1>1, PlanIsSequence
  <2>2. pc'[s] \in {"check", "create"} /\ i < at'[s] => Plan[i] \in stored'
    BY <1>1, <1>4, <1>5, <2>1 DEF SeedInv, BeforeDraft, rec
  <2>3. "task" \in stored' => "task" \in stored
    BY <1>2, <1>4, DraftRecords
  <2> QED
    BY <1>4, <1>5, <2>2, <2>3 DEF SeedInv, BeforeDraft
<1>8. \A k \in 1..6 : Draft[k] \in stored' <=> Draft[k] \in stored
  BY <1>2, <1>4
<1>9. DraftPrefix' /\ EventsOfStored'
  BY <1>4, <1>8, DraftRecords DEF SeedInv, DraftPrefix, EventsOfStored
<1>10. OneInDraft'
  <2>1. \A t \in Servers : InDraft(t)' => t # s /\ InDraft(t) /\ at'[t] = at[t]
    BY <1>5 DEF InDraft
  <2>2. \A t \in Servers : InDraft(t) => \E k \in 1..6 : Plan[at[t]] = Draft[k]
    <3> SUFFICES ASSUME NEW t \in Servers, InDraft(t)
                 PROVE  \E k \in 1..6 : Plan[at[t]] = Draft[k]
      OBVIOUS
    <3>1. at[t] \in DOMAIN Plan /\ at[t] > FirstDraft
      BY DEF SeedInv, AtInPlan, InDraft
    <3>2. at[t] - FirstDraft + 1 \in 1..6
          /\ FirstDraft + (at[t] - FirstDraft + 1) - 1 = at[t]
      BY <3>1, PlanIsSequence
    <3> QED
      BY <3>2, PlanIsSequence
  <2> QED
    BY <1>4, <1>8, <2>1, <2>2 DEF SeedInv, OneInDraft
<1> QED
  BY <1>5, <1>6, <1>7, <1>9, <1>10 DEF SeedInv

\* Inserting draft record k: it was not there, and no other server is inside
\* the draft.
LEMMA CreateDraft ==
  ASSUME SeedInv, NEW s \in Servers, Create(s), at[s] >= FirstDraft
  PROVE  SeedInv'
<1> DEFINE k == (at[s] - FirstDraft) + 1
<1>1. pc[s] = "create" /\ at[s] \in DOMAIN Plan /\ at[s] \in Nat \ {0}
  BY PlanIsSequence DEF Create, SeedInv, AtInPlan
<1>2. k \in 1..6 /\ at[s] = FirstDraft + (k - 1) /\ Plan[at[s]] = Draft[k]
  BY <1>1, DraftPosition
<1>3. Draft[k] \notin stored
  <2>1. CASE at[s] = FirstDraft
    BY <1>2, <2>1, DraftRecords, EventRecords, PlanIsSequence DEF Create, CanInsert
  <2>2. CASE at[s] > FirstDraft
    BY <1>1, <1>2, <2>2 DEF SeedInv, OneInDraft, InDraft
  <2> QED
    BY <1>1, <2>1, <2>2, PlanIsSequence
<1>4. \A j \in 1..6 : Draft[j] \in stored <=> j < k
  <2>1. \A j \in 1..6 : j < k => Draft[j] \in stored
    <3>1. k > 1 => Draft[k - 1] \in stored
      <4> SUFFICES ASSUME k > 1
                   PROVE  Draft[k - 1] \in stored
        OBVIOUS
      <4>1. InDraft(s)
        BY <1>1, <1>2, PlanIsSequence DEF InDraft
      <4>2. Plan[at[s] - 1] \in stored
        BY <4>1 DEF SeedInv, OneInDraft
      <4>3. k - 1 \in 1..6 /\ at[s] - 1 = FirstDraft + ((k - 1) - 1)
        BY <1>2, PlanIsSequence
      <4> QED
        BY <4>2, <4>3, PlanIsSequence
    <3> HIDE DEF k
    <3>2. \A j \in 1..5 : Draft[j + 1] \in stored => Draft[j] \in stored
      BY DEF SeedInv, DraftPrefix
    <3> QED
      BY <1>2, <3>1, <3>2
  <2>2. \A j \in 1..6 : j >= k => Draft[j] \notin stored
    <3> HIDE DEF k
    <3>1. \A j \in 1..5 : Draft[j + 1] \in stored => Draft[j] \in stored
      BY DEF SeedInv, DraftPrefix
    <3> QED
      BY <1>2, <1>3, <3>1
  <2> HIDE DEF k
  <2> QED
    BY <1>2, <2>1, <2>2
<1>5. \A t \in Servers : InDraft(t) => t = s
  <2> SUFFICES ASSUME NEW t \in Servers, InDraft(t), t # s
               PROVE  FALSE
    OBVIOUS
  <2>1. ~InDraft(s)
    BY DEF SeedInv, OneInDraft
  <2>2. k = 1
    BY <1>1, <1>2, <2>1, PlanIsSequence DEF InDraft
  <2>3. at[t] \in DOMAIN Plan /\ at[t] > FirstDraft /\ Plan[at[t] - 1] \in stored
    BY DEF SeedInv, AtInPlan, OneInDraft, InDraft
  <2>4. at[t] - FirstDraft \in 1..6 /\ Plan[at[t] - 1] = Draft[at[t] - FirstDraft]
    <3>1. at[t] - FirstDraft \in 1..6 /\ FirstDraft + ((at[t] - FirstDraft) - 1) = at[t] - 1
      BY <2>3, PlanIsSequence
    <3> QED
      BY <3>1, PlanIsSequence
  <2> QED
    BY <1>4, <2>2, <2>3, <2>4
<1>6. stored' = stored \cup {Draft[k]}
      /\ events' = IF k \in {3, 5} THEN Append(events, Draft[k]) ELSE events
  BY <1>2, DraftRecords, EventRecords DEF Create
<1>7. SeedTypes' /\ at'[s] = at[s] + 1
      /\ (k = 6 => pc'[s] = "ready") /\ (k < 6 => pc'[s] = "create")
      /\ \A t \in Servers \ {s} : pc'[t] = pc[t] /\ at'[t] = at[t]
  <2> HIDE DEF k
  <2>1. at[s] + 1 \in Nat \ {0} /\ GoTo(s, at[s] + 1) /\ SeedTypes
    BY <1>1 DEF Create, SeedInv
  <2>2. /\ SeedTypes' /\ at'[s] = at[s] + 1
        /\ at[s] + 1 > Len(Plan) => pc'[s] = "ready"
        /\ at[s] + 1 > FirstDraft /\ at[s] + 1 <= Len(Plan) => pc'[s] = "create"
        /\ \A t \in Servers \ {s} : pc'[t] = pc[t] /\ at'[t] = at[t]
    BY <1>1, <2>1, GoesTo
  <2>3. at[s] + 1 > FirstDraft /\ (k = 6 => at[s] + 1 > Len(Plan)) /\ (k < 6 => at[s] + 1 <= Len(Plan))
    BY <1>2, PlanIsSequence
  <2> QED
    BY <2>2, <2>3
<1> HIDE DEF k
<1>8. AtInPlan'
  <2>1. k < 6 => at[s] + 1 \in DOMAIN Plan
    BY <1>1, <1>2, PlanIsSequence
  <2>2. k = 6 \/ k < 6
    BY <1>2
  <2>3. pc'[s] # "check" /\ (pc'[s] = "create" => at'[s] \in DOMAIN Plan)
    BY <1>7, <2>1, <2>2
  <2>4. ASSUME NEW t \in Servers, t # s
        PROVE  /\ pc'[t] \in {"check", "create"} => at'[t] \in DOMAIN Plan
               /\ pc'[t] = "check" => at'[t] <= FirstDraft
    BY <1>7, <2>4 DEF SeedInv, AtInPlan
  <2> QED
    BY <2>3, <2>4 DEF AtInPlan
<1>9. BeforeDraft'
  <2> SUFFICES ASSUME NEW i \in DOMAIN Plan, i < FirstDraft
               PROVE  /\ \A t \in Servers : pc'[t] \in {"check", "create"} /\ i < at'[t]
                                              => Plan[i] \in stored'
                      /\ "task" \in stored' => Plan[i] \in stored'
    BY DEF BeforeDraft
  <2>1. Plan[i] \in stored
    BY <1>1, PlanIsSequence DEF SeedInv, BeforeDraft
  <2> QED
    BY <1>6, <2>1
<1>10. \A j \in 1..6 : Draft[j] \in stored' <=> j <= k
  BY <1>2, <1>4, <1>6, DraftRecords
<1>11. DraftPrefix'
  BY <1>2, <1>10 DEF DraftPrefix
<1>12. EventsOfStored'
  <2>1. events = IF k > 5 THEN DraftEvents ELSE IF k > 3 THEN <<"run.created">> ELSE <<>>
    BY <1>2, <1>4, DraftRecords DEF SeedInv, EventsOfStored
  <2>2. events' = IF k >= 5 THEN DraftEvents ELSE IF k >= 3 THEN <<"run.created">> ELSE <<>>
    <3>1. CASE k = 3
      BY <1>6, <2>1, <3>1, DraftRecords
    <3>2. CASE k = 5
      <4>1. events = <<"run.created">> /\ events' = Append(<<"run.created">>, "approval.requested")
        BY <1>6, <2>1, <3>2, DraftRecords
      <4>2. Append(<<"run.created">>, "approval.requested") = DraftEvents
        <5> DEFINE Types == {"run.created", "approval.requested"}
        <5>1. <<"run.created">> \in Seq(Types) /\ Len(<<"run.created">>) = 1
              /\ "approval.requested" \in Types
          OBVIOUS
        <5>2. DraftEvents \in Seq(Types) /\ Len(DraftEvents) = 2
              /\ DraftEvents[1] = "run.created" /\ DraftEvents[2] = "approval.requested"
          BY DEF DraftEvents
        <5> HIDE DEF Types
        <5> QED
          BY <5>1, <5>2
      <4> QED
        BY <3>2, <4>1, <4>2
    <3>3. CASE k \in {1, 2, 4, 6}
      BY <1>6, <2>1, <3>3
    <3> QED
      BY <1>2, <3>1, <3>2, <3>3
  <2> QED
    BY <1>2, <1>10, <2>2, DraftRecords DEF EventsOfStored
<1>13. OneInDraft'
  <2>1. \A t \in Servers : InDraft(t)' => t = s
    BY <1>5, <1>7 DEF InDraft
  <2>2. ASSUME InDraft(s)'
        PROVE  Plan[at'[s] - 1] \in stored' /\ Plan[at'[s]] \notin stored'
    <3>1. k < 6
      BY <1>2, <1>7, <2>2 DEF InDraft
    <3>2. k + 1 \in 1..6 /\ at'[s] = FirstDraft + ((k + 1) - 1) /\ at'[s] - 1 = FirstDraft + (k - 1)
      BY <1>1, <1>2, <1>7, <3>1, PlanIsSequence
    <3>3. Plan[at'[s]] = Draft[k + 1] /\ Plan[at'[s] - 1] = Draft[k]
      BY <1>2, <3>2, PlanIsSequence
    <3> QED
      BY <1>2, <1>10, <3>2, <3>3
  <2> QED
    BY <2>1, <2>2 DEF OneInDraft
<1> QED
  BY <1>7, <1>8, <1>9, <1>11, <1>12, <1>13 DEF SeedInv

LEMMA NextSeedInv == SeedInv /\ [Next]_vars => SeedInv'
<1> SUFFICES ASSUME SeedInv, [Next]_vars
             PROVE  SeedInv'
  OBVIOUS
<1>1. ASSUME NEW s \in Servers, Create(s)
      PROVE  SeedInv'
  <2>1. at[s] \in Nat /\ FirstDraft \in Nat
    BY PlanIsSequence DEF SeedInv, SeedTypes
  <2> QED
    BY <1>1, <2>1, CreateBefore, CreateDraft
<1>2. ASSUME NEW s \in Servers, Start(s)
      PROVE  SeedInv'
  <2>1. SeedTypes' /\ at'[s] = 1 /\ pc'[s] = "check"
        /\ \A t \in Servers \ {s} : pc'[t] = pc[t] /\ at'[t] = at[t]
    BY <1>2, GoesTo, PlanIsSequence DEF Start, SeedInv
  <2>2. AtInPlan'
    BY <2>1, PlanIsSequence DEF SeedInv, AtInPlan
  <2>3. UNCHANGED <<stored, events>>
    BY <1>2 DEF Start
  <2>4. \A t \in Servers : InDraft(t)' => InDraft(t) /\ at'[t] = at[t]
    BY <2>1 DEF InDraft
  <2>5. \A t \in Servers, i \in DOMAIN Plan :
             pc'[t] \in {"check", "create"} /\ i < at'[t] =>
                pc[t] \in {"check", "create"} /\ i < at[t]
    BY <2>1, PlanIsSequence
  <2> QED
    BY <2>1, <2>2, <2>3, <2>4, <2>5, StoresNothing
<1>3. ASSUME NEW s \in Servers, CheckFound(s)
      PROVE  SeedInv'
  <2>1. pc[s] = "check" /\ at[s] \in DOMAIN Plan /\ at[s] <= FirstDraft /\ at[s] \in Nat \ {0}
    BY <1>3, PlanIsSequence DEF CheckFound, SeedInv, AtInPlan
  <2>2. CASE at[s] = FirstDraft
    <3>1. SeedTypes' /\ pc'[s] = "ready" /\ \A t \in Servers \ {s} : pc'[t] = pc[t] /\ at'[t] = at[t]
      BY <1>3, <2>2, GoesTo, PlanIsSequence DEF CheckFound, SeedInv
    <3>2. AtInPlan' /\ UNCHANGED <<stored, events>>
      BY <1>3, <3>1 DEF CheckFound, SeedInv, AtInPlan
    <3>3. \A t \in Servers : InDraft(t)' => InDraft(t) /\ at'[t] = at[t]
      BY <3>1 DEF InDraft
    <3> QED
      BY <3>1, <3>2, <3>3, StoresNothing
  <2>3. CASE at[s] < FirstDraft
    <3>1. SeedTypes' /\ pc'[s] = "check" /\ at'[s] = at[s] + 1
          /\ \A t \in Servers \ {s} : pc'[t] = pc[t] /\ at'[t] = at[t]
      BY <1>3, <2>1, <2>3, GoesTo, PlanIsSequence DEF CheckFound, SeedInv
    <3>2. AtInPlan' /\ UNCHANGED <<stored, events>>
      <4>1. at'[s] \in DOMAIN Plan /\ at'[s] <= FirstDraft
        BY <2>1, <2>3, <3>1, PlanIsSequence
      <4> QED
        BY <1>3, <3>1, <4>1 DEF CheckFound, SeedInv, AtInPlan
    <3>3. \A t \in Servers : InDraft(t)' => InDraft(t) /\ at'[t] = at[t]
      BY <3>1 DEF InDraft
    <3>4. Plan[at[s]] \in stored
      <4>1. at[s] # FirstDraft
        BY <2>1, <2>3, PlanIsSequence
      <4> QED
        BY <1>3, <4>1 DEF CheckFound, Lookup
    <3>5. \A i \in DOMAIN Plan : i < at'[s] => i < at[s] \/ Plan[i] \in stored
      BY <2>1, <3>1, <3>4, PlanIsSequence
    <3>6. \A t \in Servers, i \in DOMAIN Plan :
             pc'[t] \in {"check", "create"} /\ i < at'[t] /\ i < FirstDraft =>
                (pc[t] \in {"check", "create"} /\ i < at[t]) \/ Plan[i] \in stored
      BY <2>1, <3>1, <3>5
    <3> QED
      BY <3>1, <3>2, <3>3, <3>6, StoresNothing
  <2> QED
    BY <2>1, <2>2, <2>3, PlanIsSequence
<1>4. ASSUME NEW s \in Servers, CheckMissing(s) \/ CreateFails(s) \/ Crash(s) \/ Stop(s)
      PROVE  SeedInv'
  <2>1. SeedTypes' /\ UNCHANGED <<stored, events, at>>
        /\ ((pc[s] = "check" /\ pc'[s] = "create") \/ pc'[s] \in {"down", "failed"})
        /\ \A t \in Servers \ {s} : pc'[t] = pc[t]
    BY <1>4 DEF CheckMissing, CreateFails, Crash, Stop, SeedInv, SeedTypes, States
  <2>2. AtInPlan'
    BY <2>1 DEF SeedInv, AtInPlan
  <2>3. \A t \in Servers : InDraft(t)' => InDraft(t) /\ at'[t] = at[t]
    BY <2>1, PlanIsSequence DEF InDraft, SeedInv, AtInPlan, SeedTypes
  <2>4. \A t \in Servers : pc'[t] \in {"check", "create"} => pc[t] \in {"check", "create"}
    BY <2>1
  <2> QED
    BY <2>1, <2>2, <2>3, <2>4, StoresNothing
<1>5. CASE UNCHANGED vars
  BY <1>5 DEF vars, SeedInv, SeedTypes, AtInPlan, BeforeDraft, DraftPrefix, EventsOfStored,
             OneInDraft, InDraft
<1> QED
  BY <1>1, <1>2, <1>3, <1>4, <1>5 DEF Next, Run

\* However often servers start, fail and are killed, the draft's timeline holds
\* each of its events at most once and in order.
THEOREM SeededOnce == Spec => []EventsSeededOnce
<1>1. SeedInv => EventsSeededOnce
  <2> SUFFICES ASSUME SeedInv
               PROVE  EventsSeededOnce
    OBVIOUS
  <2>1. events = <<>> \/ events = <<"run.created">> \/ events = DraftEvents
    BY DEF SeedInv, EventsOfStored
  <2>2. /\ <<>> = SubSeq(DraftEvents, 1, Len(<<>>))
        /\ <<"run.created">> = SubSeq(DraftEvents, 1, Len(<<"run.created">>))
        /\ DraftEvents = SubSeq(DraftEvents, 1, Len(DraftEvents))
    BY DEF DraftEvents
  <2> QED
    BY <2>1, <2>2 DEF EventsSeededOnce
<1> QED
  BY <1>1, InitSeedInv, NextSeedInv, PTL DEF Spec

\* A draft that shows in the dashboard has everything it refers to.
THEOREM VisibleDraftWhole == Spec => []DraftWhole
<1>1. SeedInv => DraftWhole
  <2> SUFFICES ASSUME SeedInv, "request" \in stored
               PROVE  /\ \A i \in DOMAIN Plan : Plan[i] \in stored
                      /\ events = DraftEvents
    BY DEF DraftWhole
  <2>1. \A k \in 1..6 : Draft[k] \in stored
    BY DraftRecords DEF SeedInv, DraftPrefix
  <2>2. ASSUME NEW i \in DOMAIN Plan
        PROVE  Plan[i] \in stored
    <3>1. CASE i < FirstDraft
      BY <2>1, <3>1, DraftRecords DEF SeedInv, BeforeDraft
    <3>2. CASE i >= FirstDraft
      BY <2>1, <3>2, DraftPosition
    <3> QED
      BY <3>1, <3>2, PlanIsSequence
  <2>3. events = DraftEvents
    BY <2>1, DraftRecords DEF SeedInv, EventsOfStored
  <2> QED
    BY <2>2, <2>3
<1> QED
  BY <1>1, InitSeedInv, NextSeedInv, PTL DEF Spec

\* A start on a seeded database changes nothing.
THEOREM SeededStaysSeeded == Spec => RerunChangesNothing
<1> DEFINE Rerun == (\A i \in DOMAIN Plan : Plan[i] \in stored)
                      => stored' = stored /\ events' = events
<1>1. SeedInv /\ [Next]_vars => [Rerun]_vars
  <2> SUFFICES ASSUME SeedInv, Next, \A i \in DOMAIN Plan : Plan[i] \in stored
               PROVE  stored' = stored /\ events' = events
    OBVIOUS
  <2>1. ASSUME NEW s \in Servers, Create(s)
        PROVE  FALSE
    <3>1. pc[s] = "create" /\ at[s] \in DOMAIN Plan /\ CanInsert(Plan[at[s]]) /\ Plan[at[s]] \in stored
      BY <2>1 DEF Create, SeedInv, AtInPlan
    <3>2. IsEvent(Plan[at[s]])
      BY <3>1 DEF CanInsert
    <3>3. at[s] > FirstDraft
      <4>1. Plan[FirstDraft] = "task"
        BY PlanIsSequence, DraftRecords
      <4> QED
        BY <3>1, <3>2, <4>1, EventRecords, DraftRecords, PlanIsSequence
    <3> QED
      BY <3>1, <3>3 DEF SeedInv, OneInDraft, InDraft
  <2> QED
    BY <2>1 DEF Next, Run, Start, CheckFound, CheckMissing, CreateFails, Crash, Stop
<1> QED
  BY <1>1, InitSeedInv, NextSeedInv, PTL DEF Spec, RerunChangesNothing

----------------------------------------------------------------------------
(* A start that fails *)

Calm == ~torn /\ ~overlap

\* As long as nothing has been interrupted inside the draft and no two servers
\* seed at once, the one that seeds finds what it is about to insert missing,
\* and a draft that nobody is at is all there or not begun.
CalmInv ==
    Calm =>
        /\ \A s \in Servers : pc[s] # "failed"
        /\ \A s, t \in Servers : Seeding(s) /\ Seeding(t) => s = t
        /\ \A s \in Servers :
              pc[s] = "create" /\ at[s] <= FirstDraft => Plan[at[s]] \notin stored
        /\ (\A s \in Servers : ~InDraft(s)) => ("task" \in stored => "request" \in stored)

\* Where a server that creates is, and that its record is missing.
LEMMA CreatesMissing ==
  ASSUME SeedInv, CalmInv, Calm, NEW s \in Servers, pc[s] = "create"
  PROVE  at[s] \in DOMAIN Plan /\ at[s] \in Nat /\ Plan[at[s]] \notin stored
<1>1. at[s] \in DOMAIN Plan /\ at[s] \in Nat
  BY PlanIsSequence DEF SeedInv, AtInPlan
<1>2. CASE at[s] <= FirstDraft
  BY <1>1, <1>2 DEF CalmInv
<1>3. CASE at[s] > FirstDraft
  BY <1>1, <1>3 DEF SeedInv, OneInDraft, InDraft
<1> QED
  BY <1>1, <1>2, <1>3, PlanIsSequence

\* A step of s after which nobody is at the draft who was not.
LEMMA OutsideDraft ==
  ASSUME SeedInv, CalmInv, NEW s \in Servers, UNCHANGED stored, Calm' => Calm,
         \A t \in Servers \ {s} : pc'[t] = pc[t] /\ at'[t] = at[t],
         Calm' => pc'[s] # "failed",
         Seeding(s)' => Seeding(s) \/ (Calm' => \A t \in Servers : ~Seeding(t)),
         Calm' /\ pc'[s] = "create" => at'[s] <= FirstDraft /\ Plan[at'[s]] \notin stored,
         Calm' => ~InDraft(s)
  PROVE  CalmInv'
<1> SUFFICES ASSUME Calm'
             PROVE  /\ \A t \in Servers : pc'[t] # "failed"
                    /\ \A t, u \in Servers : Seeding(t)' /\ Seeding(u)' => t = u
                    /\ \A t \in Servers :
                          pc'[t] = "create" /\ at'[t] <= FirstDraft => Plan[at'[t]] \notin stored'
                    /\ (\A t \in Servers : ~InDraft(t)') => ("task" \in stored' => "request" \in stored')
  BY DEF CalmInv
<1>1. Calm
  OBVIOUS
<1>2. \A t, u \in Servers : Seeding(t)' /\ Seeding(u)' => t = u
  <2>1. \A t \in Servers \ {s} : Seeding(t)' <=> Seeding(t)
    BY DEF Seeding
  <2> QED
    BY <1>1, <2>1 DEF CalmInv
<1>3. (\A t \in Servers : ~InDraft(t)') => (\A t \in Servers : ~InDraft(t))
  BY DEF InDraft
<1> QED
  BY <1>1, <1>2, <1>3 DEF CalmInv

LEMMA CreateCalmInv ==
  ASSUME SeedInv, CalmInv, NEW s \in Servers, Create(s)
  PROVE  CalmInv'
<1> SUFFICES ASSUME Calm
             PROVE  CalmInv'
  BY DEF CalmInv, Create, Calm
<1>1. /\ pc[s] = "create" /\ stored' = stored \cup {Plan[at[s]]} /\ GoTo(s, at[s] + 1)
      /\ UNCHANGED <<torn, overlap>>
  BY DEF Create
<1>2. at[s] \in DOMAIN Plan /\ at[s] \in Nat
  BY <1>1, CreatesMissing
<1>3. /\ at'[s] = at[s] + 1
      /\ at[s] + 1 > Len(Plan) => pc'[s] = "ready"
      /\ at[s] + 1 <= FirstDraft => pc'[s] = "check"
      /\ at[s] + 1 > FirstDraft /\ at[s] + 1 <= Len(Plan) => pc'[s] = "create"
      /\ \A t \in Servers \ {s} : pc'[t] = pc[t] /\ at'[t] = at[t]
  <2>1. at[s] + 1 \in Nat \ {0} /\ SeedTypes
    BY <1>2 DEF SeedInv
  <2> QED
    BY <1>1, <2>1, GoesTo
<1>4. pc'[s] \in {"ready", "check", "create"}
  BY <1>2, <1>3, PlanIsSequence
<1>5. \A t \in Servers \ {s} : ~Seeding(t) /\ ~Seeding(t)'
  BY <1>1, <1>3 DEF CalmInv, Seeding
<1>6. \A t \in Servers : pc'[t] = "create" => t = s /\ at'[t] > FirstDraft
  <2>1. pc'[s] = "create" => at'[s] > FirstDraft
    BY <1>2, <1>3, PlanIsSequence
  <2> QED
    BY <1>5, <2>1 DEF Seeding
<1>7. ASSUME \A t \in Servers : ~InDraft(t)', "task" \in stored'
      PROVE  "request" \in stored'
  <2>1. pc'[s] # "create"
    BY <1>6, <1>7 DEF InDraft
  <2>2. CASE at[s] + 1 > Len(Plan)
    <3>1. at[s] = FirstDraft + (6 - 1)
      BY <1>2, <2>2, PlanIsSequence
    <3>2. Plan[at[s]] = "request"
      BY <3>1, PlanIsSequence, DraftRecords
    <3> QED
      BY <1>1, <3>2
  <2>3. CASE at[s] + 1 <= FirstDraft
    <3>1. at[s] < FirstDraft
      BY <1>2, <2>3, PlanIsSequence
    <3>2. Plan[at[s]] # "task" /\ ~InDraft(s)
      BY <1>2, <3>1, DraftRecords, PlanIsSequence DEF InDraft
    <3>3. \A t \in Servers : ~InDraft(t)
      BY <1>5, <3>2 DEF InDraft, Seeding
    <3> QED
      BY <1>1, <1>7, <3>2, <3>3 DEF CalmInv
  <2> QED
    BY <1>2, <1>3, <2>1, <2>2, <2>3, PlanIsSequence
<1>8. \A t \in Servers : pc'[t] # "failed"
  BY <1>3, <1>4 DEF CalmInv
<1>9. \A t, u \in Servers : Seeding(t)' /\ Seeding(u)' => t = u
  BY <1>5
<1>10. \A t \in Servers :
          pc'[t] = "create" /\ at'[t] <= FirstDraft => Plan[at'[t]] \notin stored'
  BY <1>2, <1>3, <1>6, PlanIsSequence
<1> QED
  BY <1>7, <1>8, <1>9, <1>10 DEF CalmInv

LEMMA NextCalmInv == SeedInv /\ CalmInv /\ [Next]_vars => CalmInv'
<1> SUFFICES ASSUME SeedInv, CalmInv, [Next]_vars
             PROVE  CalmInv'
  OBVIOUS
<1> USE DEF Calm
<1>1. CASE UNCHANGED vars
  BY <1>1 DEF vars, CalmInv, InDraft, Seeding
<1>2. ASSUME NEW s \in Servers, Start(s)
      PROVE  CalmInv'
  <2>1. /\ pc[s] \in {"down", "failed"} /\ GoTo(s, 1) /\ UNCHANGED <<stored, torn>>
        /\ overlap' = (overlap \/ \E t \in Servers : Seeding(t))
    BY <1>2 DEF Start
  <2>2. /\ at'[s] = 1 /\ pc'[s] = "check"
        /\ \A t \in Servers \ {s} : pc'[t] = pc[t] /\ at'[t] = at[t]
    BY <2>1, GoesTo, PlanIsSequence DEF SeedInv
  <2> QED
    BY <2>1, <2>2, OutsideDraft DEF InDraft
<1>3. ASSUME NEW s \in Servers, CheckFound(s)
      PROVE  CalmInv'
  <2> DEFINE i == IF at[s] = FirstDraft THEN Len(Plan) + 1 ELSE at[s] + 1
  <2>1. /\ pc[s] = "check" /\ GoTo(s, i) /\ UNCHANGED <<stored, torn, overlap>>
        /\ at[s] \in DOMAIN Plan /\ at[s] \in Nat /\ at[s] <= FirstDraft
    BY <1>3, PlanIsSequence DEF CheckFound, SeedInv, AtInPlan
  <2>2. i \in Nat \ {0} /\ (i > Len(Plan) \/ i <= FirstDraft)
    BY <2>1, PlanIsSequence
  <2> HIDE DEF i
  <2>3. /\ pc'[s] \in {"ready", "check"}
        /\ \A t \in Servers \ {s} : pc'[t] = pc[t] /\ at'[t] = at[t]
    <3>1. SeedTypes /\ (i > FirstDraft => i > Len(Plan) \/ pc[s] = "create")
      BY <2>2, PlanIsSequence DEF SeedInv
    <3>2. /\ i > Len(Plan) => pc'[s] = "ready"
          /\ i <= FirstDraft => pc'[s] = "check"
          /\ \A t \in Servers \ {s} : pc'[t] = pc[t] /\ at'[t] = at[t]
      BY <2>1, <2>2, <3>1, GoesTo
    <3> QED
      BY <2>2, <3>2
  <2> QED
    BY <2>1, <2>3, OutsideDraft DEF InDraft, Seeding
<1>4. ASSUME NEW s \in Servers, CheckMissing(s)
      PROVE  CalmInv'
  <2>1. /\ pc[s] = "check" /\ pc' = [pc EXCEPT ![s] = "create"]
        /\ UNCHANGED <<stored, at, torn, overlap>> /\ Lookup(at[s]) \notin stored
        /\ at[s] \in DOMAIN Plan /\ at[s] \in Nat /\ at[s] <= FirstDraft
    BY <1>4, PlanIsSequence DEF CheckMissing, SeedInv, AtInPlan
  <2>2. /\ pc'[s] = "create"
        /\ \A t \in Servers \ {s} : pc'[t] = pc[t] /\ at'[t] = at[t]
    BY <2>1 DEF SeedInv, SeedTypes
  <2>3. ASSUME Calm
        PROVE  Plan[at[s]] \notin stored
    <3>1. CASE at[s] # FirstDraft
      BY <2>1, <3>1 DEF Lookup
    <3>2. CASE at[s] = FirstDraft
      <4>1. "request" \notin stored
        BY <2>1, <3>2 DEF Lookup
      <4>2. \A t \in Servers : ~InDraft(t)
        BY <2>1, <2>3 DEF CalmInv, InDraft, Seeding
      <4>3. Plan[at[s]] = "task"
        <5>1. at[s] = FirstDraft + (1 - 1)
          BY <3>2, PlanIsSequence
        <5> QED
          BY <5>1, PlanIsSequence, DraftRecords
      <4> QED
        BY <2>3, <4>1, <4>2, <4>3 DEF CalmInv
    <3> QED
      BY <3>1, <3>2
  <2> QED
    BY <2>1, <2>2, <2>3, OutsideDraft DEF InDraft, Seeding
<1>5. ASSUME NEW s \in Servers, CreateFails(s)
      PROVE  CalmInv'
  <2>1. ~Calm
    BY <1>5, CreatesMissing DEF CreateFails, CanInsert
  <2> QED
    BY <1>5, <2>1 DEF CreateFails, CalmInv
<1>6. ASSUME NEW s \in Servers, Crash(s) \/ Stop(s)
      PROVE  CalmInv'
  <2>1. pc' = [pc EXCEPT ![s] = "down"] /\ UNCHANGED <<stored, at, overlap>>
    BY <1>6 DEF Crash, Stop
  <2>2. /\ pc'[s] = "down"
        /\ \A t \in Servers \ {s} : pc'[t] = pc[t] /\ at'[t] = at[t]
    BY <2>1 DEF SeedInv, SeedTypes
  <2>3. (Calm' => Calm) /\ (Calm' => ~InDraft(s))
    <3>1. CASE Crash(s)
      <4>1. torn' = (torn \/ (Seeding(s) /\ at[s] > FirstDraft)) /\ overlap' = overlap
        BY <3>1 DEF Crash
      <4>2. ~torn' => ~torn /\ ~(Seeding(s) /\ at[s] > FirstDraft)
        BY <4>1
      <4>3. InDraft(s) => Seeding(s) /\ at[s] > FirstDraft
        BY DEF InDraft, Seeding
      <4> QED
        BY <4>1, <4>2, <4>3
    <3>2. CASE Stop(s)
      BY <3>2 DEF Stop, InDraft
    <3> QED
      BY <1>6, <3>1, <3>2
  <2> QED
    BY <2>1, <2>2, <2>3, OutsideDraft DEF Seeding
<1> QED
  BY <1>1, <1>2, <1>3, <1>4, <1>5, <1>6, CreateCalmInv DEF Next, Run

\* A start fails only after another one was interrupted inside the draft, or
\* while another one is seeding: by itself, and after a kill anywhere else, the
\* seed is safe to run again.
THEOREM FailsOnlyDisturbed == Spec => []FailsOnlyIfDisturbed
<1>1. Init => CalmInv
  BY DEF Init, CalmInv, Seeding, InDraft
<1>2. CalmInv => FailsOnlyIfDisturbed
  BY DEF CalmInv, Calm, FailsOnlyIfDisturbed
<1>3. Spec => []SeedInv
  BY InitSeedInv, NextSeedInv, PTL DEF Spec
<1> QED
  BY <1>1, <1>2, <1>3, NextCalmInv, PTL DEF Spec

----------------------------------------------------------------------------
(* Types: the places the servers can be at, and what can be in the database. *)

\* A server goes to a position of the plan, or to the one after its end.
LEMMA GoesWithin ==
  ASSUME TypeOK, NEW s \in Servers, NEW i \in 1..(Len(Plan) + 1), GoTo(s, i)
  PROVE  /\ pc' \in [Servers -> {"down", "check", "create", "ready", "failed"}]
         /\ at' \in [Servers -> 1..(Len(Plan) + 1)]
<1>1. pc' \in [Servers -> {"down", "check", "create", "ready", "failed"}]
  BY DEF GoTo, TypeOK
<1>2. at' \in [Servers -> 1..(Len(Plan) + 1)]
  BY DEF GoTo, TypeOK
<1> QED
  BY <1>1, <1>2

LEMMA NextTypeOK == SeedInv /\ SeedInv' /\ TypeOK /\ [Next]_vars => TypeOK'
<1> SUFFICES ASSUME SeedInv, SeedInv', TypeOK, [Next]_vars
             PROVE  TypeOK'
  OBVIOUS
<1>1. \A i \in DOMAIN events' : IsEvent(events'[i])
  <2>1. events' \in {DraftEvents, <<"run.created">>, <<>>}
    BY DEF SeedInv, EventsOfStored
  <2>2. /\ DraftEvents = <<"run.created", "approval.requested">>
        /\ IsEvent("run.created") /\ IsEvent("approval.requested")
    BY EventRecords DEF DraftEvents
  <2> QED
    BY <2>1, <2>2
<1> DEFINE Placed == /\ pc' \in [Servers -> {"down", "check", "create", "ready", "failed"}]
                     /\ at' \in [Servers -> 1..(Len(Plan) + 1)]
           Kept == /\ stored' \subseteq {Plan[i] : i \in DOMAIN Plan}
                   /\ crashes' \in 0..MaxCrashes
                   /\ torn' \in BOOLEAN /\ overlap' \in BOOLEAN
<1>2. UNCHANGED <<stored, crashes, torn, overlap>> => Kept
  BY DEF TypeOK
<1>3. /\ Len(Plan) \in Nat \ {0} /\ DOMAIN Plan = 1..Len(Plan) /\ FirstDraft \in DOMAIN Plan
      /\ \A s \in Servers : pc[s] \in {"check", "create"} => at[s] \in DOMAIN Plan
  BY PlanIsSequence DEF SeedInv, AtInPlan
<1>4. ASSUME NEW s \in Servers, Start(s)
      PROVE  Placed /\ Kept
  <2>1. 1 \in 1..(Len(Plan) + 1) /\ GoTo(s, 1)
    BY <1>3, <1>4 DEF Start
  <2>2. Placed
    BY <2>1, GoesWithin
  <2>3. Kept
    BY <1>4 DEF Start, TypeOK
  <2> QED
    BY <2>2, <2>3
<1>5. ASSUME NEW s \in Servers, CheckFound(s)
      PROVE  Placed /\ Kept
  <2>1. PICK i \in 1..(Len(Plan) + 1) : GoTo(s, i)
    BY <1>3, <1>5 DEF CheckFound
  <2>2. Placed
    BY <2>1, GoesWithin
  <2> QED
    BY <1>2, <1>5, <2>2 DEF CheckFound
<1>6. ASSUME NEW s \in Servers, Create(s)
      PROVE  Placed /\ Kept
  <2>1. at[s] \in DOMAIN Plan /\ at[s] + 1 \in 1..(Len(Plan) + 1) /\ GoTo(s, at[s] + 1)
    BY <1>3, <1>6 DEF Create
  <2>2. Placed
    BY <2>1, GoesWithin
  <2>3. Kept
    BY <1>6, <2>1 DEF Create, TypeOK
  <2> QED
    BY <2>2, <2>3
<1>7. ASSUME NEW s \in Servers, CheckMissing(s)
      PROVE  Placed /\ Kept
  BY <1>2, <1>7 DEF CheckMissing, TypeOK
<1>8. ASSUME NEW s \in Servers, CreateFails(s)
      PROVE  Placed /\ Kept
  BY <1>8 DEF CreateFails, TypeOK
<1>9. ASSUME NEW s \in Servers, Crash(s)
      PROVE  Placed /\ Kept
  <2>1. crashes' \in 0..MaxCrashes
    BY <1>9, MaxCrashesAssumption DEF Crash, TypeOK
  <2> QED
    BY <1>9, <2>1 DEF Crash, TypeOK
<1>10. ASSUME NEW s \in Servers, Stop(s)
       PROVE  Placed /\ Kept
  BY <1>2, <1>10 DEF Stop, TypeOK
<1>11. ASSUME UNCHANGED vars
       PROVE  Placed /\ Kept
  BY <1>2, <1>11 DEF vars, TypeOK
<1> HIDE DEF Placed, Kept
<1>12. ASSUME NEW s \in Servers, Run(s)
       PROVE  Placed /\ Kept
  BY <1>4, <1>5, <1>6, <1>7, <1>8, <1>12 DEF Run
<1>13. Placed /\ Kept
  BY <1>9, <1>10, <1>11, <1>12 DEF Next
<1> QED
  BY <1>1, <1>13 DEF TypeOK, Placed, Kept

\* No server leaves the plan, however it is killed and started, and nothing but
\* records of the plan is seeded.
THEOREM SeedTypesKept == Spec => []TypeOK
<1>1. Init => TypeOK
  <2> SUFFICES ASSUME Init
               PROVE  TypeOK
    OBVIOUS
  <2>1. \A i \in DOMAIN events : IsEvent(events[i])
    BY DEF Init
  <2>2. 1 \in 1..(Len(Plan) + 1) /\ 0 \in 0..MaxCrashes
    BY PlanIsSequence, MaxCrashesAssumption
  <2> QED
    BY <2>1, <2>2 DEF Init, TypeOK
<1> QED
  BY <1>1, InitSeedInv, NextSeedInv, NextTypeOK, PTL DEF Spec
=============================================================================
