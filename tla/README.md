# A verification of clay-ops

clay-ops (`src/src/clay_ops`) is a local control plane: a SQLite store of runs,
events, approvals and artifacts, a loopback HTTP server whose request threads
write to it, a command line, and a few workflows that ask a human before
anything external happens. This directory holds TLA+ models of the parts whose
correctness depends on order, failure and concurrency, the TLC runs that check
them, and TLAPS proofs of what matters most.

## The system

All paths are relative to `src/src/clay_ops`.

| component | state it keeps | operations | what makes it correct |
|---|---|---|---|
| operational store, `store.py` | one SQLite file in WAL mode: events, approvals, approval_decisions, artifacts, results, canon_snapshots, documents | `transaction`, `append_event`, `create_approval`, `resolve_approval`, inserts and updates of documents | timelines are unbroken hash chains; a decision is made once for the requested scope; a transaction is visible whole; nothing committed changes; an edit is lost only to one that overlaps it |
| image generation, `workflows/image_generation.py` | a project, task, run, request, approval and events per submission | `submit`, `execute` | the provider is called only after approval, and at most once; every call is announced before it and no outcome is recorded without one |
| approval decisions, `approval_actions.py`, `DemoOrchestrator.resolve` in `demo.py` | decision rows and timeline events | `decide_approval`, `resolve` | the first decision stands, the timeline tells it once |
| startup seed, `seed.py` | four projects, a context and a draft of six records, under fixed keys | `seed_clay_projects`, at every `serve` | nothing twice; a start after any interruption works |
| artifact store, `artifacts.py` | files under `runtime/artifacts`, rows in the store | `write_bytes` (`write_text`, `write_json`) | a row has its file, whole; a file never changes |
| image import, `image_import.py` | a task, run, events, artifact and asset per image | `import_bytes`, `import_generated` | records never run ahead of the file |
| demo run, `demo.py` | a run with its events, artifacts, approval and result | `DemoOrchestrator.run` | visible whole; claims of Hermes only what is so; lets go of the database when Hermes has answered |
| Hermes adapter, `adapters/hermes_api.py` | a cache of idempotency keys | `create_demo_run`, `get_run`, `stop_run`, ... | losses and refusals are reported as such |
| execution readiness, `execution_readiness.py` | none | `evaluate_execution_readiness` | only what was approved is called valid |
| provider registry, `images.py` | the registered providers | `get`, `describe` | - |
| projection, `projection.py` | none: it reads the store | `snapshot` | a queue entry comes with its run and its project; a decision of `resolve` comes with its event, a finished attempt with a request that counts as attempted |
| copy review, `workflows/copy_review.py` | ten rows and an evidence file per review, in one transaction | `run` | committed whole with its evidence or not at all; an approval is asked for only when no gate fails; a claim without authority is routed |
| HTTP API, `api.py`; command line, `cli.py` | none | parse, call one of the above, answer | - |
| supervised workflow, contracts, policy, redaction, canon, provider capabilities, events | none | pure functions, validation, reads, a facade | - |

How they interact. `ThreadingHTTPServer` runs every request in a thread of its
own. Each POST opens its own store connection, makes one call of a workflow and
closes it, so threads, and the processes of the command line, meet only in the
database and in the artifact directory. The demo and the copy review put their
whole call in one `store.transaction()`; the image workflow, the image import,
`decide_approval` and the seed do not: they commit after every statement. Hermes
and the image providers are remote: what they do is not rolled back with the
transaction that asked for it.

Where it is hard: two threads between a read and a write (approvals, attempts,
timelines); a call that fails, or a process that dies, between two commits
(submit, seed, decide); a file system that a rollback does not reach; a remote
run that outlives the transaction that started it, answers late or not at all;
capabilities and decisions that change between a check and its use; polling
loops, and reads of a response, that hold the writer lock. The hazards are listed one by one, at their
lines, in `PROJECT.json`.

## Modules

| module | models | composes |
|---|---|---|
| `OperationalStore` | connections, the writer lock, nested transactions, append and decide | |
| `Ledger` | what the store promises, without locks or rows | |
| `StoreRefinesLedger` | the refinement mapping from the first to the second | `OperationalStore`, `Ledger` |
| `ImageGeneration` | submit, decide, resolve, execute by concurrent threads | takes store calls as atomic, as `OperationalStore` shows |
| `Projection` | the dashboard's snapshot, statement by statement, beside those threads | `ImageGeneration` |
| `Seed` | the startup seed | store calls as atomic |
| `Documents` | the editable documents and the threads that edit them, in servers that seed, die and start again | `Seed` |
| `Artifacts` | artifact files, their rows, transactions and imports | store calls as atomic |
| `CopyReview` | the copy review's records, gates and approval request, as one of the writers of artifacts | `Artifacts` |
| `DemoRun` | the demo's transaction, Hermes, the dashboard's view of both | store calls as atomic |
| `ExecutionReadiness` | two capability checks and the readiness verdict | |
| `X_proofs` | theorems about `X`, for each module above but `Ledger`, `StoreRefinesLedger` and `Artifacts`; the refinement of `Ledger` is proved in `OperationalStore_proofs`, the theorems about `Artifacts` are in `CopyReview_proofs`, `Projection_proofs` builds on `ImageGeneration_proofs` and `Documents_proofs` on `Seed_proofs` | `X` |
| `MC...` | instances for TLC: sequences and sets for constants, and symmetry sets | the module of that name |

Conventions. A store call that commits is one action; what a thread holds in its
local variables between two of them is `arg` or `local`, and its position is
`pc`. A definition named `X_Something`, marked "Mutant", stands before `X`: it
is `X` with a plausible mistake, no specification uses it, and putting it in the
place of `X` violates the property that `PROJECT.json` pairs it with.

### OperationalStore

A connection is in the set `Conns`; `db` is what is committed and every reader
sees; `work[c]` is what the holder of SQLite's writer lock has written and not
committed. `_transaction_depth` is `depth[c]`, and decides, as in `_execute` and
`append_event`, whether a statement is on its own (`BEGIN IMMEDIATE`, insert,
commit) or part of a transaction. `append_event` and `resolve_approval` take two
steps, one to read and one to insert, `op[c]` holding what was read, so that
other connections may act in between. An exception caught inside a transaction leaves what
was written before it; one that leaves the outermost block rolls everything
back; a crash may come at any step. Event identifiers are drawn from a counter
and stand for record hashes, which cover them.

### ImageGeneration

A thread of `Workers` serves one call. Every commit of `submit` (project, task,
run, `run.created`, approval, event, request) is an action, as is every read and
write of `execute` and `decide_approval`; `DemoOrchestrator.resolve` is a
transaction and one action. `Abort` ends a call between any two of its steps.
The caller of `decide_approval` names the request and sends the hash it likes,
or none. A provider returns any outcome with up to `MaxOutputs` images, or
raises, or never does either: `ExecuteGenerate` is the one step of a call
(`Continue`) that is not in `ContinueLocal`.

### Seed

`Plan` is the sequence of records in the order of `seed.py`; `Lookup` is what
the code asks for before it inserts: the record itself, or, for the six draft
records, the last of them. A second server may start while the first is seeding, since the port is
bound afterwards. `torn` and `overlap` are history variables: they say under
which circumstances a start may fail.

### Documents

`doc[d]` says for each field of a document who set it last; a record of the seed
that is a document is created by the `Create` of `Seed`, others by `Add` (the
POSTs that insert one). An edit is the `SELECT` of `get_asset` or `get_context`
and the `UPDATE` of the whole document: `EditRead` takes a copy, `EditWrite`
writes it back with the fields that were sent, and another edit may come between
them. The threads of a server die with it (`Ends`). `log` is a history variable:
the committed updates and how many of them each had read behind.

### Artifacts

`write_bytes` in its steps: temporary file, bytes, `os.link` (which refuses an
existing name), unlink, row. `InTx` are the writers in a transaction, whose row
is only `pending`; `Importers` are `import_bytes` calls, which commit a task, a
run and an event before the file, and an asset and an event after it; the
others are `import_generated`. Every step may fail the way the code can fail
there, the removal of a file by `_safe_unlink` included. A digest is represented by the writer whose bytes it is of.

### CopyReview

A review is one of the writers of `InTx`: its actions are those of `Artifacts`
with its own records beside them, so `ReviewSpec` refines `Artifacts`' `Spec` by
construction of the steps, and the theorem says so. `packet[w]` is what the open
transaction has inserted, `review[w]` what was committed. The text is what the
patterns of the gates find in it, the canon which authorities its references
resolve to; `Gates`, `Failed` and `Recommendation` are the code's, with the
gates on provenance and pinning left out because input that fails them raises
before. Any step may roll back: refused input, an unresolved reference, a packet
the schema refuses, a failing statement, a crash.

### Projection

`snapshot` opens no transaction. `Reads` is the order of its statements,
approvals, runs, the timeline of one run after the other, projects and
generation requests; each is a step that takes what is committed at the moment,
and the calls of `ImageGeneration` go on between them. `NeedsRyan` and
`QueueEntry` are the join at the end. The dashboard asks again and again.

### DemoRun

Between two calls to Hermes the demo only writes rows nobody sees, so that is
one step (`LocalStep`). A `HermesStep` is a call from its request to the end of
its answer: of `Observe`, to the end of the stream of events. It need not come:
the timeout given to `urlopen` is one of each socket operation, and
`response.read()` (`adapters/hermes_api.py`, lines 29-33) returns when Hermes
closes the response. Hermes is `Remote`: it may wait for an approval, end in any way, with
or without text, whenever it likes; `get_run` may answer "degraded", any call
may find its capability withdrawn, and the answer to the submission may be lost
after Hermes has accepted it. `expired` is the deadline of the current polling
loop. A text of Hermes is one of `Texts`, by what it makes of the campaign's
source: JSON with a `source` of its own sets it (line 40 of `demo.py` spreads
the text over the default), to the fallback's if it likes. `HermesHealth` is the projection's verdict over the committed rows.

### ExecutionReadiness

The functions of `execution_readiness.py` as operators over the capabilities of
now, a request and its approval, in a system where a request is submitted (with
the check of `ImageGenerationWorkflow.submit`), decided and executed (`Refusals`
are the tests of `execute`), and where every capability may change after
submission. `EnvelopeProvider` and `CurrentProvider` are computed one by one, as
`build_execution_envelope` and `validate_approval_integrity` do. Fields that the evaluation reads and
nothing in the program writes have the value that `get` returns for them, which
is why an approval's `request_hash` and `model` are always `None`; `ready_to_execute`
is not modelled, since the cost is always unknown and blocks.

## What the runs check

| run | instance | what it shows |
|---|---|---|
| `store` | 2 connections, 2 runs, 1 approval, 2 scopes, nesting 2, 6 identifiers | chained timelines, appends that never collide, one decision per approval, append-only tables, transactions visible whole, refinement of `Ledger` |
| `image_approval` | 4 threads, 1 request, 1 output, aborts anywhere | a stored request has what it refers to; calls only after approval; no call without an event before it, no outcome without a call; the first decision stands, is told once, and lacks its event only inside `decide_approval` |
| `image_liveness` | 3 threads, 1 request, a dashboard that polls, no aborts, fair threads | decisions get their event, attempts get an outcome if the provider answers; a queue entry names its run, its status and its project; a decision of `resolve` is shown with its event and a finished attempt with a request that counts as attempted |
| `seed` | 2 servers, 2 projects, 3 kills, 2 editors, 2 fields, a seeded and an added document | nothing seeded twice, drafts whole, failure only after an interruption or an overlap, restarts change nothing, not even an edited document, an edit is lost only to one that overlaps it |
| `artifacts` | a demo and a copy review in their transactions, an import, an execution's import; 2 paths, 6 reviewed inputs | rows have files, files are immutable, imports are recorded after the fact, stray files only after a rollback, a crash or a failing file system, a review is whole or not there, claims never pass unseen |
| `demo_run` | 2 demos, aborts anywhere, any Hermes, fair threads and clock | runs whole; the end, text, submission and health that are claimed of a remote run are so; a run that goes on is reported; the lock is let go if every response ends |
| `readiness` | 2 providers, 1 model and 1 ratio beside an unlisted one, limits 0 and 1 | the two capability checks agree; where only the cost is missing, the envelope names the provider `execute` would call, and `execute` refuses at most a second attempt; where nothing has changed, only the order of the providers invalidates a granted approval |

Five runs show where the code does something other than what its documents or
comments say; each is expected to find a violation:

| run | property | the code |
|---|---|---|
| `image_replay` | `AttemptedOnce` | `execute` tests `attempt_status` on an early read and sets it after the provider call: two overlapping executions, or one before and one after a crash, both call the provider |
| `seed_recovery` | `StartupRecovers` | a server killed between two draft records never starts again: the lookup finds the draft missing and the first insert finds it there |
| `demo_mode` | `RowModeTruthful` | the run row says `structured` before the submission that may fail |
| `demo_degraded` | `DegradedReported` | the event that a stop failed is rolled back by the exception raised after it, and the dashboard calls Hermes not configured |
| `readiness_unchanged` | `UnchangedApprovalValid` | the approved provider is compared with the first eligible one: an approval for the second is invalid from the start |

What holds instead of each of them is proved, for every size: `NoNewCaller`
(no thread joins those that may call the provider once a request counts as
attempted, and each call takes one of them away), `FailsOnlyIfDisturbed`,
`CommittedReported` (where a demo is committed, its timeline and its result
correct the row, and a remote run shows in the dashboard's health) and
`InvalidOnlyIfPreceded` (where nothing has changed, only an eligible provider
before the request's own, or one without reference images, invalidates a granted
approval). `FailsOnlyIfDisturbed` and `InvalidOnlyIfPreceded` are checked by
runs, too; the other two are stated with their proofs, in the `_proofs` modules.

Things the models do, as the code does, without any text that promises
otherwise:

- a queue entry may show its generation request missing: the approval is
  committed before the request and read before it (`QueueJoined` leaves the
  request out);
- `decide_approval` records the decision although the request the caller names
  is not the one the approval is for: the hash it checks is of the named one;
- an answer of the dashboard may show an approval as pending beside the events
  of its decision and of the execution that followed: approvals are read first.
  `LaterReadsCatchUp` is about two pairs of records in the other direction;
- an execution that dies between its started event, which says `attempted: true`,
  and the call of the provider leaves an announced attempt that was never made.
  `AttemptEvidence` excludes a call without an announcement, not the reverse;
- where only the answer to the submission is lost, Hermes runs the request while
  the result says `manual/unstructured` and `unavailable`. The timeline has
  `hermes.run.failed` (`NoLiveRunUnreported`); `HermesClaimsTrue` is about what
  is claimed, not about what goes unsaid;
- JSON from Hermes may name its own source, so that a campaign made of it can
  look like the fallback, never the other way round;
- the readiness evaluation does not look at `attempt_status`: it foresees every
  refusal of `execute` but that one;
- an import that fails after its `run.created` leaves the run running for good,
  and one that fails before its asset leaves an artifact without one.

### Bounds

The proofs hold for any size, so the bounds below matter for what is only
model-checked, and for TLC to find what a mutant breaks.

Two connections and two runs are enough for every conflict in the store: a
conflict is between two connections over one run, and the second run shows that
chains are separate. Six identifiers allow a transaction of several events
beside a concurrent append. A request of `ImageGeneration` meets at most one
submit that creates it, so four threads leave three for two deciders and an
executor, two executors and a decider, and so on; requests do not interact
except through the id that a decider names, which may be wrong even when there
is one request (it may not be stored yet). Beside the dashboard three threads remain: one submits, one decides and one
executes. Three kills allow a seed to be interrupted, restarted,
interrupted again and run beside another; the run of `seed_recovery` needs one.
Two editors are enough, since an edit is lost between two, and two fields, since
a lost one is one the other did not send. Two paths allow writers to collide
and not to. The six inputs of a review are one for each way through the gates
and one that fails in two of them. In `ExecutionReadiness`, `MaxVariants = 1` has a limit below and at
the request, one model and one ratio beside an unlisted one have every outcome
of a membership test, and two providers are the least with a first and another.
The symmetry sets permute constants that the specifications treat alike
(connections, runs, scopes, threads, servers, editors, fields, paths); no run with a liveness
property uses one. `CHECK_DEADLOCK FALSE` is said where calls are finite and all
of them may have ended.

### Fairness

- `ImageGeneration`: weak fairness of the steps of a call that has begun and
  that wait for nothing outside the process (`ContinueLocal`): the operating
  system schedules its thread. `provider.generate` has no timeout
  (`images.py`, lines 32-36), so that it ends is no part of it:
  `AttemptFinishes` has it as its premise, `ProviderAnswers`, and without that
  an attempt may stay started for good. Nothing makes a call begin, and the run
  excludes aborts, since a dead call finishes nothing. Nothing is assumed of the
  dashboard, so it may stop anywhere in a snapshot.
- `DemoRun`: weak fairness of the steps of the thread that wait for nobody
  (`LocalStep`) and of the deadline, since `time.monotonic` advances. That every
  response ends is no part of it: `LockReleased` has it as its premise,
  `ResponsesEnd`. With the premise it still depends on the deadlines of both
  loops, since what the responses say is up to Hermes; without it TLC finds a
  demo that waits for the end of a response with the database locked, which is
  what the code does.
- `Seed`: weak fairness of a server's start and of its steps: an operator starts
  a server that is down, and its process is scheduled. With it `StartupRecovers`
  fails although the server is started over and over.

## What is proved

All theorems hold for every value of the constants that satisfies the named
assumptions, which TLC evaluates too.

**`OperationalStore_proofs`**, from `NoConnAssumption` and `BoundsAssumption`.
The invariants that readers care about are not inductive: they speak of the
committed tables, and a commit replaces these by a writer's copy. `IInv`
adds what is needed:

- `LockHolder`: whoever has a transaction or a statement open holds the lock;
- `WriterExtends`: the copy of the holder includes the committed tables, which
  do not change while it holds the lock;
- `AllSound`: not only `db` but every copy is a set of hash chains with at most
  one decision per approval, and has a last event in each nonempty run;
- `InsertFollowsTail`: between the read and the insert of an append, what was
  read is still the tail of the writer's copy.

`InductiveInvariant` proves `IInv` by one step per action, the actions falling
into those that begin to write, those that insert and those that release the
lock, each with a lemma. From it follow `TypeCorrect`, `ChainUnbroken`,
`AppendsNeverCollide`, `OneDecisionPerApproval` and the action property
`HistoryAppendOnly`. `TransactionsVisibleWhole` needs one more invariant,
`BatchInv`: the batch number of an open transaction is newer than every
committed one.

`StoreImplementsLedger` is the refinement of `Ledger`. The length of a timeline
in `Ledger` is a number of rows here, so `AllSound` includes that the numbers of
a run's rows have no gap (`Gapless`): the number of rows is the last of them, and
an insert after the tail adds one. What `Ledger` calls staged is what the
holder's copy adds to the committed tables. Every action is then one of four: it
stages, publishes what was staged, discards it, or leaves both as they are.

**`ImageGeneration_proofs`**, from the module's assumptions, of which
`RequestsAssumption` keeps the placeholder for "no request" apart. Five layers
of invariants, each of which uses the ones before:

- `IInv` for `OnlyApprovedCalls`: the check and the call are two steps apart, so
  it adds that a thread in the middle of a call knows its request
  (`KnowsRequest`) and its decision (`KnowsChoice`), and that between the check
  and the call the approval is still granted (`Authorized`). Most steps change
  only where one thread is, and go by `QuietStep`, `GoOn`, `Answers` or
  `ReliesOnApproval`, all from `LocalStep`; `DecisionStep` is the crux: a
  decision is made only where there was none, so it takes no approval away.
  `DecisionStands` follows by the same steps.
- `TellInv` for `DecisionTold`: of the threads between a decision and its event
  there is at most one for a request, it has made that decision and nothing has
  told it; an approval that is pending has no event. So no two threads can both
  tell, and whoever loses the race finds a decision at the second read.
- `WholeInv` for `RequestsWhole`: what a submit has stored when it is where it
  is, and that a request has one submit (`LoneSubmitters`), so that nobody else
  stores the rows it relies on.
- `CountInv` and `RecordInv` for `AttemptsEvident`: the calls made and the
  threads about to make one are together no more than the started events. It
  counts: the threads about to call are a finite set, and a step takes one out
  of it or puts one in, which needs the cardinality theorems. `RecordInv` says
  what an execution after its call may rely on.
- `TypedInv` for `TypesKept`: what a thread that imports has left is never
  zero, so that it does not count below it; that a stored status is one of a
  request, and never one of a decision, is from `RecordInv`.

`ReplaysEnd` is the action property that remains of "replays are rejected": its
set `Callers` are the threads that read the request before it counted as
attempted and have not called. A step of a thread changes that set by this
thread at most (`OneCaller`), a read no longer adds one (`NoneJoins`), and a call
removes one (`CallerLeaves`). That a request stays attempted (`StaysAttempted`)
needs `WholeInv`: the submit that would store it again does not exist.

**`Projection_proofs`**. A snapshot only reads, so `DashboardLooksOn` shows that
`ProjectionSpec` implements the specification of the calls, and every theorem
above holds beside it. `QueueInv` sets the order of the reads against the order
of the writes: an approval that has been read stays, its run, event and project
were there before it, so each later read finds them. `CauseInv` does the same
for decisions and finished attempts (`LaterReadsAreNewer`): the decision of
`resolve` and its event are in one transaction, and the finished event is read
before the request.

**`Seed_proofs`**, from the assumptions that the plan has a project and no two
equal records. `SeedInv` says that the stored draft records are a prefix of the
draft (`DraftPrefix`), that the timeline holds the events among them
(`EventsOfStored`), and that one server at a time is inside the draft, exactly
at the end of what is stored (`OneInDraft`): who has inserted the task, whose
key is fixed, is alone. From it follow `SeededOnce`, `VisibleDraftWhole` and the
action property `SeededStaysSeeded`. `FailsOnlyDisturbed` needs `CalmInv` on
top: with no interruption inside the draft and no two servers at once, what a
server is about to insert is missing, and a draft nobody is at is whole or not
begun. `SeedTypesKept` is the type invariant, by what a server at each place
may insert.

**`Documents_proofs`**, from the assumptions that contexts are documents,
that draft records are not, and that the placeholders differ.
`DocumentsImplementSeed`: every step of a server is a step of `Seed`, one of an
editor or of a POST a stutter, so `SeedInv` holds beside the editors and
`SeededBesideEditors` has the four properties of the seed there. `IInv` is that
invariant with what an editor knows. It adds to
`OnlyOverlapLoses` what an editor holds: its copy had lost nothing, when it was
read, that was committed by then (`BaseUpToDate`), and what is edited exists
(`EditedExists`) and is stored, so that no seed creates it again
(`SeededIsStored`). `LostOnlyToOverlap` and the action property
`StartsTouchNoDocument` follow, for any number of editors and servers, and
`DocTypesKept`.

**`CopyReview_proofs`**, from the assumptions of `Artifacts` and `CopyReview`.
`FilesInv`: what links is whole; from its link to its row, the file at a
writer's path is its own and nobody has a row of it, so that a row never comes
to name another's bytes and `Discard` never takes away a recorded file. From it
`RowsHaveFiles` and `FilesStay`. `ImportInv` says how far an import's records
have come at each of its places, and gives `ImportsEvident`; `StraysInv` that a
file has its row, committed or pending, or its writer is still at it or has an
excuse, and gives `StraysExcused`. `ReviewImplementsArtifacts` is the refinement
of `Artifacts` by the review: initial states map to initial states, every step
to a step or a stutter, with `FilesInv` for free. `ReviewInv` adds what each
stage of a review has inserted, that its evidence's row is in the transaction
before it can commit, and that what is committed is complete. `ReviewsWhole` and
`ClaimsStopped` follow, the second for any set of inputs.

**`DemoRun_proofs`**, from the module's assumptions. `DemoInv` relates the rows
in the open transaction, the local variables and the remote run: a terminal
status the demo holds is the one the remote run has, which changes no more; a
text is a completed run's; the run id is set exactly when the timeline says
`submitted`; who builds its result has seen the end of the remote run or has
written `hermes.run.failed` (`Accounted`). A commit makes true what was true of
the draft (`WholeRows`), and the remote run's own steps keep it (`StillTrue`).
From it `DemosWhole`, `LiveRunsReported` and `HermesClaimsHold`. Words may still
stand in any field for these, so `DemoTypesKept` has an invariant of its own,
`TypedInv`, whose crux is `StatusAt`: a demo that goes on to its local stages
holds a terminal status or "unavailable", never the "degraded" of a poll that
found nobody. `CommittedRunsReported` adds `ToldInv`: once a submission was
tried, the draft says that it was answered or that it failed, and no later step
takes that back.

**`ExecutionReadiness_proofs`**, from the assumptions of the module.
`TypeCorrect` is inductive as it stands. `UnblockedExecutes` relates the
evaluation to the tests of `execute`. Its invariant is that an approval is for
the provider of the stored request: submit writes both, decisions keep it, so
the comparison of the evaluation is never skipped except when no provider is
eligible. With the lemma that the first eligible provider is eligible, which
rests on the least element of a set of positions, an unblocked request has its
own provider as the first eligible one, hence in the envelope and available;
that it was attempted is all that `execute` can hold against it.

`TwoChecksAgree` follows from `TypeCorrect`: what `submit` accepts the evaluation
finds eligible, since nothing writes a selected model. `OnlyTheOrderInvalidates`
builds on it: until a capability changes, the provider is still the one that
`submit` accepted (`StillSupported`), hence eligible, so the first eligible one
is another only if it stands before.

Only model-checked: liveness (`DecisionRecorded`, `AttemptFinishes`,
`LockReleased`), which is beyond this prover. Every other property that a passing
run checks is proved. Of the five that do not hold, the runs give the
counterexamples, and nothing is proved but what holds instead.

## What is not modelled

- Power loss: processes crash, the machine does not; `fsync` has no effect.
- Waiting for SQLite's lock beyond the busy timeout is a call that fails before
  it has changed anything; where that matters (`Abort` of `DemoRun`,
  `CreateFails` of `Seed`, `EditFails` of `Documents`, `RecordFails` and
  `CreateAssetFails` of `Artifacts`) it is an outcome.
- Parsing, headers, static files and error formats of `api.py`; the output of
  `cli.py`.
- Contents: texts, image bytes, dimensions, redaction, schemas.
- `canon.py`: reads of pinned files; its failure is the other branch of a step.
- `supervised_workflow.py` and `provider_capabilities.py`: read-only summaries.
- `contracts.py`, `policy.py` and `redaction.py`: pure functions of one document;
  where a refusal matters it is the rollback or the abort of the caller.
- Of `projection.py`, the shaping of records and the counts. Two of its texts are
  outside the properties: the image health counts only the attempts `demo.py`
  records, so no execution of `image_generation.py` ever makes it
  `connected_verified` (lines 457-468), and the note that no provider call has
  occurred (lines 396-400) is of the time of the read.
- Sessions and `resolve_run_approval` of the Hermes adapter, which nothing calls.
- `raw_update` and `raw_delete` of the store, which only its append-only tests
  call.
- The readiness route of `api.py` (line 187) looks providers up by a key `name`
  that `describe` does not give, so with a registry it always answers an error;
  the model is of the evaluation, which its tests call directly.

## Plan

The order was: the store, on which everything rests; the approval-gated image
workflow, which is what the system is for; the seed and the documents it shares
with editors; the artifacts with the imports and the copy review; the demo;
readiness; the dashboard's reads; and for each the proof of what TLC had shown.
What is left:

1. The demo's and the copy review's runs and approvals in `Projection`, whose
   snapshot now reads those of the image workflow only.
2. The queries of the HTTP API that join documents (a project's assets and
   context, `api.py` lines 112-148), as readers beside `Documents`.

The runs are kept few: a new question about a component is a property of its run
rather than a run of its own, unless it needs an instance or a specification of
its own.
