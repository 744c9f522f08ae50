# A TLA+ model of the codex-grapher control plane

codex-grapher runs work for four project routes. A goal becomes a small graph of
task nodes; a sandboxed worker leases a node and produces evidence; an
independent evaluator judges the evidence; the root coordinator promotes what
passed to the accepted commit of the route's repository. The control plane
(`src/control_plane`) keeps all of this in one SQLite database and is written to
fail closed: each operation first checks that the database is consistent and
raises when it is not.

This directory models what decides what may happen and when: the goal graph with
its leases and evaluator claims, the transactions by which a publication changes
it, and the physical publication between those transactions; the copying of
evidence and of generations into immutable stores; the Buzz events that command
the graph; the older task controller with the script and the supervisor that run
Codex for it; and the containment of the tests an artifact is built from. Crashes
and failures fall between any two steps. TLC checks the models on small instances
and TLAPS proves every invariant, action property and refinement the passing runs
check for all instances; what must eventually happen is model-checked only.

## Inventory

| Component | State | Operations | Hard behaviour |
|---|---|---|---|
| Node-state contract, `graph_state.py` | none: the states, the transition table, the exceptional self-loops | looked up by the graph and by the audit of the event chain | recovery and publication make changes the table does not list |
| Goal graph, `project_graph.py` (1,841 lines) | tables `goals`, `nodes`, `dependencies`, `events`, `evaluation_ledger` | create and plan goals, lease, heartbeat, start, reconcile, record evidence, claim, evaluate, reject, recover, release dependencies | several processes on one database; rows read outside the transaction that uses them; expiry of leases and claims |
| Evidence artifacts and claims, `evidence_store.py` | tables `evidence_artifacts`, `evaluation_claims`, `evaluation_outcomes` | register, claim, heartbeat, resolve, expire, inside the graph's transactions | a claim that expires while its evaluation is verified |
| Planner, `graph_planner.py` | none | `plan_goal`: a goal and its chain of nodes in one transaction | replay with another baseline |
| Publication coordinator, `project_coordinator.py` | tables `integration_attempts`, `publication_journal`, `publication_heads` | integrate, reconcile, rollback, reconcile_rollback | several transactions and Git changes that a crash can cut anywhere; the whole project is frozen between the first and the last |
| Project integrator, `project_integrator.py` | the accepted ref, rollback refs, the binding file | promote, reconcile_promotion, rollback, reconcile_rollback | the same, and compare-and-swap on each |
| Publication store, `publication_store.py` | immutable worktree generations | ensure, verify, pin_binding | two builders of one generation |
| Evidence ingress, `evidence_ingress.py` | the immutable evidence store | ingest, resolve_manifest | the source changes while it is copied; two ingests of one attempt |
| Graph service, `graph_service.py`, `graph_client.py` | a socket, a connection to the graph | one handler per action, by user; `reconcile_startup` | handlers that read, do slow file work, then write; the start-up order |
| Buzz router, `buzz_router.py` | tables `buzz_threads`, `buzz_audit` | goal, status, evidence, cancel, reject, approve, resume | a thread re-bound between read and write |
| Buzz adapter, `buzz_native_adapter.py` | the replay table | handle_event | the same event delivered twice; a response lost after its effect |
| Schema and bootstrap, `graph_schema.py`, `graph_bootstrap.py` | the DDL and its triggers | inspect, migrate (offline) | interrupted migration |
| Task controller, `task_controller.py`, `controller_service.py` | tables `tasks`, `events` of one profile | submit, transition, record_usage, cancel, recover_orphaned_executions | deadline, budget and iteration limits that replace the requested target |
| Process supervisor, `process_supervisor.py`, `codex_usage.py` | a child process group, its event log | supervise, terminate_group | exit racing timeout, cancellation and budget |
| Project router, `project_router.py` | systemd units | execute, status | a stale answer from a unit |
| Artifact builder, `artifact_builder.py` | a build directory | build a worker generation | descendants of a test run that survive it |
| Authorization and policy | single-use nonces | issue, authorize, redact, validate | a capability used twice |
| Scripts, deployment, examples | none of their own | install, back up, verify | none a model reaches |

How they interact. Workers, the evaluator and root call the graph service over a
socket; the peer's user decides which actions it may ask for. The operator's
commands arrive as Buzz events, through the adapter and the router, in one
transaction on the same database. Root's `integrate` and `rollback` run the
coordinator, which reads and writes the graph's tables and, through the
integrator and the publication store, Git refs, directories and the binding
file. At start-up the service completes what was prepared, then recovers leases
and claims. The older per-profile task controller and its supervisor run beside
all that and meet it only through the evidence a worker leaves.

What makes each part correct:

- **Goal graph.** No two workers write overlapping paths of one repository; a
  dependent waits for integration, not for any end; a change of a row is one
  recorded edge of the table and one version, because every two-phase operation
  relies on that; evidence under judgement is of the current attempt and on the
  current base; expired leases and claims are given back, live ones are not.
- **Evidence and claims.** One active claim, of the evaluating node, at its
  version; the evaluator ledger is one unforked chain over all routes; a PASS is
  recorded under a live claim only.
- **Publication.** All unfinished nodes of a project share the published commit;
  nothing moves under a prepared publication, so it can be completed; what
  reaches the baseline was judged on the commit it is put on; only the last
  promotion is undone, once. Physical steps: from each crash point start-up
  either completes the publication or reports that nothing happened.
- **Ingress and store.** A name holds nothing or, for ever, the whole of what it
  stands for; what is registered can be resolved; nothing left behind by a crash
  stops a later call.
- **Buzz.** An event takes effect once, whole, with one answer for good; a replay
  opens no second human gate.
- **Controller and supervisor.** A key is executed once; an end is final; a script
  asks for evidence only of a run that ended by itself and within its budget; Codex
  ends while it is supervised, and of a routed run no process stays.
- **Artifact builder.** Nothing of a test outlives the answer; the status passed on
  is the one the command ended with; what was checked stays as it was.

`PROJECT.json` lists each hazard at its line with the properties that watch it.

## Modules

| Module | What it is |
|---|---|
| `GraphState` | `graph_state.py`: states, transitions, terminal states, exceptional edges |
| `ProjectGraph` | the goal graph: state, one action per transaction, properties, fairness |
| `Coordinator` | the physical publication of one project: generations, refs, binding, journal, head |
| `AcceptedLine` | what the control plane promises of a project's accepted line of commits; both of the above implement it |
| `ImmutableStore` | what a content-addressed store promises |
| `EvidenceIngress`, `PublicationStore` | the copying of evidence, and of generations; each implements `ImmutableStore` |
| `ArtifactFlow` | both stores: a generation is built of a commit that registered evidence names; one process dies with both |
| `BuzzLedger` | what the Buzz ingress promises of its events |
| `BuzzIngress` | the adapter with the router, one step per effect inside and outside the transaction; implements `BuzzLedger` |
| `TaskController` | the task state machine of one profile and the start of its service |
| `WorkerRun` | the worker script, the supervisor and the process group of Codex, with the controller they ask |
| `TestContainment` | one required test: builder, subreaper supervisor, the processes of the test |
| `MC...` | the small instances of the runs; `TestContainment` needs none |
| `ArtifactFlowProofs` | proofs that both stores are immutable and complete |
| `WorkerRunProofs` | the invariant of script, supervisor and controller, and the proofs of its type invariant and three properties |
| `ProjectGraphTypes` | proof that every table keeps its shape |
| `ProjectGraphSafety` | the inductive invariant and the proofs of five safety properties |
| `ProjectGraphEvaluation` | the invariant of claims, ledger and line; the action properties; the proof that the graph implements `AcceptedLine` |
| `CoordinatorProofs` | the invariant of database, refs, binding and calls; the safety properties; the proof that the coordinator implements `AcceptedLine` |
| `BuzzIngressProofs` | proofs that the ingress implements `BuzzLedger` and keeps its answers |
| `TestContainmentProofs` | the invariant of supervisor and process families, and the proofs of four properties |

### How `ProjectGraph` corresponds to the code

*State.* `node`, `artifacts`, `claims` and `ledger` are the tables. `head` is
`publication_heads`; `publication` is a project's incomplete promotion or
rollback with the graph snapshot it recorded when PREPARED. `writer` is SQLite's
write lock while a heartbeat holds it. `ingesting`, `verifying`, `overdue` and
`stale` are what calls in progress have read and still hold.

*Atomicity.* An SQLite `BEGIN IMMEDIATE` transaction is one action, taken
together with the integrity check in front of it. Where the code reads in one
transaction and writes in a later one, the model has two actions and everybody
else runs in between:

| Operation | Read | Write | In between |
|---|---|---|---|
| ingest evidence | `BeginIngest` | `CommitIngest` | the generation is copied |
| record evaluation | `VerifyEvaluation` | `CommitEvaluation` | the signature is verified |
| recover claims | `ScanClaims` | `RecoverClaims` | heartbeats |
| recover leases | `ScanLeases` | `RecoverLease`, one per row | anything |
| promotion, rollback | `Prepare...` | `Complete...` | the physical publication |

The two heartbeats are one transaction, but read the clock inside it and write
an expiry counted from that reading; `...Begin` and `...Commit` let time pass,
and readers run, between the two, and no writer.

*Callers.* `graph_service.py` serves requests from a pool of threads but takes one
lock around each dispatch (lines 392-412), so the handlers of one service do not
interleave. `project_graph.py` does not rely on that: it takes `BEGIN IMMEDIATE`
and compares versions, and its tests open several connections on one database
(`tests/test_project_graph.py:970`). The model takes this weaker assumption,
every call on a connection of its own, so that the properties it shows do not
depend on the service's lock; a counterexample that needs two connections says
so. The service also refuses most requests of a project, and `recover` for every
project, while a publication is pending; the model has only the graph's own
refusals, which a start-up meets as well.

*Crash.* A process that dies abandons every call it had in progress and SQLite
rolls an open transaction back: `AbandonIngest`, `AbandonEvaluation`,
`AbandonClaimRecovery`, `AbandonLeaseRecovery` and `HeartbeatAbort`, at any
moment. They also stand for the calls that fail. A prepared publication is
durable, and the model keeps it.

*Data.* A commit is the sequence of nodes promoted onto the first baseline, so
the candidate of node `n` on base `b` is `Append(b, n)`: this is what
`_validate_candidate` demands, one commit on the base it was given. The code
draws a fresh lease id per lease; the model names it by the attempt, which
counts leases. A claim id is a hash of artifact, node and version; the model
keeps the three. `artifact` in a row is the attempt that made the active
artifact. The claim pointer of an artifact is the active claim of that artifact.
The hash a ledger entry signs is the node of the entry before it. Before the
first publication the first active goal sets the project's baseline
(`_create_goal_locked` compares later goals with it); the model calls that
baseline `<<>>`.

*Time.* A lease or claim keeps the time it has left; `Tick` takes it down.

*Requests.* Most requests name the version they expect, and are refused at any
other; the model has the request that names the right one. A replay that only
returns what is recorded changes nothing and is a stutter. `INTEGRATING` exists
only inside the completion transaction. `release_dependencies` called on its own
finds nothing to do after `CompletePromotion` and has no action.
`recover_leases` first runs `recover_evaluator_claims`: those are the actions
`ScanClaims` and `RecoverClaims`, which may also come alone.

*Failing closed.* `StaticIntegrity` is the part of `assert_static_integrity`
that the modelled state can violate. Once it is false no operation that checks
it is enabled any more; time and the ends of calls go on.

### How `Coordinator` corresponds to the code

*State.* `attempt` is the row of `integration_attempts` a node has, `journal`
`publication_journal`, `head` `publication_heads` (version 0 is no row).
`accepted`, `rollbackRef` and `binding` are the Git refs and the binding file of
the project, `generation` the commits that have a complete immutable worktree.
`writer` holds the lock `_publication_writer_lock` takes: one SQLite `BEGIN
IMMEDIATE` that stays open while Git and the file system are changed, and that
excludes every other writer of the database. `call` says where a call is and,
where it matters, what it read earlier.

*Steps.* Each durable effect is an action: a generation, the first accepted ref,
the rollback ref, the accepted ref, the binding, the attempt's status, the
PUBLISHED entry, and the two transactions that complete. The checks in front of
the first effect inside the lock, and taking the lock, are one action with that
effect (`BeginPromotion`, `RecoverPromotion`, `BeginRollback`): the lock keeps
other coordinators out, and before the first effect there is nothing to find.
An effect that is already there is done again and changes nothing.

*Who calls.* `integrate` is `Admit` and `PrepareAttempt` for a new attempt, and
`Reconcile` with `"retrying"`, `Retry` and the recovery for a repeated one;
`reconcile` at start-up is `Reconcile` with `"idle"`, which stops if the
promotion turns out to have had no effect. `rollback` and `reconcile_rollback`
are `PrepareRollback` and `ReconcileRollback` and go on alike.
`EnsureBound` is the last step of `reconcile_startup` before leases.

*Failure.* `Abort` cuts a call off anywhere. It is the death of the process and
every exception alike: SQLite drops the open transaction and its lock, and what
was done outside the database stays. A call whose check fails can only abort.

*Integrity.* `Integrity` is `assert_publication_integrity`: `PhysicalIntegrity` is
what it asks of refs and binding while a promotion (`PromotionFits`), a rollback
(`RollbackFits`) or nothing (`HeadFits`) is pending, and `JournalIntegrity` what it
asks of the journal. The rows of a rollback, and the completed rows, are sets of
sequence numbers, `Rollback(n)` and `Completed`. The model evaluates the check in
one step; the code reads refs and binding one after the other, outside the
writer lock in some calls, so it may also raise over a publication in progress.
That is one more `Abort`.

*Data.* A commit is the sequence of changes on the first baseline, and
`ChangeOf` gives the change of a node: nodes with the same change on the same
base have the same commit, which is possible in Git and is why the code compares
attempts and not commits alone. An attempt's id is its node, and a rollback's id
the node of the attempt it undoes; `affected_graph_json` is the head with the
rows on its commit. The evidence bytes are valid or the call does nothing;
importing the bundle adds only unreferenced objects and is part of
`BeginPromotion`. `ensure` is atomic here: its rename makes the generation
appear whole. `Judge` stands for all of `ProjectGraph` before PASSED, and
refuses while a publication is pending as it does there.

### The abstract specification

`AcceptedLine` knows no leases, claims, versions or retries. It says: a node is
judged good at most once, and against the line as it stands; only judged work
grows the line, by one commit, on the very line it was judged against, and only
once; only the last promotion can be taken back, and that once. `Line` in
`ProjectGraph` gives the refinement mapping (`line` is the head's commit,
`judged` the artifacts with a ledger entry, `undo` the promotion the head still
names), and run `GraphRoutes` checks `LineSpec`. `Line` in `Coordinator` maps the
same specification to what a worker sees, the binding: a promotion is on the line
as soon as the binding names it, long before the database says so, and a rollback
off it likewise. Run `CoordinatorCrash` checks `BindingLine`.

### How the stores correspond to the code

*Ingress.* `EvidenceIngress.ingest` reads a manifest once (`Read`), validates it
against some of the files it binds (`Look`: the path check and the outputs, which
are opened again later), and copies each file into a directory of its own while
it hashes what it copies (`Stage`, `Copy`), the manifest last (`Seal`). The
directory is renamed without replacing anything (`Place`); a name that is taken
is accepted after its inventory was checked (`Accept` before the copy, `LoseRace`
after it). The handler then registers the artifact (`Record`), which the graph
does for one artifact per attempt. `Write` and `Claim` are the worker, who owns
the source and may change it between any two reads. `Fail` is an error, after
which the staging directory is removed; `IngressCrash` is the death of the
process, after which it stays (`leftover`).

*Generations.* `PublicationStore.ensure` returns a generation that is there, after
verifying it, and otherwise builds a clone and its permissions beside the name
(`MakeRoom`, `Build` once per part) and renames it (`PlaceGeneration`); the loser
of that race accepts the winner's (`Yield`). Contents are what `verify` tells
apart: how many of the parts are there.

*Data.* A file's content is a model value, and a manifest is the contents it
binds, which is what its hash stands for. `ImmutableStore` is what both promise:
a name holds nothing or, for ever, its one value. `GenerationImmutable` is also
why `Coordinator` may take `ensure` as one step.

### How `BuzzIngress` corresponds to the code

`handle_event` verifies signature and age outside any lock (`Verify`), takes the
write lock behind the integrity gate (`Begin`), answers an event it knows from the
table (`Replay`), and otherwise dispatches (`Route`), stores the answer
(`Persist`) and commits (`Commit`); the caller may or may not get the answer
(`Reply`, `Crash`). `Route` is all of `handle_locked`: the identity map, the thread
binding, the address check, the command with what it does to the graph, and the
audit row. A command that is refused is answered and audited; one that raises, or
a gate that closes on the way, rolls everything back and leaves the event
unanswered (`FailClosed`, and `Fail` for any other error). `work` is the
uncommitted database of the open transaction.

`Raises` collects what raises. A pending publication freezes every change
(`Frozen`), also a new goal; that ends with the publication. A goal command may also
raise for good (`Unplannable`): `_create_goal_locked` wants the project's baseline
named (`project_graph.py:146-157`), `plan_goal` refuses an id or a key that belongs
to another goal, or a goal whose baseline has moved since (`graph_planner.py:51-85`),
and `buzz_threads` has one thread per sender and goal. Hence `goal` and `baseline` in
the database: a goal keeps its objective and the commit it named, which make its key
(`GoalRow`); the accepted commit that head and goals share is the `baseline`. A goal
that is there already and matches is only compared, in a frozen project too.

Beside the adapters the graph goes on along the table of `GraphState` (`Elsewhere`),
the graph service plans goals (`CreateGoal`), and publications freeze the project
and move its baseline (`BeginPublication`, `EndPublication`). There is one project. An unmapped channel and an invalid
payload are in `Handled`; no event of the run has one, as its answer is that of
any other denied event, without the audit row.

### How `TaskController` and `WorkerRun` correspond to the code

The controller service answers one request at a time, so a request is one step.
`Transitioned` is `transition` with its overrides: an exhausted budget, then the
deadline, then the limit on attempts replace the requested target. At its start
the service ends leased and running tasks (`Recover`) before it binds its socket
(`Serve`).

`Submit`, `Admit`, `Start` and `Finish` are `run-codex-worker.sh`; `pc` is where it
is, and `seen` its `task_version`. The script runs under `set -e`: a refusal ends it
(`Refused`). `Poll`, `Leave`, `StopGroup`, `Record` and their raising variants are
`supervise`; `Status` is its exit code and `Ends` what the script makes of it. The
group is Codex and what it started.

`Routed` are the runs that `project_router.py` starts, each in a systemd unit of its
own: `UnitEnds` is systemd, which kills what is left of a unit whose script has
ended. Any other run is started directly, with the contract on its standard input
(`run-codex-worker.sh:29-32`, as `prompts/hermes/business.md:9` has the profile do).
Nothing ends the group that its supervisor raises over (`process_supervisor.py:61`)
or does not look at, short of a reboot; `GroupsEnd` says so by what it leaves out. The
service may die after it has committed a
request and before it answers (`Answer`, `Record`), the script at any moment
(`Die`), everything at once (`Reboot`). Other callers are `Cancel`, `Request` with
the version just read, by the builder identity by hand and by the evaluator, and
`ChargeByHand`: the builder identity may record usage of any task in any state,
with no version at all (`record_usage`). So what a row says after evidence was asked
for is anybody's; `EvidenceEarned` is about the step that asks.

Variables of a script that has ended, and the time kept by a supervisor that no
longer polls, are reset: nothing reads them. For the same reason a deadline passes
only for a contract some run was given, as no other has a row.

### How `TestContainment` corresponds to the code

The supervisor of `artifact_builder.py` makes itself the subreaper (`Boot`), starts
the command (`Spawn`) and polls it (`Poll`). When the command has ended it lists its
children, waits for what ended and lists again (`Look`, `Drain`, `Weigh`); anything
left is a leak. Leaks, and everything after a SIGTERM, are swept away: list and
SIGSTOP, list and SIGKILL, wait for the command, wait for the rest, until `waitpid`
says there is nothing (`Sweep`, `Resweep`, `Signal`, `Wait`, `Reap`). `Report`
leaves the status. Processes fork, end, write to the workspace, wait for their
children and continue what was stopped; those whose parent has ended go to the
supervisor, or to init once it is gone. The builder reads the output (`Stop` at the
limits), waits for a while (`Stopped`, `GiveUp`), makes a result of the status
(`Verdict`), and compares the workspace with the candidate (`Check`). Faults are a
list of children that misses one, a signal that cannot be sent, and the death of
the supervisor.

Left out: the death of the builder, the start token of somebody else, the pipe
(line 554, see the hazards), and the window in which output is at its end but the
supervisor not yet waited for.

## Runs

| Run | Instance | What it shows |
|---|---|---|
| `GraphPeers` | 2 goals in one repository, nested write sets, 2 attempts, all dispositions, forced and ordinary recovery (684,842 states) | types; `WriteSetsExclusive`, `EvidenceBound`, `PreparedGraphStands`, `BaselineShared`; a late ingest never lands without its lease (`IngestUnderLiveLease`) |
| `GraphRoutes` | a chain of 2 nodes on one route and a node on another, two calls of a kind in progress at once (232,857) | the shared evaluator ledger and the claims stay closed (`EvaluationClosed`); a PASS has a live claim (`PassUnderLiveClaim`); `DependenciesIntegrated`, `ChangesRecorded`, and the refinement `LineSpec` |
| `GraphLiveness` | 2 goals in one repository, expiry 0 to 2, under `FairSpec` (76,729) | a claim that was renewed is never expired, though a scan saw it expired (`LiveClaimKept`); `ExpiredHoldEnds`, `PublicationEnds` |
| `CoordinatorCrash` | 3 nodes, two of them with the same change, 2 callers, a crash anywhere, any number of times (110,062) | `NeverLocksOut`: the refs and the binding are always in a state the next check accepts; `HistoryClosed`, `RollbackOwnsHead`, `GenerationFirst`, and the refinement `BindingLine` |
| `CoordinatorResume` | 2 nodes, 1 caller, under `CallSpec` (364) | start-up, repeated, completes each rollback, and each promotion whose accepted ref has moved (`StartupCompletes`); a repeated request completes whatever was prepared (`RetriesComplete`) |
| `WorkerRun` | a routed run of the script and a direct one, for one contract or for two of one key; 1 attempt, a budget of 1 (717,434) | a key is executed once (`ExecutesOnce`); evidence is earned (`EvidenceEarned`); an end is final (`EndsForGood`); `GroupsEnd` |
| `ArtifactFlow` | 2 ingests and 2 publishers, 2 files, 2 manifests of one commit, 2 rewrites, 1 fault (315,240) | the refinements `EvidenceImmutable` and `GenerationImmutable`; what is registered resolves (`RecordedResolves`); nothing left behind stops a later call (`Settles`, `Republished`) |
| `BuzzIngress` | 2 adapters; a goal, the same goal from a second thread and a resume, delivered any number of times; a second goal created by the service; 2 baselines; 1 fault (76,231) | the refinement `ExactlyOnce`; `SameAnswer`, `GateNeedsEvent`, `Answered` |
| `TestContainment` | a command and 2 descendants, 2 faults (299,934) | `Contained`, `Genuine`, `CleanAsChecked`, `TargetsAreOwn`, and `Cleared` |
| `GraphResume` | as `GraphPeers`, ordinary recovery | finding 1 |
| `GraphPassedPeers`, `GraphFailedPeer` | 2 nodes with disjoint write sets, under `PipelineSpec` (10,188 and 4,086) | findings 2 and 3 |

A type invariant is stated in every module with variables; the runs of the graph and the
coordinator check it, and it is proved for these two, `WorkerRun` and
`TestContainment` (there as a part of the invariant). `BuzzIngress` and the stores
state and prove the shape of their tables in their proof modules.

*Bounds of the graph.* `MaxAttempt` bounds the leases of a node: two are the fewest
for which something of an earlier attempt can meet a later one, and `GraphPeers`
has them. `MaxVersion` stops claims from being taken and expired for ever; the
values let a node be claimed, lose the claim and be claimed again, and be rebound
by promotions on the way. With `MaxTTL` 1 a hold is live or expired; 2, in
`GraphLiveness`, adds a hold that was renewed after aging, which only the
heartbeats tell apart. `MaxInFlight` 2 matters where two calls can meet in one
table, the ledger, and `GraphRoutes` has it. Two peers are enough for every
property about pairs, and a dependent needs one dependency.

*Bounds of the others.* The coordinator needs none: a node is promoted once and
rolled back once. Two callers are the fewest for one call to meet what another
left; three nodes, two alike, give a promotion, its rollback, the same commit
again and one on top. In `WorkerRun` two runs are the fewest that can meet in one
row, and usage of 1 is a budget exhausted; Codex ends with 0 or 1, and by hand the
builder records usage and asks for QUEUED and LEASED, which make attempts count (one
is enough: a task taken back to QUEUED and leased again is out of them) and bring
a task back under a script that still runs, and for EVIDENCE_PENDING, which
takes it away from one. The two contracts are alike, so `MCSpec` gives the first run
the first of them. In `ArtifactFlow` the worker
writes twice, which changes a file and puts it back, or changes file and manifest;
in `BuzzIngress` the clock, with `MaxAge` 0, makes the goal events stale and the
resume fresh in its one step; a publication counts as the fault, and one is enough to
overtake the commit a goal names. Both have one fault,
after which every call goes through whatever that fault left. In `TestContainment`
two descendants are the fewest of which one can continue the other; two faults let
a list miss a child and a signal fail in the same sweep.

Deadlock is checked in the runs of the graph, the coordinator and the worker.
In `ProjectGraph` time always passes, in `Coordinator` start-up is always possible
and in `WorkerRun` a reboot, so it says little there; what could come to a stop is
the subject of the liveness properties and of `NeverLocksOut`. `ArtifactFlow`,
`BuzzIngress` and `TestContainment` really may stop, when everything asked for is
done and the bounds are used up, and have `CHECK_DEADLOCK FALSE`.

*Fairness of the graph.* `RecoveryFairness` assumes that time passes, that a
transaction ends, and that start-up and the root operator repeat recovery and the
completion of what was prepared until they succeed: `reconcile_startup` does both
at each start and `reconcile` and `recover_leases` are the operator's retry. It is
strong where another writer can make an attempt fail in between (recovery of
claims and of each lease, completion), weak elsewhere. Its first conjunct, `Prompt`,
says that from some time on a transaction is short beside a lease: a lease lasts
ten seconds at least, a transaction milliseconds, and a call waits for the lock.
Without it a peer whose heartbeat is always inside its transaction when a
recovery wants to write, or runs out there, defeats every recovery, and the
recovery of claims, which is all or none, can be defeated by any one of them. Nothing
is assumed of workers, of the evaluator or of the person at the other end of Buzz.
`GraphLiveness` leaves NEEDS_HUMAN out: finding 1 stops the whole graph, and with it
recovery. It leaves RETRY out too, as with one attempt it differs from FAILED_GATE
only in leaving the node ready.

*Fairness of the coordinator.* `CallFairness` assumes that a call goes on, that one
which cannot raises, and that from some time on calls that could go on are no longer
cut off: a process that is killed at every start completes nothing.
`StartupCompletes` holds if start-up is repeated, `RetriesComplete` if the request
is. The run has one caller: start-up runs before the service listens
(`graph_service.py:343-385`), and two recoveries that take turns at preparing and
aborting may otherwise refuse each other for ever. Start-up alone does not complete
an attempt that was cut off before its accepted ref moved; its project stays frozen
until root repeats the request, which is the second property's subject.
`PipelineFairness`, for findings 2 and 3 only, adds that every stage that can
run does, so that the counterexamples are the code's refusals and not idleness.

*Fairness of the others.* `ArtifactFlow`: a caller that was not answered asks again,
as the service accepts the replay and the coordinator keeps what it prepared.
`BuzzIngress`: a call goes on; SQLite's busy handler gets the lock in the end, hence
strong fairness of `Begin`; and a sender without an answer sends again. `Answered`
promises nothing for a goal command that from some time on is `Unplannable` whenever
it is tried: a promotion overtook the commit it names, it collides with a goal there
is, or its sender has another thread for that goal. The sender is never told; it
sees no answer until the event is stale. `WorkerRun`: script and supervisor are not
stalled for ever, `timeout_seconds` pass, and systemd ends a unit whose script has
ended, if the run has one. `TestContainment`: the supervisor goes on. Nothing is
assumed of when the test, the builder or whoever sends signals moves; but the test has
finitely many processes, and does not signal the supervisor itself, whose death is
a fault of its own (`Killed`).

## Findings

1. **`NEEDS_HUMAN` is not resumable in effect** (`GraphResume`, `PointerClosed`).
   `reject_evidence` clears the active artifact for RETRY only
   (`project_graph.py:766`). A paused node that is resumed and leased again has
   attempt 2 and an artifact of attempt 1, and the integrity check in front of
   every operation of every project refuses that (`project_graph.py:1125-1137`).
   `docs/hermes-operations.md:82` calls the state resumable.
2. **Two passed nodes block each other** (`GraphPassedPeers`). Promotion demands
   that no other node on the base is PASSED, and PASSED has no other way out that
   a caller is offered. `tests/test_project_coordinator.py:1457` shows the refusal
   to promote beside unfinished peers to be intended; `PROJECT.md:95-99` promises
   concurrent non-conflicting nodes whose passed changes are promoted.
3. **A failed node blocks later promotions** (`GraphFailedPeer`). FAILED_GATE is
   terminal and keeps its artifact, and promotion refuses a row that is not
   integrated and has one (`project_coordinator.py:1584-1587`).

Not a finding, as nothing in the repository promises otherwise: `recover_leases` may
take a live lease. Its scan and its transactions are apart, and a heartbeat renews
a lease without a new version. The heartbeat must have read the clock before the
lease ran out and commit after the scan, on another connection than the scan's; the
service's lock keeps its own handlers out of that window.

## What is proved

`tlapm` checks these for every graph, every set of routes, files, callers,
adapters, contracts, runs and processes, and every bound, from the named
assumptions on the constants alone, which the runs evaluate: `GraphAssumption` and
`BoundAssumption`, `PublicationAssumption` (of `Coordinator` and of
`PublicationStore`), `FlowAssumption`, `IngressAssumption`, `BuzzAssumption` and
`BuzzNoneAssumption`, `ContainmentAssumption`, `ControllerAssumption`,
`WorkerAssumption` and `NoRowAssumption`. They say that the parameters have
their types and that a placeholder such as `None` is not one of the values. The
one with content is that a node's dependencies belong to its own goal.

| Theorem | Property |
|---|---|
| `TypeCorrect` (`ProjectGraphTypes`) | `TypeOK` |
| `SharedBaseline` (`ProjectGraphSafety`) | `BaselineShared` |
| `PreparedStands` | `PreparedGraphStands` |
| `ExclusiveWriteSets` | `WriteSetsExclusive` |
| `DependenciesFirst` | `DependenciesIntegrated` |
| `BoundEvidence` | `EvidenceBound` |
| `EvaluationAlwaysClosed` (`ProjectGraphEvaluation`) | `EvaluationClosed` |
| `PassAlwaysUnderLiveClaim` | `PassUnderLiveClaim` |
| `IngestAlwaysUnderLiveLease` | `IngestUnderLiveLease` |
| `ChangesAlwaysRecorded` | `ChangesRecorded` |
| `LiveClaimAlwaysKept` | `LiveClaimKept` |
| `GraphImplementsLine` | the refinement `LineSpec` of `AcceptedLine` |
| `AlwaysTyped` (`CoordinatorProofs`) | `TypeOK` of `Coordinator` |
| `NeverLockedOut` | `NeverLocksOut` |
| `HistoryAlwaysClosed` | `HistoryClosed` |
| `RollbackAlwaysOwnsHead` | `RollbackOwnsHead` |
| `GenerationAlwaysFirst` | `GenerationFirst` |
| `PreparedAlwaysReady` | `PreparedStaysReady`, which no run checks: what a publication compares with its PREPARED record is still so when it is completed |
| `BindingFollowsLine` | the refinement `BindingLine` of `AcceptedLine` |
| `EvidenceStays`, `GenerationsStay` (`ArtifactFlowProofs`) | the refinements `EvidenceImmutable`, `GenerationImmutable` |
| `Resolves` | `RecordedResolves` |
| `WorkerTypes` (`WorkerRunProofs`) | `TypeOK` of `WorkerRun` |
| `KeyExecutesOnce` | `ExecutesOnce` |
| `EndIsFinal` | `EndsForGood` |
| `EvidenceIsEarned` | `EvidenceEarned` |
| `IngressImplementsLedger` (`BuzzIngressProofs`) | the refinement `ExactlyOnce` of `BuzzLedger` |
| `AlwaysTheSameAnswer` | `SameAnswer` |
| `GateAlwaysNeedsEvent` | `GateNeedsEvent` |
| `TargetsAreAlwaysOwn` (`TestContainmentProofs`) | `TargetsAreOwn` |
| `AlwaysContained` | `Contained` |
| `AlwaysGenuine` | `Genuine` |
| `AlwaysCleanAsChecked` | `CleanAsChecked` |

The argument for the graph. None of the five safety properties is inductive.
`WriteSetsExclusive` needs to know that a row with a lease is LEASED or RUNNING, or
the conflict query, which
looks at states, would miss one (`LeaseHeld`). `PreparedGraphStands` needs that a
heartbeat holding the write lock is of a node of a project that is not frozen,
because its commit does not look again (`WriterOwns`), that a frozen project has
no lease which `Tick` could age (`FrozenQuiet`), and the baseline
(`BaselineShared`) that tells which rows a publication touches. `StaleHeld` says
what the rows that lease recovery selected still have in common with the table.
`Coherent` is the conjunction; `AlwaysCoherent` proves it.

The steps are not treated action by action in every proof. Lemma `RowSteps` does
that once: each step leaves a row in every respect alone but its expiry, plans
it, moves it by a worker's, evaluator's or operator's action while its project
is not frozen, or publishes it. `PublicationSteps`, `WriterSteps` and
`StaleSteps` say the same of the other variables. The conjuncts are then
preserved by these few kinds of step.

The argument for claims, ledger and line. `EvaluationClosed` is what the code
checks before each operation, but some transactions write without the check; it is
inductive only with what makes a claim unmistakable. A node and a version name one
claim, taken at a version the node has left behind (`ClaimsDistinct`: versions only
grow), so what a scan or a verification read names the same claim when it is used.
A lease, and the artifact under judgement, are of the current attempt, and an
attempt has one artifact (`AttemptsMatch`). `Evaluated` is the conjunction, and
lemma `RowChanges` gives for each step the edge of the table it took. Of the action
properties, `ChangesRecorded` and `LiveClaimKept` follow from these; the other two
from the guards of the committing transactions, with the versions. The refinement
needs also that the head's commit is made of promoted nodes and that a prepared
rollback is of the promotion the head is at (`Lined`): then a promotion finds its
node judged on the head and not yet on the line, a rollback finds its own
promotion last, and every other step leaves the line alone.

The argument for the coordinator. `NeverLocksOut` says that the check of the next
start accepts refs and binding, wherever a crash fell; what the check sees depends on
how far the call under the lock has come, and on what the calls outside the
lock remember of a database that has moved on. `CoordinatorInvariant` has four parts.
`Story` is the database: at most one publication is pending (`OneAtATime`), a
completed row and its attempt belong together, a rollback's rows are the
phases of one row in order (`InPhases`), and the heads recorded by the completed
rows follow each other up to the present one (`History`). `Places` is what is outside
it, for each thing that may be pending. `CallFits` is what a call may rely on between
two transactions, `LockFits` what the holder of the writer lock finds because of its
own earlier steps; `Abort` drops the call and with it `LockFits`, and that `Places`
does not mention calls is why a crash is harmless. A late call is the hard case: one
that still believes in an attempt completed meanwhile must find that it is not
ready, and does, because versions of the head only grow and the graph its attempt
recorded has an older one. A publication that is pending is ready for as long as it
is (`PreparedStaysReady`, with the invariant inductive): judging and preparing wait
for it, and it is the one that moves the head. For the refinement only `Judge`, `AdvanceBinding` and
`ReturnBinding` move the abstract line; the transactions that complete a publication
after its binding moved are stutters, because `Quiescent` has kept everybody
else off the base in the meantime. The order of the journal is handled by lemmas
about the least and the last of a set of sequence numbers (`FirstIs`, `LastIs`,
`LastExists`), which replace an induction over its length.

The argument for Buzz. SQLite's lock gives `OneTransaction`; so the open
transaction began on the very database it will replace, and what it holds is the
effect of its one command (`Effect`) or the audit row of a refusal. Commit is then
one step of the ledger and everything before it a stutter. An answer that left an
adapter is the stored one (`Told`).

The argument for the containment. While the supervisor lives each living process has
a parent that lives or is the supervisor (`Held`), and the parents of living
processes do not form a circle: each set of them has a member whose parent is
outside (`Rooted`, which stands in for an induction over family trees). So if
`waitpid` finds no child there is no process at all, and a cleanup that reports
no failure left nothing (`Emptied`). `AnswerBacked` ties each answer of the builder
to what the supervisor reported.

The argument for the stores. A staging directory holds only parts of what its
manifest says (`Faithful`), because each file is hashed as it is copied; so what is
renamed into place, once the directory is full, is the manifest itself (`Placed`),
and a name that was free gets the one value it stands for. For generations a rename
of a complete directory is all there is to show.

The argument for the worker. `ExecutesOnce` is not inductive: it does not see two
scripts that are both on their way to Codex. `Alone` says that no two runs of one key
have moved a task on. It holds because a run moves its task on for the first time
from version 0 (`ScriptOK`: a script that has only submitted has seen version 0),
because a task a run has moved on never is at version 0 again, and because the
unique constraints leave one task per key (`Unique`). For `EvidenceEarned` the same
invariant says that a supervisor that is done has charged what was spent, and a row's
tokens never shrink, whoever adds to them (`ScriptOK`, `Grown`). The step that asks
can only be the script's last one (`OnlyTheEndEnters`); that the transition entered
EVIDENCE_PENDING rather than an override gives budget and deadline
(`EvidenceWithinLimits`), and that it was asked for gives how Codex ended
(`EvidenceAfterSuccess`). Nothing is assumed of what is asked for or recorded by hand.

Only model-checked: liveness, which is `ExpiredHoldEnds`, `PublicationEnds`,
`StartupCompletes`, `RetriesComplete`, `GroupsEnd`, `Settles`, `Republished`,
`Answered` and `Cleared`. It rests on fairness, hence on ENABLED, which the prover
cannot reason about.

## What is not modelled, and why

- The lock on the binding file: every holder but `ensure_bound_publication` also
  holds the writer lock, and `EnsureBound` waits for that one instead. The
  durability of a single file write or ref update.
- `create_goal`, `add_node`, the raw `transition` and `record_integration`: no
  service reaches them on their own, and the operations that use their code
  are modelled. `handle` of the router, the same transaction without a replay
  table, for the same reason.
- Signatures, hashes and the shape of documents: an evaluation, a manifest or a
  contract is valid or its call does nothing.
- What becomes of a group that a direct run leaves: nothing in the repository looks
  after it.
- An exit code 130 of Codex itself, after which the script asks for no transition:
  the exit codes are Codex's own, and no document promises an end for such a task.
- Schema migration, the other scripts, the manifest and bundle the artifact builder
  writes, and the authorization documents but for the nonce: sequential validation
  and file handling that a test reaches.

## Plan

What is left, in this order:

1. More of what the liveness properties rest on and needs no fairness, as
   `PreparedAlwaysReady` does for the coordinator: that what the recovery of a lease
   or claim asks of an expired row holds of each one.
2. The type invariants of the stores and of `BuzzIngress` as theorems; today
   the parts that matter are in the inductive invariants.
3. `CapabilityUse.tla`: a nonce is used once.
