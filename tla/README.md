# Verification of the AI DevOps Copilot

TLA+ models, TLC runs and TLAPS proofs about the agent backend
(`src/agent-backend/app`): the service that receives incidents, asks a language
model for a remediation, lets a stack of safety gates decide, changes Kubernetes
deployments and verifies two minutes later whether that helped.

## 1. The system

Each replica is one FastAPI process with one asyncio event loop; the HPA keeps up to
three replicas. They share nothing but Elasticsearch (ES). Handlers and background
tasks interleave at every `await`, and replicas interleave everywhere.

| Component | State | Operations | Talks to |
|---|---|---|---|
| Analysis pipeline `core/agent.py` (`run_analysis`) | none of its own | logs → LLM → causality → cascade lookup → safety → approval or execution → audit → chain link | everything below |
| Safety stack `core/safety.py`, `decision.py`, `loop_detector.py` | none; reads policy, incidents, locks | `validate`: gates 0, 1, 1b, 2–5, 6, 6b, 7, 8 | ES queries, action lock, live policy |
| Policy `core/policy.py`, `policy.yaml` | `current_policy` per process | load, reload (SIGHUP, route), lookup | safety, leases, approval |
| Incident store `services/memory_store.py` | indices: incidents, locks, leases, verifications | save, update, find, count, create-if-absent, renew, release, recover | ES |
| Action executor `core/action_executor.py` | `_BACKGROUND_TASKS`, a lease per action | dry run, apply, poll, judge, roll back | kubectl, leases |
| Rollback `core/rollback.py` | `_SNAPSHOTS` (memory of the process) | capture, restore, wait | kubectl |
| Verification `core/impact.py`, `main.py` | job queue in ES, in-memory fallback tasks | schedule, claim, verify, delete; recovery at startup, stop at shutdown | ES, leases |
| Approval `core/approval.py`, routes, Slack | `_pending` (memory of the process) | create, approve, reject, expire | agent, operators |
| Event watcher `watchers/k8s_event_watcher.py` | bounded queue, dedup cache, semaphore | watch thread → queue → dispatch to `run_analysis` | Kubernetes, agent |
| LLM client `llm/client.py` | quota and latency counters | retry, fall back, cross-validate | model APIs |
| Anomaly `core/anomaly.py` | baselines in ES | z-score, daily refresh | ES |
| Blast radius `core/blast_radius.py`, registry | dependency map | breadth-first search, criticality | Kubernetes |
| Deployment correlation, confidence, evaluator, log processing | none | pure scoring and parsing | — |
| API, webhooks, dashboard, metrics, integrations | none of consequence | thin handlers | agent |
| `sample-app`, `evals`, `scripts`, `tools`, `k8s`, `ansible`, `elk` | — | demo service, evaluation, deployment files | — |

**What is hard.** Replicas race for jobs and leases. Answers of the store are stale
by the time they are used. Every store request may fail, may fail after it was
applied, and nearly all callers then *fail open*. Pods die between an update and the
delete that follows it; leases outlive their owners and are recovered only at
startup. A deployment is changed by developers while an action is being watched. The
policy can be replaced in the middle of a decision. Ids generated by different
functions join execution, verification and incident.

**What makes each part correct.**
Verification: no job is lost or retired before its outcome is recorded, leases
exclude, every job is eventually verified unless an orphaned lease stands in its way. Safety: what runs was permitted, had the
evidence the gates ask for, holds its lock, and is bounded by its locks. Executor: a
rollback restores exactly what the action changed, only after the time given to it,
and the result reaches the incident. Approval: each request is answered once, before it expires, and only local and
confident actions go without one. Watcher: an overflowing queue loses the oldest
events, dispatches keep their distance, nothing starves, a stop stops. LLM client: each
model and key in its turn, bounded retries, a proposal or the heuristic, and no
destructive action against a second opinion. Blast radius: exactly what transitively
depends on the service, on cyclic maps too. Policy: one valid policy at any time.

## 2. Modules

| Module | Models | Built on |
|---|---|---|
| `VerificationQueue` | what the verification machinery promises: submit, record, retire | |
| `VerificationSweeper` | `impact.py` over the verification, lease and incident documents, pods and their life | refines `VerificationQueue` |
| `DecisionPolicy` | the decision table, rate limits, protected namespaces and their lookup | |
| `SafetyChain` | `validate`, its store queries and lock, and the end of `run_analysis`, for many analyses | extends `DecisionPolicy` |
| `ActionExecutor` | `execute_async`, its background task, snapshots, rollback, lease, and what is recorded | |
| `SecondOpinion` | what the cross-check promises: one proposal, one vote, no action against it | |
| `ModelChain` | `analyze` of the LLM client: models, keys, retries, tools, strict prompt, cross-check | refines `SecondOpinion` |
| `EventWatcher` | the watch thread, queue, dispatch loop, semaphore and shutdown | |
| `DependencyGraph` | what a dependency map means: direct and transitive dependents, the score | |
| `BlastRadius` | the search of `compute_blast_radius`, step by step | against `DependencyGraph` |
| `HumanDecision` | what a request for approval promises: one answer, in time | |
| `Approval` | end of `run_analysis`, the cached dependency map, `approval.py`, its routes, Slack | refines `HumanDecision`; extends `DependencyGraph`, `DecisionPolicy` |
| `Lexicographic` | the order in which the steps of a loop are compared | used by `ModelChain`, `ActionExecutor`, `BlastRadius` |
| `MC…` | instances and inputs for TLC | |
| `…Proofs` | theorems and their proofs | |

An atomic step ends at an `await` on ES or at a `kubectl` call. A request to ES
either succeeds or fails, and a failed one may have been applied. Each model has a
definition named after the code's function or after the answer it processes, and
`PROJECT.json` maps each to its lines. An operator whose comment starts with
`Mutant` is not part of the model: it is a plausible bug, kept to show that a
property can fail.

### VerificationSweeper

`pc[p]` is where the sweeper task of pod `p` awaits: `starting` (recovery in
`lifespan`), `sleeping`, `claimed` (in the for loop with page `todo`), `verifying`,
`deleting`, `releasing`, or `down`. `queued` is the verifications index, `lease` the
leases index, `incident` the part of an incident that verification writes, `memory`
the in-memory fallback tasks. `Schedule`, `RunFallback`, `Claim`, `Acquire`,
`Verify`, `Delete`, `Release`, `EndSweep` are the code between two awaits; `Start`
recovers orphans and starts the sweeper; `Stop`, `Exit`, `Cancel` are the shutdown of
`lifespan` (cancellation inside the `try` runs the `finally`, outside it does not);
`Crash` and `Restart` are Kubernetes. Instants are countdowns that saturate where no
comparison in the code can tell further apart, so the clock needs no bound.
`Documented` are the jobs whose id names an incident: the module assumes as little as
`impact.py` does. (As `agent.py` calls it, no job does: see section 3, `ExecutorOutcome`.)
`granted` and `evicted` are history.

### SafetyChain

One analysis goes from `Begin` (cascade lookup, gates 0 and 1) through `Cascade`,
`LoopFrozen`, `LoopCount`, `Lock`, `RateLimit` and `Budget` — each the answer to one
request to the store, processed with the code up to the next — to `Act` (approval
rule and execution) and `Audit` (the incident is saved). Gates 5, 6 and 6b await
nothing and are part of the step before (`StaticGates`). `policy` is the live policy
and `Reload` replaces it at any time; `docs` and `savedAt` are the incidents index,
`locks` the locks index; a failed query answers as the code's `except` branch does.
Gate 7 and the loop detector ask for a count of incidents and get none: the request
`count_unresolved_actions` sends has a `size`, which the `_count` API refuses, and the refusal
reads as 0 (`CountUnresolved`), so `LoopCount` and `RateLimit` let everything pass. The frozen
services are a constant. `Past` are analyses that ended
earlier, whose incidents are on record. `lockedAt` and `inForce` (the policies in force while an
analysis is deciding) are history.

### ActionExecutor

`spec` is the deployment: image, image of the revision before, replicas. Any readiness
may be read (pods are not state), so every rollout outcome is covered. `DryRun`,
`Capture`, `Apply`, `Acquire` are the foreground of `execute_async`; `Poll`, `Renew`,
`Rollback`, `Wait`, `Release` the background task; `Record` and `Verify` are what
`run_analysis` and the sweeper write under which id; `Deploy` is anybody else,
`Crash` the pod's death, `Evict` a lease recovery elsewhere. Deadlines are numbers of
reads left. Exceptions raised inside the background task (its `except` branch) are
not separate: the helpers it calls catch their own, and the branch writes nothing
when there is no incident id, so it coincides with `Release`.

### ModelChain

`at` is the position in the chain and `key` the API key of the primary model;
`role` says whether its answer or the second model's is asked for; `prompt`,
`attempt` and `round` count the two prompts, the attempts of `_call_with_retry` and the
rounds of tools within an attempt. `UseTools` is one round; `AskStrictly` the second
prompt after the validator rejected the first answer; `Answer` and `CrossCheck` are the
return of `_analyze_with_model` to `analyze` and `_cross_validate`. An error is `Retry`
(and `Resume` after the back-off), or it leaves the call: `RotateKey`, `FallBack`,
`GiveUp` (the heuristic of `run_analysis`) or `CrossCheckFails`, by the classification of
`_is_retriable`, which differs from that of the retry loop. The time limit of the
retry loop is a choice: it may give up at any failure. An answer is its action and
whether the validator accepts it. `second` and `ended` are history.

### EventWatcher

The thread posts accepted events with `call_soon_threadsafe` (`posted`), so `Receive`
and `Enqueue` are two steps. `Enqueue` is `_enqueue_or_drop`. The dispatch loop takes an
event and does one of `Suppress` (cooldown), `RefuseRate` (sliding window) and `Dispatch`,
which starts a task; `Admit` and `Finish` are the semaphore around `run_analysis`.
`Signal` sets `stop_event` at any time, `Halt` is the bridge to the thread, `Join` the
end of the wait for the thread, whether it ended or five seconds did, and `Leave` the
end of the event loop. `cooling` and `window` are the dictionary of cooldowns and the
deque of dispatches with relative times; the deque loses its expired front when it is looked at (`Fresh`).
`recent` and `log` are history.

### DependencyGraph, BlastRadius, Approval

`DependencyGraph` states the transitive dependents as a least closed set; `BlastRadius`
is the loop of the code: `Dequeue`, `Look` at one dependent after another, in any order as the
code iterates over a Python set, and `Finish`. `Approval` uses the former's
`ScoreOf`, which the search was shown to compute.

`Approval` has the memory of each replica: `cache` (`_graph_cache`), `static` (what the
storage behind `DEPENDENCY_MAP` holds: empty until a read by key), `registry` and
`pending`. An analysis goes through `ComputeBlastRadius`, `CascadeDepth` (its other read of
the static map), `Gate` (criticality, `requires_approval`, `create_approval_request` or
execution) and `Notify`. `Answer` is `approve` or `reject` with any token the operators
received, on any replica; `GetStatus` is the route that drops expired requests. `Annotate`,
`Reload` and `Restart` are the surroundings. `lastSeen` and `possible` are history.

## 3. Runs

Passing runs; the mutant that each property was tried against is listed in
`PROJECT.json`.

| Run | Properties | Question |
|---|---|---|
| `SweeperFaults` | `TypeOK`, `LeaseExclusive` | can two replicas hold a job's lease, with failing requests, crashes, shutdowns and recoveries? |
| `SweeperCrashes` | `RetiredIsRecorded`, `QueueSpec`, `OnlyOrphansBlock` | does a crash, cancellation or stale page lose a verification while the store answers, and can anything but orphaned leases hold one up? |
| `ChainInputs` | `TypeOK`, `DestructiveNeedsEvidence`, `PermittedMeanwhile`, `GatedOrOverridden` | does the chain let a wrong request through, over all signatures and proposals of interest and when a reload mixes two policies, and what is the one way round its first gates? |
| `ChainRaces` | `OnePerBucket`, `LockedUnlessFailed`, `RunsAreBounded` | does the lock hold among concurrent analyses, when a request fails open too, and how many executions does it leave room for? |
| `ExecutorFaults` | `TypeOK`, `RestoreExact`, `PatientRollback`, `OnlyMovesOn`, `PollEnds` | is a rollback exact and never premature, is nothing taken up again, and does every poll end, with other deployments, failing calls, crashes and evictions? |
| `Models` | `TypeOK`, `ActsOnAgreement`, `InChainOrder`, `HeuristicIsLast`, `VoteSpec`, `NothingAskedTwice`, `ProposalOrGemini` | are models and keys asked in order and to the end, is the vote kept, is nothing asked twice, does every analysis get a proposal? |
| `Watcher` | `TypeOK`, `QueueIsNewest`, `PacedDispatch`, `NothingAfterStop`, `AnalysesStart`, `StopCompletes` | what do bursts, repetitions and a stop at any moment do to events and analyses? |
| `Approvals` | `TypeOK`, `OnlyRestartForgets`, `UnseenIsLocal`, `HumanDecides` | is each request decided once and in time, whatever is clicked where, and what may run unseen? |
| `Blast` | `TypeOK`, `NobodyLost`, `ExpandedAsReached`, `ScoreIsReach`, `Terminates` | is the search right on every map of three services? |

Runs that show a disagreement between the repository and its code. Each checks one
statement of a doc, comment or test, quoted in `PROJECT.json` under `findings`:

| Run | Statement | What the code does |
|---|---|---|
| `SweeperDouble` | the lease prevents double verification | a stale page makes a second pod verify a finished job again |
| `ChainCausality` | unverified causality blocks destructive actions | the policy turns a safe proposal into a restart after the gate |
| `ModelFallback` | on non-retriable errors the caller falls over to the next model | it raises, and the heuristic answers with models left unasked |

More such statements are written in the modules and refuted by TLC with a configuration of
their own, which is kept but is not among the runs of `PROJECT.json`
(`tlc -config <name>.cfg <module>`):

| Configuration, module | Statement | What the code does |
|---|---|---|
| `SweeperOrphan`, `MCVerificationSweeper` | `EveryJobVerified`: recovery lets the next pod claim the job (`memory_store.py:586`) | recovery runs once, at startup, for leases expired for 90 s; a pod that is back sooner leaves its job blocked for ever |
| `ChainLoop`, `MCSafetyChain` | `LoopBroken`: three incidents of a kind in an hour are escalated to `notify` (`loop_detector.py:43`) | `count_unresolved_actions` (`memory_store.py:188`) sends a `size` that `_count` refuses, and takes the refusal for 0: nothing is ever escalated or frozen for its count, however healthy the store (the tests mock the client) |
| `ChainRate`, `MCSafetyChain` | `RateLimited`: at most n per service in ten minutes (`policy.yaml:14`) | gate 7 asks for the same count and never denies; and it would not count what is in flight |
| `ChainReload`, `MCSafetyChain` | `OnePolicyPermits` with reloads: a request sees the old or the new policy (`policy.py:9`) | it sees one at the decision and the other at the namespace gate; what remains true is `PermittedMeanwhile` |
| `ExecutorFreeze`, `MCActionExecutor` | `FailedRollbackFreezes`: a failed rollback freezes the service (`rollback.py:8`) | the result is only logged, as `run_analysis` passes no incident id |
| `ExecutorOutcome`, `MCActionExecutor` | `OutcomeReachesIncident`: the verification outcome reaches the incident (`docs/demo.md:228`) | it is written under the action's id, which no incident has |
| `WatcherOverlap`, `MCEventWatcher` | `OneAnalysisPerService`: at most one analysis in flight per service (`README.md`, "Leases guarantee") | the watcher takes no lease: two reasons of one service run together |
| `ApprovalStatic`, `MCApproval` | `StaticIsRegistry`: the static map is refreshed on every read (`causality.py:42`) | `dict(DEPENDENCY_MAP)` copies the bare storage, empty until a keyed read |

Other divergences that reading and modelling brought up, which the models reproduce
but no run is dedicated to:

* The cascade guard (`safety.py:129`) asks for actions of the incident's own service, not
  of the upstream one its comment speaks of, and `apply_policy` may override its `notify`.
* The lock id holds the minute of the wall clock (`memory_store.py:320`), so two executions
  on the two sides of a minute both pass, whatever `idempotency_window_seconds` says.
* The fingerprint holds the service, not the target that causality redirects to
  (`agent.py:397`): two incidents may act on one target.
* The hourly budget query filters by the service named `"*"` (`safety.py:362`) and counts
  nothing (`Budget`).
* `execute_async` is called without `incident_id` (`agent.py:394`): an incident stays
  `executing` until somebody else changes it, whatever the result.
* A poll whose lease is gone ends with its last counts, and its caller judges them as if
  the time were up: it may roll back (`Renew`, `Judge`).
* Without a snapshot a rollback is `rollout undo`, also after a `scale_up`, which made no
  revision (`Rollback`, `Undone`).
* `readyReplicas` counts pods of every revision (`action_executor.py:107`): the first read
  after a restart may report success.
* Approving an action only forgets the request (`approval.py:140`); nothing executes it, though
  `routes.py:456` says that the action will execute immediately (`Settle`).
* Pending requests are in the memory of one replica, so a click that reaches another is
  refused (`Answer`); an expired request stays until somebody asks for it.
* The token is only in the Slack message (`Notify`): without a webhook nobody can approve. Its
  buttons open the links with GET, while the routes take POST only.
* The request names the incident `"pending"` (`agent.py:349`), which is never replaced. Blast radius
  and criticality are those of the incident's service, not of the redirected target;
  the criticality the comment calls cached is asked for each time.
* The cross-check compares actions only, while its docstring adds the error type
  (`client.py:388`). After a fallback the second opinion comes from the exhausted first
  model, with its first key (`SecondModel`).
* Calls to Gemini have no timeout (`client.py:573`), the others have one (`ProposalOrGemini`).
* Dropping the oldest event increments no counter (`k8s_event_watcher.py:456`), and every
  reconnection lists the current events again (`Receive` may deliver any event twice).
* `load_policy` at startup (`main.py:106`) drops what it loaded and only warns if that fails: the
  defaults stay in force until the first reload.
* A missing baseline gives a z-score of 0.0, while `agent.py:298` speaks of -1.0 to skip the gate.

### Bounds, and why they are enough

* *Sweeper*: two pods — every property is about two pods and a job, and a third pod
  adds only more of the same rivals; two jobs, one of which names an incident, with a page
  of one or two, so that a page can be too short for the jobs due; up to two faults, which
  allows "crash, restart, then another failure". In the two disagreements `LeaseTTL`,
  `OrphanAge` and `VerifyDelay` keep the order of the code's 60, 90 and 120 s; elsewhere all
  are one, so that a recovery and an overdue job are within reach of few steps. Countdowns
  saturate; there is no bound on time or on the length of behaviours.
* *Chain*: `ChainInputs` takes one analysis through every severity, confidence and
  proposal and representatives of error (one the default table acts on destructively,
  one it retries), score (none, below, at the threshold), blast radius and namespace.
  Its two policies permit different actions and protect different namespaces, each the one the
  other leaves open, so that a reload between the decision and the namespace gate mixes them.
  `ChainRaces` takes three analyses of two services, one upstream of the other; `MaxTime` is
  3 with buckets of two ticks — so executions fall in one bucket, in two and on either side of a
  boundary — and two requests may fail, so that executions with and without a lock add up.
* *Executor*: one action and any deployments by others, two images, zero to three replicas
  against a `ScaleTo` of two, a poll of three reads with a renewal after two, two faults.
  That a second action of the system is to the first what any other deployment is, is part of
  the theorem `RestoresExactly`, which has any number of them.

* *Models*: chains of one to three models with either kind of provider first, one with a
  model twice, one and two keys, the code's three attempts and three rounds; every answer and
  every kind of error at every call. Only the severity that asks for a second opinion and
  the one that does not are told apart.
* *Watcher*: two reasons of one service (one from two kinds of objects) and three events that are
  filtered out; a queue of two, so that a third event overflows it; a rate of one and a
  window shorter than the cooldown, so that each of the two can be what suppresses; two permits
  and one waiting task (`MaxTasks`); one callback under way (`MaxPosted`). Both bounds make
  the thread or the dispatcher wait where the code would go on with a longer list.
* *Approvals*: two replicas and two analyses, so that a token can be used for the other's request
  and on the other replica; two maps that put one service at opposite ends of the scores;
  a cache of two ticks and an expiry of one on a clock of three (`MaxTime`), one failed call or
  restart, one edit of annotations or files: enough for a stale cache, a restart under a
  pending request and an answer at and after the expiry. Replicas and analyses are
  symmetric; only safety is checked there. Every request is confident; that one which is not never
  runs unseen is left to `UnseenActionsAreLocal`.
* *Blast*: all 512 maps over three services, cyclic ones and self-dependencies among them. A
  score of `critical` needs six services and is covered by `ScoreCorrect` only.

`CHECK_DEADLOCK FALSE` appears where the system may rest: all analyses or actions are
over, the watcher has left or the search has ended, and in `SafetyChain` and `Approval` the
clock is bounded.

### Fairness

`VerificationSweeper!Fairness` is weak fairness of the clock and of each pod's step: the
event loop runs every ready task, every request to ES ends (the client has a timeout)
and Kubernetes restarts pods. Nothing is assumed about incidents arriving, faults or
shutdowns. Pods are fair each on its own, not each action: a pod's sweeper is
sequential, so its one enabled step is taken. `ActionExecutor!FairSpec` is the same
for a background task; analyses, developers, crashes and evictions owe nothing. Readiness is chosen by the environment at every read, and no
fairness makes a rollout succeed.

`ModelChain!FairSpec` is fair to `Timed`, the dialogues with the two providers whose calls
run under `asyncio.wait_for`, and to the back-off; a Gemini call owes nothing, which is
why `ProposalOrGemini` has its second half. `EventWatcher!FairSpec` is fair to the loop's ready
callbacks and tasks and to the end of streams and back-offs (the server and the request
timeout end them). Nothing is owed by events, time, `Signal`, or an analysis: `run_analysis`
has no time limit and a Gemini call may keep its permit for ever. So `AnalysesStart` has a
third way out: a task may wait for ever if, from some point on, every permit is held by an
analysis that never ends. As long as one permit keeps coming free, everybody has a turn.
`BlastRadius!FairSpec`: a function runs to its end.

## 4. Proofs

The constants are arbitrary within the named assumptions (`SweeperAssumption`,
`ChainAssumption` of `SafetyChain` and of `ModelChain`, `ExecutorAssumption`, `WatcherAssumption`,
`ApprovalAssumption`, `ServicesAssumption`): any number of pods, jobs, analyses, actions, models, keys, replicas and
services, any delays, windows, limits and thresholds, any policies and maps.

* **`LeaseIsExclusive`**. `LeaseExclusive` speaks of two workers and is not inductive.
  `LeaseOwned` is: a worker whose create was granted and who was not evicted is the
  owner of the lease document. Two such workers of one job would own one document. Each
  step keeps it because a create needs an absent document, a release deletes only its
  owner's, and recovery marks whom it robs. Failed creates are not granted; that is
  why fail-open does not break it, and all it means.
* **`SweeperRefinesQueue`, `NothingLost`** assume that the store answers
  (`~StoreMayFail`). `RecordedFirst` — a sweeper about to delete has recorded, and
  works only on submitted jobs — makes every step a step of `VerificationQueue` or a
  stutter; a step of the queue keeps `RetiredIsRecorded`.
* **`SweptOneAtATime`, `SingleReplicaVerifiesOnce`** are the counterpart of `SweeperDouble`. If nothing
  fails or is shut down (`MaxFaults = 0`) and no two pods sweep at a time (`OneSweep`), each incident is
  verified once. `Untouched` says why: a page holds queued jobs only, and a queued job has
  no outcome but for the one being deleted. With one pod `OneSweep` always holds; with several
  nothing in the code ensures it, and a fault between the update and the delete breaks it
  even with one.
* **`LockIsExclusive`, `RunsAreLocked`, `EvidenceIsNeeded`** rest on `ChainInv`. A lock
  document is never deleted, so a held lock is in `locks` (`LockRecorded`) and a second
  create of its id is refused (`LockUnique`); a denial forgets the action but not the
  lock, hence `Held`. Past the lock an action can only be dropped, so the evidence
  the static gates saw (`Evident`) and the approval rule (`RanApproved`) still apply to what runs.
  All steps but two are `Quiet`: the proof has one lemma for them, one for the lock and
  one for the execution. Reloads and failed requests are included.
* **`LockBoundsRuns`**. With gates 7 and 8 counting nothing, what bounds the executions of an action on
  a service is its lock. Those with a lock in an interval have different buckets (`LockUnique`), so
  there are no more of them than buckets from the first to the last (`LockedBounded`, an injection);
  those without one (`AllUnlocked`) each cost a failed request (`PaidFor`, inductive with
  `ChainInv`). The bound is the sum.
* **`OnlyPermittedRuns`** rests on `Decided`: the action of an analysis past the decision is one a
  policy in force since its beginning allows, or none, and past the static gates its namespace
  is unprotected in such a policy. **`OnePolicyIsEnough`** follows: if no reload changes the protected
  namespaces (`SameProtection`), which is what `ChainReload` violates, the two are one policy.
* **`OnlyOverridesPass`, `RepairedCausality`**. `GatedOrOverridden` says what is true where
  `CausalityHolds` is not: an action that passes the first gates unproven is one a policy put in
  the place of a safe proposal. So under policies that never do that (`RowsKeepSafe`)
  unverified causality does block every destructive action. The default table has such rows, which
  is how TLC refutes `CausalityHolds`; a table of the form `RowsKeepSafe` asks for is one `policy.yaml` can state.
* **`RestoresExactly`** rests on `SnapshotKept`: while nobody else changed the
  deployment since the capture, the snapshot is what the action was applied to, and
  after it is applied again it is the deployment.
* **`RollsBackPatiently`** rests on `HoldsLease`: without faults a polling task still has the
  lease it created, so no renewal cuts its poll short, and only an expired deadline sends it
  to the rollback (a read that finds all replicas ready is never judged too few).
* **`ImplementsSecondOpinion`, `DestructiveIsAgreed`** rest on `OneAnswerAtATime`: before a vote
  only the primary answer is known, and a second model is asked about a destructive
  proposal only. `Answer`, `CrossCheck`, `CrossCheckFails` and `GiveUp` are steps of
  `SecondOpinion`; retries, tools, keys and fallbacks are stutters. That a chain with another
  model than the primary has a first one (`SecondModelType`) is by well-founded order on positions.
* **`ChainInOrder`, `HeuristicComesLast`** are inductive with the types: an error is recorded in
  `ended` in the step that moves on from its key, and records stay.
* **`AskedOnce`, `ActionsOnlyMoveOn`, `SearchProgresses`**: the three loops of the system that
  count their way to an end. Each has a tuple of numbers (`Progress`, `Course`, `Remaining`) which
  every step moves on in lexicographic order, and whose entries are bounded by the types and
  constants, or only fall. So an analysis, an action and a search take finitely many steps,
  whatever fails and in whatever order, for every chain, deadline and map; that they do
  take them is fairness, and remains with TLC (`ProposalOrGemini`, `PollEnds`, `Terminates`).
  `Budgeted` (a call that waits has an attempt left) and `RenewLeft` (a renewal has a read left)
  are what the types need to be inductive.
* **`QueueKeepsNewest`** rests on `IsSuffix`: the queue is a suffix of what was put into it,
  position by position; lemmas on sequences say that dropping the head and appending keep
  that. **`StoppedDispatchesNothing`** rests on `LoopEnded`: `start_watcher` returns when the
  dispatch loop is gone, so a posted event finds nobody to dispatch it.
* **`DispatchIsPaced`**. `PacedDispatch` counts dispatches in intervals and is far from inductive.
  `Paced` is: every dispatch of the last window stands in the window at its place counted from the
  newest (`Remembered`), the one `RateLimit` places before another is more than a window older
  (`Spaced`), and what is left of a key's cooldown makes up for the age of its last dispatch
  (`Cooled`). A dispatch needs a window that is not full, so the entry `RateLimit` places
  back has been popped, and by `Remembered` is too old. Popping takes a prefix because ages fall
  along the deque. That `Spaced` bounds the count of every interval (`PacedMeans`): two entries
  in one interval are fewer than `RateLimit` places apart. TLC checked `Paced` before.
* **`ScoreCorrect`** rests on `SearchInvariant`: whatever is visited or about to be depends on the
  service (`Sound`), and the dependents of everything visited are visited, about to be looked
  at, or still to be dequeued (`NobodyLost`). With an empty queue the visited set is closed,
  hence, by `TransitiveIsLeast`, everything that depends on the service.
* **`EachExpandedOnce`** rests on `Expanded`: every entry of a service into the queue — at the start, or
  when it becomes visited — is either still there or was followed by one expansion. With no
  duplicates in the queue (`NoDuplicates`) a dequeued service is no longer there. The service of the
  incident is not visited when it is queued first, so on a cycle it enters twice, and only it.
* **`MoreEdgesScoreNoLower`**: an annotation that is added never lowers the score of any
  service, so a map that misses edges errs towards a lower blast radius only.
* **`ImplementsHumanDecision`, `RequestsStay`** rest on `Placed` (a pending request is unanswered
  and with the replica that made it) and `Unasked` (no request before the gate, no answer
  without a request). Then an answer finds an awaited request or changes nothing, and time and
  restarts only void requests (`OnlyVoid`). **`DecisionsStand`** follows from the abstract
  specification alone (`DecidedStays`) and holds of the code because it implements that.
* **`UnseenActionsAreLocal`** rests on `Cached` (a fresh cache holds a map that is or was the
  cluster's within its lifetime), `Seen`, `Judged` and `Finished`: the score of an
  analysis is among those its history allows, from the search to the execution.
* **`TypeCorrect`** of each module.

Every safety and action property and every refinement that a passing run checks is a theorem.
Model-checked only: the liveness properties (`OnlyOrphansBlock`, `PollEnds`, `ProposalOrGemini`,
`AnalysesStart`, `StopCompletes`, `Terminates`; fairness is out of the prover's reach).
`SweptOneAtATime`, `RepairedCausality` and `OnePolicyIsEnough` have hypotheses on behaviours or
policies; their properties are those the runs show to fail without them.

## 5. Not modelled, and why

* Prompts, log parsing, scoring, causality matching: their results are inputs.
* Several replicas with different policies: `SafetyChain` has one `policy`; `Reload` may
  change it before every step, which covers what one analysis can see.
* `execute_async` with `dry_run` or without kubectl (`skipped`): nothing is changed.
* A frozen service that is unfrozen (a route that changes a set the chain only reads).
* Several analyses in one LLM client: `genai.configure` sets a key for the whole process, but
  which key pays for a call changes nothing the model looks at.
* Loading and validating `policy.yaml` and the platform files; the heartbeat, metrics and logging.
* Anomaly baselines and confidence scores: floating-point statistics, inputs of the chain.
* Deployment correlation: a recommendation that nothing acts on. Webhooks and the dashboard:
  handlers that forward or read. The sample application, the evaluation harness, scripts and deployment files.
* The lag of ES between a write and its visibility to a search: every write of the
  modelled parts that is searched later uses `refresh="wait_for"`, or is searched by
  other analyses, where a saved document that is not yet visible behaves as
  one that is saved later.

## 6. Plan

Done, in this order: the verification queue and its sweepers, the safety stack, the executor,
the model chain, the event watcher, the blast radius and the approval workflow, each
with its theorems, and three refinements (`VerificationQueue`, `SecondOpinion`, `HumanDecision`).
What would come next:

1. `ServiceFreeze`: loop verdicts, critical interventions and the unfreeze route, composed
   with `SafetyChain` (its `Frozen` becomes state).
2. `PolicyLifecycle`: startup load, SIGHUP, reload route, invalid files.
3. An abstract `Remediation` (decide once, execute at most once per bucket, settle)
   that `SafetyChain` and `ActionExecutor` are shown to implement together.
4. Theorems: what the three refinements give together, from the event that is dispatched to the
   outcome that is recorded, once `Remediation` exists; and a bound on the number of requests of one
   analysis as a function of the lengths of its chain and key lists.
