# Verification of STS2_RL

STS2_RL serves reinforcement-learning clients a deck-building game. A Training
client talks JSON to one server process; the process owns one CLR game engine
(`GameInstance`, external), which its sessions share, and pools of worker
processes or threads that explore alternative continuations ("Branches"). Around
it stand the search that plays a combat, the drivers that walk a run from room to
room, and the scripts that turn combats and recorded runs into training data.

The TLA+ here models the parts of the Python code whose correctness depends on
the order in which things happen: who may move the one game, what a retried
request does, which answer belongs to which call, what a failing operation has
already done, and whether what is written down is what was played.

## 1. Inventory

| Component | State | Operations | Talks to |
|---|---|---|---|
| `game_access.py` | lease state, holder, generation, origin of an open transfer | `claim release begin commit rollback poison mutating_game` | every session of the process |
| `Run/whole_run_session.py`, `Combat/live_combat_session.py`, `Combat/battle_emulator.py` | the lease they hold; the retained decision frame; `_session_faulted` | `step choose_room start_combat adopt restore close`, resynchronisation | `GameAccess`, the game |
| `API/instance_whole_run.py` (and `_beam`), `API/instance_combat.py`, `API/combat_phase.py` | the session(s), the open combat phase, `_faulted` / `_closed`, decision points, Branches, hypothesis tables | `commit_action emulate_action(s) enter/leave_combat_phase cancel release status close` | sessions, Branch manager, whole-run pool |
| `API/server.py`, `API/identifiers.py`, `API/validation.py` | `_sessions` (last sequence number, digest, response, active instance), `_instances` | `handle_request`: `start_instance`, `close_instance`, everything else | instances |
| `API/tcp_server.py` | streams, `_handler_lock`, `server_epoch` | hello, frame in, frame out | clients, `handle_request` |
| `API/api_runtime.py`, `API/mock_training_client.py` | two queues to a child process, the client's sequence numbers | `call`, `close` | server in the child |
| `Combat/search/branch_manager.py` | Branch records (state, parent, children, worker, result), lease registry | `submit_many poll cancel_branches release_branches close_all` | a worker pool |
| `Combat/search/branch_worker_pool.py`, `alc_worker_pool.py` | worker generations, input queues, one result queue, parked results, respawn counts; in each worker the retained pending state | `dispatch_work_items execute respawn_worker close` | workers |
| `Combat/search/search_coordinator.py`, `fault_taxonomy.py` | work items by status, attempts, leases | rounds of dispatch and retry | worker pool |
| `Run/worker_pool.py`, its runners | slots, generations, readiness, leases | `execute dispatch_choice_work_items explore respawn_worker close` | worker processes |
| `Combat/search/main_loop.py`, `decision_context.py`, `multi_round_search.py`, `replay_draw_restore.py`, `rng_hypothesis.py` | held snapshot, replay prefix, draw evidence, planned sequence, hypotheses | one iteration of the loop, a search, a verified step | live session, coordinator |
| `Run/room_progression_driver.py`, `choice_branch_runner.py`, `execution_mode.py` | the path of a run, snapshots of forks, decision ids | one boundary after the other, reloads, Branch attempts, external actions | session |
| `Combat/env/combat_env.py`, `Combat/data/generate_heuristic_trajectories.py`, `run_trajectory_batch.py`, `evaluation/online_eval` | an episode; the files of a batch; the rows of an evaluation | `reset step`, run, resume, write | live session, emulator |
| `Combat/data/reconstruct_floor_state.py` and its scripts | the replayed deck, relics, potions, hit points, warnings | one recorded map point after the other | files |

What is hard here: one game shared by parties that do not know of each other;
hand-offs of several steps each of which may raise; lost, repeated and late
frames; restarts; timeouts racing late answers; one result queue read by several
callers; respawns that fail; cleanup that runs because cleanup failed; state
rebuilt by replay that must be the state it replaces; batches killed between two
writes. `PROJECT.json` lists the hazards at their lines, with the properties that
cover each.

What makes each part correct:
* **guard**: exactly one acceptable lease while somebody owns the game, and a
  lease once lost is lost for ever;
* **hand-off**: however it fails it settles, and a superseded instance does no harm;
* **server and clients**: a request executes at most once and resolves; client and
  server agree; no instance is orphaned; no late answer is taken for another;
* **instances**: a Branch belongs to the decision it was made for, and no failure
  leaves a Branch, a slot or a reference nobody owns;
* **pools**: an item ends with its own result, a continuation steps on the very
  state its lease names, every call returns;
* **decision loops**: a replay reaches what Main sees, a hypothesis agrees with
  what Main saw, a reload undoes its room and nothing else;
* **data**: a recorded step is the decision that was played, every line a row of a
  batch stands for was written before it, a state called exact is the real one
  wherever the log determines it.

## 2. Modules

| Module | Models | Role |
|---|---|---|
| `ExclusiveCapability` | - | abstract: a capability at most one party can use, granted afresh, never revived |
| `GameAccess` | `game_access.py` | the guard; one action per method |
| `GameAccessProofs` | - | theorems about `GameAccess` |
| `GameHandoff` | the API instances and their sessions | composes the guard (`INSTANCE GameAccess`) with the instances' handlers |
| `ApiSession` | server, ledger, TCP transport; the client is external | message passing with failures |
| `RuntimeProcess` | `api_runtime.py`, `mock_training_client.py`, `validation.py` | calls with timeouts over two queues |
| `ApiTransports` | - | a client uses one of the two |
| `ApiTransportsProofs` | - | theorems about both transports |
| `BranchLedger` | `identifiers.py`, Branch records between two polls | operators shared by the two instance types |
| `WholeRunBranches` | `instance_whole_run.py`, `instance_whole_run_beam.py`, `combat_phase.py`, event RNG | one step per request, every point of failure |
| `CombatInstance` | `instance_combat.py` | the same for a standalone combat |
| `ApiInstances` | - | an instance is one of the two |
| `InstancesProofs` | - | theorems about `GameHandoff`, and that it uses the guard as specified, and about `ApiInstances` |
| `BranchManager` | `branch_manager.py`, lease registry, a pool | coordinator steps interleaved with workers |
| `BranchManagerProofs` | - | theorems about `BranchManager` |
| `AlcPool` | `alc_worker_pool.py` | concurrent `execute` calls on worker threads |
| `SearchDispatch` | `dispatch_work_items`, `search_coordinator.py`, `fault_taxonomy.py` | rounds of a batch, with retries |
| `WorkerPools` | - | one of the three (`INSTANCE BranchManager`) |
| `WorkerPoolsProofs` | - | theorems about `AlcPool`, `SearchDispatch` and their composition |
| `WholeRunPool` | `Run/worker_pool.py` and its callers | the whole-run pool |
| `WholeRunPoolProofs` | - | theorems about `WholeRunPool` |
| `CombatGame` | external | a combat with a hidden draw pile, as the search uses it |
| `DrawEvidence` | `replay_draw_restore.py`, `rng_hypothesis.py` | what watching a draw tells |
| `CombatMainLoop` | `main_loop.py`, `decision_context.py`, `multi_round_search.py` | the loop that plays a combat |
| `RoomProgression` | `room_progression_driver.py`, `choice_branch_runner.py`, `execution_mode.py` | the drivers of a run |
| `DecisionLoops` | - | one of the two loops |
| `DecisionLoopsProofs` | - | theorems about `RoomProgression` and `CombatMainLoop` |
| `LiveCombat` | `live_combat_session.py`, `battle_emulator.py` | sessions and emulators on one engine |
| `CombatEpisode` | `combat_env.py`, `generate_heuristic_trajectories.py`, `online_policy_eval.py` | one combat played by a decider |
| `TrajectoryBatch`, `OnlineEval` | `run_trajectory_batch.py`, `online_eval` | episodes in bulk, and their files |
| `FloorReconstruction` | `reconstruct_floor_state.py` and its scripts | from the log of a run to scenarios |
| `CombatData` | - | a process is one of these for its life |
| `CombatDataProofs` | - | theorems about `LiveCombat`, `CombatEpisode`, `TrajectoryBatch` and `FloorReconstruction` |
| `MC*` | - | constants, symmetry and bounds for TLC |

A composition by mode (`transport`, `driver`, `level`, `mode`) chooses in its
initial state which part a behaviour exercises; the parts share no state, and one
run checks them all. Where parts do interact they are composed for real:
`GameHandoff` over `GameAccess`, the instances over `BranchLedger`, the main loop
over `CombatGame` and `DrawEvidence`, episodes, batches and evaluations over
`LiveCombat`.

### GameAccess
`state`, `holder`, `generation` and `transfer_origin` are the Python fields;
`issued` is a history of every lease ever returned, so that actions can present
any lease a caller may have kept, however old. `ValidateCurrent` and
`ValidateTransfer` are the checks of the same name, and a call that raises is the
absence of a step. `Usable(l)` says that `mutating_game(l)` returns the game. A
generation is a natural number, as in Python. `ExclusiveCapability` sees a lease
as live when usable and spent when issued and not usable; the guard is shut when
poisoned.

### GameHandoff
The server runs one handler at a time, so a handler is a sequence of steps (`pc`)
of the instance `who`, with one guard call per step and a failure step
wherever the code can raise. Whole runs enter combat by `EnterBegin`, `EnterCommit`,
`EnterAccept`, with `EnterRollback` before and `EnterFailsAfterCommit` after the
commit; they leave by `LeaveBegin`, `LeaveFold`, `LeaveCommit`, `LeaveAccept`,
`LeaveDrained` with `LeaveFails` anywhere. `board` says whose run the external
game holds and `foreign` remembers a mutation of another's. `synced` says that
the live session's retained frame is the game's: the code compares
`(CombatSessionId, StepIndex)`. Only the lease life is modelled here: Branches and
decision points are in `WholeRunBranches` and `CombatInstance`.

### ApiSession and RuntimeProcess
A TCP client has at most one open request. Its stream may break before the request
is read, while it executes, or before the answer arrives; it then says hello
again, compares the epoch and resends the same request. Frames of the old stream
stay readable. `Admit` is `handle_request` up to the verdict of
`SessionLedger.begin` (replay, conflict, gap, new) and the other actions are the
execution, so that streams break and the server restarts in between. Payload
digests are the payloads themselves. The queue client of `RuntimeProcess` gives up
after `request_timeout_s`; the child may answer later, die, or be closed, and the
late answer meets the next call. `Validated` says which requests are refused
before the ledger.

### WholeRunBranches, CombatInstance, BranchLedger
The server serves one request at a time, so an operation is one step, and the
interesting part is how far a failing operation got. `led` holds the known
branch ids, the public books in order, decision points, reservations, the adopted
phase (records and hypothesis table) and the references of event hypotheses.
`EmulateEvent` and `EmulateCombat` admit one item or a batch, publish all of it,
and finalise it answer by answer; `RolledBack` is the transaction's except clause
and `EmulateCombatFails...` the cleanup that itself fails. `issued_at` remembers
where the root's decision point was issued and `torn` that a commit moved the game
without recording it. Decision ids are counted per Branch, as `d-<branch>-<n>`.

### BranchManager, AlcPool, SearchDispatch
`poll` of the Branch manager is `PollBegin`, one step for each request sent, then
`Receive` / `DiscardStray` / `Expire` and back; an exception goes through
`Quarantine`. `CancelVisit` is one turn of the cancel stack, `ReleaseVisit` one
Branch of a release. A worker executes the head of its inbox at any moment or
never. A replaced worker's request may still be answered, because a thread cannot
be killed and a killed process may have answered before.

In `AlcPool` two threads call `execute` at once and read one result queue; an
answer of the other caller is parked in `_ready_results`. The lock is held where
the code holds it. `SearchDispatch` has the coordinator's rounds: items are routed
to the worker that holds their context or bootstrapped on another, answers of
replaced generations are dropped, then the leases are settled and the attempts
accounted for item by item, and `fault_taxonomy` decides about a retry. The
dictionaries of the round are keyed by item, so two copies of a card share an entry
as they share a work id.

### WholeRunPool
One Main worker and the Branch workers answer through one queue to a
single-threaded controller. Contexts name positions, `reached` says where a
session stands and which request put it there. `WorkerDies`, premature timeouts
and faults share the budget `MaxFaults`. The pool belongs to one of three users:
the Holder / sibling attempt of `process_choice_branch_runner.py`, the beam's
batches, or direct calls with a registry kept between them. When the answers of a
call are in, `Settle` takes its items one by one, each drops or issues a lease.
`AwaitReady` is modelled with its flaw: it takes whatever comes first from the
shared queue.

### CombatGame, DrawEvidence, CombatMainLoop
`CombatGame` is the engine as its callers use it: a step is a function of state
and action, cards are drawn from the top of an ordered pile into the end of the
hand, cards open choices that cycle or top-deck, the discard pile may be
reshuffled. Main sees hands and multisets of piles. `DrawEvidence` is the code's
inference of drawn cards and its rewriting of a hypothesis. `CombatMainLoop`
captures at stable boundaries, extends the replay prefix, runs a segment or a
beam over hypotheses, executes a planned sequence with verification, and falls
back.

### RoomProgression
The state of a run is its path: the rooms and actions since `StartRun`; the engine
is a function of it. `drive_rooms` picks a fork, plays the room's boundaries,
reloads and routes around a room without a legal action; Branch attempts bring a
choice about in a holder, a sibling and a replay; external callers act on
decisions captured earlier.

### LiveCombat, CombatEpisode, TrajectoryBatch, OnlineEval, FloorReconstruction
`LiveCombat` has two sessions and an emulator on one engine. A session notices
from `(combat_session_id, step_index)` that another party restored the engine and
re-establishes its own state before it steps. `ScenarioOf` keeps the whole board but
for its prompt; the two enemy fields that a rebuilt scenario is documented to lose
(`battle_emulator.py:597-608`) are not told apart from the rest of the board.
`CombatEpisode` plays on it, its decider sweeping the same engine before every
decision; `OnlineEval` plays two arms per scenario from one base state.

`TrajectoryBatch` writes its files line by line: one line per decision, then the
meta, quality, result and event lines of a scenario, or its quarantine record. A kill
may come between any two lines or within one, which leaves a fragment (`torn`) at the
end of the file. A resume is a new process that appends, so the first line it writes
there is joined to the fragment (`joined`) and cannot be read. A result row may also
be complete but for its newline; the row after it then breaks the file, and every
later `--resume` raises.

`FloorReconstruction` plays a real run with identified cards next to the log that
does not identify them. It compares what the replay says with the player who came to
the map point (`entered`): the code gives that state to every combat room of the
point, also to one that an event or an earlier combat led to.

## 3. Runs

| Run | Bounds | Distinct states | Shows |
|---|---|---|---|
| `game_access` | 2 holders, 6 generations | 30,679 | `OwnerHasTheLease`, and that the guard implements `ExclusiveCapability` |
| `game_handoff` | 2 whole runs, 1 combat, 8 generations | 102,011 | `NoForeignMutation`, `HandoffSettles`, `SupersededStaysOut` |
| `api_session` | 2 sessions at capacity 1, 3 requests and 1 broken stream each, 2 server starts; 3 queue calls | 287,099 | `AtMostOnce`, `ClientAgreesWithLedger`, `EveryInstanceIsOwned`, `CallsMatchTheRuntime`, and under fairness `RequestsResolve` |
| `api_instances` | 3 branch ids, 2 rng ids, `max_branches` 2, 3 moves, 1 failing operation | 700,605 | `NoGhosts`, `BooksAgree`, `BranchesBelongToTheDecision` |
| `branch_manager` | 2 workers, 3 Branches, one respawn each, cut at a poll that finds leftovers | 2,150,127 | `LeaseIsTruthful`, `AncestorsReachDescendants`, `NoResultAfterTheEnd` |
| `search_dispatch` | 2 workers, 4 items, 1 retry; 2 callers on 2 threads, 1 respawn; 2 Branches at the respawn limit | 755,856 | `ItemsEndWithTheirOwnResult`, `RetriesAreBounded`, `HolderStepsOnItsContext`, `AnswersReachTheirCaller`, `ThreadsAreStopped`, and under fairness `CallsReturn`, `PollReturns` |
| `whole_run_pool` | 2 Branch workers and Main, 2 contexts, 2 faults, 2 to 4 calls | 631,004 | `HolderStepsOnItsOwnReach`, `LeasesAreSound`, `AnswersBelongToTheCall`, and under fairness `CallsEnd` |
| `decision_loops` | 6 small combats, one of which reaches `UnseenRefill`, 2 hypotheses, beam 2, 3 rounds; every map of 3 floors over 6 forks | 619,649 | `PrefixReplaysToMain`, `PinnedDrawsAreReal`, `HypothesesAgreeWithMain`, `PlansComeTrue`, `NoRoomEnteredTwice`, `SiblingReproducesTheHolder`, `StaleDecisionsAreRefused`, `ReloadUndoesOnlyTheRoom` |
| `combat_data` | 2 scenarios, 2 decisions, 2 invocations of a batch; histories of 3 points, 2 events and 2 combat rooms | 1,454,072 | `CommittedStepIsTheDecision`, `TrajectoryIsOnePlay`, `ResultRowsAreBacked`, `ExactStatesAreReal`, `ScenariosDealTheRealDeck` |
| `handoff_resync` | as `game_handoff` | - | a violation: finding 1 |
| `branch_manager_leftovers` | 2 workers, 2 Branches, one respawn each | - | a violation: finding 2 |
| `api_instances_outlive` | 2 branch ids, 3 moves, no failing operation | - | a violation: finding 3 |

Why the bounds are enough. Two holders suffice for a stale lease and its
successor; six generations hold two complete hand-offs, one of them rolled back,
eight let an instance enter and leave combat and be superseded on the way. Three
requests are start, use and close, or start, close and start again. One broken
stream leaves one stale frame; a ledger remembers only its last request, so one
stale frame and one resend meet every verdict. Three Branches make a chain of
grandparent, parent and child, or two siblings, on two workers where one may be
busy and one leased. Each worker can be replaced once, after which a respawn is
refused; finding 2 shows that a Branch may then be left running, and the affinity
of its worker is gone: `NoPollWithLeftovers` does not follow a later poll. Two rng
ids tell a shared hypothesis from two; one failing operation meets every half-done
state, and what follows it is unbounded but for the moves; three moves enter a
combat, leave it and commit once more. Four items on two workers queue one behind
another. Two faults let a respawn race a late answer of the worker it replaced.
The combats are chosen so that duplicates, reshuffles, choices at the start,
several choices in a row and a refill nobody sees occur; maps with dead ends at every
floor occur because all are enumerated. One kill and one resume leave a fragment in
any file and a line joined to it. Two copies of one card and two events make a history
whose log is ambiguous, two combat rooms a point whose second fight follows something
that happened there. What the last condition of `Determined` keeps out, a copy gained
later than another, an upgrade of one and a removal of the other, takes three events:
with `MaxPoints = 5` and `MaxEvents = 3` a state is called exact that is not, and
`ExactStatesAreReal` holds with the condition. `GenerationBound` and `NoPollWithLeftovers` cut behaviours, so they
are used only in runs without liveness properties. `Symmetry` and `WorkerSymmetry`
permute branch and rng ids, and workers, which no definition tells apart, again
only where no liveness is checked.

Deadlock is checked in the `GameAccess` and `GameHandoff` runs; every other
system may stop when its clients, items, rooms or files are done.

Fairness. `ApiSession`: the server's event loop runs, so an admitted request is
executed and a frame that stays on an open stream is read; clients read their
answers and react to an epoch change; nothing forces a stream to break or a
server to restart. `BranchManager` (`PollStep`, `VisitStep`) and `SearchDispatch`
(`Coordinates`): the coordinator is a running thread whose `get` has a timeout;
nothing is assumed of the workers. `WholeRunPool`: the controller runs (`Step`,
timeouts included), and a worker process that lives gets on with its request; it
may die at any time. The other modules make no liveness claim.

The `TypeOK` of a module documents its state; each of them holds in the runs of its
module, and those of the modules in section 5 are proved.

Every property of a passing run has a mutant in `PROJECT.json`: a definition of
the model changed the way a plausible bug would change the code, under which TLC
finds the property violated.

## 4. Findings

1. *The reset that never fires* (`handoff_resync`). The design note says the
   resynchronizing `ResetFromScenario` cannot fire on a live whole run, and that a
   failure after a physical step poisons the run. `step_live_action` can raise
   between its two engine steps, when the enemy the action targets is not offered
   any more; the caller then sees no advance, does not poison, and the next commit
   resets the game over the run.
2. *Leftovers of a poll* (`branch_manager_leftovers`). Past the thread pool's
   respawn limit, the cleanup of a failed poll raises in its cancel and in its
   release, and a Branch stays running although `poll` promises otherwise. It
   is picked up by nothing and counts against `max_branches` for ever.
3. *A Branch outlives its phase* (`api_instances_outlive`). Leaving a combat
   releases the Branches that are not cancelled; one that Training cancelled and did
   not release keeps its internal Branch, and the commit that ends the combat, or a
   later request, raises "combat Branch outlived its active CombatPhase", the
   commit after the session has stepped.

Seen while modelling, without a run of their own:
* `Run/worker_pool.py:824`: `_await_ready` unpacks the first message of the shared
  result queue as a readiness message. After a timeout the late answer of another
  worker can come first, and a respawn raises although the class comment
  (`:733-740`) says that a hung worker never surfaces as an uncaught exception.
  `WholeRunPool` has the behaviour (a call ends by raising).
* `API/instance_whole_run.py:1475`: a rolled back batch frees its branch ids, while
  `wire_contract_v0.7.md:165-173` says a branch id remains burned; the standalone
  combat (`instance_combat.py:246`) burns the id even of a refused request.
* `API/instance_combat.py:222`: a combat whose commit fails after its step marks
  itself closed, so `close_instance` releases neither lease nor workers.
* `Combat/search/multi_round_search.py:313`: a hypothesis round without a viable
  action returns an empty plan, and the loop searches the same boundary until
  `max_iterations`.
* `Combat/search/multi_round_search.py:113`: the default loader restores
  into the process's own game; `CombatMainLoop` has it behind `InProcessLoader`, and
  `SearchLeavesMainAlone` holds exactly when a caller passes a loader of its own.
* `Combat/data/run_trajectory_batch.py:675`, `:714`: a resumed batch appends to files
  that may end in a fragment of a line, without a newline before its own. The first
  line it writes to such a file cannot be read, so a result row may stand for a
  decision, meta or quality line that is lost. `ResultRowsAreBacked` bounds the
  loss: one line of each file for each resume. If the fragment is of the result rows,
  the file is broken after the next row and no `--resume` succeeds any more.
* `Combat/data/reconstruct_floor_state.py:300`: every combat room of a map point is
  given the state the player came to the point with, and the docstring (`:17-20`)
  calls it "exactly what the player had entering this fight", naming the event that
  triggers a fight. After the event, or in a second room, it is not.
* `Combat/data/reconstruct_floor_state.py:189`: the choice of the copy to upgrade is
  called "always benign". It is not once a removal, pinned to a floor, takes the copy
  that was not upgraded in truth: the state is wrong and still called exact. Nor
  does `classify_restore_status` look at the warning that the variant of a MAD_SCIENCE
  is unknown. `ExactStatesAreReal` has the first as a condition and does not
  compare the second.
* `Combat/search/replay_draw_restore.py:219`: a step that draws the whole pile, has it
  refilled from the discards and leaves a pile of the same cards counts as no draw,
  although the class promises that a change the step does not explain blocks later
  pinning (`:27-33`). The code then pins cards that were never there, and hypotheses
  diverge from Main. A combat of `decision_loops` does this, and `UnseenRefill` is the
  condition under which `PinnedDrawsAreReal` and `HypothesesAgreeWithMain` claim nothing.
* `API/mock_training_client.py:49`: a request without an instance id is refused
  before the ledger but counted by the client, and every later one is a gap.

## 5. Proofs

Every theorem holds for every value of the constants that the named assumptions
allow: any number of holders, instances, sessions, workers, threads, Branches,
contexts and requests. The bounds that cap a counter in a guard (`MaxSeq`,
`MaxDrops`, `MaxEpoch`, `MaxCalls`, `MaxFaults`, `MaxSerial`, `MaxExecutes`) are
arbitrary naturals there. The state constraints and symmetries of the runs play no
part. Each inductive invariant was also checked by TLC on its run's instance.

| Module | Theorems | Assumptions |
|---|---|---|
| `GameAccessProofs` | `TypeCorrect`, `OwnerKeepsLease` (`OwnerHasTheLease`), `ImplementsCapabilities` (`ImplementsExclusiveCapability`) | `NoHolderAssumption` |
| `InstancesProofs` | `TypeCorrect`, `MutationsStayHome` (`NoForeignMutation`), `HandoffsSettle` (`HandoffSettles`), `NoComeback` (`SupersededStaysOut`), `HandoffUsesTheGuard`; `InstancesInvariance`, `InstancesHaveNoGhosts` (`NoGhosts`), `InstancesBooksAgree` (`BooksAgree`), `InstancesKeepToTheDecision` (`BranchesBelongToTheDecision`) | `InstanceAssumption`, `RootAssumption`, `CapacityIsNatural` |
| `ApiTransportsProofs` | `TypeCorrect`, `ExecutesAtMostOnce` (`AtMostOnce`), `LedgerAgreement` (`ClientAgreesWithLedger`), `InstancesAreOwned` (`EveryInstanceIsOwned`), `CallsMatch` (`CallsMatchTheRuntime`), `BothTransports` | `CapacityAssumption`, `BoundAssumption`, `CallsAssumption` |
| `BranchManagerProofs` | `TypeCorrect`, `NoRevival` (`NoResultAfterTheEnd`), `CascadeKept` (`AncestorsReachDescendants`), `LeasesTellTheTruth` (`LeaseIsTruthful`, conditional) | `BranchAssumption` |
| `WorkerPoolsProofs` | `TypeCorrect`, `OwnResults` (`ItemsEndWithTheirOwnResult`), `BoundedRetries` (`RetriesAreBounded`), `HolderOnItsContext` (`HolderStepsOnItsContext`), `AnswersAreOwn` (`AnswersReachTheirCaller`), `CloseStopsThreads` (`ThreadsAreStopped`), `BothDispatches` | `AlcAssumption`, `DispatchAssumption` |
| `WholeRunPoolProofs` | `TypeCorrect`, `HolderRunsOnItsReach` (`HolderStepsOnItsOwnReach`), `LeaseSoundness` (`LeasesAreSound`), `AnswersAreTheCalls` (`AnswersBelongToTheCall`) | `PoolAssumption` |
| `CombatDataProofs` | `Invariance`, `DecisionsAreCommitted` (`CommittedStepIsTheDecision`), `TrajectoriesAreOnePlay` (`TrajectoryIsOnePlay`), `RowsStayBacked` (`ResultRowsAreBacked`); `FloorInvariance`, `ScenariosAreTheRealDeck` (`ScenariosDealTheRealDeck`), `ExactIsReal` (`ExactStatesAreReal`) | `OpeningAssumption`, `BoundsAssumption`, `SnapshotsAssumption`, `EpisodeAssumption`, `ManifestAssumption`, `AttemptsAssumption`, `EvalAssumption`, `StartAssumption` |
| `DecisionLoopsProofs` | `RoomInvariance`, `RoomsEnteredOnce` (`NoRoomEnteredTwice`), `PrefixesReproduce` (`SiblingReproducesTheHolder`), `StaleRefused` (`StaleDecisionsAreRefused`), `ReloadsOnlyTheRoom` (`ReloadUndoesOnlyTheRoom`), `LoopsKeepTheDrivers`; `MainInvariance`, `MainCanBeRestored` (`PrefixReplaysToMain`), `PlansHold` (`PlansComeTrue`), `LoopsKeepTheMainLoop` | `MapsAssumption`, `RoomBounds`, `EffectAssumption`, `OpeningsAssumption`, `WidthAssumption` |

The assumptions say that the markers for "nobody" are not members of the sets they
stand outside of, that there is a worker and room for a session, and that bounds
are naturals. `DispatchAssumption` adds that the hypotheses of a grid are finitely
many and that candidates are numbered. Those of the last two modules say what kind of
value a scenario, a snapshot, a manifest, a starting deck, a map, a card's effect and
an opening are.

**GameAccess.** `OwnerHasTheLease` is not inductive: nothing in it says that the
old leases are old. `IInv` adds `LeaseInv`: no issued lease has a generation above
the guard's, a generation identifies its lease, the lease of the present owner (or
of the open transfer) was issued with the present generation, a transfer's origin
is recorded exactly while it is open, and a poisoned guard has no holder. A new
lease has the next generation, so it differs from all issued ones
(`FreshGeneration`) and makes them all unusable; a release or a poisoning makes
every lease unusable (`NothingUsable`). The refinement (`StepRefines`) maps each
action to a grant, a revocation, a shutdown or a stutter, from the fact that at
most one issued lease is usable, and which one (`UsableDetermined`).

**GameHandoff.** A mutation goes to the right board because the guard's holder
tells whose board it is. That needs to know which lease every instance could
present: `InstInv` says it of the instances no handler is running for, `StepInv` of
the one whose handler is between two steps: which transfer is open, where it would
roll back to, and which of its two leases the guard accepts. `Bystander` carries
the first across the steps of another instance, and there is one lemma per handler.
`HandoffUsesTheGuard` shows `Spec => GA!Spec`: the handlers use the guard only
through its methods, so what is proved of `GameAccess` holds here too. That needs
`IssuedInv`: every lease an instance keeps was issued.

**ApiInstances.** A request is one step that takes a batch of books, ids, records and
hypotheses through several changes and may fail between any two of them, so the
invariant is a statement about one ledger, `LedgerInv`, that every operation on a
ledger is shown to keep (`SubmittedKeeps`, `AnswerKeeps`, `FinalizedKeeps`, ...), and
an action is a short composition of them. `NoGhosts` needs both directions of the
link between records and reservations: every record that is not released is paid for
(`PaidFor`), and a reservation names a record the phase knows, released if its Branch
is (`Knows`); only then does dropping the reservation of a released Branch leave no
ghost. `BooksAgree` needs the hypothesis table itself: a key is listed once, the keys
of one decision have different indices below the decision's next one (`TableInv`), and
a Branch has the index listed for its key (`Linked`). Undoing an allocation restores the
very table there was (`BatchTable`), which is why a rollback cannot give two rng_ids one
index later. `RefInv` is `EventReferencesAreExact` for every key. For
`BranchesBelongToTheDecision`, `WhereInv` says that a run which is neither poisoned nor
torn has its decision point and all its views where the run stands. A poisoned run keeps
less: its phase is gone while reservations and books remain, hence the `faulted`
parameter of `ReserveInv` and `LinkInv`. `CombatInv` is the same for a standalone
combat, whose ledger has no reservations: while it is open, no record is active and one
that is not released has its book.

**ApiSession, RuntimeProcess.** What a late frame may do depends on what else of
its session is under way. `IInv` says where the frames, the handler, the ledger
and the responses of one session can stand relative to its client: everything on
its way is of the present epoch, what travels on the client's present stream is the
one open request or its one response, and every other frame repeats a request the
ledger has seen, so that its verdict is a replay, a conflict or a gap, and never an
execution. For the queue pair, `RuntimeInv` follows the newest request: while it is
in the child's queue it is what the client believes it sent, and once its answer is
in the other queue the history `done` tells the same story. `BothTransports`
combines them for the composed specification of the run.

**BranchManager.** `BaseInv` holds of every behaviour. `PollInv` says that what a
poll still has to send is queued and that a slot names a Branch running on its
worker, so an answer finds a running Branch or is discarded. `CascadeInv` says that
a Branch which still matters, because it is not released or has children of its
own, is listed by the Branch it was submitted under, which is what makes pruning
safe; `AgendaInv` keeps the unvisited part of a walk alive across its visits. The
conditional theorem is `Spec /\ []NoPollWithLeftovers => []LeaseIsTruthful`: finding
2 shows that a refused respawn can leave a Branch running, and from a poll over
such a Branch on two Branches may run on one worker, and leases mean nothing. The
hypothesis is what the run's constraint says, and `BaseInv` does not need it.
`RunInv` (one runner per worker, nothing else in its queue, an answer in flight
names the worker's runner) and `LeaseInv` are shown preserved by each kind of step.

**AlcPool.** No lock spans the way of a request from `_submit` to its caller. What
keeps answers apart is that an id is in one place at a time: with its submitter, in
one input queue, on one thread, in the result queue, in one caller's hand, or
parked (`FlowInv`). `StoppedInv` says that a thread which is no worker's handle was
told to stop when it was abandoned, as long as a worker has one caller.

**SearchDispatch.** A timeout or a respawn loses requests, and their answers may
still come. `IdInv` says that a request id stands for one item wherever it turns up,
in an input queue, in the result queue or among the requests waited for, so what is
recorded for an item is an execution of it. `RoundInv` says that every pending item
that was routed has a result or an open request, so none is without a result when
the round is accounted for. `CountInv` says that an item's attempts keep up with the
rounds it was in, which bounds the rounds by `max_retries + 1`. `StateInv` says that
an item is pending or to be retried until it is decided, and that a decision agrees
with the recorded result; `DistinctInv` that with distinct items none is decided
while it is still pending, which is why only a shared work id can make
`decide_retry` raise. `HolderInv` says that what a worker retains is where its engine
stands, and that a queued Holder Step carries a lease of this process.

**WholeRunPool.** A lease is a belief of the controller about a process it cannot
see. Request ids grow along every input queue (`IdInv`) and an answer leaves
nothing older behind it (`AnswerInv`), so when a call is settled the leased worker's
queue is empty; whatever would move that worker to the same context again goes
through `_route`, which drops the slot's leases first (`LeaseInv`, `HolderInv`). A
lease issued by an earlier item is not claimed true while a later item of the same
context is still to be settled, which is why `LeaseInv` has its exception. Generations
separate the answers of a replaced process from those of its successor.

**LiveCombat, CombatEpisode, TrajectoryBatch.** A commit reaches the right state
because a frame stands for one board. `FrameInv` says that a session whose frame the
game reports retains the very board the game shows, and that no session is ahead of
the game on one combat; whatever an emulator or another session does to the game in
between ends on a frame that no other session holds (`Reaches`), so the session
notices and restores first. `EpisodeInv` carries that board through an episode: it is
where the last recorded decision ended, and the decider's sweeps leave it alone.
`BatchInv` says how far the write loop got: which lines of the current scenario are on
disk, decision by decision, and that a scenario of this invocation has a row exactly
when the loop is past it. `JoinInv` bounds what is lost: a file ends in a fragment only
if an earlier invocation left it, and then this one has not written to the file yet,
so it joins at most one line. A kill keeps what is on disk and forgets the rest.

**FloorReconstruction.** `FloorInv` (defined in `CombatDataProofs`, in the section on
the steps of the run and the scripts) compares the replay of a run with the player the
run was recorded from, and has two halves, because the log keeps two kinds of fact.
How many copies of a card id and of a potion there are is a sum over the lists of the
points: each entry adds or takes away one (`Delta`, `Change`), so neither the order the
lists lost nor the copy the replay picked matters. As long as no `NOTFOUND` warning
was left, the player has what the replayed state has plus what the current point
lists (`PointInv`), and the player who came to the point (`entered`) had the tally the
replay starts the point from, which is the state every combat room of the point is
given; that is all `ScenariosDealTheRealDeck` needs, which is why it holds of
`ambiguous_upgrade` records too, and of every room. Upgrades and relics depend on the order. The second
half says that the replay has them right under `SettledBy`: each point has entries of
one kind of card event and one kind of relic event, so the replay applies them in the
order they happened (`EntryComesLast`), and each card id of which a copy is lost comes
from one floor, so a removal that was not flagged `AMBIGUOUS` takes a card with the same
upgrade as the one given away (`RemovalAgrees`; `OriginsIn` carries the floors). `ExactStatesAreReal`
follows, because its `Determined` is `SettledBy` of the points before the room. A
point recorded without its stats leaves the hit points unknown, hence a `NOTFOUND`,
and nothing is claimed from there on. The lists and points are replayed by recursive
functions (`ApplyList`, `ReconstructAll`), which the proofs can unfold.

**RoomProgression.** `DriveInv` says where the saved fork lies: the run is the fork or
one room beyond it, and the rooms tried there are the rooms of that fork that were
visited, so a room that is entered is new and a reload takes back one room.
`AttemptInv` says what the recorded prefix is: the ids, followed one by one from the
room (`Trail`), lead to the choice the holder had, with what the reward drain did on
its own among them, so the sibling and the replay arrive there too. `CaptureInv`: a
caller's run only grows, a captured path is a prefix of it, and the length in the
decision id tells whether it is the whole.

**CombatMainLoop.** `MainInv` says of everything the loop holds what a replay makes of
it: replaying `prefix` on the root gives Main's state with no mismatch (`ReplayInv`),
a context of the search replays to the state its Plan Path leads to from Main's
(`GoodContext`), an expansion is one resolving step further with the signature that
step meets (`GoodExpansion`), and each step of a plan resolves where the steps before
it lead and meets its signature there (`GoodPlan`). An entry may only be appended
because replaying one more entry is one more step (`ReplayAppend`), and a plan may
lose its head because a path can be followed from its second state (`ReplayHead`).
Nothing is assumed of the deck or the choices but their types.

**Induction.** `Replay`, `Draws`, `Places`, `ApplyList`, `ReconstructAll` and the
autoplay loops of the drivers are recursive functions over sequences of any length. They are shown to exist and to
satisfy their equations from the well-foundedness of the naturals, and a fact about
all lengths is shown at a least counterexample (`LeastOf`): the set of lengths where
it fails has a least member, which is not 0, and the fact before it gives the fact
there.

Only model-checked:
* liveness (`RequestsResolve`, `CallsReturn`, `PollReturns`, `CallsEnd`), which is
  beyond the prover, as is `ENABLED`;
* `PinnedDrawsAreReal` and `HypothesesAgreeWithMain`, both where no refill went unseen
  (`UnseenRefill`). The last combat of the run has such a refill, and there both fail
  without the condition (`replay_draw_restore.py:219`);
* the three runs that expect a violation, which are about particular behaviours.

## 6. Plan

`DrawEvidence`: a proof of `PinnedDrawsAreReal`, for all decks, where no refill went
unseen.

## 7. Not modelled

* The CLR engine is external: whose run it holds and whether it moved; in
  `CombatGame` and `LiveCombat` a small deterministic combat; in `RoomProgression` a
  function of the path.
* Masking, history, terminal outcomes, feature encoding, rewards, scoring and the
  conversions of engine objects are functions of one value, and unit tests reach
  them. Reports, schemas, generated ids, metrics and logs change no state.
* Frames are whole and requests well-formed but for what `Validated` refuses;
  frame parsing and size limits are not modelled.
* Process spawning is a step that succeeds, or fails where a limit refuses it.
  Worker processes of a trajectory batch share nothing; their episodes run one
  after the other.
* `CombatMainLoop` leaves out restorable choices at the start of combat, the list of
  forced moves and the public summaries.
* `RoomProgression` leaves the leases to `GameHandoff`. Its external callers capture a
  decision and answer it on a path that only grows: a caller that reloads a saved state
  in between is not modelled, and a decision id, which is the number of steps, could
  then name two decisions. Of two free sessions of `LiveCombat`, the second only
  takes over or gives up the game.
* `LiveCombat` restores a board losslessly but for its prompt. The two enemy fields
  that have no key in an observation (`battle_emulator.py:597-608`) are part of the
  board like any other, so what their loss does to a combat is not shown.
* A caller of `WholeRunPool` respawns a worker only of an open pool: `respawn_worker`
  has no check of its own, and its callers hold a pool they have not closed.
* `ThreadsAreStopped` says nothing of a worker with two callers; that hazard is listed
  and left open.
* `FloorReconstruction` leaves out gold, counters, malformed logs and the
  splitting of its output into training sets.
* The `_*_combat_branch` methods of `instance_whole_run_beam.py` are not reached
  from any operation.
* Policies, legacy code, endurance and verification runners drive the parts above
  and keep no protocol of their own. `PROJECT.json` gives the reason for every
  component that is left out.
