# DendriSwarm in TLA+

DendriSwarm lets volunteer machines improve a shared model. A coordinator hands
out leased tasks, compares what independent identities report, and applies a
delta to the canonical model only when enough of them confirm it. This
directory specifies the parts of the system whose correctness depends on the
order of events (leases, accounts, evidence, files, restarts, lost messages) or
on two pieces of code deriving the same thing twice (write plans, resource
contracts), checks them with TLC on small instances and proves the central
invariants with TLAPS for every instance.

Paths below are relative to `src/dendriswarm/`.

## 1. The system

| Component | State | Operations | Talks to | What is hard |
|---|---|---|---|---|
| Lease queue, `coordinator/db.py` | `tasks` rows: status, holder, lease token, expiry, deadline, attempts, excluded nodes | add, claim (sweeps first), renew, abandon, complete, reject, sweep from `stats` | workers over HTTP, every pipeline below | late and repeated requests of former holders, expiry against renewal, one lease per identity |
| Accounts, `coordinator/db.py` | `nodes.credit_units`, `ledger`, `inference_requests` | credit, bond, debit, refund, reward | lease queue | the column and the ledger are written separately, some statements autocommit |
| Result handlers, `coordinator/service.py` | `work_reports`, `candidate_verifications` | `process_result`, tie-breakers, paid inference, leases | queue, accounts, Native10 | reports in any order, duplicates, rejection of a result in mid-transaction |
| Reference pipeline, `coordinator/service.py` | candidates with their trainers, verifications and status | bootstrap, exploration, training, verification, the canonical place | queue, accounts | quorums of three stages, tie-breakers, configurations that finish in any order |
| Native10 v6, `v6/service.py` | `state.json`, checkpoint, two holdout artifacts, and the queue's rows | install, `queue_mutation`, four kinds of reports, promotion | queue, accounts, campaign | four stages of replicated evidence, candidates decided in any order, files and SQLite in one handler |
| Native10 v6 model, `v6/native10.py` | tensors, rotation phases | bundle, train, validate, compare, compose, apply | v6 and the worker | worker and coordinator derive the same selectors from the topology, conflicts of boxes, stale deltas |
| Native10 v5, `v5/service.py`, `v5/native10.py` | `state.json`, checkpoint, validation artifact | install, queue, mutation and verification reports, promote, reject | queue, accounts | one handler replaces files before SQLite commits, rounds without an operation that ends them |
| CIFAR-100 campaign, `v7/campaign.py` | `campaign.json`, banks cut into folds | prepare, status/reconcile, plan, queue next, final test | Native10 v6 | no lock, two stores, outcome inferred later |
| Locality leverage, `leverage/` | ledger, epoch, candidates, canonical root, `leverage-state.json` | register, fund, submit, canary batches, close, reveal | HTTP clients | speculative promotion and rollback, idempotent keys, state file behind memory |
| Worker, `worker/` | policy, outbox, receipts; loop and renewal thread | register, poll, execute, renew, abandon, deliver, resend | coordinator | lost requests and answers, restarts, policy changes in mid-task |
| Resource contracts, `core/resources.py`, `core/models.py` | - | declare, compare with a node, derive again, compare | coordinator and worker | two computations of one number |
| Dashboard, `dashboard/` | `processes.json`, settings, threads | start, stop, status, settings, autostart | seed and coordinator processes | one unlocked file, threads, reused pids, kills and reboots |
| HTTP layer, `coordinator/app.py`; CLI | none of its own | route | all | handlers run in a thread pool |
| Models and mathematics (`validation.py`, `tissue.py`, `cifar100.py`, ...) | - | pure numerical functions | - | arithmetic, outside the scope of TLC |

How they interact: a worker's requests arrive in threads of the HTTP layer;
`Database.lock` makes each handler of the queue, of the result pipeline and of
Native10 one step, and `claim_task` and `process_result` are one SQLite
transaction besides. Five places break that pattern, and each has its own
model: statements that autocommit (`TaskQueueCrash`), files that are replaced
while the transaction is open (`Native10Crash`, `Native10V5`), the campaign, which
locks nothing (`Campaign`), the network and the disk between a seed and the
coordinator (`SeedNode`), and the dashboard's threads (`Supervisor`).

What makes each part correct:

- queue: one lease per identity, a lease ends by its deadline, a task fails only
  by the fault of enough different identities;
- accounts: the ledger explains every balance, nothing is overdrawn, each paid
  inference is settled once, a bond returns only to a live lease;
- reference pipeline: exactly those who agreed are paid, trust needs the whole chain of
  evidence, the best trusted candidate is canonical, verdicts last;
- Native10 v6: a promotion rests on complete and independent evidence, the strongest
  candidate is taken, a holdout judges once, rewards go to the promoted work, no
  round hangs by itself;
- Native10 deltas: what honest training yields is admitted, what conflicts is found
  exactly, no expert is forgotten;
- Native10 v5: one line of promotions, each with its rewards, a round ended by its own
  candidate;
- campaign: a preparation hands out each fold once, the history is true;
- leverage: the ledger agrees with the candidates, the canonical lineage consists
  of candidates in good standing, verdicts stand;
- seed: its receipts agree with the coordinator's table, no result that could still be
  accepted is given up but on the coordinator's answer, every result is settled;
- contracts: work the coordinator queues is work the seeds accept;
- dashboard: no process is lost, no foreign process is stopped, the page catches up.

## 2. Modules

| Module | Models | Uses |
|---|---|---|
| `TaskLifecycle` | abstract: what the queue promises about a task | - |
| `TaskQueue` | `db.py` queue and accounts, the result, lease and inference handlers of `service.py` | `TaskLifecycle` (refinement) |
| `TaskQueueCrash` | kills between the statements of a sweep or an abandon | `TaskQueue` |
| `SeedNode` | `worker/node.py` with a network that loses and delays, composed with the queue | `TaskQueue` |
| `ReferencePipeline` | bootstrap to canonical candidate in `service.py` and `db.py`, the queue reduced | - |
| `Contracts` | `core/resources.py` in the hands of the coordinator and of the seed | - |
| `Native10Round` | `v6/service.py`, the queue reduced to what its clients see | - |
| `Native10Crash` | kills inside a handler, after some of the files were replaced | `Native10Round` |
| `Native10Deltas` | `v6/native10.py`: shapes, write plans, budgets, conflicts, application, rotation | - |
| `Native10V5` | `v5/service.py`, the files and SQLite apart | - |
| `Campaign` | `v7/campaign.py`, the native coordinator reduced to what it shows | - |
| `Leverage` | `leverage/service.py`, `ledger.py`, `epoch.py` | - |
| `Supervisor` | `dashboard/runtime.py`, `server.py`, the processes outside | - |
| `TaskQueueProofs` | theorems of the queue, of its kills and of the seed | `TaskQueue`, `TaskQueueCrash`, `SeedNode` |
| `ReferencePipelineProofs`, `Native10Proofs`, `Native10DeltaProofs`, `Native10V5Proofs`, `CampaignProofs`, `LeverageProofs`, `SupervisorProofs` | the other theorems of section 6 | the modules of their names |
| `MC*` | small instances for TLC | |

**TaskQueue.** `task[t]` is the row of table `tasks`; a row also remembers in
`base` the exclusions it was last written with, which the code does not store and
which only the properties read. `credit` is the column `credit_units`, `balance`
the sum of the node's ledger rows, `ledger` the set of entry keys. Actions are
named after the operations. `ClaimTask` is the whole of `claim_task`: the sweep
of every expired row with its quarantines and refunds, the refresh of stale
contracts, the check that the node holds no lease, the choice by priority, the
bond, the token. Time is relative: a row stores the ticks its lease and deadline
still have, and `Tick` lets time pass for all. Workers are the set `held` of all
envelopes ever issued: anybody may use any of his envelopes at any time, in any
order, again and again. This covers delayed, lost, repeated and reordered requests
without a network in the model.

**SeedNode** replaces one of those workers by the real one. Its loop is a `pc`;
registration, claim, renewal, abandon and delivery are each answered (handler and
reaction are one step) or lost, and a lost request may still arrive (`late`). A
kill leaves the policy file, the outbox and the receipts. The other nodes stay as
free as before. Besides accepting, repeating, refusing and rejecting a result the
coordinator may answer that a handler raised (`coordinator/app.py:240`: 400, or 413 and
422 before it): everything is rolled back, the lease lives, and the worker deletes the result
like any it was refused (`RolledBack`).

**ReferencePipeline** claims and answers a replica in one step; a fault stands for
everything that requeues a replica without its holder. An honest execution yields
what `Honest` says for the node's machine (runs on different machines may differ in the
last digits, which `artifact_consensus_hash` rounds away); `MaxTrouble` reports are wrong.

**Contracts** computes with the real formulas and real sizes. A configuration is its
branches and iterations, a dataset its counts and its bytes.

**Native10Round.** `round`, `candidate`, `contributions`, `selection`,
`replication` are the parts of `state.json`, `checkpoint` is the model file.
A checkpoint is the sequence of the deltas applied to it, so that equal content
has equal roots; a delta is its parent root and its kind. Evidence is a score, or
`Malformed` where `_verification_gate` raises. A handler that raises is rolled
back, so it is simply not enabled. `Trained` and `Evidence` say what workers may
report: a single value per slot or kind makes them honest, several make them
disagree.

Installing a checkpoint again makes the store forget its candidates while the queue keeps
their tasks; `forgotten` remembers how many rounds that concerned.

**Native10Crash** adds one action per handler that replaces files, the installation, the
failing replay and the failing replication included: the store is as far as the handler had come,
SQLite is as before, the worker still holds its lease and reports again.
`Undisturbed` says when the choice of a round is promised: the store was not
replaced after a round, and a kill happened, if at all, in the first round.

**Native10Deltas.** A patch is a tensor and a box of cells; the worker's side
(`Patches`, from `execute_mutation`) and the coordinator's (`ExpectedWritePlan`,
`PatchesAllowed`, `Budget`) are translated separately from their own code, so that
`HonestWorkIsAdmitted` compares two derivations. The values of cells are left out.

**Native10V5** keeps `files` and `db` apart. Every handler ends in `Commit`: both
change, or after a kill the files are a prefix of the writes and SQLite is as before.

**Campaign.** Each request is a small program with a `pc`; every read or replacement
of `campaign.json` and every call of the native coordinator is a step, and any number of
requests run at once. A fold is its rows: the seed the banks were split with and the index,
so that preparing the dataset again with the same seed, which is the default, hands out the same
folds again. `overtaken` remembers whether a request has written the file although it had
changed since the request read it, or has queued a round while its read was out of date, its
holdouts replaced, or another round or reset about to be recorded.

**Leverage.** Every method of the service is an action ending in `Persist`: the
state file is replaced, or the write fails and memory is ahead of it. `Restart`
loads the file. A root is the sequence of labels of the manifests composed into
it. What the statistical gate, a canary batch or the replication says is chosen.

**Supervisor.** A thread serves one request at a time; reading the map of records,
looking at the processes, writing the temporary file and replacing the real one are
steps. The outside lets processes end, gives pids to other programs, kills the
dashboard and reboots the machine. `excused` remembers that a start overlapped another
request or was killed half-way.

Where the models choose and the code computes (numerical evidence, training,
statistics), every outcome the code can produce is possible. Hashes and signatures
are assumed to identify content and sender. Formats, limits on sizes, logging and
the text of errors are left out. The audit tables are left out too: they are
appended to and not read by any modelled decision.

## 3. Runs

| Run | Distinct states | Question |
|---|---|---|
| `inferences` | 18 281 | Are leases exclusive, accounts explained, inferences settled once; does the queue implement `TaskLifecycle`; does every lease end? |
| `replicas` | 50 650 (up to symmetry) | Are the replicas of a job in different hands, and does a contract refresh keep the attempts honest? |
| `crashes` | 63 372 | What do the accounts look like after a kill between two statements? |
| `seed` | 247 260 | Do a seed's receipts and the coordinator's table agree over a network that loses and delays; is a result given up only on the coordinator's answer; is every result settled? |
| `pipeline` | 59 910 | Is the canonical candidate the best that earned trust, is exactly the consensus paid, do verdicts last? |
| `native10_round` | 395 942 (up to symmetry) | Strongest candidate, one-shot holdout, earned and independent promotions, rewards, rounds that can end, with a lost lease or a kill |
| `writes` | 12 247 | Are honest deltas admitted, conflicts exact, trained changes delivered, experts rotated? |
| `legacy` | 366 854 (up to symmetry) | v5: one line of contributions, each with its rewards, rounds that can end |
| `campaign` | 2 417 190 (up to symmetry) | Two requests at once, new preparations and a kill: is a fold handed out once, and is the history true? |
| `leverage` | 80 698 | Ledger, lineage, verdicts, with a failed write and restarts |
| `supervisor` | 423 926 | Is a managed process ever lost, a foreign one stopped, the page wrong for ever? |
| `contracts` | violation | Do seeds accept the work the coordinator queues? |

**Bounds.** Every bound is a constant in the guard of the actions it bounds.

- Queue: `MaxLeases` (3 or 4 tokens minted, 2 in `seed`) is enough for a lease to be
  swept, granted to another node and swept again while both former holders still
  send requests, and for a tie-breaker after two disagreeing replicas. Lease and
  deadline spans of 1 and 2 ticks put the expiry on either side of the deadline.
  In `inferences` one node can afford two bonds and one a bond only while it does
  not pay for an inference.
- `seed`: `MaxLate` 1 request under way after the seed has stopped waiting for its answer.
- `pipeline`: `MaxTrouble` 2 faults or wrong reports, five nodes, which a whole
  chain of exploration, training and verification with one tie-breaker needs.
- `native10_round`: five nodes: two searchers, of which one may find either delta, two
  verifiers per candidate, a replay node, and replicators that must be distinct
  from all who selected; identities are interchangeable and a symmetry set. Its second round is
  begun, to look at shared records, but not worked on (`OneRoundWorked`),
  and `OneDisturbance` limits a behaviour to one lost lease or one kill: both are
  constraints on what TLC explores, in `MCNative10Crash`.
- `legacy`: three rounds, two installations of a checkpoint, one failed replica,
  one kill, a budget of two evaluations per validation artifact.
- `writes`: two real topologies with small dimensions; four (or two) promotions, so that a
  rotation of three experts (or two groups of two) comes round; two deltas waiting.
- `campaign`: two requests at once, two seeds, two preparations, two folds each, three native
  rounds, one initialization and one kill, so that a round can get rows of one before it because of
  a kill, and another because the dataset was prepared again. Both properties
  except what follows an overtaken read, so the search stops there (`MCFollowed`); what a request will
  not read again is no part of a state (`MCView`).
- `leverage`: three generations of manifests, so that a descendant of a revoked
  candidate exists; one failed write.
- `supervisor`: two births, two requests and one kill per behaviour, two pids.
- `contracts`: the sizes of the real bootstrap.

Deadlock is not checked where the system may rightly stop, namely when leases,
rounds, folds, losses or requests of the instance are used up.

**Fairness.** `TaskQueue` assumes weak fairness of `Tick` and `Stats`: time passes, and
`/v1/stats` is polled, which the dashboard page does every two seconds
(`coordinator/app.py:326` and the page at its end); nothing else makes an idle
coordinator sweep. Workers are not assumed to do anything. `SeedNode` assumes
strong fairness of the answered registration, loop step and delivery: the loop
retries for ever (`worker/node.py:497`) and not all requests are lost.
`Supervisor` assumes that the page polls and that each thread goes on. The Native10
models assume no fairness: that a round does not hang is `RoundsCanEnd`, a state
invariant saying that somebody can always be offered work for it.

## 4. Properties worth reading

- `AttemptsCountFaults`: the counter `attempts` goes up at a claim, down at an abandon,
  back to zero at a refresh; yet it always equals the number of distinct
  identities at fault plus the current holder.
- `Lifecycle`: refinement of `TaskLifecycle`. One step of the queue may move many
  tasks (a claim sweeps first), so the abstract next-state relation is a
  conjunction over tasks. Contract refreshes, which forget faults, are outside
  the promise; `inferences` has no refreshable task.
- `RecordsAgree` and `GivenUpIsAnswered`: a seed and the coordinator keep their own
  records of the same result, and between them are a network and a disk. A result that could still
  be accepted does get lost, but only when the coordinator answered it with an error
  and rolled back (section 5); a late copy of it may then be accepted after all.
- `PaidExactlyForConsensus`, `TrustIsEarned`: rewards and trust are computed at the
  report that completes a quorum, tie-breakers may complete it later.
- `IndependentEvidence`: exclusions are computed when a task is queued from records
  that fill up later. The pair selection verifier/replay node is left out
  on purpose, see section 5.
- `HoldoutIsOneShot`: what late reports could break.
- `RoundsCanEnd` (v6 and v5): no operation closes a round from outside, so each must
  be able to end by its own work; what it excepts are the ways a round really hangs.
- `OnlyKillsCostRewards`: rewards are computed from the candidate's record, `Due` from
  queue and reports; they agree unless the coordinator was killed between
  promoting and committing.
- `OnlyKillsReuseFolds`: a preparation hands out each fold of either bank once, up to one
  per kill, whatever requests run side by side; if that fails, a request has acted on a read that
  was no longer true (`overtaken`), which is the only way overlapping requests do harm.
- `LineageIsLinear`: v5's contributions are one line of disjoint quorums after kills and
  after a new checkpoint, but not after both (section 5).
- `LockedMatchesCandidates`: the leverage ledger slashes the smaller of a debt and the
  locked balance, which would hide any disagreement with the records.
- `LineageIsEarned`: a promotion is speculative and is undone by restoring its
  parent; the lineage must not lose or keep the wrong candidate.
- `ConflictsAreSharedCells`, `HonestWorkIsAdmitted`: the coordinator's interval arithmetic and its
  write plan against the set of cells and the worker's patches.
- `NothingOrphaned`: the dashboard can stop whatever it has started.

## 5. Findings and observations

The run `contracts` finds that the coordinator and the seed compute the size of an
artifact differently (`core/resources.py:233`): for a task without an artifact the
seed adds the two characters of `str({})`. Above the 64 KiB floor, where the digits data
lies, every exploration contract is two bytes short, and each seed gives the task back.

Observations made while modelling, which have no run of their own. The first group are
departures from what a document says:

- `stats()` sweeps in autocommit mode; killed between failing the row and the refund,
  the requester of a paid inference is never refunded (`db.py:463`,
  `docs/HOSTILE_PARTICIPATION_V041.md:16`).
- After a v6 round closed without promotion an honest search finds the same delta
  again; `record_candidate` refuses it and the round never ends (`v6/service.py:461`).
- Overlapping requests of the campaign: a status request writes back the
  `campaign.json` it read before `queue_next` advanced it (`v7/campaign.py:233`,
  `docs/CIFAR100_SWARM_V07.md:40`). The properties of `Campaign` end at such a write.
- "Each selection/replication fold is consumed once" (`v7/campaign.py:28`), and a campaign
  "never silently reuses a consumed fold" (`docs/CIFAR100_SWARM_V07.md:40`): `prepare_dataset`
  with `replace` splits the banks again, with the default seed into the same rows, and resets
  `round_index` and the history (`v7/campaign.py:79`), so the next rounds are judged on rows
  of earlier ones without any kill. `OnlyKillsReuseFolds` speaks of one preparation.
- A worker deletes a result on any 4xx but 408, 409, 425 and 429 (`worker/node.py:464`). When a v5 or v6
  handler raises (`v6/service.py:461`, `:1008`, `:1106`, `:1204`), the report is rolled back and
  answered 400 (`coordinator/app.py:240`) while its lease lives: the work is lost, the lease
  runs out, and the seed is charged for it.
- A failed write of the leverage state file raises but is not rolled back
  (`leverage/service.py:822`, docstring of `atomic_state_method` at :32).
- `abandon_task` returns the bond of an expired lease that no sweep has touched yet,
  although `db.py:455` says that letting a lease expire slashes it; the model
  follows the code.
- Only trainers are barred from the replay audit (`v6/service.py:829`), so a selection
  verifier may replay; `tests/test_native10_v6.py:327` asserts the opposite of one schedule.
- The tie-breaker of candidate verification excludes the reporters only, so an honest trainer that claims
  it is refused and quarantined (`service.py:289`, docstring at :257).
- A seed whose receipt was lost delivers again; the answer to a duplicate has no
  receipt, and the file of receipts is overwritten (`SECURITY.md:39`).

Queue and pipeline:

- A task with fewer eligible nodes than `max_attempts` stays queued for ever.
- With the two bytes repaired, other contracts still disagree: verifications of 240
  branches, the timeout of a single iteration, and inferences of 160 branches, which are
  claimed and abandoned for ever because an abandon counts no attempt.
- A seed whose claim is answered too late never learns of its lease, and is excluded
  and quarantined when it expires. Its status says "accepted" also of a rejected result.
- One dissenting verifier makes `finalize_candidate` reject after two of three agreed.
- A bootstrap that is killed midway is never completed (`service.py:168`).

Native10, campaign and dashboard:

- v6: the two holdout artifacts are compared in one order of installation only; a
  kill after the promotion was written loses its rewards for good; `branch_train`
  moves `expert_local_bias`, which no patch carries; the coordinator never calls
  `compose_non_conflicting_deltas`.
- v6: the handler of a failed replay does not look at the round (`v6/service.py:1140`). Killed
  after it closed the round and before the report was committed, the coordinator gets the
  report again, and if the next round has accepted candidates by then it selects a second one of
  them, or closes that round.
- v6: after a checkpoint was installed again a round that finds a delta of the time before hangs:
  its tasks are in the queue already, completed. With a kill, reports of that time count.
- v5: a round that repeats a known work key, or whose reports disagree, never ends; a
  kill between files and commit lets an old report close a later round; installing
  the same validation artifact again resets its budget.
- v5: killed after the files of a promotion, then initialized again with the same
  seed, the coordinator can find the same delta again (`memory_update` does not use its
  subset seed). The open verification of the old candidate then counts for the new one, with
  reports of nodes that trained it: a trainer is counted as a verifier.
- A kill between `queue_mutation` and the write of `campaign.json` uses a fold twice.
- Overlapping starts of the dashboard, and a kill inside a start, can leave a process that no record names.

## 6. Proofs

TLAPS proves, for every set of nodes and tasks, every span, quorum, bond and bound:

| Theorem | Module | Statement |
|---|---|---|
| `TypeCorrect` | `TaskQueueProofs` | `Spec => []TypeOK` |
| `LeasesAreExclusive` | | `Spec => []OneActiveLease` |
| `LeasesKeepTheirDeadline` | | `Spec => []LeaseWithinDeadline` |
| `AttemptsAreFaults` | | `Spec => []AttemptsCountFaults` |
| `ReplicasInDifferentHands` | | `Spec => []IndependentReplicas` |
| `ImplementsLifecycle` | | `Spec => Lifecycle`, without refreshable searches |
| `LedgerExplainsCredit` | | `Spec => []CreditsMatchLedger` |
| `AccountsCovered` | | `Spec => []NoOverdraft` |
| `InferencesSettle` | | `Spec => []InferenceSettledOnce` |
| `BondsReturnFromLeases` | | `Spec => BondReturnsFromHeldLease` |
| `KillsKeepLeasesExclusive` | | `CrashSpec => []OneActiveLease` |
| `KillsNeverCostCredit` | | `CrashSpec => []LedgerNeverAhead` |
| `KillsRefundOnlyFailed` | | `CrashSpec => []RefundOnlyFailed` |
| `OneResultWaits` | | `SeedSpec => []OneUndelivered` |
| `GivingUpIsAnswered` | | `SeedSpec => GivenUpIsAnswered` |
| `ReceiptsAgree` | | `SeedSpec => []RecordsAgree` |
| `TrustRestsOnEvidence` | `ReferencePipelineProofs` | `Spec => []TrustIsEarned` |
| `AgreementIsPaid` | | `Spec => []PaidExactlyForConsensus` |
| `BestIsCanonical` | | `Spec => []CanonicalIsBest` |
| `VerdictsStay` | | `Spec => VerdictsAreFinal` |
| `EvidenceIsIndependent` | `Native10Proofs` | `CrashSpec => []IndependentEvidence` |
| `PromotionsAreEarned` | | `CrashSpec => []PromotionIsEarned` |
| `StrongestSelected` | | `CrashSpec => []StrongestIsSelected` |
| `HoldoutJudgesOnce` | | `CrashSpec => []HoldoutIsOneShot` |
| `NoRoundIsStuck` | | `CrashSpec => []RoundsCanEnd` |
| `RewardsArePaid` | | `CrashSpec => OnlyKillsCostRewards` |
| `LineIsOne` | `Native10V5Proofs` | `Spec => []LineageIsLinear` |
| `NoRoundHangs` | | `Spec => []RoundsCanEnd` |
| `RoundsEndByTheirOwn` | | `Spec => ClosesOwnRound` |
| `PromotionIsPaid` | | `Spec => PaidWithPromotion` |
| `FoldsAreSpentOnce` | `CampaignProofs` | `Spec => []OnlyKillsReuseFolds` |
| `HistoryTellsTheOutcome` | | `Spec => []HistoryIsTruthful` |
| `LineageStaysEarned` | `LeverageProofs` | `Spec => []LineageIsEarned` |
| `VerdictsLast` | | `Spec => VerdictsStand` |
| `LedgerMatches` | | `Spec => [](LockedMatchesCandidates /\ NothingOverdrawn)` |
| `ConflictsAreExact` | `Native10DeltaProofs` | `Spec => []ConflictsAreSharedCells` |
| `RotationIsFair` | | `Spec => []ExpertsRotate` |
| `TrainingArrives` | | `Spec => [](TrainingIsDelivered /\ patches equal the write plan)` |
| `HonestWorkPasses` | | `Spec => []HonestWorkIsAdmitted` |
| `StopsSpareOthers` | `SupervisorProofs` | `SupervisorSpec => StopsOnlyItsOwn` |
| `NothingIsLost` | | `SupervisorSpec => []NothingOrphaned` |

Assumptions: the named `ASSUME`s of the modules (finite sets of nodes and tasks,
natural units and spans, positive `MaxAttempts`, parents of manifests among the manifests, ...),
which TLC evaluates in every run; `ImplementsLifecycle` also assumes
`RootSearch = {}`, because a refresh forgets faults. The theorems of the campaign are of any
number of requests at once; both properties end where one acts on a read that is no longer true.

**Rows.** The inductive invariant `RowsInv` is stated of any table `T` of rows
(`GoodRows(T, l)`), because a claim sweeps, refreshes and grants in a single step
and the intermediate tables are not states. Each of these operators is shown to
preserve `GoodRows` (`SweptOK`, `RefreshedOK`, `GrantedOK`, `ReplacedOK`), and the
actions compose these lemmas. It strengthens the properties by what a row without a
lease looks like (`Unheld`), that a row's holder is not among its excluded nodes
(without which a fault might not add an identity), and that `attempts` stays
below the maximum while queued.

**Replicas.** A claim never looks at completed rows, so `ReplicasInv` relates rows to
reports: a completed row has its report, a holder is new to the reports of its job.

**Accounts.** `AccountsInv` adds that the ledger has no refund key for a bond that is
still locked (`BondsOpen`): tokens are never reused, so a bond-refund key names a
lease that is over. Without it an unconditional update of the column could meet an
ignored insert into the ledger, and `CreditsMatchLedger` is not inductive.

**Refinement.** An abstract step is a conjunction over tasks, so it is found row by
row (`Follows`) and composed like the invariant.

**Kills.** `CrashInv` replaces `AccountsInv` by `LedgerNeverAhead` and by
`RefundsDead` (a refund, in the flag or in the ledger, has a failed row): the order of the
statements gives the rest.

**Seed.** Leases die for good (`DeadStaysDead`). A late result is still in the outbox
or is dead, or the seed has given it up on an error answer and says so in its receipts, so whatever
arrives late agrees with what the seed has recorded or will record.

**Pipeline.** A count. A piece of work has three slots and one report for every slot
completed (`WorkOK`), so at most one group of reports can agree, and the third slot is
opened by two that disagree only. Hence once the verifications of a candidate agree nobody
holds or is offered another one: the verdict stands on all the reports there will ever be
(`VerdictsAreFinal`), and the trainers and verifiers it names are those who were paid.
`Ordered` (candidates have different ranks) and `OneCrown` (a trusted candidate is canonical
if and only if it beats all the others) give `CanonicalIsBest`.

**Native10 rounds.** All theorems are of `CrashSpec`, with kills in every handler. `Inv`
holds the evidence together across the stages: a replay task exists only for a
candidate with a verification quorum, whose trainers it excludes; a replication task
only where the replay is completed and recorded; a report on a work key comes from
an identity that was not barred from it, once. Each part is stated of any tables of tasks, reports
and candidates, because a handler completes its task, changes records and then selects,
closes or promotes, and the lemmas follow that order (`Onward`). A kill changes the candidates
under tasks that stay, which `EvidenceOK` survives because no handler rewrites
trainers or verifiers once a replay is queued. `OrderInv` adds what selection needs: a chosen
candidate has at least the score of every accepted one, and at most one candidate of a
round is on its way to the holdout or has come to it (`Live`). That is inductive only together with
`CalmOK`: while nothing was killed, whatever is under way belongs to the active round, in
particular every search task of a round is completed when the round gets its
candidates (`AllSearched`, by counting slots). After a kill in the first round the
round numbers say the same. After a kill in a later round it is false (section 5), and so
the two properties do not promise it.

Two more invariants hold as long as nothing is killed. `AliveInv` says what each stage
waits for: a round that searches has all its search tasks and an unfinished one, a
candidate that is judged has all its judges, of whom one is unfinished or two disagree,
because a quorum of equal reports is all there are. `PayInv` says whose work a record names.
Open tasks belong to the active round and their candidate waits for them (`OpenOK`), so
a record is written once, by the last report it is made of, and never outlived by
its work; judges that agree are all the judges (`Unanimity`, slots counted against
reports). That does not need `OrderInv` and stays true under a later checkpoint,
which meets open tasks of no earlier one.

**v5.** Without kills at most one key of work is open, the mutation of the active round or the
verification of its candidate, so that a late report has nothing left to answer:
that is `RoundsCanEnd` and `ClosesOwnRound`. With kills, but a single lineage, the checkpoint is
the root or longer than every root that work or a candidate was made for
(`LineageIsLinear`), so what a kill left open cannot be promoted any more.

**Rotation.** A delta is applied to the root it was trained on only, so its phase is
still the phase of the checkpoint it moves on, and a cycle of the phase trains every
expert of a category once.

**Campaign.** The invariant is of the states before the first overtaken read. A request between
`queue_mutation` and its new entry is alone there and the file calls no round active; otherwise the
active round of the file is the last one queued and the contributions of its base root tell how it
ended. A round once settled is never the active one again (`Superseded`), so a request
that waits to settle one either finds the file as it read it, and then its judgement still
holds, or may not write. A fold is consumed again only by a queue-next that finds it consumed
and no round active; a kill between `queue_mutation` and the new entry leads there, and
the invariant charges each such fold to a kill of its own.

**Delivery.** Worker and coordinator write the same boxes in different ways, as a prefix and
the remaining axes or axis by axis. Operation by operation, `PlansAgree` shows them equal
(by what `Rest` leaves of each shape), and `LoopsStayInPlan` that the loops assign nothing else
but the local bias of `branch_train`.

**Admission.** Every patch of the plan is a box cut at its first axes (`IsBox`, `Cut`), so that it
fits its shape and its volume is the product of its extents (`BoxFits`). An expert's boxes are
bounded by `PerExpert`, a group's by as many times that (`AllExperts`, by induction over the group), and
the budget multiplies out to the same number. Equal parts of an axis (`Parts`) put
a category's scouts and classes and a block's rows inside their tensors. The invariant
(`RotationInv` with `OffersForm`) says that a bundle names a target of its operation and, for expert
operations, a whole group of the category's experts: the phase is in range and groups divide the experts.
Volumes are added by upper bounds, so the proof need not say that two patches differ.

**Leverage.** The canonical line grows and shrinks at its end. The invariant is
stated of memory and of the saved file, so that a restart needs no argument; nothing is
vested before the epoch is closed; while no write has failed, file and memory are equal.

The ledger is idempotent: an operation whose key has an entry is skipped in silence. `SquareInv` (of
memory and of the saved file) says that every account is the sum of what its candidates are owed, locked
for live ones and vested for vested ones, that a key of a test is of a candidate with a record, that a
slashed candidate is not live, and that keys of settlement wait for the epoch to close. Hence what is due is
never skipped. One action is one transfer between the balances of one author under
new keys (`Booked`, `Rebalanced`); settlement is a fold over candidates, taken one after the other.

**Sums.** The values of `MapThenSumSet` and of a fold are proved without an
induction theorem: a set of numbers that contains 0 and with each number the next contains
them all, because otherwise there would be a least one missing (`Numbers`, from the
well-foundedness of `<`). With it come induction over the subsets of a finite set (`Subsets`), the
existence of the function a fold computes, and that a sum grows by each element in whatever order
it is taken (`SumAdds`). Both modules that sum have these lemmas.

**Dashboard.** A record names a birth, and a birth has one owner for ever: said of every copy of
a record, in the two files and in the threads, this is `StopsOnlyItsOwn`. For `NothingOrphaned`
the invariant adds that, unless a start was overlapped or killed, all the copies a request
works on name the births of the file, and that a start has seen its name without a living
process when it spawns one.

Only model-checked:

- `LeasesEnd`, `ResultsSettle` and `StatusCatchesUp`: liveness under fairness is out of the
  prover's reach. Every other property of a passing run is stated by a theorem.

## 7. Not modelled

- Numerical code: training, forward passes, scores, statistics, the leverage search and
  workload, CIFAR-100 routing and data. TLC has no arithmetic for it, and it keeps no state
  between calls; the models choose its results.
- Hashing, signing, validation of fields, request limits and admin tokens: assumed to
  do what they say.
- The audit tables, which no modelled decision reads.
- A second dashboard on the same directory, a command line beside a running
  coordinator, and the dashboard's forwarding of campaign actions. Writing
  `processes.tmp` is one step: two overlapping writes of it are not torn.
- The several files `dataset.prepare` replaces change in one step; the rows two different seeds
  have in common, and another number of rows per class, are not followed.
- The command line, which parses arguments around operations modelled elsewhere.
