----------------------------- MODULE TaskQueue -----------------------------
(***************************************************************************)
(* The coordinator's lease queue and its accounts: coordinator/db.py, and  *)
(* the result, lease and inference handlers of coordinator/service.py that *)
(* drive it.                                                               *)
(*                                                                         *)
(* Every handler runs under Database.lock and (the result handler and      *)
(* claim_task) inside one SQLite transaction, so each is one action here.  *)
(* The steps of the handlers that are NOT inside a transaction, and the    *)
(* crash between two of them, are the subject of TaskQueueCrash.           *)
(*                                                                         *)
(* Time is relative: a row stores how many ticks its lease and its         *)
(* absolute deadline still have to run (-1: in the past), a node how long  *)
(* its quarantine still lasts.  Tick lets time pass for all of them.       *)
(*                                                                         *)
(* Workers are the set held of lease envelopes that have ever been issued: *)
(* any of them may send any request for any envelope it holds, at any      *)
(* time and any number of times.  A request that is delayed, lost or       *)
(* repeated is therefore one that is sent late, never, or again.           *)
(***************************************************************************)
EXTENDS Integers, FiniteSets

CONSTANTS
  Nodes,            \* registered worker identities
  Tasks,            \* every task row that may ever be inserted
  InferenceTasks,   \* those created by create_inference_task
  RootSearch,       \* v6 search tasks: parent_task NULL, refreshable contract
  Work,             \* Work[t]: the work_key of a replicated task
  Slot,             \* Slot[t]: its replica number, the end of its dedupe_key
  Requester,        \* Requester[t]: the node that pays for inference task t
  CanRun,           \* pairs <<n, t>> for which node_can_run holds
  Priority,         \* Priority[t]: tasks.priority
  MaxAttempts,      \* MaxAttempts[t]: tasks.max_attempts
  Exclusions,       \* the excluded_nodes lists a task may be inserted with
  Values,           \* the outputs a worker may report for a replica
  Quorum,           \* EXPLORATION_QUORUM = TRAINING_QUORUM = VERIFICATION_QUORUM
  MaxReplicas,      \* _enqueue_tiebreaker's max_replicas
  BondUnits,        \* claim_bond_units of an inference task
  CostUnits,        \* INFERENCE_COST_UNITS
  RewardUnits,      \* REWARD_UNITS[kind]
  InitialCredit,    \* InitialCredit[n]: credits earned before the modelled part
  LeaseSpan,        \* ticks of a fresh lease
  DeadlineSpan,     \* ticks from a claim to its absolute deadline
  ExtensionSpan,    \* ticks one renewal adds
  ExpiryQuarantine, \* quarantine after an expired lease (60 s)
  RejectQuarantine, \* quarantine after a rejected output (300 s)
  MaxLeases,        \* bound: how many leases a behaviour may issue
  NoNode            \* assigned_to IS NULL

Replicated == Tasks \ InferenceTasks

ASSUME NodesAssumption == IsFiniteSet(Nodes) /\ NoNode \notin Nodes

ASSUME TasksAssumption ==
  /\ IsFiniteSet(Tasks)
  /\ InferenceTasks \subseteq Tasks
  /\ RootSearch \subseteq Replicated
  /\ Requester \in [InferenceTasks -> Nodes]
  /\ Slot \in [Replicated -> Nat]
  /\ DOMAIN Work = Replicated
  /\ Priority \in [Tasks -> Nat]
  /\ MaxAttempts \in [Tasks -> Nat \ {0}]
  /\ Exclusions \subseteq SUBSET Nodes

ASSUME QuorumAssumption ==
  /\ Quorum \in Nat \ {0}
  /\ MaxReplicas \in Nat
  /\ MaxReplicas < 2 * Quorum

ASSUME UnitsAssumption ==
  /\ BondUnits \in Nat /\ CostUnits \in Nat /\ RewardUnits \in Nat
  /\ InitialCredit \in [Nodes -> Nat]

ASSUME SpansAssumption ==
  /\ LeaseSpan \in Nat /\ DeadlineSpan \in Nat /\ ExtensionSpan \in Nat
  /\ ExpiryQuarantine \in Nat /\ RejectQuarantine \in Nat
  /\ MaxLeases \in Nat

VARIABLES
  task,       \* task[t]: the row of table tasks
  quarantine, \* nodes.quarantine_until, relative to now
  credit,     \* nodes.credit_units
  balance,    \* balance[n]: SUM(amount_units) over node n's ledger rows
  ledger,     \* the entry_keys of table ledger
  refunded,   \* inference_requests whose refunded flag is set
  reports,    \* tables work_reports and candidate_verifications
  stale,      \* tasks whose stored contract is older than the derived one
  lastLease,  \* number of lease tokens minted so far (uuid4: never reused)
  held        \* lease envelopes in the hands of workers

accounts == <<credit, balance, ledger, refunded>>
vars == <<task, quarantine, accounts, reports, stale, lastLease, held>>
-----------------------------------------------------------------------------
(* Rows, keys and types. *)

Bond(t) == IF t \in InferenceTasks THEN BondUnits ELSE 0

Status == {"absent", "queued", "assigned", "completed", "failed"}

Row == [status : Status, assigned_to : Nodes \cup {NoNode}, lease_token : Nat,
        expires : Int, deadline : Int, bond : Nat, attempts : Nat,
        excluded : SUBSET Nodes,
        base : SUBSET Nodes]  \* excluded_nodes as last written by the coordinator

(* A row without a lease. *)
Unleased(s, a, X, B) ==
  [status |-> s, assigned_to |-> NoNode, lease_token |-> 0, expires |-> 0,
   deadline |-> 0, bond |-> 0, attempts |-> a, excluded |-> X, base |-> B]

Absent == Unleased("absent", 0, {}, {})
Queued(X) == Unleased("queued", 0, X, X)

(* A row with other timers. *)
Timed(row, x, d) ==
  [status |-> row.status, assigned_to |-> row.assigned_to,
   lease_token |-> row.lease_token, expires |-> x, deadline |-> d,
   bond |-> row.bond, attempts |-> row.attempts,
   excluded |-> row.excluded, base |-> row.base]

Envelope == [lease : Nat, task : Tasks, node : Nodes]
Report == [task : Replicated, node : Nodes, value : Values]

(* ledger.entry_key; the lease is 0 for the kinds whose key has none. *)
LockKey(t, l)       == <<"bond-lock", t, l>>
BondRefundKey(t, l) == <<"bond-refund", t, l>>
DebitKey(t)         == <<"debit", t, 0>>
RefundKey(t)        == <<"inference-refund", t, 0>>
RewardKey(t)        == <<"reward", t, 0>>
Keys == {"bond-lock", "bond-refund", "debit", "inference-refund", "reward"}
          \X Tasks \X Nat

TypeOK ==
  /\ task \in [Tasks -> Row]
  /\ quarantine \in [Nodes -> Nat]
  /\ credit \in [Nodes -> Int]
  /\ balance \in [Nodes -> Int]
  /\ ledger \subseteq Keys
  /\ refunded \subseteq InferenceTasks
  /\ reports \subseteq Report
  /\ stale \subseteq RootSearch
  /\ lastLease \in Nat
  /\ held \subseteq Envelope
-----------------------------------------------------------------------------
(* Operators on rows. *)

Later(a, b)   == IF a >= b THEN a ELSE b
Earlier(a, b) == IF a <= b THEN a ELSE b

Assigned(T) == {t \in Tasks : T[t].status = "assigned"}
LeasedTo(T, n) == {t \in Assigned(T) : T[t].assigned_to = n}

(* Mutant of Expired: only the leases that may be requeued are swept.        *)
ExpiredRequeueable(T) ==
  {t \in Assigned(T) : T[t].expires < 0 /\ T[t].attempts < MaxAttempts[t]}

(* WHERE status='assigned' AND lease_expires_at < now *)
Expired(T)   == {t \in Assigned(T) : T[t].expires < 0}
Exhausted(T) == {t \in Expired(T) : T[t].attempts >= MaxAttempts[t]}

FaultedLate(t, row) ==
  Unleased(IF row.attempts > MaxAttempts[t] THEN "failed" ELSE "queued",
           row.attempts, row.excluded \cup {row.assigned_to}, row.base)

(* The row after the holder was found at fault: barred from the task, which *)
(* fails when its attempt budget is spent.                                  *)
Faulted(t, row) ==
  Unleased(IF row.attempts >= MaxAttempts[t] THEN "failed" ELSE "queued",
           row.attempts, row.excluded \cup {row.assigned_to}, row.base)

(* requeue_expired_leases: rows and quarantines *)
Swept(T) == [t \in Tasks |-> IF t \in Expired(T) THEN Faulted(t, T[t]) ELSE T[t]]

SweptQuarantine(T) ==
  [n \in Nodes |-> IF LeasedTo(T, n) \cap Expired(T) # {}
                     THEN Later(quarantine[n], ExpiryQuarantine)
                     ELSE quarantine[n]]

(* Mutant of Refreshed: the attempts are forgotten, the exclusions are not.  *)
RefreshedAttempts(T, S) ==
  [t \in Tasks |-> IF t \in S /\ T[t].status = "queued"
                     THEN Unleased("queued", 0, T[t].excluded, T[t].base)
                     ELSE T[t]]

(* refresh_queued_mutation_requirements: a stale queued search contract is  *)
(* upgraded and the failures under the old contract are forgotten.          *)
Refreshed(T, S) ==
  [t \in Tasks |-> IF t \in S /\ T[t].status = "queued"
                     THEN Queued({})
                     ELSE T[t]]

StillStale(T) == {t \in stale : T[t].status # "queued"}

(* _refund_inference_if_terminal, for every task of F that just failed.     *)
Refundable(F) == {t \in F \cap InferenceTasks : t \notin refunded}
RefundsOf(n, F) == {t \in Refundable(F) : Requester[t] = n}

RefundedCredit(F) ==
  [n \in Nodes |-> credit[n] + CostUnits * Cardinality(RefundsOf(n, F))]

RefundedBalance(F) ==
  [n \in Nodes |-> balance[n] + CostUnits *
     Cardinality({t \in RefundsOf(n, F) : RefundKey(t) \notin ledger})]

RefundedLedger(F) == ledger \cup {RefundKey(t) : t \in Refundable(F)}

Refund(F) ==
  /\ credit' = RefundedCredit(F)
  /\ balance' = RefundedBalance(F)
  /\ ledger' = RefundedLedger(F)
  /\ refunded' = refunded \cup Refundable(F)
-----------------------------------------------------------------------------
Init ==
  /\ task = [t \in Tasks |-> Absent]
  /\ quarantine = [n \in Nodes |-> 0]
  /\ credit = InitialCredit
  /\ balance = InitialCredit
  /\ ledger = {}
  /\ refunded = {}
  /\ reports = {}
  /\ stale = {}
  /\ lastLease = 0
  /\ held = {}

(***************************************************************************)
(* Inserting work.                                                         *)
(***************************************************************************)

(* The first Quorum replicas of a logical job (bootstrap, the next stage of  *)
(* the pipeline, the search tasks of a v6 round).  add_task is idempotent on *)
(* its dedupe_key: replicas that exist already are left alone.               *)
EnqueueReplicas(w, X) ==
  LET fresh == {t \in Replicated : /\ Work[t] = w
                                   /\ Slot[t] < Quorum
                                   /\ task[t].status = "absent"}
  IN  /\ fresh # {}
      /\ X = {} \/ fresh \cap RootSearch = {}
      /\ task' = [t \in Tasks |-> IF t \in fresh THEN Queued(X) ELSE task[t]]
      /\ UNCHANGED <<quarantine, accounts, reports, stale, lastLease, held>>

(* create_inference_task: the request is charged and queued, its requester  *)
(* excluded from serving it.  A repeated request_key finds the row present. *)
CreateInference(t) ==
  LET r == Requester[t]
  IN  /\ task[t].status = "absent"
      /\ credit[r] >= CostUnits
      /\ task' = [task EXCEPT ![t] = Queued({r})]
      /\ credit' = [credit EXCEPT ![r] = @ - CostUnits]
      /\ balance' = [balance EXCEPT ![r] = @ - CostUnits]
      /\ ledger' = ledger \cup {DebitKey(t)}
      /\ UNCHANGED <<quarantine, refunded, reports, stale, lastLease, held>>

(***************************************************************************)
(* Claiming.                                                               *)
(***************************************************************************)

(* Mutant of AlreadyOn: past reports are not looked at.                      *)
AlreadyLeased(T, n, t) ==
  t \in Replicated /\ \E u \in LeasedTo(T, n) \cap Replicated : Work[u] = Work[t]

(* _node_already_on_work and _node_already_on_candidate: the node reported   *)
(* on, or holds a lease of, the same logical job.                            *)
AlreadyOn(T, n, t) ==
  /\ t \in Replicated
  /\ \/ \E r \in reports : r.node = n /\ Work[r.task] = Work[t]
     \/ \E u \in LeasedTo(T, n) \cap Replicated : Work[u] = Work[t]

Claimable(T, C, n) ==
  {t \in Tasks : /\ T[t].status = "queued"
                 /\ n \notin T[t].excluded
                 /\ ~AlreadyOn(T, n, t)
                 /\ <<n, t>> \in CanRun
                 /\ Bond(t) > 0 => C[n] >= Bond(t)}

(* ORDER BY priority DESC; ties are ordered by size and age, left open here. *)
Preferred(S) == {t \in S : \A u \in S : Priority[t] >= Priority[u]}

Leased(row, t, n) ==
  [status |-> "assigned", assigned_to |-> n, lease_token |-> lastLease + 1,
   expires |-> Earlier(DeadlineSpan, LeaseSpan), deadline |-> DeadlineSpan,
   bond |-> Bond(t), attempts |-> row.attempts + 1,
   excluded |-> row.excluded, base |-> row.base]

(* claim_task's transaction first sweeps expired leases, and refreshes the   *)
(* stale contracts when the sweep put any task back in the queue.            *)
Requeued == Expired(task) \ Exhausted(task)
RowsAtClaim == IF Requeued # {} THEN Refreshed(Swept(task), stale) ELSE Swept(task)
SweepBeforeClaim ==
  /\ quarantine' = SweptQuarantine(task)
  /\ refunded' = refunded \cup Refundable(Exhausted(task))
  /\ stale' = IF Requeued # {} THEN StillStale(Swept(task)) ELSE stale

(* Mutant of MayClaim: a node with a live lease may claim again.             *)
MayClaimAgain(n) == SweptQuarantine(task)[n] = 0

MayClaim(n) == /\ SweptQuarantine(task)[n] = 0
               /\ LeasedTo(RowsAtClaim, n) = {}

Choices(n) == Preferred(Claimable(RowsAtClaim, RefundedCredit(Exhausted(task)), n))

ClaimTask(n) ==
  /\ lastLease < MaxLeases
  /\ MayClaim(n)
  /\ \E t \in Choices(n) :
       /\ task' = [RowsAtClaim EXCEPT ![t] = Leased(@, t, n)]
       /\ credit' = [RefundedCredit(Exhausted(task)) EXCEPT ![n] = @ - Bond(t)]
       /\ balance' = [RefundedBalance(Exhausted(task)) EXCEPT ![n] = @ - Bond(t)]
       /\ ledger' = RefundedLedger(Exhausted(task)) \cup
                      IF Bond(t) > 0 THEN {LockKey(t, lastLease + 1)} ELSE {}
       /\ held' = held \cup {[lease |-> lastLease + 1, task |-> t, node |-> n]}
  /\ lastLease' = lastLease + 1
  /\ SweepBeforeClaim
  /\ UNCHANGED reports

(* The claim finds the node quarantined, busy, or nothing it may run: the    *)
(* sweep is committed all the same.                                          *)
ClaimNothing(n) ==
  /\ MayClaim(n) => Choices(n) = {}
  /\ task' = RowsAtClaim
  /\ SweepBeforeClaim
  /\ credit' = RefundedCredit(Exhausted(task))
  /\ balance' = RefundedBalance(Exhausted(task))
  /\ ledger' = RefundedLedger(Exhausted(task))
  /\ UNCHANGED <<reports, lastLease, held>>

(* stats, polled by the dashboard: sweeps without refreshing contracts.      *)
Stats ==
  /\ task' = Swept(task)
  /\ quarantine' = SweptQuarantine(task)
  /\ Refund(Exhausted(task))
  /\ UNCHANGED <<reports, stale, lastLease, held>>

(***************************************************************************)
(* Requests of a lease holder.                                             *)
(***************************************************************************)

(* Mutant of Holds: the lease token is not compared.                         *)
HoldsTask(e) == /\ task[e.task].status = "assigned"
                /\ task[e.task].assigned_to = e.node

(* status='assigned' AND assigned_to=? AND lease_token=? *)
Holds(e) == /\ task[e.task].status = "assigned"
            /\ task[e.task].assigned_to = e.node
            /\ task[e.task].lease_token = e.lease

(* renew_task_lease *)
Renew(e) ==
  LET row == task[e.task]
  IN  /\ Holds(e)
      /\ row.expires >= 0
      /\ row.deadline > 0
      /\ task' = [task EXCEPT ![e.task] =
                    Timed(row, Earlier(row.deadline, row.expires + ExtensionSpan),
                          row.deadline)]
      /\ UNCHANGED <<quarantine, accounts, reports, stale, lastLease, held>>

(* UPDATE nodes SET credit_units=credit_units+bond, unconditionally, then    *)
(* INSERT OR IGNORE INTO ledger: the row's balance moves only with a new key *)
ReturnedBond(row, key) == IF key \in ledger THEN 0 ELSE row.bond
BondKeys(row, key) == IF row.bond > 0 THEN {key} ELSE {}

(* Mutant of Abandon: the attempt is not given back.                         *)
AbandonKeepingAttempt(e) ==
  LET row == task[e.task]
      key == BondRefundKey(e.task, e.lease)
  IN  /\ Holds(e)
      /\ task' = [task EXCEPT ![e.task] =
                    Unleased("queued", row.attempts, row.excluded, row.base)]
      /\ credit' = [credit EXCEPT ![e.node] = @ + row.bond]
      /\ balance' = [balance EXCEPT ![e.node] = @ + ReturnedBond(row, key)]
      /\ ledger' = ledger \cup BondKeys(row, key)
      /\ UNCHANGED <<quarantine, refunded, reports, stale, lastLease, held>>

(* abandon_task: no expiry check, the attempt is given back *)
Abandon(e) ==
  LET row == task[e.task]
      key == BondRefundKey(e.task, e.lease)
  IN  /\ Holds(e)
      /\ task' = [task EXCEPT ![e.task] =
                    Unleased("queued", Later(0, row.attempts - 1),
                             row.excluded, row.base)]
      /\ credit' = [credit EXCEPT ![e.node] = @ + row.bond]
      /\ balance' = [balance EXCEPT ![e.node] = @ + ReturnedBond(row, key)]
      /\ ledger' = ledger \cup BondKeys(row, key)
      /\ UNCHANGED <<quarantine, refunded, reports, stale, lastLease, held>>

(* The checks of _process_result_transactional every result has to pass; a   *)
(* result that fails one is refused and changes nothing, as is a repeated    *)
(* result of a completed task.                                               *)
MayReport(e) == /\ Holds(e)
                /\ task[e.task].expires >= 0
                /\ task[e.task].deadline >= 0

Completed(row) ==
  [status |-> "completed", assigned_to |-> row.assigned_to,
   lease_token |-> row.lease_token, expires |-> 0, deadline |-> 0, bond |-> 0,
   attempts |-> row.attempts, excluded |-> row.excluded, base |-> row.base]

(* A valid (or unaudited) inference: reward, then complete_task. *)
CompleteInference(e) ==
  LET row  == task[e.task]
      key  == BondRefundKey(e.task, e.lease)
      paid == IF RewardKey(e.task) \in ledger THEN 0 ELSE RewardUnits
  IN  /\ e.task \in InferenceTasks
      /\ MayReport(e)
      /\ task' = [task EXCEPT ![e.task] = Completed(row)]
      /\ credit' = [credit EXCEPT ![e.node] = @ + paid + row.bond]
      /\ balance' = [balance EXCEPT ![e.node] = @ + paid + ReturnedBond(row, key)]
      /\ ledger' = ledger \cup {RewardKey(e.task)} \cup BondKeys(row, key)
      /\ UNCHANGED <<quarantine, refunded, reports, stale, lastLease, held>>

(* _consensus_reports over the reports on one job: the reports of the value  *)
(* that reached the quorum, none when no value has.                          *)
ReportsOn(R, w) == {r \in R : Work[r.task] = w}
Agreeing(R, w, v) == {r \in ReportsOn(R, w) : r.value = v}
Consensus(R, w) ==
  {r \in ReportsOn(R, w) : Cardinality(Agreeing(R, w, r.value)) >= Quorum}

(* _enqueue_tiebreaker: the replica of the next slot, its reporters excluded *)
Tiebreaker(R, w) ==
  {t \in Replicated : /\ Consensus(R, w) = {}
                      /\ Cardinality(ReportsOn(R, w)) < MaxReplicas
                      /\ Work[t] = w
                      /\ Slot[t] = Cardinality(ReportsOn(R, w))
                      /\ task[t].status = "absent"}

(* A well-formed replica result: the report is recorded, every member of a   *)
(* consensus is paid once, otherwise a tie-breaker is queued; the task is    *)
(* completed.  A second report by one node on a job is refused by the        *)
(* primary key and rolls everything back.                                    *)
CompleteReplica(e, v) ==
  LET w     == Work[e.task]
      R     == reports \cup {[task |-> e.task, node |-> e.node, value |-> v]}
      paid  == {r \in Consensus(R, w) : RewardKey(r.task) \notin ledger}
      extra == [n \in Nodes |-> IF \E r \in paid : r.node = n THEN RewardUnits ELSE 0]
  IN  /\ e.task \in Replicated \ RootSearch
      /\ MayReport(e)
      /\ \A r \in ReportsOn(reports, w) : r.node # e.node
      /\ reports' = R
      /\ task' = [t \in Tasks |->
                    IF t = e.task THEN Completed(task[t])
                    ELSE IF t \in Tiebreaker(R, w)
                      THEN Queued({r.node : r \in ReportsOn(R, w)})
                      ELSE task[t]]
      /\ credit' = [n \in Nodes |-> credit[n] + extra[n]]
      /\ balance' = [n \in Nodes |-> balance[n] + extra[n]]
      /\ ledger' = ledger \cup {RewardKey(r.task) : r \in paid}
      /\ UNCHANGED <<quarantine, refunded, stale, lastLease, held>>

(* A search report of a v6 round: recorded and completed.  What the last one *)
(* of a round starts, and who is paid, is the subject of Native10Round.      *)
CompleteSearch(e, v) ==
  /\ e.task \in RootSearch
  /\ MayReport(e)
  /\ \A r \in ReportsOn(reports, Work[e.task]) : r.node # e.node
  /\ reports' = reports \cup {[task |-> e.task, node |-> e.node, value |-> v]}
  /\ task' = [task EXCEPT ![e.task] = Completed(@)]
  /\ UNCHANGED <<quarantine, accounts, stale, lastLease, held>>

(* Mutant of Reject: an exhausted inference is not refunded.                 *)
RejectWithoutRefund(e) ==
  /\ e.task \notin RootSearch
  /\ MayReport(e)
  /\ task' = [task EXCEPT ![e.task] = Faulted(e.task, @)]
  /\ quarantine' = [quarantine EXCEPT ![e.node] = Later(@, RejectQuarantine)]
  /\ UNCHANGED <<accounts, reports, stale, lastLease, held>>

(* reject_assigned_task, committed by CommittedResultError: the node is      *)
(* barred and quarantined, its bond stays in the coordinator.  The v5 and v6 *)
(* handlers never call it: an output they refuse changes nothing.            *)
Reject(e) ==
  LET row == task[e.task]
      failed == IF row.attempts >= MaxAttempts[e.task] THEN {e.task} ELSE {}
  IN  /\ e.task \notin RootSearch
      /\ MayReport(e)
      /\ task' = [task EXCEPT ![e.task] = Faulted(e.task, row)]
      /\ quarantine' = [quarantine EXCEPT ![e.node] = Later(@, RejectQuarantine)]
      /\ Refund(failed)
      /\ UNCHANGED <<reports, stale, lastLease, held>>

(***************************************************************************)
(* Time, and a restart on a release whose derived contracts are larger.    *)
(***************************************************************************)
Elapsed(x) == Later(-1, x - 1)

Tick ==
  /\ task' = [t \in Tasks |->
                IF task[t].status = "assigned"
                  THEN Timed(task[t], Elapsed(task[t].expires), Elapsed(task[t].deadline))
                  ELSE task[t]]
  /\ quarantine' = [n \in Nodes |-> Later(0, quarantine[n] - 1)]
  /\ UNCHANGED <<accounts, reports, stale, lastLease, held>>

(* CoordinatorService.__init__ refreshes what is queued; a search leased     *)
(* across the restart keeps its stale contract until it is requeued.         *)
Upgrade ==
  /\ RootSearch # {}
  /\ task' = Refreshed(task, RootSearch)
  /\ stale' = {t \in RootSearch : task[t].status = "assigned"}
  /\ UNCHANGED <<quarantine, accounts, reports, lastLease, held>>
-----------------------------------------------------------------------------
WorkKeys == {Work[t] : t \in Replicated}

Enqueue == \/ \E w \in WorkKeys, X \in Exclusions : EnqueueReplicas(w, X)
           \/ \E t \in InferenceTasks : CreateInference(t)

Claim(n) == ClaimTask(n) \/ ClaimNothing(n)

Respond(e) == \/ Renew(e)
              \/ Abandon(e)
              \/ CompleteInference(e)
              \/ \E v \in Values : CompleteReplica(e, v) \/ CompleteSearch(e, v)
              \/ Reject(e)

Next == \/ Enqueue
        \/ \E n \in Nodes : Claim(n)
        \/ \E e \in held : Respond(e)
        \/ Stats
        \/ Tick
        \/ Upgrade

Spec == Init /\ [][Next]_vars

(* Time passes and the dashboard keeps polling /v1/stats every two seconds.  *)
Fairness == WF_vars(Tick) /\ WF_vars(Stats)
FairSpec == Spec /\ Fairness
-----------------------------------------------------------------------------
(***************************************************************************)
(* Properties.                                                             *)
(***************************************************************************)

(* No identity ever holds two leases, however claims, sweeps, renewals and   *)
(* late requests interleave.                                                 *)
OneActiveLease ==
  \A t, u \in Assigned(task) :
    task[t].assigned_to = task[u].assigned_to => t = u

(* A lease never outlives the absolute deadline fixed when it was claimed,   *)
(* however often it is renewed: an expiry still ahead of the deadline can    *)
(* only be reached if the deadline is ahead too.                             *)
LeaseWithinDeadline ==
  \A t \in Assigned(task) : task[t].expires <= task[t].deadline

(* The balance column of a node and its rows in the ledger tell the same     *)
(* story, though bond refunds and inference refunds update the column        *)
(* unconditionally and insert the row only if its key is new.                *)
CreditsMatchLedger == credit = balance

(* No sequence of debits, bonds and slashes overdraws an account.            *)
NoOverdraft == \A n \in Nodes : credit[n] >= 0

(* attempts counts the distinct nodes that failed the task since its list of *)
(* excluded nodes was last written by the coordinator, plus the current      *)
(* holder.  A task is failed only when MaxAttempts different identities      *)
(* failed it; abandoning or repeating a request never moves the count.       *)
Faults(t) == Cardinality(task[t].excluded \ task[t].base)
AttemptsCountFaults ==
  \A t \in Tasks :
    /\ task[t].status \in {"queued", "failed"} => task[t].attempts = Faults(t)
    /\ task[t].status \in {"assigned", "completed"} => task[t].attempts = Faults(t) + 1
    /\ task[t].status = "failed" => Faults(t) = MaxAttempts[t]

(* A paid inference is settled exactly one way: the requester is refunded    *)
(* when, and only when, the task failed; a worker is paid when, and only     *)
(* when, it completed.                                                       *)
InferenceSettledOnce ==
  \A t \in InferenceTasks :
    /\ task[t].status = "failed" <=> t \in refunded
    /\ t \in refunded <=> RefundKey(t) \in ledger
    /\ task[t].status = "completed" <=> RewardKey(t) \in ledger

(* The replicas of a job that are leased or completed are in the hands of    *)
(* different identities.                                                     *)
IndependentReplicas ==
  \A t, u \in Replicated :
    /\ t # u /\ Work[t] = Work[u]
    /\ {task[t].status, task[u].status} \subseteq {"assigned", "completed"}
    => task[t].assigned_to # task[u].assigned_to

(* A bond goes back only to a node that holds the lease at that moment: once *)
(* a lease has been swept, rejected or superseded, no late request of its    *)
(* former holder recovers the bond.                                          *)
BondReturnsFromHeldLease ==
  [][\A k \in ledger' \ ledger : k[1] = "bond-refund" =>
       /\ task[k[2]].status = "assigned"
       /\ task[k[2]].lease_token = k[3]]_vars

(* Seen without clocks, tokens and accounts the queue is the lifecycle of    *)
(* TaskLifecycle: one holder at a time, final outcomes, a task failed only   *)
(* by MaxAttempts different identities, none of which ever gets it back.     *)
(* (Contract refreshes, which forget faults, are outside this promise.)      *)
Promise == INSTANCE TaskLifecycle WITH
             status <- [t \in Tasks |-> task[t].status],
             holder <- [t \in Tasks |-> task[t].assigned_to],
             faulty <- [t \in Tasks |-> task[t].excluded \ task[t].base]
Lifecycle == Promise!Spec

(* A node that stops answering cannot keep a task: every lease ends, even    *)
(* one that is renewed until its deadline.                                   *)
LeasesEnd ==
  \A l \in 1..MaxLeases, t \in Tasks :
    (task[t].status = "assigned" /\ task[t].lease_token = l)
      ~> ~(task[t].status = "assigned" /\ task[t].lease_token = l)
=============================================================================
