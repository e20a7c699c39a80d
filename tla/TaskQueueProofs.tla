-------------------------- MODULE TaskQueueProofs --------------------------
(***************************************************************************)
(* Theorems about TaskQueue, about TaskQueueCrash and about SeedNode, for  *)
(* every value of their constants, in four parts.                          *)
(*                                                                         *)
(* The rows: their types, one lease per identity, leases within their      *)
(* deadline, the meaning of attempts, replicas in different hands, and the *)
(* refinement of TaskLifecycle.  A claim sweeps, refreshes and grants in   *)
(* one step.  So the invariant is stated of any table of rows T            *)
(* (GoodRows), each of the three operators is shown to keep it, and the    *)
(* actions compose those facts.                                            *)
(*                                                                         *)
(* The accounts: balances agree with the ledger, nobody is overdrawn, an   *)
(* inference is settled one way only, a bond returns from a live lease.    *)
(*                                                                         *)
(* The kills: what a coordinator killed between two statements, any number *)
(* of times, leaves true of leases and accounts.  CreditsMatchLedger does  *)
(* not survive a kill; weaker facts do.                                    *)
(*                                                                         *)
(* A seed and the queue: one undelivered result at a time, nothing given   *)
(* up that could still be accepted, receipts that agree with the           *)
(* coordinator's table.                                                    *)
(***************************************************************************)
EXTENDS TaskQueueCrash, SeedNode, FiniteSetTheorems, TLAPS

(* How many identities a row blames since its base was written.            *)
Blames(row) == Cardinality(row.excluded \ row.base)

Unheld(row) == row.assigned_to = NoNode /\ row.bond = 0

LeaseOK(t, row, l) ==
  /\ row.assigned_to \in Nodes \ row.excluded
  /\ row.lease_token <= l
  /\ row.expires <= row.deadline
  /\ row.bond = Bond(t)

(* What is true of row t when l tokens have been minted.                   *)
RowOK(t, row, l) ==
  /\ row \in Row
  /\ row.base \subseteq row.excluded
  /\ row.status = "absent" => Unheld(row)
  /\ row.status = "queued" =>
       Unheld(row) /\ row.attempts = Blames(row) /\ row.attempts < MaxAttempts[t]
  /\ row.status = "assigned" =>
       /\ LeaseOK(t, row, l)
       /\ row.attempts = Blames(row) + 1
       /\ row.attempts <= MaxAttempts[t]
  /\ row.status = "completed" =>
       row.assigned_to \in Nodes /\ row.bond = 0 /\ row.attempts = Blames(row) + 1
  /\ row.status = "failed" =>
       Unheld(row) /\ row.attempts = Blames(row) /\ row.attempts = MaxAttempts[t]

OneHolder(T) == \A t, u \in Assigned(T) : T[t].assigned_to = T[u].assigned_to => t = u

GoodRows(T, l) ==
  /\ DOMAIN T = Tasks
  /\ T = [t \in Tasks |-> T[t]]
  /\ \A t \in Tasks : RowOK(t, T[t], l)
  /\ OneHolder(T)

(* The rest of the state, which GoodRows says nothing of.                  *)
RestOK ==
  /\ quarantine \in [Nodes -> Nat]
  /\ credit \in [Nodes -> Int]
  /\ balance \in [Nodes -> Int]
  /\ ledger \subseteq Keys
  /\ refunded \subseteq InferenceTasks
  /\ reports \subseteq Report
  /\ stale \subseteq RootSearch
  /\ lastLease \in Nat
  /\ held \subseteq Envelope

RowsInv == GoodRows(task, lastLease) /\ RestOK

(***************************************************************************)
(* Single rows.                                                            *)
(***************************************************************************)
LEMMA NodeSets ==
  ASSUME NEW X \in SUBSET Nodes
  PROVE  IsFiniteSet(X) /\ Cardinality(X) \in Nat
  BY NodesAssumption, FS_Subset, FS_CardinalityType

(* An inserted or refreshed row.                                           *)
LEMMA QueuedOK ==
  ASSUME NEW t \in Tasks, NEW X \in SUBSET Nodes, NEW l \in Nat
  PROVE  RowOK(t, Queued(X), l)
<1>1. Queued(X) \in Row
  BY DEF Queued, Unleased, Row, Status
<1>2. Blames(Queued(X)) = 0
  BY FS_EmptySet, X \ X = {} DEF Blames, Queued, Unleased
<1>3. 0 < MaxAttempts[t]
  BY TasksAssumption
<1> QED
  BY <1>1, <1>2, <1>3 DEF RowOK, Unheld, Queued, Unleased

(* The row of a holder that was found at fault: it is not assigned, and     *)
(* blames one identity more.                                                *)
LEMMA FaultedOK ==
  ASSUME NEW t \in Tasks, NEW row, NEW l \in Nat, RowOK(t, row, l),
         row.status = "assigned"
  PROVE  /\ RowOK(t, Faulted(t, row), l)
         /\ Faulted(t, row).status \in {"queued", "failed"}
         /\ Faulted(t, row).status = "failed" <=> row.attempts >= MaxAttempts[t]
<1> DEFINE new == Faulted(t, row)
           n == row.assigned_to
<1>1. /\ row \in Row
      /\ n \in Nodes \ row.excluded
      /\ row.excluded \in SUBSET Nodes
      /\ row.base \in SUBSET Nodes
      /\ row.attempts \in Nat
      /\ row.base \subseteq row.excluded
      /\ row.attempts = Blames(row) + 1
      /\ row.attempts <= MaxAttempts[t]
      /\ MaxAttempts[t] \in Nat
  BY TasksAssumption DEF RowOK, LeaseOK, Row
<1>2. /\ new.excluded = row.excluded \cup {n}
      /\ new.base = row.base
      /\ new.attempts = row.attempts
      /\ new.assigned_to = NoNode
      /\ new.bond = 0
      /\ new.status = IF row.attempts >= MaxAttempts[t] THEN "failed" ELSE "queued"
  BY DEF Faulted, Unleased
<1>3. new \in Row
  BY <1>1 DEF Faulted, Unleased, Row, Status
<1>4. Blames(new) = row.attempts
  <2>1. new.excluded \ new.base = (row.excluded \ row.base) \cup {n}
    BY <1>1, <1>2
  <2>2. IsFiniteSet(row.excluded \ row.base) /\ n \notin row.excluded \ row.base
    BY <1>1, NodeSets
  <2>3. Cardinality((row.excluded \ row.base) \cup {n}) = Blames(row) + 1
    BY <2>2, FS_AddElement DEF Blames
  <2> QED
    BY <1>1, <2>1, <2>3 DEF Blames
<1> HIDE DEF new, n
<1>5. RowOK(t, new, l) /\ new.status \in {"queued", "failed"}
  BY <1>1, <1>2, <1>3, <1>4 DEF RowOK, Unheld
<1> QED
  BY <1>1, <1>2, <1>5 DEF new

(* A row granted to n with the next token.                                 *)
LEMMA LeasedOK ==
  ASSUME NEW t \in Tasks, NEW row, lastLease \in Nat, RowOK(t, row, lastLease),
         row.status = "queued", NEW n \in Nodes \ row.excluded
  PROVE  /\ RowOK(t, Leased(row, t, n), lastLease + 1)
         /\ Leased(row, t, n).status = "assigned"
         /\ Leased(row, t, n).assigned_to = n
<1> DEFINE new == Leased(row, t, n)
<1>1. /\ row \in Row
      /\ row.attempts \in Nat
      /\ row.attempts = Blames(row)
      /\ row.base \subseteq row.excluded
      /\ row.attempts < MaxAttempts[t]
      /\ MaxAttempts[t] \in Nat
  BY TasksAssumption DEF RowOK, Row
<1>2. Earlier(DeadlineSpan, LeaseSpan) \in Int /\ Earlier(DeadlineSpan, LeaseSpan) <= DeadlineSpan
  BY SpansAssumption DEF Earlier
<1>3. /\ new.status = "assigned" /\ new.assigned_to = n
      /\ new.lease_token = lastLease + 1
      /\ new.expires = Earlier(DeadlineSpan, LeaseSpan)
      /\ new.deadline = DeadlineSpan
      /\ new.bond = Bond(t)
      /\ new.attempts = row.attempts + 1
      /\ new.excluded = row.excluded /\ new.base = row.base
  BY DEF Leased
<1>4. Bond(t) \in Nat
  BY UnitsAssumption DEF Bond
<1>5. new \in Row
  BY <1>1, <1>2, <1>4, SpansAssumption DEF Leased, Row, Status
<1>6. Blames(new) = row.attempts
  BY <1>1, <1>3 DEF Blames
<1> HIDE DEF new
<1>7. RowOK(t, new, lastLease + 1)
  BY <1>1, <1>2, <1>3, <1>5, <1>6 DEF RowOK, LeaseOK
<1> QED
  BY <1>3, <1>7 DEF new

(* A completed row keeps its holder.                                       *)
LEMMA CompletedOK ==
  ASSUME NEW t \in Tasks, NEW row, NEW l \in Nat, RowOK(t, row, l),
         row.status = "assigned"
  PROVE  RowOK(t, Completed(row), l)
<1> DEFINE new == Completed(row)
<1>1. /\ new.status = "completed" /\ new.assigned_to = row.assigned_to
      /\ new.bond = 0 /\ new.attempts = row.attempts
      /\ new.excluded = row.excluded /\ new.base = row.base
  BY DEF Completed
<1>2. new \in Row
  BY DEF Completed, RowOK, Row, Status
<1>3. Blames(new) = Blames(row)
  BY <1>1 DEF Blames
<1> HIDE DEF new
<1>4. RowOK(t, new, l)
  BY <1>1, <1>2, <1>3 DEF RowOK, LeaseOK
<1> QED
  BY <1>4 DEF new

(* Other timers, in the right order: renewals and the passing of time.     *)
LEMMA TimedOK ==
  ASSUME NEW t \in Tasks, NEW row, NEW l \in Nat, RowOK(t, row, l),
         row.status = "assigned", NEW x \in Int, NEW d \in Int, x <= d
  PROVE  /\ RowOK(t, Timed(row, x, d), l)
         /\ Timed(row, x, d).status = "assigned"
         /\ Timed(row, x, d).assigned_to = row.assigned_to
<1> DEFINE new == Timed(row, x, d)
<1>1. /\ new.status = "assigned" /\ new.assigned_to = row.assigned_to
      /\ new.lease_token = row.lease_token
      /\ new.expires = x /\ new.deadline = d
      /\ new.bond = row.bond /\ new.attempts = row.attempts
      /\ new.excluded = row.excluded /\ new.base = row.base
  BY DEF Timed
<1>2. new \in Row
  BY DEF Timed, RowOK, Row, Status
<1>3. Blames(new) = Blames(row)
  BY <1>1 DEF Blames
<1> HIDE DEF new
<1>4. RowOK(t, new, l)
  BY <1>1, <1>2, <1>3 DEF RowOK, LeaseOK
<1> QED
  BY <1>1, <1>4 DEF new

(* An abandoned row gives its attempt back.                                *)
Abandoned(row) ==
  Unleased("queued", Later(0, row.attempts - 1), row.excluded, row.base)

LEMMA AbandonedOK ==
  ASSUME NEW t \in Tasks, NEW row, NEW l \in Nat, RowOK(t, row, l),
         row.status = "assigned"
  PROVE  RowOK(t, Abandoned(row), l)
<1> DEFINE new == Abandoned(row)
<1>1. /\ row \in Row
      /\ row.attempts \in Nat
      /\ row.base \subseteq row.excluded
      /\ row.excluded \in SUBSET Nodes
      /\ row.attempts = Blames(row) + 1
      /\ row.attempts <= MaxAttempts[t]
      /\ MaxAttempts[t] \in Nat
  BY TasksAssumption DEF RowOK, Row
<1>2. Blames(row) \in Nat
  BY <1>1, NodeSets DEF Blames
<1>3. Later(0, row.attempts - 1) = Blames(row)
  BY <1>1, <1>2 DEF Later
<1>4. /\ new.status = "queued" /\ new.assigned_to = NoNode /\ new.bond = 0
      /\ new.attempts = Blames(row)
      /\ new.excluded = row.excluded /\ new.base = row.base
  BY <1>3 DEF Abandoned, Unleased
<1>5. new \in Row
  BY <1>1, <1>2, <1>3 DEF Abandoned, Unleased, Row, Status
<1>6. Blames(new) = Blames(row)
  BY <1>4 DEF Blames
<1> HIDE DEF new
<1>7. RowOK(t, new, l)
  BY <1>1, <1>2, <1>4, <1>5, <1>6 DEF RowOK, Unheld
<1> QED
  BY <1>7 DEF new

(* Minting tokens never disturbs a row.                                    *)
LEMMA MoreTokens ==
  ASSUME NEW t \in Tasks, NEW row, NEW l \in Nat, RowOK(t, row, l)
  PROVE  RowOK(t, row, l + 1)
<1>1. row.lease_token \in Nat
  BY DEF RowOK, Row
<1>2. row.lease_token <= l => row.lease_token <= l + 1
  BY <1>1
<1> QED
  BY <1>2 DEF RowOK, LeaseOK

(***************************************************************************)
(* Tables of rows.                                                         *)
(***************************************************************************)

(* A table whose rows are good, and whose holders held the same task in a   *)
(* good table before, is good.                                              *)
LEMMA FewerHolders ==
  ASSUME NEW T, NEW l, GoodRows(T, l), NEW U, NEW m,
         DOMAIN U = Tasks, U = [t \in Tasks |-> U[t]],
         \A t \in Tasks : RowOK(t, U[t], m),
         \A t \in Tasks : U[t].status = "assigned" =>
           T[t].status = "assigned" /\ U[t].assigned_to = T[t].assigned_to
  PROVE  GoodRows(U, m)
  BY DEF GoodRows, OneHolder, Assigned

LEMMA SweptOK ==
  ASSUME NEW T, NEW l \in Nat, GoodRows(T, l)
  PROVE  GoodRows(Swept(T), l)
<1> DEFINE U == Swept(T)
<1>1. DOMAIN U = Tasks /\ U = [t \in Tasks |-> U[t]]
  BY DEF Swept
<1>2. \A t \in Tasks : U[t] = IF t \in Expired(T) THEN Faulted(t, T[t]) ELSE T[t]
  BY DEF Swept
<1>3. \A t \in Tasks : RowOK(t, T[t], l)
  BY DEF GoodRows
<1> HIDE DEF U
<1>4. ASSUME NEW t \in Tasks
      PROVE  /\ RowOK(t, U[t], l)
             /\ U[t].status = "assigned" =>
                  T[t].status = "assigned" /\ U[t].assigned_to = T[t].assigned_to
  <2>1. CASE t \in Expired(T)
    <3>1. T[t].status = "assigned"
      BY <2>1 DEF Expired, Assigned
    <3>2. RowOK(t, U[t], l) /\ U[t].status \in {"queued", "failed"}
      BY <1>2, <1>3, <2>1, <3>1, FaultedOK
    <3> QED
      BY <3>2
  <2>2. CASE t \notin Expired(T)
    BY <1>2, <1>3, <2>2
  <2> QED
    BY <2>1, <2>2
<1>5. GoodRows(U, l)
  BY <1>1, <1>4, FewerHolders
<1> QED
  BY <1>5 DEF U

LEMMA RefreshedOK ==
  ASSUME NEW T, NEW l \in Nat, GoodRows(T, l), NEW S
  PROVE  GoodRows(Refreshed(T, S), l)
<1> DEFINE U == Refreshed(T, S)
<1>1. DOMAIN U = Tasks /\ U = [t \in Tasks |-> U[t]]
  BY DEF Refreshed
<1>2. \A t \in Tasks : U[t] = IF t \in S /\ T[t].status = "queued"
                                THEN Queued({}) ELSE T[t]
  BY DEF Refreshed
<1>3. \A t \in Tasks : RowOK(t, T[t], l)
  BY DEF GoodRows
<1>4. Queued({}).status = "queued"
  BY DEF Queued, Unleased
<1> HIDE DEF U
<1>5. \A t \in Tasks :
        /\ RowOK(t, U[t], l)
        /\ U[t].status = "assigned" =>
             T[t].status = "assigned" /\ U[t].assigned_to = T[t].assigned_to
  BY <1>2, <1>3, <1>4, QueuedOK
<1>6. GoodRows(U, l)
  BY <1>1, <1>5, FewerHolders
<1> QED
  BY <1>6 DEF U

LEMMA GrantedOK ==
  ASSUME NEW T, lastLease \in Nat, GoodRows(T, lastLease), NEW t \in Tasks,
         T[t].status = "queued", NEW n \in Nodes \ T[t].excluded, LeasedTo(T, n) = {}
  PROVE  GoodRows([T EXCEPT ![t] = Leased(@, t, n)], lastLease + 1)
<1> DEFINE U == [T EXCEPT ![t] = Leased(@, t, n)]
<1>1. /\ DOMAIN U = Tasks
      /\ U = [u \in Tasks |-> U[u]]
      /\ U[t] = Leased(T[t], t, n)
      /\ \A u \in Tasks \ {t} : U[u] = T[u]
  BY DEF GoodRows
<1>2. /\ RowOK(t, U[t], lastLease + 1)
      /\ U[t].status = "assigned"
      /\ U[t].assigned_to = n
  BY <1>1, LeasedOK DEF GoodRows
<1>3. \A u \in Tasks \ {t} : RowOK(u, U[u], lastLease + 1)
  BY <1>1, MoreTokens DEF GoodRows
<1>4. \A u \in Tasks \ {t} : T[u].status = "assigned" => T[u].assigned_to # n
  BY DEF LeasedTo, Assigned
<1> HIDE DEF U
<1>5. OneHolder(U)
  BY <1>1, <1>2, <1>4 DEF OneHolder, Assigned, GoodRows
<1>6. GoodRows(U, lastLease + 1)
  BY <1>1, <1>2, <1>3, <1>5 DEF GoodRows
<1> QED
  BY <1>6 DEF U

(* One row replaced by a good one that has the same holder, or none.       *)
LEMMA ReplacedOK ==
  ASSUME NEW T, NEW l \in Nat, GoodRows(T, l), NEW t \in Tasks, NEW row,
         RowOK(t, row, l),
         row.status = "assigned" =>
           T[t].status = "assigned" /\ row.assigned_to = T[t].assigned_to
  PROVE  GoodRows([T EXCEPT ![t] = row], l)
<1> DEFINE U == [T EXCEPT ![t] = row]
<1>1. /\ DOMAIN U = Tasks
      /\ U = [u \in Tasks |-> U[u]]
      /\ U[t] = row
      /\ \A u \in Tasks \ {t} : U[u] = T[u]
  BY DEF GoodRows
<1> HIDE DEF U
<1>2. \A u \in Tasks :
        /\ RowOK(u, U[u], l)
        /\ U[u].status = "assigned" =>
             T[u].status = "assigned" /\ U[u].assigned_to = T[u].assigned_to
  <2>1. \A u \in Tasks : RowOK(u, T[u], l)
    BY DEF GoodRows
  <2> QED
    BY <1>1, <2>1
<1>3. GoodRows(U, l)
  BY <1>1, <1>2, FewerHolders
<1> QED
  BY <1>3 DEF U

(***************************************************************************)
(* The rest of the state.                                                  *)
(***************************************************************************)

(* A set of inferences to refund is finite, so its cost is a number.        *)
LEMMA RefundCount ==
  ASSUME NEW F, NEW n \in Nodes, NEW S \in SUBSET RefundsOf(n, F)
  PROVE  Cardinality(S) \in Nat /\ CostUnits * Cardinality(S) \in Nat
<1>1. S \in SUBSET Tasks
  BY TasksAssumption DEF RefundsOf, Refundable
<1>2. Cardinality(S) \in Nat
  BY <1>1, TasksAssumption, FS_Subset, FS_CardinalityType
<1>3. \A a, b \in Nat : a * b \in Nat
  OBVIOUS
<1> QED
  BY <1>2, <1>3, UnitsAssumption

LEMMA RefundTypes ==
  ASSUME RestOK, NEW F
  PROVE  /\ RefundedCredit(F) \in [Nodes -> Int]
         /\ RefundedBalance(F) \in [Nodes -> Int]
         /\ RefundedLedger(F) \subseteq Keys
         /\ refunded \cup Refundable(F) \subseteq InferenceTasks
<1>1. RefundedCredit(F) \in [Nodes -> Int]
  <2>1. \A n \in Nodes : CostUnits * Cardinality(RefundsOf(n, F)) \in Nat
    BY RefundCount
  <2> QED
    BY <2>1 DEF RefundedCredit, RestOK
<1>2. RefundedBalance(F) \in [Nodes -> Int]
  <2>1. \A n \in Nodes :
          CostUnits * Cardinality({t \in RefundsOf(n, F) : RefundKey(t) \notin ledger}) \in Nat
    BY RefundCount
  <2> QED
    BY <2>1 DEF RefundedBalance, RestOK
<1>3. RefundedLedger(F) \subseteq Keys
  BY TasksAssumption DEF RefundedLedger, Refundable, RefundKey, Keys, RestOK
<1> QED
  BY <1>1, <1>2, <1>3 DEF Refundable, RestOK

LEMMA KeyTypes ==
  ASSUME NEW t \in Tasks, NEW l \in Nat
  PROVE  /\ LockKey(t, l) \in Keys /\ BondRefundKey(t, l) \in Keys
         /\ DebitKey(t) \in Keys /\ RefundKey(t) \in Keys /\ RewardKey(t) \in Keys
  BY DEF LockKey, BondRefundKey, DebitKey, RefundKey, RewardKey, Keys

LEMMA QuarantineType ==
  ASSUME RestOK, NEW T
  PROVE  SweptQuarantine(T) \in [Nodes -> Nat]
<1>1. \A n \in Nodes : quarantine[n] \in Nat /\ Later(quarantine[n], ExpiryQuarantine) \in Nat
  BY SpansAssumption DEF RestOK, Later
<1> QED
  BY <1>1 DEF SweptQuarantine

(***************************************************************************)
(* The actions.                                                            *)
(***************************************************************************)
LEMMA InitRows == Init => RowsInv
<1> SUFFICES ASSUME Init PROVE RowsInv
  OBVIOUS
<1>1. Absent \in Row /\ Absent.status = "absent" /\ Unheld(Absent) /\ Absent.base = Absent.excluded
  BY DEF Absent, Unleased, Row, Status, Unheld
<1>2. GoodRows(task, lastLease)
  BY <1>1 DEF Init, GoodRows, RowOK, OneHolder, Assigned
<1>3. RestOK
  BY UnitsAssumption DEF Init, RestOK
<1> QED
  BY <1>2, <1>3 DEF RowsInv

LEMMA EnqueueReplicasRows ==
  ASSUME RowsInv, NEW w, NEW X \in Exclusions, EnqueueReplicas(w, X)
  PROVE  RowsInv'
<1> DEFINE fresh == {t \in Replicated : /\ Work[t] = w
                                         /\ Slot[t] < Quorum
                                         /\ task[t].status = "absent"}
<1>1. \A t \in Tasks : task'[t] = IF t \in fresh THEN Queued(X) ELSE task[t]
  BY DEF EnqueueReplicas
<1>2. DOMAIN task' = Tasks /\ task' = [t \in Tasks |-> task'[t]] /\ lastLease' = lastLease
  BY DEF EnqueueReplicas
<1>3. X \in SUBSET Nodes /\ lastLease \in Nat
  BY TasksAssumption DEF RowsInv, RestOK
<1>4. Queued(X).status = "queued"
  BY DEF Queued, Unleased
<1>5. \A t \in Tasks : RowOK(t, task[t], lastLease)
  BY DEF RowsInv, GoodRows
<1> HIDE DEF fresh
<1>6. \A t \in Tasks :
        /\ RowOK(t, task'[t], lastLease)
        /\ task'[t].status = "assigned" =>
             task[t].status = "assigned" /\ task'[t].assigned_to = task[t].assigned_to
  BY <1>1, <1>3, <1>4, <1>5, QueuedOK
<1>7. GoodRows(task', lastLease')
  BY <1>2, <1>6, FewerHolders DEF RowsInv
<1>8. RestOK'
  BY DEF EnqueueReplicas, accounts, RowsInv, RestOK
<1> QED
  BY <1>7, <1>8 DEF RowsInv

LEMMA CreateInferenceRows ==
  ASSUME RowsInv, NEW t \in InferenceTasks, CreateInference(t)
  PROVE  RowsInv'
<1> DEFINE r == Requester[t]
<1>1. t \in Tasks /\ r \in Nodes /\ lastLease \in Nat /\ lastLease' = lastLease
  BY TasksAssumption DEF CreateInference, RowsInv, RestOK
<1>2. RowOK(t, Queued({r}), lastLease) /\ Queued({r}).status = "queued"
  BY <1>1, QueuedOK DEF Queued, Unleased
<1>3. task' = [task EXCEPT ![t] = Queued({r})]
  BY DEF CreateInference
<1>4. GoodRows(task', lastLease')
  BY <1>1, <1>2, <1>3, ReplacedOK DEF RowsInv
<1>5. RestOK'
  BY <1>1, KeyTypes, UnitsAssumption DEF CreateInference, RowsInv, RestOK
<1> QED
  BY <1>4, <1>5 DEF RowsInv

(* The sweep with which every claim begins.                                *)
LEMMA AtClaim ==
  ASSUME RowsInv, SweepBeforeClaim
  PROVE  /\ GoodRows(RowsAtClaim, lastLease)
         /\ quarantine' \in [Nodes -> Nat]
         /\ refunded' \subseteq InferenceTasks
         /\ stale' \subseteq RootSearch
<1>1. GoodRows(RowsAtClaim, lastLease)
  BY SweptOK, RefreshedOK DEF RowsAtClaim, RowsInv, RestOK
<1>2. quarantine' \in [Nodes -> Nat] /\ refunded' \subseteq InferenceTasks
  BY QuarantineType, RefundTypes DEF SweepBeforeClaim, RowsInv
<1>3. stale' \subseteq RootSearch
  BY DEF SweepBeforeClaim, StillStale, RowsInv, RestOK
<1> QED
  BY <1>1, <1>2, <1>3

LEMMA ClaimTaskRows ==
  ASSUME RowsInv, NEW n \in Nodes, ClaimTask(n)
  PROVE  RowsInv'
<1>1. PICK t \in Choices(n) :
        /\ task' = [RowsAtClaim EXCEPT ![t] = Leased(@, t, n)]
        /\ credit' = [RefundedCredit(Exhausted(task)) EXCEPT ![n] = @ - Bond(t)]
        /\ balance' = [RefundedBalance(Exhausted(task)) EXCEPT ![n] = @ - Bond(t)]
        /\ ledger' = RefundedLedger(Exhausted(task)) \cup
                       IF Bond(t) > 0 THEN {LockKey(t, lastLease + 1)} ELSE {}
        /\ held' = held \cup {[lease |-> lastLease + 1, task |-> t, node |-> n]}
  BY DEF ClaimTask
<1>2. /\ t \in Tasks
      /\ RowsAtClaim[t].status = "queued"
      /\ n \in Nodes \ RowsAtClaim[t].excluded
  BY <1>1 DEF Choices, Preferred, Claimable
<1>3. /\ LeasedTo(RowsAtClaim, n) = {}
      /\ lastLease \in Nat /\ lastLease' = lastLease + 1
      /\ SweepBeforeClaim
  BY DEF ClaimTask, MayClaim, RowsInv, RestOK
<1>4. GoodRows(task', lastLease')
  BY <1>1, <1>2, <1>3, AtClaim, GrantedOK
<1>5. Bond(t) \in Nat
  BY UnitsAssumption DEF Bond
<1>6. credit' \in [Nodes -> Int] /\ balance' \in [Nodes -> Int]
  BY <1>1, <1>5, RefundTypes DEF RowsInv
<1>7. ledger' \subseteq Keys
  BY <1>1, <1>2, <1>3, RefundTypes, KeyTypes DEF RowsInv
<1>8. held' \subseteq Envelope
  BY <1>1, <1>2, <1>3 DEF Envelope, RowsInv, RestOK
<1>9. reports' \subseteq Report /\ lastLease' \in Nat
  BY <1>3 DEF ClaimTask, RowsInv, RestOK
<1> QED
  BY <1>3, <1>4, <1>6, <1>7, <1>8, <1>9, AtClaim DEF RowsInv, RestOK

LEMMA ClaimNothingRows ==
  ASSUME RowsInv, NEW n \in Nodes, ClaimNothing(n)
  PROVE  RowsInv'
<1>1. task' = RowsAtClaim /\ SweepBeforeClaim /\ lastLease' = lastLease
  BY DEF ClaimNothing
<1>2. GoodRows(task', lastLease')
  BY <1>1, AtClaim
<1>3. RestOK'
  BY <1>1, AtClaim, RefundTypes DEF ClaimNothing, RowsInv, RestOK
<1> QED
  BY <1>2, <1>3 DEF RowsInv

LEMMA StatsRows ==
  ASSUME RowsInv, Stats
  PROVE  RowsInv'
<1>1. task' = Swept(task) /\ lastLease' = lastLease /\ lastLease \in Nat
  BY DEF Stats, RowsInv, RestOK
<1>2. GoodRows(task', lastLease')
  BY <1>1, SweptOK DEF RowsInv
<1>3. RestOK'
  BY QuarantineType, RefundTypes DEF Stats, Refund, RowsInv, RestOK
<1> QED
  BY <1>2, <1>3 DEF RowsInv

(* What is known of the row of an envelope that still holds its lease.     *)
LEMMA HeldRow ==
  ASSUME RowsInv, NEW e \in held, Holds(e)
  PROVE  /\ e.task \in Tasks /\ e.node \in Nodes /\ e.lease \in Nat
         /\ RowOK(e.task, task[e.task], lastLease)
         /\ task[e.task].status = "assigned"
         /\ task[e.task].assigned_to = e.node
         /\ task[e.task].expires \in Int
         /\ task[e.task].deadline \in Int
         /\ task[e.task].bond \in Nat
         /\ lastLease \in Nat
<1>1. e.task \in Tasks /\ e.node \in Nodes /\ e.lease \in Nat
  BY DEF RowsInv, RestOK, Envelope
<1>2. RowOK(e.task, task[e.task], lastLease) /\ lastLease \in Nat
  BY <1>1 DEF RowsInv, GoodRows, RestOK
<1> QED
  BY <1>1, <1>2 DEF Holds, RowOK, Row

LEMMA RenewRows ==
  ASSUME RowsInv, NEW e \in held, Renew(e)
  PROVE  RowsInv'
<1> DEFINE row == task[e.task]
           x == Earlier(row.deadline, row.expires + ExtensionSpan)
<1>1. Holds(e) /\ task' = [task EXCEPT ![e.task] = Timed(row, x, row.deadline)]
  BY DEF Renew
<1>2. x \in Int /\ x <= row.deadline
  BY <1>1, HeldRow, SpansAssumption DEF Earlier
<1> HIDE DEF x
<1>3. /\ RowOK(e.task, Timed(row, x, row.deadline), lastLease)
      /\ Timed(row, x, row.deadline).assigned_to = row.assigned_to
  BY <1>1, <1>2, HeldRow, TimedOK
<1>4. GoodRows(task', lastLease)
  BY <1>1, <1>3, HeldRow, ReplacedOK DEF RowsInv
<1>5. RestOK' /\ lastLease' = lastLease
  BY DEF Renew, accounts, RowsInv, RestOK
<1> QED
  BY <1>4, <1>5 DEF RowsInv

LEMMA AbandonRows ==
  ASSUME RowsInv, NEW e \in held, Abandon(e)
  PROVE  RowsInv'
<1>1. Holds(e) /\ task' = [task EXCEPT ![e.task] = Abandoned(task[e.task])]
  BY DEF Abandon, Abandoned
<1>2. /\ Abandoned(task[e.task]).status = "queued"
      /\ RowOK(e.task, Abandoned(task[e.task]), lastLease)
  BY <1>1, HeldRow, AbandonedOK DEF Abandoned, Unleased
<1>3. GoodRows(task', lastLease)
  BY <1>1, <1>2, HeldRow, ReplacedOK DEF RowsInv
<1>4. lastLease' = lastLease /\ ledger' \subseteq Keys
  BY <1>1, HeldRow, KeyTypes DEF Abandon, BondKeys, RowsInv, RestOK
<1>5. credit' \in [Nodes -> Int] /\ balance' \in [Nodes -> Int]
  BY <1>1, HeldRow DEF Abandon, ReturnedBond, RowsInv, RestOK
<1>6. RestOK'
  BY <1>4, <1>5 DEF Abandon, RowsInv, RestOK
<1> QED
  BY <1>3, <1>4, <1>6 DEF RowsInv

LEMMA CompleteInferenceRows ==
  ASSUME RowsInv, NEW e \in held, CompleteInference(e)
  PROVE  RowsInv'
<1>1. Holds(e) /\ task' = [task EXCEPT ![e.task] = Completed(task[e.task])]
  BY DEF CompleteInference, MayReport
<1>2. /\ Completed(task[e.task]).status = "completed"
      /\ RowOK(e.task, Completed(task[e.task]), lastLease)
  BY <1>1, HeldRow, CompletedOK DEF Completed
<1>3. GoodRows(task', lastLease)
  BY <1>1, <1>2, HeldRow, ReplacedOK DEF RowsInv
<1>4. lastLease' = lastLease /\ ledger' \subseteq Keys
  BY <1>1, HeldRow, KeyTypes DEF CompleteInference, BondKeys, RowsInv, RestOK
<1>5. credit' \in [Nodes -> Int] /\ balance' \in [Nodes -> Int]
  BY <1>1, HeldRow, UnitsAssumption DEF CompleteInference, ReturnedBond, RowsInv, RestOK
<1>6. RestOK'
  BY <1>4, <1>5 DEF CompleteInference, RowsInv, RestOK
<1> QED
  BY <1>3, <1>4, <1>6 DEF RowsInv

LEMMA CompleteReplicaRows ==
  ASSUME RowsInv, NEW e \in held, NEW v \in Values, CompleteReplica(e, v)
  PROVE  RowsInv'
<1> DEFINE w == Work[e.task]
           R == reports \cup {[task |-> e.task, node |-> e.node, value |-> v]}
           X == {r.node : r \in ReportsOn(R, w)}
           paid == {r \in Consensus(R, w) : RewardKey(r.task) \notin ledger}
           extra == [n \in Nodes |-> IF \E r \in paid : r.node = n THEN RewardUnits ELSE 0]
<1>1. /\ Holds(e)
      /\ e.task \in Replicated
      /\ lastLease' = lastLease
      /\ DOMAIN task' = Tasks
      /\ task' = [t \in Tasks |-> task'[t]]
  BY DEF CompleteReplica, MayReport
<1>2. R \subseteq Report
  BY <1>1, HeldRow DEF Report, RowsInv, RestOK
<1>3. X \in SUBSET Nodes
  BY <1>2 DEF ReportsOn, Report
<1>4. \A t \in Tasks : task'[t] = IF t = e.task THEN Completed(task[t])
                                  ELSE IF t \in Tiebreaker(R, w) THEN Queued(X)
                                  ELSE task[t]
  BY DEF CompleteReplica
<1>5. \A t \in Tasks : RowOK(t, task[t], lastLease)
  BY DEF RowsInv, GoodRows
<1>6. Queued(X).status = "queued" /\ Completed(task[e.task]).status = "completed"
  BY DEF Queued, Unleased, Completed
<1>7. RowOK(e.task, Completed(task[e.task]), lastLease)
  BY <1>1, HeldRow, CompletedOK
<1>8. \A t \in Tasks : RowOK(t, Queued(X), lastLease)
  BY <1>1, <1>3, HeldRow, QueuedOK
<1>9. credit' = [n \in Nodes |-> credit[n] + extra[n]]
      /\ balance' = [n \in Nodes |-> balance[n] + extra[n]]
      /\ ledger' = ledger \cup {RewardKey(r.task) : r \in paid}
      /\ reports' = R
  BY DEF CompleteReplica
<1>10. \A r \in paid : r.task \in Tasks
  BY <1>2 DEF Consensus, ReportsOn, Report, Replicated
<1>11. credit' \in [Nodes -> Int] /\ balance' \in [Nodes -> Int]
  BY <1>9, UnitsAssumption DEF RowsInv, RestOK
<1>12. ledger' \subseteq Keys
  BY <1>9, <1>10, KeyTypes DEF RowsInv, RestOK
<1>13. RestOK'
  BY <1>2, <1>9, <1>11, <1>12 DEF CompleteReplica, RowsInv, RestOK
<1> HIDE DEF w, R, X, paid, extra
<1>14. \A t \in Tasks :
        /\ RowOK(t, task'[t], lastLease)
        /\ task'[t].status = "assigned" =>
             task[t].status = "assigned" /\ task'[t].assigned_to = task[t].assigned_to
  BY <1>4, <1>5, <1>6, <1>7, <1>8
<1>15. GoodRows(task', lastLease')
  BY <1>1, <1>14, FewerHolders DEF RowsInv
<1> QED
  BY <1>13, <1>15 DEF RowsInv

LEMMA CompleteSearchRows ==
  ASSUME RowsInv, NEW e \in held, NEW v \in Values, CompleteSearch(e, v)
  PROVE  RowsInv'
<1>1. /\ Holds(e)
      /\ e.task \in RootSearch
      /\ lastLease' = lastLease
      /\ task' = [task EXCEPT ![e.task] = Completed(task[e.task])]
  BY DEF CompleteSearch, MayReport
<1>2. /\ Completed(task[e.task]).status = "completed"
      /\ RowOK(e.task, Completed(task[e.task]), lastLease)
  BY <1>1, HeldRow, CompletedOK DEF Completed
<1>3. GoodRows(task', lastLease')
  BY <1>1, <1>2, HeldRow, ReplacedOK DEF RowsInv
<1>4. reports' \subseteq Report
  BY <1>1, HeldRow, TasksAssumption DEF CompleteSearch, Report, RowsInv, RestOK
<1>5. RestOK'
  BY <1>4 DEF CompleteSearch, accounts, RowsInv, RestOK
<1> QED
  BY <1>3, <1>5 DEF RowsInv

LEMMA RejectRows ==
  ASSUME RowsInv, NEW e \in held, Reject(e)
  PROVE  RowsInv'
<1>1. /\ Holds(e)
      /\ lastLease' = lastLease
      /\ task' = [task EXCEPT ![e.task] = Faulted(e.task, task[e.task])]
  BY DEF Reject, MayReport
<1>2. /\ RowOK(e.task, Faulted(e.task, task[e.task]), lastLease)
      /\ Faulted(e.task, task[e.task]).status # "assigned"
  BY <1>1, HeldRow, FaultedOK
<1>3. GoodRows(task', lastLease')
  BY <1>1, <1>2, HeldRow, ReplacedOK DEF RowsInv
<1>4. quarantine' \in [Nodes -> Nat]
  BY SpansAssumption DEF Reject, Later, RowsInv, RestOK
<1>5. RestOK'
  BY <1>4, RefundTypes DEF Reject, Refund, RowsInv, RestOK
<1> QED
  BY <1>3, <1>5 DEF RowsInv

LEMMA TickRows ==
  ASSUME RowsInv, Tick
  PROVE  RowsInv'
<1>1. /\ DOMAIN task' = Tasks
      /\ task' = [t \in Tasks |-> task'[t]]
      /\ lastLease' = lastLease
      /\ lastLease \in Nat
  BY DEF Tick, RowsInv, RestOK
<1>2. ASSUME NEW t \in Tasks
      PROVE  /\ RowOK(t, task'[t], lastLease)
             /\ task'[t].status = "assigned" =>
                  task[t].status = "assigned" /\ task'[t].assigned_to = task[t].assigned_to
  <2>1. RowOK(t, task[t], lastLease)
    BY DEF RowsInv, GoodRows
  <2>2. CASE task[t].status = "assigned"
    <3> DEFINE x == Elapsed(task[t].expires)
               d == Elapsed(task[t].deadline)
    <3>1. x \in Int /\ d \in Int /\ x <= d
      BY <2>1, <2>2 DEF RowOK, LeaseOK, Row, Elapsed, Later
    <3>2. task'[t] = Timed(task[t], x, d)
      BY <2>2 DEF Tick
    <3> QED
      BY <1>1, <2>1, <2>2, <3>1, <3>2, TimedOK
  <2>3. CASE task[t].status # "assigned"
    BY <2>1, <2>3 DEF Tick
  <2> QED
    BY <2>2, <2>3
<1>3. GoodRows(task', lastLease')
  BY <1>1, <1>2, FewerHolders DEF RowsInv
<1>4. quarantine' \in [Nodes -> Nat]
  BY DEF Tick, Later, RowsInv, RestOK
<1>5. RestOK'
  BY <1>4 DEF Tick, accounts, RowsInv, RestOK
<1> QED
  BY <1>3, <1>5 DEF RowsInv

LEMMA UpgradeRows ==
  ASSUME RowsInv, Upgrade
  PROVE  RowsInv'
<1>1. task' = Refreshed(task, RootSearch) /\ lastLease' = lastLease /\ lastLease \in Nat
  BY DEF Upgrade, RowsInv, RestOK
<1>2. GoodRows(task', lastLease')
  BY <1>1, RefreshedOK DEF RowsInv
<1>3. RestOK'
  BY DEF Upgrade, accounts, RowsInv, RestOK
<1> QED
  BY <1>2, <1>3 DEF RowsInv

(* Every action keeps the invariant of the rows.                           *)
LEMMA RowsStep ==
  ASSUME RowsInv, [Next]_vars
  PROVE  RowsInv'
<1>1. CASE Enqueue
  BY <1>1, EnqueueReplicasRows, CreateInferenceRows DEF Enqueue
<1>2. ASSUME NEW n \in Nodes, Claim(n) PROVE RowsInv'
  BY <1>2, ClaimTaskRows, ClaimNothingRows DEF Claim
<1>3. ASSUME NEW e \in held, Respond(e) PROVE RowsInv'
  BY <1>3, RenewRows, AbandonRows, CompleteInferenceRows, CompleteReplicaRows,
     CompleteSearchRows, RejectRows DEF Respond
<1>4. CASE Stats
  BY <1>4, StatsRows
<1>5. CASE Tick
  BY <1>5, TickRows
<1>6. CASE Upgrade
  BY <1>6, UpgradeRows
<1>7. CASE UNCHANGED vars
  BY <1>7 DEF vars, accounts, RowsInv, RestOK
<1> QED
  BY <1>1, <1>2, <1>3, <1>4, <1>5, <1>6, <1>7 DEF Next

(* The invariant the theorems of this module follow from.                  *)
THEOREM RowsInvariant == Spec => []RowsInv
<1>1. RowsInv /\ [Next]_vars => RowsInv'
  BY RowsStep
<1> QED
  BY InitRows, <1>1, PTL DEF Spec

(* Every variable keeps its type: in particular credit_units, though         *)
(* debited, and the timers stay numbers of their ranges.                   *)
THEOREM TypeCorrect == Spec => []TypeOK
<1>1. RowsInv => TypeOK
  BY DEF RowsInv, RestOK, GoodRows, RowOK, TypeOK
<1> QED
  BY <1>1, RowsInvariant, PTL

(* claim_task never gives an identity a second lease, even when its sweep    *)
(* puts the task of that very identity back in the queue first.            *)
THEOREM LeasesAreExclusive == Spec => []OneActiveLease
<1>1. RowsInv => OneActiveLease
  BY DEF RowsInv, GoodRows, OneHolder, OneActiveLease
<1> QED
  BY <1>1, RowsInvariant, PTL

(* Renewals never carry a lease past the deadline set by its claim.        *)
THEOREM LeasesKeepTheirDeadline == Spec => []LeaseWithinDeadline
<1>1. RowsInv => LeaseWithinDeadline
  BY DEF RowsInv, GoodRows, RowOK, LeaseOK, LeaseWithinDeadline, Assigned
<1> QED
  BY <1>1, RowsInvariant, PTL

(* attempts, though incremented by claims, decremented by abandons and reset *)
(* by refreshes, counts the distinct identities at fault.                  *)
THEOREM AttemptsAreFaults == Spec => []AttemptsCountFaults
<1>1. RowsInv => AttemptsCountFaults
  <2> SUFFICES ASSUME RowsInv PROVE AttemptsCountFaults
    OBVIOUS
  <2>1. \A t \in Tasks : RowOK(t, task[t], lastLease)
    BY DEF RowsInv, GoodRows
  <2> QED
    BY <2>1 DEF RowOK, Blames, AttemptsCountFaults, Faults
<1> QED
  BY <1>1, RowsInvariant, PTL
-----------------------------------------------------------------------------
(***************************************************************************)
(* The replicas of a job are in different hands.                           *)
(*                                                                         *)
(* A claim compares a node with the reports and with the leases of a job,  *)
(* never with its completed rows; a result only with the reports.  So the  *)
(* invariant relates the rows to table work_reports.                       *)
(***************************************************************************)

(* T: a table of rows, R: the reports.                                     *)
CompletedReported(T, R) ==
  \A t \in Replicated : T[t].status = "completed" =>
    \E r \in R : r.task = t /\ r.node = T[t].assigned_to

HoldersNew(T, R) ==
  \A t \in Replicated : T[t].status = "assigned" =>
    \A r \in ReportsOn(R, Work[t]) : r.node # T[t].assigned_to

OneReportEach(R) ==
  \A r, s \in R : Work[r.task] = Work[s.task] /\ r.node = s.node => r.task = s.task

ReplicasInv ==
  /\ CompletedReported(task, reports)
  /\ HoldersNew(task, reports)
  /\ OneReportEach(reports)

(* The leases and completed rows of U were there before, in the same hands. *)
Kept(U) ==
  \A t \in Tasks : U[t].status \in {"assigned", "completed"} =>
    task[t].status = U[t].status /\ task[t].assigned_to = U[t].assigned_to

LEMMA KeptHolds ==
  ASSUME ReplicasInv, NEW U, Kept(U)
  PROVE  CompletedReported(U, reports) /\ HoldersNew(U, reports)
BY DEF ReplicasInv, Kept, CompletedReported, HoldersNew, Replicated

LEMMA KeptStep ==
  ASSUME ReplicasInv, Kept(task'), reports' = reports
  PROVE  ReplicasInv'
<1>1. CompletedReported(task', reports) /\ HoldersNew(task', reports)
  BY KeptHolds
<1> QED
  BY <1>1 DEF ReplicasInv

(***************************************************************************)
(* Actions without a report.                                               *)
(***************************************************************************)

LEMMA SweptKept == Kept(Swept(task))
BY DEF Kept, Swept, Faulted, Unleased

LEMMA AtClaimKept == Kept(RowsAtClaim)
<1>1. \A t \in Tasks : Refreshed(Swept(task), stale)[t] \in {Swept(task)[t], Queued({})}
  BY DEF Refreshed
<1>2. Queued({}).status = "queued"
  BY DEF Queued, Unleased
<1>3. Kept(Refreshed(Swept(task), stale))
  BY <1>1, <1>2, SweptKept DEF Kept
<1> QED
  BY <1>3, SweptKept DEF RowsAtClaim

(* One row replaced by a row without a holder.                             *)
LEMMA ReleasedKept ==
  ASSUME RowsInv, NEW t \in Tasks, NEW row, task' = [task EXCEPT ![t] = row],
         row.status \notin {"assigned", "completed"}
  PROVE  Kept(task')
BY DEF Kept, RowsInv, GoodRows

LEMMA ClaimReplicas ==
  ASSUME RowsInv, ReplicasInv, NEW n \in Nodes, ClaimTask(n)
  PROVE  ReplicasInv'
<1>1. PICK t \in Choices(n) : task' = [RowsAtClaim EXCEPT ![t] = Leased(@, t, n)]
  BY DEF ClaimTask
<1>2. t \in Tasks /\ ~AlreadyOn(RowsAtClaim, n, t)
  BY <1>1 DEF Choices, Preferred, Claimable
<1>3. DOMAIN RowsAtClaim = Tasks
  BY DEF RowsAtClaim, Refreshed, Swept
<1>4. /\ task'[t].status = "assigned"
      /\ task'[t].assigned_to = n
      /\ \A u \in Tasks \ {t} : task'[u] = RowsAtClaim[u]
  BY <1>1, <1>2, <1>3 DEF Leased
<1>5. CompletedReported(RowsAtClaim, reports) /\ HoldersNew(RowsAtClaim, reports)
  BY AtClaimKept, KeptHolds
<1>6. t \in Replicated => \A r \in ReportsOn(reports, Work[t]) : r.node # n
  BY <1>2 DEF AlreadyOn, ReportsOn
<1>7. CompletedReported(task', reports)
  BY <1>4, <1>5 DEF CompletedReported, Replicated
<1>8. HoldersNew(task', reports)
  BY <1>4, <1>5, <1>6 DEF HoldersNew, Replicated
<1>9. reports' = reports
  BY DEF ClaimTask
<1> QED
  BY <1>7, <1>8, <1>9 DEF ReplicasInv

(***************************************************************************)
(* Actions with a report.                                                  *)
(***************************************************************************)
LEMMA ReportStep ==
  ASSUME RowsInv, ReplicasInv, NEW e \in held, Holds(e), e.task \in Replicated, NEW v,
         reports' = reports \cup {[task |-> e.task, node |-> e.node, value |-> v]},
         \A r \in ReportsOn(reports, Work[e.task]) : r.node # e.node,
         task'[e.task].status = "completed",
         task'[e.task].assigned_to = task[e.task].assigned_to,
         \A t \in Tasks \ {e.task} : task'[t].status \in {"assigned", "completed"} =>
           task[t].status = task'[t].status /\ task[t].assigned_to = task'[t].assigned_to
  PROVE  ReplicasInv'
<1> DEFINE new == [task |-> e.task, node |-> e.node, value |-> v]
<1>1. /\ new.task = e.task /\ new.node = e.node
      /\ reports' = reports \cup {new}
  OBVIOUS
<1>2. /\ e.task \in Assigned(task)
      /\ task[e.task].assigned_to = e.node
      /\ OneHolder(task)
  BY HeldRow DEF Assigned, RowsInv, GoodRows
<1> HIDE DEF new
<1>3. CompletedReported(task', reports')
  <2>1. ASSUME NEW t \in Replicated, task'[t].status = "completed"
        PROVE  \E r \in reports' : r.task = t /\ r.node = task'[t].assigned_to
    <3>1. CASE t = e.task
      BY <1>1, <1>2, <3>1
    <3>2. CASE t # e.task
      BY <1>1, <2>1, <3>2 DEF ReplicasInv, CompletedReported, Replicated
    <3> QED
      BY <3>1, <3>2
  <2> QED
    BY <2>1 DEF CompletedReported
<1>4. HoldersNew(task', reports')
  <2>1. ASSUME NEW t \in Replicated, task'[t].status = "assigned",
               NEW r \in ReportsOn(reports', Work[t])
        PROVE  r.node # task'[t].assigned_to
    <3>1. /\ t \in Tasks /\ t # e.task
          /\ task[t].status = "assigned"
          /\ task'[t].assigned_to = task[t].assigned_to
      BY <2>1 DEF Replicated
    <3>2. CASE r = new
      BY <1>1, <1>2, <3>1, <3>2 DEF OneHolder, Assigned
    <3>3. CASE r # new
      <4>1. r \in ReportsOn(reports, Work[t])
        BY <1>1, <2>1, <3>3 DEF ReportsOn
      <4> QED
        BY <3>1, <4>1 DEF ReplicasInv, HoldersNew
    <3> QED
      BY <3>2, <3>3
  <2> QED
    BY <2>1 DEF HoldersNew
<1>5. OneReportEach(reports')
  BY <1>1 DEF ReplicasInv, OneReportEach, ReportsOn
<1> QED
  BY <1>3, <1>4, <1>5 DEF ReplicasInv

LEMMA CompleteReplicaReplicas ==
  ASSUME RowsInv, ReplicasInv, NEW e \in held, NEW v \in Values, CompleteReplica(e, v)
  PROVE  ReplicasInv'
<1>1. /\ Holds(e) /\ e.task \in Replicated /\ e.task \in Tasks
      /\ reports' = reports \cup {[task |-> e.task, node |-> e.node, value |-> v]}
      /\ \A r \in ReportsOn(reports, Work[e.task]) : r.node # e.node
  BY DEF CompleteReplica, MayReport, Replicated
<1>2. \A t \in Tasks : IF t = e.task THEN task'[t] = Completed(task[t])
                       ELSE task'[t] = task[t] \/ \E X : task'[t] = Queued(X)
  BY DEF CompleteReplica
<1>3. \A X : Queued(X).status = "queued"
  BY DEF Queued, Unleased
<1>4. /\ task'[e.task].status = "completed"
      /\ task'[e.task].assigned_to = task[e.task].assigned_to
  <2>1. task'[e.task] = Completed(task[e.task])
    BY <1>1, <1>2
  <2> QED
    BY <2>1 DEF Completed
<1>5. \A t \in Tasks \ {e.task} : task'[t].status \in {"assigned", "completed"} =>
        task[t].status = task'[t].status /\ task[t].assigned_to = task'[t].assigned_to
  BY <1>2, <1>3
<1> QED
  BY <1>1, <1>4, <1>5, ReportStep

LEMMA CompleteSearchReplicas ==
  ASSUME RowsInv, ReplicasInv, NEW e \in held, NEW v \in Values, CompleteSearch(e, v)
  PROVE  ReplicasInv'
<1>1. /\ Holds(e) /\ e.task \in Replicated /\ e.task \in Tasks
      /\ reports' = reports \cup {[task |-> e.task, node |-> e.node, value |-> v]}
      /\ \A r \in ReportsOn(reports, Work[e.task]) : r.node # e.node
  BY TasksAssumption DEF CompleteSearch, MayReport, Replicated
<1>2. task' = [task EXCEPT ![e.task] = Completed(@)] /\ DOMAIN task = Tasks
  BY DEF CompleteSearch, RowsInv, GoodRows
<1>3. /\ task'[e.task].status = "completed"
      /\ task'[e.task].assigned_to = task[e.task].assigned_to
      /\ \A t \in Tasks \ {e.task} : task'[t] = task[t]
  BY <1>1, <1>2 DEF Completed
<1> QED
  BY <1>1, <1>3, ReportStep

(* A paid inference is no replica: its row is outside the invariant.       *)
LEMMA CompleteInferenceReplicas ==
  ASSUME RowsInv, ReplicasInv, NEW e \in held, CompleteInference(e)
  PROVE  ReplicasInv'
<1>1. /\ e.task \in InferenceTasks
      /\ \A t \in Replicated : task'[t] = task[t]
      /\ reports' = reports
  BY DEF CompleteInference, RowsInv, GoodRows, Replicated
<1> QED
  BY <1>1 DEF ReplicasInv, CompletedReported, HoldersNew

LEMMA RespondReplicas ==
  ASSUME RowsInv, ReplicasInv, NEW e \in held, Respond(e)
  PROVE  ReplicasInv'
<1>1. DOMAIN task = Tasks
  BY DEF RowsInv, GoodRows
<1>2. CASE Renew(e)
  <2>1. Holds(e) /\ reports' = reports
    BY <1>2 DEF Renew
  <2>2. Kept(task')
    BY <1>1, <1>2, <2>1, HeldRow DEF Renew, Kept, Timed
  <2> QED
    BY <2>1, <2>2, KeptStep
<1>3. CASE Abandon(e)
  <2>1. /\ Holds(e) /\ reports' = reports
        /\ task' = [task EXCEPT ![e.task] = Abandoned(task[e.task])]
        /\ Abandoned(task[e.task]).status = "queued"
    BY <1>3 DEF Abandon, Abandoned, Unleased
  <2> QED
    BY <2>1, HeldRow, ReleasedKept, KeptStep
<1>4. CASE Reject(e)
  <2>1. /\ Holds(e) /\ reports' = reports
        /\ task' = [task EXCEPT ![e.task] = Faulted(e.task, task[e.task])]
        /\ Faulted(e.task, task[e.task]).status \in {"queued", "failed"}
    BY <1>4 DEF Reject, MayReport, Faulted, Unleased
  <2> QED
    BY <2>1, HeldRow, ReleasedKept, KeptStep
<1> QED
  BY <1>2, <1>3, <1>4, CompleteInferenceReplicas, CompleteReplicaReplicas,
     CompleteSearchReplicas DEF Respond

LEMMA ReplicasStep ==
  ASSUME RowsInv, ReplicasInv, [Next]_vars
  PROVE  ReplicasInv'
<1>1. CASE Enqueue
  <2>1. \A X : Queued(X).status = "queued"
    BY DEF Queued, Unleased
  <2>2. ASSUME NEW w \in WorkKeys, NEW X \in Exclusions, EnqueueReplicas(w, X)
        PROVE  Kept(task') /\ reports' = reports
    BY <2>1, <2>2 DEF EnqueueReplicas, Kept
  <2>3. ASSUME NEW t \in InferenceTasks, CreateInference(t)
        PROVE  Kept(task') /\ reports' = reports
    BY <2>1, <2>3, TasksAssumption, ReleasedKept DEF CreateInference
  <2> QED
    BY <1>1, <2>2, <2>3, KeptStep DEF Enqueue
<1>2. ASSUME NEW n \in Nodes, Claim(n) PROVE ReplicasInv'
  <2>1. CASE ClaimNothing(n)
    BY <2>1, AtClaimKept, KeptStep DEF ClaimNothing
  <2> QED
    BY <1>2, <2>1, ClaimReplicas DEF Claim
<1>3. ASSUME NEW e \in held, Respond(e) PROVE ReplicasInv'
  BY <1>3, RespondReplicas
<1>4. CASE Stats
  BY <1>4, SweptKept, KeptStep DEF Stats
<1>5. CASE Tick
  <2>1. Kept(task')
    BY <1>5 DEF Tick, Kept, Timed
  <2> QED
    BY <1>5, <2>1, KeptStep DEF Tick
<1>6. CASE Upgrade
  <2>1. Kept(task')
    BY <1>6 DEF Upgrade, Kept, Refreshed, Queued, Unleased
  <2> QED
    BY <1>6, <2>1, KeptStep DEF Upgrade
<1>7. CASE UNCHANGED vars
  BY <1>7 DEF vars, ReplicasInv
<1> QED
  BY <1>1, <1>2, <1>3, <1>4, <1>5, <1>6, <1>7 DEF Next

LEMMA ReplicasAreIndependent ==
  ASSUME RowsInv, ReplicasInv
  PROVE  IndependentReplicas
<1> SUFFICES ASSUME NEW t \in Replicated, NEW u \in Replicated, t # u, Work[t] = Work[u],
                    {task[t].status, task[u].status} \subseteq {"assigned", "completed"}
             PROVE  task[t].assigned_to # task[u].assigned_to
  BY DEF IndependentReplicas
<1>1. ASSUME NEW a \in Replicated, NEW b \in Replicated, Work[a] = Work[b],
             task[a].status = "completed", task[b].status = "assigned"
      PROVE  task[a].assigned_to # task[b].assigned_to
  BY <1>1 DEF ReplicasInv, CompletedReported, HoldersNew, ReportsOn
<1>2. CASE task[t].status = "assigned" /\ task[u].status = "assigned"
  BY <1>2 DEF RowsInv, GoodRows, OneHolder, Assigned, Replicated
<1>3. CASE task[t].status = "completed" /\ task[u].status = "completed"
  BY <1>3 DEF ReplicasInv, CompletedReported, OneReportEach
<1> QED
  BY <1>1, <1>2, <1>3

(* No identity has two replicas of a job, leased or completed: neither by   *)
(* claiming again after its report, nor by a tie-breaker, nor by reporting   *)
(* on one replica while it holds another.                                  *)
THEOREM ReplicasInDifferentHands == Spec => []IndependentReplicas
<1>1. Init => ReplicasInv
  BY DEF Init, Absent, Unleased, ReplicasInv, CompletedReported, HoldersNew,
         OneReportEach, Replicated
<1>2. RowsInv /\ ReplicasInv /\ [Next]_vars => ReplicasInv'
  BY ReplicasStep
<1>3. RowsInv /\ ReplicasInv => IndependentReplicas
  BY ReplicasAreIndependent
<1> QED
  BY <1>1, <1>2, <1>3, RowsInvariant, PTL DEF Spec
-----------------------------------------------------------------------------
(***************************************************************************)
(* TaskQueue implements TaskLifecycle where no contract is refreshable.    *)
(*                                                                         *)
(* A step of the lifecycle is a conjunction over tasks, so it is found row *)
(* by row: Follows says of a row and its successor what Stays and Step say *)
(* of the mapped variables.  A claim is a sweep of all rows followed by a  *)
(* grant of one; the swept row of a granted task may be the one the sweep  *)
(* has just taken from another node.                                       *)
(***************************************************************************)

Faulty(row) == row.excluded \ row.base

Turns(new, s, h, F) == new.status = s /\ new.assigned_to = h /\ Faulty(new) = F

FaultyNow(row) == Faulty(row) \cup {row.assigned_to}

Same(row, new) == Turns(new, row.status, row.assigned_to, Faulty(row))

Granting(row, new) ==
  row.status = "queued" /\ \E n \in Nodes \ Faulty(row) : Turns(new, "assigned", n, Faulty(row))

Faulting(t, row, new) ==
  /\ row.status = "assigned"
  /\ row.assigned_to \notin Faulty(row)
  /\ IF Cardinality(FaultyNow(row)) = MaxAttempts[t]
       THEN Turns(new, "failed", NoNode, FaultyNow(row))
       ELSE \/ Turns(new, "queued", NoNode, FaultyNow(row))
            \/ \E n \in Nodes \ FaultyNow(row) : Turns(new, "assigned", n, FaultyNow(row))

Follows(t, row, new) ==
  \/ Same(row, new)
  \/ row.status = "absent" /\ Turns(new, "queued", NoNode, {})
  \/ Granting(row, new)
  \/ row.status = "assigned" /\ Turns(new, "queued", NoNode, Faulty(row))
  \/ row.status = "assigned" /\ Turns(new, "completed", row.assigned_to, Faulty(row))
  \/ Faulting(t, row, new)

(***************************************************************************)
(* From rows to the abstract step.                                         *)
(***************************************************************************)
LEMMA SameCardinality == \A S : Promise!Cardinality(S) = Cardinality(S)
BY DEF Cardinality, IsFiniteSet, Promise!Cardinality, Promise!IsFiniteSet

LEMMA RowsToLifecycle ==
  ASSUME RowsInv', \A t \in Tasks : Follows(t, task[t], task'[t])
  PROVE  Promise!Next
<1>1. ASSUME NEW t \in Tasks
      PROVE  Promise!Stays(t) \/ Promise!Step(t)
  <2>1. Follows(t, task[t], task'[t])
    OBVIOUS
  <2>2. CASE Same(task[t], task'[t])
    BY <2>2 DEF Turns, Faulty, Promise!Becomes, Same, Promise!Stays
  <2>3. CASE task[t].status = "absent" /\ Turns(task'[t], "queued", NoNode, {})
    BY <2>3 DEF Turns, Faulty, Promise!Becomes, Promise!Step, Promise!Publish
  <2>4. CASE Granting(task[t], task'[t])
    BY <2>4 DEF Turns, Faulty, Promise!Becomes, Granting, Promise!Step, Promise!Grant
  <2>5. CASE task[t].status = "assigned" /\ Turns(task'[t], "queued", NoNode, Faulty(task[t]))
    BY <2>5 DEF Turns, Faulty, Promise!Becomes, Promise!Step, Promise!GiveBack
  <2>6. CASE /\ task[t].status = "assigned"
             /\ Turns(task'[t], "completed", task[t].assigned_to, Faulty(task[t]))
    BY <2>6 DEF Turns, Faulty, Promise!Becomes, Promise!Step, Promise!Finish
  <2>7. CASE Faulting(t, task[t], task'[t])
    <3>1. /\ task[t].status = "assigned"
          /\ task[t].assigned_to \notin Faulty(task[t])
      BY <2>7 DEF Faulting
    <3>2. CASE /\ Cardinality(FaultyNow(task[t])) = MaxAttempts[t]
               /\ Turns(task'[t], "failed", NoNode, FaultyNow(task[t]))
      BY <3>1, <3>2, SameCardinality DEF Turns, Faulty, FaultyNow, Promise!Becomes, Promise!Step, Promise!Blame,
                        Promise!Blamed
    <3>3. CASE /\ Cardinality(FaultyNow(task[t])) # MaxAttempts[t]
               /\ Turns(task'[t], "queued", NoNode, FaultyNow(task[t]))
      BY <3>1, <3>3, SameCardinality DEF Turns, Faulty, FaultyNow, Promise!Becomes, Promise!Step, Promise!Blame,
                        Promise!Blamed
    <3>4. ASSUME NEW n \in Nodes \ FaultyNow(task[t]),
                 Cardinality(FaultyNow(task[t])) # MaxAttempts[t],
                 Turns(task'[t], "assigned", n, FaultyNow(task[t]))
          PROVE  Promise!Stays(t) \/ Promise!Step(t)
      BY <3>1, <3>4, SameCardinality DEF Turns, Faulty, FaultyNow, Promise!Becomes, Promise!Step, Promise!Blame,
                        Promise!Blamed
    <3> QED
      BY <2>7, <3>2, <3>3, <3>4 DEF Faulting
  <2> QED
    BY <2>1, <2>2, <2>3, <2>4, <2>5, <2>6, <2>7 DEF Follows
<1>2. Promise!Exclusive'
  BY DEF RowsInv, GoodRows, OneHolder, Assigned, Promise!Exclusive
<1> QED
  BY <1>1, <1>2 DEF Promise!Next

(***************************************************************************)
(* Single rows.                                                            *)
(***************************************************************************)
LEMMA SameFollows ==
  ASSUME NEW t \in Tasks, NEW row
  PROVE  Follows(t, row, row)
BY DEF Follows, Same, Turns

(* The row of a holder at fault.                                           *)
LEMMA FaultedFollows ==
  ASSUME NEW t \in Tasks, NEW row, NEW l \in Nat, RowOK(t, row, l), row.status = "assigned"
  PROVE  /\ Faulting(t, row, Faulted(t, row))
         /\ Faulty(Faulted(t, row)) = FaultyNow(row)
         /\ Faulted(t, row).status = "queued" => Cardinality(FaultyNow(row)) # MaxAttempts[t]
<1> DEFINE n == row.assigned_to
<1>1. /\ n \in Nodes \ row.excluded
      /\ row.excluded \in SUBSET Nodes
      /\ row.base \subseteq row.excluded
      /\ row.attempts \in Nat
      /\ row.attempts = Cardinality(Faulty(row)) + 1
      /\ row.attempts <= MaxAttempts[t]
      /\ MaxAttempts[t] \in Nat
  BY TasksAssumption DEF RowOK, LeaseOK, Row, Blames, Faulty
<1>2. Cardinality(FaultyNow(row)) = row.attempts
  <2>1. IsFiniteSet(Faulty(row)) /\ n \notin Faulty(row)
    BY <1>1, NodeSets DEF Faulty
  <2>2. Cardinality(Faulty(row) \cup {n}) = Cardinality(Faulty(row)) + 1
    BY <2>1, FS_AddElement
  <2> QED
    BY <1>1, <2>2 DEF FaultyNow
<1>3. /\ Faulted(t, row).status = IF row.attempts >= MaxAttempts[t] THEN "failed" ELSE "queued"
      /\ Faulted(t, row).assigned_to = NoNode
      /\ Faulted(t, row).excluded = row.excluded \cup {n}
      /\ Faulted(t, row).base = row.base
  BY DEF Faulted, Unleased
<1>4. Faulty(Faulted(t, row)) = FaultyNow(row)
  BY <1>1, <1>3 DEF Faulty, FaultyNow
<1>5. n \notin Faulty(row)
  BY <1>1 DEF Faulty
<1>6. row.attempts >= MaxAttempts[t] <=> Cardinality(FaultyNow(row)) = MaxAttempts[t]
  BY <1>1, <1>2
<1> QED
  BY <1>3, <1>4, <1>5, <1>6 DEF Faulting, Turns

LEMMA SweptFollows ==
  ASSUME RowsInv, NEW t \in Tasks
  PROVE  Follows(t, task[t], Swept(task)[t])
<1>1. RowOK(t, task[t], lastLease) /\ lastLease \in Nat
  BY DEF RowsInv, GoodRows, RestOK
<1>2. CASE t \in Expired(task)
  <2>1. Swept(task)[t] = Faulted(t, task[t]) /\ task[t].status = "assigned"
    BY <1>2 DEF Swept, Expired, Assigned
  <2> QED
    BY <1>1, <2>1, FaultedFollows DEF Follows
<1>3. CASE t \notin Expired(task)
  BY <1>3, SameFollows DEF Swept
<1> QED
  BY <1>2, <1>3

(* Without refreshable contracts the rows at a claim are the swept ones.   *)
LEMMA NothingRefreshed ==
  ASSUME RootSearch = {}, RowsInv, NEW t \in Tasks
  PROVE  RowsAtClaim[t] = Swept(task)[t]
<1>1. t \notin stale
  BY DEF RowsInv, RestOK
<1> QED
  BY <1>1 DEF RowsAtClaim, Refreshed

(* A queued row of the swept table, granted to a node it does not exclude. *)
LEMMA LeasedFollows ==
  ASSUME RowsInv, NEW t \in Tasks, Swept(task)[t].status = "queued",
         NEW n \in Nodes \ Swept(task)[t].excluded
  PROVE  Follows(t, task[t], Leased(Swept(task)[t], t, n))
<1> DEFINE swept == Swept(task)[t]
           new == Leased(swept, t, n)
<1>1. Turns(new, "assigned", n, Faulty(swept)) /\ n \in Nodes \ Faulty(swept)
  BY DEF Leased, Turns, Faulty
<1>2. RowOK(t, task[t], lastLease) /\ lastLease \in Nat
  BY DEF RowsInv, GoodRows, RestOK
<1>3. CASE t \in Expired(task)
  <2>1. swept = Faulted(t, task[t]) /\ task[t].status = "assigned"
    BY <1>3 DEF Swept, Expired, Assigned
  <2>2. /\ Faulting(t, task[t], swept)
        /\ Faulty(swept) = FaultyNow(task[t])
        /\ Cardinality(FaultyNow(task[t])) # MaxAttempts[t]
    BY <1>2, <2>1, FaultedFollows
  <2> HIDE DEF new, swept
  <2>3. Faulting(t, task[t], new)
    BY <1>1, <2>2 DEF Faulting
  <2> QED
    BY <2>3 DEF Follows, new, swept
<1>4. CASE t \notin Expired(task)
  <2>1. swept = task[t]
    BY <1>4 DEF Swept
  <2> HIDE DEF new
  <2>2. Granting(task[t], new)
    BY <1>1, <2>1 DEF Granting
  <2> QED
    BY <2>2 DEF Follows, new
<1> QED
  BY <1>3, <1>4

(***************************************************************************)
(* Actions.                                                                *)
(***************************************************************************)
LEMMA EnqueueFollows ==
  ASSUME RowsInv, Enqueue
  PROVE  \A t \in Tasks : Follows(t, task[t], task'[t])
<1>1. \A X : Turns(Queued(X), "queued", NoNode, {})
  BY DEF Queued, Unleased, Turns, Faulty
<1>2. ASSUME NEW w \in WorkKeys, NEW X \in Exclusions, EnqueueReplicas(w, X), NEW t \in Tasks
      PROVE  Follows(t, task[t], task'[t])
  <2>1. task'[t] = task[t] \/ (task[t].status = "absent" /\ task'[t] = Queued(X))
    BY <1>2 DEF EnqueueReplicas
  <2> QED
    BY <1>1, <2>1, SameFollows DEF Follows
<1>3. ASSUME NEW u \in InferenceTasks, CreateInference(u), NEW t \in Tasks
      PROVE  Follows(t, task[t], task'[t])
  <2>1. \/ task'[t] = task[t]
        \/ task[t].status = "absent" /\ task'[t] = Queued({Requester[u]})
    BY <1>3 DEF CreateInference, RowsInv, GoodRows
  <2> QED
    BY <1>1, <2>1, SameFollows DEF Follows
<1> QED
  BY <1>2, <1>3 DEF Enqueue

LEMMA ClaimFollows ==
  ASSUME RootSearch = {}, RowsInv, NEW n \in Nodes, Claim(n)
  PROVE  \A t \in Tasks : Follows(t, task[t], task'[t])
<1>1. CASE ClaimNothing(n)
  BY <1>1, NothingRefreshed, SweptFollows DEF ClaimNothing
<1>2. CASE ClaimTask(n)
  <2>1. PICK u \in Choices(n) : task' = [RowsAtClaim EXCEPT ![u] = Leased(@, u, n)]
    BY <1>2 DEF ClaimTask
  <2>2. /\ u \in Tasks
        /\ RowsAtClaim[u].status = "queued"
        /\ n \in Nodes \ RowsAtClaim[u].excluded
    BY <2>1 DEF Choices, Preferred, Claimable
  <2>3. DOMAIN RowsAtClaim = Tasks
    BY DEF RowsAtClaim, Refreshed, Swept
  <2>4. ASSUME NEW t \in Tasks
        PROVE  Follows(t, task[t], task'[t])
    <3>1. CASE t = u
      <4>1. task'[t] = Leased(Swept(task)[t], t, n)
        BY <2>1, <2>3, <3>1, NothingRefreshed
      <4> QED
        BY <2>2, <3>1, <4>1, NothingRefreshed, LeasedFollows
    <3>2. CASE t # u
      <4>1. task'[t] = Swept(task)[t]
        BY <2>1, <2>3, <3>2, NothingRefreshed
      <4> QED
        BY <4>1, SweptFollows
    <3> QED
      BY <3>1, <3>2
  <2> QED
    BY <2>4
<1> QED
  BY <1>1, <1>2 DEF Claim

LEMMA RespondFollows ==
  ASSUME RowsInv, NEW e \in held, Respond(e)
  PROVE  \A t \in Tasks : Follows(t, task[t], task'[t])
<1> SUFFICES ASSUME NEW t \in Tasks PROVE Follows(t, task[t], task'[t])
  OBVIOUS
<1> DEFINE row == task[e.task]
<1>1. DOMAIN task = Tasks
  BY DEF RowsInv, GoodRows
<1>2. CASE Renew(e)
  <2>1. task'[t] = task[t] \/ \E x, d : task'[t] = Timed(task[t], x, d)
    BY <1>1, <1>2 DEF Renew
  <2>2. \A x, d : Same(task[t], Timed(task[t], x, d))
    BY DEF Same, Turns, Faulty, Timed
  <2> QED
    BY <2>1, <2>2, SameFollows DEF Follows
<1>3. CASE Abandon(e)
  <2>1. Holds(e) /\ task' = [task EXCEPT ![e.task] = Abandoned(row)]
    BY <1>3 DEF Abandon, Abandoned
  <2>2. Turns(Abandoned(row), "queued", NoNode, Faulty(row))
    BY DEF Abandoned, Unleased, Turns, Faulty
  <2>3. task'[t] = task[t] \/ (t = e.task /\ task'[t] = Abandoned(row))
    BY <1>1, <2>1
  <2> QED
    BY <2>1, <2>2, <2>3, HeldRow, SameFollows DEF Follows
<1>4. Turns(Completed(row), "completed", row.assigned_to, Faulty(row))
  BY DEF Completed, Turns, Faulty
<1>5. CASE CompleteInference(e)
  <2>1. Holds(e) /\ task' = [task EXCEPT ![e.task] = Completed(row)]
    BY <1>5 DEF CompleteInference, MayReport
  <2>2. task'[t] = task[t] \/ (t = e.task /\ task'[t] = Completed(row))
    BY <1>1, <2>1
  <2> QED
    BY <1>4, <2>1, <2>2, HeldRow, SameFollows DEF Follows
<1>6. ASSUME NEW v \in Values, CompleteReplica(e, v)
      PROVE  Follows(t, task[t], task'[t])
  <2>1. Holds(e)
    BY <1>6 DEF CompleteReplica, MayReport
  <2>2. \/ t = e.task /\ task'[t] = Completed(row)
        \/ task[t].status = "absent" /\ \E X : task'[t] = Queued(X)
        \/ task'[t] = task[t]
    BY <1>6 DEF CompleteReplica, Tiebreaker
  <2>3. \A X : Turns(Queued(X), "queued", NoNode, {})
    BY DEF Queued, Unleased, Turns, Faulty
  <2> QED
    BY <1>4, <2>1, <2>2, <2>3, HeldRow, SameFollows DEF Follows
<1>7. ASSUME NEW v \in Values, CompleteSearch(e, v)
      PROVE  Follows(t, task[t], task'[t])
  <2>1. Holds(e) /\ task' = [task EXCEPT ![e.task] = Completed(row)]
    BY <1>7 DEF CompleteSearch, MayReport
  <2>2. task'[t] = task[t] \/ (t = e.task /\ task'[t] = Completed(row))
    BY <1>1, <2>1
  <2> QED
    BY <1>4, <2>1, <2>2, HeldRow, SameFollows DEF Follows
<1>8. CASE Reject(e)
  <2>1. Holds(e) /\ task' = [task EXCEPT ![e.task] = Faulted(e.task, row)]
    BY <1>8 DEF Reject, MayReport
  <2>2. task'[t] = task[t] \/ (t = e.task /\ task'[t] = Faulted(t, task[t]))
    BY <1>1, <2>1
  <2>3. Faulting(e.task, row, Faulted(e.task, row))
    BY <2>1, HeldRow, FaultedFollows
  <2> QED
    BY <2>2, <2>3, SameFollows DEF Follows
<1> QED
  BY <1>2, <1>3, <1>5, <1>6, <1>7, <1>8 DEF Respond

LEMMA TickFollows ==
  ASSUME Tick
  PROVE  \A t \in Tasks : Follows(t, task[t], task'[t])
<1> SUFFICES ASSUME NEW t \in Tasks PROVE Follows(t, task[t], task'[t])
  OBVIOUS
<1>1. task'[t] = task[t] \/ \E x, d : task'[t] = Timed(task[t], x, d)
  BY DEF Tick
<1>2. \A x, d : Same(task[t], Timed(task[t], x, d))
  BY DEF Same, Turns, Faulty, Timed
<1> QED
  BY <1>1, <1>2, SameFollows DEF Follows

LEMMA LifecycleStep ==
  ASSUME RootSearch = {}, RowsInv, [Next]_vars
  PROVE  Promise!Next
<1>1. \A t \in Tasks : Follows(t, task[t], task'[t])
  <2>1. CASE Enqueue
    BY <2>1, EnqueueFollows
  <2>2. ASSUME NEW n \in Nodes, Claim(n)
        PROVE  \A t \in Tasks : Follows(t, task[t], task'[t])
    BY <2>2, ClaimFollows
  <2>3. ASSUME NEW e \in held, Respond(e)
        PROVE  \A t \in Tasks : Follows(t, task[t], task'[t])
    BY <2>3, RespondFollows
  <2>4. CASE Stats
    BY <2>4, SweptFollows DEF Stats
  <2>5. CASE Tick
    BY <2>5, TickFollows
  <2>6. CASE Upgrade
    BY <2>6 DEF Upgrade
  <2>7. CASE UNCHANGED vars
    BY <2>7, SameFollows DEF vars
  <2> QED
    BY <2>1, <2>2, <2>3, <2>4, <2>5, <2>6, <2>7 DEF Next
<1>2. RowsInv'
  BY RowsStep
<1> QED
  BY <1>1, <1>2, RowsToLifecycle

(* Every behaviour of the queue, with sweeps inside claims, late requests,  *)
(* tie-breakers and time, is seen from outside a behaviour of TaskLifecycle. *)
(* Contract refreshes forget faults, so tasks with one are excepted.        *)
THEOREM ImplementsLifecycle ==
  ASSUME RootSearch = {}
  PROVE  Spec => Lifecycle
<1>1. Init => Promise!Init
  BY DEF Init, Absent, Unleased, Promise!Init
<1>2. RowsInv /\ [Next]_vars => [Promise!Next]_(Promise!lifecycle)
  BY LifecycleStep
<1> QED
  BY <1>1, <1>2, RowsInvariant, PTL DEF Spec, Lifecycle, Promise!Spec
-----------------------------------------------------------------------------
(***************************************************************************)
(* The accounts.                                                           *)
(***************************************************************************)
(* The bond of a lease is refunded once: a refund key names a token that was *)
(* minted, and never the token of a lease that still runs.                 *)
BondsOpen ==
  \A t \in Tasks, l \in Nat : BondRefundKey(t, l) \in ledger =>
    /\ l <= lastLease
    /\ task[t].status = "assigned" => task[t].lease_token # l

AccountsInv == /\ RowsInv
               /\ CreditsMatchLedger
               /\ NoOverdraft
               /\ InferenceSettledOnce
               /\ BondsOpen

LEMMA DistinctKeys ==
  ASSUME NEW t, NEW u, NEW l, NEW m
  PROVE  /\ RefundKey(t) = RefundKey(u) => t = u
         /\ RewardKey(t) = RewardKey(u) => t = u
         /\ BondRefundKey(t, l) = BondRefundKey(u, m) => t = u /\ l = m
         /\ RefundKey(t) # RewardKey(u) /\ RefundKey(t) # BondRefundKey(u, m)
         /\ RefundKey(t) # LockKey(u, m) /\ RefundKey(t) # DebitKey(u)
         /\ RewardKey(t) # BondRefundKey(u, m) /\ RewardKey(t) # LockKey(u, m)
         /\ RewardKey(t) # DebitKey(u)
         /\ BondRefundKey(t, l) # LockKey(u, m) /\ BondRefundKey(t, l) # DebitKey(u)
  BY DEF RefundKey, RewardKey, BondRefundKey, LockKey, DebitKey

(***************************************************************************)
(* Refunds.                                                                *)
(***************************************************************************)

(* The column and the ledger move by the same amount, upwards.             *)
LEMMA RefundsAgree ==
  ASSUME AccountsInv, NEW F
  PROVE  /\ RefundedCredit(F) = RefundedBalance(F)
         /\ \A n \in Nodes : RefundedCredit(F)[n] >= 0
<1>1. \A n \in Nodes :
        {t \in RefundsOf(n, F) : RefundKey(t) \notin ledger} = RefundsOf(n, F)
  BY DEF RefundsOf, Refundable, AccountsInv, InferenceSettledOnce
<1>2. credit = balance
  BY DEF AccountsInv, CreditsMatchLedger
<1>3. RefundedCredit(F) = RefundedBalance(F)
  BY <1>1, <1>2 DEF RefundedCredit, RefundedBalance
<1>4. \A n \in Nodes : CostUnits * Cardinality(RefundsOf(n, F)) \in Nat
  BY RefundCount
<1>5. \A n \in Nodes : credit[n] \in Int /\ credit[n] >= 0
  BY DEF AccountsInv, NoOverdraft, RowsInv, RestOK
<1>6. \A n \in Nodes : RefundedCredit(F)[n] = credit[n] + CostUnits * Cardinality(RefundsOf(n, F))
  BY DEF RefundedCredit
<1>7. \A n \in Nodes : RefundedCredit(F)[n] >= 0
  BY <1>4, <1>5, <1>6
<1> QED
  BY <1>3, <1>7

LEMMA RefundedKeys ==
  ASSUME NEW F
  PROVE  /\ \A t \in InferenceTasks :
              RefundKey(t) \in RefundedLedger(F) <=>
                RefundKey(t) \in ledger \/ t \in Refundable(F)
         /\ \A t : RewardKey(t) \in RefundedLedger(F) <=> RewardKey(t) \in ledger
         /\ \A t, l : BondRefundKey(t, l) \in RefundedLedger(F) <=>
                        BondRefundKey(t, l) \in ledger
  BY DistinctKeys DEF RefundedLedger

(***************************************************************************)
(* The sweep, seen from the accounts.                                      *)
(***************************************************************************)

(* U is T after its exhausted leases failed: nothing else fails, nothing is  *)
(* completed, and a lease that still runs is untouched.                    *)
Ended(T, U) ==
  \A t \in Tasks :
    /\ U[t].status = "failed" <=> T[t].status = "failed" \/ t \in Exhausted(T)
    /\ U[t].status = "completed" <=> T[t].status = "completed"
    /\ U[t].status = "assigned" => T[t].status = "assigned" /\ U[t] = T[t]

LEMMA SweptEnds ==
  ASSUME RowsInv
  PROVE  Ended(task, Swept(task))
<1> SUFFICES ASSUME NEW t \in Tasks
             PROVE  /\ Swept(task)[t].status = "failed" <=>
                         task[t].status = "failed" \/ t \in Exhausted(task)
                    /\ Swept(task)[t].status = "completed" <=> task[t].status = "completed"
                    /\ Swept(task)[t].status = "assigned" =>
                         task[t].status = "assigned" /\ Swept(task)[t] = task[t]
  BY DEF Ended
<1>1. RowOK(t, task[t], lastLease) /\ lastLease \in Nat
  BY DEF RowsInv, GoodRows, RestOK
<1>2. CASE t \in Expired(task)
  <2>1. Swept(task)[t] = Faulted(t, task[t]) /\ task[t].status = "assigned"
    BY <1>2 DEF Swept, Expired, Assigned
  <2>2. /\ Swept(task)[t].status \in {"queued", "failed"}
        /\ Swept(task)[t].status = "failed" <=> task[t].attempts >= MaxAttempts[t]
    BY <1>1, <2>1, FaultedOK
  <2>3. t \in Exhausted(task) <=> task[t].attempts >= MaxAttempts[t]
    BY <1>2 DEF Exhausted
  <2> QED
    BY <2>1, <2>2, <2>3
<1>3. CASE t \notin Expired(task)
  BY <1>3 DEF Swept, Exhausted
<1> QED
  BY <1>2, <1>3

LEMMA AtClaimEnds ==
  ASSUME RowsInv
  PROVE  Ended(task, RowsAtClaim)
<1>1. Ended(task, Swept(task))
  BY SweptEnds
<1>2. CASE Requeued # {}
  <2>1. RowsAtClaim = Refreshed(Swept(task), stale)
    BY <1>2 DEF RowsAtClaim
  <2>2. \A t \in Tasks : \/ RowsAtClaim[t] = Swept(task)[t]
                         \/ /\ Swept(task)[t].status = "queued"
                            /\ RowsAtClaim[t].status = "queued"
    BY <2>1 DEF Refreshed, Queued, Unleased
  <2> QED
    BY <1>1, <2>2 DEF Ended
<1>3. CASE Requeued = {}
  BY <1>1, <1>3 DEF RowsAtClaim
<1> QED
  BY <1>2, <1>3

(* What a sweep leaves is settled: exhausted inferences and no others are    *)
(* refunded.                                                               *)
LEMMA SweptSettled ==
  ASSUME AccountsInv, NEW U, Ended(task, U), NEW t \in InferenceTasks
  PROVE  /\ U[t].status = "failed" <=> t \in refunded \cup Refundable(Exhausted(task))
         /\ t \in refunded \cup Refundable(Exhausted(task)) <=>
              RefundKey(t) \in RefundedLedger(Exhausted(task))
         /\ U[t].status = "completed" <=> RewardKey(t) \in RefundedLedger(Exhausted(task))
<1>1. t \in Tasks
  BY TasksAssumption
<1>2. t \in Refundable(Exhausted(task)) <=> t \in Exhausted(task) /\ t \notin refunded
  BY DEF Refundable
<1>3. /\ task[t].status = "failed" <=> t \in refunded
      /\ t \in refunded <=> RefundKey(t) \in ledger
      /\ task[t].status = "completed" <=> RewardKey(t) \in ledger
  BY DEF AccountsInv, InferenceSettledOnce
<1>4. /\ U[t].status = "failed" <=> task[t].status = "failed" \/ t \in Exhausted(task)
      /\ U[t].status = "completed" <=> task[t].status = "completed"
  BY <1>1 DEF Ended
<1> QED
  BY <1>2, <1>3, <1>4, RefundedKeys

LEMMA SweptBonds ==
  ASSUME AccountsInv, NEW U, Ended(task, U), NEW t \in Tasks, NEW l \in Nat,
         BondRefundKey(t, l) \in RefundedLedger(Exhausted(task))
  PROVE  l <= lastLease /\ (U[t].status = "assigned" => U[t].lease_token # l)
  BY RefundedKeys DEF AccountsInv, BondsOpen, Ended

(***************************************************************************)
(* The actions.                                                            *)
(***************************************************************************)
LEMMA InitAccounts == Init => AccountsInv
<1> SUFFICES ASSUME Init PROVE AccountsInv
  OBVIOUS
<1>1. \A t \in Tasks : task[t].status = "absent"
  BY DEF Init, Absent, Unleased
<1>2. InferenceSettledOnce
  BY <1>1, TasksAssumption DEF Init, InferenceSettledOnce
<1>3. NoOverdraft
  BY UnitsAssumption DEF Init, NoOverdraft
<1> QED
  BY <1>2, <1>3, InitRows DEF Init, AccountsInv, CreditsMatchLedger, BondsOpen

(* Steps that leave the accounts alone, end no task and start no lease.     *)
LEMMA QuietAccounts ==
  ASSUME AccountsInv, UNCHANGED <<accounts, lastLease>>,
         \A t \in Tasks :
           /\ task'[t].status = "failed" <=> task[t].status = "failed"
           /\ t \in InferenceTasks =>
                (task'[t].status = "completed" <=> task[t].status = "completed")
           /\ task'[t].status = "assigned" =>
                task[t].status = "assigned" /\ task'[t].lease_token = task[t].lease_token
  PROVE  (CreditsMatchLedger /\ NoOverdraft /\ InferenceSettledOnce /\ BondsOpen)'
  BY TasksAssumption
  DEF accounts, AccountsInv, CreditsMatchLedger, NoOverdraft, InferenceSettledOnce, BondsOpen

LEMMA EnqueueReplicasAccounts ==
  ASSUME AccountsInv, NEW w, NEW X, EnqueueReplicas(w, X)
  PROVE  (CreditsMatchLedger /\ NoOverdraft /\ InferenceSettledOnce /\ BondsOpen)'
<1>1. \A t \in Tasks : \/ task'[t] = task[t]
                       \/ task[t].status = "absent" /\ task'[t].status = "queued"
  BY DEF EnqueueReplicas, Queued, Unleased
<1>2. UNCHANGED <<accounts, lastLease>>
  BY DEF EnqueueReplicas
<1> QED
  BY <1>1, <1>2, QuietAccounts

LEMMA CreateInferenceAccounts ==
  ASSUME AccountsInv, NEW t \in InferenceTasks, CreateInference(t)
  PROVE  (CreditsMatchLedger /\ NoOverdraft /\ InferenceSettledOnce /\ BondsOpen)'
<1> DEFINE r == Requester[t]
<1>1. /\ t \in Tasks /\ r \in Nodes
      /\ credit = balance /\ credit \in [Nodes -> Int]
      /\ \A n \in Nodes : credit[n] >= 0
      /\ DOMAIN task = Tasks
  BY TasksAssumption DEF AccountsInv, CreditsMatchLedger, NoOverdraft, RowsInv, RestOK, GoodRows
<1>2. /\ credit' = [credit EXCEPT ![r] = @ - CostUnits]
      /\ balance' = [balance EXCEPT ![r] = @ - CostUnits]
      /\ credit[r] >= CostUnits
      /\ task' = [task EXCEPT ![t] = Queued({r})]
      /\ ledger' = ledger \cup {DebitKey(t)}
      /\ refunded' = refunded /\ lastLease' = lastLease
      /\ task[t].status = "absent"
  BY DEF CreateInference
<1>3. CreditsMatchLedger' /\ NoOverdraft'
  BY <1>1, <1>2, UnitsAssumption DEF CreditsMatchLedger, NoOverdraft
<1>4. /\ task'[t].status = "queued"
      /\ \A u \in Tasks \ {t} : task'[u] = task[u]
  BY <1>1, <1>2 DEF Queued, Unleased
<1>5. /\ \A u : RefundKey(u) \in ledger' <=> RefundKey(u) \in ledger
      /\ \A u : RewardKey(u) \in ledger' <=> RewardKey(u) \in ledger
      /\ \A u, l : BondRefundKey(u, l) \in ledger' <=> BondRefundKey(u, l) \in ledger
  BY <1>2, DistinctKeys
<1>6. InferenceSettledOnce'
  BY <1>1, <1>2, <1>4, <1>5, TasksAssumption DEF AccountsInv, InferenceSettledOnce
<1>7. BondsOpen'
  BY <1>1, <1>2, <1>4, <1>5 DEF AccountsInv, BondsOpen
<1> QED
  BY <1>3, <1>6, <1>7

LEMMA ClaimTaskAccounts ==
  ASSUME AccountsInv, NEW n \in Nodes, ClaimTask(n)
  PROVE  (CreditsMatchLedger /\ NoOverdraft /\ InferenceSettledOnce /\ BondsOpen)'
<1> DEFINE F == Exhausted(task)
<1>1. PICK t \in Choices(n) :
        /\ task' = [RowsAtClaim EXCEPT ![t] = Leased(@, t, n)]
        /\ credit' = [RefundedCredit(F) EXCEPT ![n] = @ - Bond(t)]
        /\ balance' = [RefundedBalance(F) EXCEPT ![n] = @ - Bond(t)]
        /\ ledger' = RefundedLedger(F) \cup
                       IF Bond(t) > 0 THEN {LockKey(t, lastLease + 1)} ELSE {}
  BY DEF ClaimTask
<1>2. /\ t \in Tasks
      /\ RowsAtClaim[t].status = "queued"
      /\ Bond(t) > 0 => RefundedCredit(F)[n] >= Bond(t)
  BY <1>1 DEF Choices, Preferred, Claimable
<1>3. /\ refunded' = refunded \cup Refundable(F)
      /\ lastLease' = lastLease + 1 /\ lastLease \in Nat
      /\ SweepBeforeClaim
      /\ RowsInv
  BY DEF ClaimTask, SweepBeforeClaim, AccountsInv, RowsInv, RestOK
<1>4. Ended(task, RowsAtClaim) /\ DOMAIN RowsAtClaim = Tasks
  BY <1>3, AtClaimEnds, AtClaim DEF GoodRows
<1>5. /\ RefundedCredit(F) = RefundedBalance(F)
      /\ \A m \in Nodes : RefundedCredit(F)[m] >= 0
      /\ RefundedCredit(F) \in [Nodes -> Int]
  BY <1>3, RefundsAgree, RefundTypes DEF RowsInv
<1>6. Bond(t) \in Nat
  BY UnitsAssumption DEF Bond
<1> HIDE DEF F
<1>7. CreditsMatchLedger' /\ NoOverdraft'
  BY <1>1, <1>2, <1>5, <1>6 DEF CreditsMatchLedger, NoOverdraft
<1>8. /\ task'[t].status = "assigned"
      /\ task'[t].lease_token = lastLease + 1
      /\ \A u \in Tasks \ {t} : task'[u] = RowsAtClaim[u]
  BY <1>1, <1>2, <1>4 DEF Leased
<1>9. /\ \A u : RefundKey(u) \in ledger' <=> RefundKey(u) \in RefundedLedger(F)
      /\ \A u : RewardKey(u) \in ledger' <=> RewardKey(u) \in RefundedLedger(F)
      /\ \A u, l : BondRefundKey(u, l) \in ledger' <=> BondRefundKey(u, l) \in RefundedLedger(F)
  BY <1>1, DistinctKeys
<1>10. InferenceSettledOnce'
  <2> SUFFICES ASSUME NEW u \in InferenceTasks
               PROVE  /\ task'[u].status = "failed" <=> u \in refunded'
                      /\ u \in refunded' <=> RefundKey(u) \in ledger'
                      /\ task'[u].status = "completed" <=> RewardKey(u) \in ledger'
    BY DEF InferenceSettledOnce
  <2>1. /\ RowsAtClaim[u].status = "failed" <=> u \in refunded \cup Refundable(F)
        /\ u \in refunded \cup Refundable(F) <=> RefundKey(u) \in RefundedLedger(F)
        /\ RowsAtClaim[u].status = "completed" <=> RewardKey(u) \in RefundedLedger(F)
    BY <1>4, SweptSettled DEF F
  <2>2. u \in Tasks
    BY TasksAssumption
  <2> QED
    BY <1>2, <1>3, <1>8, <1>9, <2>1, <2>2
<1>11. BondsOpen'
  <2> SUFFICES ASSUME NEW u \in Tasks, NEW l \in Nat, BondRefundKey(u, l) \in ledger'
               PROVE  /\ l <= lastLease'
                      /\ task'[u].status = "assigned" => task'[u].lease_token # l
    BY DEF BondsOpen
  <2>1. l <= lastLease /\ (RowsAtClaim[u].status = "assigned" => RowsAtClaim[u].lease_token # l)
    BY <1>4, <1>9, SweptBonds DEF F
  <2> QED
    BY <1>3, <1>8, <2>1
<1> QED
  BY <1>7, <1>10, <1>11

(* A sweep by itself: an unsuccessful claim, or stats.                     *)
LEMMA SweepAccounts ==
  ASSUME AccountsInv, Ended(task, task'), Refund(Exhausted(task)), lastLease' = lastLease
  PROVE  (CreditsMatchLedger /\ NoOverdraft /\ InferenceSettledOnce /\ BondsOpen)'
<1>1. CreditsMatchLedger' /\ NoOverdraft'
  BY RefundsAgree DEF Refund, CreditsMatchLedger, NoOverdraft
<1>2. InferenceSettledOnce'
  BY SweptSettled DEF Refund, InferenceSettledOnce
<1>3. BondsOpen'
  BY SweptBonds DEF Refund, BondsOpen
<1> QED
  BY <1>1, <1>2, <1>3

(* The bond of a lease that still runs was never refunded.                 *)
LEMMA FreshRefund ==
  ASSUME AccountsInv, NEW e \in held, Holds(e)
  PROVE  BondRefundKey(e.task, e.lease) \notin ledger
<1>1. e.task \in Tasks /\ e.lease \in Nat
  BY HeldRow DEF AccountsInv
<1> QED
  BY <1>1 DEF Holds, AccountsInv, BondsOpen

LEMMA AbandonAccounts ==
  ASSUME AccountsInv, NEW e \in held, Abandon(e)
  PROVE  (CreditsMatchLedger /\ NoOverdraft /\ InferenceSettledOnce /\ BondsOpen)'
<1> DEFINE row == task[e.task]
           key == BondRefundKey(e.task, e.lease)
<1>1. /\ Holds(e) /\ RowsInv
      /\ task' = [task EXCEPT ![e.task] = Abandoned(row)]
      /\ credit' = [credit EXCEPT ![e.node] = @ + row.bond]
      /\ balance' = [balance EXCEPT ![e.node] = @ + ReturnedBond(row, key)]
      /\ ledger' = ledger \cup BondKeys(row, key)
      /\ refunded' = refunded /\ lastLease' = lastLease
  BY DEF Abandon, Abandoned, AccountsInv
<1>2. /\ e.task \in Tasks /\ e.node \in Nodes /\ e.lease \in Nat
      /\ row.status = "assigned" /\ row.bond \in Nat /\ row.lease_token = e.lease
      /\ row.lease_token <= lastLease
      /\ DOMAIN task = Tasks
  BY <1>1, HeldRow DEF Holds, RowOK, LeaseOK, RowsInv, GoodRows
<1>3. key \notin ledger
  BY <1>1, FreshRefund
<1>4. ReturnedBond(row, key) = row.bond
  BY <1>3 DEF ReturnedBond
<1>5. /\ credit = balance /\ credit \in [Nodes -> Int]
      /\ \A n \in Nodes : credit[n] >= 0
  BY <1>1 DEF AccountsInv, CreditsMatchLedger, NoOverdraft, RowsInv, RestOK
<1>6. CreditsMatchLedger' /\ NoOverdraft'
  BY <1>1, <1>2, <1>4, <1>5 DEF CreditsMatchLedger, NoOverdraft
<1>7. /\ task'[e.task].status = "queued"
      /\ \A u \in Tasks \ {e.task} : task'[u] = task[u]
  BY <1>1, <1>2 DEF Abandoned, Unleased
<1>8. /\ \A u : RefundKey(u) \in ledger' <=> RefundKey(u) \in ledger
      /\ \A u : RewardKey(u) \in ledger' <=> RewardKey(u) \in ledger
      /\ \A u, l : BondRefundKey(u, l) \in ledger' =>
                     BondRefundKey(u, l) \in ledger \/ (u = e.task /\ l = e.lease)
  BY <1>1, DistinctKeys DEF BondKeys
<1> HIDE DEF row, key
<1>9. InferenceSettledOnce'
  BY <1>1, <1>2, <1>7, <1>8, TasksAssumption DEF AccountsInv, InferenceSettledOnce, row
<1>10. BondsOpen'
  BY <1>1, <1>2, <1>7, <1>8 DEF AccountsInv, BondsOpen
<1> QED
  BY <1>6, <1>9, <1>10

LEMMA CompleteInferenceAccounts ==
  ASSUME AccountsInv, NEW e \in held, CompleteInference(e)
  PROVE  (CreditsMatchLedger /\ NoOverdraft /\ InferenceSettledOnce /\ BondsOpen)'
<1> DEFINE row == task[e.task]
           key == BondRefundKey(e.task, e.lease)
           paid == IF RewardKey(e.task) \in ledger THEN 0 ELSE RewardUnits
<1>1. /\ Holds(e) /\ RowsInv /\ e.task \in InferenceTasks
      /\ task' = [task EXCEPT ![e.task] = Completed(row)]
      /\ credit' = [credit EXCEPT ![e.node] = @ + paid + row.bond]
      /\ balance' = [balance EXCEPT ![e.node] = @ + paid + ReturnedBond(row, key)]
      /\ ledger' = ledger \cup {RewardKey(e.task)} \cup BondKeys(row, key)
      /\ refunded' = refunded /\ lastLease' = lastLease
  BY DEF CompleteInference, MayReport, AccountsInv
<1>2. /\ e.task \in Tasks /\ e.node \in Nodes /\ e.lease \in Nat
      /\ row.status = "assigned" /\ row.bond \in Nat /\ row.lease_token = e.lease
      /\ row.lease_token <= lastLease
      /\ DOMAIN task = Tasks
  BY <1>1, HeldRow DEF Holds, RowOK, LeaseOK, RowsInv, GoodRows
<1>3. key \notin ledger
  BY <1>1, FreshRefund
<1>4. ReturnedBond(row, key) = row.bond /\ paid \in Nat
  BY <1>3, UnitsAssumption DEF ReturnedBond
<1>5. /\ credit = balance /\ credit \in [Nodes -> Int]
      /\ \A n \in Nodes : credit[n] >= 0
  BY <1>1 DEF AccountsInv, CreditsMatchLedger, NoOverdraft, RowsInv, RestOK
<1>7. /\ task'[e.task].status = "completed"
      /\ \A u \in Tasks \ {e.task} : task'[u] = task[u]
  BY <1>1, <1>2 DEF Completed
<1>8. /\ \A u : RefundKey(u) \in ledger' <=> RefundKey(u) \in ledger
      /\ \A u : RewardKey(u) \in ledger' <=> RewardKey(u) \in ledger \/ u = e.task
      /\ \A u, l : BondRefundKey(u, l) \in ledger' =>
                     BondRefundKey(u, l) \in ledger \/ (u = e.task /\ l = e.lease)
  BY <1>1, DistinctKeys DEF BondKeys
<1> HIDE DEF row, key, paid
<1>9. CreditsMatchLedger' /\ NoOverdraft'
  BY <1>1, <1>2, <1>4, <1>5 DEF CreditsMatchLedger, NoOverdraft
<1>10. InferenceSettledOnce'
  BY <1>1, <1>2, <1>7, <1>8, TasksAssumption DEF AccountsInv, InferenceSettledOnce, row
<1>11. BondsOpen'
  BY <1>1, <1>2, <1>7, <1>8 DEF AccountsInv, BondsOpen
<1> QED
  BY <1>9, <1>10, <1>11

LEMMA CompleteReplicaAccounts ==
  ASSUME AccountsInv, NEW e \in held, NEW v \in Values, CompleteReplica(e, v)
  PROVE  (CreditsMatchLedger /\ NoOverdraft /\ InferenceSettledOnce /\ BondsOpen)'
<1> DEFINE w == Work[e.task]
           R == reports \cup {[task |-> e.task, node |-> e.node, value |-> v]}
           paid == {r \in Consensus(R, w) : RewardKey(r.task) \notin ledger}
           extra == [n \in Nodes |-> IF \E r \in paid : r.node = n THEN RewardUnits ELSE 0]
<1>1. /\ e.task \in Replicated
      /\ credit' = [n \in Nodes |-> credit[n] + extra[n]]
      /\ balance' = [n \in Nodes |-> balance[n] + extra[n]]
      /\ ledger' = ledger \cup {RewardKey(r.task) : r \in paid}
      /\ refunded' = refunded /\ lastLease' = lastLease
      /\ MayReport(e)
  BY DEF CompleteReplica
<1>2. /\ e.task \in Tasks /\ e.node \in Nodes
      /\ task[e.task].status = "assigned"
      /\ DOMAIN task = Tasks
      /\ reports \subseteq Report
  BY <1>1, HeldRow DEF MayReport, AccountsInv, RowsInv, RestOK, GoodRows
<1>3. \A r \in paid : r.task \in Replicated
  BY <1>1, <1>2 DEF Consensus, ReportsOn, Report
<1>4. /\ credit = balance /\ credit \in [Nodes -> Int]
      /\ \A n \in Nodes : credit[n] >= 0
  BY DEF AccountsInv, CreditsMatchLedger, NoOverdraft, RowsInv, RestOK
<1>5. \A n \in Nodes : extra[n] \in Nat
  BY UnitsAssumption
<1>6. \A t \in Tasks : \/ task'[t] = task[t]
                       \/ t = e.task /\ task'[t].status = "completed"
                       \/ task[t].status = "absent" /\ task'[t].status = "queued"
  <2>1. \A t \in Tasks : t \in Tiebreaker(R, w) => task[t].status = "absent"
    BY DEF Tiebreaker
  <2> QED
    BY <1>2, <2>1 DEF CompleteReplica, Queued, Unleased, Completed
<1>7. /\ \A u : RefundKey(u) \in ledger' <=> RefundKey(u) \in ledger
      /\ \A u \in InferenceTasks : RewardKey(u) \in ledger' <=> RewardKey(u) \in ledger
      /\ \A u, l : BondRefundKey(u, l) \in ledger' <=> BondRefundKey(u, l) \in ledger
  <2> HIDE DEF w, R, paid, extra
  <2>1. \A k : k \in ledger' <=> k \in ledger \/ \E r \in paid : k = RewardKey(r.task)
    BY <1>1
  <2>2. \A u \in InferenceTasks : \A r \in paid : RewardKey(u) # RewardKey(r.task)
    BY <1>3, DistinctKeys DEF Replicated
  <2>3. \A u, l : \A r \in paid : /\ RefundKey(u) # RewardKey(r.task)
                                  /\ BondRefundKey(u, l) # RewardKey(r.task)
    BY DistinctKeys
  <2> QED
    BY <2>1, <2>2, <2>3
<1> HIDE DEF w, R, paid, extra
<1>8. CreditsMatchLedger' /\ NoOverdraft'
  BY <1>1, <1>4, <1>5 DEF CreditsMatchLedger, NoOverdraft
<1>9. InferenceSettledOnce'
  BY <1>1, <1>6, <1>7, TasksAssumption DEF AccountsInv, InferenceSettledOnce, Replicated
<1>10. BondsOpen'
  BY <1>1, <1>6, <1>7 DEF AccountsInv, BondsOpen
<1> QED
  BY <1>8, <1>9, <1>10

LEMMA RejectAccounts ==
  ASSUME AccountsInv, NEW e \in held, Reject(e)
  PROVE  (CreditsMatchLedger /\ NoOverdraft /\ InferenceSettledOnce /\ BondsOpen)'
<1> DEFINE row == task[e.task]
           F == IF row.attempts >= MaxAttempts[e.task] THEN {e.task} ELSE {}
<1>1. /\ Holds(e) /\ RowsInv
      /\ task' = [task EXCEPT ![e.task] = Faulted(e.task, row)]
      /\ Refund(F)
      /\ lastLease' = lastLease
  BY DEF Reject, MayReport, AccountsInv
<1>2. /\ e.task \in Tasks
      /\ row.status = "assigned"
      /\ DOMAIN task = Tasks
      /\ RowOK(e.task, row, lastLease) /\ lastLease \in Nat
  BY <1>1, HeldRow DEF RowsInv, GoodRows
<1>3. /\ task'[e.task].status \in {"queued", "failed"}
      /\ task'[e.task].status = "failed" <=> e.task \in F
      /\ \A u \in Tasks \ {e.task} : task'[u] = task[u]
      /\ F \subseteq {e.task}
  BY <1>1, <1>2, FaultedOK
<1> HIDE DEF row, F
<1>4. CreditsMatchLedger' /\ NoOverdraft'
  BY <1>1, RefundsAgree DEF Refund, CreditsMatchLedger, NoOverdraft
<1>5. InferenceSettledOnce'
  <2> SUFFICES ASSUME NEW u \in InferenceTasks
               PROVE  /\ task'[u].status = "failed" <=> u \in refunded'
                      /\ u \in refunded' <=> RefundKey(u) \in ledger'
                      /\ task'[u].status = "completed" <=> RewardKey(u) \in ledger'
    BY DEF InferenceSettledOnce
  <2>1. /\ u \in Tasks
        /\ task[u].status = "failed" <=> u \in refunded
        /\ u \in refunded <=> RefundKey(u) \in ledger
        /\ task[u].status = "completed" <=> RewardKey(u) \in ledger
    BY TasksAssumption DEF AccountsInv, InferenceSettledOnce
  <2>2. /\ u \in refunded' <=> u \in refunded \/ u \in Refundable(F)
        /\ u \in Refundable(F) <=> u \in F /\ u \notin refunded
        /\ RefundKey(u) \in ledger' <=> RefundKey(u) \in ledger \/ u \in Refundable(F)
        /\ RewardKey(u) \in ledger' <=> RewardKey(u) \in ledger
    BY <1>1, RefundedKeys DEF Refund, Refundable
  <2>3. CASE u = e.task
    BY <1>2, <1>3, <2>1, <2>2, <2>3 DEF row
  <2>4. CASE u # e.task
    BY <1>3, <2>1, <2>2, <2>4
  <2> QED
    BY <2>3, <2>4
<1>6. BondsOpen'
  BY <1>1, <1>3, RefundedKeys DEF Refund, AccountsInv, BondsOpen
<1> QED
  BY <1>4, <1>5, <1>6

LEMMA OtherAccounts ==
  ASSUME AccountsInv,
         \/ \E e \in held : Renew(e) \/ \E v \in Values : CompleteSearch(e, v)
         \/ Tick
         \/ Upgrade
         \/ UNCHANGED vars
  PROVE  (CreditsMatchLedger /\ NoOverdraft /\ InferenceSettledOnce /\ BondsOpen)'
<1>1. UNCHANGED <<accounts, lastLease>>
  BY DEF Renew, CompleteSearch, Tick, Upgrade, vars
<1>2. ASSUME NEW t \in Tasks
      PROVE  \/ task'[t] = task[t]
             \/ \E x, d : task'[t] = Timed(task[t], x, d)
             \/ task[t].status = "queued" /\ task'[t] = Queued({})
             \/ /\ t \in RootSearch
                /\ task[t].status = "assigned"
                /\ task'[t] = Completed(task[t])
  <2>0. DOMAIN task = Tasks
    BY DEF AccountsInv, RowsInv, GoodRows
  <2>1. CASE \E e \in held : Renew(e)
    BY <2>0, <2>1 DEF Renew
  <2>2. CASE \E e \in held, v \in Values : CompleteSearch(e, v)
    BY <2>0, <2>2 DEF CompleteSearch, MayReport, Holds
  <2>3. CASE Tick
    BY <2>3 DEF Tick
  <2>4. CASE Upgrade
    BY <2>4 DEF Upgrade, Refreshed
  <2>5. CASE UNCHANGED vars
    BY <2>5 DEF vars
  <2> QED
    BY <2>1, <2>2, <2>3, <2>4, <2>5
<1>3. ASSUME NEW t \in Tasks
      PROVE  /\ task'[t].status = "failed" <=> task[t].status = "failed"
             /\ t \in InferenceTasks =>
                  (task'[t].status = "completed" <=> task[t].status = "completed")
             /\ task'[t].status = "assigned" =>
                  task[t].status = "assigned" /\ task'[t].lease_token = task[t].lease_token
  <2>1. \A x, d : /\ Timed(task[t], x, d).status = task[t].status
                 /\ Timed(task[t], x, d).lease_token = task[t].lease_token
    BY DEF Timed
  <2>2. CASE task[t].status = "queued" /\ task'[t] = Queued({})
    BY <2>2 DEF Queued, Unleased
  <2>3. CASE t \in RootSearch /\ task[t].status = "assigned" /\ task'[t] = Completed(task[t])
    BY <2>3, TasksAssumption DEF Completed, Replicated
  <2>4. CASE task'[t] = task[t] \/ \E x, d : task'[t] = Timed(task[t], x, d)
    BY <2>1, <2>4
  <2> QED
    BY <1>2, <2>2, <2>3, <2>4
<1> QED
  BY <1>1, <1>3, QuietAccounts

(* Every action keeps the invariant of the accounts.                       *)
LEMMA AccountsStep ==
  ASSUME AccountsInv, [Next]_vars
  PROVE  AccountsInv'
<1> SUFFICES (CreditsMatchLedger /\ NoOverdraft /\ InferenceSettledOnce /\ BondsOpen)'
  BY RowsStep DEF AccountsInv
<1>1. CASE Enqueue
  BY <1>1, EnqueueReplicasAccounts, CreateInferenceAccounts DEF Enqueue
<1>2. ASSUME NEW n \in Nodes, Claim(n)
      PROVE  (CreditsMatchLedger /\ NoOverdraft /\ InferenceSettledOnce /\ BondsOpen)'
  <2>1. CASE ClaimTask(n)
    BY <2>1, ClaimTaskAccounts
  <2>2. CASE ClaimNothing(n)
    <3>1. Ended(task, task')
      BY <2>2, AtClaimEnds DEF ClaimNothing, AccountsInv
    <3>2. Refund(Exhausted(task)) /\ lastLease' = lastLease
      BY <2>2 DEF ClaimNothing, SweepBeforeClaim, Refund
    <3> QED
      BY <3>1, <3>2, SweepAccounts
  <2> QED
    BY <1>2, <2>1, <2>2 DEF Claim
<1>3. ASSUME NEW e \in held, Respond(e)
      PROVE  (CreditsMatchLedger /\ NoOverdraft /\ InferenceSettledOnce /\ BondsOpen)'
  BY <1>3, AbandonAccounts, CompleteInferenceAccounts, CompleteReplicaAccounts,
     RejectAccounts, OtherAccounts DEF Respond
<1>4. CASE Stats
  <2>1. Ended(task, task')
    BY <1>4, SweptEnds DEF Stats, AccountsInv
  <2>2. Refund(Exhausted(task)) /\ lastLease' = lastLease
    BY <1>4 DEF Stats
  <2> QED
    BY <2>1, <2>2, SweepAccounts
<1>5. CASE Tick \/ Upgrade \/ UNCHANGED vars
  BY <1>5, OtherAccounts
<1> QED
  BY <1>1, <1>2, <1>3, <1>4, <1>5 DEF Next

(* The invariant the theorems of this module follow from.                  *)
THEOREM AccountsInvariant == Spec => []AccountsInv
<1>1. AccountsInv /\ [Next]_vars => AccountsInv'
  BY AccountsStep
<1> QED
  BY InitAccounts, <1>1, PTL DEF Spec

(* Whatever is debited, bonded, returned, refunded or paid, and however often *)
(* a request is repeated, the column credit_units of every node is the sum of *)
(* its ledger.                                                             *)
THEOREM LedgerExplainsCredit == Spec => []CreditsMatchLedger
<1>1. AccountsInv => CreditsMatchLedger
  BY DEF AccountsInv
<1> QED
  BY <1>1, AccountsInvariant, PTL

(* No account is ever overdrawn: each debit and each bond is guarded by the  *)
(* balance the refunds of the same transaction have just changed.          *)
THEOREM AccountsCovered == Spec => []NoOverdraft
<1>1. AccountsInv => NoOverdraft
  BY DEF AccountsInv
<1> QED
  BY <1>1, AccountsInvariant, PTL

(* A failed inference is refunded, a completed one is paid, never both.      *)
THEOREM InferencesSettle == Spec => []InferenceSettledOnce
<1>1. AccountsInv => InferenceSettledOnce
  BY DEF AccountsInv
<1> QED
  BY <1>1, AccountsInvariant, PTL

(* Only abandon_task and complete_task return a bond, and only that of the   *)
(* lease their envelope still holds.                                       *)
THEOREM BondsReturnFromLeases == Spec => BondReturnsFromHeldLease
<1> DEFINE A == \A k \in ledger' \ ledger : k[1] = "bond-refund" =>
                  /\ task[k[2]].status = "assigned"
                  /\ task[k[2]].lease_token = k[3]
<1>1. ASSUME [Next]_vars PROVE A
  <2> SUFFICES ASSUME NEW k \in ledger' \ ledger, k[1] = "bond-refund"
               PROVE  task[k[2]].status = "assigned" /\ task[k[2]].lease_token = k[3]
    OBVIOUS
  <2>1. \A F : k \notin RefundedLedger(F)
    BY DEF RefundedLedger, RefundKey
  <2>2. ASSUME NEW e \in held, Abandon(e) \/ CompleteInference(e)
        PROVE  task[k[2]].status = "assigned" /\ task[k[2]].lease_token = k[3]
    <3>1. Holds(e)
      BY <2>2 DEF Abandon, CompleteInference, MayReport
    <3>2. k = BondRefundKey(e.task, e.lease)
      BY <2>2 DEF Abandon, CompleteInference, BondKeys, RewardKey
    <3> QED
      BY <3>1, <3>2 DEF Holds, BondRefundKey
  <2>3. CASE Enqueue
    <3>1. ASSUME NEW t \in InferenceTasks, CreateInference(t) PROVE FALSE
      BY <3>1 DEF CreateInference, DebitKey
    <3>2. ASSUME NEW w, NEW X, EnqueueReplicas(w, X) PROVE FALSE
      BY <3>2 DEF EnqueueReplicas, accounts
    <3> QED
      BY <2>3, <3>1, <3>2 DEF Enqueue
  <2>4. CASE \E n \in Nodes : Claim(n)
    BY <2>1, <2>4 DEF Claim, ClaimTask, ClaimNothing, LockKey
  <2>5. CASE \E e \in held : Renew(e) \/ Reject(e)
    BY <2>1, <2>5 DEF Renew, Reject, Refund, accounts
  <2>6. CASE \E e \in held, v \in Values : CompleteReplica(e, v) \/ CompleteSearch(e, v)
    <3>1. ASSUME NEW e, NEW v, CompleteReplica(e, v) PROVE FALSE
      <4>1. \E t : k = RewardKey(t)
        BY <3>1 DEF CompleteReplica
      <4> QED
        BY <4>1 DEF RewardKey
    <3>2. ASSUME NEW e, NEW v, CompleteSearch(e, v) PROVE FALSE
      BY <3>2 DEF CompleteSearch, accounts
    <3> QED
      BY <2>6, <3>1, <3>2
  <2>7. CASE Stats \/ Tick \/ Upgrade \/ UNCHANGED vars
    BY <2>1, <2>7 DEF Stats, Refund, Tick, Upgrade, accounts, vars
  <2> QED
    BY <1>1, <2>2, <2>3, <2>4, <2>5, <2>6, <2>7 DEF Next, Respond
<1>2. [Next]_vars => [A]_vars
  BY <1>1
<1> QED
  BY <1>2, PTL DEF Spec, BondReturnsFromHeldLease
-----------------------------------------------------------------------------
(***************************************************************************)
(* The kills.                                                              *)
(***************************************************************************)
(* A refund, in the table of requests or in the ledger, means the end.     *)
RefundsDead ==
  \A t \in InferenceTasks :
    t \in refunded \/ RefundKey(t) \in ledger => task[t].status = "failed"

CrashInv == RowsInv /\ LedgerNeverAhead /\ RefundsDead

(* Failure is final.                                                       *)
FailedStay == \A t \in Tasks : task[t].status = "failed" => task'[t].status = "failed"

(***************************************************************************)
(* Kills keep every row good.                                              *)
(***************************************************************************)
LEMMA CrashInSweepRows ==
  ASSUME RowsInv, NEW t \in Expired(task), NEW p \in 0..4,
         NEW done \in SUBSET (Expired(task) \ {t}), CrashInSweep(done, t, p)
  PROVE  RowsInv'
<1> DEFINE rows == done \cup IF Executed("row", p) THEN {t} ELSE {}
<1>1. /\ task' = [u \in Tasks |-> IF u \in rows THEN Faulted(u, task[u]) ELSE task[u]]
      /\ rows \subseteq Expired(task)
      /\ lastLease' = lastLease
  BY DEF CrashInSweep
<1> HIDE DEF rows
<1>2. lastLease \in Nat /\ \A u \in Tasks : RowOK(u, task[u], lastLease)
  BY DEF RowsInv, RestOK, GoodRows
<1>3. \A u \in rows : u \in Tasks /\ task[u].status = "assigned"
  BY <1>1 DEF Expired, Assigned
<1>4. ASSUME NEW u \in Tasks
      PROVE  /\ RowOK(u, task'[u], lastLease)
             /\ task'[u].status = "assigned" => task'[u] = task[u]
  <2>1. CASE u \in rows
    <3>1. task'[u] = Faulted(u, task[u])
      BY <1>1, <2>1
    <3>2. /\ RowOK(u, Faulted(u, task[u]), lastLease)
          /\ Faulted(u, task[u]).status \in {"queued", "failed"}
      BY <1>2, <1>3, <2>1, FaultedOK
    <3> QED
      BY <3>1, <3>2
  <2>2. CASE u \notin rows
    BY <1>1, <1>2, <2>2
  <2> QED
    BY <2>1, <2>2
<1>5. DOMAIN task' = Tasks /\ task' = [u \in Tasks |-> task'[u]]
  BY <1>1
<1>6. GoodRows(task', lastLease)
  BY <1>4, <1>5, FewerHolders DEF RowsInv
<1>7. quarantine' \in [Nodes -> Nat]
  BY SpansAssumption DEF CrashInSweep, Later, RowsInv, RestOK
<1>8. RestOK'
  BY <1>7, RefundTypes DEF CrashInSweep, Refundable, RowsInv, RestOK
<1> QED
  BY <1>1, <1>6, <1>8 DEF RowsInv

LEMMA CrashInAbandonRows ==
  ASSUME RowsInv, NEW e \in held, NEW ledgered \in BOOLEAN, CrashInAbandon(e, ledgered)
  PROVE  RowsInv'
<1> DEFINE row == task[e.task]
           key == BondRefundKey(e.task, e.lease)
<1>1. /\ Holds(e)
      /\ credit' = [credit EXCEPT ![e.node] = @ + row.bond]
      /\ balance' = IF ledgered THEN [balance EXCEPT ![e.node] = @ + ReturnedBond(row, key)]
                                ELSE balance
      /\ ledger' = IF ledgered THEN ledger \cup {key} ELSE ledger
      /\ UNCHANGED <<task, quarantine, refunded, reports, stale, lastLease, held>>
  BY DEF CrashInAbandon
<1>2. e.task \in Tasks /\ e.node \in Nodes /\ e.lease \in Nat /\ row.bond \in Nat
  BY <1>1, HeldRow
<1>3. key \in Keys /\ ReturnedBond(row, key) \in Nat
  BY <1>2, KeyTypes DEF ReturnedBond
<1> HIDE DEF row, key
<1>4. credit' \in [Nodes -> Int] /\ balance' \in [Nodes -> Int] /\ ledger' \subseteq Keys
  BY <1>1, <1>2, <1>3 DEF RowsInv, RestOK
<1>5. RestOK'
  BY <1>1, <1>4 DEF RowsInv, RestOK
<1> QED
  BY <1>1, <1>5 DEF RowsInv, GoodRows, OneHolder, Assigned

(***************************************************************************)
(* The column is never behind the ledger.                                  *)
(***************************************************************************)

(* The column is refunded for at least the rows the ledger is refunded for. *)
LEMMA RefundsKeepLead ==
  ASSUME RestOK, LedgerNeverAhead, NEW F, NEW G, G \subseteq F
  PROVE  \A n \in Nodes : RefundedCredit(F)[n] >= RefundedBalance(G)[n]
<1> SUFFICES ASSUME NEW n \in Nodes
             PROVE  RefundedCredit(F)[n] >= RefundedBalance(G)[n]
  OBVIOUS
<1> DEFINE paid == RefundsOf(n, F)
           rows == {t \in RefundsOf(n, G) : RefundKey(t) \notin ledger}
<1>1. rows \in SUBSET paid /\ paid \in SUBSET Tasks
  BY TasksAssumption DEF RefundsOf, Refundable
<1>2. IsFiniteSet(paid)
  BY <1>1, TasksAssumption, FS_Subset
<1>3. /\ Cardinality(rows) \in Nat /\ Cardinality(paid) \in Nat
      /\ Cardinality(rows) <= Cardinality(paid)
  BY <1>1, <1>2, FS_Subset, FS_CardinalityType
<1>4. \A a, b, c \in Nat : a <= b => c * a <= c * b /\ c * a \in Nat /\ c * b \in Nat
  OBVIOUS
<1>5. /\ CostUnits * Cardinality(rows) <= CostUnits * Cardinality(paid)
      /\ CostUnits * Cardinality(rows) \in Nat /\ CostUnits * Cardinality(paid) \in Nat
  BY <1>3, <1>4, UnitsAssumption
<1>6. /\ RefundedCredit(F)[n] = credit[n] + CostUnits * Cardinality(paid)
      /\ RefundedBalance(G)[n] = balance[n] + CostUnits * Cardinality(rows)
  BY DEF RefundedCredit, RefundedBalance
<1>7. credit[n] \in Int /\ balance[n] \in Int /\ credit[n] >= balance[n]
  BY DEF RestOK, LedgerNeverAhead
<1> HIDE DEF paid, rows
<1> QED
  BY <1>5, <1>6, <1>7

(* Both sides of the account move together.                                *)
LEMMA SameMoveKeepsLead ==
  ASSUME NEW C \in [Nodes -> Int], NEW B \in [Nodes -> Int],
         \A n \in Nodes : C[n] >= B[n],
         NEW m \in Nodes, NEW a \in Int, NEW b \in Int, a >= b
  PROVE  \A n \in Nodes :
           [C EXCEPT ![m] = @ + a][n] >= [B EXCEPT ![m] = @ + b][n]
  OBVIOUS

LEMMA ClaimKeepsLead ==
  ASSUME RowsInv, LedgerNeverAhead, NEW n \in Nodes, ClaimTask(n)
  PROVE  LedgerNeverAhead'
<1> DEFINE F == Exhausted(task)
<1>1. PICK t \in Choices(n) :
        /\ credit' = [RefundedCredit(F) EXCEPT ![n] = @ - Bond(t)]
        /\ balance' = [RefundedBalance(F) EXCEPT ![n] = @ - Bond(t)]
  BY DEF ClaimTask
<1>2. Bond(t) \in Nat
  BY UnitsAssumption DEF Bond
<1>3. \A m \in Nodes : RefundedCredit(F)[m] >= RefundedBalance(F)[m]
  BY RefundsKeepLead DEF RowsInv
<1>4. RefundedCredit(F) \in [Nodes -> Int] /\ RefundedBalance(F) \in [Nodes -> Int]
  BY RefundTypes DEF RowsInv
<1> HIDE DEF F
<1> QED
  BY <1>1, <1>2, <1>3, <1>4 DEF LedgerNeverAhead

LEMMA ReturnKeepsLead ==
  ASSUME RowsInv, LedgerNeverAhead, NEW e \in held, Abandon(e) \/ CompleteInference(e)
  PROVE  LedgerNeverAhead'
<1> DEFINE row == task[e.task]
           key == BondRefundKey(e.task, e.lease)
           paid == IF RewardKey(e.task) \in ledger THEN 0 ELSE RewardUnits
<1>1. Holds(e)
  BY DEF Abandon, CompleteInference, MayReport
<1>2. e.node \in Nodes /\ row.bond \in Nat
  BY <1>1, HeldRow
<1>3. paid \in Nat /\ ReturnedBond(row, key) \in Nat /\ row.bond >= ReturnedBond(row, key)
  BY <1>2, UnitsAssumption DEF ReturnedBond
<1>4. \/ /\ credit' = [credit EXCEPT ![e.node] = @ + row.bond]
         /\ balance' = [balance EXCEPT ![e.node] = @ + ReturnedBond(row, key)]
      \/ /\ credit' = [credit EXCEPT ![e.node] = @ + paid + row.bond]
         /\ balance' = [balance EXCEPT ![e.node] = @ + paid + ReturnedBond(row, key)]
  BY DEF Abandon, CompleteInference
<1>5. credit \in [Nodes -> Int] /\ balance \in [Nodes -> Int]
  BY DEF RowsInv, RestOK
<1> HIDE DEF row, key, paid
<1> QED
  BY <1>2, <1>3, <1>4, <1>5 DEF LedgerNeverAhead

LEMMA RewardsKeepLead ==
  ASSUME RowsInv, LedgerNeverAhead, NEW e \in held, NEW v \in Values, CompleteReplica(e, v)
  PROVE  LedgerNeverAhead'
<1> DEFINE w == Work[e.task]
           R == reports \cup {[task |-> e.task, node |-> e.node, value |-> v]}
           paid == {r \in Consensus(R, w) : RewardKey(r.task) \notin ledger}
           extra == [n \in Nodes |-> IF \E r \in paid : r.node = n THEN RewardUnits ELSE 0]
<1>1. /\ credit' = [n \in Nodes |-> credit[n] + extra[n]]
      /\ balance' = [n \in Nodes |-> balance[n] + extra[n]]
  BY DEF CompleteReplica
<1>2. credit \in [Nodes -> Int] /\ balance \in [Nodes -> Int]
  BY DEF RowsInv, RestOK
<1>3. \A n \in Nodes : extra[n] \in Nat
  BY UnitsAssumption
<1> HIDE DEF w, R, paid, extra
<1> QED
  BY <1>1, <1>2, <1>3 DEF LedgerNeverAhead

LEMMA LeadStep ==
  ASSUME RowsInv, LedgerNeverAhead, [Next]_vars
  PROVE  LedgerNeverAhead'
<1>1. CASE UNCHANGED <<credit, balance>>
  BY <1>1 DEF LedgerNeverAhead
<1>2. ASSUME NEW F, Refund(F) PROVE LedgerNeverAhead'
  BY <1>2, RefundsKeepLead DEF Refund, RowsInv, LedgerNeverAhead
<1>3. CASE Enqueue
  <2>1. ASSUME NEW w, NEW X, EnqueueReplicas(w, X) PROVE LedgerNeverAhead'
    BY <1>1, <2>1 DEF EnqueueReplicas, accounts
  <2>2. ASSUME NEW t \in InferenceTasks, CreateInference(t) PROVE LedgerNeverAhead'
    <3>1. /\ credit' = [credit EXCEPT ![Requester[t]] = @ - CostUnits]
          /\ balance' = [balance EXCEPT ![Requester[t]] = @ - CostUnits]
      BY <2>2 DEF CreateInference
    <3>2. credit \in [Nodes -> Int] /\ balance \in [Nodes -> Int] /\ CostUnits \in Nat
      BY UnitsAssumption DEF RowsInv, RestOK
    <3> QED
      BY <3>1, <3>2 DEF LedgerNeverAhead
  <2> QED
    BY <1>3, <2>1, <2>2 DEF Enqueue
<1>4. ASSUME NEW n \in Nodes, Claim(n) PROVE LedgerNeverAhead'
  <2>1. CASE ClaimNothing(n)
    BY <2>1, RefundsKeepLead DEF ClaimNothing, RowsInv, LedgerNeverAhead
  <2> QED
    BY <1>4, <2>1, ClaimKeepsLead DEF Claim
<1>5. ASSUME NEW e \in held, Respond(e) PROVE LedgerNeverAhead'
  <2>1. CASE Renew(e) \/ \E v \in Values : CompleteSearch(e, v)
    BY <1>1, <2>1 DEF Renew, CompleteSearch, accounts
  <2>2. CASE Reject(e)
    BY <1>2, <2>2 DEF Reject
  <2> QED
    BY <1>5, <2>1, <2>2, ReturnKeepsLead, RewardsKeepLead DEF Respond
<1>6. CASE Stats
  BY <1>2, <1>6 DEF Stats
<1>7. CASE Tick \/ Upgrade \/ UNCHANGED vars
  BY <1>1, <1>7 DEF Tick, Upgrade, accounts, vars
<1> QED
  BY <1>3, <1>4, <1>5, <1>6, <1>7 DEF Next

(* The kill: statement 3, the credit, comes before statement 5, the ledger.  *)
LEMMA CrashKeepsLead ==
  ASSUME RowsInv, LedgerNeverAhead, Crash
  PROVE  LedgerNeverAhead'
<1>1. ASSUME NEW t, NEW p \in 0..4, NEW done, CrashInSweep(done, t, p)
      PROVE  LedgerNeverAhead'
  <2> DEFINE after(s) == Exhausted(task) \cap (done \cup IF Executed(s, p) THEN {t} ELSE {})
  <2>1. ~Executed("ledger", p)
    BY DEF Executed, SweepStatements
  <2>2. after("ledger") \subseteq after("credit")
    BY <2>1
  <2>3. credit' = RefundedCredit(after("credit")) /\ balance' = RefundedBalance(after("ledger"))
    BY <1>1 DEF CrashInSweep
  <2> HIDE DEF after
  <2> QED
    BY <2>2, <2>3, RefundsKeepLead DEF RowsInv, LedgerNeverAhead
<1>2. ASSUME NEW e \in held, NEW ledgered \in BOOLEAN, CrashInAbandon(e, ledgered)
      PROVE  LedgerNeverAhead'
  <2> DEFINE row == task[e.task]
             key == BondRefundKey(e.task, e.lease)
  <2>1. e.node \in Nodes /\ row.bond \in Nat
    BY <1>2, HeldRow DEF CrashInAbandon
  <2>2. ReturnedBond(row, key) \in Nat /\ row.bond >= ReturnedBond(row, key)
    BY <2>1 DEF ReturnedBond
  <2>3. /\ credit' = [credit EXCEPT ![e.node] = @ + row.bond]
        /\ \/ balance' = [balance EXCEPT ![e.node] = @ + ReturnedBond(row, key)]
           \/ balance' = balance
    BY <1>2 DEF CrashInAbandon
  <2>4. credit \in [Nodes -> Int] /\ balance \in [Nodes -> Int]
    BY DEF RowsInv, RestOK
  <2> HIDE DEF row, key
  <2> QED
    BY <2>1, <2>2, <2>3, <2>4 DEF LedgerNeverAhead
<1> QED
  BY <1>1, <1>2 DEF Crash

(***************************************************************************)
(* Refunds and failures.                                                   *)
(***************************************************************************)

(* A step that refunds no more than the tasks F it leaves failed.           *)
LEMMA RefundsStayDead ==
  ASSUME RefundsDead, FailedStay, NEW F,
         \A t \in F \cap InferenceTasks : task'[t].status = "failed",
         refunded' \subseteq refunded \cup F,
         \A t \in InferenceTasks : RefundKey(t) \in ledger' => RefundKey(t) \in ledger \/ t \in F
  PROVE  RefundsDead'
  BY TasksAssumption DEF RefundsDead, FailedStay

LEMMA SweepEndsDead ==
  ASSUME RefundsDead, Ended(task, task'),
         refunded' \subseteq refunded \cup Refundable(Exhausted(task)),
         \A t \in InferenceTasks :
           RefundKey(t) \in ledger' => RefundKey(t) \in RefundedLedger(Exhausted(task))
  PROVE  RefundsDead' /\ FailedStay
<1> DEFINE F == Exhausted(task)
<1>1. FailedStay
  BY DEF Ended, FailedStay
<1>2. \A t \in F \cap InferenceTasks : task'[t].status = "failed"
  BY TasksAssumption DEF Ended
<1>3. refunded' \subseteq refunded \cup F
  BY DEF Refundable
<1>4. \A t \in InferenceTasks : RefundKey(t) \in ledger' => RefundKey(t) \in ledger \/ t \in F
  BY RefundedKeys DEF Refundable
<1> HIDE DEF F
<1> QED
  BY <1>1, <1>2, <1>3, <1>4, RefundsStayDead

(* A step without refunds.                                                 *)
LEMMA NoRefundsDead ==
  ASSUME RefundsDead, FailedStay, refunded' = refunded,
         \A t \in InferenceTasks : RefundKey(t) \in ledger' => RefundKey(t) \in ledger
  PROVE  RefundsDead'
  BY TasksAssumption DEF RefundsDead, FailedStay

LEMMA ClaimDead ==
  ASSUME RowsInv, RefundsDead, NEW n \in Nodes, ClaimTask(n)
  PROVE  RefundsDead' /\ FailedStay
<1> DEFINE F == Exhausted(task)
<1>1. PICK t \in Choices(n) :
        /\ task' = [RowsAtClaim EXCEPT ![t] = Leased(@, t, n)]
        /\ ledger' = RefundedLedger(F) \cup
                       IF Bond(t) > 0 THEN {LockKey(t, lastLease + 1)} ELSE {}
  BY DEF ClaimTask
<1>2. t \in Tasks /\ RowsAtClaim[t].status = "queued"
  BY <1>1 DEF Choices, Preferred, Claimable
<1>3. Ended(task, RowsAtClaim) /\ SweepBeforeClaim
  BY AtClaimEnds DEF ClaimTask
<1>4. DOMAIN RowsAtClaim = Tasks
  BY <1>3, AtClaim DEF GoodRows
<1>5. \A u \in Tasks : RowsAtClaim[u].status = "failed" => task'[u].status = "failed"
  BY <1>1, <1>2, <1>4
<1>6. \A u \in Tasks : u \in F \/ task[u].status = "failed" => task'[u].status = "failed"
  BY <1>3, <1>5 DEF Ended
<1>7. refunded' \subseteq refunded \cup F
  BY <1>3 DEF SweepBeforeClaim, Refundable
<1>8. \A u \in InferenceTasks : RefundKey(u) \in ledger' => RefundKey(u) \in ledger \/ u \in F
  BY <1>1, RefundedKeys, DistinctKeys DEF Refundable
<1> HIDE DEF F
<1>9. FailedStay
  BY <1>6 DEF FailedStay
<1>10. \A u \in F \cap InferenceTasks : task'[u].status = "failed"
  BY <1>6, TasksAssumption
<1> QED
  BY <1>7, <1>8, <1>9, <1>10, RefundsStayDead

LEMMA RespondDead ==
  ASSUME RowsInv, RefundsDead, NEW e \in held, Respond(e)
  PROVE  RefundsDead' /\ FailedStay
<1>0. DOMAIN task = Tasks
  BY DEF RowsInv, GoodRows
<1>1. CASE Renew(e) \/ \E v \in Values : CompleteSearch(e, v)
  <2>1. FailedStay
    BY <1>0, <1>1 DEF Renew, CompleteSearch, MayReport, Holds, FailedStay
  <2>2. ledger' = ledger /\ refunded' = refunded
    BY <1>1 DEF Renew, CompleteSearch, accounts
  <2> QED
    BY <2>1, <2>2, NoRefundsDead
<1>2. CASE Abandon(e) \/ CompleteInference(e)
  <2>1. FailedStay
    BY <1>0, <1>2 DEF Abandon, CompleteInference, MayReport, Holds, FailedStay
  <2>2. refunded' = refunded /\ \A t : RefundKey(t) \in ledger' => RefundKey(t) \in ledger
    BY <1>2, DistinctKeys DEF Abandon, CompleteInference, BondKeys
  <2> QED
    BY <2>1, <2>2, NoRefundsDead
<1>3. ASSUME NEW v \in Values, CompleteReplica(e, v)
      PROVE  RefundsDead' /\ FailedStay
  <2>1. FailedStay
    BY <1>0, <1>3 DEF CompleteReplica, MayReport, Holds, Tiebreaker, FailedStay
  <2>2. PICK paid : ledger' = ledger \cup {RewardKey(r.task) : r \in paid}
    BY <1>3 DEF CompleteReplica
  <2>3. \A t : RefundKey(t) \in ledger' => RefundKey(t) \in ledger
    BY <2>2, DistinctKeys
  <2>4. refunded' = refunded
    BY <1>3 DEF CompleteReplica
  <2> QED
    BY <2>1, <2>3, <2>4, NoRefundsDead
<1>4. CASE Reject(e)
  <2> DEFINE row == task[e.task]
             F == IF row.attempts >= MaxAttempts[e.task] THEN {e.task} ELSE {}
  <2>1. /\ Holds(e)
        /\ task' = [task EXCEPT ![e.task] = Faulted(e.task, row)]
        /\ Refund(F)
    BY <1>4 DEF Reject, MayReport
  <2>2. /\ e.task \in Tasks /\ row.status = "assigned"
        /\ RowOK(e.task, row, lastLease) /\ lastLease \in Nat
    BY <2>1, HeldRow
  <2>3. task'[e.task].status = "failed" <=> e.task \in F
    BY <1>0, <2>1, <2>2, FaultedOK
  <2>4. FailedStay
    BY <1>0, <2>1, <2>2 DEF FailedStay
  <2>5. refunded' \subseteq refunded \cup F
    BY <2>1 DEF Refund, Refundable
  <2>6. \A u \in InferenceTasks : RefundKey(u) \in ledger' => RefundKey(u) \in ledger \/ u \in F
    BY <2>1, RefundedKeys DEF Refund, Refundable
  <2>7. \A u \in F : task'[u].status = "failed"
    BY <2>3
  <2> HIDE DEF row, F
  <2> QED
    BY <2>4, <2>5, <2>6, <2>7, RefundsStayDead
<1> QED
  BY <1>1, <1>2, <1>3, <1>4 DEF Respond

LEMMA DeadStep ==
  ASSUME RowsInv, RefundsDead, [Next]_vars
  PROVE  RefundsDead' /\ FailedStay
<1>1. CASE Enqueue
  <2>1. ASSUME NEW w, NEW X, EnqueueReplicas(w, X) PROVE RefundsDead' /\ FailedStay
    <3>1. FailedStay
      BY <2>1 DEF EnqueueReplicas, FailedStay
    <3> QED
      BY <2>1, <3>1, NoRefundsDead DEF EnqueueReplicas, accounts
  <2>2. ASSUME NEW t \in InferenceTasks, CreateInference(t) PROVE RefundsDead' /\ FailedStay
    <3>1. FailedStay
      BY <2>2 DEF CreateInference, FailedStay, RowsInv, GoodRows
    <3>2. refunded' = refunded /\ \A u : RefundKey(u) \in ledger' => RefundKey(u) \in ledger
      BY <2>2, DistinctKeys DEF CreateInference
    <3> QED
      BY <3>1, <3>2, NoRefundsDead
  <2> QED
    BY <1>1, <2>1, <2>2 DEF Enqueue
<1>2. ASSUME NEW n \in Nodes, Claim(n) PROVE RefundsDead' /\ FailedStay
  <2>1. CASE ClaimNothing(n)
    <3>1. Ended(task, task')
      BY <2>1, AtClaimEnds DEF ClaimNothing
    <3> QED
      BY <2>1, <3>1, SweepEndsDead DEF ClaimNothing, SweepBeforeClaim
  <2> QED
    BY <1>2, <2>1, ClaimDead DEF Claim
<1>3. ASSUME NEW e \in held, Respond(e) PROVE RefundsDead' /\ FailedStay
  BY <1>3, RespondDead
<1>4. CASE Stats
  <2>1. Ended(task, task')
    BY <1>4, SweptEnds DEF Stats
  <2> QED
    BY <1>4, <2>1, SweepEndsDead DEF Stats, Refund
<1>5. CASE Tick \/ Upgrade \/ UNCHANGED vars
  <2>1. FailedStay
    BY <1>5 DEF Tick, Upgrade, Refreshed, vars, FailedStay
  <2> QED
    BY <1>5, <2>1, NoRefundsDead DEF Tick, Upgrade, vars, accounts
<1> QED
  BY <1>1, <1>2, <1>3, <1>4, <1>5 DEF Next

(* The kill: the row, statement 2, is failed before the flag, statement 4.  *)
LEMMA CrashDead ==
  ASSUME RowsInv, RefundsDead, Crash
  PROVE  RefundsDead' /\ FailedStay
<1>1. ASSUME NEW t \in Expired(task), NEW p \in 0..4,
             NEW done \in SUBSET (Expired(task) \ {t}), CrashInSweep(done, t, p)
      PROVE  RefundsDead' /\ FailedStay
  <2> DEFINE rows == done \cup IF Executed("row", p) THEN {t} ELSE {}
             after(s) == Exhausted(task) \cap (done \cup IF Executed(s, p) THEN {t} ELSE {})
             F == Exhausted(task) \cap rows
  <2>1. /\ task' = [u \in Tasks |-> IF u \in rows THEN Faulted(u, task[u]) ELSE task[u]]
        /\ refunded' = refunded \cup Refundable(after("flag"))
        /\ ledger' = RefundedLedger(after("ledger"))
    BY <1>1 DEF CrashInSweep
  <2>2. ~Executed("ledger", p) /\ (Executed("flag", p) => Executed("row", p))
    BY DEF Executed, SweepStatements
  <2>3. after("flag") \subseteq F /\ after("ledger") \subseteq F
    BY <2>2
  <2>4. rows \subseteq Expired(task) /\ F \subseteq rows /\ F \subseteq Exhausted(task)
    OBVIOUS
  <2> HIDE DEF rows, after, F
  <2>5. FailedStay
    BY <2>1, <2>4 DEF FailedStay, Expired, Assigned
  <2>6. ASSUME NEW u \in F PROVE task'[u].status = "failed"
    <3>1. /\ u \in Tasks /\ task[u].status = "assigned"
          /\ task[u].attempts >= MaxAttempts[u] /\ task'[u] = Faulted(u, task[u])
      BY <2>1, <2>4 DEF Exhausted, Expired, Assigned
    <3>2. RowOK(u, task[u], lastLease) /\ lastLease \in Nat
      BY <3>1 DEF RowsInv, GoodRows, RestOK
    <3> QED
      BY <3>1, <3>2, FaultedOK
  <2>7. refunded' \subseteq refunded \cup F
    BY <2>1, <2>3 DEF Refundable
  <2>8. \A u \in InferenceTasks : RefundKey(u) \in ledger' => RefundKey(u) \in ledger \/ u \in F
    BY <2>1, <2>3, RefundedKeys DEF Refundable
  <2> QED
    BY <2>5, <2>6, <2>7, <2>8, RefundsStayDead
<1>2. ASSUME NEW e, NEW ledgered \in BOOLEAN, CrashInAbandon(e, ledgered)
      PROVE  RefundsDead' /\ FailedStay
  <2>1. task' = task /\ refunded' = refunded
    BY <1>2 DEF CrashInAbandon
  <2>2. \A u : RefundKey(u) \in ledger' => RefundKey(u) \in ledger
    BY <1>2, DistinctKeys DEF CrashInAbandon
  <2>3. FailedStay
    BY <2>1 DEF FailedStay
  <2> QED
    BY <2>1, <2>2, <2>3, NoRefundsDead
<1> QED
  BY <1>1, <1>2 DEF Crash

(***************************************************************************)
(* The theorems.                                                           *)
(***************************************************************************)
LEMMA CrashInitInv == CrashInit => CrashInv
<1> SUFFICES ASSUME CrashInit PROVE CrashInv
  OBVIOUS
<1>1. RowsInv
  BY InitRows DEF CrashInit
<1>2. LedgerNeverAhead
  BY UnitsAssumption DEF CrashInit, Init, LedgerNeverAhead
<1>3. RefundsDead
  BY DEF CrashInit, Init, RefundsDead
<1> QED
  BY <1>1, <1>2, <1>3 DEF CrashInv

LEMMA CrashStep ==
  ASSUME CrashInv, [CrashNext]_crashVars
  PROVE  CrashInv' /\ FailedStay
<1>1. CASE [Next]_vars
  BY <1>1, RowsStep, LeadStep, DeadStep DEF CrashInv
<1>2. CASE Crash
  <2>1. RowsInv'
    BY <1>2, CrashInSweepRows, CrashInAbandonRows DEF Crash, CrashInv
  <2> QED
    BY <1>2, <2>1, CrashKeepsLead, CrashDead DEF CrashInv
<1> QED
  BY <1>1, <1>2 DEF CrashNext, crashVars

THEOREM CrashInvariant == CrashSpec => []CrashInv
<1>1. CrashInv /\ [CrashNext]_crashVars => CrashInv'
  BY CrashStep
<1> QED
  BY CrashInitInv, <1>1, PTL DEF CrashSpec

(* However often the coordinator is killed between two statements of a sweep *)
(* or an abandon, and wherever, no identity ever holds two leases.          *)
THEOREM KillsKeepLeasesExclusive == CrashSpec => []OneActiveLease
<1>1. CrashInv => OneActiveLease
  BY DEF CrashInv, RowsInv, GoodRows, OneHolder, OneActiveLease
<1> QED
  BY <1>1, CrashInvariant, PTL

(* Kills may leave the column ahead of the ledger, never behind it.         *)
THEOREM KillsNeverCostCredit == CrashSpec => []LedgerNeverAhead
<1>1. CrashInv => LedgerNeverAhead
  BY DEF CrashInv
<1> QED
  BY <1>1, CrashInvariant, PTL

(* A refund that a kill cut short belongs to a request that had failed and   *)
(* is never completed later.                                               *)
THEOREM KillsRefundOnlyFailed == CrashSpec => RefundOnlyFailed
<1> DEFINE A == \A t \in InferenceTasks :
                  t \in refunded \/ RefundKey(t) \in ledger =>
                    task[t].status = "failed" /\ task'[t].status = "failed"
<1>1. ASSUME CrashInv, [CrashNext]_crashVars PROVE A
  <2>1. FailedStay
    BY <1>1, CrashStep
  <2> QED
    BY <1>1, <2>1, TasksAssumption DEF CrashInv, RefundsDead, FailedStay
<1>2. CrashInv /\ [CrashNext]_crashVars => [A]_crashVars
  BY <1>1
<1> QED
  BY <1>2, CrashInvariant, PTL DEF CrashSpec, RefundOnlyFailed
-----------------------------------------------------------------------------
(***************************************************************************)
(* A seed and the queue.  The queue's side of the argument is that leases  *)
(* die for good: a token that no longer holds never holds again            *)
(* (DeadStaysDead).  So a late result either is still in the outbox or     *)
(* changes nothing.                                                        *)
(***************************************************************************)
(***************************************************************************)
(* What any step of the queue does to a row.                               *)
(***************************************************************************)
SameLease(row, new) == new.assigned_to = row.assigned_to /\ new.lease_token = row.lease_token

Alive(row) == row.expires >= 0 /\ row.deadline >= 0

LosesLease(row, new) ==
  row.status \in {"absent", "queued", "assigned"} /\ new.status \in {"queued", "failed"}

GetsLease(row, new) ==
  /\ row.status \in {"queued", "assigned"}
  /\ new.status = "assigned"
  /\ new.lease_token = lastLease + 1

KeepsLease(row, new) ==
  /\ row.status = "assigned" /\ new.status = "assigned"
  /\ SameLease(row, new)
  /\ Alive(new) => Alive(row)

Completes(row, new) ==
  row.status = "assigned" /\ new.status = "completed" /\ SameLease(row, new) /\ Alive(row)

Moves(row, new) ==
  \/ new = row
  \/ LosesLease(row, new)
  \/ GetsLease(row, new)
  \/ KeepsLease(row, new)

(* Every row moves, and none is completed.                                 *)
NoneCompleted == \A t \in Tasks : Moves(task[t], task'[t])

(* Every row moves, and the one of e may be completed.                     *)
OneCompleted(e) ==
  \A t \in Tasks : \/ Moves(task[t], task'[t])
                   \/ t = e.task /\ MayReport(e) /\ Completes(task[t], task'[t])

LEMMA EnqueueMoves ==
  ASSUME RowsInv, Enqueue
  PROVE  NoneCompleted
<1>1. \A X : Queued(X).status = "queued"
  BY DEF Queued, Unleased
<1>2. ASSUME NEW w \in WorkKeys, NEW X \in Exclusions, EnqueueReplicas(w, X)
      PROVE  NoneCompleted
  BY <1>1, <1>2 DEF EnqueueReplicas, NoneCompleted, Moves, LosesLease
<1>3. ASSUME NEW u \in InferenceTasks, CreateInference(u)
      PROVE  NoneCompleted
  <2>1. ASSUME NEW t \in Tasks
        PROVE  \/ task'[t] = task[t]
               \/ task[t].status = "absent" /\ task'[t] = Queued({Requester[u]})
    BY <1>3 DEF CreateInference, RowsInv, GoodRows
  <2> QED
    BY <1>1, <2>1 DEF NoneCompleted, Moves, LosesLease
<1> QED
  BY <1>2, <1>3 DEF Enqueue

LEMMA SweptMoves ==
  ASSUME NEW t \in Tasks
  PROVE  Swept(task)[t] = task[t] \/ LosesLease(task[t], Swept(task)[t])
<1>1. Faulted(t, task[t]).status \in {"queued", "failed"}
  BY DEF Faulted, Unleased
<1> QED
  BY <1>1 DEF Swept, Expired, Assigned, LosesLease

LEMMA AtClaimMoves ==
  ASSUME NEW t \in Tasks
  PROVE  RowsAtClaim[t] = task[t] \/ LosesLease(task[t], RowsAtClaim[t])
<1>1. \/ RowsAtClaim[t] = Swept(task)[t]
      \/ Swept(task)[t].status = "queued" /\ RowsAtClaim[t] = Queued({})
  BY DEF RowsAtClaim, Refreshed
<1>2. Queued({}).status = "queued"
  BY DEF Queued, Unleased
<1> QED
  BY <1>1, <1>2, SweptMoves DEF LosesLease

LEMMA ClaimMoves ==
  ASSUME NEW n \in Nodes, ClaimTask(n)
  PROVE  NoneCompleted
<1>1. PICK u \in Choices(n) : task' = [RowsAtClaim EXCEPT ![u] = Leased(@, u, n)]
  BY DEF ClaimTask
<1>2. u \in Tasks /\ RowsAtClaim[u].status = "queued"
  BY <1>1 DEF Choices, Preferred, Claimable
<1>3. DOMAIN RowsAtClaim = Tasks
  BY DEF RowsAtClaim, Refreshed, Swept
<1>4. /\ task'[u].status = "assigned"
      /\ task'[u].lease_token = lastLease + 1
      /\ \A t \in Tasks \ {u} : task'[t] = RowsAtClaim[t]
  BY <1>1, <1>2, <1>3 DEF Leased
<1>5. task[u].status \in {"queued", "assigned"} \/ task[u].status = "absent"
  BY <1>2, AtClaimMoves DEF LosesLease
<1>6. task[u].status # "absent"
  <2>1. task[u].status = "absent" => RowsAtClaim[u] = task[u]
    BY <1>2 DEF RowsAtClaim, Refreshed, Swept, Expired, Assigned
  <2> QED
    BY <1>2, <2>1
<1>7. ASSUME NEW t \in Tasks PROVE Moves(task[t], task'[t])
  <2>1. CASE t = u
    BY <1>4, <1>5, <1>6, <2>1 DEF Moves, GetsLease
  <2>2. CASE t # u
    BY <1>4, <2>2, AtClaimMoves DEF Moves
  <2> QED
    BY <2>1, <2>2
<1> QED
  BY <1>7 DEF NoneCompleted

LEMMA StatsMoves ==
  ASSUME Stats
  PROVE  NoneCompleted
BY SweptMoves DEF Stats, NoneCompleted, Moves

LEMMA TickMoves ==
  ASSUME RowsInv, Tick
  PROVE  NoneCompleted
<1> SUFFICES ASSUME NEW t \in Tasks PROVE Moves(task[t], task'[t])
  BY DEF NoneCompleted
<1>1. CASE task[t].status = "assigned"
  <2>1. /\ task'[t].status = "assigned"
        /\ SameLease(task[t], task'[t])
        /\ task'[t].expires = Elapsed(task[t].expires)
        /\ task'[t].deadline = Elapsed(task[t].deadline)
    BY <1>1 DEF Tick, Timed, SameLease
  <2>2. task[t].expires \in Int /\ task[t].deadline \in Int
    BY DEF RowsInv, GoodRows, RowOK, Row
  <2>3. Alive(task'[t]) => Alive(task[t])
    BY <2>1, <2>2 DEF Alive, Elapsed, Later
  <2> QED
    BY <1>1, <2>1, <2>3 DEF Moves, KeepsLease
<1>2. CASE task[t].status # "assigned"
  BY <1>2 DEF Tick, Moves
<1> QED
  BY <1>1, <1>2

LEMMA UpgradeMoves ==
  ASSUME Upgrade
  PROVE  NoneCompleted
<1>1. Queued({}).status = "queued"
  BY DEF Queued, Unleased
<1> QED
  BY <1>1 DEF Upgrade, Refreshed, NoneCompleted, Moves, LosesLease

LEMMA RenewMoves ==
  ASSUME RowsInv, NEW e \in held, Renew(e)
  PROVE  NoneCompleted
<1> SUFFICES ASSUME NEW t \in Tasks PROVE Moves(task[t], task'[t])
  BY DEF NoneCompleted
<1>1. Holds(e) /\ DOMAIN task = Tasks
  BY DEF Renew, RowsInv, GoodRows
<1>2. CASE t = e.task
  <2>1. /\ task'[t].status = task[t].status
        /\ SameLease(task[t], task'[t])
    BY <1>1, <1>2 DEF Renew, Timed, SameLease
  <2>2. Alive(task[t])
    BY <1>1, <1>2, HeldRow DEF Renew, Alive
  <2> QED
    BY <1>1, <1>2, <2>1, <2>2, HeldRow DEF Moves, KeepsLease
<1>3. CASE t # e.task
  BY <1>1, <1>3 DEF Renew, Moves
<1> QED
  BY <1>2, <1>3

LEMMA AbandonMoves ==
  ASSUME RowsInv, NEW e \in held, Abandon(e)
  PROVE  NoneCompleted /\ task'[e.task].status = "queued"
<1>1. /\ Holds(e) /\ DOMAIN task = Tasks
      /\ task' = [task EXCEPT ![e.task] = Abandoned(task[e.task])]
      /\ Abandoned(task[e.task]).status = "queued"
  BY DEF Abandon, Abandoned, Unleased, RowsInv, GoodRows
<1>2. task'[e.task] = Abandoned(task[e.task]) /\ task[e.task].status = "assigned"
  BY <1>1, HeldRow
<1>3. \A t \in Tasks \ {e.task} : task'[t] = task[t]
  BY <1>1
<1> QED
  BY <1>1, <1>2, <1>3 DEF NoneCompleted, Moves, LosesLease

LEMMA RejectMoves ==
  ASSUME RowsInv, NEW e \in held, Reject(e)
  PROVE  NoneCompleted /\ task'[e.task].status \in {"queued", "failed"}
<1>1. /\ Holds(e) /\ DOMAIN task = Tasks
      /\ task' = [task EXCEPT ![e.task] = Faulted(e.task, task[e.task])]
      /\ Faulted(e.task, task[e.task]).status \in {"queued", "failed"}
  BY DEF Reject, MayReport, Faulted, Unleased, RowsInv, GoodRows
<1>2. task'[e.task] = Faulted(e.task, task[e.task]) /\ task[e.task].status = "assigned"
  BY <1>1, HeldRow
<1>3. \A t \in Tasks \ {e.task} : task'[t] = task[t]
  BY <1>1
<1> QED
  BY <1>1, <1>2, <1>3 DEF NoneCompleted, Moves, LosesLease

(* An accepted result completes its task.                                  *)
LEMMA AcceptedMoves ==
  ASSUME RowsInv, NEW e \in held, Accepted(e)
  PROVE  OneCompleted(e) /\ task'[e.task] = Completed(task[e.task]) /\ MayReport(e)
<1>1. \A row : Completed(row).status = "completed" /\ SameLease(row, Completed(row))
  BY DEF Completed, SameLease
<1>2. DOMAIN task = Tasks
  BY DEF RowsInv, GoodRows
<1>3. ASSUME MayReport(e), task'[e.task] = Completed(task[e.task]),
             \A t \in Tasks \ {e.task} : Moves(task[t], task'[t])
      PROVE  OneCompleted(e)
  BY <1>1, <1>3 DEF OneCompleted, Completes, MayReport, Holds, Alive
<1>4. CASE CompleteInference(e)
  <2>1. /\ MayReport(e) /\ Holds(e)
        /\ task' = [task EXCEPT ![e.task] = Completed(task[e.task])]
    BY <1>4 DEF CompleteInference, MayReport
  <2>2. e.task \in Tasks
    BY <2>1, HeldRow
  <2> QED
    BY <1>2, <1>3, <2>1, <2>2 DEF Moves
<1>5. ASSUME NEW v \in Values, CompleteSearch(e, v)
      PROVE  OneCompleted(e) /\ task'[e.task] = Completed(task[e.task]) /\ MayReport(e)
  <2>1. /\ MayReport(e) /\ Holds(e)
        /\ task' = [task EXCEPT ![e.task] = Completed(task[e.task])]
    BY <1>5 DEF CompleteSearch, MayReport
  <2>2. e.task \in Tasks
    BY <2>1, HeldRow
  <2> QED
    BY <1>2, <1>3, <2>1, <2>2 DEF Moves
<1>6. ASSUME NEW v \in Values, CompleteReplica(e, v)
      PROVE  OneCompleted(e) /\ task'[e.task] = Completed(task[e.task]) /\ MayReport(e)
  <2>1. MayReport(e) /\ Holds(e)
    BY <1>6 DEF CompleteReplica, MayReport
  <2>2. e.task \in Tasks
    BY <2>1, HeldRow
  <2>3. \A t \in Tasks : IF t = e.task THEN task'[t] = Completed(task[t])
           ELSE \/ task'[t] = task[t]
                \/ task[t].status = "absent" /\ \E X : task'[t] = Queued(X)
    BY <1>6 DEF CompleteReplica, Tiebreaker
  <2>4. \A X : Queued(X).status = "queued"
    BY DEF Queued, Unleased
  <2>5. \A t \in Tasks \ {e.task} : Moves(task[t], task'[t])
    BY <2>3, <2>4 DEF Moves, LosesLease
  <2> QED
    BY <1>3, <2>1, <2>2, <2>3, <2>5
<1> QED
  BY <1>4, <1>5, <1>6 DEF Accepted

(***************************************************************************)
(* The loop of the seed.                                                   *)
(***************************************************************************)
Mine(e) == e \in held /\ e.node = Seed
Busy == pc \in {"got", "work"}

Minted == \A e \in held : e.lease <= lastLease

LoopInv ==
  /\ \A e \in outbox : Mine(e)
  /\ Busy => Mine(job)
  /\ ~Busy => job = NoJob
  /\ \A r \in late : r.kind # "claim" => Mine(r.job)
  /\ Busy \/ pc = "claim" => outbox = {}
  /\ \A e, f \in outbox : e = f
  /\ answers \in [Tasks -> {"none", "accepted", "duplicate", "rejected", "aborted"}]

(* What the queue does in a step of the whole.                             *)
QueueStep == [Next]_vars \/ SweepOnly

LEMMA SweepOnlyRows ==
  ASSUME RowsInv, SweepOnly
  PROVE  RowsInv'
<1>1. task' = RowsAtClaim /\ SweepBeforeClaim /\ lastLease' = lastLease
  BY DEF SweepOnly
<1>2. GoodRows(task', lastLease')
  BY <1>1, AtClaim
<1>3. RestOK'
  BY <1>1, AtClaim, RefundTypes DEF SweepOnly, RowsInv, RestOK
<1> QED
  BY <1>2, <1>3 DEF RowsInv

LEMMA QueueRows ==
  ASSUME RowsInv, QueueStep
  PROVE  RowsInv'
BY RowsStep, SweepOnlyRows DEF QueueStep

(* Only a granted claim makes an envelope, with a new token.               *)
LEMMA ClaimMints ==
  ASSUME RowsInv, Minted, NEW n \in Nodes, ClaimTask(n)
  PROVE  \E e : /\ held' = held \cup {e}
                /\ held' \ held = {e}
                /\ e.node = n
                /\ e.task \in Tasks
                /\ e.lease = lastLease + 1
                /\ task'[e.task].status = "assigned"
                /\ task'[e.task].lease_token = lastLease + 1
                /\ lastLease' = lastLease + 1
<1>1. PICK t \in Choices(n) :
        /\ task' = [RowsAtClaim EXCEPT ![t] = Leased(@, t, n)]
        /\ held' = held \cup {[lease |-> lastLease + 1, task |-> t, node |-> n]}
  BY DEF ClaimTask
<1> DEFINE e == [lease |-> lastLease + 1, task |-> t, node |-> n]
<1>2. t \in Tasks /\ DOMAIN RowsAtClaim = Tasks
  BY <1>1 DEF Choices, Preferred, Claimable, RowsAtClaim, Refreshed, Swept
<1>3. task'[t].status = "assigned" /\ task'[t].lease_token = lastLease + 1
  BY <1>1, <1>2 DEF Leased
<1>4. lastLease \in Nat /\ lastLease' = lastLease + 1
  BY DEF ClaimTask, RowsInv, RestOK
<1>5. e \notin held
  BY <1>4 DEF Minted
<1> QED
  BY <1>1, <1>2, <1>3, <1>4, <1>5

LEMMA QueueHeld ==
  ASSUME RowsInv, Minted, QueueStep
  PROVE  held \subseteq held' /\ Minted'
<1>1. lastLease \in Nat /\ \A e \in held : e.lease \in Nat
  BY DEF RowsInv, RestOK, Envelope
<1>2. CASE held' = held /\ lastLease' = lastLease
  BY <1>2 DEF Minted
<1>3. ASSUME NEW n \in Nodes, ClaimTask(n)
      PROVE  held \subseteq held' /\ Minted'
  BY <1>1, <1>3, ClaimMints DEF Minted
<1>4. ASSUME NEW n \in Nodes, ClaimNothing(n)
      PROVE  held' = held /\ lastLease' = lastLease
  BY <1>4 DEF ClaimNothing
<1>5. ASSUME Enqueue
      PROVE  held' = held /\ lastLease' = lastLease
  BY <1>5 DEF Enqueue, EnqueueReplicas, CreateInference
<1>6. ASSUME NEW e \in held, Respond(e)
      PROVE  held' = held /\ lastLease' = lastLease
  BY <1>6 DEF Respond, Renew, Abandon, CompleteInference, CompleteReplica,
              CompleteSearch, Reject
<1>7. Stats \/ Tick \/ Upgrade \/ SweepOnly \/ UNCHANGED vars =>
        held' = held /\ lastLease' = lastLease
  BY DEF Stats, Tick, Upgrade, SweepOnly, vars
<1> QED
  BY <1>2, <1>3, <1>4, <1>5, <1>6, <1>7 DEF QueueStep, Next, Claim

(* Every step of the whole is one of the queue, or a sweep.                *)
LEMMA WholeIsQueue ==
  ASSUME LoopInv, [SeedNext]_allVars
  PROVE  QueueStep
<1>1. Seed \in Nodes
  BY SeedAssumption
<1>2. ASSUME NEW e, Mine(e), Accepted(e) \/ Reject(e) \/ Abandon(e) \/ Renew(e)
      PROVE  QueueStep
  BY <1>2 DEF Mine, Accepted, Respond, Next, QueueStep
<1>3. Granted \/ NotGranted => QueueStep
  BY <1>1 DEF Granted, NotGranted, Claim, Next, QueueStep
<1>4. \A r : Lost(r) => QueueStep
  BY DEF Lost, QueueStep
<1>5. CASE Launch \/ Register \/ Reload \/ Flushed \/ Begin \/ Fail \/ Finish \/ SetPolicy \/ Kill
  BY <1>5 DEF Launch, Register, Reload, Flushed, Begin, Fail, Finish, SetPolicy, Kill, QueueStep
<1>6. ASSUME NEW e \in outbox, Deliver(e)
      PROVE  QueueStep
  BY <1>2, <1>6 DEF Deliver, RolledBack, LoopInv, QueueStep
<1>7. ASSUME NEW e \in outbox, DeliverFails(e)
      PROVE  QueueStep
  BY <1>4, <1>7 DEF DeliverFails
<1>8. CASE Claims \/ ClaimsNothing \/ ClaimFails
  BY <1>3, <1>4, <1>8 DEF Claims, ClaimsNothing, ClaimFails
<1>9. CASE RenewJob
  <2>1. Mine(job)
    BY <1>9 DEF RenewJob, LoopInv, Busy
  <2>2. Renew(job) \/ UNCHANGED vars \/ Lost(Request("renew", job))
    BY <1>9 DEF RenewJob
  <2> QED
    BY <1>2, <1>4, <2>1, <2>2 DEF QueueStep
<1>10. CASE Cancel
  <2>1. Mine(job)
    BY <1>10 DEF Cancel, LoopInv, Busy
  <2> QED
    BY <1>2, <1>4, <1>10, <2>1 DEF Cancel, GiveBack
<1>11. ASSUME NEW r \in late, Arrive(r)
       PROVE  QueueStep
  BY <1>2, <1>3, <1>11 DEF Arrive, LoopInv, QueueStep
<1>12. CASE Elsewhere
  BY <1>12 DEF Elsewhere, Next, QueueStep
<1>13. CASE TimePasses
  BY <1>13 DEF TimePasses, Next, QueueStep
<1>14. CASE UNCHANGED allVars
  BY <1>14 DEF allVars, QueueStep
<1> QED
  BY <1>5, <1>6, <1>7, <1>8, <1>9, <1>10, <1>11, <1>12, <1>13, <1>14 DEF SeedNext

LEMMA LoopStep ==
  ASSUME RowsInv, Minted, LoopInv, [SeedNext]_allVars
  PROVE  LoopInv'
<1> DEFINE LateOK == \A r \in late' : r.kind # "claim" => r.job \in held' /\ r.job.node = Seed
<1>1. held \subseteq held' /\ Minted'
  BY WholeIsQueue, QueueHeld
<1>2. \A e : Mine(e) => e \in held' /\ e.node = Seed
  BY <1>1 DEF Mine
<1>3. late' \subseteq late => LateOK
  BY <1>2 DEF LoopInv
<1>4. ASSUME NEW r, r.kind # "claim" => Mine(r.job), Lost(r)
      PROVE  LateOK
  BY <1>2, <1>4 DEF Lost, LoopInv
<1>5. \A k, e : Request(k, e).kind = k /\ Request(k, e).job = e
  BY DEF Request
<1>6. \A e : e \in held' /\ e.node = Seed <=> Mine(e)'
  BY DEF Mine
<1> HIDE DEF LateOK
<1>7. LateOK => (\A r \in late : r.kind # "claim" => Mine(r.job))'
  BY <1>6 DEF LateOK
<1>8. CASE Launch \/ Register \/ Reload \/ Flushed \/ ClaimsNothing
  BY <1>2, <1>3, <1>6, <1>7, <1>8 DEF Launch, Register, Reload, Flushed, ClaimsNothing, disk, LoopInv, Busy
<1>9. ASSUME NEW e \in outbox, Deliver(e)
      PROVE  LoopInv'
  <2>1. PICK answer \in {"accepted", "duplicate", "rejected", "aborted"} : Settle(e, answer)
    BY <1>9 DEF Deliver
  <2>2. pc \in {"flush", "deliver"}
    BY <1>9 DEF Deliver
  <2>3. answers' \in [Tasks -> {"none", "accepted", "duplicate", "rejected", "aborted"}]
    BY <2>1 DEF Settle, LoopInv
  <2>4. /\ outbox' \subseteq outbox
        /\ late' = late /\ job' = job /\ pc' = pc
    BY <2>1 DEF Settle
  <2>5. \A f \in outbox' : Mine(f)'
    BY <1>2, <1>6, <2>4 DEF LoopInv
  <2>6. \A f, g \in outbox' : f = g
    BY <2>4 DEF LoopInv
  <2>7. ~Busy /\ ~Busy' /\ job' = NoJob /\ pc' # "claim"
    BY <2>2, <2>4 DEF LoopInv, Busy
  <2> QED
    BY <1>3, <1>7, <2>3, <2>4, <2>5, <2>6, <2>7 DEF LoopInv, Busy
<1>10. ASSUME NEW e \in outbox, DeliverFails(e)
       PROVE  LoopInv'
  <2>1. LateOK
    BY <1>4, <1>5, <1>10 DEF DeliverFails, LoopInv
  <2> QED
    BY <1>2, <1>6, <1>7, <1>10, <2>1 DEF DeliverFails, disk, LoopInv, Busy
<1>11. CASE Claims
  <2>1. /\ Granted /\ pc = "claim" /\ pc' = "got"
        /\ job' = CHOOSE e \in held' \ held : TRUE
        /\ outbox' = outbox /\ answers' = answers /\ late' = late
    BY <1>11 DEF Claims, disk
  <2>2. ClaimTask(Seed) /\ Seed \in Nodes
    BY <2>1, SeedAssumption DEF Granted
  <2>3. PICK e : held' \ held = {e} /\ e.node = Seed
    BY <2>2, ClaimMints
  <2>4. job' \in held' /\ job'.node = Seed
    BY <2>1, <2>3
  <2> QED
    BY <1>2, <1>3, <1>6, <1>7, <2>1, <2>4 DEF LoopInv, Busy
<1>12. CASE ClaimFails
  <2>1. LateOK
    BY <1>4, <1>12 DEF ClaimFails, Claim1
  <2> QED
    BY <1>2, <1>6, <1>7, <1>12, <2>1 DEF ClaimFails, disk, LoopInv, Busy
<1>13. CASE Begin
  BY <1>2, <1>3, <1>6, <1>7, <1>13 DEF Begin, disk, LoopInv, Busy
<1>14. CASE RenewJob
  <2>1. /\ pc = "work"
        /\ late' = late \/ Lost(Request("renew", job))
        /\ UNCHANGED <<disk, policy, offered, pc, job>>
    BY <1>14 DEF RenewJob
  <2>2. Busy /\ Mine(job)
    BY <2>1 DEF LoopInv, Busy
  <2>3. LateOK
    BY <1>3, <1>4, <1>5, <2>1, <2>2
  <2> QED
    BY <1>2, <1>6, <1>7, <2>1, <2>2, <2>3 DEF disk, LoopInv, Busy
<1>15. CASE Cancel
  <2>1. Busy /\ Mine(job)
    BY <1>15 DEF Cancel, LoopInv, Busy
  <2>2. LateOK
    BY <1>3, <1>4, <1>5, <1>15, <2>1 DEF Cancel, GiveBack
  <2> QED
    BY <1>2, <1>6, <1>7, <1>15, <2>1, <2>2 DEF Cancel, Idle, disk, LoopInv, Busy
<1>16. CASE Fail
  BY <1>2, <1>3, <1>6, <1>7, <1>16 DEF Fail, Idle, disk, LoopInv, Busy
<1>17. CASE Finish
  <2>1. outbox = {} /\ Mine(job)
    BY <1>17 DEF Finish, LoopInv, Busy
  <2>2. outbox' = {job} /\ pc' = "deliver" /\ job' = NoJob /\ answers' = answers /\ late' = late
    BY <1>17, <2>1 DEF Finish, Idle
  <2> QED
    BY <1>2, <1>3, <1>6, <1>7, <2>1, <2>2 DEF LoopInv, Busy
<1>18. CASE SetPolicy
  BY <1>2, <1>3, <1>6, <1>7, <1>18 DEF SetPolicy, LoopInv, Busy
<1>19. CASE Kill
  BY <1>2, <1>3, <1>6, <1>7, <1>19 DEF Kill, Idle, disk, LoopInv, Busy
<1>20. ASSUME NEW r \in late, Arrive(r)
       PROVE  LoopInv'
  BY <1>2, <1>3, <1>6, <1>7, <1>20 DEF Arrive, LoopInv, Busy
<1>21. CASE Elsewhere
  BY <1>2, <1>3, <1>6, <1>7, <1>21 DEF Elsewhere, seedVars, LoopInv, Busy
<1>22. CASE TimePasses
  BY <1>2, <1>3, <1>6, <1>7, <1>22 DEF TimePasses, LoopInv, Busy
<1>23. CASE UNCHANGED allVars
  BY <1>2, <1>3, <1>6, <1>7, <1>23 DEF allVars, seedVars, LoopInv, Busy
<1> QED
  BY <1>8, <1>9, <1>10, <1>11, <1>12, <1>13, <1>14, <1>15, <1>16, <1>17, <1>18, <1>19,
     <1>20, <1>21, <1>22, <1>23 DEF SeedNext

(***************************************************************************)
(* The invariant of the whole, and its first consequences.                 *)
(***************************************************************************)
SeedInv == RowsInv /\ Minted /\ LoopInv

LEMMA SeedInvStep ==
  ASSUME SeedInv, [SeedNext]_allVars
  PROVE  SeedInv'
BY WholeIsQueue, QueueRows, QueueHeld, LoopStep DEF SeedInv

LEMMA SeedInvInit ==
  ASSUME SeedInit
  PROVE  SeedInv
<1>1. RowsInv
  BY InitRows DEF SeedInit
<1>2. Minted /\ LoopInv
  BY DEF SeedInit, Init, Minted, LoopInv, Busy
<1> QED
  BY <1>1, <1>2 DEF SeedInv

LEMMA SeedInvariant == SeedSpec => []SeedInv
<1>1. SeedInv /\ [SeedNext]_allVars => SeedInv'
  BY SeedInvStep
<1> QED
  BY SeedInvInit, <1>1, PTL DEF SeedSpec

(* The loop delivers before it claims, so however deliveries fail and the   *)
(* process is killed, a node has one result undelivered and none while it   *)
(* works: its outbox needs no order.                                       *)
THEOREM OneResultWaits == SeedSpec => []OneUndelivered
<1>1. SeedInv => OneUndelivered
  <2> SUFFICES ASSUME SeedInv PROVE OneUndelivered
    OBVIOUS
  <2>1. Cardinality(outbox) <= 1
    <3>1. CASE outbox = {}
      BY <3>1, FS_EmptySet
    <3>2. ASSUME NEW e \in outbox PROVE Cardinality(outbox) <= 1
      <4>1. outbox = {e}
        BY DEF SeedInv, LoopInv
      <4>2. Cardinality({e}) = 1
        BY FS_Singleton
      <4> QED
        BY <4>1, <4>2
    <3> QED
      BY <3>1, <3>2
  <2>2. job # NoJob => outbox = {}
    BY DEF SeedInv, LoopInv
  <2> QED
    BY <2>1, <2>2 DEF OneUndelivered
<1> QED
  BY <1>1, SeedInvariant, PTL

(***************************************************************************)
(* Dead leases.                                                            *)
(***************************************************************************)
LEMMA DeadStaysDead ==
  ASSUME SeedInv, NEW e \in held, ~MayReport(e),
         \A t \in Tasks : \/ Moves(task[t], task'[t])
                          \/ Completes(task[t], task'[t])
  PROVE  ~MayReport(e)'
<1>1. e.task \in Tasks /\ e.lease \in Nat /\ e.lease <= lastLease /\ lastLease \in Nat
  BY DEF SeedInv, RowsInv, RestOK, Envelope, Minted
<1> DEFINE row == task[e.task]
           new == task'[e.task]
<1>2. MayReport(e)' <=> /\ new.status = "assigned"
                        /\ new.assigned_to = e.node
                        /\ new.lease_token = e.lease
                        /\ Alive(new)
  BY DEF MayReport, Holds, Alive
<1>3. MayReport(e) <=> /\ row.status = "assigned"
                       /\ row.assigned_to = e.node
                       /\ row.lease_token = e.lease
                       /\ Alive(row)
  BY DEF MayReport, Holds, Alive
<1>4. Moves(row, new) \/ Completes(row, new)
  BY <1>1
<1> HIDE DEF row, new
<1>5. ASSUME MayReport(e)' PROVE FALSE
  <2>1. new.lease_token # lastLease + 1
    BY <1>1, <1>2, <1>5
  <2>2. new = row \/ KeepsLease(row, new)
    BY <1>2, <1>4, <1>5, <2>1 DEF Moves, LosesLease, GetsLease, Completes
  <2> QED
    BY <1>2, <1>3, <1>5, <2>2 DEF KeepsLease, SameLease
<1> QED
  BY <1>5

LEMMA UnchangedMoves ==
  ASSUME UNCHANGED vars
  PROVE  NoneCompleted
BY DEF vars, NoneCompleted, Moves

LEMMA SweepOnlyMoves ==
  ASSUME SweepOnly \/ \E n \in Nodes : ClaimNothing(n)
  PROVE  NoneCompleted
<1>1. task' = RowsAtClaim
  BY DEF SweepOnly, ClaimNothing
<1> QED
  BY <1>1, AtClaimMoves DEF NoneCompleted, Moves

LEMMA ClaimingMoves ==
  ASSUME Granted \/ NotGranted
  PROVE  NoneCompleted
BY SeedAssumption, ClaimMoves, SweepOnlyMoves DEF Granted, NotGranted

(* What a delivered result leaves of its lease.                            *)
LEMMA SettledIsDead ==
  ASSUME SeedInv, NEW e \in outbox, Deliver(e)
  PROVE  \/ OneCompleted(e) /\ Settle(e, "accepted") /\ Repeated(e)' /\ ~MayReport(e)'
         \/ NoneCompleted /\ Settle(e, "duplicate") /\ Repeated(e) /\ ~MayReport(e)'
         \/ NoneCompleted /\ Settle(e, "rejected") /\ ~Repeated(e) /\ ~MayReport(e)'
         \/ NoneCompleted /\ Settle(e, "aborted") /\ ~Repeated(e) /\ UNCHANGED vars
<1>1. e \in held /\ e.node = Seed /\ RowsInv
  BY DEF SeedInv, LoopInv, Mine
<1>2. MayReport(e)' => task'[e.task].status = "assigned"
  BY DEF MayReport, Holds
<1>3. CASE Accepted(e) /\ Settle(e, "accepted")
  <2>1. OneCompleted(e) /\ task'[e.task] = Completed(task[e.task]) /\ MayReport(e)
    BY <1>1, <1>3, AcceptedMoves
  <2>2. /\ task'[e.task].status = "completed"
        /\ task'[e.task].assigned_to = task[e.task].assigned_to
        /\ task'[e.task].lease_token = task[e.task].lease_token
    BY <2>1 DEF Completed
  <2>3. Repeated(e)'
    BY <2>1, <2>2 DEF Repeated, MayReport, Holds
  <2> QED
    BY <1>2, <1>3, <2>1, <2>2, <2>3
<1>4. CASE Repeated(e) /\ UNCHANGED vars /\ Settle(e, "duplicate")
  BY <1>2, <1>4, UnchangedMoves DEF Repeated, vars
<1>5. CASE ~Repeated(e) /\ ~MayReport(e) /\ UNCHANGED vars /\ Settle(e, "rejected")
  <2>1. ~MayReport(e)'
    BY <1>5 DEF MayReport, Holds, vars
  <2> QED
    BY <1>5, <2>1, UnchangedMoves
<1>6. CASE Reject(e) /\ Settle(e, "rejected")
  <2>1. NoneCompleted /\ task'[e.task].status \in {"queued", "failed"}
    BY <1>1, <1>6, RejectMoves
  <2>2. ~Repeated(e)
    BY <1>6 DEF Reject, MayReport, Holds, Repeated
  <2> QED
    BY <1>2, <1>6, <2>1, <2>2
<1>7. CASE RolledBack(e) /\ Settle(e, "aborted")
  BY <1>7, UnchangedMoves DEF RolledBack, MayReport, Holds, Repeated
<1> QED
  BY <1>3, <1>4, <1>5, <1>6, <1>7 DEF Deliver

LEMMA OutboxShrinks ==
  ASSUME SeedInv, [SeedNext]_allVars, NEW e \in outbox \ outbox'
  PROVE  Deliver(e)
<1>1. ASSUME NEW f \in outbox, Deliver(f) PROVE f = e
  <2>1. outbox' = outbox \ {f}
    BY <1>1 DEF Deliver, Settle
  <2> QED
    BY <2>1
<1>2. CASE Finish
  BY <1>2 DEF Finish, SeedInv, LoopInv, Busy
<1>3. RenewJob => outbox' = outbox
  <2>1. RenewJob => UNCHANGED disk
    BY DEF RenewJob
  <2> QED
    BY <2>1 DEF disk
<1>4. outbox' # outbox
  OBVIOUS
<1> QED
  BY <1>1, <1>2, <1>3, <1>4
  DEF SeedNext, Launch, Register, Reload, DeliverFails, Flushed, Claims, ClaimsNothing,
      ClaimFails, Begin, Cancel, Fail, SetPolicy, Kill, Arrive, Elsewhere, TimePasses,
      allVars, seedVars, disk

(* Whatever answer a seed takes for final, and whatever file it replaces:    *)
(* a result the coordinator could still accept leaves the outbox only when   *)
(* the coordinator answered it with an error and rolled back.                *)
THEOREM GivingUpIsAnswered == SeedSpec => GivenUpIsAnswered
<1>1. ASSUME SeedInv, [SeedNext]_allVars, NEW e \in outbox \ outbox', MayReport(e)'
      PROVE  answers'[e.task] = "aborted" /\ UNCHANGED vars
  <2>1. Deliver(e)
    BY <1>1, OutboxShrinks
  <2>2. Settle(e, "aborted") /\ UNCHANGED vars
    BY <1>1, <2>1, SettledIsDead
  <2>3. e.task \in Tasks /\ DOMAIN answers = Tasks
    BY <1>1 DEF SeedInv, RowsInv, RestOK, Envelope, LoopInv, Mine
  <2> QED
    BY <2>2, <2>3 DEF Settle
<1>2. SeedInv /\ [SeedNext]_allVars =>
        [\A e \in outbox \ outbox' :
           MayReport(e)' => answers'[e.task] = "aborted" /\ UNCHANGED vars]_allVars
  BY <1>1
<1> QED
  BY <1>2, SeedInvariant, PTL DEF SeedSpec, GivenUpIsAnswered

(***************************************************************************)
(* Receipts and the coordinator's table.                                   *)
(***************************************************************************)
Done(t) == task[t].status = "completed" /\ task[t].assigned_to = Seed
Said(t) == answers[t] \in {"accepted", "duplicate"}

(* A result the seed gave up though its lease was alive, and to whose task   *)
(* it has not returned.                                                      *)
Untracked(e) ==
  /\ answers[e.task] = "aborted"
  /\ \A f \in outbox : f.task # e.task
  /\ Busy => job.task # e.task

RecordsInv ==
  /\ \A t \in Tasks : Said(t) => Done(t)
  /\ \A t \in Tasks : Done(t) => \/ Said(t) \/ answers[t] = "aborted"
                                 \/ \E e \in outbox : Repeated(e) /\ e.task = t
  /\ \A e \in outbox : Done(e.task) => Repeated(e)
  /\ Busy => (Done(job.task) => Repeated(job))
  /\ \A r \in late : r.kind = "result" =>
       r.job \in outbox \/ ~MayReport(r.job) \/ Untracked(r.job)

(* A row that moves neither becomes nor ceases to be completed.            *)
LEMMA MovesDone ==
  ASSUME NEW row, NEW new, Moves(row, new)
  PROVE  row.status = "completed" \/ new.status = "completed" => new = row
BY DEF Moves, LosesLease, GetsLease, KeepsLease

LEMMA MovesRepeated ==
  ASSUME NEW e, Moves(task[e.task], task'[e.task])
  PROVE  Repeated(e)' <=> Repeated(e)
BY MovesDone DEF Repeated

(* Steps in which no task becomes the seed's, and no answer is recorded.   *)
LEMMA QuietRecords ==
  ASSUME SeedInv, RecordsInv,
         \A t \in Tasks : \/ Moves(task[t], task'[t])
                          \/ Completes(task[t], task'[t]) /\ ~Done(t)',
         UNCHANGED <<outbox, answers>>,
         Busy' => Busy /\ job' = job,
         \A r \in late' : r \in late \/ r.kind # "result" \/ r.job \in outbox
  PROVE  RecordsInv'
<1>1. \A t \in Tasks : (Done(t)' => Done(t)) /\ (Said(t)' <=> Said(t))
  BY MovesDone DEF Done, Said
<1>2. \A t \in Tasks : task[t].status = "completed" => task'[t] = task[t]
  BY MovesDone DEF Completes
<1>3. \A t \in Tasks : Done(t) => Done(t)'
  BY <1>2 DEF Done
<1>4. \A e : e.task \in Tasks /\ Repeated(e) => Repeated(e)'
  BY <1>2 DEF Repeated
<1>5. (\A e \in outbox : e.task \in Tasks) /\ (Busy => job.task \in Tasks)
  BY DEF SeedInv, RowsInv, RestOK, Envelope, LoopInv, Mine
<1>6. ASSUME NEW r \in late', r.kind = "result"
      PROVE  r.job \in outbox' \/ ~MayReport(r.job)' \/ Untracked(r.job)'
  <2>1. CASE r.job \in outbox
    BY <2>1
  <2>2. CASE r.job \notin outbox
    <3>1. r \in late
      BY <1>6, <2>2
    <3>2. r.job \in held /\ (~MayReport(r.job) \/ Untracked(r.job))
      BY <1>6, <2>2, <3>1 DEF SeedInv, LoopInv, Mine, RecordsInv
    <3>3. Untracked(r.job) => Untracked(r.job)'
      BY DEF Untracked
    <3> QED
      BY <3>2, <3>3, DeadStaysDead
  <2> QED
    BY <2>1, <2>2
<1>7. \A t \in Tasks : Said(t)' => Done(t)'
  BY <1>1, <1>3 DEF RecordsInv
<1>8. ASSUME NEW t \in Tasks, Done(t)'
      PROVE  Said(t)' \/ answers'[t] = "aborted" \/ \E e \in outbox' : Repeated(e)' /\ e.task = t
  BY <1>1, <1>4, <1>8 DEF RecordsInv
<1>9. ASSUME NEW e \in outbox', Done(e.task)'
      PROVE  Repeated(e)'
  BY <1>1, <1>4, <1>5, <1>9 DEF RecordsInv
<1>10. ASSUME Busy', Done(job.task)'
       PROVE  Repeated(job)'
  <2>1. Busy /\ job' = job /\ job.task \in Tasks
    BY <1>5, <1>10
  <2>2. task'[job.task] = task[job.task] \/ ~Done(job.task)
    BY <1>2, <2>1 DEF Done
  <2>3. Done(job.task)
    BY <1>1, <1>10, <2>1 DEF Done
  <2>4. Repeated(job)
    BY <2>1, <2>3 DEF RecordsInv
  <2> QED
    BY <2>1, <2>2, <2>3, <2>4 DEF Repeated
<1> QED
  BY <1>6, <1>7, <1>8, <1>9, <1>10 DEF RecordsInv

(* A delivered result: its answer is recorded, the outbox is empty.        *)
LEMMA DeliverRecords ==
  ASSUME SeedInv, RecordsInv, NEW e \in outbox, Deliver(e)
  PROVE  RecordsInv'
<1>1. /\ e \in held /\ e.node = Seed /\ e.task \in Tasks
      /\ outbox = {e} /\ pc \in {"flush", "deliver"}
      /\ DOMAIN answers = Tasks
  BY DEF Deliver, SeedInv, RowsInv, RestOK, Envelope, LoopInv, Mine
<1>2. PICK answer \in {"accepted", "duplicate", "rejected", "aborted"} :
        /\ Settle(e, answer)
        /\ \/ answer = "accepted" /\ OneCompleted(e) /\ Repeated(e)' /\ ~MayReport(e)'
           \/ answer = "duplicate" /\ NoneCompleted /\ Repeated(e) /\ ~MayReport(e)'
           \/ answer = "rejected" /\ NoneCompleted /\ ~Repeated(e) /\ ~MayReport(e)'
           \/ answer = "aborted" /\ NoneCompleted /\ ~Repeated(e)
  BY SettledIsDead
<1>3. /\ outbox' = {} /\ pc' = pc /\ late' = late
      /\ answers' = [answers EXCEPT ![e.task] = answer]
  BY <1>1, <1>2 DEF Settle
<1>4. ~Busy'
  BY <1>1, <1>3 DEF Busy
<1>5. \A t \in Tasks \ {e.task} : Moves(task[t], task'[t])
  BY <1>2 DEF OneCompleted, NoneCompleted
<1>6. ASSUME NEW t \in Tasks
      PROVE  /\ Said(t)' => Done(t)'
             /\ Done(t)' => Said(t)' \/ answers'[t] = "aborted"
  <2>1. CASE t # e.task
    <3>1. (Said(t)' <=> Said(t)) /\ answers'[t] = answers[t]
      BY <1>3, <2>1 DEF Said
    <3>2. Done(t)' <=> Done(t)
      BY <1>5, <2>1, MovesDone DEF Done
    <3>3. (Said(t) => Done(t)) /\ (Done(t) => Said(t) \/ answers[t] = "aborted")
      BY <1>1, <2>1 DEF RecordsInv
    <3> QED
      BY <3>1, <3>2, <3>3
  <2>2. CASE t = e.task
    <3>1. (Said(t)' <=> answer \in {"accepted", "duplicate"}) /\ answers'[t] = answer
      BY <1>1, <1>3, <2>2 DEF Said
    <3>2. CASE answer = "accepted"
      BY <1>1, <1>2, <2>2, <3>1, <3>2 DEF Done, Repeated
    <3>3. CASE answer # "accepted"
      <4>1. Done(t)' <=> Done(t)
        BY <1>2, <2>2, <3>3, MovesDone DEF NoneCompleted, Done
      <4>2. Done(t) <=> Repeated(e)
        BY <1>1, <2>2 DEF RecordsInv, Done, Repeated
      <4> QED
        BY <1>2, <3>1, <3>3, <4>1, <4>2
    <3> QED
      BY <3>2, <3>3
  <2> QED
    BY <2>1, <2>2
<1>7. ASSUME NEW r \in late', r.kind = "result"
      PROVE  ~MayReport(r.job)' \/ Untracked(r.job)'
  <2>1. r \in late /\ r.job \in held
    BY <1>3, <1>7 DEF SeedInv, LoopInv, Mine
  <2>2. CASE r.job = e
    <3>1. CASE answer = "aborted"
      BY <1>1, <1>3, <1>4, <2>2, <3>1 DEF Untracked
    <3> QED
      BY <1>2, <2>2, <3>1
  <2>3. CASE r.job # e /\ ~MayReport(r.job)
    <3>1. \A t \in Tasks : Moves(task[t], task'[t]) \/ Completes(task[t], task'[t])
      BY <1>2 DEF OneCompleted, NoneCompleted
    <3> QED
      BY <2>1, <2>3, <3>1, DeadStaysDead
  <2>4. CASE r.job # e /\ Untracked(r.job)
    BY <1>1, <1>3, <1>4, <2>4 DEF Untracked
  <2> QED
    BY <1>1, <1>7, <2>1, <2>2, <2>3, <2>4 DEF RecordsInv
<1> QED
  BY <1>3, <1>4, <1>6, <1>7 DEF RecordsInv

(* A new lease is of a task nobody has completed.                          *)
LEMMA ClaimsRecords ==
  ASSUME SeedInv, RecordsInv, Claims
  PROVE  RecordsInv'
<1>1. /\ ClaimTask(Seed) /\ Seed \in Nodes
      /\ job' = CHOOSE e \in held' \ held : TRUE
      /\ outbox = {} /\ UNCHANGED <<outbox, answers, late>>
  BY SeedAssumption DEF Claims, Granted, disk, SeedInv, LoopInv
<1>2. PICK e : /\ held' \ held = {e} /\ e.task \in Tasks
               /\ task'[e.task].status = "assigned"
               /\ task'[e.task].lease_token = lastLease + 1
  BY <1>1, ClaimMints DEF SeedInv
<1>3. job' = e
  BY <1>1, <1>2
<1>4. NoneCompleted
  BY <1>1, ClaimMoves
<1>5. \A t \in Tasks : (Done(t)' <=> Done(t)) /\ (Said(t)' <=> Said(t))
  BY <1>1, <1>4, MovesDone DEF NoneCompleted, Done, Said
<1>6. ~Done(job.task)'
  BY <1>2, <1>3 DEF Done
<1>7. ASSUME NEW r \in late', r.kind = "result"
      PROVE  ~MayReport(r.job)' \/ Untracked(r.job)'
  <2>1. r.job \in held /\ (~MayReport(r.job) \/ answers[r.job.task] = "aborted")
    BY <1>1, <1>7 DEF SeedInv, LoopInv, Mine, RecordsInv, Untracked
  <2>2. CASE ~MayReport(r.job)
    BY <1>4, <2>1, <2>2, DeadStaysDead DEF NoneCompleted
  <2>3. CASE r.job.task = e.task
    <3>1. r.job.lease \in Nat /\ r.job.lease <= lastLease /\ lastLease \in Nat
      BY <2>1 DEF SeedInv, RowsInv, RestOK, Envelope, Minted
    <3>2. task'[e.task].lease_token # r.job.lease
      BY <1>2, <3>1
    <3> QED
      BY <2>3, <3>2 DEF MayReport, Holds
  <2>4. CASE answers[r.job.task] = "aborted" /\ r.job.task # e.task
    BY <1>1, <1>3, <2>4 DEF Untracked
  <2> QED
    BY <2>1, <2>2, <2>3, <2>4
<1> QED
  BY <1>1, <1>5, <1>6, <1>7 DEF RecordsInv

(* The job becomes the one result in the outbox.                           *)
LEMMA FinishRecords ==
  ASSUME SeedInv, RecordsInv, Finish
  PROVE  RecordsInv'
<1>1. /\ Busy /\ outbox = {} /\ pc' = "deliver"
      /\ UNCHANGED vars /\ UNCHANGED <<answers, late>>
  BY DEF Finish, SeedInv, LoopInv, Busy
<1>2. outbox' = {job}
  BY <1>1 DEF Finish
<1>3. \A t \in Tasks : (Done(t)' <=> Done(t)) /\ (Said(t)' <=> Said(t))
  BY <1>1 DEF vars, Done, Said
<1>4. \A e : (Repeated(e)' <=> Repeated(e)) /\ (MayReport(e)' <=> MayReport(e))
  BY <1>1 DEF vars, Repeated, MayReport, Holds
<1>5. job.task \in Tasks /\ ~Busy'
  BY <1>1 DEF SeedInv, RowsInv, RestOK, Envelope, LoopInv, Mine, Busy
<1>6. \A e : Untracked(e) => Untracked(e)'
  BY <1>1, <1>2, <1>5 DEF Untracked
<1> QED
  BY <1>1, <1>2, <1>3, <1>4, <1>5, <1>6 DEF RecordsInv

(* A late request: a late result is still in the outbox if it counts.      *)
LEMMA ArriveRecords ==
  ASSUME SeedInv, RecordsInv, NEW r \in late, Arrive(r)
  PROVE  RecordsInv'
<1>1. /\ UNCHANGED <<outbox, answers>> /\ pc' = pc /\ job' = job
      /\ late' \subseteq late
  BY DEF Arrive
<1>2. r.kind # "claim" => r.job \in held /\ RowsInv
  BY DEF SeedInv, LoopInv, Mine
<1>3. CASE NoneCompleted
  BY <1>1, <1>3, QuietRecords DEF NoneCompleted, Busy
<1>4. CASE r.kind = "result" /\ Accepted(r.job)
  <2> DEFINE e == r.job
  <2>1. /\ OneCompleted(e) /\ MayReport(e)
        /\ task'[e.task] = Completed(task[e.task])
    BY <1>2, <1>4, AcceptedMoves
  <2>2. /\ e \in outbox \/ Untracked(e)
        /\ e.task \in Tasks /\ e \in held
        /\ \A f \in outbox : f.task \in Tasks
        /\ Busy => job.task \in Tasks /\ outbox = {}
        /\ \A f, g \in outbox : f = g
    BY <1>4, <2>1 DEF RecordsInv, SeedInv, LoopInv, RowsInv, RestOK, Envelope, Mine
  <2>3. Repeated(e)' /\ ~MayReport(e)'
    BY <2>1 DEF Completed, Repeated, MayReport, Holds
  <2>4. \A t \in Tasks \ {e.task} : (Done(t)' <=> Done(t)) /\ (Done(t) => task'[t] = task[t])
    BY <2>1, MovesDone DEF OneCompleted, Done
  <2>5. \A t \in Tasks : Said(t)' <=> Said(t)
    BY <1>1 DEF Said
  <2>6. ~Done(e.task) /\ ~Said(e.task)
    BY <2>1, <2>2 DEF RecordsInv, Done, MayReport, Holds
  <2>7. ASSUME NEW x \in late', x.kind = "result"
        PROVE  x.job \in outbox' \/ ~MayReport(x.job)' \/ Untracked(x.job)'
    <3>1. x \in late /\ x.job \in held
      BY <1>1, <2>7 DEF SeedInv, LoopInv, Mine
    <3>2. Untracked(x.job) => Untracked(x.job)'
      BY <1>1 DEF Untracked, Busy
    <3>3. CASE x.job \in outbox
      BY <1>1, <3>3
    <3>4. CASE ~MayReport(x.job)
      <4>1. \A t \in Tasks : Moves(task[t], task'[t]) \/ Completes(task[t], task'[t])
        BY <2>1 DEF OneCompleted
      <4> QED
        BY <3>1, <3>4, <4>1, DeadStaysDead
    <3> QED
      BY <2>7, <3>1, <3>2, <3>3, <3>4 DEF RecordsInv
  <2>8. ASSUME Busy', Done(job.task)'
        PROVE  Repeated(job)'
    <3>1. Busy /\ job' = job /\ job.task # e.task /\ job.task \in Tasks
      BY <1>1, <2>2, <2>8 DEF Busy, Untracked
    <3>2. Done(job.task) /\ task'[job.task] = task[job.task]
      BY <2>4, <2>8, <3>1 DEF Done
    <3>3. Repeated(job)
      BY <3>1, <3>2 DEF RecordsInv
    <3> QED
      BY <3>1, <3>2, <3>3 DEF Repeated
  <2>9. \A t \in Tasks : Said(t)' => Done(t)'
    BY <2>4, <2>5, <2>6 DEF RecordsInv
  <2>10. ASSUME NEW f \in outbox', Done(f.task)'
         PROVE  Repeated(f)'
    <3>1. CASE f = e
      BY <2>3, <3>1
    <3>2. CASE f # e
      <4>1. f \in outbox /\ f.task \in Tasks /\ f.task # e.task
        BY <1>1, <2>2, <2>10, <3>2 DEF Untracked
      <4>2. Done(f.task) /\ task'[f.task] = task[f.task]
        BY <2>4, <2>10, <4>1
      <4> QED
        BY <4>1, <4>2 DEF RecordsInv, Repeated
    <3> QED
      BY <3>1, <3>2
  <2>11. ASSUME NEW t \in Tasks, Done(t)'
         PROVE  Said(t)' \/ answers'[t] = "aborted" \/ \E f \in outbox' : Repeated(f)' /\ f.task = t
    <3>1. CASE t = e.task
      BY <1>1, <2>2, <2>3, <3>1 DEF Untracked
    <3>2. CASE t # e.task
      <4>1. Done(t) /\ task'[t] = task[t]
        BY <2>4, <2>11, <3>2
      <4> QED
        BY <1>1, <2>5, <4>1 DEF RecordsInv, Repeated
    <3> QED
      BY <3>1, <3>2
  <2> HIDE DEF e
  <2> QED
    BY <2>7, <2>8, <2>9, <2>10, <2>11 DEF RecordsInv
<1>5. UNCHANGED vars => NoneCompleted
  BY UnchangedMoves
<1>6. Granted \/ NotGranted => NoneCompleted
  BY ClaimingMoves
<1>7. r.kind # "claim" /\ (Renew(r.job) \/ Abandon(r.job) \/ Reject(r.job)) => NoneCompleted
  BY <1>2, RenewMoves, AbandonMoves, RejectMoves
<1> QED
  BY <1>3, <1>4, <1>5, <1>6, <1>7 DEF Arrive

(* Results of other nodes complete tasks in their own name.                *)
LEMMA ElsewhereRecords ==
  ASSUME SeedInv, RecordsInv, Elsewhere
  PROVE  RecordsInv'
<1>1. UNCHANGED <<outbox, answers, pc, job, late>>
  BY DEF Elsewhere, seedVars
<1>2. RowsInv
  BY DEF SeedInv
<1>3. ASSUME NEW e \in held, e.node # Seed, Accepted(e)
      PROVE  \A t \in Tasks : \/ Moves(task[t], task'[t])
                              \/ Completes(task[t], task'[t]) /\ ~Done(t)'
  <2>1. OneCompleted(e) /\ MayReport(e)
    BY <1>2, <1>3, AcceptedMoves
  <2> QED
    BY <1>3, <2>1 DEF OneCompleted, Completes, SameLease, Done, MayReport, Holds
<1>4. ASSUME NEW e \in held, Renew(e) \/ Abandon(e) \/ Reject(e)
      PROVE  NoneCompleted
  BY <1>2, <1>4, RenewMoves, AbandonMoves, RejectMoves
<1>5. Enqueue \/ Stats => NoneCompleted
  BY <1>2, EnqueueMoves, StatsMoves
<1>6. ASSUME NEW n \in Nodes, Claim(n)
      PROVE  NoneCompleted
  BY <1>6, ClaimMoves, SweepOnlyMoves DEF Claim
<1>7. \A t \in Tasks : \/ Moves(task[t], task'[t])
                       \/ Completes(task[t], task'[t]) /\ ~Done(t)'
  BY <1>3, <1>4, <1>5, <1>6 DEF Elsewhere, Respond, Accepted, NoneCompleted
<1> QED
  BY <1>1, <1>7, QuietRecords DEF Busy

LEMMA RecordsStep ==
  ASSUME SeedInv, RecordsInv, [SeedNext]_allVars
  PROVE  RecordsInv'
<1> DEFINE Quiet == /\ NoneCompleted
                    /\ UNCHANGED <<outbox, answers>>
                    /\ Busy' => Busy /\ job' = job
                    /\ \A r \in late' : r \in late \/ r.kind # "result" \/ r.job \in outbox
<1>1. Quiet => RecordsInv'
  BY QuietRecords DEF NoneCompleted
<1>2. \A k, e : Request(k, e).kind = k /\ Request(k, e).job = e
  BY DEF Request
<1>3. CASE Launch \/ Register \/ Reload \/ Flushed \/ Begin \/ Fail \/ SetPolicy \/ Kill
  BY <1>1, <1>3, UnchangedMoves
  DEF Launch, Register, Reload, Flushed, Begin, Fail, SetPolicy, Kill, disk, Busy
<1>4. CASE ClaimsNothing
  BY <1>1, <1>4, ClaimingMoves DEF ClaimsNothing, disk, Busy
<1>5. CASE ClaimFails
  BY <1>1, <1>5, UnchangedMoves DEF ClaimFails, Lost, Claim1, disk, Busy
<1>6. ASSUME NEW e \in outbox, DeliverFails(e)
      PROVE  RecordsInv'
  BY <1>1, <1>2, <1>6, UnchangedMoves DEF DeliverFails, Lost, disk, Busy
<1>7. CASE RenewJob
  <2>1. /\ pc = "work"
        /\ \/ Renew(job) /\ UNCHANGED late
           \/ UNCHANGED vars /\ UNCHANGED late
           \/ Lost(Request("renew", job))
        /\ UNCHANGED <<disk, policy, offered, pc, job>>
    BY <1>7 DEF RenewJob
  <2>2. job \in held /\ RowsInv
    BY <2>1 DEF SeedInv, LoopInv, Busy, Mine
  <2>3. NoneCompleted
    BY <2>1, <2>2, RenewMoves, UnchangedMoves DEF Lost
  <2> QED
    BY <1>1, <1>2, <2>1, <2>3 DEF Lost, disk, Busy
<1>8. CASE Cancel
  <2>1. job \in held /\ RowsInv
    BY <1>8 DEF Cancel, SeedInv, LoopInv, Busy, Mine
  <2>2. NoneCompleted
    BY <1>8, <2>1, AbandonMoves, UnchangedMoves DEF Cancel, GiveBack, Lost
  <2> QED
    BY <1>1, <1>2, <1>8, <2>2 DEF Cancel, GiveBack, Lost, disk, Busy
<1>9. CASE TimePasses
  BY <1>1, <1>9, TickMoves DEF TimePasses, SeedInv, Busy
<1>10. CASE UNCHANGED allVars
  BY <1>1, <1>10, UnchangedMoves DEF allVars, seedVars, Busy
<1> HIDE DEF Quiet
<1> QED
  BY <1>3, <1>4, <1>5, <1>6, <1>7, <1>8, <1>9, <1>10, DeliverRecords, ClaimsRecords,
     FinishRecords, ArriveRecords, ElsewhereRecords DEF SeedNext

(* Lost requests, lost answers, late arrivals, repeated deliveries and kills *)
(* leave the seed's receipts and the coordinator's table in agreement.     *)
THEOREM ReceiptsAgree == SeedSpec => []RecordsAgree
<1>1. SeedInit => RecordsInv
  BY DEF SeedInit, Init, Absent, Unleased, RecordsInv, Done, Said, Busy
<1>2. SeedInv /\ RecordsInv /\ [SeedNext]_allVars => RecordsInv'
  BY RecordsStep
<1>3. RecordsInv => RecordsAgree
  BY DEF RecordsInv, RecordsAgree, Done, Said
<1> QED
  BY <1>1, <1>2, <1>3, SeedInvariant, PTL DEF SeedSpec
=============================================================================
