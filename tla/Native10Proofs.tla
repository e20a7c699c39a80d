--------------------------- MODULE Native10Proofs ---------------------------
(***************************************************************************)
(* Theorems about the rounds of Native10Round with the kills of            *)
(* Native10Crash, for every value of the constants: the evidence behind a  *)
(* promotion is complete and independent, the strongest candidate is       *)
(* selected, the final holdout judges one candidate of a round, and as     *)
(* long as nothing was killed no round hangs and each promotion pays the   *)
(* work it rests on.                                                       *)
(*                                                                         *)
(* A handler completes its task, changes candidates and then may select,   *)
(* close or promote.  So each part of the invariant is stated of any table *)
(* of tasks T, of reports R, of candidates C and of any round r, and the   *)
(* handlers compose lemmas about those steps.                              *)
(***************************************************************************)
EXTENDS Native10Crash, FiniteSetTheorems, TLAPS

Deltas   == [base : Seq(Kinds), kind : Kinds]
TaskSet  == [stage : {"search", "verify", "replay", "replicate"}, round : Nat,
             delta : Deltas \cup {NoDelta}, slot : Nat]
Row      == [status : {"queued", "assigned", "completed", "failed"},
             holder : Nodes \cup {NoNode}, excluded : SUBSET Nodes, attempts : Int]
StampSet == [node : Nodes, task : TaskSet]
Statuses == Evaluated \cup Selected \cup
            {"global-verification", "replicated", "replication-failed", "promoted"}
Records == [round : Nat, status : Statuses, trainers : SUBSET StampSet, source : TaskSet,
             verifiers : SUBSET StampSet, replay : SUBSET StampSet,
             replicators : SUBSET StampSet, score : Int]
RoundSet == [id : Nat, base : Seq(Kinds),
             status : {"independent-search", "blind-global-verification"},
             candidates : SUBSET Deltas]
Promotions == [delta : Deltas, before : Seq(Kinds), after : Seq(Kinds), evidence : Records]

Ent(r) == IF r = NoRound THEN {} ELSE r.candidates

(***************************************************************************)
(* The queue.  An identity holds one lease, is not excluded from it and    *)
(* new to its work; whoever reported completed the task, and reported once *)
(* on the work.                                                            *)
(***************************************************************************)
Named(t) ==
  \/ t.stage = "search" /\ t.slot \in Slots /\ t = SearchTask(t.round, t.slot)
  \/ t.stage = "verify" /\ t.delta \in Deltas /\ t = VerifyTask(t.delta, t.slot)
  \/ t.stage = "replay" /\ t.delta \in Deltas /\ t = ReplayTask(t.delta)
  \/ t.stage = "replicate" /\ t.delta \in Deltas /\ t = ReplicateTask(t.delta, t.slot)

ReportOK(r) ==
  /\ r.task \in TaskSet /\ r.node \in Nodes
  /\ r.task.stage = "search" => r.value \in Kinds
  /\ r.task.stage # "replay"

Leased(T) == {t \in DOMAIN T : T[t].status = "assigned"}

QueueOK(T, R) ==
  /\ \A t \in DOMAIN T : t \in TaskSet /\ T[t] \in Row /\ Named(t)
  /\ \A t, u \in Leased(T) : T[t].holder = T[u].holder => t = u
  /\ \A t \in Leased(T) : T[t].holder \in Nodes \ T[t].excluded
  /\ \A t \in Leased(T), r \in R : r.node = T[t].holder => ~SameWork(r.task, t)
  /\ \A r \in R : ReportOK(r) /\ r.task \in DOMAIN T /\ T[r.task].status = "completed"
  /\ IsFiniteSet(R)

OneReport(R) ==
  \A r, s \in R : \/ r.task = s.task
                  \/ r.node = s.node /\ SameWork(r.task, s.task)
                  => r = s

(***************************************************************************)
(* Evidence, as long as the store remembers its candidates.                *)
(***************************************************************************)
Earned(c) ==
  /\ c.score > 0
  /\ Cardinality(NodesOf(c.verifiers)) >= Quorum
  /\ NodesOf(c.trainers) \cap NodesOf(c.verifiers) = {}

Audited(c) == \E s \in c.replay : c.replay = {s}

EvidenceOK(T, R, C) ==
  /\ \A t \in DOMAIN T : t.stage # "search" => t.delta \in DOMAIN C
  /\ \A t \in DOMAIN T : t.stage = "replay" =>
       /\ C[t.delta].status # "global-verification"
       /\ Earned(C[t.delta])
       /\ NodesOf(C[t.delta].trainers) \subseteq T[t].excluded
  /\ \A t \in DOMAIN T : t.stage = "replicate" =>
       /\ ReplayTask(t.delta) \in DOMAIN T
       /\ T[ReplayTask(t.delta)].status = "completed"
       /\ Audited(C[t.delta])
  /\ \A r \in R : r.task.stage = "verify" =>
       r.node \notin NodesOf(C[r.task.delta].trainers)
  /\ \A r \in R : r.task.stage = "replicate" => r.node \notin Barred(C[r.task.delta])
  /\ \A d \in DOMAIN C : C[d].status = "accepted" => Earned(C[d])
  /\ \A d \in DOMAIN C : NodesOf(C[d].replay) \cap NodesOf(C[d].trainers) = {}

(* What the record of a promoted candidate shows.                          *)
Proven(c) ==
  /\ Earned(c)
  /\ Audited(c)
  /\ NodesOf(c.replay) \cap NodesOf(c.trainers) = {}
  /\ NodesOf(c.replicators) \cap Barred(c) = {}
  /\ Cardinality(NodesOf(c.replicators)) >= Quorum

(***************************************************************************)
(* The invariant.                                                          *)
(***************************************************************************)
RecordsOK(C, b) ==
  \A d \in DOMAIN C : d \in Deltas /\ C[d] \in Records /\ C[d].round \in 1..b

RoundOK(r, b) ==
  r # NoRound => /\ r \in RoundSet /\ r.id \in 1..b
                 /\ r.status = "independent-search" => r.candidates = {}

RestOK ==
  /\ checkpoint \in Seq(Kinds)
  /\ contributions \in Seq(Promotions)
  /\ begun \in Nat /\ forgotten \in 0..begun /\ crashes \in Nat
  /\ begun = 0 => DOMAIN task = {}
  /\ \A t \in DOMAIN task : t.stage = "search" => t.round \in 1..begun

Inv ==
  /\ QueueOK(task, reports) /\ OneReport(reports)
  /\ RecordsOK(candidate, begun) /\ RoundOK(round, begun) /\ RestOK
  /\ Entrants \subseteq DOMAIN candidate
  /\ forgotten = 0 => /\ EvidenceOK(task, reports, candidate)
                      /\ \A c \in Promoted : Proven(c)
-----------------------------------------------------------------------------
(***************************************************************************)
(* The queue.                                                              *)
(***************************************************************************)
LEMMA Constants ==
  /\ Candidates \in Nat /\ Candidates >= 2 /\ Quorum \in Nat /\ Quorum >= 2
  /\ MaxAttempts \in Nat
  /\ \A k \in Kinds : Evidence["verify"][k] \subseteq Int /\ Evidence["replicate"][k] \subseteq Int
  /\ \A s \in Slots : Trained[s] \subseteq Kinds
BY RoundAssumption

LEMMA WorkFields ==
  ASSUME NEW t \in TaskSet, NEW u \in TaskSet
  PROVE  SameWork(t, u) <=> t.stage = u.stage /\ t.round = u.round /\ t.delta = u.delta
BY DEF SameWork, TaskSet

LEMMA TaskNames ==
  /\ \A r \in Nat, s \in Nat : SearchTask(r, s) \in TaskSet /\ SearchTask(r, s).stage = "search"
  /\ \A d \in Deltas, s \in Nat :
       /\ VerifyTask(d, s) \in TaskSet /\ VerifyTask(d, s).stage = "verify"
       /\ VerifyTask(d, s).delta = d
       /\ ReplicateTask(d, s) \in TaskSet /\ ReplicateTask(d, s).stage = "replicate"
       /\ ReplicateTask(d, s).delta = d
  /\ \A d \in Deltas : /\ ReplayTask(d) \in TaskSet /\ ReplayTask(d).stage = "replay"
                       /\ ReplayTask(d).delta = d
BY DEF SearchTask, VerifyTask, ReplicateTask, ReplayTask, TaskSet

(* U has the rows of T and queued ones besides.                            *)
Grows(T, U) ==
  /\ DOMAIN T \subseteq DOMAIN U
  /\ \A t \in DOMAIN T : U[t] = T[t]
  /\ \A t \in DOMAIN U \ DOMAIN T :
       t \in TaskSet /\ Named(t) /\ U[t] \in Row /\ U[t].status = "queued"

LEMMA GrowsOK ==
  ASSUME NEW T, NEW U, NEW R, QueueOK(T, R), Grows(T, U)
  PROVE  QueueOK(U, R)
<1>1. Leased(U) = Leased(T)
  BY DEF Grows, Leased
<1>2. \A t \in Leased(T) : U[t] = T[t]
  BY DEF Grows, Leased
<1>3. \A t \in DOMAIN U : t \in TaskSet /\ U[t] \in Row /\ Named(t)
  BY DEF Grows, QueueOK
<1>4. \A r \in R : ReportOK(r) /\ r.task \in DOMAIN U /\ U[r.task].status = "completed"
  BY DEF Grows, QueueOK
<1> QED
  BY <1>1, <1>2, <1>3, <1>4 DEF QueueOK

LEMMA AddGrows ==
  ASSUME NEW T, NEW S, NEW X \in SUBSET Nodes, \A t \in S : t \in TaskSet /\ Named(t)
  PROVE  Grows(T, AddTasks(T, S, X))
BY DEF Grows, AddTasks, Queued, Row

(* A row of T gets another status, and no report about it exists.          *)
LEMMA RequeuedOK ==
  ASSUME QueueOK(task, reports), NEW t \in LeasedTasks, NEW row \in Row,
         row.status \in {"queued", "failed"}
  PROVE  QueueOK([task EXCEPT ![t] = row], reports)
<1> DEFINE U == [task EXCEPT ![t] = row]
<1>1. t \in DOMAIN task /\ task[t].status = "assigned"
  BY DEF LeasedTasks
<1>2. DOMAIN U = DOMAIN task /\ U[t] = row /\ \A u \in DOMAIN task \ {t} : U[u] = task[u]
  BY <1>1
<1> HIDE DEF U
<1>3. Leased(U) = Leased(task) \ {t}
  BY <1>1, <1>2 DEF Leased
<1>4. \A r \in reports : r.task # t
  BY <1>1 DEF QueueOK
<1>5. \A u \in Leased(U) : U[u] = task[u]
  BY <1>2, <1>3 DEF Leased
<1>6. \A u \in DOMAIN U : u \in TaskSet /\ U[u] \in Row /\ Named(u)
  BY <1>2 DEF QueueOK
<1>7. \A r \in reports : ReportOK(r) /\ r.task \in DOMAIN U /\ U[r.task].status = "completed"
  BY <1>2, <1>4 DEF QueueOK
<1>8. QueueOK(U, reports)
  BY <1>3, <1>5, <1>6, <1>7 DEF QueueOK
<1> QED
  BY <1>8 DEF U

LEMMA LeasedFacts ==
  ASSUME QueueOK(task, reports), NEW t \in LeasedTasks
  PROVE  /\ t \in DOMAIN task /\ t \in TaskSet /\ Named(t)
         /\ task[t] \in Row /\ task[t].status = "assigned"
         /\ task[t].holder \in Nodes /\ task[t].holder \notin task[t].excluded
         /\ t \in Leased(task)
         /\ \A r \in reports : r.task # t
         /\ \A r \in reports : r.node = task[t].holder => ~SameWork(r.task, t)
BY DEF LeasedTasks, Leased, QueueOK

LEMMA CompletedRows ==
  ASSUME QueueOK(task, reports), NEW t \in LeasedTasks
  PROVE  /\ DOMAIN Completed(t) = DOMAIN task
         /\ \A u \in DOMAIN task \ {t} : Completed(t)[u] = task[u]
         /\ Completed(t)[t] \in Row /\ Completed(t)[t].status = "completed"
         /\ \A u \in DOMAIN task : Completed(t)[u].excluded = task[u].excluded
         /\ Leased(Completed(t)) = Leased(task) \ {t}
<1>1. t \in DOMAIN task /\ task[t] \in Row
  BY LeasedFacts
<1>2. DOMAIN Completed(t) = DOMAIN task
  BY DEF Completed
<1>3. \A u \in DOMAIN task \ {t} : Completed(t)[u] = task[u]
  BY DEF Completed
<1>4. Completed(t)[t] = [task[t] EXCEPT !.status = "completed"]
  BY <1>1 DEF Completed
<1>5. /\ Completed(t)[t] \in Row /\ Completed(t)[t].status = "completed"
      /\ Completed(t)[t].excluded = task[t].excluded
  BY <1>1, <1>4 DEF Row
<1>6. Leased(Completed(t)) = Leased(task) \ {t}
  BY <1>2, <1>3, <1>5 DEF Leased
<1> QED
  BY <1>2, <1>3, <1>5, <1>6

LEMMA CompletedOK ==
  ASSUME QueueOK(task, reports), NEW t \in LeasedTasks
  PROVE  QueueOK(Completed(t), reports)
<1> DEFINE U == Completed(t)
<1>1. \A u \in DOMAIN U : u \in TaskSet /\ U[u] \in Row /\ Named(u)
  BY CompletedRows DEF QueueOK
<1>2. \A u \in Leased(U) : u \in Leased(task) /\ U[u] = task[u]
  BY CompletedRows DEF Leased
<1>3. \A r \in reports : ReportOK(r) /\ r.task \in DOMAIN U /\ U[r.task].status = "completed"
  BY CompletedRows, LeasedFacts DEF QueueOK
<1> HIDE DEF U
<1>4. QueueOK(U, reports)
  BY <1>1, <1>2, <1>3 DEF QueueOK
<1> QED
  BY <1>4 DEF U

LEMMA RecordFacts ==
  ASSUME QueueOK(task, reports), OneReport(reports), NEW t \in LeasedTasks, NEW v,
         t.stage # "replay", t.stage = "search" => v \in Kinds
  PROVE  /\ \A r \in Record(t, v) : r \in reports \/ (r.task = t /\ r.node = task[t].holder)
         /\ \A r \in Record(t, v) : ReportOK(r)
         /\ reports \subseteq Record(t, v)
         /\ OneReport(Record(t, v))
         /\ IsFiniteSet(Record(t, v))
<1> DEFINE new == [task |-> t, node |-> task[t].holder, value |-> v]
<1>1. Record(t, v) = reports \cup {new}
  BY DEF Record
<1>2. new.task = t /\ new.node = task[t].holder /\ new.value = v
  OBVIOUS
<1> HIDE DEF new
<1>3. ReportOK(new)
  BY <1>2, LeasedFacts DEF ReportOK
<1>4. \A r \in reports : ReportOK(r) /\ r.task # t
  BY LeasedFacts DEF QueueOK
<1>5. \A r \in reports : r.node = new.node => ~SameWork(r.task, t) /\ ~SameWork(t, r.task)
  BY <1>2, LeasedFacts DEF SameWork
<1>6. OneReport(Record(t, v))
  BY <1>1, <1>2, <1>4, <1>5 DEF OneReport
<1>7. IsFiniteSet(Record(t, v))
  BY <1>1, FS_AddElement DEF QueueOK
<1> QED
  BY <1>1, <1>2, <1>3, <1>4, <1>6, <1>7

LEMMA RecordedOK ==
  ASSUME QueueOK(task, reports), OneReport(reports), NEW t \in LeasedTasks, NEW v,
         t.stage # "replay", t.stage = "search" => v \in Kinds
  PROVE  QueueOK(Completed(t), Record(t, v))
<1> DEFINE U == Completed(t)
           R == Record(t, v)
<1>1. \A u \in DOMAIN U : u \in TaskSet /\ U[u] \in Row /\ Named(u)
  BY CompletedRows DEF QueueOK
<1>2. \A u \in Leased(U) : u \in Leased(task) /\ U[u] = task[u] /\ u # t
  BY CompletedRows DEF Leased
<1>3. \A r \in R : ReportOK(r) /\ r.task \in DOMAIN U /\ U[r.task].status = "completed"
  <2>1. \A r \in R : r \in reports \/ r.task = t
    BY RecordFacts
  <2>2. \A r \in reports : r.task \in DOMAIN task \ {t} /\ task[r.task].status = "completed"
    BY LeasedFacts DEF QueueOK
  <2>3. \A r \in reports : r.task \in DOMAIN U /\ U[r.task].status = "completed"
    BY <2>2, CompletedRows
  <2>4. t \in DOMAIN U /\ U[t].status = "completed"
    BY LeasedFacts, CompletedRows
  <2>5. \A r \in R : ReportOK(r)
    BY RecordFacts
  <2> QED
    BY <2>1, <2>3, <2>4, <2>5
<1>4. \A u \in Leased(U), r \in R : r.node = U[u].holder => ~SameWork(r.task, u)
  <2> SUFFICES ASSUME NEW u \in Leased(U), NEW r \in R, r.node = U[u].holder
               PROVE  ~SameWork(r.task, u)
    OBVIOUS
  <2>1. u \in Leased(task) /\ U[u] = task[u] /\ u # t
    BY <1>2
  <2>2. task[u].holder # task[t].holder
    BY <2>1, LeasedFacts DEF QueueOK
  <2>3. r \in reports
    BY <2>1, <2>2, RecordFacts
  <2> QED
    BY <2>1, <2>3 DEF QueueOK
<1>5. IsFiniteSet(R)
  BY RecordFacts
<1>6. \A u, w \in Leased(U) : U[u].holder = U[w].holder => u = w
  BY <1>2 DEF QueueOK
<1>7. \A u \in Leased(U) : U[u].holder \in Nodes \ U[u].excluded
  BY <1>2 DEF QueueOK
<1> HIDE DEF U, R
<1>8. QueueOK(U, R)
  BY <1>1, <1>3, <1>4, <1>5, <1>6, <1>7 DEF QueueOK
<1> QED
  BY <1>8 DEF U, R

LEMMA ClaimedOK ==
  ASSUME QueueOK(task, reports), NEW n \in Nodes, NEW t, Claim(n, t)
  PROVE  /\ QueueOK(task', reports)
         /\ DOMAIN task' = DOMAIN task
         /\ \A u \in DOMAIN task : /\ task'[u].excluded = task[u].excluded
                                   /\ task'[u].status = "completed" <=> task[u].status = "completed"
<1>1. t \in DOMAIN task /\ task[t].status = "queued" /\ n \notin task[t].excluded /\ ~AlreadyOn(n, t)
  BY DEF Claim
<1>2. task[t] \in Row
  BY <1>1 DEF QueueOK
<1>3. /\ DOMAIN task' = DOMAIN task
      /\ \A u \in DOMAIN task \ {t} : task'[u] = task[u]
      /\ task'[t] = [task[t] EXCEPT !.status = "assigned", !.holder = n, !.attempts = @ + 1]
  BY <1>1 DEF Claim
<1>4. /\ task'[t] \in Row /\ task'[t].status = "assigned" /\ task'[t].holder = n
      /\ task'[t].excluded = task[t].excluded
  <2>1. task'[t] = [status |-> "assigned", holder |-> n, excluded |-> task[t].excluded,
                    attempts |-> task[t].attempts + 1]
    BY <1>2, <1>3 DEF Row
  <2> QED
    BY <1>2, <2>1 DEF Row
<1>5. Leased(task') = Leased(task) \cup {t}
  BY <1>1, <1>3, <1>4 DEF Leased
<1>6. \A u \in Leased(task) : u # t /\ task'[u] = task[u] /\ task[u].holder # n
  BY <1>1, <1>3 DEF Leased, AlreadyOn, LeasedTasks
<1>7. \A r \in reports : r.node = n => ~SameWork(r.task, t)
  BY <1>1 DEF AlreadyOn
<1>8. \A u \in DOMAIN task' : u \in TaskSet /\ task'[u] \in Row /\ Named(u)
  BY <1>3, <1>4 DEF QueueOK
<1>9. \A r \in reports : ReportOK(r) /\ r.task \in DOMAIN task' /\ task'[r.task].status = "completed"
  BY <1>1, <1>3 DEF QueueOK
<1>10. QueueOK(task', reports)
  <2>1. \A u, w \in Leased(task') : task'[u].holder = task'[w].holder => u = w
    BY <1>4, <1>5, <1>6 DEF QueueOK
  <2>2. \A u \in Leased(task') : task'[u].holder \in Nodes \ task'[u].excluded
    BY <1>1, <1>4, <1>5, <1>6 DEF QueueOK
  <2>3. \A u \in Leased(task'), r \in reports : r.node = task'[u].holder => ~SameWork(r.task, u)
    BY <1>4, <1>5, <1>6, <1>7 DEF QueueOK
  <2>4. IsFiniteSet(reports)
    BY DEF QueueOK
  <2> QED
    BY <1>8, <1>9, <2>1, <2>2, <2>3, <2>4 DEF QueueOK
<1> QED
  BY <1>1, <1>3, <1>4, <1>10

(* Different nodes stand behind the reports of a consensus.                *)
LEMMA QuorumNodes ==
  ASSUME NEW R, IsFiniteSet(R), OneReport(R), \A r \in R : ReportOK(r),
         NEW t \in TaskSet, NEW v, Consensus(R, t, v)
  PROVE  /\ Cardinality(NodesOf(Stamps(Agreeing(R, t, v)))) >= Quorum
         /\ NodesOf(Stamps(Agreeing(R, t, v))) = {r.node : r \in Agreeing(R, t, v)}
         /\ Stamps(Agreeing(R, t, v)) \subseteq StampSet
<1> DEFINE A == Agreeing(R, t, v)
           N == NodesOf(Stamps(A))
           f == [r \in A |-> r.node]
<1>1. A \subseteq R /\ \A r \in A : SameWork(r.task, t) /\ ReportOK(r)
  BY DEF Agreeing, ReportsOn
<1>2. IsFiniteSet(A)
  BY <1>1, FS_Subset
<1>3. N = {r.node : r \in A}
  <2>1. \A r \in A : r.node \in N
    <3> TAKE r \in A
    <3>1. Stamp(r.node, r.task) \in Stamps(A)
      BY DEF Stamps
    <3> QED
      BY <3>1 DEF NodesOf, Stamp
  <2>2. \A n \in N : \E r \in A : n = r.node
    <3> TAKE n \in N
    <3>1. PICK s \in Stamps(A) : n = s.node
      BY DEF NodesOf
    <3>2. PICK r \in A : s = Stamp(r.node, r.task)
      BY DEF Stamps
    <3> QED
      BY <3>1, <3>2 DEF Stamp
  <2> QED
    BY <2>1, <2>2
<1>4. Stamps(A) \subseteq StampSet
  BY <1>1 DEF Stamps, Stamp, StampSet, ReportOK
<1>5. Cardinality(A) >= Quorum
  BY DEF Consensus
<1>6. \A r, s \in A : r.node = s.node => r = s
  BY <1>1 DEF OneReport, SameWork
<1>7. f \in Bijection(A, N)
  BY <1>3, <1>6 DEF Bijection, Injection, Surjection, IsInjective
<1> HIDE DEF A, N, f
<1>8. Cardinality(A) = Cardinality(N)
  BY <1>2, <1>7, FS_Bijection DEF ExistsBijection
<1> QED
  BY <1>3, <1>4, <1>5, <1>8 DEF A, N
-----------------------------------------------------------------------------
(***************************************************************************)
(* Evidence: one lemma for each kind of step.                              *)
(***************************************************************************)
(* Candidates get another status, none of them one that promises evidence.  *)
SameRecord(c, e) ==
  /\ e.trainers = c.trainers /\ e.verifiers = c.verifiers /\ e.replay = c.replay
  /\ e.score = c.score /\ e.round = c.round

Restated(C, D) ==
  /\ DOMAIN D = DOMAIN C
  /\ \A d \in DOMAIN C :
       /\ SameRecord(C[d], D[d])
       /\ D[d].status = "global-verification" => C[d].status = "global-verification"
       /\ D[d].status = "accepted" => C[d].status = "accepted"

LEMMA SameEvidence ==
  ASSUME NEW c, NEW e, SameRecord(c, e)
  PROVE  /\ Earned(c) <=> Earned(e)
         /\ Audited(c) <=> Audited(e)
         /\ Barred(c) = Barred(e)
BY DEF SameRecord, Earned, Audited, Barred

LEMMA RestatedEvidence ==
  ASSUME NEW T, NEW R, NEW C, NEW D, QueueOK(T, R), EvidenceOK(T, R, C), Restated(C, D)
  PROVE  EvidenceOK(T, R, D)
<1>1. \A d \in DOMAIN C : /\ Earned(C[d]) <=> Earned(D[d])
                          /\ Audited(C[d]) <=> Audited(D[d])
                          /\ Barred(C[d]) = Barred(D[d])
                          /\ C[d].trainers = D[d].trainers /\ C[d].replay = D[d].replay
  BY SameEvidence DEF Restated, SameRecord
<1>2. \A t \in DOMAIN T : t.stage # "search" => t.delta \in DOMAIN D
  BY DEF EvidenceOK, Restated
<1>3. \A t \in DOMAIN T : t.stage = "replay" =>
        /\ D[t.delta].status # "global-verification"
        /\ Earned(D[t.delta])
        /\ NodesOf(D[t.delta].trainers) \subseteq T[t].excluded
  BY <1>1 DEF EvidenceOK, Restated
<1>4. \A t \in DOMAIN T : t.stage = "replicate" =>
        /\ ReplayTask(t.delta) \in DOMAIN T
        /\ T[ReplayTask(t.delta)].status = "completed"
        /\ Audited(D[t.delta])
  BY <1>1 DEF EvidenceOK
<1>5. \A r \in R : r.task \in DOMAIN T
  BY DEF QueueOK
<1>6. \A r \in R : r.task.stage = "verify" => r.node \notin NodesOf(D[r.task.delta].trainers)
  BY <1>1, <1>5 DEF EvidenceOK
<1>7. \A r \in R : r.task.stage = "replicate" => r.node \notin Barred(D[r.task.delta])
  BY <1>1, <1>5 DEF EvidenceOK
<1>8. \A d \in DOMAIN D : D[d].status = "accepted" => Earned(D[d])
  BY <1>1 DEF EvidenceOK, Restated
<1>9. \A d \in DOMAIN D : NodesOf(D[d].replay) \cap NodesOf(D[d].trainers) = {}
  BY <1>1 DEF EvidenceOK, Restated
<1> QED
  BY <1>2, <1>3, <1>4, <1>6, <1>7, <1>8, <1>9 DEF EvidenceOK

(* One candidate gets another record, whose trainers are the same.          *)
LEMMA OneRecordEvidence ==
  ASSUME NEW T, NEW R, NEW C, NEW D, NEW d \in DOMAIN C,
         QueueOK(T, R), EvidenceOK(T, R, C),
         DOMAIN D = DOMAIN C, \A e \in DOMAIN C \ {d} : D[e] = C[e],
         D[d].trainers = C[d].trainers,
         NodesOf(D[d].replay) \cap NodesOf(D[d].trainers) = {},
         D[d].status = "accepted" => Earned(D[d]),
         \A t \in DOMAIN T : t.stage = "replay" /\ t.delta = d =>
           D[d].status # "global-verification" /\ Earned(D[d]),
         \A t \in DOMAIN T : t.stage = "replicate" => t.delta # d
  PROVE  EvidenceOK(T, R, D)
<1>1. \A t \in DOMAIN T : t.stage # "search" => t.delta \in DOMAIN D
  BY DEF EvidenceOK
<1>2. \A t \in DOMAIN T : t.stage = "replay" =>
        /\ D[t.delta].status # "global-verification"
        /\ Earned(D[t.delta])
        /\ NodesOf(D[t.delta].trainers) \subseteq T[t].excluded
  BY DEF EvidenceOK
<1>3. \A t \in DOMAIN T : t.stage = "replicate" =>
        /\ ReplayTask(t.delta) \in DOMAIN T
        /\ T[ReplayTask(t.delta)].status = "completed"
        /\ Audited(D[t.delta])
  BY DEF EvidenceOK
<1>4. \A r \in R : r.task \in DOMAIN T
  BY DEF QueueOK
<1>5. \A r \in R : r.task.stage = "verify" => r.node \notin NodesOf(D[r.task.delta].trainers)
  BY <1>4 DEF EvidenceOK
<1>6. \A r \in R : r.task.stage = "replicate" => r.node \notin Barred(D[r.task.delta])
  BY <1>4 DEF EvidenceOK
<1>7. \A e \in DOMAIN D : D[e].status = "accepted" => Earned(D[e])
  BY DEF EvidenceOK
<1>8. \A e \in DOMAIN D : NodesOf(D[e].replay) \cap NodesOf(D[e].trainers) = {}
  BY DEF EvidenceOK
<1> QED
  BY <1>1, <1>2, <1>3, <1>5, <1>6, <1>7, <1>8 DEF EvidenceOK

(* New candidates wait for their verification.                             *)
Enters(C, D) ==
  /\ DOMAIN C \subseteq DOMAIN D
  /\ \A d \in DOMAIN C : D[d] = C[d]
  /\ \A d \in DOMAIN D \ DOMAIN C : D[d].status = "global-verification" /\ D[d].replay = {}

LEMMA EntersEvidence ==
  ASSUME NEW T, NEW R, NEW C, NEW D, QueueOK(T, R), EvidenceOK(T, R, C), Enters(C, D)
  PROVE  EvidenceOK(T, R, D)
<1>1. \A r \in R : r.task \in DOMAIN T
  BY DEF QueueOK
<1>2. \A r \in R : r.task.stage \in {"verify", "replicate"} => r.task.delta \in DOMAIN C
  BY <1>1 DEF EvidenceOK
<1>3. \A d \in DOMAIN D : D[d].status = "accepted" => Earned(D[d])
  BY DEF EvidenceOK, Enters
<1>4. \A d \in DOMAIN D : NodesOf(D[d].replay) \cap NodesOf(D[d].trainers) = {}
  <2> TAKE d \in DOMAIN D
  <2>1. NodesOf({}) = {}
    BY DEF NodesOf
  <2>2. CASE d \in DOMAIN C
    BY <2>2 DEF EvidenceOK, Enters
  <2>3. CASE d \notin DOMAIN C
    BY <2>1, <2>3 DEF Enters
  <2> QED
    BY <2>2, <2>3
<1>5. \A t \in DOMAIN T : t.stage # "search" => t.delta \in DOMAIN D /\ D[t.delta] = C[t.delta]
  BY DEF EvidenceOK, Enters
<1>6. \A t \in DOMAIN T : t.stage = "replay" =>
        /\ D[t.delta].status # "global-verification"
        /\ Earned(D[t.delta])
        /\ NodesOf(D[t.delta].trainers) \subseteq T[t].excluded
  BY <1>5 DEF EvidenceOK
<1>7. \A t \in DOMAIN T : t.stage = "replicate" =>
        /\ ReplayTask(t.delta) \in DOMAIN T
        /\ T[ReplayTask(t.delta)].status = "completed"
        /\ Audited(D[t.delta])
  BY <1>5 DEF EvidenceOK
<1>8. \A r \in R : /\ r.task.stage = "verify" => r.node \notin NodesOf(D[r.task.delta].trainers)
                   /\ r.task.stage = "replicate" => r.node \notin Barred(D[r.task.delta])
  BY <1>2 DEF EvidenceOK, Enters
<1> QED
  BY <1>3, <1>4, <1>5, <1>6, <1>7, <1>8 DEF EvidenceOK

(* Rows change, no exclusion is forgotten and what is completed stays so.   *)
LEMMA RowsEvidence ==
  ASSUME NEW T, NEW U, NEW R, NEW C, EvidenceOK(T, R, C), DOMAIN U = DOMAIN T,
         \A t \in DOMAIN T : /\ T[t].excluded \subseteq U[t].excluded
                             /\ T[t].status = "completed" => U[t].status = "completed"
  PROVE  EvidenceOK(U, R, C)
<1>1. \A t \in DOMAIN T : t.stage = "replay" =>
        /\ C[t.delta].status # "global-verification"
        /\ Earned(C[t.delta])
        /\ NodesOf(C[t.delta].trainers) \subseteq U[t].excluded
  BY DEF EvidenceOK
<1>2. \A t \in DOMAIN T : t.stage = "replicate" =>
        /\ ReplayTask(t.delta) \in DOMAIN T
        /\ U[ReplayTask(t.delta)].status = "completed"
        /\ Audited(C[t.delta])
  BY DEF EvidenceOK
<1> QED
  BY <1>1, <1>2 DEF EvidenceOK

(* Tasks are added on a warrant.                                           *)
Warranted(T, C, t, X) ==
  /\ t.stage # "search" => t.delta \in DOMAIN C
  /\ t.stage = "replay" => /\ C[t.delta].status # "global-verification"
                           /\ Earned(C[t.delta])
                           /\ NodesOf(C[t.delta].trainers) \subseteq X
  /\ t.stage = "replicate" => /\ ReplayTask(t.delta) \in DOMAIN T
                              /\ T[ReplayTask(t.delta)].status = "completed"
                              /\ Audited(C[t.delta])

LEMMA GrowsEvidence ==
  ASSUME NEW T, NEW U, NEW R, NEW C, EvidenceOK(T, R, C), Grows(T, U),
         \A t \in DOMAIN U \ DOMAIN T : Warranted(T, C, t, U[t].excluded)
  PROVE  EvidenceOK(U, R, C)
<1>1. \A t \in DOMAIN U : t.stage # "search" => t.delta \in DOMAIN C
  BY DEF EvidenceOK, Warranted
<1>2. \A t \in DOMAIN U : t.stage = "replay" =>
        /\ C[t.delta].status # "global-verification"
        /\ Earned(C[t.delta])
        /\ NodesOf(C[t.delta].trainers) \subseteq U[t].excluded
  BY DEF EvidenceOK, Warranted, Grows
<1>3. \A t \in DOMAIN U : t.stage = "replicate" =>
        /\ ReplayTask(t.delta) \in DOMAIN U
        /\ U[ReplayTask(t.delta)].status = "completed"
        /\ Audited(C[t.delta])
  BY DEF EvidenceOK, Warranted, Grows
<1> QED
  BY <1>1, <1>2, <1>3 DEF EvidenceOK

(* A report is recorded.                                                   *)
LEMMA RecordEvidence ==
  ASSUME NEW T, NEW t, NEW v, NEW C, EvidenceOK(T, reports, C),
         t.stage = "verify" => task[t].holder \notin NodesOf(C[t.delta].trainers),
         t.stage = "replicate" => task[t].holder \notin Barred(C[t.delta])
  PROVE  EvidenceOK(T, Record(t, v), C)
<1>1. \A r \in Record(t, v) : r \in reports \/ (r.task = t /\ r.node = task[t].holder)
  BY DEF Record
<1>2. \A r \in Record(t, v) :
        /\ r.task.stage = "verify" => r.node \notin NodesOf(C[r.task.delta].trainers)
        /\ r.task.stage = "replicate" => r.node \notin Barred(C[r.task.delta])
  BY <1>1 DEF EvidenceOK
<1> QED
  BY <1>2 DEF EvidenceOK
-----------------------------------------------------------------------------
(***************************************************************************)
(* The ends of the handlers: selection, closing.                           *)
(***************************************************************************)
LEMMA WithStatusOK ==
  ASSUME NEW C, NEW b, RecordsOK(C, b), NEW d, NEW s \in Statuses \ {"global-verification", "accepted"}
  PROVE  Restated(C, WithStatus(C, d, s)) /\ RecordsOK(WithStatus(C, d, s), b)
<1> DEFINE D == WithStatus(C, d, s)
<1>1. DOMAIN D = DOMAIN C /\ \A e \in DOMAIN C \ {d} : D[e] = C[e]
  BY DEF WithStatus
<1>2. d \in DOMAIN C => D[d] = [C[d] EXCEPT !.status = s]
  BY DEF WithStatus
<1>3. d \in DOMAIN C => /\ D[d] \in Records /\ SameRecord(C[d], D[d]) /\ D[d].status = s
                        /\ D[d].round = C[d].round
  BY <1>2 DEF RecordsOK, Records, SameRecord
<1>4. \A e \in DOMAIN C : SameRecord(C[e], C[e])
  BY DEF SameRecord
<1> HIDE DEF D
<1>5. Restated(C, D) /\ RecordsOK(D, b)
  BY <1>1, <1>3, <1>4 DEF Restated, RecordsOK
<1> QED
  BY <1>5 DEF D

LEMMA CloseOK ==
  ASSUME NEW C, NEW b, RecordsOK(C, b), Close(C)
  PROVE  Restated(C, candidate') /\ RecordsOK(candidate', b) /\ round' = NoRound
<1>1. DOMAIN candidate' = DOMAIN C
  BY DEF Close
<1>2. \A d \in DOMAIN C : \/ candidate'[d] = C[d]
                          \/ candidate'[d] = [C[d] EXCEPT !.status = "rejected"]
  BY DEF Close
<1>3. \A d \in DOMAIN C : /\ candidate'[d] \in Records /\ SameRecord(C[d], candidate'[d])
                          /\ candidate'[d].status \in {C[d].status, "rejected"}
                          /\ candidate'[d].round = C[d].round
  <2> TAKE d \in DOMAIN C
  <2>1. C[d] \in Records
    BY DEF RecordsOK
  <2>2. CASE candidate'[d] = C[d]
    BY <2>1, <2>2 DEF SameRecord
  <2>3. CASE candidate'[d] = [C[d] EXCEPT !.status = "rejected"]
    BY <2>1, <2>3 DEF Records, SameRecord, Statuses, Evaluated
  <2> QED
    BY <1>2, <2>2, <2>3
<1> QED
  BY <1>1, <1>3 DEF Restated, RecordsOK, Close

(* What holds after such an end, C and T being the tables it starts from.   *)
Onward(T, R, C) ==
  /\ QueueOK(task', R)
  /\ RecordsOK(candidate', begun)
  /\ DOMAIN candidate' = DOMAIN C
  /\ round' \in {round, NoRound}
  /\ \A t \in DOMAIN task' : t.stage = "search" => t \in DOMAIN T
  /\ EvidenceOK(T, R, C) => EvidenceOK(task', R, candidate')

LEMMA RestatedOnward ==
  ASSUME NEW T, NEW R, NEW C, QueueOK(T, R), task' = T, round' \in {round, NoRound},
         Restated(C, candidate'), RecordsOK(candidate', begun)
  PROVE  Onward(T, R, C)
BY RestatedEvidence DEF Onward, Restated

LEMMA SelectOnward ==
  ASSUME NEW T, NEW R, NEW C, QueueOK(T, R), RecordsOK(C, begun),
         Entrants \subseteq DOMAIN C, SelectBest(C, T)
  PROVE  Onward(T, R, C)
<1>1. CASE Accepted(C) = {} /\ Close(C) /\ task' = T
  BY <1>1, CloseOK, RestatedOnward
<1>2. CASE (\E d \in Best(C) : QueueReplay(C, d, T)) /\ UNCHANGED round
  <2>1. PICK d \in Best(C) : QueueReplay(C, d, T)
    BY <1>2
  <2>2. d \in DOMAIN C /\ C[d].status = "accepted"
    BY <2>1 DEF Best, Accepted
  <2>3. d \in Deltas
    BY <2>2 DEF RecordsOK
  <2> DEFINE X == NodesOf(C[d].trainers)
  <2>4. candidate' = WithStatus(C, d, "replay-audit") /\ task' = AddTasks(T, {ReplayTask(d)}, X)
    BY <2>1 DEF QueueReplay
  <2>5. Restated(C, candidate') /\ RecordsOK(candidate', begun)
    BY <2>4, WithStatusOK DEF Statuses, Evaluated
  <2>6. candidate'[d].status = "replay-audit"
    BY <2>2, <2>4 DEF WithStatus, RecordsOK, Records
  <2>7. C[d].trainers \in SUBSET StampSet
    BY <2>2 DEF RecordsOK, Records
  <2>8. X \in SUBSET Nodes
    BY <2>7 DEF StampSet, NodesOf
  <2>9. ReplayTask(d) \in TaskSet /\ Named(ReplayTask(d))
    BY <2>3, TaskNames DEF Named
  <2>10. Grows(T, task')
    BY <2>4, <2>8, <2>9, AddGrows
  <2>11. QueueOK(task', R)
    BY <2>10, GrowsOK
  <2>12. \A t \in DOMAIN task' \ DOMAIN T : t = ReplayTask(d) /\ task'[t].excluded = X
    BY <2>4 DEF AddTasks, Queued
  <2>13. \A t \in DOMAIN task' : t.stage = "search" => t \in DOMAIN T
    BY <2>3, <2>12, TaskNames
  <2>14. ASSUME EvidenceOK(T, R, C) PROVE EvidenceOK(task', R, candidate')
    <3>1. EvidenceOK(T, R, candidate')
      BY <2>5, <2>14, RestatedEvidence
    <3>2. Earned(C[d])
      BY <2>2, <2>14 DEF EvidenceOK
    <3>3. Earned(candidate'[d]) /\ candidate'[d].trainers = C[d].trainers /\ d \in DOMAIN candidate'
      BY <2>2, <2>5, <3>2, SameEvidence DEF Restated, SameRecord
    <3>4. \A t \in DOMAIN task' \ DOMAIN T : Warranted(T, candidate', t, task'[t].excluded)
      BY <2>3, <2>6, <2>12, <3>3, TaskNames DEF Warranted
    <3> QED
      BY <2>10, <3>1, <3>4, GrowsEvidence
  <2> QED
    BY <1>2, <2>5, <2>11, <2>13, <2>14 DEF Onward, Restated
<1> QED
  BY <1>1, <1>2 DEF SelectBest

LEMMA AdvanceOnward ==
  ASSUME NEW T, NEW R, NEW C, QueueOK(T, R), RecordsOK(C, begun),
         Entrants \subseteq DOMAIN C, Advance(C, T)
  PROVE  Onward(T, R, C)
<1>1. CASE candidate' = C /\ task' = T /\ UNCHANGED round
  BY <1>1 DEF Onward
<1>2. CASE SelectBest(C, T)
  BY <1>2, SelectOnward
<1> QED
  BY <1>1, <1>2 DEF Advance

LEMMA StoreSelectionOK ==
  ASSUME NEW C, RecordsOK(C, begun), StoreSelection(C)
  PROVE  /\ Restated(C, candidate') /\ RecordsOK(candidate', begun)
         /\ round' \in {round, NoRound}
<1>1. CASE Accepted(C) = {} /\ Close(C)
  BY <1>1, CloseOK
<1>2. CASE (\E d \in Best(C) : candidate' = WithStatus(C, d, "replay-audit")) /\ UNCHANGED round
  BY <1>2, WithStatusOK DEF Statuses, Evaluated
<1> QED
  BY <1>1, <1>2 DEF StoreSelection

(* The invariant is kept by a handler that ends so.                        *)
LEMMA OnwardInv ==
  ASSUME Inv, DOMAIN task # {}, NEW T, DOMAIN T = DOMAIN task, NEW C, DOMAIN C = DOMAIN candidate,
         Onward(T, reports', C), OneReport(reports'),
         forgotten = 0 => EvidenceOK(T, reports', C),
         forgotten = 0 => \A c \in Promoted' : Proven(c),
         checkpoint' \in Seq(Kinds), contributions' \in Seq(Promotions),
         UNCHANGED <<begun, forgotten>>, crashes' \in Nat
  PROVE  Inv'
<1>1. RoundOK(round', begun')
  BY DEF Inv, RoundOK, Onward
<1>2. Entrants' \subseteq DOMAIN candidate'
  BY DEF Inv, Entrants, Onward
<1>3. RestOK'
  BY DEF Inv, RestOK, Onward
<1>4. QueueOK(task', reports') /\ RecordsOK(candidate', begun')
  BY DEF Onward
<1>5. forgotten' = 0 => EvidenceOK(task', reports', candidate')
  BY DEF Onward
<1>6. forgotten' = 0 => \A c \in Promoted' : Proven(c)
  OBVIOUS
<1> QED
  BY <1>1, <1>2, <1>3, <1>4, <1>5, <1>6 DEF Inv
-----------------------------------------------------------------------------
(***************************************************************************)
(* The queue's own steps and the operator's.                               *)
(***************************************************************************)
LEMMA InitInv == Init => Inv
<1> SUFFICES ASSUME Init PROVE Inv
  OBVIOUS
<1>1. DOMAIN task = {} /\ DOMAIN candidate = {} /\ reports = {}
  BY DEF Init
<1>2. QueueOK(task, reports)
  BY <1>1, FS_EmptySet DEF QueueOK, Leased
<1>3. OneReport(reports)
  BY <1>1 DEF OneReport
<1>4. RestOK
  BY <1>1 DEF Init, RestOK
<1>5. EvidenceOK(task, reports, candidate)
  BY <1>1 DEF EvidenceOK
<1>6. Promoted = {}
  BY DEF Init, Promoted
<1>7. Entrants = {} /\ RoundOK(round, begun) /\ RecordsOK(candidate, begun)
  BY <1>1 DEF Init, Entrants, RoundOK, RecordsOK
<1> QED
  BY <1>2, <1>3, <1>4, <1>5, <1>6, <1>7 DEF Inv

LEMMA StutterInv ==
  ASSUME Inv, UNCHANGED vars
  PROVE  Inv'
BY DEF Inv, vars, store, database, bounds, RestOK, Entrants, Promoted

(* Only rows of the queue change.                                          *)
LEMMA RowsInv ==
  ASSUME Inv, UNCHANGED <<store, reports, begun, forgotten, crashes>>,
         QueueOK(task', reports), DOMAIN task' = DOMAIN task,
         \A t \in DOMAIN task : /\ task[t].excluded \subseteq task'[t].excluded
                                /\ task[t].status = "completed" => task'[t].status = "completed"
  PROVE  Inv'
<1>1. RestOK' /\ Entrants' = Entrants /\ Promoted' = Promoted
  BY DEF Inv, RestOK, store, Entrants, Promoted
<1>2. forgotten = 0 => EvidenceOK(task', reports, candidate)
  BY RowsEvidence DEF Inv
<1> QED
  BY <1>1, <1>2 DEF Inv, store

LEMMA ClaimInv ==
  ASSUME Inv, NEW n \in Nodes, NEW t, Claim(n, t)
  PROVE  Inv'
<1>1. QueueOK(task, reports) /\ UNCHANGED <<store, reports, begun, forgotten, crashes>>
  BY DEF Inv, Claim, bounds
<1>2. /\ QueueOK(task', reports) /\ DOMAIN task' = DOMAIN task
      /\ \A u \in DOMAIN task : /\ task'[u].excluded = task[u].excluded
                                /\ task'[u].status = "completed" <=> task[u].status = "completed"
  BY <1>1, ClaimedOK
<1> QED
  BY <1>1, <1>2, RowsInv

LEMMA LossInv ==
  ASSUME Inv, NEW t \in LeasedTasks, Expire(t) \/ Abandon(t)
  PROVE  Inv'
<1>1. QueueOK(task, reports) /\ UNCHANGED <<store, reports, begun, forgotten, crashes>>
  BY DEF Inv, Expire, Abandon
<1>2. /\ t \in DOMAIN task /\ task[t] \in Row /\ task[t].status = "assigned"
      /\ task[t].holder \in Nodes
  BY <1>1, LeasedFacts
<1>3. PICK row \in Row : /\ task' = [task EXCEPT ![t] = row]
                         /\ row.status \in {"queued", "failed"}
                         /\ task[t].excluded \subseteq row.excluded
  <2>1. CASE Expire(t)
    <3> DEFINE row == [status |-> IF task[t].attempts >= MaxAttempts THEN "failed" ELSE "queued",
                       holder |-> NoNode, excluded |-> task[t].excluded \cup {task[t].holder},
                       attempts |-> task[t].attempts]
    <3>1. task' = [task EXCEPT ![t] = row]
      BY <2>1, <1>2 DEF Expire
    <3>2. row \in Row /\ row.status \in {"queued", "failed"} /\ task[t].excluded \subseteq row.excluded
      BY <1>2 DEF Row
    <3> QED
      BY <3>1, <3>2
  <2>2. CASE Abandon(t)
    <3> DEFINE row == [status |-> "queued", holder |-> NoNode, excluded |-> task[t].excluded,
                       attempts |-> task[t].attempts - 1]
    <3>1. /\ DOMAIN task' = DOMAIN task
          /\ \A u \in DOMAIN task \ {t} : task'[u] = task[u]
          /\ task'[t] = [task[t] EXCEPT !.status = "queued", !.holder = NoNode, !.attempts = @ - 1]
      BY <2>2, <1>2 DEF Abandon
    <3>3. task'[t] = row
      BY <1>2, <3>1 DEF Row
    <3>4. task' = [task EXCEPT ![t] = row]
      BY <2>2, <3>1, <3>3 DEF Abandon
    <3>2. row \in Row
      BY <1>2 DEF Row
    <3> QED
      BY <3>2, <3>4
  <2> QED
    BY <2>1, <2>2
<1>4. QueueOK(task', reports)
  BY <1>1, <1>3, RequeuedOK
<1>5. /\ DOMAIN task' = DOMAIN task
      /\ \A u \in DOMAIN task : /\ task[u].excluded \subseteq task'[u].excluded
                                /\ task[u].status = "completed" => task'[u].status = "completed"
  BY <1>2, <1>3
<1> QED
  BY <1>1, <1>4, <1>5, RowsInv

LEMMA SetInv ==
  ASSUME Inv, UNCHANGED <<round, candidate, contributions, database, begun, forgotten>>,
         checkpoint' \in Seq(Kinds), crashes' \in Nat
  PROVE  Inv'
BY DEF Inv, database, RestOK, Entrants, Promoted

LEMMA InstallInv ==
  ASSUME Inv, InstallCheckpoint(<< >>)
  PROVE  Inv'
<1>1. DOMAIN candidate' = {} /\ Promoted' = {} /\ Entrants' = {}
  BY DEF InstallCheckpoint, Promoted, Entrants
<1>2. UNCHANGED <<task, reports, begun, crashes, round>> /\ forgotten' = begun
  BY DEF InstallCheckpoint, database
<1>3. RestOK'
  <2>1. checkpoint' = << >> /\ contributions' = << >>
    BY DEF InstallCheckpoint
  <2> QED
    BY <1>2, <2>1 DEF Inv, RestOK
<1>4. ASSUME forgotten' = 0 PROVE EvidenceOK(task', reports', candidate')
  <2>1. DOMAIN task = {}
    BY <1>2, <1>4 DEF Inv, RestOK
  <2>2. reports = {}
    BY <2>1 DEF Inv, QueueOK
  <2> QED
    BY <1>1, <1>2, <2>1, <2>2 DEF EvidenceOK
<1> QED
  BY <1>1, <1>2, <1>3, <1>4 DEF Inv, RecordsOK

LEMMA BeginInv ==
  ASSUME Inv, UNCHANGED <<checkpoint, candidate, contributions, reports, forgotten>>,
         begun' = begun + 1, round = NoRound, crashes' \in Nat,
         round' = [id |-> begun + 1, base |-> checkpoint,
                   status |-> "independent-search", candidates |-> {}],
         \/ UNCHANGED task
         \/ task' = AddTasks(task, {SearchTask(begun + 1, s) : s \in Slots}, {})
  PROVE  Inv'
<1>1. begun \in Nat /\ checkpoint \in Seq(Kinds) /\ forgotten \in 0..begun
  BY DEF Inv, RestOK
<1>2. RoundOK(round', begun') /\ Entrants' = {}
  BY <1>1 DEF RoundOK, RoundSet, Entrants
<1>3. \A d \in DOMAIN candidate : candidate[d].round \in 1..begun'
  BY <1>1 DEF Inv, RecordsOK
<1>4. RecordsOK(candidate', begun')
  BY <1>3 DEF Inv, RecordsOK
<1>5. \A t \in {SearchTask(begun + 1, s) : s \in Slots} :
        t \in TaskSet /\ Named(t) /\ t.stage = "search" /\ t.round = begun + 1
  <2> TAKE t \in {SearchTask(begun + 1, s) : s \in Slots}
  <2>1. PICK s \in Slots : t = SearchTask(begun + 1, s)
    OBVIOUS
  <2>2. s \in Nat /\ begun + 1 \in Nat
    BY <1>1, Constants DEF Slots
  <2>3. t \in TaskSet /\ t.stage = "search"
    BY <2>1, <2>2, TaskNames
  <2>4. t.round = begun + 1 /\ t.slot = s
    BY <2>1 DEF SearchTask
  <2> QED
    BY <2>1, <2>3, <2>4 DEF Named
<1>6. Grows(task, task') /\ \A t \in DOMAIN task' \ DOMAIN task : t.stage = "search" /\ t.round = begun + 1
  <2>1. CASE UNCHANGED task
    BY <2>1 DEF Grows
  <2>2. CASE task' = AddTasks(task, {SearchTask(begun + 1, s) : s \in Slots}, {})
    <3>1. Grows(task, task')
      BY <1>5, <2>2, AddGrows
    <3>2. DOMAIN task' = DOMAIN task \cup {SearchTask(begun + 1, s) : s \in Slots}
      BY <2>2 DEF AddTasks
    <3> QED
      BY <1>5, <3>1, <3>2
  <2> QED
    BY <2>1, <2>2
<1>7. QueueOK(task', reports')
  BY <1>6, GrowsOK DEF Inv
<1>8. RestOK'
  BY <1>1, <1>6 DEF Inv, RestOK
<1>9. forgotten' = 0 => EvidenceOK(task', reports', candidate')
  BY <1>6, GrowsEvidence DEF Inv, Warranted
<1>10. Promoted' = Promoted
  BY DEF Promoted
<1> QED
  BY <1>2, <1>4, <1>7, <1>8, <1>9, <1>10 DEF Inv

LEMMA OperateInv ==
  ASSUME Inv, Operate
  PROVE  Inv'
<1>1. checkpoint \in Seq(Kinds) /\ crashes \in Nat
  BY DEF Inv, RestOK
<1>2. CASE \E a \in SelectionArtifacts : SetSelection(a)
  BY <1>1, <1>2, SetInv DEF SetSelection
<1>3. CASE \E a \in ReplicationArtifacts : SetReplication(a)
  BY <1>1, <1>3, SetInv DEF SetReplication
<1>4. CASE InstallCheckpoint(<< >>)
  BY <1>4, InstallInv
<1>5. CASE QueueMutation
  BY <1>1, <1>5, BeginInv DEF QueueMutation
<1> QED
  BY <1>2, <1>3, <1>4, <1>5 DEF Operate
-----------------------------------------------------------------------------
(***************************************************************************)
(* Reports of judges.                                                      *)
(***************************************************************************)
LEMMA RecordedEvidence ==
  ASSUME Inv, NEW t \in LeasedTasks, NEW v, NEW C, EvidenceOK(task, reports, C),
         t.stage = "verify" => task[t].holder \notin NodesOf(C[t.delta].trainers),
         t.stage = "replicate" => task[t].holder \notin Barred(C[t.delta])
  PROVE  EvidenceOK(task, Record(t, v), C) /\ EvidenceOK(Completed(t), Record(t, v), C)
<1>1. EvidenceOK(task, Record(t, v), C)
  BY RecordEvidence
<1>2. \A u \in DOMAIN task : /\ task[u].excluded \subseteq Completed(t)[u].excluded
                             /\ task[u].status = "completed" => Completed(t)[u].status = "completed"
  BY CompletedRows DEF Inv
<1>3. DOMAIN Completed(t) = DOMAIN task
  BY DEF Completed
<1> QED
  BY <1>1, <1>2, <1>3, RowsEvidence

LEMMA JudgeFacts ==
  ASSUME Inv, NEW t \in LeasedTasks, t.stage # "search"
  PROVE  /\ t \in DOMAIN task /\ t \in TaskSet /\ t.delta \in Deltas /\ DOMAIN task # {}
         /\ task[t].holder \in Nodes /\ task[t].holder \notin task[t].excluded
         /\ task[t].status = "assigned"
         /\ t.stage = "replay" => t = ReplayTask(t.delta)
         /\ \A v \in Evidence["verify"][t.delta.kind] \cup Evidence["replicate"][t.delta.kind] : v \in Int
         /\ checkpoint \in Seq(Kinds) /\ contributions \in Seq(Promotions) /\ crashes \in Nat
         /\ forgotten = 0 => EvidenceOK(task, reports, candidate)
<1>1. t \in DOMAIN task /\ t \in TaskSet /\ Named(t)
  BY LeasedFacts DEF Inv
<1>2. t.delta \in Deltas /\ (t.stage = "replay" => t = ReplayTask(t.delta))
  BY <1>1 DEF Named
<1>3. t.delta.kind \in Kinds
  BY <1>2 DEF Deltas
<1>4. \A v \in Evidence["verify"][t.delta.kind] \cup Evidence["replicate"][t.delta.kind] : v \in Int
  BY <1>3, Constants
<1> QED
  BY <1>1, <1>2, <1>4, LeasedFacts DEF Inv, RestOK

LEMMA Judges ==
  ASSUME Inv, NEW t \in LeasedTasks, NEW v, t.stage \in {"verify", "replicate"},
         Consensus(Record(t, v), t, v)
  PROVE  /\ VerifiersOf(Record(t, v), t, v) \in SUBSET StampSet
         /\ Cardinality(NodesOf(VerifiersOf(Record(t, v), t, v))) >= Quorum
         /\ \A n \in NodesOf(VerifiersOf(Record(t, v), t, v)) :
              \E r \in Record(t, v) : /\ r.node = n
                                      /\ r.task.stage = t.stage /\ r.task.delta = t.delta
<1> DEFINE R == Record(t, v)
<1>1. t \in TaskSet
  BY JudgeFacts
<1>2. IsFiniteSet(R) /\ OneReport(R) /\ \A r \in R : ReportOK(r)
  BY RecordFacts DEF Inv
<1> HIDE DEF R
<1>3. Consensus(R, t, v)
  BY DEF R
<1>4. /\ Cardinality(NodesOf(Stamps(Agreeing(R, t, v)))) >= Quorum
      /\ NodesOf(Stamps(Agreeing(R, t, v))) = {r.node : r \in Agreeing(R, t, v)}
      /\ Stamps(Agreeing(R, t, v)) \subseteq StampSet
  BY <1>1, <1>2, <1>3, QuorumNodes
<1>5. \A r \in Agreeing(R, t, v) : r \in R /\ r.task.stage = t.stage /\ r.task.delta = t.delta
  BY <1>1, <1>2, WorkFields DEF Agreeing, ReportsOn, ReportOK
<1> QED
  BY <1>4, <1>5 DEF R, VerifiersOf

LEMMA RestatedTwice ==
  ASSUME NEW B, NEW C, NEW D, Restated(B, C), Restated(C, D)
  PROVE  Restated(B, D)
BY DEF Restated, SameRecord

(* The candidates with the evidence of the selection verifiers.             *)
Judged(t, v) ==
  [candidate EXCEPT ![t.delta].status = IF v > 0 THEN "accepted" ELSE "rejected",
                    ![t.delta].verifiers = VerifiersOf(Record(t, v), t, v),
                    ![t.delta].score = v]

LEMMA JudgedOK ==
  ASSUME Inv, NEW t \in LeasedTasks, t.stage = "verify", NEW v \in Evidence["verify"][t.delta.kind],
         t.delta \in DOMAIN candidate, candidate[t.delta].status = "global-verification",
         task[t].holder \notin NodesOf(candidate[t.delta].trainers),
         Consensus(Record(t, v), t, v)
  PROVE  /\ RecordsOK(Judged(t, v), begun) /\ DOMAIN Judged(t, v) = DOMAIN candidate
         /\ Judged(t, v)[t.delta].trainers = candidate[t.delta].trainers
         /\ forgotten = 0 => EvidenceOK(task, reports, Judged(t, v))
<1> DEFINE C == Judged(t, v)
           d == t.delta
           R == Record(t, v)
           V == VerifiersOf(R, t, v)
           s == IF v > 0 THEN "accepted" ELSE "rejected"
           old == candidate[d]
<1>1. V \in SUBSET StampSet /\ Cardinality(NodesOf(V)) >= Quorum
  BY Judges
<1>2. v \in Int /\ d \in Deltas
  BY JudgeFacts
<1>3. old \in Records /\ old.round \in 1..begun
  BY DEF Inv, RecordsOK
<1>4. /\ DOMAIN C = DOMAIN candidate
      /\ \A e \in DOMAIN candidate \ {d} : C[e] = candidate[e]
      /\ C[d] = [old EXCEPT !.status = s, !.verifiers = V, !.score = v]
  BY DEF Judged
<1>5. s \in Statuses \ {"global-verification"} /\ (s = "accepted" => v > 0)
  BY DEF Statuses, Evaluated
<1> HIDE DEF R, V, s, C
<1>6. C[d] = [round |-> old.round, status |-> s, trainers |-> old.trainers, source |-> old.source,
              verifiers |-> V, replay |-> old.replay, replicators |-> old.replicators, score |-> v]
  BY <1>3, <1>4 DEF Records
<1>7. C[d] \in Records
  BY <1>1, <1>2, <1>3, <1>5, <1>6 DEF Records
<1>8. C[d].round = old.round /\ C[d].trainers = old.trainers /\ C[d].replay = old.replay
  BY <1>6
<1>9. RecordsOK(C, begun)
  BY <1>3, <1>4, <1>7, <1>8 DEF Inv, RecordsOK
<1>10. ASSUME forgotten = 0 PROVE EvidenceOK(task, reports, C)
  <2>1. EvidenceOK(task, reports, candidate)
    BY <1>10, JudgeFacts
  <2>2. EvidenceOK(task, R, candidate)
    BY <2>1, RecordedEvidence DEF R
  <2>3. \A n \in NodesOf(V) : n \notin NodesOf(old.trainers)
    <3> TAKE n \in NodesOf(V)
    <3>1. PICK r \in R : r.node = n /\ r.task.stage = "verify" /\ r.task.delta = d
      BY Judges DEF V, R
    <3> QED
      BY <2>2, <3>1 DEF EvidenceOK
  <2>4. C[d].status = "accepted" => Earned(C[d])
    BY <1>1, <1>5, <1>6, <2>3 DEF Earned
  <2>5. \A u \in DOMAIN task : u.stage = "replay" => u.delta # d
    BY <2>1 DEF EvidenceOK
  <2>6. \A u \in DOMAIN task : u.stage = "replicate" => u.delta # d
    BY <1>2, <2>1, <2>5, TaskNames DEF EvidenceOK
  <2>7. NodesOf(C[d].replay) \cap NodesOf(C[d].trainers) = {}
    BY <1>8, <2>1 DEF EvidenceOK
  <2> HIDE DEF d, old
  <2>8. d \in DOMAIN candidate /\ C[d].trainers = candidate[d].trainers
    BY <1>8 DEF d, old
  <2>9. \A e \in DOMAIN candidate \ {d} : C[e] = candidate[e]
    BY <1>4
  <2>10. \A u \in DOMAIN task : u.stage = "replay" /\ u.delta = d =>
           C[d].status # "global-verification" /\ Earned(C[d])
    BY <2>5
  <2>11. QueueOK(task, reports) /\ DOMAIN C = DOMAIN candidate
    BY <1>4 DEF Inv
  <2> QED
    BY <2>1, <2>4, <2>6, <2>7, <2>8, <2>9, <2>10, <2>11, OneRecordEvidence
<1> QED
  BY <1>4, <1>8, <1>9, <1>10 DEF C

LEMMA VerificationInv ==
  ASSUME Inv, NEW t \in LeasedTasks, NEW v, ReportVerification(t, v)
  PROVE  Inv'
<1> DEFINE d == t.delta
           R == Record(t, v)
           C == Judged(t, v)
           T == Completed(t)
<1>1. /\ t.stage = "verify" /\ v \in Evidence["verify"][d.kind] /\ d \in DOMAIN candidate
      /\ task[t].holder \notin NodesOf(candidate[d].trainers) /\ reports' = R
      /\ UNCHANGED <<checkpoint, contributions, begun, forgotten, crashes>>
  BY DEF ReportVerification, bounds
<1>2. QueueOK(T, R) /\ OneReport(R)
  BY <1>1, RecordedOK, RecordFacts DEF Inv
<1>3. DOMAIN T = DOMAIN task /\ DOMAIN task # {} /\ Promoted' = Promoted
  BY <1>1, JudgeFacts DEF Completed, Promoted
<1>4. checkpoint \in Seq(Kinds) /\ contributions \in Seq(Promotions) /\ crashes \in Nat
  BY <1>1, JudgeFacts
<1>5. forgotten = 0 => \A c \in Promoted' : Proven(c)
  BY <1>3 DEF Inv
<1>6. CASE task' = T /\ UNCHANGED <<candidate, round>>
  <2>1. Onward(T, R, candidate)
    BY <1>2, <1>6 DEF Onward, Inv
  <2>2. forgotten = 0 => EvidenceOK(T, R, candidate)
    BY <1>1, JudgeFacts, RecordedEvidence
  <2> HIDE DEF R, T
  <2> QED
    BY <1>1, <1>2, <1>3, <1>4, <1>5, <2>1, <2>2, OnwardInv
<1>7. CASE /\ Consensus(R, t, v) /\ candidate[d].status = "global-verification" /\ Advance(C, T)
  <2>1. /\ RecordsOK(C, begun) /\ DOMAIN C = DOMAIN candidate
        /\ C[d].trainers = candidate[d].trainers
        /\ forgotten = 0 => EvidenceOK(task, reports, C)
    BY <1>1, <1>7, JudgedOK
  <2>2. forgotten = 0 => EvidenceOK(T, R, C)
    BY <1>1, <2>1, RecordedEvidence
  <2>3. Entrants \subseteq DOMAIN C
    BY <2>1 DEF Inv
  <2> HIDE DEF R, T, C
  <2>4. Onward(T, R, C)
    BY <1>2, <1>7, <2>1, <2>3, AdvanceOnward
  <2> QED
    BY <1>1, <1>2, <1>3, <1>4, <1>5, <2>1, <2>2, <2>4, OnwardInv
<1> QED
  BY <1>6, <1>7 DEF ReportVerification, Judged

(* The candidates with the outcome s of a replay.                          *)
Replayed(t, s) ==
  [candidate EXCEPT ![t.delta].status = s,
                    ![t.delta].replay = {Stamp(task[t].holder, t)}]

LEMMA ReplayedOK ==
  ASSUME Inv, NEW t \in LeasedTasks, t.stage = "replay", t.delta \in DOMAIN candidate,
         NEW s \in Statuses \ {"global-verification", "accepted"}
  PROVE  /\ RecordsOK(Replayed(t, s), begun) /\ DOMAIN Replayed(t, s) = DOMAIN candidate
         /\ Audited(Replayed(t, s)[t.delta])
         /\ Replayed(t, s)[t.delta].replay \subseteq StampSet
         /\ forgotten = 0 => EvidenceOK(task, reports, Replayed(t, s))
<1> DEFINE C == Replayed(t, s)
           d == t.delta
           p == Stamp(task[t].holder, t)
           old == candidate[d]
<1>1. /\ t \in DOMAIN task /\ t \in TaskSet /\ task[t].holder \in Nodes /\ d \in Deltas
      /\ task[t].holder \notin task[t].excluded /\ task[t].status = "assigned"
      /\ t = ReplayTask(d)
  BY JudgeFacts
<1>2. p \in StampSet /\ p.node = task[t].holder
  BY <1>1 DEF StampSet, Stamp
<1>3. old \in Records /\ old.round \in 1..begun
  BY DEF Inv, RecordsOK
<1>4. /\ DOMAIN C = DOMAIN candidate
      /\ \A e \in DOMAIN candidate \ {d} : C[e] = candidate[e]
      /\ C[d] = [old EXCEPT !.status = s, !.replay = {p}]
  BY DEF Replayed
<1> HIDE DEF C, p
<1>5. C[d] = [round |-> old.round, status |-> s, trainers |-> old.trainers, source |-> old.source,
              verifiers |-> old.verifiers, replay |-> {p}, replicators |-> old.replicators,
              score |-> old.score]
  BY <1>3, <1>4 DEF Records
<1>6. C[d] \in Records
  BY <1>2, <1>3, <1>5 DEF Records
<1>7. /\ C[d].round = old.round /\ C[d].trainers = old.trainers /\ C[d].replay = {p}
      /\ C[d].verifiers = old.verifiers /\ C[d].score = old.score /\ C[d].status = s
  BY <1>5
<1>8. RecordsOK(C, begun)
  BY <1>3, <1>4, <1>6, <1>7 DEF Inv, RecordsOK
<1>9. Audited(C[d]) /\ C[d].replay \subseteq StampSet
  BY <1>2, <1>7 DEF Audited
<1>10. ASSUME forgotten = 0 PROVE EvidenceOK(task, reports, C)
  <2>1. EvidenceOK(task, reports, candidate)
    BY <1>10, JudgeFacts
  <2>2. Earned(old) /\ NodesOf(old.trainers) \subseteq task[t].excluded
    BY <1>1, <2>1 DEF EvidenceOK
  <2>3. Earned(C[d])
    BY <1>7, <2>2 DEF Earned
  <2>4. NodesOf({p}) = {task[t].holder}
    BY <1>2 DEF NodesOf
  <2>5. NodesOf(C[d].replay) \cap NodesOf(C[d].trainers) = {}
    BY <1>1, <1>7, <2>2, <2>4
  <2>6. \A u \in DOMAIN task : u.stage = "replicate" => u.delta # d
    BY <1>1, <2>1 DEF EvidenceOK
  <2>7. C[d].status # "global-verification" /\ C[d].trainers = candidate[d].trainers
    BY <1>7
  <2> HIDE DEF d, old
  <2>8. d \in DOMAIN candidate /\ QueueOK(task, reports)
    BY DEF d, Inv
  <2> QED
    BY <1>4, <2>1, <2>3, <2>5, <2>6, <2>7, <2>8, OneRecordEvidence
<1> QED
  BY <1>4, <1>8, <1>9, <1>10 DEF C

LEMMA BarredNodes ==
  ASSUME NEW c \in Records
  PROVE  Barred(c) \in SUBSET Nodes
BY DEF Barred, NodesOf, Records, StampSet

LEMMA ReplayInv ==
  ASSUME Inv, NEW t \in LeasedTasks, NEW k, ReportReplay(t, k)
  PROVE  Inv'
<1> DEFINE d == t.delta
           T == Completed(t)
<1>1. /\ t.stage = "replay" /\ d \in DOMAIN candidate
      /\ UNCHANGED <<reports, checkpoint, contributions, begun, forgotten, crashes>>
  BY DEF ReportReplay, bounds
<1>2. QueueOK(T, reports) /\ OneReport(reports)
  BY CompletedOK DEF Inv
<1>3. DOMAIN T = DOMAIN task /\ DOMAIN task # {} /\ Promoted' = Promoted
  BY <1>1, JudgeFacts DEF Completed, Promoted
<1>4. checkpoint \in Seq(Kinds) /\ contributions \in Seq(Promotions) /\ crashes \in Nat
  BY <1>1, JudgeFacts
<1>5. forgotten = 0 => \A c \in Promoted' : Proven(c)
  BY <1>3 DEF Inv
<1>6. \A u \in DOMAIN task : /\ task[u].excluded \subseteq T[u].excluded
                             /\ task[u].status = "completed" => T[u].status = "completed"
  BY CompletedRows DEF Inv
<1>7. t \in DOMAIN T /\ T[t].status = "completed" /\ t = ReplayTask(d) /\ d \in Deltas
  BY <1>1, JudgeFacts, CompletedRows DEF Inv
<1> HIDE DEF T
<1>8. \A C : EvidenceOK(task, reports, C) => EvidenceOK(T, reports, C)
  BY <1>3, <1>6, RowsEvidence
<1>9. CASE /\ candidate' = Replayed(t, "replication-verification") /\ UNCHANGED round
           /\ task' = AddTasks(T, {ReplicateTask(d, s) : s \in 0..(Quorum - 1)},
                               Barred(candidate'[d]))
  <2> DEFINE C == candidate'
             X == Barred(C[d])
             S == {ReplicateTask(d, s) : s \in 0..(Quorum - 1)}
  <2>1. /\ RecordsOK(C, begun) /\ DOMAIN C = DOMAIN candidate
        /\ Audited(C[d])
        /\ forgotten = 0 => EvidenceOK(task, reports, C)
    BY <1>1, <1>9, ReplayedOK DEF Statuses, Evaluated, Selected
  <2>2. X \in SUBSET Nodes
    BY <1>1, <2>1, BarredNodes DEF RecordsOK
  <2>3. \A u \in S : u \in TaskSet /\ Named(u) /\ u.stage = "replicate" /\ u.delta = d
    <3> TAKE u \in S
    <3>1. PICK s \in 0..(Quorum - 1) : u = ReplicateTask(d, s)
      OBVIOUS
    <3>2. s \in Nat /\ d \in Deltas
      BY <1>7, Constants
    <3>3. u \in TaskSet /\ u.stage = "replicate" /\ u.delta = d
      BY <3>1, <3>2, TaskNames
    <3>4. u.slot = s
      BY <3>1 DEF ReplicateTask
    <3> QED
      BY <3>1, <3>2, <3>3, <3>4 DEF Named
  <2>4. Grows(T, task')
    BY <1>9, <2>2, <2>3, AddGrows
  <2>5. QueueOK(task', reports)
    BY <1>2, <2>4, GrowsOK
  <2>6. \A u \in DOMAIN task' \ DOMAIN T : u \in S
    BY <1>9 DEF AddTasks
  <2>7. \A u \in DOMAIN task' \ DOMAIN T : Warranted(T, C, u, task'[u].excluded)
    BY <1>1, <1>7, <2>1, <2>3, <2>6 DEF Warranted
  <2>8. \A u \in DOMAIN task' : u.stage = "search" => u \in DOMAIN T
    BY <2>3, <2>6
  <2>9. EvidenceOK(T, reports, C) => EvidenceOK(task', reports, C)
    BY <2>4, <2>7, GrowsEvidence
  <2>10. Onward(T, reports, C)
    BY <1>9, <2>1, <2>5, <2>8, <2>9 DEF Onward
  <2>11. forgotten = 0 => EvidenceOK(T, reports, C)
    BY <1>8, <2>1
  <2> QED
    BY <1>1, <1>2, <1>3, <1>4, <1>5, <2>1, <2>10, <2>11, OnwardInv
<1>10. CASE SelectBest(Replayed(t, "replay-failed"), T)
  <2> DEFINE C == Replayed(t, "replay-failed")
  <2>1. /\ RecordsOK(C, begun) /\ DOMAIN C = DOMAIN candidate
        /\ forgotten = 0 => EvidenceOK(task, reports, C)
    BY <1>1, ReplayedOK DEF Statuses, Evaluated, Selected
  <2> HIDE DEF C
  <2>2. Entrants \subseteq DOMAIN C
    BY <2>1 DEF Inv
  <2>3. SelectBest(C, T)
    BY <1>10 DEF C
  <2>4. Onward(T, reports, C)
    BY <1>2, <2>1, <2>2, <2>3, SelectOnward
  <2>5. forgotten = 0 => EvidenceOK(T, reports, C)
    BY <1>8, <2>1
  <2> QED
    BY <1>1, <1>2, <1>3, <1>4, <1>5, <2>1, <2>4, <2>5, OnwardInv
<1> QED
  BY <1>9, <1>10 DEF ReportReplay, Replayed, T

(* The candidates with the evidence of the replicators.                     *)
Confirmed(t, v) == [candidate EXCEPT ![t.delta].replicators = VerifiersOf(Record(t, v), t, v)]

LEMMA ConfirmedOK ==
  ASSUME Inv, NEW t \in LeasedTasks, t.stage = "replicate", NEW v,
         t.delta \in DOMAIN candidate, task[t].holder \notin Barred(candidate[t.delta]),
         Consensus(Record(t, v), t, v)
  PROVE  /\ RecordsOK(Confirmed(t, v), begun)
         /\ Restated(candidate, Confirmed(t, v))
         /\ forgotten = 0 => Proven(Confirmed(t, v)[t.delta])
<1> DEFINE C == Confirmed(t, v)
           d == t.delta
           R == Record(t, v)
           V == VerifiersOf(R, t, v)
           old == candidate[d]
<1>1. V \in SUBSET StampSet /\ Cardinality(NodesOf(V)) >= Quorum
  BY Judges
<1>2. old \in Records /\ old.round \in 1..begun
  BY DEF Inv, RecordsOK
<1>3. /\ DOMAIN C = DOMAIN candidate
      /\ \A e \in DOMAIN candidate \ {d} : C[e] = candidate[e]
      /\ C[d] = [old EXCEPT !.replicators = V]
  BY DEF Confirmed
<1> HIDE DEF R, V, C
<1>4. C[d] = [round |-> old.round, status |-> old.status, trainers |-> old.trainers,
              source |-> old.source, verifiers |-> old.verifiers, replay |-> old.replay,
              replicators |-> V, score |-> old.score]
  BY <1>2, <1>3 DEF Records
<1>5. C[d] \in Records
  BY <1>1, <1>2, <1>4 DEF Records
<1>6. SameRecord(old, C[d]) /\ C[d].status = old.status /\ C[d].round = old.round
      /\ C[d].replicators = V
  BY <1>4 DEF SameRecord
<1>7. \A e \in DOMAIN candidate : SameRecord(candidate[e], candidate[e])
  BY DEF SameRecord
<1>8. Restated(candidate, C)
  BY <1>3, <1>6, <1>7 DEF Restated
<1>9. RecordsOK(C, begun)
  BY <1>2, <1>3, <1>5, <1>6 DEF Inv, RecordsOK
<1>10. ASSUME forgotten = 0 PROVE Proven(C[d])
  <2>1. EvidenceOK(task, reports, candidate)
    BY <1>10, JudgeFacts
  <2>2. EvidenceOK(task, R, candidate)
    BY <2>1, RecordedEvidence DEF R
  <2>3. t \in DOMAIN task /\ d \in Deltas
    BY JudgeFacts
  <2>4. Audited(old) /\ ReplayTask(d) \in DOMAIN task
    BY <2>1, <2>3 DEF EvidenceOK
  <2>5. Earned(old)
    BY <2>1, <2>3, <2>4, TaskNames DEF EvidenceOK
  <2>6. NodesOf(old.replay) \cap NodesOf(old.trainers) = {}
    BY <2>1 DEF EvidenceOK
  <2>7. Earned(C[d]) /\ Audited(C[d]) /\ Barred(C[d]) = Barred(old)
    BY <1>6, <2>4, <2>5, SameEvidence
  <2>8. \A n \in NodesOf(V) : n \notin Barred(old)
    <3> TAKE n \in NodesOf(V)
    <3>1. PICK r \in R : r.node = n /\ r.task.stage = "replicate" /\ r.task.delta = d
      BY Judges DEF V, R
    <3> QED
      BY <2>2, <3>1 DEF EvidenceOK
  <2> QED
    BY <1>1, <1>6, <2>6, <2>7, <2>8 DEF Proven, SameRecord
<1> QED
  BY <1>8, <1>9, <1>10 DEF C

(* A promotion.                                                            *)
LEMMA AppendedOK ==
  ASSUME contributions \in Seq(Promotions), checkpoint \in Seq(Kinds),
         NEW d \in Deltas, NEW c \in Records, d.base = checkpoint,
         contributions' = Append(contributions, Contribution(d, c)),
         checkpoint' = Append(checkpoint, d.kind)
  PROVE  /\ contributions' \in Seq(Promotions) /\ checkpoint' \in Seq(Kinds)
         /\ Promoted' \subseteq Promoted \cup {c}
<1>1. d.kind \in Kinds
  BY DEF Deltas
<1>2. checkpoint' \in Seq(Kinds)
  BY <1>1
<1>3. Contribution(d, c) \in Promotions /\ Contribution(d, c).evidence = c
  BY <1>1 DEF Contribution, Promotions
<1>4. contributions' \in Seq(Promotions)
  BY <1>3
<1>5. \A i \in DOMAIN contributions' :
        \/ i \in DOMAIN contributions /\ contributions'[i] = contributions[i]
        \/ contributions'[i].evidence = c
  BY <1>3
<1> QED
  BY <1>2, <1>4, <1>5 DEF Promoted

LEMMA PromoteOnward ==
  ASSUME Inv, NEW t \in LeasedTasks, t.stage = "replicate", NEW v,
         t.delta \in DOMAIN candidate, task[t].holder \notin Barred(candidate[t.delta]),
         Consensus(Record(t, v), t, v),
         NEW T, NEW R, QueueOK(T, R), task' = T, t.delta.base = checkpoint,
         candidate' = WithStatus(Confirmed(t, v), t.delta, "promoted"), round' = NoRound,
         checkpoint' = Append(checkpoint, t.delta.kind),
         contributions' = Append(contributions, Contribution(t.delta, Confirmed(t, v)[t.delta]))
  PROVE  /\ Onward(T, R, candidate)
         /\ checkpoint' \in Seq(Kinds) /\ contributions' \in Seq(Promotions)
         /\ forgotten = 0 => \A c \in Promoted' : Proven(c)
<1> DEFINE C == Confirmed(t, v)
           d == t.delta
<1>1. /\ RecordsOK(C, begun) /\ Restated(candidate, C)
      /\ forgotten = 0 => Proven(C[d])
  BY ConfirmedOK
<1>2. /\ checkpoint \in Seq(Kinds) /\ contributions \in Seq(Promotions) /\ d \in Deltas
  BY JudgeFacts
<1> HIDE DEF C
<1>3. C[d] \in Records
  BY <1>1 DEF RecordsOK, Restated
<1>4. Restated(C, candidate') /\ RecordsOK(candidate', begun)
  BY <1>1, WithStatusOK DEF Statuses, C
<1>5. Restated(candidate, candidate')
  BY <1>1, <1>4, RestatedTwice
<1>6. Onward(T, R, candidate)
  BY <1>4, <1>5, RestatedOnward
<1>7. /\ contributions' \in Seq(Promotions) /\ checkpoint' \in Seq(Kinds)
      /\ Promoted' \subseteq Promoted \cup {C[d]}
  BY <1>2, <1>3, AppendedOK DEF C
<1>8. forgotten = 0 => \A c \in Promoted' : Proven(c)
  BY <1>1, <1>7 DEF Inv
<1> QED
  BY <1>6, <1>7, <1>8

LEMMA ReplicationInv ==
  ASSUME Inv, NEW t \in LeasedTasks, NEW v, ReportReplication(t, v)
  PROVE  Inv'
<1> DEFINE d == t.delta
           R == Record(t, v)
           C == Confirmed(t, v)
           T == Completed(t)
<1>1. /\ t.stage = "replicate" /\ d \in DOMAIN candidate
      /\ task[t].holder \notin Barred(candidate[d]) /\ reports' = R
      /\ UNCHANGED <<begun, forgotten, crashes>>
  BY DEF ReportReplication, bounds
<1>2. QueueOK(T, R) /\ OneReport(R)
  BY <1>1, RecordedOK, RecordFacts DEF Inv
<1>3. DOMAIN T = DOMAIN task /\ DOMAIN task # {}
  BY <1>1, JudgeFacts DEF Completed
<1>4. checkpoint \in Seq(Kinds) /\ contributions \in Seq(Promotions) /\ crashes \in Nat
  BY <1>1, JudgeFacts
<1>5. contributions' = contributions => (forgotten = 0 => \A c \in Promoted' : Proven(c))
  BY DEF Inv, Promoted
<1>6. forgotten = 0 => EvidenceOK(T, R, candidate)
  BY <1>1, JudgeFacts, RecordedEvidence
<1>7. CASE task' = T /\ UNCHANGED <<checkpoint, round, candidate, contributions>>
  <2>1. Onward(T, R, candidate)
    BY <1>2, <1>7 DEF Onward, Inv
  <2> HIDE DEF R, T
  <2> QED
    BY <1>1, <1>2, <1>3, <1>4, <1>5, <1>6, <1>7, <2>1, OnwardInv
<1>8. CASE Consensus(R, t, v) /\ Promote(d, C) /\ task' = T
  <2>1. /\ Onward(T, R, candidate)
        /\ checkpoint' \in Seq(Kinds) /\ contributions' \in Seq(Promotions)
        /\ forgotten = 0 => \A c \in Promoted' : Proven(c)
    BY <1>1, <1>2, <1>8, PromoteOnward DEF Promote
  <2> HIDE DEF R, T
  <2> QED
    BY <1>1, <1>2, <1>3, <1>4, <1>6, <2>1, OnwardInv
<1>9. CASE Consensus(R, t, v) /\ FailReplication(C, d, T)
  <2>1. RecordsOK(C, begun) /\ Restated(candidate, C)
    BY <1>1, <1>9, ConfirmedOK
  <2>2. /\ Restated(C, WithStatus(C, d, "rejected"))
        /\ RecordsOK(WithStatus(C, d, "rejected"), begun)
    BY <2>1, WithStatusOK DEF Statuses, Evaluated
  <2>3. /\ Restated(WithStatus(C, d, "rejected"), candidate')
        /\ RecordsOK(candidate', begun) /\ round' = NoRound
    BY <1>9, <2>2, CloseOK DEF FailReplication
  <2>4. Restated(candidate, candidate')
    BY <2>1, <2>2, <2>3, RestatedTwice
  <2>5. Onward(T, R, candidate)
    BY <1>2, <1>9, <2>3, <2>4, RestatedOnward DEF FailReplication
  <2>6. UNCHANGED <<checkpoint, contributions>>
    BY <1>9 DEF FailReplication
  <2> HIDE DEF R, T
  <2> QED
    BY <1>1, <1>2, <1>3, <1>4, <1>5, <1>6, <2>5, <2>6, OnwardInv
<1> QED
  BY <1>7, <1>8, <1>9 DEF ReportReplication, Confirmed
-----------------------------------------------------------------------------
(***************************************************************************)
(* Search reports.                                                         *)
(***************************************************************************)
LEMMA SearchFacts ==
  ASSUME Inv, NEW t \in LeasedTasks, t.stage = "search", NEW k \in Trained[t.slot]
  PROVE  /\ t \in DOMAIN task /\ t \in TaskSet /\ k \in Kinds /\ t.round \in 1..begun
         /\ IsFiniteSet(ReportsOn(Record(t, k), t))
         /\ \A r \in ReportsOn(Record(t, k), t) :
              /\ r.value \in Kinds /\ r.node \in Nodes
              /\ r.task \in TaskSet /\ r.task \in DOMAIN task
<1> DEFINE R == Record(t, k)
<1>1. t \in DOMAIN task /\ t \in TaskSet /\ Named(t)
  BY LeasedFacts DEF Inv
<1>2. t.slot \in Slots
  BY <1>1 DEF Named
<1>3. k \in Kinds
  BY <1>2, Constants
<1>4. /\ \A r \in R : ReportOK(r) /\ (r \in reports \/ r.task = t)
      /\ IsFiniteSet(R)
  BY <1>3, RecordFacts DEF Inv
<1> HIDE DEF R
<1>5. ReportsOn(R, t) \subseteq R /\ \A r \in ReportsOn(R, t) : SameWork(r.task, t)
  BY DEF ReportsOn
<1>6. IsFiniteSet(ReportsOn(R, t))
  BY <1>4, <1>5, FS_Subset
<1>7. \A r \in ReportsOn(R, t) : r.task \in TaskSet /\ r.node \in Nodes
  BY <1>4, <1>5 DEF ReportOK
<1>8. \A r \in ReportsOn(R, t) : r.value \in Kinds
  BY <1>1, <1>4, <1>5, <1>7, WorkFields DEF ReportOK
<1>9. \A r \in R : r.task \in DOMAIN task
  BY <1>1, <1>4 DEF Inv, QueueOK
<1>10. t.round \in 1..begun
  BY <1>1 DEF Inv, RestOK
<1> QED
  BY <1>1, <1>3, <1>5, <1>6, <1>7, <1>8, <1>9, <1>10 DEF R

(* The deltas found, the round that lists them, the records made of them.    *)
Found(t, k) == FoundIn(Record(t, k), t)
Listed(t, k) ==
  [round EXCEPT !.candidates = Found(t, k), !.status = "blind-global-verification"]

LEMMA FoundFacts ==
  ASSUME Inv, NEW t \in LeasedTasks, t.stage = "search", NEW k \in Trained[t.slot],
         SearchEnds(Record(t, k), t)
  PROVE  /\ Found(t, k) \subseteq Deltas /\ IsFiniteSet(Found(t, k))
         /\ \A d \in Found(t, k) : \E r \in Agreeing(Record(t, k), t, d.kind) : r.task \in DOMAIN task
         /\ \A d \in Found(t, k), u \in TaskSet :
              /\ NewCandidate(Record(t, k), t, d, u) \in Records
              /\ NewCandidate(Record(t, k), t, d, u).round \in 1..begun
              /\ NewCandidate(Record(t, k), t, d, u).status = "global-verification"
              /\ NewCandidate(Record(t, k), t, d, u).replay = {}
         /\ round # NoRound
         /\ Listed(t, k) \in RoundSet /\ Listed(t, k).id \in 1..begun
         /\ Listed(t, k).candidates = Found(t, k)
         /\ Listed(t, k).status # "independent-search"
<1> DEFINE R == Record(t, k)
           found == Found(t, k)
           S == ReportsOn(R, t)
           next == Listed(t, k)
<1>1. /\ t.round \in 1..begun /\ IsFiniteSet(S)
      /\ \A r \in S : r.value \in Kinds /\ r.node \in Nodes /\ r.task \in TaskSet /\ r.task \in DOMAIN task
  BY SearchFacts
<1>2. round # NoRound
  BY DEF SearchEnds
<1>3. round \in RoundSet /\ round.id \in 1..begun /\ begun \in Nat
  BY <1>2 DEF Inv, RoundOK, RestOK
<1>4. found = {[base |-> round.base, kind |-> r.value] : r \in S}
  BY DEF Found, FoundIn
<1>14. next = [round EXCEPT !.candidates = found, !.status = "blind-global-verification"]
  BY DEF Listed
<1>5. \A d \in found : \E r \in Agreeing(R, t, d.kind) : r.task \in DOMAIN task
  <2> TAKE d \in found
  <2>1. PICK r \in S : d = [base |-> round.base, kind |-> r.value]
    BY <1>4
  <2>2. r \in Agreeing(R, t, d.kind)
    BY <2>1 DEF Agreeing
  <2> QED
    BY <1>1, <2>1, <2>2
<1>6. \A d : Agreeing(R, t, d.kind) \subseteq S
  BY DEF Agreeing
<1>7. \A d : Stamps(Agreeing(R, t, d.kind)) \in SUBSET StampSet
  BY <1>1, <1>6 DEF Stamps, Stamp, StampSet
<1> HIDE DEF R, S, found, next
<1>8. found \subseteq Deltas
  BY <1>1, <1>3, <1>4 DEF Deltas, RoundSet
<1>9. IsFiniteSet(found)
  <2> DEFINE f == [r \in S |-> [base |-> round.base, kind |-> r.value]]
  <2>1. f \in Surjection(S, found)
    BY <1>4 DEF Surjection
  <2> HIDE DEF f
  <2> QED
    BY <1>1, <2>1, FS_Surjection
<1>10. \A d \in found, u \in TaskSet :
         /\ NewCandidate(R, t, d, u) \in Records
         /\ NewCandidate(R, t, d, u).round \in 1..begun
         /\ NewCandidate(R, t, d, u).status = "global-verification"
         /\ NewCandidate(R, t, d, u).replay = {}
  BY <1>1, <1>3, <1>7 DEF NewCandidate, Records, Statuses
<1>12. next \in RoundSet
  BY <1>3, <1>8, <1>14 DEF RoundSet
<1>13. next.candidates = found /\ next.id = round.id /\ next.status = "blind-global-verification"
  BY <1>3, <1>14 DEF RoundSet
<1> QED
  BY <1>2, <1>3, <1>5, <1>8, <1>9, <1>10, <1>12, <1>13 DEF R, found, next

(* C has records of the found deltas S, made from the tasks f.              *)
Recorded(t, k, S, f, C) ==
  /\ S \subseteq Found(t, k) /\ Found(t, k) \cap DOMAIN candidate = {}
  /\ \A d \in S : f[d] \in TaskSet
  /\ DOMAIN C = DOMAIN candidate \cup S
  /\ \A d \in DOMAIN C : C[d] = IF d \in S THEN NewCandidate(Record(t, k), t, d, f[d])
                                           ELSE candidate[d]

LEMMA EntersRecords ==
  ASSUME Inv, NEW t \in LeasedTasks, t.stage = "search", NEW k \in Trained[t.slot],
         SearchEnds(Record(t, k), t), NEW S, NEW f, NEW C, Recorded(t, k, S, f, C)
  PROVE  RecordsOK(C, begun) /\ Enters(candidate, C)
<1>1. \A d \in S : d \in Deltas /\ C[d] \in Records /\ C[d].round \in 1..begun
                   /\ C[d].status = "global-verification" /\ C[d].replay = {}
  <2> TAKE d \in S
  <2>1. d \in DOMAIN C /\ f[d] \in TaskSet /\ d \in Found(t, k)
    BY DEF Recorded
  <2>2. C[d] = NewCandidate(Record(t, k), t, d, f[d])
    BY <2>1 DEF Recorded
  <2>3. /\ Found(t, k) \subseteq Deltas
        /\ \A e \in Found(t, k), u \in TaskSet :
              /\ NewCandidate(Record(t, k), t, e, u) \in Records
              /\ NewCandidate(Record(t, k), t, e, u).round \in 1..begun
              /\ NewCandidate(Record(t, k), t, e, u).status = "global-verification"
              /\ NewCandidate(Record(t, k), t, e, u).replay = {}
    BY FoundFacts
  <2> QED
    BY <2>1, <2>2, <2>3
<1>2. /\ \A d \in DOMAIN candidate : d \notin S /\ C[d] = candidate[d]
      /\ DOMAIN C = DOMAIN candidate \cup S
  BY DEF Recorded
<1>3. RecordsOK(C, begun)
  BY <1>1, <1>2 DEF Inv, RecordsOK
<1>4. Enters(candidate, C)
  BY <1>1, <1>2 DEF Enters
<1> QED
  BY <1>3, <1>4

LEMMA SearchInv ==
  ASSUME Inv, NEW t \in LeasedTasks, NEW k, ReportSearch(t, k)
  PROVE  Inv'
<1> DEFINE R == Record(t, k)
           found == Found(t, k)
           T == Completed(t)
           fresh == VerifyTasks(found)
<1>1. /\ t.stage = "search" /\ k \in Trained[t.slot] /\ reports' = R
      /\ UNCHANGED <<checkpoint, contributions, begun, forgotten, crashes>>
  BY DEF ReportSearch, bounds
<1>2. QueueOK(T, R) /\ OneReport(R)
  BY <1>1, SearchFacts, RecordedOK, RecordFacts DEF Inv
<1>3. t \in DOMAIN task /\ DOMAIN T = DOMAIN task
  BY <1>1, SearchFacts DEF Completed
<1>4. Promoted' = Promoted
  BY <1>1 DEF Promoted
<1>5. \A C : EvidenceOK(task, reports, C) => EvidenceOK(T, R, C)
  BY <1>1, RecordedEvidence
<1>6. CASE task' = T /\ UNCHANGED <<candidate, round>>
  <2>1. RestOK' /\ Entrants' = Entrants
    BY <1>1, <1>3, <1>6 DEF Inv, RestOK, Entrants
  <2> HIDE DEF R, T
  <2> QED
    BY <1>1, <1>2, <1>4, <1>5, <1>6, <2>1 DEF Inv
<1>7. CASE ~(task' = T /\ UNCHANGED <<candidate, round>>)
  <2>1. /\ SearchEnds(R, t) /\ found \cap DOMAIN candidate = {}
        /\ round' = Listed(t, k)
    BY <1>7 DEF ReportSearch, Found, Listed
  <2>2. PICK source \in [found -> {r.task : r \in ReportsOn(R, t)}] :
          /\ DOMAIN candidate' = DOMAIN candidate \cup found
          /\ \A d \in DOMAIN candidate' :
               candidate'[d] = IF d \in found THEN NewCandidate(R, t, d, source[d])
                                              ELSE candidate[d]
          /\ DOMAIN task' = DOMAIN task \cup fresh
          /\ \A u \in DOMAIN task' :
               task'[u] = IF u \in DOMAIN task THEN T[u]
                          ELSE Queued(NodesOf(candidate'[u.delta].trainers))
    <3> HIDE DEF R, T
    <3> QED
      BY <1>7 DEF ReportSearch, Found, R, T
  <2>3. found \subseteq Deltas
    BY <1>1, <2>1, FoundFacts
  <2>4. RecordsOK(candidate', begun) /\ Enters(candidate, candidate')
        /\ DOMAIN candidate' = DOMAIN candidate \cup found
    <3>1. \A d \in found : source[d] \in TaskSet
      BY <1>1, <2>2, SearchFacts
    <3>2. Recorded(t, k, found, source, candidate')
      BY <2>1, <2>2, <3>1 DEF Recorded
    <3>3. RecordsOK(candidate', begun) /\ Enters(candidate, candidate')
      BY <1>1, <2>1, <3>2, EntersRecords
    <3> QED
      BY <2>2, <3>3
  <2>5. round' \in RoundSet /\ round'.id \in 1..begun /\ round'.status # "independent-search"
        /\ round'.candidates = found
    BY <1>1, <2>1, FoundFacts
  <2>6. RoundOK(round', begun') /\ Entrants' \subseteq DOMAIN candidate'
    BY <1>1, <2>4, <2>5 DEF RoundOK, Entrants
  <2>7. \A u \in fresh : u \in TaskSet /\ Named(u) /\ u.stage = "verify" /\ u.delta \in found
    <3> TAKE u \in fresh
    <3>1. PICK d \in found, s \in 0..(Quorum - 1) : u = VerifyTask(d, s)
      BY DEF VerifyTasks
    <3>2. d \in Deltas /\ s \in Nat
      BY <2>3, Constants
    <3>3. u \in TaskSet /\ u.stage = "verify" /\ u.delta = d
      BY <3>1, <3>2, TaskNames
    <3>4. u.slot = s
      BY <3>1 DEF VerifyTask
    <3> QED
      BY <3>1, <3>2, <3>3, <3>4 DEF Named
  <2> HIDE DEF fresh, T
  <2>9. Grows(T, task')
    <3>1. DOMAIN task' = DOMAIN T \cup fresh /\ \A u \in DOMAIN T : task'[u] = T[u]
      BY <1>3, <2>2
    <3>2. \A u \in fresh : candidate'[u.delta].trainers \subseteq StampSet
      BY <2>4, <2>7 DEF RecordsOK, Records
    <3>3. \A u \in fresh : NodesOf(candidate'[u.delta].trainers) \in SUBSET Nodes
      BY <3>2 DEF NodesOf, StampSet
    <3>4. \A X \in SUBSET Nodes : Queued(X) \in Row /\ Queued(X).status = "queued"
      BY DEF Queued, Row
    <3>5. \A u \in DOMAIN task' \ DOMAIN T :
            u \in fresh /\ task'[u] = Queued(NodesOf(candidate'[u.delta].trainers))
      BY <1>3, <2>2
    <3>6. \A u \in DOMAIN task' \ DOMAIN T : task'[u] \in Row /\ task'[u].status = "queued"
      BY <3>3, <3>4, <3>5
    <3> QED
      BY <2>7, <3>1, <3>5, <3>6 DEF Grows
  <2>10. QueueOK(task', reports')
    BY <1>1, <1>2, <2>9, GrowsOK
  <2>11. \A u \in DOMAIN task' \ DOMAIN T : u \in fresh
    BY <1>3, <2>2
  <2>12. RestOK'
    <3>1. \A u \in DOMAIN task' : u.stage = "search" => u \in DOMAIN task
      BY <1>3, <2>7, <2>11
    <3>2. begun # 0
      BY <1>3 DEF Inv, RestOK
    <3> QED
      BY <1>1, <3>1, <3>2 DEF Inv, RestOK
  <2>13. ASSUME forgotten = 0 PROVE EvidenceOK(task', reports', candidate')
    <3>1. EvidenceOK(task, reports, candidate)
      BY <2>13 DEF Inv
    <3>2. EvidenceOK(task, reports, candidate')
      BY <2>4, <3>1, EntersEvidence DEF Inv
    <3>3. EvidenceOK(T, reports', candidate')
      BY <1>1, <1>5, <3>2
    <3>4. \A u \in DOMAIN task' \ DOMAIN T : Warranted(T, candidate', u, task'[u].excluded)
      BY <2>4, <2>7, <2>11 DEF Warranted
    <3> QED
      BY <2>9, <3>3, <3>4, GrowsEvidence
  <2> HIDE DEF R, found
  <2> QED
    BY <1>1, <1>2, <1>4, <2>4, <2>6, <2>10, <2>12, <2>13 DEF Inv
<1> QED
  BY <1>6, <1>7

LEMMA ReportInv ==
  ASSUME Inv, NEW t \in LeasedTasks, Report(t)
  PROVE  Inv'
<1>1. ASSUME NEW k, ReportSearch(t, k) \/ ReportReplay(t, k) PROVE Inv'
  BY <1>1, SearchInv, ReplayInv
<1>2. ASSUME NEW v, ReportVerification(t, v) \/ ReportReplication(t, v) PROVE Inv'
  BY <1>2, VerificationInv, ReplicationInv
<1> QED
  BY <1>1, <1>2 DEF Report
-----------------------------------------------------------------------------
(***************************************************************************)
(* Kills: the store moves on, the queue does not.                          *)
(***************************************************************************)
LEMMA KilledInv ==
  ASSUME Inv, DOMAIN task # {}, UNCHANGED <<database, begun, forgotten>>, crashes' \in Nat,
         NEW C, DOMAIN C = DOMAIN candidate, RecordsOK(C, begun),
         forgotten = 0 => EvidenceOK(task, reports, C),
         \/ candidate' = C
         \/ Restated(C, candidate') /\ RecordsOK(candidate', begun),
         round' \in {round, NoRound},
         checkpoint' \in Seq(Kinds), contributions' \in Seq(Promotions),
         forgotten = 0 => \A c \in Promoted' : Proven(c)
  PROVE  Inv'
<1>1. task' = task /\ reports' = reports
  BY DEF database
<1>2. QueueOK(task, reports) /\ OneReport(reports')
  BY <1>1 DEF Inv
<1>3. Onward(task, reports', C)
  <2>1. CASE candidate' = C
    BY <1>1, <1>2, <2>1 DEF Onward
  <2>2. CASE Restated(C, candidate') /\ RecordsOK(candidate', begun)
    BY <1>1, <1>2, <2>2, RestatedOnward
  <2> QED
    BY <2>1, <2>2
<1>4. forgotten = 0 => EvidenceOK(task, reports', C)
  BY <1>1
<1> QED
  BY <1>2, <1>3, <1>4, OnwardInv

LEMMA CrashInSearchRecords ==
  ASSUME Inv, NEW t \in LeasedTasks, NEW k, CrashInSearch(t, k)
  PROVE  \E S, f : /\ Recorded(t, k, S, f, candidate')
                   /\ \/ round' = round
                      \/ round' = Listed(t, k) /\ S = Found(t, k)
<1> DEFINE R == Record(t, k)
           found == Found(t, k)
           first(n) == {d \in found : Cardinality({e \in found :
                           HashOrder[e.kind] <= HashOrder[d.kind]}) <= n}
           f == [d \in found |-> CHOOSE u \in DOMAIN task :
                                   \E r \in Agreeing(R, t, d.kind) : r.task = u]
<1>1. /\ t.stage = "search" /\ k \in Trained[t.slot] /\ SearchEnds(R, t)
      /\ found \cap DOMAIN candidate = {}
      /\ UNCHANGED <<task, reports, checkpoint, contributions, begun, forgotten>>
  BY DEF CrashInSearch, Found, database
<1>2. PICK n \in 1..Cardinality(found) :
        /\ candidate' = [d \in DOMAIN candidate \cup first(n) |->
             IF d \in first(n)
               THEN NewCandidate(R, t, d, CHOOSE u \in DOMAIN task :
                      \E r \in Agreeing(R, t, d.kind) : r.task = u)
               ELSE candidate[d]]
        /\ \/ round' = round
           \/ round' = Listed(t, k) /\ n = Cardinality(found)
  BY DEF CrashInSearch, Found, Listed
<1>3. first(n) \subseteq found
  OBVIOUS
<1>4. /\ IsFiniteSet(found) /\ round # NoRound
      /\ \A d \in found : \E r \in Agreeing(R, t, d.kind) : r.task \in DOMAIN task
      /\ Listed(t, k) \in RoundSet /\ Listed(t, k).id \in 1..begun
      /\ Listed(t, k).candidates = found /\ Listed(t, k).status # "independent-search"
  BY <1>1, FoundFacts
<1>5. n = Cardinality(found) => first(n) = found
  <2> SUFFICES ASSUME n = Cardinality(found), NEW d \in found PROVE d \in first(n)
    BY <1>3
  <2> DEFINE below == {e \in found : HashOrder[e.kind] <= HashOrder[d.kind]}
  <2>1. below \subseteq found
    OBVIOUS
  <2>2. Cardinality(below) <= Cardinality(found)
    BY <1>4, <2>1, FS_Subset
  <2> QED
    BY <2>2
<1> HIDE DEF R, found, first
<1>6. \A d \in found : f[d] \in TaskSet
  <2> TAKE d \in found
  <2>1. \E u \in DOMAIN task : \E r \in Agreeing(R, t, d.kind) : r.task = u
    BY <1>4
  <2>2. f[d] \in DOMAIN task
    BY <2>1
  <2> QED
    BY <2>2 DEF Inv, QueueOK
<1>7. /\ DOMAIN candidate' = DOMAIN candidate \cup first(n)
      /\ \A d \in DOMAIN candidate' :
           candidate'[d] = IF d \in first(n) THEN NewCandidate(R, t, d, f[d]) ELSE candidate[d]
  BY <1>2, <1>3
<1> HIDE DEF f
<1>8. Recorded(t, k, first(n), f, candidate')
  BY <1>1, <1>3, <1>6, <1>7 DEF Recorded, R, found
<1>9. round' = round \/ (round' = Listed(t, k) /\ first(n) = found)
  BY <1>2, <1>5
<1> QED
  BY <1>8, <1>9 DEF found

LEMMA CrashInSearchInv ==
  ASSUME Inv, NEW t \in LeasedTasks, NEW k, CrashInSearch(t, k), crashes' \in Nat
  PROVE  Inv'
<1>1. /\ t.stage = "search" /\ k \in Trained[t.slot] /\ SearchEnds(Record(t, k), t)
      /\ UNCHANGED <<task, reports, checkpoint, contributions, begun, forgotten>>
  BY DEF CrashInSearch, database
<1>2. PICK S, f : /\ Recorded(t, k, S, f, candidate')
                  /\ \/ round' = round
                     \/ round' = Listed(t, k) /\ S = Found(t, k)
  BY CrashInSearchRecords
<1>3. RecordsOK(candidate', begun) /\ Enters(candidate, candidate')
  BY <1>1, <1>2, EntersRecords
<1>4. /\ round # NoRound /\ Listed(t, k) \in RoundSet /\ Listed(t, k).id \in 1..begun
      /\ Listed(t, k).candidates = Found(t, k) /\ Listed(t, k).status # "independent-search"
  BY <1>1, FoundFacts
<1>5. RoundOK(round', begun') /\ Entrants' \subseteq DOMAIN candidate'
  BY <1>1, <1>2, <1>4 DEF Inv, RoundOK, Entrants, Recorded
<1>6. forgotten = 0 => EvidenceOK(task, reports, candidate')
  BY <1>3, EntersEvidence DEF Inv
<1>7. RestOK' /\ Promoted' = Promoted
  BY <1>1 DEF Inv, RestOK, Promoted
<1> QED
  BY <1>1, <1>3, <1>5, <1>6, <1>7 DEF Inv

LEMMA CrashInVerificationInv ==
  ASSUME Inv, NEW t \in LeasedTasks, NEW v, CrashInVerification(t, v), crashes' \in Nat
  PROVE  Inv'
<1> DEFINE C == Judged(t, v)
<1>1. /\ t.stage = "verify" /\ v \in Evidence["verify"][t.delta.kind]
      /\ t.delta \in DOMAIN candidate /\ candidate[t.delta].status = "global-verification"
      /\ task[t].holder \notin NodesOf(candidate[t.delta].trainers)
      /\ Consensus(Record(t, v), t, v)
      /\ UNCHANGED <<database, begun, forgotten, checkpoint, contributions>>
  BY DEF CrashInVerification
<1>2. (candidate' = C /\ round' = round) \/ StoreSelection(C)
  BY DEF CrashInVerification, Judged
<1>3. /\ RecordsOK(C, begun) /\ DOMAIN C = DOMAIN candidate
      /\ forgotten = 0 => EvidenceOK(task, reports, C)
  BY <1>1, JudgedOK
<1>4. DOMAIN task # {} /\ checkpoint' \in Seq(Kinds) /\ contributions' \in Seq(Promotions)
  BY <1>1, JudgeFacts
<1>5. Promoted' = Promoted
  BY <1>1 DEF Promoted
<1>6. forgotten = 0 => \A c \in Promoted' : Proven(c)
  BY <1>5 DEF Inv
<1> HIDE DEF C
<1>7. /\ round' \in {round, NoRound}
      /\ \/ candidate' = C
         \/ Restated(C, candidate') /\ RecordsOK(candidate', begun)
  BY <1>2, <1>3, StoreSelectionOK
<1> QED
  BY <1>1, <1>3, <1>4, <1>6, <1>7, KilledInv

LEMMA CrashInReplayInv ==
  ASSUME Inv, NEW t \in LeasedTasks, NEW k, CrashInReplay(t, k), crashes' \in Nat
  PROVE  Inv'
<1>1. /\ t.stage = "replay" /\ t.delta \in DOMAIN candidate
      /\ UNCHANGED <<database, begun, forgotten, checkpoint, contributions>>
  BY DEF CrashInReplay
<1>2. PICK s \in {"replication-verification", "replay-failed"} :
        (candidate' = Replayed(t, s) /\ round' = round) \/ StoreSelection(Replayed(t, s))
  BY DEF CrashInReplay, Replayed
<1> DEFINE C == Replayed(t, s)
<1>3. s \in Statuses \ {"global-verification", "accepted"}
  BY DEF Statuses, Evaluated, Selected
<1>4. /\ RecordsOK(C, begun) /\ DOMAIN C = DOMAIN candidate
      /\ forgotten = 0 => EvidenceOK(task, reports, C)
  BY <1>1, <1>3, ReplayedOK
<1>5. DOMAIN task # {} /\ checkpoint' \in Seq(Kinds) /\ contributions' \in Seq(Promotions)
  BY <1>1, JudgeFacts
<1>6. Promoted' = Promoted
  BY <1>1 DEF Promoted
<1>7. forgotten = 0 => \A c \in Promoted' : Proven(c)
  BY <1>6 DEF Inv
<1> HIDE DEF C
<1>8. /\ round' \in {round, NoRound}
      /\ \/ candidate' = C
         \/ Restated(C, candidate') /\ RecordsOK(candidate', begun)
  BY <1>2, <1>4, StoreSelectionOK DEF C
<1> QED
  BY <1>1, <1>4, <1>5, <1>7, <1>8, KilledInv

LEMMA CrashInReplicationInv ==
  ASSUME Inv, NEW t \in LeasedTasks, NEW v, CrashInReplication(t, v), crashes' \in Nat
  PROVE  Inv'
<1> DEFINE C == Confirmed(t, v)
           d == t.delta
<1>1. /\ t.stage = "replicate" /\ d \in DOMAIN candidate
      /\ task[t].holder \notin Barred(candidate[d]) /\ Consensus(Record(t, v), t, v)
      /\ UNCHANGED <<database, begun, forgotten>>
  BY DEF CrashInReplication
<1>2. RecordsOK(C, begun) /\ Restated(candidate, C)
  BY <1>1, ConfirmedOK
<1>3. /\ DOMAIN task # {} /\ d \in Deltas
      /\ checkpoint \in Seq(Kinds) /\ contributions \in Seq(Promotions)
      /\ forgotten = 0 => EvidenceOK(task, reports, candidate)
  BY <1>1, JudgeFacts
<1>4. QueueOK(task, reports) /\ RecordsOK(candidate, begun)
  BY DEF Inv
<1>5. contributions' = contributions => (forgotten = 0 => \A c \in Promoted' : Proven(c))
  BY DEF Inv, Promoted
<1>6. CASE /\ candidate' = WithStatus(C, d, "replicated")
           /\ d.base = checkpoint
           /\ checkpoint' \in {checkpoint, Append(checkpoint, d.kind)}
           /\ UNCHANGED <<round, contributions>>
  <2>1. Restated(C, candidate') /\ RecordsOK(candidate', begun)
    BY <1>2, <1>6, WithStatusOK DEF Statuses
  <2>2. Restated(candidate, candidate')
    BY <1>2, <2>1, RestatedTwice
  <2>3. checkpoint' \in Seq(Kinds)
    BY <1>3, <1>6 DEF Deltas
  <2> QED
    BY <1>1, <1>3, <1>4, <1>5, <1>6, <2>1, <2>2, <2>3, KilledInv
<1>7. CASE /\ candidate' = WithStatus(C, d, "promoted")
           /\ d.base = checkpoint
           /\ checkpoint' = Append(checkpoint, d.kind)
           /\ contributions' = Append(contributions, Contribution(d, C[d]))
           /\ round' = NoRound
  <2>1. task' = task /\ reports' = reports
    BY <1>1 DEF database
  <2>2. /\ Onward(task, reports', candidate)
        /\ checkpoint' \in Seq(Kinds) /\ contributions' \in Seq(Promotions)
        /\ forgotten = 0 => \A c \in Promoted' : Proven(c)
    BY <1>1, <1>4, <1>7, <2>1, PromoteOnward
  <2>3. OneReport(reports') /\ (forgotten = 0 => EvidenceOK(task, reports', candidate))
    BY <1>3, <2>1 DEF Inv
  <2> QED
    BY <1>1, <1>3, <2>2, <2>3, OnwardInv
<1>8. CASE /\ candidate' \in {WithStatus(C, d, "replication-failed"), WithStatus(C, d, "rejected")}
           /\ UNCHANGED <<round, checkpoint, contributions>>
  <2>1. Restated(C, candidate') /\ RecordsOK(candidate', begun)
    BY <1>2, <1>8, WithStatusOK DEF Statuses, Evaluated
  <2>2. Restated(candidate, candidate')
    BY <1>2, <2>1, RestatedTwice
  <2> QED
    BY <1>1, <1>3, <1>4, <1>5, <1>8, <2>1, <2>2, KilledInv
<1>9. CASE Close(WithStatus(C, d, "rejected")) /\ UNCHANGED <<checkpoint, contributions>>
  <2>1. /\ Restated(C, WithStatus(C, d, "rejected"))
        /\ RecordsOK(WithStatus(C, d, "rejected"), begun)
    BY <1>2, WithStatusOK DEF Statuses, Evaluated
  <2>2. /\ Restated(WithStatus(C, d, "rejected"), candidate')
        /\ RecordsOK(candidate', begun) /\ round' = NoRound
    BY <1>9, <2>1, CloseOK
  <2>3. Restated(candidate, candidate')
    BY <1>2, <2>1, <2>2, RestatedTwice
  <2> QED
    BY <1>1, <1>3, <1>4, <1>5, <1>9, <2>2, <2>3, KilledInv
<1> QED
  BY <1>6, <1>7, <1>8, <1>9 DEF CrashInReplication, Confirmed

LEMMA CrashInv ==
  ASSUME Inv, Crash
  PROVE  Inv'
<1>1. crashes \in Nat /\ crashes' = crashes + 1 /\ checkpoint \in Seq(Kinds)
  BY DEF Crash, Inv, RestOK
<1>2. crashes' \in Nat
  BY <1>1
<1>3. CASE CrashInInstall(<< >>)
  BY <1>2, <1>3, SetInv DEF CrashInInstall
<1>4. CASE CrashInQueueMutation
  <2>1. /\ UNCHANGED <<checkpoint, candidate, contributions, task, reports, forgotten>>
        /\ begun' = begun + 1 /\ round = NoRound
        /\ round' = [id |-> begun + 1, base |-> checkpoint,
                     status |-> "independent-search", candidates |-> {}]
    BY <1>4 DEF CrashInQueueMutation, database
  <2> QED
    BY <1>2, <2>1, BeginInv
<1>5. ASSUME NEW t \in LeasedTasks, NEW k, CrashInSearch(t, k) \/ CrashInReplay(t, k) PROVE Inv'
  BY <1>2, <1>5, CrashInSearchInv, CrashInReplayInv
<1>6. ASSUME NEW t \in LeasedTasks, NEW v, CrashInVerification(t, v) \/ CrashInReplication(t, v)
      PROVE Inv'
  BY <1>2, <1>6, CrashInVerificationInv, CrashInReplicationInv
<1> QED
  BY <1>3, <1>4, <1>5, <1>6 DEF Crash
-----------------------------------------------------------------------------
(***************************************************************************)
(* Selection within a round.                                               *)
(***************************************************************************)
Chosen(T, C, d) == ReplayTask(d) \in DOMAIN T \/ C[d].status \in Selected

Replicated(T, d) == \E t \in DOMAIN T : t.stage = "replicate" /\ t.delta = d

(* It may still come to the final holdout, or has come to it.              *)
Live(T, d) ==
  /\ ReplayTask(d) \in DOMAIN T
  /\ T[ReplayTask(d)].status # "completed" \/ Replicated(T, d)

OrderOK(T, C, r) ==
  /\ \A d \in Ent(r) : C[d].round = r.id
  /\ r # NoRound => \A t \in DOMAIN T :
       t.stage # "search" /\ C[t.delta].round = r.id => t.delta \in Ent(r)
  /\ \A d, e \in Ent(r) : Chosen(T, C, d) =>
       /\ C[e].status # "global-verification"
       /\ C[e].status = "accepted" => C[d].score >= C[e].score
  /\ \A d, e \in DOMAIN C :
       Live(T, d) /\ Live(T, e) /\ C[d].round = C[e].round => d = e

(* While nothing was killed, all that is under way is the round's.          *)
CalmOK(T, C, r) ==
  /\ \A d \in DOMAIN C : C[d].status = "global-verification" => d \in Ent(r)
  /\ \A d \in DOMAIN C : C[d].status = "replication-verification" =>
       d \in Ent(r) /\ Replicated(T, d)
  /\ \A t \in DOMAIN T : t.stage = "replay" /\ T[t].status # "completed" => t.delta \in Ent(r)
  /\ \A t \in DOMAIN T : t.stage = "search" /\ T[t].status # "completed" =>
       r # NoRound /\ t.round = r.id /\ r.status = "independent-search"

Calm == forgotten = 0 /\ crashes = 0

OrderInv ==
  /\ Undisturbed => OrderOK(task, candidate, round)
  /\ Calm => CalmOK(task, candidate, round)

(* Tasks change hands or are completed.                                    *)
LEMMA RowsOrder ==
  ASSUME NEW T, NEW U, NEW C, NEW r, DOMAIN U = DOMAIN T,
         \A t \in DOMAIN T : T[t].status = "completed" => U[t].status = "completed"
  PROVE  /\ OrderOK(T, C, r) => OrderOK(U, C, r)
         /\ CalmOK(T, C, r) => CalmOK(U, C, r)
<1>1. \A d : Replicated(U, d) <=> Replicated(T, d)
  BY DEF Replicated
<1>2. \A d : Live(U, d) => Live(T, d)
  BY <1>1 DEF Live
<1>3. \A d : Chosen(U, C, d) <=> Chosen(T, C, d)
  BY DEF Chosen
<1>4. ASSUME OrderOK(T, C, r) PROVE OrderOK(U, C, r)
  BY <1>2, <1>3, <1>4 DEF OrderOK
<1>5. ASSUME CalmOK(T, C, r) PROVE CalmOK(U, C, r)
  BY <1>1, <1>5 DEF CalmOK
<1> QED
  BY <1>4, <1>5

(* Candidates get another status or other evidence, none is chosen.         *)
LEMMA StatusOrder ==
  ASSUME NEW T, NEW C, NEW D, NEW r, DOMAIN D = DOMAIN C, Ent(r) \subseteq DOMAIN C,
         \A t \in DOMAIN T : t.stage # "search" => t.delta \in DOMAIN C,
         \A d \in DOMAIN C :
           /\ D[d].round = C[d].round /\ D[d].score = C[d].score
           /\ D[d].status \in {"global-verification", "accepted"} => D[d].status = C[d].status
           /\ D[d].status \in Selected => Chosen(T, C, d)
  PROVE  /\ OrderOK(T, C, r) => OrderOK(T, D, r)
         /\ CalmOK(T, C, r) /\ (\A d \in DOMAIN C : D[d].status = "replication-verification" =>
                                  C[d].status = "replication-verification")
            => CalmOK(T, D, r)
<1>1. \A d \in DOMAIN C : Chosen(T, D, d) => Chosen(T, C, d)
  BY DEF Chosen
<1>2. ASSUME OrderOK(T, C, r) PROVE OrderOK(T, D, r)
  <2>1. \A d \in Ent(r) : D[d].round = r.id
    BY <1>2 DEF OrderOK
  <2>2. ASSUME r # NoRound, NEW t \in DOMAIN T, t.stage # "search", D[t.delta].round = r.id
        PROVE  t.delta \in Ent(r)
    BY <1>2, <2>2 DEF OrderOK
  <2>3. \A d, e \in Ent(r) : Chosen(T, D, d) =>
          /\ D[e].status # "global-verification"
          /\ D[e].status = "accepted" => D[d].score >= D[e].score
    BY <1>1, <1>2 DEF OrderOK
  <2>4. \A d, e \in DOMAIN D :
          Live(T, d) /\ Live(T, e) /\ D[d].round = D[e].round => d = e
    BY <1>2 DEF OrderOK
  <2> QED
    BY <2>1, <2>2, <2>3, <2>4 DEF OrderOK
<1>3. ASSUME CalmOK(T, C, r), \A d \in DOMAIN C : D[d].status = "replication-verification" =>
                                C[d].status = "replication-verification"
      PROVE  CalmOK(T, D, r)
  BY <1>3 DEF CalmOK
<1> QED
  BY <1>2, <1>3

(* The round ends.                                                         *)
LEMMA ClosedOrder ==
  ASSUME NEW T, NEW C, NEW D, NEW r, DOMAIN D = DOMAIN C, OrderOK(T, C, r),
         \A d \in DOMAIN C : D[d].round = C[d].round
  PROVE  OrderOK(T, D, NoRound)
BY DEF OrderOK, Ent

(* A new selection, or the end of the round, once no candidate is under way. *)
LEMMA SelectOrder ==
  ASSUME NEW T, NEW C, RecordsOK(C, begun), Entrants \subseteq DOMAIN C, SelectBest(C, T),
         OrderOK(T, C, round),
         \A e \in Entrants : ~Live(T, e) /\ C[e].status # "global-verification"
  PROVE  OrderOK(task', candidate', round')
<1>1. Ent(round) = Entrants
  BY DEF Ent, Entrants
<1>2. CASE Accepted(C) = {} /\ Close(C)  /\ task' = T
  <2>1. Restated(C, candidate') /\ round' = NoRound
    BY <1>2, CloseOK
  <2>2. DOMAIN candidate' = DOMAIN C /\ \A d \in DOMAIN C : candidate'[d].round = C[d].round
    BY <2>1 DEF Restated, SameRecord
  <2> QED
    BY <1>2, <2>1, <2>2, ClosedOrder
<1>3. CASE (\E d \in Best(C) : QueueReplay(C, d, T)) /\ UNCHANGED round
  <2> DEFINE D == candidate'
             U == task'
  <2>1. PICK d \in Best(C) : QueueReplay(C, d, T)
    BY <1>3
  <2>2. /\ d \in Entrants /\ C[d].status = "accepted"
        /\ \A e \in Accepted(C) : C[d].score >= C[e].score
    <3>1. d \in Accepted(C) /\ \A e \in Accepted(C) : Ahead(C, d, e)
      BY <2>1 DEF Best
    <3>2. \A e \in Accepted(C) \cup {d} : C[e].score \in Int
      BY <3>1 DEF Accepted, RecordsOK, Records
    <3> QED
      BY <3>1, <3>2 DEF Accepted, Ahead
  <2>3. \A e \in DOMAIN C : e \in Deltas
    BY DEF RecordsOK
  <2>4. /\ DOMAIN D = DOMAIN C
        /\ \A e \in DOMAIN C \ {d} : D[e] = C[e]
        /\ D[d].status = "replay-audit" /\ D[d].round = C[d].round /\ D[d].score = C[d].score
    <3>1. D = WithStatus(C, d, "replay-audit")
      BY <2>1 DEF QueueReplay
    <3>2. d \in DOMAIN C /\ C[d] \in Records
      BY <2>2 DEF RecordsOK
    <3> QED
      BY <3>1, <3>2 DEF WithStatus, Records
  <2>5. /\ DOMAIN U = DOMAIN T \cup {ReplayTask(d)}
        /\ \A t \in DOMAIN T : U[t] = T[t]
    BY <2>1 DEF QueueReplay, AddTasks
  <2> HIDE DEF D, U
  <2>6. /\ d \in Deltas /\ ReplayTask(d).stage = "replay" /\ ReplayTask(d).delta = d
        /\ \A e \in DOMAIN C : ReplayTask(e) = ReplayTask(d) => e = d
    BY <2>2, <2>3, TaskNames
  <2>7. \A e : Replicated(U, e) <=> Replicated(T, e)
    BY <2>5, <2>6 DEF Replicated
  <2>8. \A e \in DOMAIN C \ {d} : Live(U, e) => Live(T, e)
    BY <2>5, <2>6, <2>7 DEF Live
  <2>9. \A e \in DOMAIN C \ {d} : Chosen(U, D, e) => Chosen(T, C, e)
    BY <2>4, <2>5, <2>6 DEF Chosen
  <2>10. \A e \in DOMAIN D :
           /\ D[e].round = C[e].round /\ D[e].score = C[e].score
           /\ D[e].status = "accepted" => C[e].status = "accepted"
           /\ D[e].status = "global-verification" => C[e].status = "global-verification"
    BY <2>4
  <2>11. \A e \in Entrants : D[e].round = round.id
    BY <1>1, <2>10, <2>4 DEF OrderOK
  <2>12. ASSUME NEW t \in DOMAIN U, t.stage # "search", D[t.delta].round = round.id
         PROVE  t.delta \in Entrants
    <3>1. CASE t.delta = d
      BY <2>2, <3>1
    <3>2. CASE t.delta # d
      <4>1. t \in DOMAIN T
        BY <2>5, <2>6, <3>2
      <4>2. D[t.delta] = C[t.delta] \/ t.delta \notin DOMAIN C
        BY <2>4, <3>2
      <4>3. round # NoRound
        BY <2>2 DEF Entrants
      <4>4. CASE t.delta \in DOMAIN C
        BY <1>1, <2>12, <4>1, <4>2, <4>3, <4>4 DEF OrderOK
      <4>5. CASE t.delta \notin DOMAIN C
        BY <2>1, <2>12, <4>1, <4>3, <4>5, <1>1 DEF OrderOK, QueueReplay, WithStatus, D
      <4> QED
        BY <4>4, <4>5
    <3> QED
      BY <3>1, <3>2
  <2>13. ASSUME NEW x \in Entrants, NEW e \in Entrants, Chosen(U, D, x)
         PROVE  /\ D[e].status # "global-verification"
                /\ D[e].status = "accepted" => D[x].score >= D[e].score
    <3>1. x \in DOMAIN D /\ e \in DOMAIN D
      BY <2>4
    <3>2. D[e].status # "global-verification"
      BY <2>10, <3>1
    <3>3. CASE x = d
      BY <2>2, <2>10, <3>1, <3>2, <3>3 DEF Accepted
    <3>4. CASE x # d
      <4>1. Chosen(T, C, x)
        BY <2>4, <2>9, <2>13, <3>1, <3>4
      <4> QED
        BY <1>1, <2>10, <3>1, <3>2, <4>1 DEF OrderOK
    <3> QED
      BY <3>3, <3>4
  <2>14. \A x \in DOMAIN C : Live(T, x) => C[x].round # round.id
    <3> SUFFICES ASSUME NEW x \in DOMAIN C, Live(T, x), C[x].round = round.id PROVE FALSE
      OBVIOUS
    <3>1. ReplayTask(x) \in DOMAIN T /\ ReplayTask(x).stage = "replay" /\ ReplayTask(x).delta = x
      BY <2>3, TaskNames DEF Live
    <3>2. round # NoRound
      BY <2>2 DEF Entrants
    <3>3. x \in Entrants
      BY <1>1, <3>1, <3>2 DEF OrderOK
    <3> QED
      BY <3>3
  <2>15. ASSUME NEW x \in DOMAIN D, NEW y \in DOMAIN D, Live(U, x), Live(U, y), D[x].round = D[y].round
         PROVE  x = y
    <3>1. D[d].round = round.id
      BY <2>2, <2>11
    <3>2. x # d => Live(T, x) /\ C[x].round # round.id
      BY <2>4, <2>8, <2>14, <2>15
    <3>3. y # d => Live(T, y) /\ C[y].round # round.id
      BY <2>4, <2>8, <2>14, <2>15
    <3>4. C[x].round = C[y].round
      BY <2>10, <2>15
    <3>5. CASE x = d \/ y = d
      BY <2>10, <2>15, <3>1, <3>2, <3>3, <3>5
    <3>6. CASE x # d /\ y # d
      BY <2>4, <3>2, <3>3, <3>4, <3>6 DEF OrderOK
    <3> QED
      BY <3>5, <3>6
  <2>16. Ent(round') = Entrants /\ round' = round
    BY <1>1, <1>3
  <2> QED
    BY <2>11, <2>12, <2>13, <2>15, <2>16 DEF OrderOK, D, U
<1> QED
  BY <1>2, <1>3 DEF SelectBest

LEMMA SelectCalm ==
  ASSUME NEW T, NEW C, RecordsOK(C, begun), RoundOK(round, begun),
         Entrants \subseteq DOMAIN C, Entrants # {}, SelectBest(C, T), CalmOK(T, C, round),
         \A e \in Entrants : ~Live(T, e) /\ C[e].status # "global-verification",
         \A t \in DOMAIN T : t.stage = "replay" => t = ReplayTask(t.delta)
  PROVE  CalmOK(task', candidate', round')
<1>1. Ent(round) = Entrants
  BY DEF Ent, Entrants
<1>2. \A d \in DOMAIN C : C[d].status # "global-verification"
  BY <1>1 DEF CalmOK
<1>3. CASE Accepted(C) = {} /\ Close(C) /\ task' = T
  <2>1. /\ DOMAIN candidate' = DOMAIN C
        /\ \A d \in DOMAIN C : candidate'[d].status \in {C[d].status, "rejected"}
        /\ \A d \in Entrants : candidate'[d].status \in {"accepted", "rejected"}
    <3>1. DOMAIN candidate' = DOMAIN C
      BY <1>3 DEF Close
    <3>2. \A d \in DOMAIN C : C[d] \in Records
      BY DEF RecordsOK
    <3>3. \A d \in DOMAIN C : candidate'[d].status \in {C[d].status, "rejected"}
      BY <1>3, <3>2 DEF Close, Records
    <3>4. \A d \in Entrants : candidate'[d].status \in {"accepted", "rejected"}
      BY <1>3, <3>2 DEF Close, Records
    <3> QED
      BY <3>1, <3>3, <3>4
  <2>2. \A d \in DOMAIN candidate' :
          candidate'[d].status \notin {"global-verification", "replication-verification"}
    BY <1>1, <1>2, <2>1 DEF CalmOK
  <2>3. \A t \in DOMAIN T : t.stage = "replay" => T[t].status = "completed"
    BY <1>1 DEF CalmOK, Live
  <2>4. round.status # "independent-search"
    BY DEF RoundOK, Entrants
  <2>5. \A t \in DOMAIN T : t.stage = "search" => T[t].status = "completed"
    BY <2>4 DEF CalmOK
  <2> QED
    BY <1>3, <2>2, <2>3, <2>5 DEF CalmOK
<1>4. CASE (\E d \in Best(C) : QueueReplay(C, d, T)) /\ UNCHANGED round
  <2>1. PICK d \in Best(C) : QueueReplay(C, d, T)
    BY <1>4
  <2>2. d \in Entrants
    BY <2>1 DEF Best, Accepted
  <2>3. /\ DOMAIN candidate' = DOMAIN C
        /\ \A e \in DOMAIN C \ {d} : candidate'[e] = C[e]
        /\ candidate'[d].status = "replay-audit"
    <3>1. candidate' = WithStatus(C, d, "replay-audit")
      BY <2>1 DEF QueueReplay
    <3>2. d \in DOMAIN C /\ C[d] \in Records
      BY <2>2 DEF RecordsOK
    <3> QED
      BY <3>1, <3>2 DEF WithStatus, Records
  <2>4. /\ DOMAIN task' = DOMAIN T \cup {ReplayTask(d)}
        /\ \A t \in DOMAIN T : task'[t] = T[t]
    BY <2>1 DEF QueueReplay, AddTasks
  <2>5. ReplayTask(d).stage = "replay" /\ ReplayTask(d).delta = d
    BY <2>2, TaskNames DEF RecordsOK
  <2>6. \A e : Replicated(T, e) => Replicated(task', e)
    BY <2>4 DEF Replicated
  <2>7. \A e \in DOMAIN candidate' : candidate'[e].status # "global-verification"
    BY <1>2, <2>3
  <2>8. \A e \in DOMAIN candidate' : candidate'[e].status = "replication-verification" =>
          e \in Entrants /\ Replicated(task', e)
    BY <1>1, <2>3, <2>6 DEF CalmOK
  <2>9. \A t \in DOMAIN task' : t.stage = "replay" /\ task'[t].status # "completed" =>
          t.delta \in Entrants
    BY <1>1, <2>2, <2>4, <2>5 DEF CalmOK
  <2>10. \A t \in DOMAIN task' : t.stage = "search" /\ task'[t].status # "completed" =>
           round # NoRound /\ t.round = round.id /\ round.status = "independent-search"
    BY <2>4, <2>5 DEF CalmOK
  <2> QED
    BY <1>1, <1>4, <2>7, <2>8, <2>9, <2>10 DEF CalmOK
<1> QED
  BY <1>3, <1>4 DEF SelectBest

(* The same selection in the store only.                                   *)
LEMMA StoreOrder ==
  ASSUME NEW T, NEW C, RecordsOK(C, begun), Entrants \subseteq DOMAIN C, StoreSelection(C),
         OrderOK(T, C, round), \A e \in Entrants : C[e].status # "global-verification",
         \A t \in DOMAIN T : t.stage # "search" => t.delta \in DOMAIN C
  PROVE  OrderOK(T, candidate', round')
<1>1. Ent(round) = Entrants
  BY DEF Ent, Entrants
<1>2. CASE Accepted(C) = {} /\ Close(C)
  <2>1. Restated(C, candidate') /\ round' = NoRound
    BY <1>2, CloseOK
  <2>2. DOMAIN candidate' = DOMAIN C /\ \A d \in DOMAIN C : candidate'[d].round = C[d].round
    BY <2>1 DEF Restated, SameRecord
  <2> QED
    BY <2>1, <2>2, ClosedOrder
<1>3. CASE (\E d \in Best(C) : candidate' = WithStatus(C, d, "replay-audit")) /\ UNCHANGED round
  <2> DEFINE D == candidate'
  <2>1. PICK d \in Best(C) : D = WithStatus(C, d, "replay-audit")
    BY <1>3
  <2>2. /\ d \in Entrants /\ C[d].status = "accepted"
        /\ \A e \in Accepted(C) : C[d].score >= C[e].score
    <3>1. d \in Accepted(C) /\ \A e \in Accepted(C) : Ahead(C, d, e)
      BY <2>1 DEF Best
    <3>2. \A e \in Accepted(C) \cup {d} : C[e].score \in Int
      BY <3>1 DEF Accepted, RecordsOK, Records
    <3> QED
      BY <3>1, <3>2 DEF Accepted, Ahead
  <2>3. d \in DOMAIN C /\ C[d] \in Records
    BY <2>2 DEF RecordsOK
  <2> HIDE DEF D
  <2>4. /\ DOMAIN D = DOMAIN C
        /\ \A e \in DOMAIN C \ {d} : D[e] = C[e]
        /\ D[d].status = "replay-audit" /\ D[d].round = C[d].round /\ D[d].score = C[d].score
    BY <2>1, <2>3 DEF WithStatus, Records
  <2>5. \A e \in DOMAIN C :
          /\ D[e].round = C[e].round /\ D[e].score = C[e].score
          /\ D[e].status = "accepted" => C[e].status = "accepted"
          /\ D[e].status = "global-verification" => C[e].status = "global-verification"
    BY <2>4
  <2>6. ASSUME NEW x \in Entrants, NEW e \in Entrants, Chosen(T, D, x)
        PROVE  /\ D[e].status # "global-verification"
               /\ D[e].status = "accepted" => D[x].score >= D[e].score
    <3>1. x \in DOMAIN C /\ e \in DOMAIN C
      OBVIOUS
    <3>2. D[e].status # "global-verification"
      BY <2>5, <3>1
    <3>3. CASE x = d
      BY <2>2, <2>5, <3>1, <3>2, <3>3 DEF Accepted
    <3>4. CASE x # d
      <4>1. Chosen(T, C, x)
        BY <2>4, <2>6, <3>1, <3>4 DEF Chosen
      <4> QED
        BY <1>1, <2>5, <3>1, <3>2, <4>1 DEF OrderOK
    <3> QED
      BY <3>3, <3>4
  <2>7. \A x \in Entrants : D[x].round = round.id
    BY <1>1, <2>5 DEF OrderOK
  <2>8. round # NoRound => \A t \in DOMAIN T :
          t.stage # "search" /\ D[t.delta].round = round.id => t.delta \in Entrants
    BY <1>1, <2>5 DEF OrderOK
  <2>9. \A x, y \in DOMAIN D : Live(T, x) /\ Live(T, y) /\ D[x].round = D[y].round => x = y
    BY <2>4, <2>5 DEF OrderOK
  <2>10. Ent(round') = Entrants /\ round' = round
    BY <1>1, <1>3
  <2> QED
    BY <2>6, <2>7, <2>8, <2>9, <2>10 DEF OrderOK, D
<1> QED
  BY <1>2, <1>3 DEF StoreSelection
-----------------------------------------------------------------------------
(***************************************************************************)
(* The order within a round is kept by every step.                         *)
(***************************************************************************)
LEMMA ConditionFacts ==
  ASSUME Inv
  PROVE  /\ Undisturbed => forgotten = 0 /\ (crashes = 0 \/ begun <= 1)
         /\ Calm => Undisturbed /\ forgotten = 0 /\ crashes = 0
         /\ begun \in Nat /\ crashes \in Nat
         /\ forgotten = 0 => \A t \in DOMAIN task : t.stage # "search" => t.delta \in DOMAIN candidate
         /\ \A d \in DOMAIN candidate : candidate[d].round \in 1..begun /\ d \in Deltas
         /\ Entrants \subseteq DOMAIN candidate /\ Ent(round) = Entrants
BY DEF Inv, Undisturbed, Calm, RestOK, EvidenceOK, RecordsOK, Ent, Entrants

LEMMA QuietOrder ==
  ASSUME Inv, OrderInv, UNCHANGED <<candidate, round, begun, forgotten>>, DOMAIN task' = DOMAIN task,
         \A t \in DOMAIN task : task[t].status = "completed" => task'[t].status = "completed",
         crashes' \in {crashes, crashes + 1}
  PROVE  OrderInv'
<1>1. Undisturbed' => Undisturbed
  BY ConditionFacts DEF Undisturbed
<1>2. Calm' => Calm
  BY ConditionFacts DEF Calm
<1>3. /\ OrderOK(task, candidate, round) => OrderOK(task', candidate, round)
      /\ CalmOK(task, candidate, round) => CalmOK(task', candidate, round)
  BY RowsOrder
<1> QED
  BY <1>1, <1>2, <1>3 DEF OrderInv

LEMMA InstallOrder ==
  ASSUME Inv, OrderInv, InstallCheckpoint(<< >>)
  PROVE  OrderInv'
<1>1. /\ DOMAIN candidate' = {} /\ round' = NoRound /\ forgotten' = begun /\ task' = task
  BY DEF InstallCheckpoint, database
<1>2. ASSUME forgotten' = 0 PROVE DOMAIN task = {}
  BY <1>1, <1>2 DEF Inv, RestOK
<1>3. forgotten' = 0 => OrderOK(task', candidate', round') /\ CalmOK(task', candidate', round')
  BY <1>1, <1>2 DEF OrderOK, CalmOK, Ent
<1> QED
  BY <1>3 DEF OrderInv, Undisturbed, Calm

LEMMA BeginOrder ==
  ASSUME Inv, OrderInv, UNCHANGED <<candidate, forgotten>>, begun' = begun + 1, round = NoRound,
         round' = [id |-> begun + 1, base |-> checkpoint,
                   status |-> "independent-search", candidates |-> {}],
         \/ task' = task /\ crashes' = crashes + 1
         \/ task' = AddTasks(task, {SearchTask(begun + 1, s) : s \in Slots}, {}) /\ crashes' = crashes
  PROVE  OrderInv'
<1>1. begun \in Nat /\ crashes \in Nat /\ Ent(round') = {} /\ Ent(round) = {}
  BY ConditionFacts DEF Ent
<1>2. Undisturbed' => Undisturbed
  BY <1>1 DEF Undisturbed
<1>3. Calm' => Calm /\ crashes' = crashes
  BY <1>1 DEF Calm
<1>4. \A t \in {SearchTask(begun + 1, s) : s \in Slots} : t.stage = "search" /\ t.round = begun + 1
  BY DEF SearchTask
<1>5. /\ DOMAIN task \subseteq DOMAIN task'
      /\ \A t \in DOMAIN task : task'[t] = task[t]
      /\ \A t \in DOMAIN task' \ DOMAIN task : t.stage = "search" /\ t.round = begun + 1
  BY <1>4 DEF AddTasks
<1>6. \A d \in DOMAIN candidate : ReplayTask(d).stage = "replay"
  BY ConditionFacts, TaskNames
<1>7. \A d : Replicated(task', d) <=> Replicated(task, d)
  BY <1>5 DEF Replicated
<1>8. \A d \in DOMAIN candidate : Live(task', d) => Live(task, d)
  BY <1>5, <1>6, <1>7 DEF Live
<1>9. ASSUME Undisturbed' PROVE OrderOK(task', candidate', round')
  <2>1. OrderOK(task, candidate, round) /\ forgotten = 0
    BY <1>2, <1>9 DEF OrderInv, Undisturbed
  <2>2. \A t \in DOMAIN task' : t.stage # "search" => candidate[t.delta].round # begun + 1
    BY <1>1, <1>5, <2>1, ConditionFacts
  <2>3. \A d, e \in DOMAIN candidate :
          Live(task', d) /\ Live(task', e) /\ candidate[d].round = candidate[e].round => d = e
    BY <1>8, <2>1 DEF OrderOK
  <2> QED
    BY <1>1, <2>2, <2>3 DEF OrderOK
<1>10. ASSUME Calm' PROVE CalmOK(task', candidate', round')
  <2>1. CalmOK(task, candidate, round) /\ crashes' = crashes
    BY <1>3, <1>10 DEF OrderInv
  <2>2. \A t \in DOMAIN task' : t.stage = "search" /\ task'[t].status # "completed" =>
          t.round = begun + 1
    BY <1>5, <2>1 DEF CalmOK
  <2>3. round' # NoRound
    <3>1. checkpoint \in Seq(Kinds)
      BY DEF Inv, RestOK
    <3>2. round' \in RoundSet
      BY <1>1, <3>1 DEF RoundSet
    <3> QED
      BY <3>2, NoRoundAssumption DEF RoundSet, Deltas
  <2> QED
    BY <1>1, <1>5, <1>7, <2>1, <2>2, <2>3 DEF CalmOK
<1> QED
  BY <1>9, <1>10 DEF OrderInv

(* Nothing is selected while a candidate of the round is being verified.    *)
LEMMA VerifyAlone ==
  ASSUME Inv, OrderInv, Undisturbed, NEW t \in LeasedTasks, t.stage = "verify",
         t.delta \in DOMAIN candidate, candidate[t.delta].status = "global-verification"
  PROVE  \A e \in Entrants : ~Chosen(task, candidate, e)
<1> SUFFICES ASSUME NEW e \in Entrants, Chosen(task, candidate, e) PROVE FALSE
  OBVIOUS
<1>1. round # NoRound /\ t \in DOMAIN task
  BY JudgeFacts DEF Entrants
<1>2. round.id \in 1..begun /\ candidate[t.delta].round \in 1..begun /\ begun \in Nat
  BY <1>1, ConditionFacts DEF Inv, RoundOK
<1>3. OrderOK(task, candidate, round)
  BY DEF OrderInv
<1>4. t.delta \in Entrants
  <2>1. CASE crashes = 0
    BY <2>1, ConditionFacts DEF OrderInv, CalmOK, Calm
  <2>2. CASE begun <= 1
    <3>1. candidate[t.delta].round = round.id
      BY <1>2, <2>2
    <3> QED
      BY <1>1, <1>3, <3>1, ConditionFacts DEF OrderOK
  <2> QED
    BY <2>1, <2>2, ConditionFacts
<1> QED
  BY <1>3, <1>4, ConditionFacts DEF OrderOK

LEMMA JudgedFields ==
  ASSUME Inv, NEW t \in LeasedTasks, NEW v, t.delta \in DOMAIN candidate
  PROVE  /\ DOMAIN Judged(t, v) = DOMAIN candidate
         /\ \A e \in DOMAIN candidate : Judged(t, v)[e].round = candidate[e].round
         /\ \A e \in DOMAIN candidate \ {t.delta} : Judged(t, v)[e] = candidate[e]
         /\ Judged(t, v)[t.delta].status \in {"accepted", "rejected"}
<1>1. candidate[t.delta] \in Records
  BY DEF Inv, RecordsOK
<1>2. /\ DOMAIN Judged(t, v) = DOMAIN candidate
      /\ \A e \in DOMAIN candidate \ {t.delta} : Judged(t, v)[e] = candidate[e]
  BY DEF Judged
<1>3. /\ Judged(t, v)[t.delta].status \in {"accepted", "rejected"}
      /\ Judged(t, v)[t.delta].round = candidate[t.delta].round
  BY <1>1 DEF Judged, Records
<1> QED
  BY <1>2, <1>3

LEMMA JudgedOrder ==
  ASSUME Inv, OrderInv, Undisturbed, NEW t \in LeasedTasks, t.stage = "verify", NEW v,
         t.delta \in DOMAIN candidate, candidate[t.delta].status = "global-verification"
  PROVE  /\ OrderOK(task, Judged(t, v), round)
         /\ Calm => CalmOK(task, Judged(t, v), round)
         /\ \A e \in Entrants : ReplayTask(e) \notin DOMAIN task
<1> DEFINE C == Judged(t, v)
<1>1. OrderOK(task, candidate, round)
  BY DEF OrderInv
<1>2. \A e \in Entrants : ReplayTask(e) \notin DOMAIN task /\ candidate[e].status \notin Selected
  BY VerifyAlone DEF Chosen
<1>3. /\ DOMAIN C = DOMAIN candidate
      /\ \A e \in DOMAIN candidate : C[e].round = candidate[e].round
      /\ \A e \in DOMAIN candidate \ {t.delta} : C[e] = candidate[e]
      /\ C[t.delta].status \in {"accepted", "rejected"}
  BY JudgedFields
<1>4. Ent(round) = Entrants /\ Entrants \subseteq DOMAIN candidate
      /\ \A u \in DOMAIN task : u.stage # "search" => u.delta \in DOMAIN candidate
  BY ConditionFacts
<1> HIDE DEF C
<1>5. \A e \in Entrants : ~Chosen(task, C, e)
  BY <1>2, <1>3, <1>4 DEF Chosen, Selected
<1>6. OrderOK(task, C, round)
  <2>1. \A d \in Entrants : C[d].round = round.id
    BY <1>1, <1>3, <1>4 DEF OrderOK
  <2>2. round # NoRound => \A u \in DOMAIN task :
          u.stage # "search" /\ C[u.delta].round = round.id => u.delta \in Entrants
    BY <1>1, <1>3, <1>4 DEF OrderOK
  <2>3. \A d, e \in DOMAIN C :
          Live(task, d) /\ Live(task, e) /\ C[d].round = C[e].round => d = e
    BY <1>1, <1>3 DEF OrderOK
  <2> QED
    BY <1>4, <1>5, <2>1, <2>2, <2>3 DEF OrderOK
<1>7. ASSUME Calm PROVE CalmOK(task, C, round)
  <2>1. CalmOK(task, candidate, round)
    BY <1>7 DEF OrderInv
  <2>2. \A d \in DOMAIN C :
          C[d].status \in {"global-verification", "replication-verification"} => C[d] = candidate[d]
    BY <1>3
  <2> QED
    BY <1>3, <2>1, <2>2 DEF CalmOK
<1> QED
  BY <1>2, <1>6, <1>7 DEF C

LEMMA VerificationOrder ==
  ASSUME Inv, OrderInv, NEW t \in LeasedTasks, NEW v, ReportVerification(t, v)
  PROVE  OrderInv'
<1> DEFINE d == t.delta
           R == Record(t, v)
           C == Judged(t, v)
           T == Completed(t)
<1>1. /\ t.stage = "verify" /\ v \in Evidence["verify"][d.kind] /\ d \in DOMAIN candidate
      /\ task[t].holder \notin NodesOf(candidate[d].trainers)
      /\ UNCHANGED <<begun, forgotten, crashes>>
  BY DEF ReportVerification, bounds
<1>2. /\ DOMAIN T = DOMAIN task
      /\ \A u \in DOMAIN task : task[u].status = "completed" => T[u].status = "completed"
  BY CompletedRows DEF Inv
<1>3. CASE task' = T /\ UNCHANGED <<candidate, round>>
  BY <1>1, <1>2, <1>3, QuietOrder
<1>4. CASE /\ Consensus(R, t, v) /\ candidate[d].status = "global-verification" /\ Advance(C, T)
  <2>1. RecordsOK(C, begun) /\ DOMAIN C = DOMAIN candidate
    BY <1>1, <1>4, JudgedOK
  <2> HIDE DEF T
  <2>2. SUFFICES ASSUME Undisturbed
                 PROVE  /\ OrderOK(task', candidate', round')
                        /\ Calm => CalmOK(task', candidate', round')
    BY <1>1, ConditionFacts DEF OrderInv, Undisturbed, Calm
  <2>3. /\ OrderOK(task, C, round)
        /\ Calm => CalmOK(task, C, round)
        /\ \A e \in Entrants : ReplayTask(e) \notin DOMAIN task
    BY <1>1, <1>4, <2>2, JudgedOrder
  <2>4. /\ OrderOK(T, C, round)
        /\ Calm => CalmOK(T, C, round)
    BY <1>2, <2>3, RowsOrder
  <2>5. \A e \in Entrants : ~Live(T, e)
    BY <1>2, <2>3 DEF Live
  <2>6. Entrants \subseteq DOMAIN C /\ RoundOK(round, begun)
    BY <2>1 DEF Inv
  <2>7. \A u \in DOMAIN T : u.stage = "replay" => u = ReplayTask(u.delta)
    BY <1>2 DEF Inv, QueueOK, Named
  <2> HIDE DEF C
  <2>8. CASE candidate' = C /\ task' = T /\ UNCHANGED round
    BY <2>4, <2>8
  <2>9. CASE Entrants # {} /\ ~Undecided(C) /\ SelectBest(C, T)
    <3>1. \A e \in Entrants : ~Live(T, e) /\ C[e].status # "global-verification"
      BY <2>5, <2>9 DEF Undecided, Evaluated
    <3> QED
      BY <2>1, <2>4, <2>6, <2>7, <2>9, <3>1, SelectOrder, SelectCalm
  <2> QED
    BY <1>4, <2>8, <2>9 DEF Advance, C
<1> QED
  BY <1>3, <1>4 DEF ReportVerification, Judged

LEMMA CrashInVerificationOrder ==
  ASSUME Inv, OrderInv, NEW t \in LeasedTasks, NEW v, CrashInVerification(t, v),
         crashes' = crashes + 1
  PROVE  OrderInv'
<1> DEFINE d == t.delta
           C == Judged(t, v)
<1>1. /\ t.stage = "verify" /\ v \in Evidence["verify"][d.kind]
      /\ d \in DOMAIN candidate /\ candidate[d].status = "global-verification"
      /\ task[t].holder \notin NodesOf(candidate[d].trainers)
      /\ Consensus(Record(t, v), t, v)
      /\ UNCHANGED <<task, begun, forgotten>>
  BY DEF CrashInVerification, database
<1>2. \/ candidate' = C /\ round' = round
      \/ ~Undecided(C) /\ StoreSelection(C)
  BY DEF CrashInVerification, Judged
<1>3. RecordsOK(C, begun) /\ DOMAIN C = DOMAIN candidate
  BY <1>1, JudgedOK
<1>4. ~Calm' /\ (Undisturbed' => Undisturbed)
  BY <1>1, ConditionFacts DEF Calm, Undisturbed
<1>5. SUFFICES ASSUME Undisturbed PROVE OrderOK(task, candidate', round')
  BY <1>1, <1>4 DEF OrderInv
<1>6. OrderOK(task, C, round)
  BY <1>1, <1>5, JudgedOrder
<1>7. Entrants \subseteq DOMAIN C /\ \A u \in DOMAIN task : u.stage # "search" => u.delta \in DOMAIN C
  BY <1>3, <1>5, ConditionFacts
<1> HIDE DEF C
<1>8. ~Undecided(C) => \A e \in Entrants : C[e].status # "global-verification"
  BY DEF Undecided, Evaluated
<1> QED
  BY <1>2, <1>3, <1>6, <1>7, <1>8, StoreOrder

(* The candidate that is being replayed is the only one under way.          *)
LEMMA ReplayAlone ==
  ASSUME Inv, OrderInv, Undisturbed, NEW t \in LeasedTasks, t.stage = "replay"
  PROVE  /\ t.delta \in DOMAIN candidate
         /\ ReplayTask(t.delta) \in DOMAIN task /\ ~Replicated(task, t.delta)
         /\ \A e \in DOMAIN candidate :
              Live(task, e) /\ candidate[e].round = candidate[t.delta].round => e = t.delta
         /\ \A e \in Entrants : /\ t.delta \in Entrants
                                /\ Live(task, e) => e = t.delta
                                /\ candidate[e].status # "global-verification"
         /\ Calm => t.delta \in Entrants
<1> DEFINE d == t.delta
<1>1. /\ t \in DOMAIN task /\ t \in TaskSet /\ t = ReplayTask(d)
      /\ task[t].status = "assigned" /\ QueueOK(task, reports)
  BY LeasedFacts DEF Inv, Named
<1>2. EvidenceOK(task, reports, candidate) /\ OrderOK(task, candidate, round)
  BY ConditionFacts DEF Inv, OrderInv
<1>3. d \in DOMAIN candidate
  BY <1>1, ConditionFacts
<1>4. ~Replicated(task, d)
  BY <1>1, <1>2 DEF Replicated, EvidenceOK
<1>5. Live(task, d)
  BY <1>1 DEF Live
<1>6. \A e \in DOMAIN candidate : Live(task, e) /\ candidate[e].round = candidate[d].round => e = d
  BY <1>2, <1>3, <1>5 DEF OrderOK
<1>7. Calm => d \in Entrants
  BY <1>1, ConditionFacts DEF OrderInv, CalmOK
<1>8. ASSUME NEW e \in Entrants
      PROVE  d \in Entrants /\ (Live(task, e) => e = d) /\ candidate[e].status # "global-verification"
  <2>1. round # NoRound /\ e \in DOMAIN candidate
    BY <1>8, ConditionFacts DEF Entrants
  <2>2. d \in Entrants
    <3>1. CASE crashes = 0
      BY <1>7, <3>1, ConditionFacts DEF Calm
    <3>2. CASE begun <= 1
      <4>1. round.id \in 1..begun /\ candidate[d].round \in 1..begun /\ begun \in Nat
        BY <1>3, <2>1, ConditionFacts DEF Inv, RoundOK
      <4>2. candidate[d].round = round.id
        BY <3>2, <4>1
      <4> QED
        BY <1>1, <1>2, <2>1, <4>2, ConditionFacts DEF OrderOK
    <3> QED
      BY <3>1, <3>2, ConditionFacts
  <2>3. candidate[e].round = candidate[d].round
    BY <1>2, <2>2, <1>8, ConditionFacts DEF OrderOK
  <2>4. Chosen(task, candidate, d)
    BY <1>1 DEF Chosen
  <2> QED
    BY <1>2, <1>6, <1>8, <2>1, <2>2, <2>3, <2>4, ConditionFacts DEF OrderOK
<1> QED
  BY <1>1, <1>3, <1>4, <1>6, <1>7, <1>8

LEMMA ReplayedFields ==
  ASSUME Inv, NEW t \in LeasedTasks, NEW s, t.delta \in DOMAIN candidate
  PROVE  /\ DOMAIN Replayed(t, s) = DOMAIN candidate
         /\ \A e \in DOMAIN candidate : /\ Replayed(t, s)[e].round = candidate[e].round
                                        /\ Replayed(t, s)[e].score = candidate[e].score
         /\ \A e \in DOMAIN candidate \ {t.delta} : Replayed(t, s)[e] = candidate[e]
         /\ Replayed(t, s)[t.delta].status = s
<1>1. candidate[t.delta] \in Records
  BY DEF Inv, RecordsOK
<1>2. /\ DOMAIN Replayed(t, s) = DOMAIN candidate
      /\ \A e \in DOMAIN candidate \ {t.delta} : Replayed(t, s)[e] = candidate[e]
  BY DEF Replayed
<1>3. /\ Replayed(t, s)[t.delta].status = s
      /\ Replayed(t, s)[t.delta].round = candidate[t.delta].round
      /\ Replayed(t, s)[t.delta].score = candidate[t.delta].score
  BY <1>1 DEF Replayed, Records
<1> QED
  BY <1>2, <1>3

LEMMA ReplayedOrder ==
  ASSUME Inv, OrderInv, Undisturbed, NEW t \in LeasedTasks, t.stage = "replay",
         NEW s \in {"replication-verification", "replay-failed"}
  PROVE  /\ OrderOK(task, Replayed(t, s), round)
         /\ Calm /\ s = "replay-failed" => CalmOK(task, Replayed(t, s), round)
<1> DEFINE D == Replayed(t, s)
<1>1. /\ t.delta \in DOMAIN candidate /\ ReplayTask(t.delta) \in DOMAIN task
  BY ReplayAlone
<1>2. /\ DOMAIN D = DOMAIN candidate
      /\ \A e \in DOMAIN candidate : D[e].round = candidate[e].round /\ D[e].score = candidate[e].score
      /\ \A e \in DOMAIN candidate \ {t.delta} : D[e] = candidate[e]
      /\ D[t.delta].status = s
  BY <1>1, ReplayedFields
<1> HIDE DEF D
<1>3. \A e \in DOMAIN candidate :
        /\ D[e].status \in {"global-verification", "accepted"} => D[e].status = candidate[e].status
        /\ D[e].status \in Selected => Chosen(task, candidate, e)
        /\ s = "replay-failed" /\ D[e].status = "replication-verification" =>
             candidate[e].status = "replication-verification"
  BY <1>1, <1>2 DEF Chosen
<1>4. /\ OrderOK(task, candidate, round)
      /\ Calm => CalmOK(task, candidate, round)
      /\ Ent(round) \subseteq DOMAIN candidate
      /\ \A u \in DOMAIN task : u.stage # "search" => u.delta \in DOMAIN candidate
  BY ConditionFacts DEF OrderInv
<1>5. /\ OrderOK(task, D, round)
      /\ Calm /\ s = "replay-failed" => CalmOK(task, D, round)
  BY <1>2, <1>3, <1>4, StatusOrder
<1> QED
  BY <1>5 DEF D

LEMMA ReplayOrder ==
  ASSUME Inv, OrderInv, NEW t \in LeasedTasks, NEW k, ReportReplay(t, k)
  PROVE  OrderInv'
<1> DEFINE d == t.delta
           T == Completed(t)
<1>1. /\ t.stage = "replay" /\ d \in DOMAIN candidate
      /\ UNCHANGED <<begun, forgotten, crashes>>
  BY DEF ReportReplay, bounds
<1>2. SUFFICES ASSUME Undisturbed
               PROVE  /\ OrderOK(task', candidate', round')
                      /\ Calm => CalmOK(task', candidate', round')
  BY <1>1, ConditionFacts DEF OrderInv, Undisturbed, Calm
<1>3. /\ DOMAIN T = DOMAIN task
      /\ \A u \in DOMAIN task : task[u].status = "completed" => T[u].status = "completed"
      /\ T[ReplayTask(d)].status = "completed"
  BY <1>1, LeasedFacts, CompletedRows DEF Inv, Named
<1>4. /\ ReplayTask(d) \in DOMAIN task /\ ~Replicated(task, d)
      /\ \A e \in DOMAIN candidate : Live(task, e) /\ candidate[e].round = candidate[d].round => e = d
      /\ \A e \in Entrants : /\ d \in Entrants
                             /\ Live(task, e) => e = d
                             /\ candidate[e].status # "global-verification"
      /\ Calm => d \in Entrants
  BY <1>1, <1>2, ReplayAlone
<1>5. /\ \A e : Replicated(T, e) <=> Replicated(task, e)
      /\ \A e : Live(T, e) => Live(task, e)
  BY <1>3 DEF Replicated, Live
<1>6. ~Live(T, d)
  BY <1>3, <1>4, <1>5 DEF Live
<1>7. /\ OrderOK(task, candidate, round)
      /\ Calm => CalmOK(task, candidate, round)
  BY <1>2, ConditionFacts DEF OrderInv
<1>8. Entrants \subseteq DOMAIN candidate /\ Ent(round) = Entrants /\ d \in Deltas
  BY <1>1, ConditionFacts
<1> HIDE DEF T
<1>9. CASE SelectBest(Replayed(t, "replay-failed"), T)
  <2> DEFINE C == Replayed(t, "replay-failed")
  <2>1. RecordsOK(C, begun) /\ DOMAIN C = DOMAIN candidate
    BY <1>1, ReplayedOK DEF Statuses, Evaluated, Selected
  <2>2. OrderOK(task, C, round) /\ (Calm => CalmOK(task, C, round))
    BY <1>1, <1>2, ReplayedOrder
  <2>3. \A e \in DOMAIN candidate : C[e] = candidate[e] \/ C[e].status = "replay-failed"
    BY <1>1, ReplayedFields
  <2> HIDE DEF C
  <2>4. OrderOK(T, C, round) /\ (Calm => CalmOK(T, C, round))
    BY <1>3, <2>2, RowsOrder
  <2>5. \A e \in Entrants : ~Live(T, e) /\ C[e].status # "global-verification"
    BY <1>4, <1>5, <1>6, <1>8, <2>3
  <2>6. Entrants \subseteq DOMAIN C /\ RoundOK(round, begun) /\ SelectBest(C, T)
    BY <1>8, <1>9, <2>1 DEF Inv, C
  <2>7. \A u \in DOMAIN T : u.stage = "replay" => u = ReplayTask(u.delta)
    BY <1>3 DEF Inv, QueueOK, Named
  <2>8. OrderOK(task', candidate', round')
    BY <2>1, <2>4, <2>5, <2>6, SelectOrder
  <2>9. Calm => CalmOK(task', candidate', round')
    BY <1>4, <2>1, <2>4, <2>5, <2>6, <2>7, SelectCalm
  <2> QED
    BY <2>8, <2>9
<1>10. CASE /\ candidate' = Replayed(t, "replication-verification") /\ UNCHANGED round
            /\ task' = AddTasks(T, {ReplicateTask(d, s) : s \in 0..(Quorum - 1)},
                                Barred(candidate'[d]))
  <2> DEFINE C == candidate'
             U == task'
             S == {ReplicateTask(d, s) : s \in 0..(Quorum - 1)}
  <2>1. OrderOK(task, C, round)
    BY <1>1, <1>2, <1>10, ReplayedOrder
  <2>2. OrderOK(T, C, round)
    BY <1>3, <2>1, RowsOrder
  <2>3. /\ DOMAIN C = DOMAIN candidate
        /\ \A e \in DOMAIN candidate : C[e].round = candidate[e].round
        /\ \A e \in DOMAIN candidate \ {d} : C[e] = candidate[e]
        /\ C[d].status = "replication-verification"
    BY <1>1, <1>10, ReplayedFields
  <2>4. \A u \in S : u.stage = "replicate" /\ u.delta = d
    BY DEF ReplicateTask
  <2>5. /\ DOMAIN U = DOMAIN T \cup S
        /\ \A u \in DOMAIN T : U[u] = T[u]
    BY <1>10 DEF AddTasks
  <2>6. ReplicateTask(d, 0) \in S
    BY Constants
  <2> HIDE DEF C, U, S
  <2>7. /\ Replicated(U, d)
        /\ \A e : Replicated(T, e) => Replicated(U, e)
        /\ \A e : e # d /\ Replicated(U, e) => Replicated(T, e)
    BY <2>4, <2>5, <2>6 DEF Replicated
  <2>8. \A e \in DOMAIN candidate : ReplayTask(e).stage = "replay"
    BY ConditionFacts, TaskNames
  <2>9. \A e \in DOMAIN candidate : e # d /\ Live(U, e) => Live(task, e)
    BY <1>5, <2>4, <2>5, <2>7, <2>8 DEF Live
  <2>10. \A e \in DOMAIN candidate : Chosen(U, C, e) => Chosen(T, C, e)
    BY <2>4, <2>5, <2>8 DEF Chosen
  <2>11. OrderOK(U, C, round)
    <3>1. \A e \in Entrants : C[e].round = round.id
      BY <1>8, <2>2 DEF OrderOK
    <3>2. ASSUME round # NoRound, NEW u \in DOMAIN U, u.stage # "search", C[u.delta].round = round.id
          PROVE  u.delta \in Entrants
      <4>1. CASE u \in DOMAIN T
        BY <1>8, <2>2, <3>2, <4>1 DEF OrderOK
      <4>2. CASE u.delta = d
        <5>1. ReplayTask(d) \in DOMAIN T /\ ReplayTask(d).stage = "replay" /\ ReplayTask(d).delta = d
          BY <1>3, <1>4, <1>8, TaskNames
        <5> QED
          BY <1>8, <2>2, <3>2, <4>2, <5>1 DEF OrderOK
      <4> QED
        BY <2>4, <2>5, <4>1, <4>2
    <3>3. \A x, e \in Entrants : Chosen(U, C, x) =>
            /\ C[e].status # "global-verification"
            /\ C[e].status = "accepted" => C[x].score >= C[e].score
      BY <1>8, <2>2, <2>10 DEF OrderOK
    <3>4. ASSUME NEW x \in DOMAIN C, NEW y \in DOMAIN C, Live(U, x), Live(U, y), C[x].round = C[y].round
          PROVE  x = y
      <4>1. candidate[x].round = candidate[y].round
        BY <2>3, <3>4
      <4>2. CASE x = d \/ y = d
        BY <1>4, <2>3, <2>9, <3>4, <4>1, <4>2
      <4>3. CASE x # d /\ y # d
        BY <1>7, <2>3, <2>9, <3>4, <4>1, <4>3 DEF OrderOK
      <4> QED
        BY <4>2, <4>3
    <3> QED
      BY <1>8, <3>1, <3>2, <3>3, <3>4 DEF OrderOK
  <2>12. ASSUME Calm PROVE CalmOK(U, C, round)
    <3>1. CalmOK(task, candidate, round) /\ d \in Entrants
      BY <1>4, <1>7, <2>12
    <3>2. \A e \in DOMAIN C : C[e].status = "global-verification" => e \in Entrants
      BY <1>8, <2>3, <3>1 DEF CalmOK
    <3>3. \A e \in DOMAIN C : C[e].status = "replication-verification" => e \in Entrants /\ Replicated(U, e)
      BY <1>5, <1>8, <2>3, <2>7, <3>1 DEF CalmOK
    <3>4. \A u \in DOMAIN U : u.stage # "replicate" => u \in DOMAIN task /\ U[u] = T[u]
      BY <1>3, <2>4, <2>5
    <3> QED
      BY <1>3, <1>8, <3>1, <3>2, <3>3, <3>4 DEF CalmOK
  <2> QED
    BY <1>10, <2>11, <2>12 DEF C, U
<1> QED
  BY <1>9, <1>10 DEF ReportReplay, Replayed, T

LEMMA CrashInReplayOrder ==
  ASSUME Inv, OrderInv, NEW t \in LeasedTasks, NEW k, CrashInReplay(t, k), crashes' = crashes + 1
  PROVE  OrderInv'
<1>1. /\ t.stage = "replay" /\ t.delta \in DOMAIN candidate /\ UNCHANGED <<task, begun, forgotten>>
  BY DEF CrashInReplay, database
<1>2. \/ /\ \E s \in {"replication-verification", "replay-failed"} : candidate' = Replayed(t, s)
         /\ round' = round
      \/ StoreSelection(Replayed(t, "replay-failed"))
  BY DEF CrashInReplay, Replayed
<1>3. ~Calm' /\ (Undisturbed' => Undisturbed)
  BY <1>1, ConditionFacts DEF Calm, Undisturbed
<1>4. SUFFICES ASSUME Undisturbed PROVE OrderOK(task, candidate', round')
  BY <1>1, <1>3 DEF OrderInv
<1>5. \A s \in {"replication-verification", "replay-failed"} : OrderOK(task, Replayed(t, s), round)
  BY <1>1, <1>4, ReplayedOrder
<1>6. CASE StoreSelection(Replayed(t, "replay-failed"))
  <2> DEFINE C == Replayed(t, "replay-failed")
  <2>1. RecordsOK(C, begun) /\ DOMAIN C = DOMAIN candidate
    BY <1>1, ReplayedOK DEF Statuses, Evaluated, Selected
  <2>2. \A e \in DOMAIN candidate : C[e] = candidate[e] \/ C[e].status = "replay-failed"
    BY <1>1, ReplayedFields
  <2>3. \A e \in Entrants : candidate[e].status # "global-verification"
    BY <1>1, <1>4, ReplayAlone
  <2>4. /\ Entrants \subseteq DOMAIN candidate
        /\ \A u \in DOMAIN task : u.stage # "search" => u.delta \in DOMAIN candidate
    BY <1>4, ConditionFacts
  <2>5. OrderOK(task, C, round) /\ StoreSelection(C)
    BY <1>5, <1>6
  <2> HIDE DEF C
  <2>6. \A e \in Entrants : C[e].status # "global-verification"
    BY <2>2, <2>3, <2>4
  <2> QED
    BY <2>1, <2>4, <2>5, <2>6, StoreOrder
<1> QED
  BY <1>2, <1>5, <1>6

(* While nothing was killed, a candidate in its final replication is the    *)
(* only thing under way.                                                    *)
LEMMA ReplicationAlone ==
  ASSUME Inv, OrderInv, Calm, NEW t \in LeasedTasks, t.stage = "replicate",
         t.delta \in DOMAIN candidate, candidate[t.delta].status = "replication-verification"
  PROVE  /\ \A e \in DOMAIN candidate : candidate[e].status # "global-verification"
         /\ \A e \in DOMAIN candidate : candidate[e].status = "replication-verification" => e = t.delta
         /\ \A u \in DOMAIN task : u.stage \in {"replay", "search"} => task[u].status = "completed"
<1> DEFINE d == t.delta
<1>1. /\ t \in DOMAIN task /\ QueueOK(task, reports)
  BY LeasedFacts DEF Inv
<1>2. /\ EvidenceOK(task, reports, candidate) /\ OrderOK(task, candidate, round)
      /\ CalmOK(task, candidate, round) /\ Ent(round) = Entrants /\ Entrants \subseteq DOMAIN candidate
  BY ConditionFacts DEF Inv, OrderInv
<1>3. /\ ReplayTask(d) \in DOMAIN task /\ task[ReplayTask(d)].status = "completed"
  BY <1>1, <1>2 DEF EvidenceOK
<1>4. d \in Entrants /\ Live(task, d) /\ Chosen(task, candidate, d)
  BY <1>2, <1>3 DEF CalmOK, Live, Chosen
<1>5. \A e \in Entrants : Live(task, e) => e = d
  BY <1>2, <1>4 DEF OrderOK
<1>6. \A e \in DOMAIN candidate : candidate[e].status # "global-verification"
  BY <1>2, <1>4 DEF CalmOK, OrderOK
<1>7. ASSUME NEW e \in DOMAIN candidate, candidate[e].status = "replication-verification"
      PROVE  e = d
  <2>1. e \in Entrants /\ Replicated(task, e)
    BY <1>2, <1>7 DEF CalmOK
  <2>2. Live(task, e)
    BY <1>2, <2>1 DEF Live, Replicated, EvidenceOK
  <2> QED
    BY <1>5, <2>1, <2>2
<1>8. ASSUME NEW u \in DOMAIN task, u.stage = "replay", task[u].status # "completed" PROVE FALSE
  <2>1. u.delta \in Entrants /\ u = ReplayTask(u.delta)
    BY <1>1, <1>2, <1>8 DEF CalmOK, QueueOK, Named
  <2>2. Live(task, u.delta)
    BY <1>8, <2>1 DEF Live
  <2> QED
    BY <1>3, <1>5, <1>8, <2>1, <2>2
<1>9. ASSUME NEW u \in DOMAIN task, u.stage = "search", task[u].status # "completed" PROVE FALSE
  <2>1. round # NoRound /\ round.status = "independent-search"
    BY <1>2, <1>9 DEF CalmOK
  <2>2. Entrants = {}
    BY <2>1 DEF Inv, RoundOK, Entrants
  <2> QED
    BY <1>4, <2>2
<1> QED
  BY <1>6, <1>7, <1>8, <1>9

LEMMA ConfirmedFields ==
  ASSUME Inv, NEW t \in LeasedTasks, NEW v, NEW s, t.delta \in DOMAIN candidate
  PROVE  LET D == WithStatus(Confirmed(t, v), t.delta, s)
         IN  /\ DOMAIN D = DOMAIN candidate
             /\ \A e \in DOMAIN candidate : /\ D[e].round = candidate[e].round
                                            /\ D[e].score = candidate[e].score
             /\ \A e \in DOMAIN candidate \ {t.delta} : D[e] = candidate[e]
             /\ D[t.delta].status = s
<1> DEFINE C == Confirmed(t, v)
           D == WithStatus(C, t.delta, s)
<1>1. candidate[t.delta] \in Records
  BY DEF Inv, RecordsOK
<1>2. /\ DOMAIN C = DOMAIN candidate
      /\ \A e \in DOMAIN candidate \ {t.delta} : C[e] = candidate[e]
      /\ C[t.delta] = [candidate[t.delta] EXCEPT !.replicators = VerifiersOf(Record(t, v), t, v)]
  BY DEF Confirmed
<1> HIDE DEF C
<1>3. C[t.delta].round = candidate[t.delta].round /\ C[t.delta].score = candidate[t.delta].score
      /\ DOMAIN C[t.delta] = DOMAIN candidate[t.delta]
  BY <1>1, <1>2 DEF Records
<1>4. /\ DOMAIN D = DOMAIN C
      /\ \A e \in DOMAIN C \ {t.delta} : D[e] = C[e]
      /\ D[t.delta] = [C[t.delta] EXCEPT !.status = s]
  BY <1>2 DEF WithStatus
<1> HIDE DEF D
<1>5. D[t.delta].round = C[t.delta].round /\ D[t.delta].score = C[t.delta].score
      /\ D[t.delta].status = s
  BY <1>1, <1>3, <1>4 DEF Records
<1> QED
  BY <1>2, <1>3, <1>4, <1>5 DEF D, C

(* The round ends with the candidate of t.                                 *)
LEMMA EndOrder ==
  ASSUME Inv, OrderInv, NEW t \in LeasedTasks, t.stage = "replicate", t.delta \in DOMAIN candidate,
         candidate[t.delta].status = "replication-verification",
         DOMAIN candidate' = DOMAIN candidate, round' = NoRound,
         candidate'[t.delta].status \in {"promoted", "rejected"},
         \A e \in DOMAIN candidate : candidate'[e].round = candidate[e].round,
         \A e \in DOMAIN candidate \ {t.delta} :
           candidate'[e].status \in {candidate[e].status, "rejected"},
         UNCHANGED <<begun, forgotten>>,
         \/ task' = Completed(t) /\ crashes' = crashes
         \/ task' = task /\ crashes' = crashes + 1
  PROVE  OrderInv'
<1>1. /\ Undisturbed' => Undisturbed
      /\ Calm' => Calm /\ Undisturbed
      /\ Calm' => task' = Completed(t)
  BY ConditionFacts DEF Undisturbed, Calm
<1>2. /\ DOMAIN task' = DOMAIN task
      /\ \A u \in DOMAIN task : task[u].status = "completed" => task'[u].status = "completed"
  BY CompletedRows DEF Inv
<1>3. ASSUME Undisturbed' PROVE OrderOK(task', candidate', round')
  <2>1. OrderOK(task, candidate, round)
    BY <1>1, <1>3 DEF OrderInv
  <2>2. OrderOK(task', candidate, round)
    BY <1>2, <2>1, RowsOrder
  <2> QED
    BY <2>2, ClosedOrder
<1>4. ASSUME Calm' PROVE CalmOK(task', candidate', round')
  <2>1. /\ \A e \in DOMAIN candidate : candidate[e].status # "global-verification"
        /\ \A e \in DOMAIN candidate : candidate[e].status = "replication-verification" => e = t.delta
        /\ \A u \in DOMAIN task : u.stage \in {"replay", "search"} => task[u].status = "completed"
    BY <1>1, <1>4, ReplicationAlone
  <2>2. \A e \in DOMAIN candidate' :
          candidate'[e].status \notin {"global-verification", "replication-verification"}
    BY <2>1
  <2> QED
    BY <1>2, <2>1, <2>2 DEF CalmOK
<1> QED
  BY <1>3, <1>4 DEF OrderInv

LEMMA FailedFields ==
  ASSUME Inv, NEW t \in LeasedTasks, NEW v, t.delta \in DOMAIN candidate,
         Close(WithStatus(Confirmed(t, v), t.delta, "rejected"))
  PROVE  /\ DOMAIN candidate' = DOMAIN candidate /\ round' = NoRound
         /\ candidate'[t.delta].status = "rejected"
         /\ \A e \in DOMAIN candidate : candidate'[e].round = candidate[e].round
         /\ \A e \in DOMAIN candidate \ {t.delta} :
              candidate'[e].status \in {candidate[e].status, "rejected"}
<1> DEFINE D == WithStatus(Confirmed(t, v), t.delta, "rejected")
<1>1. /\ DOMAIN D = DOMAIN candidate
      /\ \A e \in DOMAIN candidate : D[e].round = candidate[e].round
      /\ \A e \in DOMAIN candidate \ {t.delta} : D[e] = candidate[e]
      /\ D[t.delta].status = "rejected"
  BY ConfirmedFields
<1> HIDE DEF D
<1>2. Close(D)
  BY DEF D
<1>3. DOMAIN candidate' = DOMAIN D /\ round' = NoRound
  BY <1>2 DEF Close
<1>4. candidate'[t.delta] = D[t.delta]
  BY <1>1, <1>2 DEF Close
<1>5. \A e \in DOMAIN candidate \ {t.delta} :
        \/ candidate'[e] = candidate[e]
        \/ candidate'[e] = [candidate[e] EXCEPT !.status = "rejected"]
  BY <1>1, <1>2 DEF Close
<1>6. \A e \in DOMAIN candidate : candidate[e] \in Records
  BY DEF Inv, RecordsOK
<1>7. \A e \in DOMAIN candidate \ {t.delta} :
        /\ candidate'[e].status \in {candidate[e].status, "rejected"}
        /\ candidate'[e].round = candidate[e].round
  BY <1>5, <1>6 DEF Records
<1> QED
  BY <1>1, <1>3, <1>4, <1>7

LEMMA ReplicationOrder ==
  ASSUME Inv, OrderInv, NEW t \in LeasedTasks, NEW v, ReportReplication(t, v)
  PROVE  OrderInv'
<1> DEFINE d == t.delta
           R == Record(t, v)
           C == Confirmed(t, v)
           T == Completed(t)
<1>1. /\ t.stage = "replicate" /\ d \in DOMAIN candidate
      /\ UNCHANGED <<begun, forgotten, crashes>>
  BY DEF ReportReplication, bounds
<1>2. CASE task' = T /\ UNCHANGED <<round, candidate>>
  <2>1. /\ DOMAIN T = DOMAIN task
        /\ \A u \in DOMAIN task : task[u].status = "completed" => T[u].status = "completed"
    BY CompletedRows DEF Inv
  <2> QED
    BY <1>1, <1>2, <2>1, QuietOrder
<1>3. CASE candidate[d].status = "replication-verification" /\ Promote(d, C) /\ task' = T
  <2>1. candidate' = WithStatus(C, d, "promoted") /\ round' = NoRound
    BY <1>3 DEF Promote
  <2>2. /\ DOMAIN candidate' = DOMAIN candidate
        /\ candidate'[d].status = "promoted"
        /\ \A e \in DOMAIN candidate : candidate'[e].round = candidate[e].round
        /\ \A e \in DOMAIN candidate \ {d} : candidate'[e] = candidate[e]
    BY <1>1, <2>1, ConfirmedFields
  <2> HIDE DEF C
  <2> QED
    BY <1>1, <1>3, <2>1, <2>2, EndOrder
<1>4. CASE candidate[d].status = "replication-verification" /\ FailReplication(C, d, T)
  <2>1. Close(WithStatus(C, d, "rejected")) /\ task' = T
    BY <1>4 DEF FailReplication
  <2> QED
    BY <1>1, <1>4, <2>1, FailedFields, EndOrder
<1> QED
  BY <1>2, <1>3, <1>4 DEF ReportReplication, Confirmed

LEMMA CrashInReplicationOrder ==
  ASSUME Inv, OrderInv, NEW t \in LeasedTasks, NEW v, CrashInReplication(t, v),
         crashes' = crashes + 1
  PROVE  OrderInv'
<1> DEFINE d == t.delta
           C == Confirmed(t, v)
<1>1. /\ t.stage = "replicate" /\ d \in DOMAIN candidate
      /\ candidate[d].status = "replication-verification"
      /\ UNCHANGED <<task, begun, forgotten>>
  BY DEF CrashInReplication, database
<1>2. CASE /\ \E s \in {"replicated", "replication-failed", "rejected"} : candidate' = WithStatus(C, d, s)
           /\ round' = round
  <2>1. PICK s \in {"replicated", "replication-failed", "rejected"} : candidate' = WithStatus(C, d, s)
    BY <1>2
  <2>2. ~Calm' /\ (Undisturbed' => Undisturbed)
    BY <1>1, ConditionFacts DEF Calm, Undisturbed
  <2>3. SUFFICES ASSUME Undisturbed PROVE OrderOK(task, candidate', round)
    BY <1>1, <1>2, <2>2 DEF OrderInv
  <2>4. /\ DOMAIN candidate' = DOMAIN candidate
        /\ \A e \in DOMAIN candidate : /\ candidate'[e].round = candidate[e].round
                                       /\ candidate'[e].score = candidate[e].score
        /\ \A e \in DOMAIN candidate \ {d} : candidate'[e] = candidate[e]
        /\ candidate'[d].status = s
    BY <1>1, <2>1, ConfirmedFields
  <2>5. /\ OrderOK(task, candidate, round) /\ Ent(round) \subseteq DOMAIN candidate
        /\ \A u \in DOMAIN task : u.stage # "search" => u.delta \in DOMAIN candidate
    BY <2>3, ConditionFacts DEF OrderInv
  <2>6. \A e \in DOMAIN candidate :
          /\ candidate'[e].status \in {"global-verification", "accepted"} =>
               candidate'[e].status = candidate[e].status
          /\ candidate'[e].status \in Selected => Chosen(task, candidate, e)
    BY <2>1, <2>4 DEF Chosen, Selected
  <2> QED
    BY <2>4, <2>5, <2>6, StatusOrder
<1>3. CASE candidate' = WithStatus(C, d, "promoted") /\ round' = NoRound
  <2>1. /\ DOMAIN candidate' = DOMAIN candidate
        /\ candidate'[d].status = "promoted"
        /\ \A e \in DOMAIN candidate : candidate'[e].round = candidate[e].round
        /\ \A e \in DOMAIN candidate \ {d} : candidate'[e] = candidate[e]
    BY <1>1, <1>3, ConfirmedFields
  <2> HIDE DEF C
  <2> QED
    BY <1>1, <1>3, <2>1, EndOrder
<1>4. CASE Close(WithStatus(C, d, "rejected"))
  BY <1>1, <1>4, FailedFields, EndOrder
<1> QED
  BY <1>2, <1>3, <1>4 DEF CrashInReplication, Confirmed

(* Every search task of a round that ends is completed: there are no more   *)
(* slots than reports.                                                      *)
LEMMA AllSearched ==
  ASSUME Inv, NEW t \in LeasedTasks, t.stage = "search", NEW k \in Trained[t.slot],
         SearchEnds(Record(t, k), t)
  PROVE  \A u \in DOMAIN task : u.stage = "search" /\ u.round = t.round =>
           Completed(t)[u].status = "completed"
<1> DEFINE R == Record(t, k)
           S == ReportsOn(R, t)
           f == [r \in S |-> r.task.slot]
<1>1. t \in DOMAIN task /\ t \in TaskSet /\ k \in Kinds /\ IsFiniteSet(S)
  BY SearchFacts
<1>2. QueueOK(Completed(t), R) /\ OneReport(R) /\ DOMAIN Completed(t) = DOMAIN task
  BY <1>1, RecordedOK, RecordFacts, CompletedRows DEF Inv
<1> HIDE DEF R
<1>3. \A r \in S : r \in R /\ SameWork(r.task, t)
  BY DEF ReportsOn
<1>4. \A r \in S : /\ r.task \in DOMAIN task /\ r.task \in TaskSet /\ Named(r.task)
                   /\ Completed(t)[r.task].status = "completed"
  BY <1>2, <1>3 DEF QueueOK
<1>5. \A r \in S : /\ r.task.slot \in Slots /\ r.task = SearchTask(t.round, r.task.slot)
  <2> TAKE r \in S
  <2>1. r.task.stage = "search" /\ r.task.round = t.round
    BY <1>1, <1>3, <1>4, WorkFields
  <2>2. Named(r.task)
    BY <1>4
  <2> QED
    BY <2>1, <2>2 DEF Named
<1>6. f \in Injection(S, Slots)
  <2>1. f \in [S -> Slots]
    BY <1>5
  <2>2. \A r, s \in S : f[r] = f[s] => r = s
    BY <1>2, <1>3, <1>5 DEF OneReport
  <2> QED
    BY <2>1, <2>2 DEF Injection, IsInjective
<1>7. IsFiniteSet(Slots) /\ Cardinality(Slots) = Candidates
  <2>1. 0 \in Int /\ Candidates - 1 \in Int /\ ~(0 > Candidates - 1)
    BY Constants
  <2>2. IsFiniteSet(Slots) /\ Cardinality(Slots) = Candidates - 1 - 0 + 1
    BY <2>1, FS_Interval DEF Slots
  <2> QED
    BY <2>2, Constants
<1>8. Cardinality(S) >= Candidates
  BY DEF SearchEnds, R
<1> HIDE DEF f, S
<1>9. Cardinality(S) <= Cardinality(Slots) /\ Cardinality(S) \in Nat
  BY <1>1, <1>6, <1>7, FS_Injection, FS_CardinalityType
<1>10. Cardinality(S) = Cardinality(Slots)
  BY <1>7, <1>8, <1>9, Constants
<1>11. f \in Surjection(S, Slots)
  BY <1>6, <1>7, <1>10, FS_Injection
<1>12. \A n \in Slots : \E r \in S : r.task.slot = n
  BY <1>11 DEF Surjection, f
<1> SUFFICES ASSUME NEW u \in DOMAIN task, u.stage = "search", u.round = t.round
             PROVE  Completed(t)[u].status = "completed"
  OBVIOUS
<1>13. u.slot \in Slots /\ u = SearchTask(t.round, u.slot)
  BY DEF Inv, QueueOK, Named
<1>14. PICK r \in S : r.task.slot = u.slot
  BY <1>12, <1>13
<1> QED
  BY <1>4, <1>5, <1>13, <1>14

(* The search of the round r makes candidates of the deltas S, its queue U  *)
(* has the verifications of those it lists.                                 *)
LEMMA FoundOrder ==
  ASSUME Inv, OrderInv, Undisturbed, NEW t \in LeasedTasks, t.stage = "search",
         NEW k \in Trained[t.slot], SearchEnds(Record(t, k), t), t.round = round.id,
         NEW S, NEW f, NEW C, Recorded(t, k, S, f, C),
         NEW r, r.id = round.id, Ent(r) \subseteq S,
         NEW U, DOMAIN task \subseteq DOMAIN U,
         \A u \in DOMAIN task : task[u].status = "completed" => U[u].status = "completed",
         \A u \in DOMAIN U \ DOMAIN task : u.stage = "verify" /\ u.delta \in Ent(r)
  PROVE  OrderOK(U, C, r)
<1>1. OrderOK(task, candidate, round) /\ forgotten = 0
  BY ConditionFacts DEF OrderInv
<1>2. round # NoRound /\ Ent(round) = {}
  BY ConditionFacts DEF SearchEnds, Inv, RoundOK, Entrants
<1>3. /\ DOMAIN C = DOMAIN candidate \cup S /\ S \cap DOMAIN candidate = {}
      /\ \A d \in DOMAIN candidate : C[d] = candidate[d]
  BY DEF Recorded
<1>4. \A d \in S : C[d].round = round.id /\ C[d].status = "global-verification"
  <2> TAKE d \in S
  <2>1. d \in DOMAIN C
    BY <1>3
  <2>2. C[d] = NewCandidate(Record(t, k), t, d, f[d])
    BY <2>1 DEF Recorded
  <2>3. C[d].round = t.round /\ C[d].status = "global-verification"
    BY <2>2 DEF NewCandidate
  <2> QED
    BY <2>3
<1>5. \A u \in DOMAIN task : u.stage # "search" => u.delta \in DOMAIN candidate
  BY <1>1, ConditionFacts
<1>6. \A d \in DOMAIN candidate : d \in Deltas
  BY ConditionFacts
<1>7. \A d \in S : d \in Deltas
  BY FoundFacts DEF Recorded
<1>8. \A d \in DOMAIN C : ReplayTask(d).stage = "replay" /\ ReplayTask(d).delta = d
  BY <1>3, <1>6, <1>7, TaskNames
<1>9. \A d \in DOMAIN C : ReplayTask(d) \in DOMAIN U => ReplayTask(d) \in DOMAIN task /\ d \in DOMAIN candidate
  BY <1>5, <1>8
<1>10. \A d : Replicated(U, d) => Replicated(task, d)
  BY DEF Replicated
<1>11. \A d \in DOMAIN C : Live(U, d) => d \in DOMAIN candidate /\ Live(task, d)
  BY <1>9, <1>10 DEF Live
<1>12. \A d \in Ent(r) : C[d].round = r.id
  BY <1>4
<1>13. ASSUME NEW u \in DOMAIN U, u.stage # "search", C[u.delta].round = r.id
       PROVE  u.delta \in Ent(r)
  <2>1. CASE u \in DOMAIN task
    <3>1. u.delta \in DOMAIN candidate /\ C[u.delta] = candidate[u.delta]
      BY <1>3, <1>5, <1>13, <2>1
    <3> QED
      BY <1>1, <1>2, <1>13, <2>1, <3>1 DEF OrderOK
  <2>2. CASE u \notin DOMAIN task
    BY <2>2
  <2> QED
    BY <2>1, <2>2
<1>14. \A d \in Ent(r) : ~Chosen(U, C, d)
  BY <1>3, <1>4, <1>9 DEF Chosen, Selected
<1>15. \A d, e \in DOMAIN C : Live(U, d) /\ Live(U, e) /\ C[d].round = C[e].round => d = e
  BY <1>1, <1>3, <1>11 DEF OrderOK
<1> QED
  BY <1>12, <1>13, <1>14, <1>15 DEF OrderOK

LEMMA SearchEndFacts ==
  ASSUME Inv, NEW t \in LeasedTasks, NEW k, ReportSearch(t, k),
         ~(task' = Completed(t) /\ UNCHANGED <<candidate, round>>)
  PROVE  /\ t.stage = "search" /\ k \in Trained[t.slot] /\ SearchEnds(Record(t, k), t)
         /\ round' = Listed(t, k)
         /\ \E f : Recorded(t, k, Found(t, k), f, candidate')
         /\ DOMAIN task \subseteq DOMAIN task'
         /\ \A u \in DOMAIN task : task'[u] = Completed(t)[u]
         /\ \A u \in DOMAIN task' \ DOMAIN task : u.stage = "verify" /\ u.delta \in Found(t, k)
<1> DEFINE R == Record(t, k)
           found == Found(t, k)
           T == Completed(t)
           fresh == VerifyTasks(found)
<1>1. t.stage = "search" /\ k \in Trained[t.slot]
  BY DEF ReportSearch
<1>2. /\ SearchEnds(R, t) /\ found \cap DOMAIN candidate = {}
      /\ round' = Listed(t, k)
  BY DEF ReportSearch, Found, Listed
<1> HIDE DEF R, T
<1>3. PICK source \in [found -> {r.task : r \in ReportsOn(R, t)}] :
        /\ DOMAIN candidate' = DOMAIN candidate \cup found
        /\ \A d \in DOMAIN candidate' :
             candidate'[d] = IF d \in found THEN NewCandidate(R, t, d, source[d]) ELSE candidate[d]
        /\ DOMAIN task' = DOMAIN task \cup fresh
        /\ \A u \in DOMAIN task' :
             task'[u] = IF u \in DOMAIN task THEN T[u]
                        ELSE Queued(NodesOf(candidate'[u.delta].trainers))
  BY DEF ReportSearch, Found, R, T
<1>4. \A d \in found : source[d] \in TaskSet
  BY <1>1, <1>3, SearchFacts DEF R
<1>5. Recorded(t, k, found, source, candidate')
  BY <1>2, <1>3, <1>4 DEF Recorded, R
<1>6. \A u \in fresh : u.stage = "verify" /\ u.delta \in found
  BY DEF VerifyTasks, VerifyTask
<1> HIDE DEF fresh
<1>7. /\ DOMAIN task \subseteq DOMAIN task'
      /\ \A u \in DOMAIN task : task'[u] = T[u]
      /\ \A u \in DOMAIN task' \ DOMAIN task : u \in fresh
  BY <1>3
<1> QED
  BY <1>1, <1>2, <1>5, <1>6, <1>7 DEF R, T

(* Whoever reports a search under these conditions reports it to its round. *)
LEMMA SearchRound ==
  ASSUME Inv, OrderInv, Undisturbed, NEW t \in LeasedTasks, t.stage = "search", round # NoRound
  PROVE  t.round = round.id
<1>1. t \in DOMAIN task /\ task[t].status # "completed"
  BY LeasedFacts DEF Inv
<1>2. CASE crashes = 0
  BY <1>1, <1>2, ConditionFacts DEF OrderInv, CalmOK, Calm
<1>3. CASE begun <= 1
  <2>1. t.round \in 1..begun /\ round.id \in 1..begun /\ begun \in Nat
    BY <1>1 DEF Inv, RestOK, RoundOK
  <2> QED
    BY <1>3, <2>1
<1> QED
  BY <1>2, <1>3, ConditionFacts

LEMMA SearchOrder ==
  ASSUME Inv, OrderInv, NEW t \in LeasedTasks, NEW k, ReportSearch(t, k)
  PROVE  OrderInv'
<1>1. UNCHANGED <<begun, forgotten, crashes>>
  BY DEF ReportSearch, bounds
<1>2. /\ DOMAIN Completed(t) = DOMAIN task
      /\ \A u \in DOMAIN task : task[u].status = "completed" => Completed(t)[u].status = "completed"
  BY CompletedRows DEF Inv
<1>3. CASE task' = Completed(t) /\ UNCHANGED <<candidate, round>>
  BY <1>1, <1>2, <1>3, QuietOrder
<1>4. CASE ~(task' = Completed(t) /\ UNCHANGED <<candidate, round>>)
  <2>1. /\ t.stage = "search" /\ k \in Trained[t.slot] /\ SearchEnds(Record(t, k), t)
        /\ round' = Listed(t, k)
        /\ \E f : Recorded(t, k, Found(t, k), f, candidate')
        /\ DOMAIN task \subseteq DOMAIN task'
        /\ \A u \in DOMAIN task : task'[u] = Completed(t)[u]
        /\ \A u \in DOMAIN task' \ DOMAIN task : u.stage = "verify" /\ u.delta \in Found(t, k)
    BY <1>4, SearchEndFacts
  <2>2. PICK f : Recorded(t, k, Found(t, k), f, candidate')
    BY <2>1
  <2>3. /\ round # NoRound /\ round' \in RoundSet /\ round'.candidates = Found(t, k)
    BY <2>1, FoundFacts
  <2>4. round'.id = round.id /\ Ent(round') = Found(t, k)
    <3>1. round' # NoRound
      BY <2>3, NoRoundAssumption DEF RoundSet, Deltas
    <3>2. round \in RoundSet
      BY <2>3 DEF Inv, RoundOK
    <3> QED
      BY <2>1, <2>3, <3>1, <3>2 DEF Listed, RoundSet, Ent
  <2>5. SUFFICES ASSUME Undisturbed
                 PROVE  /\ OrderOK(task', candidate', round')
                        /\ Calm => CalmOK(task', candidate', round')
    BY <1>1, ConditionFacts DEF OrderInv, Undisturbed, Calm
  <2>6. t.round = round.id
    BY <2>1, <2>3, <2>5, SearchRound
  <2>7. OrderOK(task', candidate', round')
    BY <1>2, <2>1, <2>2, <2>4, <2>5, <2>6, FoundOrder
  <2>8. ASSUME Calm PROVE CalmOK(task', candidate', round')
    <3>1. CalmOK(task, candidate, round)
      BY <2>8 DEF OrderInv
    <3>2. Ent(round) = {}
      BY <2>1, ConditionFacts DEF SearchEnds, Inv, RoundOK, Entrants
    <3>3. /\ DOMAIN candidate' = DOMAIN candidate \cup Found(t, k)
          /\ \A d \in DOMAIN candidate : candidate'[d] = candidate[d]
      BY <2>2 DEF Recorded
    <3>4. \A d \in DOMAIN candidate :
            candidate[d].status \notin {"global-verification", "replication-verification"}
      BY <3>1, <3>2 DEF CalmOK
    <3>5. \A d \in Found(t, k) : candidate'[d].status = "global-verification"
      <4> TAKE d \in Found(t, k)
      <4>1. candidate'[d] = NewCandidate(Record(t, k), t, d, f[d])
        BY <2>2, <3>3 DEF Recorded
      <4> QED
        BY <4>1 DEF NewCandidate
    <3>6. \A u \in DOMAIN task' : u.stage = "replay" => task'[u].status = "completed"
      BY <1>2, <2>1, <3>1, <3>2 DEF CalmOK
    <3>7. ASSUME NEW u \in DOMAIN task', u.stage = "search" PROVE task'[u].status = "completed"
      <4>1. u \in DOMAIN task /\ task'[u] = Completed(t)[u]
        BY <2>1, <3>7
      <4>2. CASE task[u].status = "completed"
        BY <1>2, <4>1, <4>2
      <4>3. CASE u.round = t.round
        BY <2>1, <3>7, <4>1, <4>3, AllSearched
      <4> QED
        BY <2>6, <3>1, <3>7, <4>1, <4>2, <4>3 DEF CalmOK
    <3> QED
      BY <2>4, <3>3, <3>4, <3>5, <3>6, <3>7 DEF CalmOK
  <2> QED
    BY <2>7, <2>8
<1> QED
  BY <1>3, <1>4

LEMMA CrashInSearchOrder ==
  ASSUME Inv, OrderInv, NEW t \in LeasedTasks, NEW k, CrashInSearch(t, k), crashes' = crashes + 1
  PROVE  OrderInv'
<1>1. /\ t.stage = "search" /\ k \in Trained[t.slot] /\ SearchEnds(Record(t, k), t)
      /\ UNCHANGED <<task, begun, forgotten>>
  BY DEF CrashInSearch, database
<1>2. PICK S, f : /\ Recorded(t, k, S, f, candidate')
                  /\ \/ round' = round
                     \/ round' = Listed(t, k) /\ S = Found(t, k)
  BY CrashInSearchRecords
<1>3. ~Calm' /\ (Undisturbed' => Undisturbed)
  BY <1>1, ConditionFacts DEF Calm, Undisturbed
<1>4. SUFFICES ASSUME Undisturbed PROVE OrderOK(task, candidate', round')
  BY <1>1, <1>3 DEF OrderInv
<1>5. /\ round # NoRound /\ Listed(t, k) \in RoundSet /\ Listed(t, k).candidates = Found(t, k)
  BY <1>1, FoundFacts
<1>6. round'.id = round.id /\ Ent(round') \subseteq S
  <2>1. Ent(round) = {}
    BY <1>1, ConditionFacts DEF SearchEnds, Inv, RoundOK, Entrants
  <2>2. round \in RoundSet
    BY <1>5 DEF Inv, RoundOK
  <2>3. Listed(t, k).id = round.id
    BY <2>2 DEF Listed, RoundSet
  <2>4. Ent(Listed(t, k)) \subseteq Found(t, k)
    BY <1>5 DEF Ent
  <2> QED
    BY <1>2, <2>1, <2>3, <2>4
<1>7. t.round = round.id
  BY <1>1, <1>4, <1>5, SearchRound
<1> QED
  BY <1>1, <1>2, <1>4, <1>6, <1>7, FoundOrder
-----------------------------------------------------------------------------
LEMMA InitOrder == Init => OrderInv
<1> SUFFICES ASSUME Init PROVE OrderInv
  OBVIOUS
<1>1. DOMAIN task = {} /\ DOMAIN candidate = {} /\ Ent(round) = {}
  BY DEF Init, Ent
<1> QED
  BY <1>1 DEF OrderInv, OrderOK, CalmOK

LEMMA OrderNext ==
  ASSUME Inv, OrderInv, [CrashNext]_vars
  PROVE  OrderInv'
<1>1. CASE Operate
  <2>1. CASE (\E a \in SelectionArtifacts : SetSelection(a)) \/ \E a \in ReplicationArtifacts : SetReplication(a)
    BY <2>1, QuietOrder DEF SetSelection, SetReplication, database
  <2>2. CASE QueueMutation
    BY <2>2, BeginOrder DEF QueueMutation
  <2> QED
    BY <1>1, <2>1, <2>2, InstallOrder DEF Operate
<1>2. CASE Claims
  <2>1. PICK n \in Nodes, t \in DOMAIN task : Claim(n, t)
    BY <1>2 DEF Claims
  <2>2. /\ DOMAIN task' = DOMAIN task
        /\ \A u \in DOMAIN task : task[u].status = "completed" => task'[u].status = "completed"
    BY <2>1, ClaimedOK DEF Inv
  <2>3. UNCHANGED <<candidate, round, begun, forgotten, crashes>>
    BY <2>1 DEF Claim, store, bounds
  <2> QED
    BY <2>2, <2>3, QuietOrder
<1>3. CASE Reports
  <2>1. PICK t \in LeasedTasks : Report(t)
    BY <1>3 DEF Reports
  <2>2. \A k : ReportSearch(t, k) \/ ReportReplay(t, k) => OrderInv'
    BY SearchOrder, ReplayOrder
  <2>3. \A v : ReportVerification(t, v) \/ ReportReplication(t, v) => OrderInv'
    BY VerificationOrder, ReplicationOrder
  <2> QED
    BY <2>1, <2>2, <2>3 DEF Report
<1>4. CASE Losses
  <2>1. PICK t \in LeasedTasks : Expire(t) \/ Abandon(t)
    BY <1>4 DEF Losses
  <2>2. task[t].status # "completed"
    BY DEF LeasedTasks
  <2>3. /\ DOMAIN task' = DOMAIN task
        /\ \A u \in DOMAIN task \ {t} : task'[u] = task[u]
    BY <2>1 DEF Expire, Abandon
  <2>4. UNCHANGED <<candidate, round, begun, forgotten, crashes>>
    BY <2>1 DEF Expire, Abandon, store
  <2> QED
    BY <2>2, <2>3, <2>4, QuietOrder
<1>5. CASE Crash
  <2>1. crashes' = crashes + 1
    BY <1>5 DEF Crash
  <2>2. CASE CrashInInstall(<< >>)
    BY <2>1, <2>2, QuietOrder DEF CrashInInstall, database
  <2>3. CASE CrashInQueueMutation
    BY <2>1, <2>3, BeginOrder DEF CrashInQueueMutation, database
  <2>4. ASSUME NEW t \in LeasedTasks, NEW k, CrashInSearch(t, k) \/ CrashInReplay(t, k) PROVE OrderInv'
    BY <2>1, <2>4, CrashInSearchOrder, CrashInReplayOrder
  <2>5. ASSUME NEW t \in LeasedTasks, NEW v, CrashInVerification(t, v) \/ CrashInReplication(t, v)
        PROVE OrderInv'
    BY <2>1, <2>5, CrashInVerificationOrder, CrashInReplicationOrder
  <2> QED
    BY <1>5, <2>2, <2>3, <2>4, <2>5 DEF Crash
<1>6. CASE UNCHANGED vars
  <2>1. UNCHANGED <<candidate, round, begun, forgotten, crashes, task>>
    BY <1>6 DEF vars, store, database, bounds
  <2> QED
    BY <2>1, QuietOrder
<1> QED
  BY <1>1, <1>2, <1>3, <1>4, <1>5, <1>6 DEF CrashNext, Next
-----------------------------------------------------------------------------
(***************************************************************************)
(* The theorems.                                                           *)
(***************************************************************************)
LEMMA NextInv ==
  ASSUME Inv, [CrashNext]_vars
  PROVE  Inv'
<1>1. CASE Operate
  BY <1>1, OperateInv
<1>2. CASE Claims
  BY <1>2, ClaimInv DEF Claims
<1>3. CASE Reports
  BY <1>3, ReportInv DEF Reports
<1>4. CASE Losses
  BY <1>4, LossInv DEF Losses
<1>5. CASE Crash
  BY <1>5, CrashInv
<1>6. CASE UNCHANGED vars
  BY <1>6, StutterInv
<1> QED
  BY <1>1, <1>2, <1>3, <1>4, <1>5, <1>6 DEF CrashNext, Next

THEOREM Invariance == CrashSpec => []Inv
<1>1. Init => Inv
  BY InitInv
<1>2. Inv /\ [CrashNext]_vars => Inv'
  BY NextInv
<1> QED
  BY <1>1, <1>2, PTL DEF CrashSpec

(* Whoever generated a promoted delta did not judge it, and nobody who took *)
(* part in its selection confirmed it on the final holdout, whatever is     *)
(* claimed, lost, reported twice or killed (the excluded_nodes of           *)
(* v6/service.py).                                                          *)
THEOREM EvidenceIsIndependent == CrashSpec => []IndependentEvidence
<1>1. Inv => IndependentEvidence
  <2> SUFFICES ASSUME Inv, forgotten = 0, NEW c \in Promoted
               PROVE  LET selectors == NodesOf(c.verifiers) \cup ReplayNodes(c)
                      IN  /\ NodesOf(c.trainers) \cap selectors = {}
                          /\ NodesOf(c.replicators) \cap (NodesOf(c.trainers) \cup selectors) = {}
    BY DEF IndependentEvidence
  <2>1. Proven(c)
    BY DEF Inv
  <2> QED
    BY <2>1 DEF Proven, Earned, Barred, ReplayNodes
<1> QED
  BY <1>1, Invariance, PTL

(* What is promoted has the whole evidence: a quorum of distinct selection   *)
(* verifiers, one replay, a quorum of distinct replicators and a positive    *)
(* score; no kill between two files and no repeated report replaces any.     *)
THEOREM PromotionsAreEarned == CrashSpec => []PromotionIsEarned
<1>1. Inv => PromotionIsEarned
  <2> SUFFICES ASSUME Inv, forgotten = 0, NEW c \in Promoted
               PROVE  /\ Cardinality(NodesOf(c.verifiers)) >= Quorum /\ c.score > 0
                      /\ Cardinality(c.replay) = 1
                      /\ Cardinality(NodesOf(c.replicators)) >= Quorum
    BY DEF PromotionIsEarned
  <2>1. Proven(c)
    BY DEF Inv
  <2>2. PICK s : c.replay = {s}
    BY <2>1 DEF Proven, Audited
  <2>3. Cardinality(c.replay) = 1
    BY <2>2, FS_Singleton
  <2> QED
    BY <2>1, <2>3 DEF Proven, Earned
<1> QED
  BY <1>1, Invariance, PTL

THEOREM Ordered == CrashSpec => []OrderInv
<1>1. Init => OrderInv
  BY InitOrder
<1>2. Inv /\ OrderInv /\ [CrashNext]_vars => OrderInv'
  BY OrderNext
<1> QED
  BY <1>1, <1>2, Invariance, PTL DEF CrashSpec

(* The candidate that is replayed or replicated has the best evidence of    *)
(* those accepted in its round, whatever reports arrive late or twice       *)
(* (_ranked_accepted_candidates), unless a store was replaced or a handler  *)
(* killed after the first round.                                            *)
THEOREM StrongestSelected == CrashSpec => []StrongestIsSelected
<1>1. Inv /\ OrderInv => StrongestIsSelected
  <2> SUFFICES ASSUME Inv, OrderInv, Undisturbed, round # NoRound,
                      NEW d \in round.candidates, NEW e \in round.candidates,
                      candidate[d].status \in Selected, candidate[e].status = "accepted"
               PROVE  candidate[d].score >= candidate[e].score
    BY DEF StrongestIsSelected
  <2>1. d \in Ent(round) /\ e \in Ent(round) /\ Chosen(task, candidate, d)
    BY DEF Ent, Chosen
  <2> QED
    BY <2>1 DEF OrderInv, OrderOK
<1> QED
  BY <1>1, Invariance, Ordered, PTL

(* The final holdout of a round judges one candidate: nothing replicates a   *)
(* second one, not after a failed replay, a failed replication or a report  *)
(* repeated to a coordinator that was killed in the first round.            *)
THEOREM HoldoutJudgesOnce == CrashSpec => []HoldoutIsOneShot
<1>1. Inv /\ OrderInv => HoldoutIsOneShot
  <2> SUFFICES ASSUME Inv, OrderInv, Undisturbed, NEW t \in DOMAIN task, NEW u \in DOMAIN task,
                      t.stage = "replicate", u.stage = "replicate",
                      t.delta \in DOMAIN candidate, u.delta \in DOMAIN candidate,
                      candidate[t.delta].round = candidate[u.delta].round
               PROVE  t.delta = u.delta
    BY DEF HoldoutIsOneShot
  <2>1. EvidenceOK(task, reports, candidate)
    BY ConditionFacts DEF Inv
  <2>2. Live(task, t.delta) /\ Live(task, u.delta)
    BY <2>1 DEF Live, Replicated, EvidenceOK
  <2> QED
    BY <2>2 DEF OrderInv, OrderOK
<1> QED
  BY <1>1, Invariance, Ordered, PTL
-----------------------------------------------------------------------------
(***************************************************************************)
(* A round that was not killed can end.  Each stage of a candidate has its *)
(* tasks, and as long as it lasts one of them is unfinished or its judges  *)
(* disagree: when the last one is reported, the reports are as many as the *)
(* tasks, and if they agree that report moved the candidate on.            *)
(***************************************************************************)
Ballots == 0..(Quorum - 1)

(* VerifyTask or ReplicateTask.                                            *)
JudgeTask(stage, d, s) == [stage |-> stage, round |-> 0, delta |-> d, slot |-> s]

Split(R, stage, d) ==
  \E p, q \in R : /\ p.task.stage = stage /\ p.task.delta = d
                  /\ q.task.stage = stage /\ q.task.delta = d
                  /\ p.value # q.value

Unsettled(T, R, stage, d) ==
  /\ \A s \in Ballots : JudgeTask(stage, d, s) \in DOMAIN T
  /\ \/ \E s \in Ballots : T[JudgeTask(stage, d, s)].status # "completed"
     \/ Split(R, stage, d)

(* A candidate d with this status.                                         *)
StatusAlive(T, R, status, d) ==
  /\ status = "global-verification" => Unsettled(T, R, "verify", d)
  /\ status = "replication-verification" => Unsettled(T, R, "replicate", d)
  /\ status = "replay-audit" =>
       ReplayTask(d) \in DOMAIN T /\ T[ReplayTask(d)].status # "completed"
  /\ status = "accepted" => ReplayTask(d) \notin DOMAIN T

UnderWay == {"global-verification", "replay-audit", "replication-verification"}

SearchAlive(T, id) ==
  /\ \A s \in Slots : SearchTask(id, s) \in DOMAIN T
  /\ \E s \in Slots : T[SearchTask(id, s)].status # "completed"

EntrantsAlive(C, S) ==
  /\ \A d \in S : C[d].status \in UnderWay \cup Evaluated
  /\ \E d \in S : C[d].status \in UnderWay

RoundAlive(T, C, r) ==
  r # NoRound => IF r.status = "independent-search" THEN SearchAlive(T, r.id)
                 ELSE EntrantsAlive(C, r.candidates)

Reported(T, R) ==
  \A t \in DOMAIN T : T[t].status = "completed" /\ t.stage # "replay" => \E p \in R : p.task = t

CandidatesAlive(T, R, C) == \A d \in DOMAIN C : StatusAlive(T, R, C[d].status, d)

AliveOK(T, R, C, r) == Reported(T, R) /\ CandidatesAlive(T, R, C) /\ RoundAlive(T, C, r)

AliveInv == Calm => AliveOK(task, reports, candidate, round)

LEMMA JudgeNames ==
  ASSUME NEW stage, NEW d, NEW s
  PROVE  /\ JudgeTask(stage, d, s).stage = stage /\ JudgeTask(stage, d, s).delta = d
         /\ JudgeTask(stage, d, s).slot = s /\ JudgeTask(stage, d, s).round = 0
         /\ VerifyTask(d, s) = JudgeTask("verify", d, s)
         /\ ReplicateTask(d, s) = JudgeTask("replicate", d, s)
         /\ ReplayTask(d).stage = "replay" /\ ReplayTask(d).delta = d
         /\ SearchTask(d, s).stage = "search" /\ SearchTask(d, s).round = d /\ SearchTask(d, s).slot = s
BY DEF JudgeTask, VerifyTask, ReplicateTask, ReplayTask, SearchTask

(* One report for every slot is as many reports.                            *)
LEMMA OneForEachSlot ==
  ASSUME NEW A, IsFiniteSet(A), NEW n \in Nat, n >= 1,
         \A s \in 0..(n - 1) : \E r \in A : r.task.slot = s
  PROVE  Cardinality(A) >= n
<1> DEFINE I == 0..(n - 1)
           g == [s \in I |-> CHOOSE r \in A : r.task.slot = s]
<1>1. \A s \in I : g[s] \in A /\ g[s].task.slot = s
  OBVIOUS
<1>2. g \in Injection(I, A)
  <2>1. g \in [I -> A]
    BY <1>1
  <2>2. \A x, y \in I : g[x] = g[y] => x = y
    BY <1>1
  <2> QED
    BY <2>1, <2>2 DEF Injection, IsInjective
<1>3. IsFiniteSet(I) /\ Cardinality(I) = n
  <2>1. 0 \in Int /\ n - 1 \in Int /\ ~(0 > n - 1)
    OBVIOUS
  <2>2. IsFiniteSet(0..(n - 1)) /\ Cardinality(0..(n - 1)) = (n - 1) - 0 + 1
    BY <2>1, FS_Interval
  <2> QED
    BY <2>2
<1> HIDE DEF I, g
<1>4. Cardinality(I) <= Cardinality(A) /\ Cardinality(A) \in Nat
  BY <1>2, <1>3, FS_Injection, FS_CardinalityType
<1> QED
  BY <1>3, <1>4

(* Tasks change hands.                                                     *)
LEMMA RowsAlive ==
  ASSUME NEW T, NEW U, NEW R, NEW C, NEW r, DOMAIN U = DOMAIN T, AliveOK(T, R, C, r),
         \A t \in DOMAIN T : U[t].status = "completed" <=> T[t].status = "completed"
  PROVE  AliveOK(U, R, C, r)
<1>1. Reported(U, R)
  BY DEF AliveOK, Reported
<1>2. \A stage, d : Unsettled(T, R, stage, d) => Unsettled(U, R, stage, d)
  BY DEF Unsettled
<1>3. CandidatesAlive(U, R, C)
  BY <1>2 DEF AliveOK, CandidatesAlive, StatusAlive
<1>4. \A id : SearchAlive(T, id) => SearchAlive(U, id)
  BY DEF SearchAlive
<1>5. RoundAlive(U, C, r)
  BY <1>4 DEF AliveOK, RoundAlive
<1> QED
  BY <1>1, <1>3, <1>5 DEF AliveOK

(* New tasks and reports, none of them a replay of a candidate accepted.    *)
LEMMA GrowsAlive ==
  ASSUME NEW T, NEW U, NEW R, NEW status, NEW d, StatusAlive(T, R, status, d),
         DOMAIN T \subseteq DOMAIN U, \A t \in DOMAIN T : U[t] = T[t],
         status = "accepted" => ReplayTask(d) \notin DOMAIN U
  PROVE  StatusAlive(U, R, status, d)
<1>1. \A stage : Unsettled(T, R, stage, d) => Unsettled(U, R, stage, d)
  BY DEF Unsettled
<1> QED
  BY <1>1 DEF StatusAlive

(* Task t is completed and reported: nothing changes for a candidate that   *)
(* does not wait for it.                                                   *)
Awaits(status, stage) ==
  \/ status = "global-verification" /\ stage = "verify"
  \/ status = "replication-verification" /\ stage = "replicate"
  \/ status = "replay-audit" /\ stage = "replay"

LEMMA OthersAlive ==
  ASSUME QueueOK(task, reports), NEW t \in LeasedTasks, NEW R, reports \subseteq R,
         NEW status, NEW d, StatusAlive(task, reports, status, d),
         d = t.delta => ~Awaits(status, t.stage)
  PROVE  StatusAlive(Completed(t), R, status, d)
<1>1. /\ DOMAIN Completed(t) = DOMAIN task
      /\ \A u \in DOMAIN task \ {t} : Completed(t)[u] = task[u]
  BY CompletedRows
<1> DEFINE T == Completed(t)
<1> HIDE DEF T
<1>2. ASSUME NEW stage, Unsettled(task, reports, stage, d), ~(d = t.delta /\ stage = t.stage)
      PROVE  Unsettled(T, R, stage, d)
  <2>1. \A s \in Ballots : JudgeTask(stage, d, s) # t /\ JudgeTask(stage, d, s) \in DOMAIN task
    BY <1>2, JudgeNames DEF Unsettled
  <2>2. Split(reports, stage, d) => Split(R, stage, d)
    BY DEF Split
  <2> QED
    BY <1>1, <1>2, <2>1, <2>2 DEF Unsettled, T
<1>3. ReplayTask(d) # t \/ (d = t.delta /\ t.stage = "replay")
  BY JudgeNames
<1>4. status = "global-verification" => Unsettled(T, R, "verify", d)
  BY <1>2 DEF StatusAlive, Awaits
<1>5. status = "replication-verification" => Unsettled(T, R, "replicate", d)
  BY <1>2 DEF StatusAlive, Awaits
<1>6. status = "replay-audit" => ReplayTask(d) \in DOMAIN T /\ T[ReplayTask(d)].status # "completed"
  BY <1>1, <1>3 DEF StatusAlive, Awaits, T
<1>7. status = "accepted" => ReplayTask(d) \notin DOMAIN T
  BY <1>1 DEF StatusAlive, T
<1> QED
  BY <1>4, <1>5, <1>6, <1>7 DEF StatusAlive, T

LEMMA CompletedReported ==
  ASSUME QueueOK(task, reports), NEW t \in LeasedTasks, Reported(task, reports),
         NEW R, reports \subseteq R, t.stage = "replay" \/ \E p \in R : p.task = t
  PROVE  Reported(Completed(t), R)
<1>1. /\ DOMAIN Completed(t) = DOMAIN task
      /\ \A u \in DOMAIN task \ {t} : Completed(t)[u] = task[u]
  BY CompletedRows
<1> QED
  BY <1>1 DEF Reported

(* A search that goes on stays so if t is not of it.                        *)
LEMMA SearchGoesOn ==
  ASSUME QueueOK(task, reports), NEW t \in LeasedTasks, NEW id, SearchAlive(task, id),
         t.stage # "search"
  PROVE  SearchAlive(Completed(t), id)
<1>1. /\ DOMAIN Completed(t) = DOMAIN task
      /\ \A u \in DOMAIN task \ {t} : Completed(t)[u] = task[u]
  BY CompletedRows
<1>2. \A s : SearchTask(id, s) # t
  BY JudgeNames
<1> QED
  BY <1>1, <1>2 DEF SearchAlive

(* The judges of a candidate are not done, or they agree.                   *)
LEMMA JudgesGoOn ==
  ASSUME Inv, NEW t \in LeasedTasks, NEW v, NEW stage \in {"verify", "replicate"}, t.stage = stage,
         Reported(task, reports), Unsettled(task, reports, stage, t.delta),
         ~Consensus(Record(t, v), t, v)
  PROVE  Unsettled(Completed(t), Record(t, v), stage, t.delta)
<1> DEFINE R == Record(t, v)
           T == Completed(t)
           d == t.delta
           A == Agreeing(R, t, v)
<1>1. /\ t \in TaskSet /\ Named(t) /\ QueueOK(task, reports) /\ OneReport(reports)
  BY LeasedFacts DEF Inv
<1>2. /\ reports \subseteq R /\ IsFiniteSet(R) /\ QueueOK(T, R)
      /\ \A r \in R : ReportOK(r)
  BY <1>1, RecordFacts, RecordedOK
<1>3. PICK own \in R : own.task = t /\ own.value = v
  <2>1. [task |-> t, node |-> task[t].holder, value |-> v] \in R
    BY DEF Record
  <2> QED
    BY <2>1
<1>4. DOMAIN T = DOMAIN task
  BY <1>1, CompletedRows
<1>5. Reported(T, R)
  BY <1>1, <1>2, <1>3, CompletedReported
<1> HIDE DEF T, R
<1>6. \A s \in Ballots : JudgeTask(stage, d, s) \in DOMAIN T
  BY <1>4 DEF Unsettled
<1>7. ASSUME \A s \in Ballots : T[JudgeTask(stage, d, s)].status = "completed", ~Split(R, stage, d)
      PROVE  FALSE
  <2>1. \A s \in Ballots : \E r \in A : r.task.slot = s
    <3> TAKE s \in Ballots
    <3>1. JudgeTask(stage, d, s).stage = stage /\ stage # "replay"
      BY JudgeNames
    <3>2. PICK r \in R : r.task = JudgeTask(stage, d, s)
      BY <1>5, <1>6, <1>7, <3>1 DEF Reported
    <3>3. /\ r.task.stage = stage /\ r.task.delta = d /\ r.task.slot = s /\ r.task.round = 0
          /\ r.task \in TaskSet
      BY <1>2, <3>2, JudgeNames DEF ReportOK
    <3>4. r.value = v
      BY <1>3, <1>7, <3>3 DEF Split
    <3>5. t.round = 0
      BY <1>1 DEF Named, VerifyTask, ReplicateTask
    <3>6. SameWork(r.task, t)
      BY <1>1, <3>3, <3>5, WorkFields
    <3> QED
      BY <3>3, <3>4, <3>6 DEF Agreeing, ReportsOn
  <2>2. A \subseteq R
    BY DEF Agreeing, ReportsOn
  <2>3. IsFiniteSet(A)
    BY <1>2, <2>2, FS_Subset
  <2> HIDE DEF A
  <2>4. Cardinality(A) >= Quorum
    BY <2>1, <2>3, Constants, OneForEachSlot DEF Ballots
  <2> QED
    BY <2>4 DEF Consensus, A, R
<1> QED
  BY <1>6, <1>7 DEF Unsettled, T, R
(* A search whose reports do not end it has another task.                   *)
LEMMA SearchNotOver ==
  ASSUME Inv, OrderInv, Calm, NEW t \in LeasedTasks, t.stage = "search", NEW k \in Trained[t.slot],
         ~SearchEnds(Record(t, k), t), AliveOK(task, reports, candidate, round)
  PROVE  /\ round # NoRound /\ round.status = "independent-search"
         /\ SearchAlive(Completed(t), round.id)
<1> DEFINE R == Record(t, k)
           T == Completed(t)
           A == ReportsOn(R, t)
<1>1. /\ t \in DOMAIN task /\ t \in TaskSet /\ task[t].status # "completed" /\ Named(t)
      /\ QueueOK(task, reports) /\ OneReport(reports)
  BY LeasedFacts DEF Inv
<1>2. round # NoRound /\ t.round = round.id /\ round.status = "independent-search"
  BY <1>1 DEF OrderInv, CalmOK
<1>3. SearchAlive(task, round.id)
  BY <1>2 DEF AliveOK, RoundAlive
<1>4. /\ reports \subseteq R /\ IsFiniteSet(A)
      /\ \A r \in R : ReportOK(r)
  BY <1>1, SearchFacts, RecordFacts
<1>5. \E p \in R : p.task = t
  <2>1. [task |-> t, node |-> task[t].holder, value |-> k] \in R
    BY DEF Record
  <2> QED
    BY <2>1
<1>6. Reported(T, R) /\ DOMAIN T = DOMAIN task
  BY <1>1, <1>4, <1>5, CompletedReported, CompletedRows DEF AliveOK
<1>7. ~(Cardinality(A) >= Candidates)
  BY <1>2 DEF SearchEnds
<1> HIDE DEF T, R
<1>8. \A s \in Slots : SearchTask(round.id, s) \in DOMAIN T
  BY <1>3, <1>6 DEF SearchAlive
<1>9. ASSUME \A s \in Slots : T[SearchTask(round.id, s)].status = "completed" PROVE FALSE
  <2>1. \A s \in Slots : \E r \in A : r.task.slot = s
    <3> TAKE s \in Slots
    <3>1. SearchTask(round.id, s).stage # "replay"
      BY JudgeNames
    <3>2. PICK r \in R : r.task = SearchTask(round.id, s)
      BY <1>6, <1>8, <1>9, <3>1 DEF Reported
    <3>3. /\ r.task \in TaskSet /\ r.task.slot = s /\ r.task.stage = "search"
          /\ r.task.round = t.round /\ r.task.delta = NoDelta
      BY <1>2, <1>4, <3>2 DEF ReportOK, SearchTask
    <3>4. t.delta = NoDelta
      BY <1>1 DEF Named, SearchTask
    <3>5. SameWork(r.task, t)
      BY <1>1, <3>3, <3>4, WorkFields
    <3> QED
      BY <3>3, <3>5 DEF ReportsOn
  <2> HIDE DEF A
  <2>2. Cardinality(A) >= Candidates
    BY <1>4, <2>1, Constants, OneForEachSlot DEF Slots
  <2> QED
    BY <1>7, <2>2
<1> QED
  BY <1>2, <1>8, <1>9 DEF SearchAlive, T

(* Nothing but a report on a candidate or the round changes, and the rows   *)
(* of others' tasks.                                                       *)
LEMMA QuietAlive ==
  ASSUME Inv, AliveInv, UNCHANGED <<candidate, round, reports>>, DOMAIN task' = DOMAIN task,
         \A t \in DOMAIN task : task'[t].status = "completed" <=> task[t].status = "completed",
         Calm' => Calm
  PROVE  AliveInv'
<1> SUFFICES ASSUME Calm' PROVE AliveOK(task', reports, candidate, round)
  BY DEF AliveInv
<1>1. AliveOK(task, reports, candidate, round)
  BY DEF AliveInv
<1> QED
  BY <1>1, RowsAlive

LEMMA InstallAlive ==
  ASSUME Inv, InstallCheckpoint(<< >>)
  PROVE  AliveInv'
<1>1. /\ DOMAIN candidate' = {} /\ round' = NoRound /\ forgotten' = begun /\ task' = task
  BY DEF InstallCheckpoint, database
<1> SUFFICES ASSUME Calm' PROVE AliveOK(task', reports', candidate', round')
  BY DEF AliveInv
<1>2. DOMAIN task' = {}
  BY <1>1 DEF Inv, RestOK, Calm
<1> QED
  BY <1>1, <1>2 DEF AliveOK, Reported, CandidatesAlive, RoundAlive

LEMMA BeginAlive ==
  ASSUME Inv, AliveInv, QueueMutation
  PROVE  AliveInv'
<1> DEFINE new == {SearchTask(begun + 1, s) : s \in Slots}
<1>1. /\ begun \in Nat /\ UNCHANGED <<candidate, reports, forgotten, crashes>>
      /\ task' = AddTasks(task, new, {})
      /\ round' = [id |-> begun + 1, base |-> checkpoint,
                   status |-> "independent-search", candidates |-> {}]
  BY DEF QueueMutation, Inv, RestOK
<1> SUFFICES ASSUME Calm' PROVE AliveOK(task', reports, candidate, round')
  BY <1>1 DEF AliveInv
<1>2. AliveOK(task, reports, candidate, round)
  BY <1>1 DEF AliveInv, Calm
<1>3. \A u \in new : u.stage = "search" /\ u.round = begun + 1
  BY JudgeNames
<1>4. \A u \in new : u \notin DOMAIN task
  BY <1>1, <1>3 DEF Inv, RestOK
<1> HIDE DEF new
<1>5. /\ DOMAIN task' = DOMAIN task \cup new
      /\ \A u \in DOMAIN task : task'[u] = task[u]
      /\ \A u \in new : task'[u].status = "queued"
  BY <1>1, <1>4 DEF AddTasks, Queued
<1>6. Reported(task', reports)
  BY <1>2, <1>5 DEF AliveOK, Reported
<1>7. CandidatesAlive(task', reports, candidate)
  <2> SUFFICES ASSUME NEW d \in DOMAIN candidate
               PROVE  StatusAlive(task', reports, candidate[d].status, d)
    BY DEF CandidatesAlive
  <2>1. StatusAlive(task, reports, candidate[d].status, d)
    BY <1>2 DEF AliveOK, CandidatesAlive
  <2>2. candidate[d].status = "accepted" => ReplayTask(d) \notin DOMAIN task'
    BY <1>3, <1>5, <2>1, JudgeNames DEF StatusAlive
  <2> QED
    BY <1>5, <2>1, <2>2, GrowsAlive
<1>8. SearchAlive(task', begun + 1)
  <2>1. \A s \in Slots : SearchTask(begun + 1, s) \in new
    BY DEF new
  <2>2. 0 \in Slots
    BY Constants DEF Slots
  <2> QED
    BY <1>5, <2>1, <2>2 DEF SearchAlive
<1>9. RoundAlive(task', candidate, round')
  BY <1>1, <1>8 DEF RoundAlive
<1> QED
  BY <1>6, <1>7, <1>9 DEF AliveOK
-----------------------------------------------------------------------------
(* The best accepted candidate goes on to its replay, or the round ends.    *)
LEMMA SelectAlive ==
  ASSUME NEW T, NEW R, NEW C, RecordsOK(C, begun), RoundOK(round, begun),
         Entrants \subseteq DOMAIN C, SelectBest(C, T),
         Reported(T, R), CandidatesAlive(T, R, C),
         \A d \in Entrants : C[d].status \in UnderWay \cup Evaluated
  PROVE  AliveOK(task', R, candidate', round')
<1>1. CASE Accepted(C) = {} /\ Close(C) /\ task' = T
  <2>1. /\ round' = NoRound /\ DOMAIN candidate' = DOMAIN C
        /\ \A d \in DOMAIN C : \/ candidate'[d] = C[d]
                               \/ candidate'[d] = [C[d] EXCEPT !.status = "rejected"]
    BY <1>1 DEF Close
  <2>2. \A d \in DOMAIN C : candidate'[d].status \in {C[d].status, "rejected"}
    BY <2>1 DEF RecordsOK, Records
  <2>3. \A d \in DOMAIN C : StatusAlive(T, R, "rejected", d)
    BY DEF StatusAlive
  <2>4. CandidatesAlive(T, R, candidate')
    BY <2>1, <2>2, <2>3 DEF CandidatesAlive
  <2> QED
    BY <1>1, <2>1, <2>4 DEF AliveOK, RoundAlive
<1>2. CASE (\E d \in Best(C) : QueueReplay(C, d, T)) /\ UNCHANGED round
  <2>1. PICK b \in Best(C) : QueueReplay(C, b, T)
    BY <1>2
  <2>2. b \in Entrants /\ C[b].status = "accepted" /\ round # NoRound /\ b \in DOMAIN C
    BY DEF Best, Accepted, Entrants
  <2>3. /\ DOMAIN candidate' = DOMAIN C
        /\ \A d \in DOMAIN C \ {b} : candidate'[d] = C[d]
        /\ candidate'[b].status = "replay-audit"
    <3>1. C[b] \in Records
      BY <2>2 DEF RecordsOK
    <3>2. candidate' = [C EXCEPT ![b].status = "replay-audit"]
      BY <2>1 DEF QueueReplay, WithStatus
    <3> QED
      BY <2>2, <3>1, <3>2 DEF Records
  <2>4. ReplayTask(b) \notin DOMAIN T
    BY <2>2 DEF CandidatesAlive, StatusAlive
  <2>5. /\ DOMAIN task' = DOMAIN T \cup {ReplayTask(b)}
        /\ \A u \in DOMAIN T : task'[u] = T[u]
        /\ task'[ReplayTask(b)].status = "queued"
    BY <2>1, <2>4 DEF QueueReplay, AddTasks, Queued
  <2>6. Reported(task', R)
    BY <2>5 DEF Reported
  <2>7. ASSUME NEW d \in DOMAIN C PROVE StatusAlive(task', R, candidate'[d].status, d)
    <3>1. CASE d = b
      BY <2>3, <2>5, <3>1 DEF StatusAlive
    <3>2. CASE d # b
      <4>1. StatusAlive(T, R, C[d].status, d) /\ candidate'[d] = C[d]
        BY <2>3, <3>2 DEF CandidatesAlive
      <4>2. ReplayTask(d) # ReplayTask(b)
        BY <3>2, JudgeNames
      <4>3. candidate'[d].status = "accepted" => ReplayTask(d) \notin DOMAIN task'
        BY <2>5, <4>1, <4>2 DEF StatusAlive
      <4> QED
        BY <2>5, <4>1, <4>3, GrowsAlive
    <3> QED
      BY <3>1, <3>2
  <2>8. CandidatesAlive(task', R, candidate')
    BY <2>3, <2>7 DEF CandidatesAlive
  <2>9. round.status # "independent-search" /\ Entrants = round.candidates
    BY <2>2 DEF RoundOK, Entrants
  <2>10. EntrantsAlive(candidate', round.candidates)
    BY <2>2, <2>3, <2>9 DEF EntrantsAlive, UnderWay
  <2> QED
    BY <1>2, <2>6, <2>8, <2>9, <2>10 DEF AliveOK, RoundAlive
<1> QED
  BY <1>1, <1>2 DEF SelectBest
LEMMA RecordReports ==
  ASSUME Inv, NEW t \in LeasedTasks, NEW v, t.stage # "replay", Reported(task, reports)
  PROVE  /\ reports \subseteq Record(t, v)
         /\ Reported(Completed(t), Record(t, v))
<1>1. reports \subseteq Record(t, v)
  BY DEF Record
<1>2. \E p \in Record(t, v) : p.task = t
  <2>1. [task |-> t, node |-> task[t].holder, value |-> v] \in Record(t, v)
    BY DEF Record
  <2> QED
    BY <2>1
<1> QED
  BY <1>1, <1>2, CompletedReported DEF Inv

(* A report of a judge that moves nothing.                                 *)
LEMMA JudgeAlive ==
  ASSUME Inv, AliveOK(task, reports, candidate, round), NEW t \in LeasedTasks, NEW v,
         t.stage \in {"verify", "replicate"}, t.delta \in DOMAIN candidate,
         Awaits(candidate[t.delta].status, t.stage) => ~Consensus(Record(t, v), t, v)
  PROVE  AliveOK(Completed(t), Record(t, v), candidate, round)
<1>1. reports \subseteq Record(t, v) /\ Reported(Completed(t), Record(t, v))
  BY RecordReports DEF AliveOK
<1>2. ASSUME NEW d \in DOMAIN candidate
      PROVE  StatusAlive(Completed(t), Record(t, v), candidate[d].status, d)
  <2>1. StatusAlive(task, reports, candidate[d].status, d)
    BY DEF AliveOK, CandidatesAlive
  <2>2. CASE d = t.delta /\ Awaits(candidate[d].status, t.stage)
    <3>1. Unsettled(task, reports, t.stage, t.delta)
      BY <2>1, <2>2 DEF StatusAlive, Awaits
    <3>2. Unsettled(Completed(t), Record(t, v), t.stage, t.delta)
      BY <2>2, <3>1, JudgesGoOn DEF AliveOK
    <3> QED
      BY <2>2, <3>2 DEF StatusAlive, Awaits
  <2>3. CASE ~(d = t.delta /\ Awaits(candidate[d].status, t.stage))
    BY <1>1, <2>1, <2>3, OthersAlive DEF Inv
  <2> QED
    BY <2>2, <2>3
<1>3. RoundAlive(Completed(t), candidate, round)
  BY SearchGoesOn DEF AliveOK, RoundAlive, Inv
<1> QED
  BY <1>1, <1>2, <1>3 DEF AliveOK, CandidatesAlive

LEMMA VerificationAlive ==
  ASSUME Inv, OrderInv, AliveInv, NEW t \in LeasedTasks, NEW v, ReportVerification(t, v)
  PROVE  AliveInv'
<1> DEFINE d == t.delta
           R == Record(t, v)
           C == Judged(t, v)
           T == Completed(t)
<1>1. /\ t.stage = "verify" /\ v \in Evidence["verify"][d.kind] /\ d \in DOMAIN candidate
      /\ task[t].holder \notin NodesOf(candidate[d].trainers)
      /\ reports' = R
      /\ UNCHANGED <<begun, forgotten, crashes>>
  BY DEF ReportVerification, bounds
<1> SUFFICES ASSUME Calm PROVE AliveOK(task', R, candidate', round')
  BY <1>1 DEF AliveInv, Calm
<1>2. AliveOK(task, reports, candidate, round)
  BY DEF AliveInv
<1>3. CASE /\ task' = T /\ UNCHANGED <<candidate, round>>
           /\ ~Consensus(R, t, v) \/ candidate[d].status # "global-verification"
  <2>1. AliveOK(T, R, candidate, round)
    BY <1>1, <1>2, <1>3, JudgeAlive DEF Awaits
  <2> QED
    BY <1>3, <2>1
<1>4. CASE /\ Consensus(R, t, v) /\ candidate[d].status = "global-verification" /\ Advance(C, T)
  <2>1. /\ RecordsOK(C, begun) /\ DOMAIN C = DOMAIN candidate
        /\ \A e \in DOMAIN candidate \ {d} : C[e] = candidate[e]
        /\ C[d].status \in {"accepted", "rejected"}
    BY <1>1, <1>4, JudgedOK, JudgedFields
  <2>2. d \in Entrants /\ EvidenceOK(task, reports, candidate) /\ Entrants \subseteq DOMAIN candidate
    BY <1>1, <1>4, ConditionFacts DEF OrderInv, CalmOK, Inv
  <2>3. round # NoRound /\ Entrants = round.candidates /\ round.status # "independent-search"
    BY <2>2 DEF Entrants, Inv, RoundOK
  <2>4. EntrantsAlive(candidate, Entrants)
    BY <1>2, <2>3 DEF AliveOK, RoundAlive
  <2>5. reports \subseteq R /\ Reported(T, R) /\ DOMAIN T = DOMAIN task
    BY <1>1, <1>2, RecordReports, CompletedRows DEF AliveOK, Inv
  <2> HIDE DEF C
  <2>6. CandidatesAlive(T, R, C)
    <3> SUFFICES ASSUME NEW e \in DOMAIN C PROVE StatusAlive(T, R, C[e].status, e)
      BY DEF CandidatesAlive
    <3>1. CASE e = d
      <4>1. ReplayTask(d) \notin DOMAIN T
        <5>1. ReplayTask(d).stage = "replay" /\ ReplayTask(d).delta = d
          BY JudgeNames
        <5>2. ReplayTask(d) \notin DOMAIN task
          BY <1>4, <2>2, <5>1 DEF EvidenceOK
        <5> QED
          BY <2>5, <5>2
      <4> QED
        BY <2>1, <3>1, <4>1 DEF StatusAlive
    <3>2. CASE e # d
      <4>1. C[e] = candidate[e] /\ StatusAlive(task, reports, candidate[e].status, e)
        BY <1>2, <2>1, <3>2 DEF AliveOK, CandidatesAlive
      <4> QED
        BY <2>5, <3>2, <4>1, OthersAlive DEF Inv
    <3> QED
      BY <3>1, <3>2
  <2>7. \A e \in Entrants : C[e].status \in UnderWay \cup Evaluated
    BY <2>1, <2>2, <2>4 DEF EntrantsAlive, Evaluated
  <2> HIDE DEF T
  <2>8. CASE Undecided(C) /\ candidate' = C /\ task' = T /\ UNCHANGED round
    <3>1. \E e \in Entrants : C[e].status \in UnderWay
      BY <2>7, <2>8 DEF Undecided, UnderWay
    <3>2. RoundAlive(T, C, round)
      BY <2>3, <2>7, <3>1 DEF RoundAlive, EntrantsAlive
    <3> QED
      BY <2>5, <2>6, <2>8, <3>2 DEF AliveOK
  <2>9. CASE SelectBest(C, T)
    BY <2>1, <2>2, <2>5, <2>6, <2>7, <2>9, SelectAlive DEF Inv
  <2> QED
    BY <1>4, <2>2, <2>8, <2>9 DEF Advance, C
<1> QED
  BY <1>3, <1>4 DEF ReportVerification, Judged

LEMMA ReplayAlive ==
  ASSUME Inv, OrderInv, AliveInv, NEW t \in LeasedTasks, NEW k, ReportReplay(t, k)
  PROVE  AliveInv'
<1> DEFINE d == t.delta
           T == Completed(t)
<1>1. /\ t.stage = "replay" /\ d \in DOMAIN candidate
      /\ UNCHANGED <<begun, forgotten, crashes, reports>>
  BY DEF ReportReplay, bounds
<1> SUFFICES ASSUME Calm PROVE AliveOK(task', reports, candidate', round')
  BY <1>1 DEF AliveInv, Calm
<1>2. AliveOK(task, reports, candidate, round)
  BY DEF AliveInv
<1>3. d \in Entrants /\ ~Replicated(task, d) /\ Entrants \subseteq DOMAIN candidate
  BY <1>1, ReplayAlone, ConditionFacts
<1>4. round # NoRound /\ Entrants = round.candidates /\ round.status # "independent-search"
  BY <1>3 DEF Entrants, Inv, RoundOK
<1>5. EntrantsAlive(candidate, Entrants)
  BY <1>2, <1>4 DEF AliveOK, RoundAlive
<1>6. Reported(T, reports) /\ DOMAIN T = DOMAIN task
  BY <1>1, <1>2, CompletedReported, CompletedRows DEF AliveOK, Inv
<1>7. \A e \in DOMAIN candidate : e # d => StatusAlive(T, reports, candidate[e].status, e)
  BY <1>2, OthersAlive DEF AliveOK, CandidatesAlive, Inv
<1> HIDE DEF T
<1>8. CASE SelectBest(Replayed(t, "replay-failed"), T)
  <2> DEFINE C == Replayed(t, "replay-failed")
  <2>1. RecordsOK(C, begun) /\ DOMAIN C = DOMAIN candidate
    BY <1>1, ReplayedOK DEF Statuses, Evaluated, Selected
  <2>2. /\ \A e \in DOMAIN candidate \ {d} : C[e] = candidate[e]
        /\ C[d].status = "replay-failed"
    BY <1>1, ReplayedFields
  <2> HIDE DEF C
  <2>3. StatusAlive(T, reports, "replay-failed", d)
    BY DEF StatusAlive
  <2>4. CandidatesAlive(T, reports, C)
    BY <1>7, <2>1, <2>2, <2>3 DEF CandidatesAlive
  <2>5. \A e \in Entrants : C[e].status \in UnderWay \cup Evaluated
    BY <1>3, <1>5, <2>2 DEF EntrantsAlive, Evaluated
  <2>6. SelectBest(C, T)
    BY <1>8 DEF C
  <2> QED
    BY <1>3, <1>6, <2>1, <2>4, <2>5, <2>6, SelectAlive DEF Inv
<1>9. CASE /\ candidate' = Replayed(t, "replication-verification") /\ UNCHANGED round
           /\ task' = AddTasks(T, {ReplicateTask(d, s) : s \in 0..(Quorum - 1)},
                               Barred(candidate'[d]))
  <2> DEFINE C == candidate'
             U == task'
             S == {ReplicateTask(d, s) : s \in 0..(Quorum - 1)}
  <2>1. /\ DOMAIN C = DOMAIN candidate
        /\ \A e \in DOMAIN candidate \ {d} : C[e] = candidate[e]
        /\ C[d].status = "replication-verification"
    BY <1>1, <1>9, ReplayedFields
  <2>2. \A u \in S : u.stage = "replicate" /\ u.delta = d /\ u \notin DOMAIN T
    BY <1>3, <1>6, JudgeNames DEF Replicated
  <2>3. \A s \in Ballots : JudgeTask("replicate", d, s) \in S
    BY JudgeNames DEF Ballots
  <2>4. 0 \in Ballots
    BY Constants DEF Ballots
  <2> HIDE DEF S
  <2>5. /\ DOMAIN U = DOMAIN T \cup S
        /\ \A u \in DOMAIN T : U[u] = T[u]
        /\ \A u \in S : U[u].status = "queued"
    BY <1>9, <2>2 DEF AddTasks, Queued, S
  <2> HIDE DEF C, U
  <2>6. Unsettled(U, reports, "replicate", d)
    BY <2>3, <2>4, <2>5 DEF Unsettled
  <2>7. ASSUME NEW e \in DOMAIN C PROVE StatusAlive(U, reports, C[e].status, e)
    <3>1. CASE e = d
      BY <2>1, <2>6, <3>1 DEF StatusAlive
    <3>2. CASE e # d
      <4>1. StatusAlive(T, reports, C[e].status, e)
        BY <1>7, <2>1, <3>2
      <4>2. C[e].status = "accepted" => ReplayTask(e) \notin DOMAIN U
        BY <2>2, <2>5, <4>1, JudgeNames DEF StatusAlive
      <4> QED
        BY <2>5, <4>1, <4>2, GrowsAlive
    <3> QED
      BY <3>1, <3>2
  <2>8. Reported(U, reports)
    BY <1>6, <2>5 DEF Reported
  <2>9. EntrantsAlive(C, Entrants)
    BY <1>3, <1>5, <2>1 DEF EntrantsAlive, UnderWay
  <2>10. RoundAlive(U, C, round)
    BY <1>4, <2>9 DEF RoundAlive
  <2>11. AliveOK(U, reports, C, round)
    BY <2>7, <2>8, <2>10 DEF AliveOK, CandidatesAlive
  <2> QED
    BY <1>9, <2>11 DEF C, U
<1> QED
  BY <1>8, <1>9 DEF ReportReplay, Replayed, T

(* The round ends with the candidate of t.                                 *)
LEMMA EndAlive ==
  ASSUME Inv, AliveOK(task, reports, candidate, round), NEW t \in LeasedTasks, NEW v,
         t.stage = "replicate", t.delta \in DOMAIN candidate,
         DOMAIN candidate' = DOMAIN candidate, round' = NoRound,
         candidate'[t.delta].status \in {"promoted", "rejected"},
         \A e \in DOMAIN candidate \ {t.delta} :
           candidate'[e].status \in {candidate[e].status, "rejected"}
  PROVE  AliveOK(Completed(t), Record(t, v), candidate', round')
<1>1. reports \subseteq Record(t, v) /\ Reported(Completed(t), Record(t, v))
  BY RecordReports DEF AliveOK
<1>2. \A d, s : s \in {"promoted", "rejected"} => StatusAlive(Completed(t), Record(t, v), s, d)
  BY DEF StatusAlive
<1>3. \A d \in DOMAIN candidate \ {t.delta} :
        StatusAlive(Completed(t), Record(t, v), candidate[d].status, d)
  BY <1>1, OthersAlive DEF AliveOK, CandidatesAlive, Inv
<1>4. CandidatesAlive(Completed(t), Record(t, v), candidate')
  BY <1>2, <1>3 DEF CandidatesAlive
<1> QED
  BY <1>1, <1>4 DEF AliveOK, RoundAlive

LEMMA ReplicationAlive ==
  ASSUME Inv, AliveInv, NEW t \in LeasedTasks, NEW v, ReportReplication(t, v)
  PROVE  AliveInv'
<1> DEFINE d == t.delta
           R == Record(t, v)
           C == Confirmed(t, v)
           T == Completed(t)
<1>1. /\ t.stage = "replicate" /\ d \in DOMAIN candidate /\ reports' = R
      /\ UNCHANGED <<begun, forgotten, crashes>>
  BY DEF ReportReplication, bounds
<1> SUFFICES ASSUME Calm PROVE AliveOK(task', R, candidate', round')
  BY <1>1 DEF AliveInv, Calm
<1>2. AliveOK(task, reports, candidate, round)
  BY DEF AliveInv
<1>3. CASE /\ task' = T /\ UNCHANGED <<candidate, round>>
           /\ ~Consensus(R, t, v) \/ candidate[d].status # "replication-verification"
  <2>1. AliveOK(T, R, candidate, round)
    BY <1>1, <1>2, <1>3, JudgeAlive DEF Awaits
  <2> QED
    BY <1>3, <2>1
<1>4. CASE Promote(d, C) /\ task' = T
  <2>1. candidate' = WithStatus(C, d, "promoted") /\ round' = NoRound
    BY <1>4 DEF Promote
  <2>2. /\ DOMAIN candidate' = DOMAIN candidate
        /\ candidate'[d].status = "promoted"
        /\ \A e \in DOMAIN candidate \ {d} : candidate'[e] = candidate[e]
    BY <1>1, <2>1, ConfirmedFields
  <2>3. AliveOK(T, R, candidate', round')
    BY <1>1, <1>2, <2>1, <2>2, EndAlive
  <2> QED
    BY <1>4, <2>3
<1>5. CASE FailReplication(C, d, T)
  <2>1. Close(WithStatus(C, d, "rejected")) /\ task' = T
    BY <1>5 DEF FailReplication
  <2>2. AliveOK(T, R, candidate', round')
    BY <1>1, <1>2, <2>1, FailedFields, EndAlive
  <2> QED
    BY <2>1, <2>2
<1> QED
  BY <1>3, <1>4, <1>5 DEF ReportReplication, Confirmed
(* The last search of a round: its candidates wait for their verifiers.     *)
LEMMA SearchEndTasks ==
  ASSUME Inv, NEW t \in LeasedTasks, NEW k, ReportSearch(t, k),
         ~(task' = Completed(t) /\ UNCHANGED <<candidate, round>>)
  PROVE  /\ DOMAIN task' = DOMAIN task \cup VerifyTasks(Found(t, k))
         /\ \A u \in DOMAIN task' \ DOMAIN task : task'[u].status = "queued"
         /\ Found(t, k) # {}
<1> DEFINE R == Record(t, k)
           found == Found(t, k)
           fresh == VerifyTasks(found)
<1>1. \E source \in [found -> {r.task : r \in ReportsOn(R, t)}] :
        task' = [u \in DOMAIN task \cup fresh |->
                   IF u \in DOMAIN task THEN Completed(t)[u]
                   ELSE Queued(NodesOf(candidate'[u.delta].trainers))]
  BY DEF ReportSearch, Found
<1>2. found # {}
  <2>1. [task |-> t, node |-> task[t].holder, value |-> k] \in R
    BY DEF Record
  <2>2. \E r \in R : r.task = t
    BY <2>1
  <2>3. ReportsOn(R, t) # {}
    BY <2>2 DEF ReportsOn, SameWork
  <2> QED
    BY <2>3 DEF Found, FoundIn
<1> HIDE DEF fresh, found, R
<1>3. DOMAIN task' = DOMAIN task \cup fresh
  BY <1>1
<1>4. \A u \in DOMAIN task' \ DOMAIN task : task'[u].status = "queued"
  BY <1>1 DEF Queued
<1> QED
  BY <1>2, <1>3, <1>4 DEF fresh, found

LEMMA SearchAlives ==
  ASSUME Inv, OrderInv, AliveInv, NEW t \in LeasedTasks, NEW k, ReportSearch(t, k)
  PROVE  AliveInv'
<1> DEFINE R == Record(t, k)
           T == Completed(t)
           S == Found(t, k)
<1>1. /\ t.stage = "search" /\ k \in Trained[t.slot] /\ reports' = R
      /\ UNCHANGED <<begun, forgotten, crashes>>
  BY DEF ReportSearch, bounds
<1> SUFFICES ASSUME Calm PROVE AliveOK(task', R, candidate', round')
  BY <1>1 DEF AliveInv, Calm
<1>2. AliveOK(task, reports, candidate, round)
  BY DEF AliveInv
<1>3. reports \subseteq R /\ Reported(T, R) /\ DOMAIN T = DOMAIN task
  BY <1>1, <1>2, RecordReports, CompletedRows DEF AliveOK, Inv
<1>4. \A d \in DOMAIN candidate : StatusAlive(T, R, candidate[d].status, d)
  BY <1>1, <1>2, <1>3, OthersAlive DEF AliveOK, CandidatesAlive, Awaits, Inv
<1>5. CASE task' = T /\ UNCHANGED <<candidate, round>> /\ ~SearchEnds(R, t)
  <2>1. round.status = "independent-search" /\ SearchAlive(T, round.id)
    BY <1>1, <1>2, <1>5, SearchNotOver
  <2>2. RoundAlive(T, candidate, round)
    BY <2>1 DEF RoundAlive
  <2> QED
    BY <1>3, <1>4, <1>5, <2>2 DEF AliveOK, CandidatesAlive
<1>6. CASE ~(task' = T /\ UNCHANGED <<candidate, round>>)
  <2>1. /\ SearchEnds(R, t) /\ round' = Listed(t, k)
        /\ \E f : Recorded(t, k, S, f, candidate')
        /\ \A u \in DOMAIN task : task'[u] = T[u]
        /\ \A u \in DOMAIN task' \ DOMAIN task : u.stage = "verify" /\ u.delta \in S
    BY <1>6, SearchEndFacts
  <2>2. /\ DOMAIN task' = DOMAIN task \cup VerifyTasks(S)
        /\ \A u \in DOMAIN task' \ DOMAIN task : task'[u].status = "queued"
        /\ S # {}
    BY <1>6, SearchEndTasks
  <2>3. PICK f : Recorded(t, k, S, f, candidate')
    BY <2>1
  <2>4. /\ S \cap DOMAIN candidate = {} /\ DOMAIN candidate' = DOMAIN candidate \cup S
        /\ \A d \in DOMAIN candidate : candidate'[d] = candidate[d]
    BY <2>3 DEF Recorded
  <2>5. \A d \in S : candidate'[d].status = "global-verification"
    <3> TAKE d \in S
    <3>1. candidate'[d] = NewCandidate(R, t, d, f[d])
      BY <2>3, <2>4 DEF Recorded
    <3> QED
      BY <3>1 DEF NewCandidate
  <2>6. /\ round' \in RoundSet /\ round'.candidates = S
        /\ round'.status = "blind-global-verification"
    <3>1. round # NoRound /\ Listed(t, k) \in RoundSet /\ Listed(t, k).candidates = S
      BY <1>1, <2>1, FoundFacts
    <3>2. round \in RoundSet
      BY <3>1 DEF Inv, RoundOK
    <3>3. Listed(t, k).status = "blind-global-verification"
      BY <3>2 DEF Listed, RoundSet
    <3> QED
      BY <2>1, <3>1, <3>3
  <2>7. ASSUME NEW d \in S PROVE Unsettled(task', R, "verify", d)
    <3>1. \A s \in Ballots : JudgeTask("verify", d, s) \in VerifyTasks(S)
      BY JudgeNames DEF VerifyTasks, Ballots
    <3>2. \A s \in Ballots : JudgeTask("verify", d, s) \notin DOMAIN task
      <4>1. d \notin DOMAIN candidate
        BY <2>4
      <4>2. \A u \in DOMAIN task : u.stage # "search" => u.delta \in DOMAIN candidate
        BY ConditionFacts
      <4> QED
        BY <4>1, <4>2, JudgeNames
    <3>3. 0 \in Ballots
      BY Constants DEF Ballots
    <3> QED
      BY <2>2, <3>1, <3>2, <3>3 DEF Unsettled
  <2> HIDE DEF T, R, S
  <2>8. ASSUME NEW d \in DOMAIN candidate' PROVE StatusAlive(task', R, candidate'[d].status, d)
    <3>1. CASE d \in S
      BY <2>5, <2>7, <3>1 DEF StatusAlive
    <3>2. CASE d \in DOMAIN candidate
      <4>1. StatusAlive(T, R, candidate'[d].status, d)
        BY <1>4, <2>4, <3>2
      <4>2. candidate'[d].status = "accepted" => ReplayTask(d) \notin DOMAIN task'
        BY <1>3, <2>1, <4>1, JudgeNames DEF StatusAlive
      <4> QED
        BY <1>3, <2>1, <2>2, <4>1, <4>2, GrowsAlive
    <3> QED
      BY <2>4, <3>1, <3>2
  <2>9. Reported(task', R)
    BY <1>3, <2>1, <2>2 DEF Reported
  <2>10. EntrantsAlive(candidate', S)
    BY <2>2, <2>5 DEF EntrantsAlive, UnderWay
  <2>11. RoundAlive(task', candidate', round')
    BY <2>6, <2>10 DEF RoundAlive
  <2> QED
    BY <2>8, <2>9, <2>11 DEF AliveOK, CandidatesAlive
<1>7. ASSUME SearchEnds(R, t) PROVE round' # round
  <2>1. round.status = "independent-search" /\ round \in RoundSet
    BY <1>7 DEF SearchEnds, Inv, RoundOK
  <2>2. round' = Listed(t, k)
    BY <1>7 DEF ReportSearch, Listed, Found
  <2>3. Listed(t, k).status = "blind-global-verification"
    BY <2>1 DEF Listed, RoundSet
  <2> QED
    BY <2>1, <2>2, <2>3
<1> QED
  BY <1>5, <1>6, <1>7 DEF ReportSearch

LEMMA InitAlive == Init => AliveInv
<1> SUFFICES ASSUME Init PROVE AliveInv
  OBVIOUS
<1>1. DOMAIN task = {} /\ DOMAIN candidate = {} /\ round = NoRound
  BY DEF Init
<1> QED
  BY <1>1 DEF AliveInv, AliveOK, Reported, CandidatesAlive, RoundAlive

LEMMA AliveNext ==
  ASSUME Inv, OrderInv, AliveInv, [CrashNext]_vars
  PROVE  AliveInv'
<1>1. CASE Operate
  <2>1. CASE (\E a \in SelectionArtifacts : SetSelection(a)) \/ \E a \in ReplicationArtifacts : SetReplication(a)
    <3>1. UNCHANGED <<candidate, round, reports, task, forgotten, crashes>>
      BY <2>1 DEF SetSelection, SetReplication, database
    <3> QED
      BY <3>1, QuietAlive DEF Calm
  <2> QED
    BY <1>1, <2>1, InstallAlive, BeginAlive DEF Operate
<1>2. CASE Claims
  <2>1. PICK n \in Nodes, t \in DOMAIN task : Claim(n, t)
    BY <1>2 DEF Claims
  <2>2. /\ DOMAIN task' = DOMAIN task
        /\ \A u \in DOMAIN task : task'[u].status = "completed" <=> task[u].status = "completed"
    BY <2>1, ClaimedOK DEF Inv
  <2>3. UNCHANGED <<candidate, round, reports, forgotten, crashes>>
    BY <2>1 DEF Claim, store, bounds
  <2> QED
    BY <2>2, <2>3, QuietAlive DEF Calm
<1>3. CASE Reports
  <2>1. PICK t \in LeasedTasks : Report(t)
    BY <1>3 DEF Reports
  <2>2. \A k : ReportSearch(t, k) \/ ReportReplay(t, k) => AliveInv'
    BY SearchAlives, ReplayAlive
  <2>3. \A v : ReportVerification(t, v) \/ ReportReplication(t, v) => AliveInv'
    BY VerificationAlive, ReplicationAlive
  <2> QED
    BY <2>1, <2>2, <2>3 DEF Report
<1>4. CASE Losses
  <2>1. PICK t \in LeasedTasks : Expire(t) \/ Abandon(t)
    BY <1>4 DEF Losses
  <2>2. /\ t \in DOMAIN task /\ task[t] \in Row /\ task[t].status = "assigned"
        /\ DOMAIN task' = DOMAIN task
        /\ \A u \in DOMAIN task \ {t} : task'[u] = task[u]
    BY <2>1, LeasedFacts DEF Expire, Abandon, Inv
  <2>3. task'[t].status # "completed"
    <3>1. CASE Expire(t)
      BY <2>2, <3>1 DEF Expire
    <3>2. CASE Abandon(t)
      BY <2>2, <3>2 DEF Abandon, Row
    <3> QED
      BY <2>1, <3>1, <3>2
  <2>4. UNCHANGED <<candidate, round, reports, forgotten, crashes>>
    BY <2>1 DEF Expire, Abandon, store
  <2> QED
    BY <2>2, <2>3, <2>4, QuietAlive DEF Calm
<1>5. CASE Crash
  <2>1. crashes' = crashes + 1 /\ crashes \in Nat
    BY <1>5, ConditionFacts DEF Crash
  <2> QED
    BY <2>1 DEF AliveInv, Calm
<1>6. CASE UNCHANGED vars
  <2>1. UNCHANGED <<candidate, round, reports, forgotten, crashes, task>>
    BY <1>6 DEF vars, store, database, bounds
  <2> QED
    BY <2>1, QuietAlive DEF Calm
<1> QED
  BY <1>1, <1>2, <1>3, <1>4, <1>5, <1>6 DEF CrashNext, Next

THEOREM Alive == CrashSpec => []AliveInv
<1>1. Init => AliveInv
  BY InitAlive
<1>2. Inv /\ OrderInv /\ AliveInv /\ [CrashNext]_vars => AliveInv'
  BY AliveNext
<1> QED
  BY <1>1, <1>2, Invariance, Ordered, PTL DEF CrashSpec

(* No round hangs, in whatever order and however late its reports come and  *)
(* its leases are lost: some task of it is unfinished, or judges of one of  *)
(* its candidates disagree.  Nobody closes a round from outside             *)
(* (v6/service.py), so it has to end by its own work.  A kill, or a         *)
(* checkpoint installed over an earlier one, is excepted.                  *)
THEOREM NoRoundIsStuck == CrashSpec => []RoundsCanEnd
<1>1. Inv /\ AliveInv => RoundsCanEnd
  <2> DEFINE Unfinished == \E t \in DOMAIN task :
               /\ t.round = round.id \/ t.delta \in round.candidates
               /\ task[t].status # "completed"
             Disagree == \E r, q \in reports :
               /\ r.task.delta \in round.candidates
               /\ SameWork(r.task, q.task) /\ r.value # q.value
  <2> SUFFICES ASSUME Inv, AliveInv, round # NoRound, crashes = 0, forgotten = 0
               PROVE  Unfinished \/ Disagree
    BY DEF RoundsCanEnd
  <2>1. AliveOK(task, reports, candidate, round) /\ QueueOK(task, reports)
    BY DEF AliveInv, Calm, Inv
  <2>2. CASE round.status = "independent-search"
    <3>1. PICK s \in Slots : /\ SearchTask(round.id, s) \in DOMAIN task
                             /\ task[SearchTask(round.id, s)].status # "completed"
      BY <2>1, <2>2 DEF AliveOK, RoundAlive, SearchAlive
    <3> QED
      BY <3>1, JudgeNames
  <2>3. CASE round.status # "independent-search"
    <3>1. PICK d \in round.candidates : candidate[d].status \in UnderWay
      BY <2>1, <2>3 DEF AliveOK, RoundAlive, EntrantsAlive
    <3>2. StatusAlive(task, reports, candidate[d].status, d)
      BY <2>1, <3>1 DEF AliveOK, CandidatesAlive, Inv, Entrants
    <3>3. ASSUME NEW stage \in {"verify", "replicate"}, Unsettled(task, reports, stage, d)
          PROVE  Unfinished \/ Disagree
      <4>1. CASE \E s \in Ballots : task[JudgeTask(stage, d, s)].status # "completed"
        <5>1. PICK s \in Ballots : task[JudgeTask(stage, d, s)].status # "completed"
          BY <4>1
        <5>2. JudgeTask(stage, d, s) \in DOMAIN task /\ JudgeTask(stage, d, s).delta = d
          BY <3>3, JudgeNames DEF Unsettled
        <5> QED
          BY <5>1, <5>2
      <4>2. CASE Split(reports, stage, d)
        <5>1. PICK p, q \in reports : /\ p.task.stage = stage /\ p.task.delta = d
                                      /\ q.task.stage = stage /\ q.task.delta = d
                                      /\ p.value # q.value
          BY <4>2 DEF Split
        <5>2. /\ p.task \in TaskSet /\ Named(p.task)
              /\ q.task \in TaskSet /\ Named(q.task)
          BY <2>1 DEF QueueOK
        <5>3. p.task.round = 0 /\ q.task.round = 0
          BY <5>1, <5>2 DEF Named, VerifyTask, ReplicateTask
        <5>4. SameWork(p.task, q.task)
          BY <5>1, <5>2, <5>3, WorkFields
        <5> QED
          BY <5>1, <5>4
      <4> QED
        BY <3>3, <4>1, <4>2 DEF Unsettled
    <3>4. CASE candidate[d].status = "replay-audit"
      <4>1. /\ ReplayTask(d) \in DOMAIN task /\ ReplayTask(d).delta = d
            /\ task[ReplayTask(d)].status # "completed"
        BY <3>2, <3>4, JudgeNames DEF StatusAlive
      <4> QED
        BY <4>1
    <3> HIDE DEF Unfinished, Disagree
    <3> QED
      BY <3>1, <3>2, <3>3, <3>4 DEF UnderWay, StatusAlive
  <2> QED
    BY <2>2, <2>3
<1> QED
  BY <1>1, Invariance, Alive, PTL
-----------------------------------------------------------------------------
(***************************************************************************)
(* A promotion pays the work it rests on.  Rewards are computed from the   *)
(* candidate's record, so the record has to say who did that work: whoever *)
(* reported the searches that found it, all its verifiers, its replay.     *)
(* As long as nothing is killed open tasks belong to the active round, and *)
(* their candidate waits for them; so a record is written once, after the  *)
(* last report it is made of.  This is so under a later checkpoint, too,   *)
(* where EvidenceOK is not.                                                *)
(***************************************************************************)
Open(T) == {t \in DOMAIN T : T[t].status # "completed"}

(* Slots are numbered, completed tasks reported, by their holder.           *)
BooksOK(T, R) ==
  /\ \A t \in DOMAIN T : t.stage \in {"verify", "replicate"} => t.slot \in Ballots
  /\ Reported(T, R)
  /\ \A p \in R : T[p.task].holder = p.node

(* All that is open is the round's, and its candidate waits for it.         *)
OpenOK(T, C, r) ==
  \A t \in Open(T) :
    IF t.stage = "search"
    THEN r # NoRound /\ t.round = r.id /\ r.status = "independent-search"
    ELSE t.delta \in Ent(r) /\ Awaits(C[t.delta].status, t.stage)

(* One candidate of the round is selected at a time, when all were verified. *)
OneSelected(C, r) ==
  \A d, e \in Ent(r) : C[d].status \in Selected =>
    /\ C[e].status # "global-verification"
    /\ C[e].status \in Selected => e = d

Panel(T, stage, d) ==
  {Stamp(T[JudgeTask(stage, d, s)].holder, JudgeTask(stage, d, s)) : s \in Ballots}

Complete(T, stage, d) ==
  \A s \in Ballots : /\ JudgeTask(stage, d, s) \in DOMAIN T
                     /\ T[JudgeTask(stage, d, s)].status = "completed"

Finders(R, id, k) ==
  {Stamp(p.node, p.task) :
     p \in {q \in R : q.task.stage = "search" /\ q.task.round = id /\ q.value = k}}

(* The record c of d names those who did the work.                         *)
RecordTrue(T, R, c, d) ==
  /\ \A t \in Open(T) : t.stage = "search" => t.round # c.round
  /\ c.trainers = Finders(R, c.round, d.kind)
  /\ c.status \in {"accepted"} \cup Selected =>
       Complete(T, "verify", d) /\ c.verifiers = Panel(T, "verify", d)
  /\ c.status = "replication-verification" =>
       /\ ReplayTask(d) \in DOMAIN T /\ T[ReplayTask(d)].status = "completed"
       /\ c.replay = {Stamp(T[ReplayTask(d)].holder, ReplayTask(d))}

RecordsTrue(T, R, C) == \A d \in DOMAIN C : RecordTrue(T, R, C[d], d)

WorkOK(T, R, C, r) == OpenOK(T, C, r) /\ OneSelected(C, r) /\ RecordsTrue(T, R, C)

PayInv ==
  /\ BooksOK(task, reports)
  /\ crashes = 0 => WorkOK(task, reports, candidate, round)

LEMMA CompletedHolders ==
  ASSUME QueueOK(task, reports), NEW t \in LeasedTasks
  PROVE  /\ DOMAIN Completed(t) = DOMAIN task
         /\ \A u \in DOMAIN task : Completed(t)[u].holder = task[u].holder
         /\ \A u \in DOMAIN task : Completed(t)[u].status = "completed" <=>
                                   task[u].status = "completed" \/ u = t
         /\ Open(Completed(t)) = Open(task) \ {t}
<1>1. t \in DOMAIN task /\ task[t] \in Row
  BY LeasedFacts
<1>2. /\ DOMAIN Completed(t) = DOMAIN task
      /\ \A u \in DOMAIN task \ {t} : Completed(t)[u] = task[u]
      /\ Completed(t)[t].status = "completed"
  BY CompletedRows, <1>1
<1>3. Completed(t)[t] = [task[t] EXCEPT !.status = "completed"]
  BY <1>1 DEF Completed
<1>4. Completed(t)[t].holder = task[t].holder
  BY <1>1, <1>3 DEF Row
<1>5. Open(Completed(t)) = Open(task) \ {t}
  BY <1>2 DEF Open
<1> QED
  BY <1>2, <1>4, <1>5

LEMMA BooksSame ==
  ASSUME NEW T, NEW U, NEW R, BooksOK(T, R), DOMAIN U = DOMAIN T,
         \A p \in R : p.task \in DOMAIN T /\ T[p.task].status = "completed",
         \A t \in DOMAIN T : /\ U[t].status = "completed" <=> T[t].status = "completed"
                             /\ T[t].status = "completed" => U[t].holder = T[t].holder
  PROVE  BooksOK(U, R)
BY DEF BooksOK, Reported

LEMMA BooksGrow ==
  ASSUME NEW T, NEW U, NEW R, BooksOK(T, R), DOMAIN T \subseteq DOMAIN U,
         \A t \in DOMAIN T : U[t] = T[t], \A p \in R : p.task \in DOMAIN T,
         \A t \in DOMAIN U \ DOMAIN T :
           /\ U[t].status = "queued"
           /\ t.stage \in {"verify", "replicate"} => t.slot \in Ballots
  PROVE  BooksOK(U, R)
BY DEF BooksOK, Reported

LEMMA BooksCompleted ==
  ASSUME QueueOK(task, reports), BooksOK(task, reports), NEW t \in LeasedTasks, NEW R,
         \/ t.stage = "replay" /\ R = reports
         \/ \E v : R = Record(t, v)
  PROVE  BooksOK(Completed(t), R)
<1>1. /\ DOMAIN Completed(t) = DOMAIN task
      /\ \A u \in DOMAIN task : Completed(t)[u].holder = task[u].holder
  BY CompletedHolders
<1>2. reports \subseteq R /\ \A p \in R : p \in reports \/ (p.task = t /\ p.node = task[t].holder)
  BY DEF Record
<1>3. t.stage = "replay" \/ \E p \in R : p.task = t
  <2>1. CASE \E v : R = Record(t, v)
    <3>1. PICK v : R = Record(t, v)
      BY <2>1
    <3>2. [task |-> t, node |-> task[t].holder, value |-> v] \in R
      BY <3>1 DEF Record
    <3> QED
      BY <3>2
  <2> QED
    BY <2>1
<1>4. Reported(Completed(t), R)
  BY <1>2, <1>3, CompletedReported DEF BooksOK
<1>5. t \in DOMAIN task /\ \A p \in reports : p.task \in DOMAIN task
  BY LeasedFacts DEF QueueOK
<1>6. \A p \in R : Completed(t)[p.task].holder = p.node
  BY <1>1, <1>2, <1>5 DEF BooksOK
<1> QED
  BY <1>1, <1>4, <1>6 DEF BooksOK
-----------------------------------------------------------------------------
(* Tasks change hands.                                                     *)
LEMMA RowsWork ==
  ASSUME NEW T, NEW U, NEW R, NEW C, NEW r, DOMAIN U = DOMAIN T, WorkOK(T, R, C, r),
         \A t \in DOMAIN T : /\ U[t].status = "completed" <=> T[t].status = "completed"
                             /\ T[t].status = "completed" => U[t].holder = T[t].holder
  PROVE  WorkOK(U, R, C, r)
<1>1. Open(U) = Open(T)
  BY DEF Open
<1>2. OpenOK(U, C, r)
  BY <1>1 DEF WorkOK, OpenOK
<1>3. \A d : Complete(T, "verify", d) =>
             Complete(U, "verify", d) /\ Panel(U, "verify", d) = Panel(T, "verify", d)
  BY DEF Complete, Panel
<1>4. ASSUME NEW d \in DOMAIN C PROVE RecordTrue(U, R, C[d], d)
  <2>1. RecordTrue(T, R, C[d], d)
    BY DEF WorkOK, RecordsTrue
  <2> QED
    BY <1>1, <1>3, <2>1 DEF RecordTrue
<1> QED
  BY <1>2, <1>4 DEF WorkOK, RecordsTrue

LEMMA GrowTrue ==
  ASSUME NEW T, NEW U, NEW R, NEW c, NEW d, RecordTrue(T, R, c, d), DOMAIN T \subseteq DOMAIN U,
         \A t \in DOMAIN T : U[t] = T[t],
         \A t \in DOMAIN U \ DOMAIN T : t.stage = "search" => t.round # c.round
  PROVE  RecordTrue(U, R, c, d)
<1>1. \A t \in Open(U) : t.stage = "search" => t.round # c.round
  BY DEF Open, RecordTrue
<1>2. Complete(T, "verify", d) =>
        Complete(U, "verify", d) /\ Panel(U, "verify", d) = Panel(T, "verify", d)
  BY DEF Complete, Panel
<1> QED
  BY <1>1, <1>2 DEF RecordTrue

(* A status that promises less.                                            *)
LEMMA RestatedTrue ==
  ASSUME NEW T, NEW R, NEW c, NEW e, NEW d, RecordTrue(T, R, c, d),
         e.round = c.round, e.trainers = c.trainers, e.verifiers = c.verifiers,
         e.status \in {"accepted"} \cup Selected => c.status \in {"accepted"} \cup Selected,
         e.status # "replication-verification"
  PROVE  RecordTrue(T, R, e, d)
BY DEF RecordTrue

(* Task t is completed, and reported if it is no replay: what a record says *)
(* already stays true.                                                     *)
LEMMA CompletedTrue ==
  ASSUME QueueOK(task, reports), NEW t \in LeasedTasks, NEW R, R = reports \/ \E v : R = Record(t, v),
         NEW c, NEW d, RecordTrue(task, reports, c, d)
  PROVE  RecordTrue(Completed(t), R, c, d)
<1> DEFINE T == Completed(t)
<1>1. /\ DOMAIN T = DOMAIN task /\ Open(T) = Open(task) \ {t}
      /\ \A u \in DOMAIN task : T[u].holder = task[u].holder
      /\ \A u \in DOMAIN task : task[u].status = "completed" => T[u].status = "completed"
  BY CompletedHolders
<1>2. t \in Open(task)
  BY LeasedFacts DEF Open
<1>3. reports \subseteq R /\ \A p \in R : p \in reports \/ p.task = t
  BY DEF Record
<1> HIDE DEF T
<1>4. Finders(R, c.round, d.kind) = Finders(reports, c.round, d.kind)
  BY <1>2, <1>3 DEF Finders, RecordTrue
<1>5. Complete(task, "verify", d) =>
        Complete(T, "verify", d) /\ Panel(T, "verify", d) = Panel(task, "verify", d)
  BY <1>1 DEF Complete, Panel
<1>6. /\ \A u \in Open(T) : u.stage = "search" => u.round # c.round
      /\ c.trainers = Finders(R, c.round, d.kind)
  BY <1>1, <1>4 DEF RecordTrue
<1>7. c.status = "replication-verification" =>
        /\ ReplayTask(d) \in DOMAIN T /\ T[ReplayTask(d)].status = "completed"
        /\ c.replay = {Stamp(T[ReplayTask(d)].holder, ReplayTask(d))}
  BY <1>1 DEF RecordTrue
<1> QED
  BY <1>5, <1>6, <1>7 DEF RecordTrue, T

(* Judges that agree are all the judges.                                    *)
LEMMA Unanimity ==
  ASSUME Inv, BooksOK(task, reports), NEW t \in LeasedTasks, NEW v,
         NEW stage \in {"verify", "replicate"}, t.stage = stage, Consensus(Record(t, v), t, v)
  PROVE  /\ Complete(Completed(t), stage, t.delta)
         /\ VerifiersOf(Record(t, v), t, v) = Panel(Completed(t), stage, t.delta)
         /\ \A u \in DOMAIN task : u.stage = stage /\ u.delta = t.delta =>
              u = JudgeTask(stage, u.delta, u.slot) /\ u.slot \in Ballots
<1> DEFINE R == Record(t, v)
           T == Completed(t)
           d == t.delta
           A == Agreeing(R, t, v)
           f == [r \in A |-> r.task.slot]
<1>1. /\ t \in TaskSet /\ Named(t) /\ QueueOK(task, reports) /\ OneReport(reports)
  BY LeasedFacts DEF Inv
<1>2. /\ IsFiniteSet(R) /\ QueueOK(T, R) /\ OneReport(R)
      /\ BooksOK(T, R) /\ DOMAIN T = DOMAIN task
  BY <1>1, RecordFacts, RecordedOK, BooksCompleted, CompletedRows
<1> HIDE DEF T, R
<1>3. ASSUME NEW u \in DOMAIN T, u.stage = stage, u.delta = d
      PROVE  u = JudgeTask(stage, d, u.slot) /\ u.slot \in Ballots
  <2>1. Named(u) /\ u.slot \in Ballots
    BY <1>2, <1>3 DEF QueueOK, BooksOK
  <2> QED
    BY <1>3, <2>1, JudgeNames DEF Named
<1>4. A \subseteq R /\ \A r \in A : SameWork(r.task, t)
  BY DEF Agreeing, ReportsOn
<1>5. ASSUME NEW r \in A
      PROVE  /\ r.task \in DOMAIN T /\ T[r.task].status = "completed" /\ T[r.task].holder = r.node
             /\ r.task = JudgeTask(stage, d, r.task.slot) /\ r.task.slot \in Ballots
  <2>1. /\ r.task \in DOMAIN T /\ T[r.task].status = "completed" /\ T[r.task].holder = r.node
        /\ r.task \in TaskSet
    BY <1>2, <1>4 DEF QueueOK, BooksOK
  <2>2. r.task.stage = stage /\ r.task.delta = d
    BY <1>1, <1>4, <2>1, WorkFields
  <2> QED
    BY <1>3, <2>1, <2>2
<1>6. f \in Injection(A, Ballots)
  <2>1. f \in [A -> Ballots]
    BY <1>5
  <2>2. \A r, s \in A : f[r] = f[s] => r = s
    BY <1>2, <1>4, <1>5 DEF OneReport
  <2> QED
    BY <2>1, <2>2 DEF Injection, IsInjective
<1>7. IsFiniteSet(Ballots) /\ Cardinality(Ballots) = Quorum
  <2>1. 0 \in Int /\ Quorum - 1 \in Int /\ ~(0 > Quorum - 1)
    BY Constants
  <2>2. IsFiniteSet(Ballots) /\ Cardinality(Ballots) = Quorum - 1 - 0 + 1
    BY <2>1, FS_Interval DEF Ballots
  <2> QED
    BY <2>2, Constants
<1>8. IsFiniteSet(A) /\ Cardinality(A) >= Quorum
  <2>1. IsFiniteSet(A)
    BY <1>2, <1>4, FS_Subset
  <2> QED
    BY <2>1 DEF Consensus, R
<1> HIDE DEF f, A
<1>9. Cardinality(A) <= Cardinality(Ballots) /\ Cardinality(A) \in Nat
  BY <1>6, <1>7, <1>8, FS_Injection, FS_CardinalityType
<1>10. Cardinality(A) = Cardinality(Ballots)
  BY <1>7, <1>8, <1>9, Constants
<1>11. f \in Surjection(A, Ballots)
  BY <1>6, <1>7, <1>10, FS_Injection
<1>12. ASSUME NEW s \in Ballots
       PROVE  \E r \in A : r.task = JudgeTask(stage, d, s)
  <2>1. PICK r \in A : f[r] = s
    BY <1>11 DEF Surjection
  <2>2. r.task.slot = s
    BY <2>1 DEF f
  <2> QED
    BY <1>5, <2>2
<1>13. Complete(T, stage, d)
  BY <1>5, <1>12 DEF Complete
<1>14. Stamps(A) = Panel(T, stage, d)
  <2>1. \A r \in A : Stamp(r.node, r.task) \in Panel(T, stage, d)
    BY <1>5 DEF Panel
  <2>2. ASSUME NEW s \in Ballots
        PROVE  Stamp(T[JudgeTask(stage, d, s)].holder, JudgeTask(stage, d, s)) \in Stamps(A)
    BY <1>5, <1>12 DEF Stamps
  <2> QED
    BY <2>1, <2>2 DEF Stamps, Panel
<1> QED
  BY <1>2, <1>3, <1>13, <1>14 DEF VerifiersOf, T, R, A

(* Numbered slots are added.                                               *)
LEMMA AddBooks ==
  ASSUME NEW T, NEW R, BooksOK(T, R), \A p \in R : p.task \in DOMAIN T, NEW S, NEW X,
         \A t \in S : t.stage \in {"verify", "replicate"} => t.slot \in Ballots
  PROVE  BooksOK(AddTasks(T, S, X), R)
<1> DEFINE U == AddTasks(T, S, X)
<1>1. /\ DOMAIN U = DOMAIN T \cup S
      /\ \A t \in DOMAIN T : U[t] = T[t]
      /\ \A t \in DOMAIN U \ DOMAIN T : U[t].status = "queued"
  BY DEF AddTasks, Queued
<1> HIDE DEF U
<1>2. BooksOK(U, R)
  BY <1>1, BooksGrow
<1> QED
  BY <1>2 DEF U

LEMMA SelectBooks ==
  ASSUME NEW T, NEW R, NEW C, BooksOK(T, R), \A p \in R : p.task \in DOMAIN T,
         task' = T \/ SelectBest(C, T)
  PROVE  BooksOK(task', R)
<1>1. CASE task' = T
  BY <1>1
<1>2. CASE SelectBest(C, T)
  <2>1. task' = T \/ \E d : task' = AddTasks(T, {ReplayTask(d)}, NodesOf(C[d].trainers))
    BY <1>2 DEF SelectBest, QueueReplay
  <2>2. \A d : ReplayTask(d).stage = "replay"
    BY JudgeNames
  <2>3. ASSUME NEW d, task' = AddTasks(T, {ReplayTask(d)}, NodesOf(C[d].trainers))
        PROVE  BooksOK(task', R)
    BY <2>2, <2>3, AddBooks
  <2> QED
    BY <2>1, <2>3
<1> QED
  BY <1>1, <1>2

(* Slots and holders of every kind of step.                                *)
LEMMA ReportBooks ==
  ASSUME Inv, BooksOK(task, reports), NEW t \in LeasedTasks, Report(t)
  PROVE  BooksOK(task', reports')
<1> DEFINE T == Completed(t)
<1>1. QueueOK(task, reports) /\ OneReport(reports) /\ t \in TaskSet /\ t \in DOMAIN task
  BY LeasedFacts DEF Inv
<1>2. DOMAIN T = DOMAIN task /\ \A p \in reports : p.task \in DOMAIN T
  BY <1>1, CompletedRows DEF QueueOK
<1>3. \A v : \A p \in Record(t, v) : p.task \in DOMAIN T
  BY <1>1, <1>2 DEF Record
<1>4. \A v : BooksOK(T, Record(t, v))
  BY <1>1, BooksCompleted
<1>5. t.stage = "replay" => BooksOK(T, reports)
  BY <1>1, BooksCompleted
<1>6. ASSUME NEW k \in Kinds, ReportSearch(t, k)
      PROVE  BooksOK(task', reports')
  <2>1. reports' = Record(t, k)
    BY <1>6 DEF ReportSearch
  <2>2. CASE task' = T /\ UNCHANGED <<candidate, round>>
    BY <1>4, <2>1, <2>2
  <2>3. CASE ~(task' = T /\ UNCHANGED <<candidate, round>>)
    <3>1. /\ DOMAIN task \subseteq DOMAIN task' /\ \A u \in DOMAIN task : task'[u] = T[u]
          /\ DOMAIN task' = DOMAIN task \cup VerifyTasks(Found(t, k))
          /\ \A u \in DOMAIN task' \ DOMAIN task : task'[u].status = "queued"
      BY <1>6, <2>3, SearchEndFacts, SearchEndTasks
    <3>2. \A u \in VerifyTasks(Found(t, k)) : u.slot \in Ballots
      BY JudgeNames DEF VerifyTasks, Ballots
    <3> HIDE DEF T
    <3> QED
      BY <1>2, <1>3, <1>4, <2>1, <3>1, <3>2, BooksGrow
  <2> QED
    BY <2>2, <2>3
<1>7. ASSUME NEW k \in Kinds, ReportReplay(t, k)
      PROVE  BooksOK(task', reports')
  <2>1. t.stage = "replay" /\ reports' = reports
    BY <1>7 DEF ReportReplay
  <2>2. \A d, s : ReplicateTask(d, s).slot = s
    BY JudgeNames
  <2>3. \/ \E X : task' = AddTasks(T, {ReplicateTask(t.delta, s) : s \in Ballots}, X)
        \/ \E C : SelectBest(C, T)
    BY <1>7 DEF ReportReplay, Ballots
  <2>4. ASSUME NEW X, task' = AddTasks(T, {ReplicateTask(t.delta, s) : s \in Ballots}, X)
        PROVE  BooksOK(task', reports)
    <3>1. \A u \in {ReplicateTask(t.delta, s) : s \in Ballots} : u.slot \in Ballots
      BY <2>2
    <3> HIDE DEF T
    <3> QED
      BY <1>2, <1>5, <2>1, <2>4, <3>1, AddBooks
  <2>5. ASSUME NEW C, SelectBest(C, T)
        PROVE  BooksOK(task', reports)
    BY <1>2, <1>5, <2>1, <2>5, SelectBooks
  <2> QED
    BY <2>1, <2>3, <2>4, <2>5
<1>8. ASSUME NEW v, ReportVerification(t, v)
      PROVE  BooksOK(task', reports')
  <2>1. reports' = Record(t, v) /\ (task' = T \/ \E C : SelectBest(C, T))
    BY <1>8 DEF ReportVerification, Advance
  <2> QED
    BY <1>3, <1>4, <2>1, SelectBooks
<1>9. ASSUME NEW v, ReportReplication(t, v)
      PROVE  BooksOK(task', reports')
  BY <1>4, <1>9 DEF ReportReplication, FailReplication
<1> QED
  BY <1>6, <1>7, <1>8, <1>9 DEF Report

(***************************************************************************)
(* The work behind the records.                                            *)
(***************************************************************************)
(* A candidate is picked for replay, or the round closes, when its tasks    *)
(* are done and all its candidates were judged.                             *)
LEMMA SelectWork ==
  ASSUME NEW T, NEW R, NEW C, RecordsOK(C, begun), Entrants \subseteq DOMAIN C, SelectBest(C, T),
         Open(T) = {}, \A e \in Entrants : C[e].status \notin UnderWay, RecordsTrue(T, R, C)
  PROVE  WorkOK(task', R, candidate', round')
<1>1. CASE Accepted(C) = {} /\ Close(C) /\ task' = T
  <2>1. /\ round' = NoRound /\ DOMAIN candidate' = DOMAIN C
        /\ \A d \in DOMAIN C : \/ candidate'[d] = C[d]
                               \/ candidate'[d] = [C[d] EXCEPT !.status = "rejected"]
    BY <1>1 DEF Close
  <2>2. ASSUME NEW d \in DOMAIN C PROVE RecordTrue(T, R, candidate'[d], d)
    <3>1. RecordTrue(T, R, C[d], d) /\ C[d] \in Records
      BY DEF RecordsTrue, RecordsOK
    <3>2. CASE candidate'[d] = [C[d] EXCEPT !.status = "rejected"]
      <4>1. /\ candidate'[d].status = "rejected" /\ candidate'[d].round = C[d].round
            /\ candidate'[d].trainers = C[d].trainers /\ candidate'[d].verifiers = C[d].verifiers
        BY <3>1, <3>2 DEF Records
      <4> QED
        BY <3>1, <4>1, RestatedTrue DEF Selected
    <3> QED
      BY <2>1, <3>1, <3>2
  <2> QED
    BY <1>1, <2>1, <2>2 DEF WorkOK, OpenOK, OneSelected, RecordsTrue, Ent
<1>2. CASE (\E d \in Best(C) : QueueReplay(C, d, T)) /\ UNCHANGED round
  <2>1. PICK b \in Best(C) : QueueReplay(C, b, T)
    BY <1>2
  <2>2. b \in Entrants /\ C[b].status = "accepted" /\ round # NoRound /\ b \in DOMAIN C
    BY DEF Best, Accepted, Entrants
  <2>3. Entrants = Ent(round')
    BY <1>2 DEF Ent, Entrants
  <2>4. /\ DOMAIN candidate' = DOMAIN C
        /\ \A d \in DOMAIN C \ {b} : candidate'[d] = C[d]
        /\ candidate'[b].status = "replay-audit" /\ candidate'[b].round = C[b].round
        /\ candidate'[b].trainers = C[b].trainers /\ candidate'[b].verifiers = C[b].verifiers
    <3>1. C[b] \in Records
      BY <2>2 DEF RecordsOK
    <3>2. candidate' = [C EXCEPT ![b].status = "replay-audit"]
      BY <2>1 DEF QueueReplay, WithStatus
    <3> QED
      BY <2>2, <3>1, <3>2 DEF Records
  <2>5. task' = AddTasks(T, {ReplayTask(b)}, NodesOf(C[b].trainers))
    BY <2>1 DEF QueueReplay
  <2>6. /\ Open(task') \subseteq {ReplayTask(b)} /\ DOMAIN task' = DOMAIN T \cup {ReplayTask(b)}
        /\ \A u \in DOMAIN T : task'[u] = T[u]
    BY <2>5 DEF AddTasks, Queued, Open
  <2>7. ReplayTask(b).stage = "replay" /\ ReplayTask(b).delta = b
    BY JudgeNames
  <2>8. OpenOK(task', candidate', round')
    BY <2>2, <2>3, <2>4, <2>6, <2>7 DEF OpenOK, Awaits
  <2>9. OneSelected(candidate', round')
    <3>1. \A e \in Entrants \ {b} : candidate'[e].status \notin UnderWay
      BY <2>4
    <3> QED
      BY <2>3, <2>4, <3>1 DEF OneSelected, UnderWay, Selected
  <2>10. ASSUME NEW d \in DOMAIN C PROVE RecordTrue(task', R, candidate'[d], d)
    <3>1. RecordTrue(T, R, C[d], d)
      BY DEF RecordsTrue
    <3>2. RecordTrue(task', R, C[d], d)
      <4>1. \A u \in DOMAIN task' \ DOMAIN T : u.stage # "search"
        BY <2>6, <2>7
      <4> QED
        BY <2>6, <3>1, <4>1, GrowTrue
    <3> QED
      BY <2>2, <2>4, <3>2, RestatedTrue DEF Selected
  <2> QED
    BY <2>4, <2>8, <2>9, <2>10 DEF WorkOK, RecordsTrue
<1> QED
  BY <1>1, <1>2 DEF SelectBest

(* A task of a candidate that is reported is one its candidate waits for.   *)
LEMMA LeasedWork ==
  ASSUME Inv, WorkOK(task, reports, candidate, round), NEW t \in LeasedTasks
  PROVE  /\ t.stage = "search" => /\ round # NoRound /\ t.round = round.id /\ Ent(round) = {}
                                  /\ round.status = "independent-search"
         /\ t.stage # "search" =>
              /\ t.delta \in Ent(round) /\ t.delta \in DOMAIN candidate /\ round # NoRound
              /\ Awaits(candidate[t.delta].status, t.stage)
              /\ \A u \in Open(task) : u.stage # "search"
<1>1. t \in Open(task)
  BY LeasedFacts DEF Open, Inv
<1>2. IF t.stage = "search"
      THEN round # NoRound /\ t.round = round.id /\ round.status = "independent-search"
      ELSE t.delta \in Ent(round) /\ Awaits(candidate[t.delta].status, t.stage)
  BY <1>1 DEF WorkOK, OpenOK
<1>3. round # NoRound /\ round.status = "independent-search" => Ent(round) = {}
  BY DEF Inv, RoundOK, Ent
<1>4. t.stage # "search" => round # NoRound
  BY <1>2 DEF Ent
<1>5. t.stage # "search" => \A u \in Open(task) : u.stage # "search"
  BY <1>2, <1>3 DEF WorkOK, OpenOK
<1>6. Ent(round) \subseteq DOMAIN candidate
  BY DEF Inv, Entrants, Ent
<1> QED
  BY <1>2, <1>3, <1>4, <1>5, <1>6

(* A report that changes no record.                                         *)
LEMMA NoVerdictWork ==
  ASSUME Inv, WorkOK(task, reports, candidate, round), NEW t \in LeasedTasks, NEW v
  PROVE  WorkOK(Completed(t), Record(t, v), candidate, round)
<1>1. Open(Completed(t)) = Open(task) \ {t}
  BY CompletedHolders DEF Inv
<1>2. OpenOK(Completed(t), candidate, round)
  BY <1>1 DEF WorkOK, OpenOK
<1>3. ASSUME NEW d \in DOMAIN candidate
      PROVE  RecordTrue(Completed(t), Record(t, v), candidate[d], d)
  BY CompletedTrue DEF WorkOK, RecordsTrue, Inv
<1> QED
  BY <1>2, <1>3 DEF WorkOK, RecordsTrue

(* A judgement that is reached: D is the table with the verdict on d.       *)
LEMMA VerdictTasks ==
  ASSUME Inv, BooksOK(task, reports), WorkOK(task, reports, candidate, round),
         NEW t \in LeasedTasks, NEW v, NEW stage \in {"verify", "replicate"}, t.stage = stage,
         Consensus(Record(t, v), t, v)
  PROVE  \A u \in Open(Completed(t)) : /\ u \in Open(task) /\ u.stage # "search"
                                       /\ u.delta # t.delta
<1> SUFFICES ASSUME NEW u \in Open(Completed(t)), u \in Open(task), u.stage # "search",
                    u.delta = t.delta
             PROVE  FALSE
  BY CompletedHolders, LeasedWork DEF Inv
<1>1. Awaits(candidate[t.delta].status, u.stage) /\ Awaits(candidate[t.delta].status, t.stage)
  BY LeasedWork DEF WorkOK, OpenOK
<1>2. u.stage = stage
  BY <1>1 DEF Awaits
<1>3. u \in DOMAIN task /\ Completed(t)[u].status # "completed"
  BY CompletedHolders DEF Open, Inv
<1>4. u = JudgeTask(stage, t.delta, u.slot) /\ u.slot \in Ballots
  BY <1>2, <1>3, Unanimity
<1>5. Complete(Completed(t), stage, t.delta)
  BY Unanimity
<1> QED
  BY <1>3, <1>4, <1>5 DEF Complete

LEMMA VerificationWork ==
  ASSUME Inv, BooksOK(task, reports), WorkOK(task, reports, candidate, round),
         NEW t \in LeasedTasks, NEW v, ReportVerification(t, v)
  PROVE  WorkOK(task', reports', candidate', round')
<1> DEFINE d == t.delta
           R == Record(t, v)
           T == Completed(t)
           D == Judged(t, v)
<1>1. /\ t.stage = "verify" /\ d \in DOMAIN candidate /\ v \in Evidence["verify"][d.kind]
      /\ task[t].holder \notin NodesOf(candidate[d].trainers) /\ reports' = R
      /\ d \in Ent(round) /\ candidate[d].status = "global-verification" /\ round # NoRound
  BY LeasedWork DEF ReportVerification, Awaits
<1>2. CASE task' = T /\ UNCHANGED <<candidate, round>>
  BY <1>1, <1>2, NoVerdictWork
<1>3. CASE Consensus(R, t, v) /\ Advance(D, T)
  <2>1. /\ RecordsOK(D, begun) /\ DOMAIN D = DOMAIN candidate
        /\ Entrants \subseteq DOMAIN D /\ Entrants = Ent(round)
    <3>1. RecordsOK(D, begun) /\ DOMAIN D = DOMAIN candidate
      BY <1>1, <1>3, JudgedOK
    <3> QED
      BY <3>1 DEF Inv, Entrants, Ent
  <2>2. /\ \A e \in DOMAIN candidate \ {d} : D[e] = candidate[e]
        /\ D[d].status \in {"accepted", "rejected"}
        /\ D[d].round = candidate[d].round /\ D[d].trainers = candidate[d].trainers
        /\ D[d].verifiers = VerifiersOf(R, t, v)
    <3>1. candidate[d] \in Records
      BY <1>1 DEF Inv, RecordsOK
    <3>2. /\ \A e \in DOMAIN candidate \ {d} : D[e] = candidate[e]
          /\ D[d] = [candidate[d] EXCEPT !.status = IF v > 0 THEN "accepted" ELSE "rejected",
                                         !.verifiers = VerifiersOf(R, t, v), !.score = v]
      BY <1>1 DEF Judged
    <3> HIDE DEF D
    <3> QED
      BY <3>1, <3>2 DEF Records
  <2>3. /\ \A u \in Open(T) : u \in Open(task) /\ u.stage # "search" /\ u.delta # d
        /\ Complete(T, "verify", d) /\ VerifiersOf(R, t, v) = Panel(T, "verify", d)
    BY <1>1, <1>3, VerdictTasks, Unanimity
  <2>4. ASSUME NEW e \in DOMAIN D PROVE RecordTrue(T, R, D[e], e)
    <3>1. RecordTrue(T, R, candidate[e], e)
      BY <2>1, CompletedTrue DEF WorkOK, RecordsTrue, Inv
    <3>2. CASE e = d
      <4> HIDE DEF D, T, R
      <4> QED
        BY <2>2, <2>3, <3>1, <3>2 DEF RecordTrue, Selected
    <3> QED
      BY <2>1, <2>2, <3>1, <3>2
  <2> HIDE DEF D, T, R
  <2>5. \A e \in Ent(round) : D[e].status \notin Selected
    BY <1>1, <2>1, <2>2 DEF WorkOK, OneSelected, Selected
  <2>6. \A u \in Open(T) : u.delta \in Ent(round) /\ Awaits(D[u.delta].status, u.stage)
    BY <2>1, <2>2, <2>3 DEF WorkOK, OpenOK
  <2>7. CASE candidate' = D /\ task' = T /\ UNCHANGED round
    BY <1>1, <2>3, <2>4, <2>5, <2>6, <2>7 DEF WorkOK, OpenOK, OneSelected, RecordsTrue
  <2>8. CASE ~Undecided(D) /\ SelectBest(D, T)
    <3>1. \A e \in Entrants : D[e].status \notin UnderWay
      BY <2>8 DEF Undecided, Evaluated, UnderWay
    <3>2. Open(T) = {}
      BY <2>1, <2>6, <3>1 DEF Awaits, UnderWay
    <3>3. WorkOK(task', R, candidate', round')
      BY <2>1, <2>4, <2>8, <3>1, <3>2, SelectWork DEF RecordsTrue
    <3> QED
      BY <1>1, <3>3
  <2> QED
    BY <1>3, <2>7, <2>8 DEF Advance
<1> QED
  BY <1>2, <1>3 DEF ReportVerification, Judged

LEMMA ReplayWork ==
  ASSUME Inv, WorkOK(task, reports, candidate, round), NEW t \in LeasedTasks, NEW k, ReportReplay(t, k)
  PROVE  WorkOK(task', reports', candidate', round')
<1> DEFINE d == t.delta
           T == Completed(t)
<1>1. /\ t.stage = "replay" /\ d \in DOMAIN candidate /\ reports' = reports
      /\ d \in Ent(round) /\ candidate[d].status = "replay-audit" /\ round # NoRound
      /\ \A u \in Open(task) : u.stage # "search"
      /\ candidate[d] \in Records
  BY LeasedWork DEF ReportReplay, Awaits, Inv, RecordsOK
<1>2. \A e \in Ent(round) \ {d} : candidate[e].status \notin UnderWay
  BY <1>1 DEF WorkOK, OneSelected, Selected, UnderWay
<1>3. /\ DOMAIN T = DOMAIN task /\ T[t].status = "completed" /\ Open(T) = Open(task) \ {t}
      /\ t \in DOMAIN task /\ T[t].holder = task[t].holder /\ t = ReplayTask(d)
  BY <1>1, CompletedHolders, LeasedFacts, JudgeFacts DEF Inv
<1>4. Open(T) = {}
  <2>1. ASSUME NEW u \in Open(task) PROVE u = t
    <3>1. u.delta \in Ent(round) /\ Awaits(candidate[u.delta].status, u.stage)
      BY <1>1 DEF WorkOK, OpenOK
    <3>2. u.delta = d /\ u.stage = "replay"
      BY <1>1, <1>2, <3>1 DEF Awaits, UnderWay
    <3>3. Named(u)
      BY DEF Open, Inv, QueueOK
    <3> QED
      BY <1>3, <3>2, <3>3 DEF Named
  <2> QED
    BY <1>3, <2>1
<1>5. ASSUME NEW s
      PROVE  /\ DOMAIN Replayed(t, s) = DOMAIN candidate
             /\ \A e \in DOMAIN candidate \ {d} : Replayed(t, s)[e] = candidate[e]
             /\ Replayed(t, s)[d].status = s /\ Replayed(t, s)[d].round = candidate[d].round
             /\ Replayed(t, s)[d].trainers = candidate[d].trainers
             /\ Replayed(t, s)[d].verifiers = candidate[d].verifiers
             /\ Replayed(t, s)[d].replay = {Stamp(task[t].holder, t)}
  <2>1. /\ DOMAIN Replayed(t, s) = DOMAIN candidate
        /\ \A e \in DOMAIN candidate \ {d} : Replayed(t, s)[e] = candidate[e]
        /\ Replayed(t, s)[d] = [candidate[d] EXCEPT !.status = s,
                                                    !.replay = {Stamp(task[t].holder, t)}]
    BY <1>1 DEF Replayed
  <2> QED
    BY <1>1, <2>1 DEF Records
<1>6. ASSUME NEW e \in DOMAIN candidate PROVE RecordTrue(T, reports, candidate[e], e)
  BY CompletedTrue DEF WorkOK, RecordsTrue, Inv
<1> HIDE DEF T
<1>7. CASE /\ candidate' = Replayed(t, "replication-verification") /\ UNCHANGED round
           /\ \E X : task' = AddTasks(T, {ReplicateTask(d, s) : s \in Ballots}, X)
  <2>1. /\ DOMAIN T \subseteq DOMAIN task' /\ \A u \in DOMAIN T : task'[u] = T[u]
        /\ Open(task') \subseteq {ReplicateTask(d, s) : s \in Ballots}
        /\ DOMAIN task' \subseteq DOMAIN T \cup {ReplicateTask(d, s) : s \in Ballots}
    BY <1>4, <1>7 DEF AddTasks, Queued, Open
  <2>2. \A u \in {ReplicateTask(d, s) : s \in Ballots} : u.stage = "replicate" /\ u.delta = d
    BY JudgeNames
  <2>3. OpenOK(task', candidate', round')
    BY <1>1, <1>5, <1>7, <2>1, <2>2 DEF OpenOK, Awaits
  <2>4. OneSelected(candidate', round')
    <3>1. \A e \in Ent(round) \ {d} : candidate'[e].status \notin UnderWay
      <4>1. Ent(round) \subseteq DOMAIN candidate
        BY DEF Inv, Entrants, Ent
      <4> QED
        BY <1>2, <1>5, <1>7, <4>1
    <3>2. candidate'[d].status = "replication-verification" /\ round' = round
      BY <1>5, <1>7
    <3> QED
      BY <3>1, <3>2 DEF OneSelected, UnderWay, Selected
  <2>5. ASSUME NEW e \in DOMAIN candidate PROVE RecordTrue(task', reports, candidate'[e], e)
    <3>1. \A u \in DOMAIN task' \ DOMAIN T : u.stage # "search"
      BY <2>1, <2>2
    <3>2. RecordTrue(task', reports, candidate[e], e)
      BY <1>6, <2>1, <3>1, GrowTrue
    <3>3. CASE e = d
      <4>1. t \in DOMAIN task' /\ task'[t].status = "completed" /\ task'[t].holder = task[t].holder
        BY <1>3, <2>1
      <4>2. /\ candidate'[d].round = candidate[d].round
            /\ candidate'[d].trainers = candidate[d].trainers
            /\ candidate'[d].verifiers = candidate[d].verifiers
            /\ candidate'[d].replay = {Stamp(task[t].holder, t)}
        BY <1>5, <1>7
      <4>3. candidate[d].status \in {"accepted"} \cup Selected
        BY <1>1 DEF Selected
      <4> QED
        BY <1>3, <3>2, <3>3, <4>1, <4>2, <4>3 DEF RecordTrue
    <3> QED
      BY <1>5, <1>7, <3>2, <3>3
  <2>6. DOMAIN candidate' = DOMAIN candidate
    BY <1>5, <1>7
  <2> QED
    BY <1>1, <2>3, <2>4, <2>5, <2>6 DEF WorkOK, RecordsTrue
<1>8. CASE SelectBest(Replayed(t, "replay-failed"), T)
  <2> DEFINE C == Replayed(t, "replay-failed")
  <2>1. RecordsOK(C, begun) /\ DOMAIN C = DOMAIN candidate
    BY <1>1, ReplayedOK DEF Statuses, Evaluated, Selected
  <2>2. /\ C[d].status = "replay-failed" /\ C[d].round = candidate[d].round
        /\ C[d].trainers = candidate[d].trainers /\ C[d].verifiers = candidate[d].verifiers
        /\ \A e \in DOMAIN candidate \ {d} : C[e] = candidate[e]
    BY <1>5
  <2>3. SelectBest(C, T)
    BY <1>8
  <2> HIDE DEF C
  <2>4. Entrants \subseteq DOMAIN C /\ Entrants = Ent(round)
    BY <2>1 DEF Inv, Entrants, Ent
  <2>5. \A e \in Entrants : C[e].status \notin UnderWay
    BY <1>2, <2>1, <2>2, <2>4 DEF UnderWay
  <2>6. ASSUME NEW e \in DOMAIN C PROVE RecordTrue(T, reports, C[e], e)
    <3>1. RecordTrue(T, reports, candidate[e], e)
      BY <1>6, <2>1
    <3>2. CASE e = d
      BY <2>2, <3>1, <3>2, RestatedTrue DEF Selected
    <3> QED
      BY <2>1, <2>2, <3>1, <3>2
  <2> QED
    BY <1>1, <1>4, <2>1, <2>3, <2>4, <2>5, <2>6, SelectWork DEF RecordsTrue
<1> QED
  BY <1>7, <1>8 DEF ReportReplay, Replayed, Ballots, T

LEMMA ReplicationWork ==
  ASSUME Inv, BooksOK(task, reports), WorkOK(task, reports, candidate, round),
         NEW t \in LeasedTasks, NEW v, ReportReplication(t, v)
  PROVE  WorkOK(task', reports', candidate', round')
<1> DEFINE d == t.delta
           R == Record(t, v)
           T == Completed(t)
<1>1. /\ t.stage = "replicate" /\ d \in DOMAIN candidate /\ reports' = R
      /\ d \in Ent(round) /\ candidate[d].status = "replication-verification"
  BY LeasedWork DEF ReportReplication, Awaits
<1>2. CASE task' = T /\ UNCHANGED <<candidate, round>>
  BY <1>1, <1>2, NoVerdictWork
<1>3. CASE /\ Consensus(R, t, v) /\ task' = T
           /\ \/ candidate' = WithStatus(Confirmed(t, v), d, "promoted") /\ round' = NoRound
              \/ Close(WithStatus(Confirmed(t, v), d, "rejected"))
  <2>1. \A e \in Ent(round) \ {d} : candidate[e].status \notin UnderWay
    BY <1>1 DEF WorkOK, OneSelected, Selected, UnderWay
  <2>2. Open(T) = {}
    <3>1. ASSUME NEW u \in Open(T) PROVE FALSE
      <4>1. u \in Open(task) /\ u.stage # "search" /\ u.delta # d
        BY <1>1, <1>3, VerdictTasks
      <4>2. u.delta \in Ent(round) /\ Awaits(candidate[u.delta].status, u.stage)
        BY <4>1 DEF WorkOK, OpenOK
      <4> QED
        BY <2>1, <4>1, <4>2 DEF Awaits, UnderWay
    <3> QED
      BY <3>1
  <2>3. /\ Restated(candidate, candidate') /\ round' = NoRound
        /\ candidate'[d].status \in {"promoted", "rejected"}
        /\ \A e \in DOMAIN candidate \ {d} :
             candidate'[e].status \in {candidate[e].status, "rejected"}
    <3> DEFINE C == Confirmed(t, v)
    <3>1. RecordsOK(C, begun) /\ Restated(candidate, C)
      BY <1>1, <1>3, ConfirmedOK DEF ReportReplication
    <3>2. CASE candidate' = WithStatus(C, d, "promoted") /\ round' = NoRound
      <4>1. Restated(C, candidate')
        BY <3>1, <3>2, WithStatusOK DEF Statuses
      <4>2. /\ \A e \in DOMAIN candidate \ {d} : candidate'[e] = candidate[e]
            /\ candidate'[d].status = "promoted"
        BY <1>1, <3>2, ConfirmedFields
      <4> QED
        BY <3>1, <3>2, <4>1, <4>2, RestatedTwice
    <3>3. CASE Close(WithStatus(C, d, "rejected"))
      <4>1. Restated(C, WithStatus(C, d, "rejected")) /\ RecordsOK(WithStatus(C, d, "rejected"), begun)
        BY <3>1, WithStatusOK DEF Statuses, Evaluated
      <4>2. Restated(WithStatus(C, d, "rejected"), candidate')
        BY <3>3, <4>1, CloseOK
      <4>3. /\ \A e \in DOMAIN candidate \ {d} :
                 candidate'[e].status \in {candidate[e].status, "rejected"}
            /\ candidate'[d].status = "rejected" /\ round' = NoRound
        BY <1>1, <3>3, FailedFields
      <4> QED
        BY <3>1, <4>1, <4>2, <4>3, RestatedTwice
    <3> QED
      BY <1>3, <3>2, <3>3
  <2>4. ASSUME NEW e \in DOMAIN candidate PROVE RecordTrue(T, R, candidate'[e], e)
    <3>1. RecordTrue(T, R, candidate[e], e)
      BY CompletedTrue DEF WorkOK, RecordsTrue, Inv
    <3>2. SameRecord(candidate[e], candidate'[e])
      BY <2>3 DEF Restated
    <3>3. CASE candidate'[e].status = candidate[e].status
      BY <3>1, <3>2, <3>3 DEF RecordTrue, SameRecord
    <3>4. CASE candidate'[e].status \in {"promoted", "rejected"}
      BY <3>1, <3>2, <3>4 DEF RecordTrue, SameRecord, Selected
    <3> QED
      BY <2>3, <3>3, <3>4
  <2>5. DOMAIN candidate' = DOMAIN candidate
    BY <2>3 DEF Restated
  <2> QED
    BY <1>1, <1>3, <2>2, <2>3, <2>4, <2>5 DEF WorkOK, OpenOK, OneSelected, RecordsTrue, Ent
<1> QED
  BY <1>2, <1>3 DEF ReportReplication, Promote, FailReplication, Confirmed

LEMMA SearchWork ==
  ASSUME Inv, WorkOK(task, reports, candidate, round), NEW t \in LeasedTasks, NEW k, ReportSearch(t, k)
  PROVE  WorkOK(task', reports', candidate', round')
<1> DEFINE R == Record(t, k)
           T == Completed(t)
           S == Found(t, k)
<1>1. /\ t.stage = "search" /\ k \in Trained[t.slot] /\ reports' = R
      /\ round # NoRound /\ t.round = round.id /\ Ent(round) = {}
  BY LeasedWork DEF ReportSearch
<1>2. CASE task' = T /\ UNCHANGED <<candidate, round>>
  BY <1>1, <1>2, NoVerdictWork
<1>3. CASE ~(task' = T /\ UNCHANGED <<candidate, round>>)
  <2>1. /\ SearchEnds(R, t) /\ round' = Listed(t, k)
        /\ \E f : Recorded(t, k, S, f, candidate')
        /\ \A u \in DOMAIN task : task'[u] = T[u]
        /\ \A u \in DOMAIN task' \ DOMAIN task : u.stage = "verify" /\ u.delta \in S
        /\ DOMAIN task \subseteq DOMAIN task'
    BY <1>3, SearchEndFacts
  <2>2. PICK f : Recorded(t, k, S, f, candidate')
    BY <2>1
  <2>3. /\ S \cap DOMAIN candidate = {} /\ DOMAIN candidate' = DOMAIN candidate \cup S
        /\ \A d \in DOMAIN candidate : candidate'[d] = candidate[d]
    BY <2>2 DEF Recorded
  <2>4. \A d \in S : /\ candidate'[d].status = "global-verification"
                     /\ candidate'[d].round = t.round
                     /\ candidate'[d].trainers = Stamps(Agreeing(R, t, d.kind))
    <3> TAKE d \in S
    <3>1. candidate'[d] = NewCandidate(R, t, d, f[d])
      BY <2>2, <2>3 DEF Recorded
    <3> QED
      BY <3>1 DEF NewCandidate
  <2>5. round' # NoRound /\ Ent(round') = S
    <3>1. round # NoRound /\ Listed(t, k) \in RoundSet /\ Listed(t, k).candidates = S
      BY <1>1, <2>1, FoundFacts
    <3>2. Listed(t, k) # NoRound
      BY <3>1, NoRoundAssumption DEF RoundSet, Deltas
    <3> QED
      BY <2>1, <3>1, <3>2 DEF Ent
  <2>6. /\ DOMAIN T = DOMAIN task /\ Open(T) = Open(task) \ {t}
        /\ QueueOK(task, reports) /\ QueueOK(T, R)
    <3>1. k \in Kinds
      BY <1>1, SearchFacts
    <3>2. QueueOK(T, R)
      BY <1>1, <3>1, RecordedOK DEF Inv
    <3> QED
      BY <3>2, CompletedHolders DEF Inv
  <2>7. Open(T) = {}
    <3>1. \A u \in DOMAIN task : u.stage = "search" /\ u.round = t.round => T[u].status = "completed"
      BY <1>1, <2>1, AllSearched
    <3>2. \A u \in Open(task) : u.stage = "search" /\ u.round = t.round
      BY <1>1 DEF WorkOK, OpenOK
    <3> QED
      BY <2>6, <3>1, <3>2 DEF Open
  <2> HIDE DEF T, R, S
  <2>8. \A u \in Open(task') : u.stage = "verify" /\ u.delta \in S
    BY <2>1, <2>6, <2>7 DEF Open
  <2>9. OpenOK(task', candidate', round')
    BY <2>4, <2>5, <2>8 DEF OpenOK, Awaits
  <2>10. OneSelected(candidate', round')
    BY <2>4, <2>5 DEF OneSelected, Selected
  <2>11. ASSUME NEW d \in DOMAIN candidate PROVE RecordTrue(task', R, candidate'[d], d)
    <3>1. RecordTrue(T, R, candidate[d], d)
      BY CompletedTrue DEF WorkOK, RecordsTrue, Inv, T, R
    <3>2. RecordTrue(task', R, candidate[d], d)
      <4>1. \A u \in DOMAIN task' \ DOMAIN T : u.stage # "search"
        BY <2>1, <2>6
      <4> QED
        BY <2>1, <2>6, <3>1, <4>1, GrowTrue
    <3> QED
      BY <2>3, <3>2
  <2>12. ASSUME NEW d \in S PROVE RecordTrue(task', R, candidate'[d], d)
    <3>1. Stamps(Agreeing(R, t, d.kind)) = Finders(R, t.round, d.kind)
      <4>1. t \in TaskSet /\ t.delta = NoDelta
        <5>1. t \in TaskSet /\ Named(t)
          BY <2>6, LeasedFacts
        <5>2. t = SearchTask(t.round, t.slot)
          BY <1>1, <5>1 DEF Named
        <5>3. \A r, s : SearchTask(r, s).delta = NoDelta
          BY DEF SearchTask
        <5> QED
          BY <5>1, <5>2, <5>3
      <4>2. ASSUME NEW p \in R
            PROVE  SameWork(p.task, t) <=> p.task.stage = "search" /\ p.task.round = t.round
        <5>1. p.task \in DOMAIN T /\ p.task \in TaskSet /\ Named(p.task)
          BY <2>6 DEF QueueOK
        <5>2. p.task.stage = "search" => p.task.delta = NoDelta
          <6>1. p.task.stage = "search" => p.task = SearchTask(p.task.round, p.task.slot)
            BY <5>1 DEF Named
          <6>2. \A r, s : SearchTask(r, s).delta = NoDelta
            BY DEF SearchTask
          <6> QED
            BY <6>1, <6>2
        <5> QED
          BY <1>1, <4>1, <5>1, <5>2, WorkFields
      <4>3. Agreeing(R, t, d.kind) =
              {q \in R : q.task.stage = "search" /\ q.task.round = t.round /\ q.value = d.kind}
        BY <4>2 DEF Agreeing, ReportsOn
      <4> QED
        BY <4>3 DEF Stamps, Finders
    <3> QED
      BY <2>4, <2>8, <3>1 DEF RecordTrue, Selected
  <2>13. ASSUME NEW d \in DOMAIN candidate' PROVE RecordTrue(task', R, candidate'[d], d)
    BY <2>3, <2>11, <2>12
  <2> QED
    BY <1>1, <2>9, <2>10, <2>13 DEF WorkOK, RecordsTrue, R
<1> QED
  BY <1>2, <1>3

(* Tasks change hands, or nothing the records rest on changes.              *)
LEMMA QuietPay ==
  ASSUME Inv, PayInv, UNCHANGED <<candidate, round, reports, crashes>>, DOMAIN task' = DOMAIN task,
         \A t \in DOMAIN task :
           /\ task'[t].status = "completed" <=> task[t].status = "completed"
           /\ task[t].status = "completed" => task'[t].holder = task[t].holder
  PROVE  PayInv'
<1>1. \A p \in reports : p.task \in DOMAIN task /\ task[p.task].status = "completed"
  BY DEF Inv, QueueOK
<1>2. BooksOK(task', reports')
  BY <1>1, BooksSame DEF PayInv
<1>3. crashes = 0 => WorkOK(task', reports', candidate', round')
  BY RowsWork DEF PayInv
<1> QED
  BY <1>2, <1>3 DEF PayInv

LEMMA InstallPay ==
  ASSUME Inv, PayInv, InstallCheckpoint(<< >>)
  PROVE  PayInv'
<1>1. /\ UNCHANGED <<round, reports, task, crashes>> /\ round = NoRound
      /\ DOMAIN candidate' = {}
  BY DEF InstallCheckpoint, database
<1>2. BooksOK(task', reports')
  BY <1>1 DEF PayInv
<1>3. crashes = 0 => WorkOK(task', reports', candidate', round')
  BY <1>1 DEF PayInv, WorkOK, OpenOK, OneSelected, RecordsTrue, Ent
<1> QED
  BY <1>1, <1>2, <1>3 DEF PayInv

LEMMA BeginPay ==
  ASSUME Inv, PayInv, QueueMutation
  PROVE  PayInv'
<1> DEFINE S == {SearchTask(begun + 1, s) : s \in Slots}
<1>1. /\ UNCHANGED <<candidate, reports, crashes>> /\ round = NoRound
      /\ round' = [id |-> begun + 1, base |-> checkpoint,
                   status |-> "independent-search", candidates |-> {}]
      /\ task' = AddTasks(task, S, {})
      /\ begun \in Nat /\ checkpoint \in Seq(Kinds)
  BY DEF QueueMutation, Inv, RestOK
<1>2. \A t \in S : t.stage = "search" /\ t.round = begun + 1
  BY JudgeNames
<1> HIDE DEF S
<1>3. \A p \in reports : p.task \in DOMAIN task
  BY DEF Inv, QueueOK
<1>4. BooksOK(task', reports')
  BY <1>1, <1>2, <1>3, AddBooks DEF PayInv
<1>5. ASSUME crashes = 0 PROVE WorkOK(task', reports', candidate', round')
  <2>1. WorkOK(task, reports, candidate, round) /\ Open(task) = {}
    BY <1>1, <1>5 DEF PayInv, WorkOK, OpenOK, Ent
  <2>2. /\ Open(task') \subseteq S /\ DOMAIN task \subseteq DOMAIN task'
        /\ \A t \in DOMAIN task : task'[t] = task[t]
        /\ \A t \in DOMAIN task' \ DOMAIN task : t \in S
    BY <1>1, <2>1 DEF AddTasks, Open
  <2>3. /\ round' # NoRound /\ round'.id = begun + 1 /\ round'.status = "independent-search"
        /\ Ent(round') = {}
    <3>1. round' \in RoundSet
      BY <1>1 DEF RoundSet
    <3>2. round' # NoRound
      BY <3>1, NoRoundAssumption DEF RoundSet, Deltas
    <3> QED
      BY <1>1, <3>2 DEF Ent
  <2>4. OpenOK(task', candidate', round') /\ OneSelected(candidate', round')
    BY <1>2, <2>2, <2>3 DEF OpenOK, OneSelected
  <2>5. ASSUME NEW d \in DOMAIN candidate PROVE RecordTrue(task', reports, candidate[d], d)
    <3>1. candidate[d].round # begun + 1
      BY <1>1 DEF Inv, RecordsOK
    <3>2. RecordTrue(task, reports, candidate[d], d)
      BY <2>1 DEF WorkOK, RecordsTrue
    <3>3. \A t \in DOMAIN task' \ DOMAIN task : t.stage = "search" => t.round # candidate[d].round
      BY <1>2, <2>2, <3>1
    <3> QED
      BY <2>2, <3>2, <3>3, GrowTrue
  <2> QED
    BY <1>1, <2>4, <2>5 DEF WorkOK, RecordsTrue
<1> QED
  BY <1>1, <1>4, <1>5 DEF PayInv

LEMMA ReportPay ==
  ASSUME Inv, PayInv, NEW t \in LeasedTasks, Report(t)
  PROVE  PayInv'
<1>1. UNCHANGED crashes
  BY DEF Report, ReportSearch, ReportReplay, ReportVerification, ReportReplication, bounds
<1>2. BooksOK(task, reports) /\ BooksOK(task', reports')
  BY ReportBooks DEF PayInv
<1>3. ASSUME crashes = 0 PROVE WorkOK(task', reports', candidate', round')
  <2>1. WorkOK(task, reports, candidate, round)
    BY <1>3 DEF PayInv
  <2>2. \A k : ReportSearch(t, k) \/ ReportReplay(t, k) =>
                 WorkOK(task', reports', candidate', round')
    BY <2>1, SearchWork, ReplayWork
  <2>3. \A v : ReportVerification(t, v) \/ ReportReplication(t, v) =>
                 WorkOK(task', reports', candidate', round')
    BY <1>2, <2>1, VerificationWork, ReplicationWork
  <2> QED
    BY <2>2, <2>3 DEF Report
<1> QED
  BY <1>1, <1>2, <1>3 DEF PayInv

LEMMA InitPay == Init => PayInv
<1> SUFFICES ASSUME Init PROVE PayInv
  OBVIOUS
<1>1. DOMAIN task = {} /\ DOMAIN candidate = {} /\ round = NoRound /\ reports = {}
  BY DEF Init
<1> QED
  BY <1>1 DEF PayInv, BooksOK, Reported, WorkOK, OpenOK, OneSelected, RecordsTrue, Open, Ent

LEMMA PayNext ==
  ASSUME Inv, PayInv, [CrashNext]_vars
  PROVE  PayInv'
<1>1. CASE Operate
  <2>1. CASE (\E a \in SelectionArtifacts : SetSelection(a)) \/ \E a \in ReplicationArtifacts : SetReplication(a)
    <3>1. UNCHANGED <<candidate, round, reports, task, crashes>>
      BY <2>1 DEF SetSelection, SetReplication, database
    <3> QED
      BY <3>1, QuietPay
  <2> QED
    BY <1>1, <2>1, InstallPay, BeginPay DEF Operate
<1>2. CASE Claims
  <2>1. PICK n \in Nodes, t \in DOMAIN task : Claim(n, t)
    BY <1>2 DEF Claims
  <2>2. /\ DOMAIN task' = DOMAIN task
        /\ \A u \in DOMAIN task : task'[u].status = "completed" <=> task[u].status = "completed"
    BY <2>1, ClaimedOK DEF Inv
  <2>3. /\ UNCHANGED <<candidate, round, reports, crashes>>
        /\ \A u \in DOMAIN task : task[u].status = "completed" => task'[u] = task[u]
    BY <2>1 DEF Claim, store, bounds
  <2> QED
    BY <2>2, <2>3, QuietPay
<1>3. CASE Reports
  BY <1>3, ReportPay DEF Reports
<1>4. CASE Losses
  <2>1. PICK t \in LeasedTasks : Expire(t) \/ Abandon(t)
    BY <1>4 DEF Losses
  <2>2. /\ t \in DOMAIN task /\ task[t] \in Row /\ task[t].status = "assigned"
        /\ DOMAIN task' = DOMAIN task
        /\ \A u \in DOMAIN task \ {t} : task'[u] = task[u]
    BY <2>1, LeasedFacts DEF Expire, Abandon, Inv
  <2>3. task'[t].status # "completed"
    <3>1. CASE Expire(t)
      BY <2>2, <3>1 DEF Expire
    <3>2. CASE Abandon(t)
      BY <2>2, <3>2 DEF Abandon, Row
    <3> QED
      BY <2>1, <3>1, <3>2
  <2>4. UNCHANGED <<candidate, round, reports, crashes>>
    BY <2>1 DEF Expire, Abandon, store
  <2> QED
    BY <2>2, <2>3, <2>4, QuietPay
<1>5. CASE Crash
  <2>1. crashes \in Nat /\ crashes' = crashes + 1
    BY <1>5, ConditionFacts DEF Crash
  <2>2. UNCHANGED <<task, reports>>
    <3>1. UNCHANGED database
      <4>1. CASE CrashInInstall(<< >>) \/ CrashInQueueMutation
        BY <4>1 DEF CrashInInstall, CrashInQueueMutation
      <4>2. ASSUME NEW t \in LeasedTasks, NEW k, CrashInSearch(t, k) \/ CrashInReplay(t, k)
            PROVE  UNCHANGED database
        BY <4>2 DEF CrashInSearch, CrashInReplay
      <4>3. ASSUME NEW t \in LeasedTasks, NEW v, CrashInVerification(t, v) \/ CrashInReplication(t, v)
            PROVE  UNCHANGED database
        BY <4>3 DEF CrashInVerification, CrashInReplication
      <4> QED
        BY <1>5, <4>1, <4>2, <4>3 DEF Crash
    <3> QED
      BY <3>1 DEF database
  <2> QED
    BY <2>1, <2>2 DEF PayInv
<1>6. CASE UNCHANGED vars
  <2>1. UNCHANGED <<candidate, round, reports, crashes, task>>
    BY <1>6 DEF vars, store, database, bounds
  <2> QED
    BY <2>1, QuietPay
<1> QED
  BY <1>1, <1>2, <1>3, <1>4, <1>5, <1>6 DEF CrashNext, Next

THEOREM WorkIsOnRecord == CrashSpec => []PayInv
<1>1. Init => PayInv
  BY InitPay
<1>2. Inv /\ PayInv /\ [CrashNext]_vars => PayInv'
  BY PayNext
<1> QED
  BY <1>1, <1>2, Invariance, PTL DEF CrashSpec
-----------------------------------------------------------------------------
(***************************************************************************)
(* A promotion pays what is on record.                                     *)
(***************************************************************************)
(* The work on a delta, in the tasks T and the reports R.                   *)
Done(T, R, id, d) ==
  {t \in DOMAIN T : /\ T[t].status = "completed"
                    /\ t.delta = d \/ \E r \in R : /\ r.task = t /\ t.round = id
                                                   /\ r.value = d.kind}

LEMMA DoneIsPaid ==
  ASSUME NEW T, NEW R, QueueOK(T, R), BooksOK(T, R), NEW d \in Deltas, NEW c, c.round \in Nat \ {0},
         c.trainers = Finders(R, c.round, d.kind),
         Complete(T, "verify", d), c.verifiers = Panel(T, "verify", d),
         Complete(T, "replicate", d), c.replicators = Panel(T, "replicate", d),
         ReplayTask(d) \in DOMAIN T, T[ReplayTask(d)].status = "completed",
         c.replay = {Stamp(T[ReplayTask(d)].holder, ReplayTask(d))}
  PROVE  Contributors(c) = {Stamp(T[t].holder, t) : t \in Done(T, R, c.round, d)}
<1>1. ASSUME NEW t \in DOMAIN T
      PROVE  /\ t.stage \in {"search", "verify", "replay", "replicate"}
             /\ t.stage = "search" => t.delta # d
             /\ t.stage # "search" => t.round = 0
             /\ t.stage = "verify" /\ t.delta = d =>
                  t = JudgeTask("verify", d, t.slot) /\ t.slot \in Ballots
             /\ t.stage = "replicate" /\ t.delta = d =>
                  t = JudgeTask("replicate", d, t.slot) /\ t.slot \in Ballots
             /\ t.stage = "replay" /\ t.delta = d => t = ReplayTask(d)
  <2>1. Named(t) /\ (t.stage \in {"verify", "replicate"} => t.slot \in Ballots)
    BY DEF QueueOK, BooksOK
  <2>2. t.stage = "search" => t.delta = NoDelta
    <3>1. \A r, s : SearchTask(r, s).delta = NoDelta
      BY DEF SearchTask
    <3> QED
      BY <2>1, <3>1 DEF Named
  <2>3. d # NoDelta
    BY NoDeltaAssumption DEF Deltas
  <2>4. t.stage # "search" => t.round = 0
    <3>1. \A e : ReplayTask(e).round = 0
      BY DEF ReplayTask
    <3> QED
      BY <2>1, <3>1, JudgeNames DEF Named
  <2> QED
    BY <2>1, <2>2, <2>3, <2>4, JudgeNames DEF Named
<1>2. ASSUME NEW r \in R
      PROVE  r.task \in DOMAIN T /\ T[r.task].status = "completed" /\ T[r.task].holder = r.node
  BY DEF QueueOK, BooksOK
<1>3. ASSUME NEW t \in Done(T, R, c.round, d) PROVE Stamp(T[t].holder, t) \in Contributors(c)
  <2>1. t \in DOMAIN T
    BY DEF Done
  <2>2. CASE t.delta = d
    <3>1. CASE t.stage = "verify"
      BY <1>1, <2>1, <2>2, <3>1 DEF Panel, Contributors
    <3>2. CASE t.stage = "replicate"
      BY <1>1, <2>1, <2>2, <3>2 DEF Panel, Contributors
    <3>3. CASE t.stage = "replay"
      BY <1>1, <2>1, <2>2, <3>3 DEF Contributors
    <3> QED
      BY <1>1, <2>1, <2>2, <3>1, <3>2, <3>3
  <2>3. CASE \E r \in R : r.task = t /\ t.round = c.round /\ r.value = d.kind
    <3>1. PICK r \in R : r.task = t /\ t.round = c.round /\ r.value = d.kind
      BY <2>3
    <3>2. t.stage = "search"
      BY <1>1, <2>1, <3>1
    <3>3. Stamp(r.node, r.task) \in Finders(R, c.round, d.kind)
      BY <3>1, <3>2 DEF Finders
    <3> QED
      BY <1>2, <3>1, <3>3 DEF Contributors
  <2> QED
    BY <2>2, <2>3 DEF Done
<1>4. ASSUME NEW stage \in {"verify", "replicate"}, Complete(T, stage, d), NEW s \in Panel(T, stage, d)
      PROVE  \E t \in Done(T, R, c.round, d) : s = Stamp(T[t].holder, t)
  <2>1. PICK b \in Ballots : s = Stamp(T[JudgeTask(stage, d, b)].holder, JudgeTask(stage, d, b))
    BY DEF Panel
  <2>2. JudgeTask(stage, d, b) \in Done(T, R, c.round, d)
    BY <1>4, JudgeNames DEF Complete, Done
  <2> QED
    BY <2>1, <2>2
<1>5. ASSUME NEW s \in Finders(R, c.round, d.kind)
      PROVE  \E t \in Done(T, R, c.round, d) : s = Stamp(T[t].holder, t)
  <2>1. PICK p \in R : /\ p.task.stage = "search" /\ p.task.round = c.round /\ p.value = d.kind
                       /\ s = Stamp(p.node, p.task)
    BY DEF Finders
  <2>2. p.task \in Done(T, R, c.round, d) /\ T[p.task].holder = p.node
    BY <1>2, <2>1 DEF Done
  <2> QED
    BY <2>1, <2>2
<1>6. ReplayTask(d) \in Done(T, R, c.round, d)
  BY JudgeNames DEF Done
<1>7. ASSUME NEW s \in Contributors(c)
      PROVE  \E t \in Done(T, R, c.round, d) : s = Stamp(T[t].holder, t)
  BY <1>4, <1>5, <1>6 DEF Contributors
<1> QED
  BY <1>3, <1>7

(* The promotion itself.                                                    *)
LEMMA PromotionPays ==
  ASSUME Inv, BooksOK(task, reports), WorkOK(task, reports, candidate, round),
         NEW t \in LeasedTasks, NEW v, ReportReplication(t, v), contributions' # contributions
  PROVE  /\ rewarded' = rewarded \cup Due'
         /\ Len(contributions') > Len(contributions)
<1> DEFINE d == t.delta
           R == Record(t, v)
           T == Completed(t)
           c == Confirmed(t, v)[d]
<1>1. /\ t.stage = "replicate" /\ d \in DOMAIN candidate /\ reports' = R /\ task' = T
      /\ candidate[d].status = "replication-verification" /\ Consensus(R, t, v)
      /\ task[t].holder \notin Barred(candidate[d])
      /\ Promote(d, Confirmed(t, v))
  BY DEF ReportReplication, FailReplication, Confirmed
<1>2. /\ contributions' = Append(contributions, Contribution(d, c))
      /\ candidate' = WithStatus(Confirmed(t, v), d, "promoted")
      /\ rewarded' = rewarded \cup Contributors(c)
  BY <1>1 DEF Promote
<1>3. /\ contributions \in Seq(Promotions) /\ candidate[d] \in Records /\ d \in Deltas
      /\ candidate[d].round \in Nat \ {0}
  BY <1>1, ConditionFacts DEF Inv, RestOK, RecordsOK
<1>4. /\ QueueOK(T, R) /\ BooksOK(T, R)
      /\ RecordTrue(T, R, candidate[d], d)
  <2>1. QueueOK(T, R) /\ BooksOK(T, R)
    BY <1>1, RecordedOK, BooksCompleted DEF Inv
  <2> QED
    BY <1>1, <2>1, CompletedTrue DEF WorkOK, RecordsTrue, Inv
<1>5. /\ Complete(T, "replicate", d) /\ VerifiersOf(R, t, v) = Panel(T, "replicate", d)
  BY <1>1, Unanimity
<1>6. /\ c.round = candidate[d].round /\ c.trainers = candidate[d].trainers
      /\ c.verifiers = candidate[d].verifiers /\ c.replay = candidate[d].replay
      /\ c.replicators = VerifiersOf(R, t, v)
  <2>1. c = [candidate[d] EXCEPT !.replicators = VerifiersOf(R, t, v)]
    BY <1>1 DEF Confirmed
  <2> QED
    BY <1>3, <2>1 DEF Records
<1>7. candidate'[d].round = c.round
  BY <1>1, <1>2, <1>6, ConfirmedFields
<1> HIDE DEF T, R, c
<1>8. /\ Len(contributions') = Len(contributions) + 1 /\ Len(contributions) \in Nat
      /\ contributions'[Len(contributions')] = Contribution(d, c)
  BY <1>2, <1>3
<1>9. Contribution(d, c).delta = d
  BY DEF Contribution
<1>10. Due' = {Stamp(T[u].holder, u) : u \in Done(T, R, c.round, d)}
  BY <1>1, <1>7, <1>8, <1>9 DEF Due, WorkOn, Done
<1>11. Contributors(c) = {Stamp(T[u].holder, u) : u \in Done(T, R, c.round, d)}
  <2>1. /\ c.trainers = Finders(R, c.round, d.kind)
        /\ Complete(T, "verify", d) /\ c.verifiers = Panel(T, "verify", d)
        /\ ReplayTask(d) \in DOMAIN T /\ T[ReplayTask(d)].status = "completed"
        /\ c.replay = {Stamp(T[ReplayTask(d)].holder, ReplayTask(d))}
    BY <1>1, <1>4, <1>6 DEF RecordTrue, Selected
  <2> QED
    BY <1>3, <1>4, <1>5, <1>6, <2>1, DoneIsPaid
<1> QED
  BY <1>2, <1>8, <1>10, <1>11

(* As long as the coordinator is not killed inside a handler, a promotion   *)
(* pays every identity whose completed task the promoted delta rests on, to *)
(* the searches that found it, all its verifiers, its replay and all its    *)
(* replicators, and nothing else is ever paid (_promote_after_replication    *)
(* of v6/service.py): whatever is lost, claimed again, reported late or      *)
(* installed over, the record was complete when it was paid from.           *)
THEOREM RewardsArePaid == CrashSpec => OnlyKillsCostRewards
<1>1. ASSUME Inv, PayInv, [CrashNext]_vars, crashes' = 0 PROVE PayStep
  <2>1. contributions \in Seq(Promotions) /\ Len(contributions) \in Nat
    <3>1. contributions \in Seq(Promotions)
      BY <1>1 DEF Inv, RestOK
    <3> QED
      BY <3>1
  <2>2. CASE UNCHANGED <<contributions, rewarded>>
    BY <2>1, <2>2 DEF PayStep
  <2>3. CASE Operate
    <3>1. CASE InstallCheckpoint(<< >>)
      <4>1. contributions' = << >> /\ rewarded' = rewarded
        BY <3>1 DEF InstallCheckpoint, database
      <4> QED
        BY <2>1, <4>1 DEF PayStep
    <3> QED
      BY <2>2, <2>3, <3>1 DEF Operate, SetSelection, SetReplication, QueueMutation, database
  <2>4. CASE Reports
    <3>1. PICK t \in LeasedTasks : Report(t)
      BY <2>4 DEF Reports
    <3>2. CASE \E k : ReportSearch(t, k) \/ ReportReplay(t, k)
      BY <2>2, <3>2 DEF ReportSearch, ReportReplay
    <3>3. CASE \E v : ReportVerification(t, v)
      BY <2>2, <3>3 DEF ReportVerification
    <3>4. CASE \E v : ReportReplication(t, v)
      <4>1. PICK v : ReportReplication(t, v)
        BY <3>4
      <4>2. crashes = 0
        BY <1>1, <4>1 DEF ReportReplication, bounds
      <4>3. CASE contributions' = contributions
        <5>1. contributions' # Append(contributions, Contribution(t.delta, Confirmed(t, v)[t.delta]))
          BY <2>1, <4>3
        <5>2. rewarded' = rewarded
          BY <4>1, <5>1 DEF ReportReplication, Promote, FailReplication, Confirmed
        <5> QED
          BY <2>2, <4>3, <5>2
      <4>4. CASE contributions' # contributions
        BY <1>1, <4>1, <4>2, <4>4, PromotionPays DEF PayInv, PayStep
      <4> QED
        BY <4>3, <4>4
    <3> QED
      BY <3>1, <3>2, <3>3, <3>4 DEF Report
  <2>5. CASE Crash
    <3>1. crashes \in Nat /\ crashes' = crashes + 1
      BY <2>5, <1>1, ConditionFacts DEF Crash
    <3> QED
      BY <1>1, <3>1
  <2>6. CASE Claims \/ Losses \/ UNCHANGED vars
    <3>1. UNCHANGED <<contributions, rewarded>>
      BY <2>6 DEF Claims, Claim, Losses, Expire, Abandon, vars, store, database
    <3> QED
      BY <2>2, <3>1
  <2> QED
    BY <1>1, <2>3, <2>4, <2>5, <2>6 DEF CrashNext, Next
<1>2. Inv /\ PayInv /\ [CrashNext]_vars => [crashes' = 0 => PayStep]_vars
  BY <1>1
<1> QED
  BY <1>2, Invariance, WorkIsOnRecord, PTL DEF CrashSpec, OnlyKillsCostRewards
=============================================================================
