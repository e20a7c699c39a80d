--------------------------- MODULE Native10Round ---------------------------
(***************************************************************************)
(* A contribution round of the trainable Native10 coordinator,             *)
(* v6/service.py: independent search, blind selection verification, replay *)
(* of the selected candidate, fresh final replication, promotion.          *)
(*                                                                         *)
(* handle_result and queue_mutation run under Database.lock inside a       *)
(* transaction of the store and of SQLite, so each is one action; one that *)
(* raises is rolled back and changes nothing.  A kill in the middle, which *)
(* no handler sees, is the subject of Native10Crash.                       *)
(*                                                                         *)
(* The lease queue is reduced to what its clients see of it (TaskLifecycle *)
(* is what TaskQueue implements): who holds a task, who is barred from it, *)
(* how many identities failed it.                                          *)
(*                                                                         *)
(* A checkpoint is named by the deltas that were applied to it, a delta by *)
(* its parent root and its kind: equal content has equal hashes.  Evidence *)
(* is a score: positive if it passes the statistical and harm gate, zero   *)
(* if it does not, Malformed if _verification_gate raises on it.           *)
(***************************************************************************)
EXTENDS Integers, FiniteSets, Sequences

CONSTANTS
  Nodes,          \* registered worker identities
  Kinds,          \* contents a delta may have
  HashOrder,      \* HashOrder[k]: the order of candidate_ids, which breaks ties
  Trained,        \* Trained[s]: the kinds a worker may report for search slot s
  Evidence,       \* Evidence[stage][k]: the scores verifiers may report
  SelectionArtifacts,   \* validation artifacts the operator may install
  ReplicationArtifacts, \* ... for the final replication
  Candidates,     \* search_candidates of a round
  Quorum,         \* verification_quorum of a round
  MaxEvaluations, \* max_candidate_evaluations of the selection policy
  MaxReplications,\* max_candidate_evaluations of the replication policy
  MaxTournaments, \* max_search_rounds of both policies
  MaxAttempts,    \* max_attempts of every task of a round
  MaxRounds,      \* bound: rounds a behaviour may start
  MaxInstalls,    \* bound: artifacts and checkpoints an operator may install
  MaxLosses,      \* bound: leases that may be lost or given up
  MaxLeased,      \* bound: tasks leased at the same time
  NoNode, NoRound, NoDelta, NoArtifact

Malformed == -1

Slots == 0..(Candidates - 1)

ASSUME NodesFinite == IsFiniteSet(Nodes) /\ NoNode \notin Nodes
ASSUME RoundAssumption ==
  /\ Candidates \in 2..32 /\ Quorum \in 2..8 /\ MaxAttempts \in Nat \ {0}
  /\ Trained \in [Slots -> SUBSET Kinds]
  /\ Evidence \in [{"verify", "replicate"} -> [Kinds -> SUBSET Int]]
  /\ HashOrder \in [Kinds -> Nat]
  /\ NoArtifact \notin SelectionArtifacts \cup ReplicationArtifacts
ASSUME NoRoundAssumption ==
  NoRound \notin [id : Nat, base : Seq(Kinds),
                  status : {"independent-search", "blind-global-verification"},
                  candidates : SUBSET [base : Seq(Kinds), kind : Kinds]]
ASSUME NoDeltaAssumption == NoDelta \notin [base : Seq(Kinds), kind : Kinds]
ASSUME BudgetAssumption ==
  MaxEvaluations \in Nat /\ MaxReplications \in Nat /\ MaxTournaments \in Nat

VARIABLES
  checkpoint,    \* root of the model in canonical-native10.json
  canonical,     \* canonical_root of state.json
  round,         \* active_round of state.json
  candidate,     \* candidates of state.json, by delta hash
  contributions, \* contributions of state.json
  selection,     \* the installed selection artifact and its counters
  replication,   \* the installed replication artifact and its counters
  task,          \* the rows of table tasks inserted so far
  reports,       \* the rows of table work_reports
  rewarded,      \* reward entries of the ledger
  begun,         \* rounds begun so far: round_id is never reused
  forgotten,     \* how many of them a new checkpoint made the store forget
  installs,      \* artifacts and checkpoints installed so far
  losses,        \* leases lost or given up so far
  crashes        \* kills inside a handler so far, all of them by Native10Crash

store == <<checkpoint, canonical, round, candidate, contributions, selection, replication>>
database == <<task, reports, rewarded>>
bounds == <<begun, forgotten, installs, losses, crashes>>
vars == <<store, database, bounds>>
-----------------------------------------------------------------------------
(* dedupe_key of a task; its work_key is the key without the slot. *)
SearchTask(r, s)    == [stage |-> "search", round |-> r, delta |-> NoDelta, slot |-> s]
VerifyTask(d, s)    == [stage |-> "verify", round |-> 0, delta |-> d, slot |-> s]
ReplayTask(d)       == [stage |-> "replay", round |-> 0, delta |-> d, slot |-> 0]
ReplicateTask(d, s) == [stage |-> "replicate", round |-> 0, delta |-> d, slot |-> s]

SameWork(t, u) == [t EXCEPT !.slot = 0] = [u EXCEPT !.slot = 0]

Stamp(n, t) == [node |-> n, task |-> t]
NodesOf(S) == {s.node : s \in S}

(* A candidate the verifiers have judged; one that was picked from them.      *)
Evaluated == {"accepted", "rejected", "replay-failed", "replay-audit"}
Selected  == {"replay-audit", "replication-verification"}
-----------------------------------------------------------------------------
(***************************************************************************)
(* The queue, as its clients see it.                                       *)
(***************************************************************************)
Queued(X) == [status |-> "queued", holder |-> NoNode, excluded |-> X, attempts |-> 0]

(* add_task is idempotent on the dedupe_key.                                 *)
AddTasks(T, S, excluded) ==
  [t \in DOMAIN T \cup S |-> IF t \in DOMAIN T THEN T[t] ELSE Queued(excluded)]

LeasedTasks == {t \in DOMAIN task : task[t].status = "assigned"}

AlreadyOn(n, t) ==
  \/ \E r \in reports : r.node = n /\ SameWork(r.task, t)
  \/ \E u \in LeasedTasks : task[u].holder = n

Claim(n, t) ==
  /\ Cardinality(LeasedTasks) < MaxLeased
  /\ t \in DOMAIN task
  /\ task[t].status = "queued"
  /\ n \notin task[t].excluded
  /\ ~AlreadyOn(n, t)
  /\ task' = [task EXCEPT ![t].status = "assigned", ![t].holder = n,
                          ![t].attempts = @ + 1]
  /\ UNCHANGED <<store, reports, rewarded, bounds>>

(* The lease expires and is swept; a result that was refused ends here too.  *)
Expire(t) ==
  /\ losses < MaxLosses
  /\ losses' = losses + 1
  /\ t \in LeasedTasks
  /\ task' = [task EXCEPT ![t] =
       [status |-> IF task[t].attempts >= MaxAttempts THEN "failed" ELSE "queued",
        holder |-> NoNode, excluded |-> @.excluded \cup {@.holder},
        attempts |-> @.attempts]]
  /\ UNCHANGED <<store, reports, rewarded, begun, forgotten, installs, crashes>>

Abandon(t) ==
  /\ losses < MaxLosses
  /\ losses' = losses + 1
  /\ t \in LeasedTasks
  /\ task' = [task EXCEPT ![t].status = "queued", ![t].holder = NoNode,
                          ![t].attempts = @ - 1]
  /\ UNCHANGED <<store, reports, rewarded, begun, forgotten, installs, crashes>>

Completed(t) == [task EXCEPT ![t].status = "completed"]

Record(t, v) == reports \cup {[task |-> t, node |-> task[t].holder, value |-> v]}
ReportsOn(R, t) == {r \in R : SameWork(r.task, t)}
Stamps(R) == {Stamp(r.node, r.task) : r \in R}

(* _consensus: the largest group of equal reports, if it reaches the quorum  *)
Agreeing(R, t, v) == {r \in ReportsOn(R, t) : r.value = v}
Consensus(R, t, v) == Cardinality(Agreeing(R, t, v)) >= Quorum
-----------------------------------------------------------------------------
(***************************************************************************)
(* Operator actions.                                                       *)
(***************************************************************************)
Fresh(a) == [artifact |-> a, evaluations |-> 0, tournaments |-> 0]

(* initialize and import_checkpoint, with replace: the store forgets the      *)
(* candidates, the queue keeps their tasks.                                  *)
InstallCheckpoint(root) ==
  /\ installs < MaxInstalls
  /\ installs' = installs + 1
  /\ round = NoRound
  /\ checkpoint' = root
  /\ canonical' = root
  /\ candidate' = << >>
  /\ contributions' = << >>
  /\ selection' = Fresh(NoArtifact)
  /\ replication' = Fresh(NoArtifact)
  /\ forgotten' = begun
  /\ UNCHANGED <<round, database, begun, losses, crashes>>

(* set_global_validation, with replace: the counters start again.            *)
SetSelection(a) ==
  /\ installs < MaxInstalls
  /\ installs' = installs + 1
  /\ round = NoRound
  /\ selection' = Fresh(a)
  /\ UNCHANGED <<checkpoint, canonical, round, candidate, contributions,
                 replication, database, begun, forgotten, losses, crashes>>

(* set_replication_validation, with replace: only this one of the two checks *)
(* that the artifacts differ.                                                *)
SetReplication(a) ==
  /\ installs < MaxInstalls
  /\ installs' = installs + 1
  /\ round = NoRound
  /\ selection.artifact # a
  /\ replication' = Fresh(a)
  /\ UNCHANGED <<checkpoint, canonical, round, candidate, contributions,
                 selection, database, begun, forgotten, losses, crashes>>

(* the checks of begin_round on both artifacts *)
WithinBudget ==
  /\ selection.tournaments + 1 <= MaxTournaments
  /\ replication.tournaments + 1 <= MaxTournaments
  /\ selection.evaluations + Candidates <= MaxEvaluations
  /\ replication.evaluations + 1 <= MaxReplications

(* queue_mutation *)
QueueMutation ==
  /\ begun < MaxRounds
  /\ begun' = begun + 1
  /\ round = NoRound
  /\ checkpoint = canonical
  /\ selection.artifact # NoArtifact /\ replication.artifact # NoArtifact
  /\ WithinBudget
  /\ round' = [id |-> begun + 1, base |-> checkpoint,
               status |-> "independent-search", candidates |-> {}]
  /\ selection' = [selection EXCEPT !.evaluations = @ + Candidates, !.tournaments = @ + 1]
  /\ replication' = [replication EXCEPT !.evaluations = @ + 1, !.tournaments = @ + 1]
  /\ task' = AddTasks(task, {SearchTask(begun + 1, s) : s \in Slots}, {})
  /\ UNCHANGED <<checkpoint, canonical, candidate, contributions, reports,
                 rewarded, forgotten, installs, losses, crashes>>
-----------------------------------------------------------------------------
(***************************************************************************)
(* The steps of handle_result.  C is the table of candidates, T the tasks, *)
(* as they are after the report was recorded and the task completed.       *)
(***************************************************************************)
WithStatus(C, d, s) == [C EXCEPT ![d].status = s]

(* candidate_ids; none when no round is active                               *)
Entrants == IF round = NoRound THEN {} ELSE round.candidates

(* close_without_promotion                                                   *)
Close(C) ==
  /\ candidate' = [d \in DOMAIN C |->
       IF d \in Entrants /\ C[d].status \notin {"accepted", "rejected"}
         THEN [C[d] EXCEPT !.status = "rejected"] ELSE C[d]]
  /\ round' = NoRound

(* _ranked_accepted_candidates: by evidence, then by candidate_id            *)
Accepted(C) == {d \in Entrants : C[d].status = "accepted"}
Ahead(C, d, e) == \/ C[d].score > C[e].score
                  \/ C[d].score = C[e].score /\ HashOrder[d.kind] <= HashOrder[e.kind]

(* Mutant of Best: the first accepted candidate by hash.                     *)
BestByHash(C) ==
  {d \in Accepted(C) : \A e \in Accepted(C) : HashOrder[d.kind] <= HashOrder[e.kind]}

Best(C) == {d \in Accepted(C) : \A e \in Accepted(C) : Ahead(C, d, e)}

(* _queue_replay_task                                                        *)
QueueReplay(C, d, T) ==
  /\ candidate' = WithStatus(C, d, "replay-audit")
  /\ task' = AddTasks(T, {ReplayTask(d)}, NodesOf(C[d].trainers))

(* Mutant of SelectBest: without an accepted candidate the round stays open. *)
SelectWithoutClosing(C, T) ==
  /\ UNCHANGED round
  /\ \/ \E d \in Best(C) : QueueReplay(C, d, T)
     \/ Accepted(C) = {} /\ candidate' = C /\ task' = T

(* The strongest accepted candidate is replayed; the round closes if there   *)
(* is none.                                                                  *)
SelectBest(C, T) ==
  \/ /\ \E d \in Best(C) : QueueReplay(C, d, T)
     /\ UNCHANGED round
  \/ /\ Accepted(C) = {}
     /\ Close(C)
     /\ task' = T

(* _advance_round_after_verification                                         *)
Undecided(C) == \E d \in Entrants : \/ C[d].status \notin Evaluated
                                    \/ C[d].status = "replay-audit"
Advance(C, T) ==
  \/ /\ Entrants = {} \/ Undecided(C)
     /\ candidate' = C
     /\ task' = T
     /\ UNCHANGED round
  \/ /\ Entrants # {}
     /\ ~Undecided(C)
     /\ SelectBest(C, T)

(***************************************************************************)
(* A search report.  The last one of a round turns its distinct deltas     *)
(* into candidates and queues their verification.                          *)
(***************************************************************************)
FoundIn(R, t) == {[base |-> round.base, kind |-> r.value] : r \in ReportsOn(R, t)}

SearchEnds(R, t) == /\ Cardinality(ReportsOn(R, t)) >= Candidates
                    /\ round # NoRound
                    /\ round.status = "independent-search"

NewCandidate(R, t, d, source) ==
  [round |-> t.round, status |-> "global-verification",
   trainers |-> Stamps(Agreeing(R, t, d.kind)), source |-> source,
   verifiers |-> {}, replay |-> {}, replicators |-> {}, score |-> 0]

VerifyTasks(found) == {VerifyTask(d, s) : d \in found, s \in 0..(Quorum - 1)}

(* record_candidate refuses a delta it holds a record of; group[0] may be    *)
(* any of the reports of the delta.                                          *)
ReportSearch(t, k) ==
  LET R     == Record(t, k)
      found == FoundIn(R, t)
  IN  /\ t.stage = "search"
      /\ k \in Trained[t.slot]
      /\ reports' = R
      /\ \/ /\ ~SearchEnds(R, t)
            /\ task' = Completed(t)
            /\ UNCHANGED <<candidate, round>>
         \/ /\ SearchEnds(R, t)
            /\ found \cap DOMAIN candidate = {}
            /\ \E source \in [found -> {r.task : r \in ReportsOn(R, t)}] :
                 /\ \A d \in found : \E r \in Agreeing(R, t, d.kind) : r.task = source[d]
                 /\ candidate' = [d \in DOMAIN candidate \cup found |->
                      IF d \in found THEN NewCandidate(R, t, d, source[d])
                                     ELSE candidate[d]]
                 /\ task' = [u \in DOMAIN task \cup VerifyTasks(found) |->
                      IF u \in DOMAIN task THEN Completed(t)[u]
                      ELSE Queued(NodesOf(candidate'[u.delta].trainers))]
            /\ round' = [round EXCEPT !.candidates = found,
                                      !.status = "blind-global-verification"]
      /\ UNCHANGED <<checkpoint, canonical, contributions, selection, replication,
                     rewarded, bounds>>

(***************************************************************************)
(* A report of a selection verifier.                                       *)
(***************************************************************************)
(* Mutant of VerifiersOf: only the last verifier is remembered.              *)
LastVerifierOf(R, t, v) == {Stamp(task[t].holder, t)}

(* verifier_reports: the members of the consensus                            *)
VerifiersOf(R, t, v) == Stamps(Agreeing(R, t, v))

ReportVerification(t, v) ==
  LET d == t.delta
      R == Record(t, v)
  IN  /\ t.stage = "verify"
      /\ v \in Evidence["verify"][d.kind]
      /\ d \in DOMAIN candidate
      /\ task[t].holder \notin NodesOf(candidate[d].trainers)
      /\ reports' = R
      /\ \/ /\ ~Consensus(R, t, v) \/ candidate[d].status # "global-verification"
            /\ task' = Completed(t)
            /\ UNCHANGED <<candidate, round>>
         \/ /\ Consensus(R, t, v)
            /\ candidate[d].status = "global-verification"
            /\ v # Malformed
            /\ Advance([candidate EXCEPT
                          ![d].status = IF v > 0 THEN "accepted" ELSE "rejected",
                          ![d].verifiers = VerifiersOf(R, t, v), ![d].score = v],
                       Completed(t))
      /\ UNCHANGED <<checkpoint, canonical, contributions, selection, replication,
                     rewarded, bounds>>

(***************************************************************************)
(* The replay of the selected candidate: another identity repeats the      *)
(* search of its source task and should find the same delta.               *)
(***************************************************************************)
(* Mutant of Barred: the replay node may also replicate.                     *)
BarredWithoutReplay(c) == NodesOf(c.trainers) \cup NodesOf(c.verifiers)

(* excluded_nodes of the final replication                                   *)
Barred(c) == NodesOf(c.trainers) \cup NodesOf(c.verifiers) \cup NodesOf(c.replay)

ReportReplay(t, k) ==
  LET d == t.delta
      replayed(s) == [candidate EXCEPT ![d].status = s,
                                       ![d].replay = {Stamp(task[t].holder, t)}]
      C == replayed("replication-verification")
  IN  /\ t.stage = "replay"
      /\ d \in DOMAIN candidate
      /\ k \in Trained[candidate[d].source.slot]
      /\ \/ /\ k = d.kind
            /\ candidate' = C
            /\ task' = AddTasks(Completed(t),
                                {ReplicateTask(d, s) : s \in 0..(Quorum - 1)}, Barred(C[d]))
            /\ UNCHANGED round
         \/ /\ k # d.kind
            /\ SelectBest(replayed("replay-failed"), Completed(t))
      /\ UNCHANGED <<checkpoint, canonical, contributions, selection, replication,
                     reports, rewarded, bounds>>

(***************************************************************************)
(* A report of a final replicator.                                         *)
(***************************************************************************)
(* Mutant of Contributors: the replay audit is not paid.                     *)
ContributorsButReplay(c) == c.trainers \cup c.verifiers \cup c.replicators

(* _promote_after_replication: the delta is applied to the checkpoint and    *)
(* everybody whose report led to the promotion is paid.                      *)
Contributors(c) == c.trainers \cup c.verifiers \cup c.replay \cup c.replicators

Contribution(d, c) ==
  [delta |-> d, before |-> checkpoint, after |-> Append(checkpoint, d.kind),
   evidence |-> c]

Promote(d, C) ==
  /\ d.base = checkpoint
  /\ checkpoint' = Append(checkpoint, d.kind)
  /\ canonical' = Append(checkpoint, d.kind)
  /\ contributions' = Append(contributions, Contribution(d, C[d]))
  /\ candidate' = WithStatus(C, d, "promoted")
  /\ round' = NoRound
  /\ rewarded' = rewarded \cup Contributors(C[d])

(* Mutant of FailReplication: the next accepted candidate is tried on the    *)
(* same holdout, as _try_next_candidate_after_failure would.                 *)
TryNext(C, d, T) ==
  /\ SelectBest(WithStatus(C, d, "rejected"), T)
  /\ UNCHANGED <<checkpoint, canonical, contributions, rewarded>>

FailReplication(C, d, T) ==
  /\ Close(WithStatus(C, d, "rejected"))
  /\ task' = T
  /\ UNCHANGED <<checkpoint, canonical, contributions, rewarded>>

ReportReplication(t, v) ==
  LET d == t.delta
      R == Record(t, v)
      C == [candidate EXCEPT ![d].replicators = VerifiersOf(R, t, v)]
  IN  /\ t.stage = "replicate"
      /\ v \in Evidence["replicate"][d.kind]
      /\ d \in DOMAIN candidate
      /\ task[t].holder \notin Barred(candidate[d])
      /\ reports' = R
      /\ \/ /\ ~Consensus(R, t, v) \/ candidate[d].status # "replication-verification"
            /\ task' = Completed(t)
            /\ UNCHANGED <<checkpoint, canonical, round, candidate, contributions, rewarded>>
         \/ /\ Consensus(R, t, v)
            /\ candidate[d].status = "replication-verification"
            /\ v # Malformed
            /\ \/ v > 0 /\ Promote(d, C) /\ task' = Completed(t)
               \/ v <= 0 /\ FailReplication(C, d, Completed(t))
      /\ UNCHANGED <<selection, replication, bounds>>
-----------------------------------------------------------------------------
Init ==
  /\ checkpoint = << >> /\ canonical = << >>
  /\ round = NoRound
  /\ candidate = << >>
  /\ contributions = << >>
  /\ selection = Fresh(NoArtifact) /\ replication = Fresh(NoArtifact)
  /\ task = << >>
  /\ reports = {} /\ rewarded = {}
  /\ begun = 0 /\ forgotten = 0 /\ installs = 0 /\ losses = 0 /\ crashes = 0

Operate == \/ \E a \in SelectionArtifacts : SetSelection(a)
           \/ \E a \in ReplicationArtifacts : SetReplication(a)
           \/ InstallCheckpoint(<< >>)
           \/ QueueMutation

Report(t) == \/ \E k \in Kinds : ReportSearch(t, k) \/ ReportReplay(t, k)
             \/ \E v \in UNION {UNION {Evidence[s][k] : k \in Kinds} : s \in DOMAIN Evidence} :
                  ReportVerification(t, v) \/ ReportReplication(t, v)

Claims  == \E t \in DOMAIN task, n \in Nodes : Claim(n, t)
Reports == \E t \in LeasedTasks : Report(t)
Losses  == \E t \in LeasedTasks : Expire(t) \/ Abandon(t)

Next == Operate \/ Claims \/ Reports \/ Losses

Spec == Init /\ [][Next]_vars
-----------------------------------------------------------------------------
(***************************************************************************)
(* Properties.                                                             *)
(***************************************************************************)
ReplayNodes(c) == NodesOf(c.replay)
Promoted == {contributions[i].evidence : i \in DOMAIN contributions}

(* A checkpoint installed again takes the records of candidates away, but    *)
(* not their tasks; and a kill while a failed replay closes its round leaves *)
(* that replay to be reported again, into the next round.                    *)
Undisturbed == forgotten = 0 /\ (crashes = 0 \/ begun <= 1)

(* Whoever generated a promoted delta did not judge it, and those who        *)
(* confirmed it on the final holdout took no part in its selection: the      *)
(* excluded_nodes are computed from records that fill up step by step.       *)
IndependentEvidence ==
  forgotten = 0 => \A c \in Promoted :
    LET selectors == NodesOf(c.verifiers) \cup ReplayNodes(c)
    IN  /\ NodesOf(c.trainers) \cap selectors = {}
        /\ NodesOf(c.replicators) \cap (NodesOf(c.trainers) \cup selectors) = {}

(* A delta becomes canonical only with the full evidence: a quorum of        *)
(* distinct selection verifiers, a replay, a quorum of replicators, and a    *)
(* positive score.                                                           *)
PromotionIsEarned ==
  forgotten = 0 => \A c \in Promoted :
    /\ Cardinality(NodesOf(c.verifiers)) >= Quorum /\ c.score > 0
    /\ Cardinality(c.replay) = 1
    /\ Cardinality(NodesOf(c.replicators)) >= Quorum

(* The strongest statistically valid candidate proceeds to replay            *)
(* (TRAINABLE_NATIVE10_V06.md).                                              *)
StrongestIsSelected ==
  Undisturbed /\ round # NoRound =>
    \A d, e \in round.candidates :
      candidate[d].status \in Selected /\ candidate[e].status = "accepted"
        => candidate[d].score >= candidate[e].score

(* The final holdout of a round is put to one candidate only: a replicator   *)
(* task exists for at most one candidate of each round.                      *)
HoldoutIsOneShot ==
  Undisturbed => \A t, u \in DOMAIN task :
    /\ t.stage = "replicate" /\ u.stage = "replicate"
    /\ t.delta \in DOMAIN candidate /\ u.delta \in DOMAIN candidate
    /\ candidate[t.delta].round = candidate[u.delta].round
    => t.delta = u.delta

(* Rewards are paid by promotions, to the work the promoted delta rests on:  *)
(* the searches that found it and every completed task about it, each to the *)
(* identity that completed it.  The rewards are computed from the records of *)
(* the candidate, the work is in the queue and in the reports.               *)
WorkOn(d) == {t \in DOMAIN task : /\ task[t].status = "completed"
                                  /\ t.delta = d \/ \E r \in reports :
                                       r.task = t /\ t.round = candidate[d].round
                                               /\ r.value = d.kind}
Due == {Stamp(task[t].holder, t) : t \in WorkOn(contributions[Len(contributions)].delta)}
PayStep == IF Len(contributions') > Len(contributions)
             THEN rewarded' = rewarded \cup Due'
             ELSE rewarded' = rewarded

(* No round hangs: as long as it is active some task of it is unfinished,    *)
(* unless judges of one candidate disagree, a kill cost the round tasks, or  *)
(* its work was done under a forgotten checkpoint and is not queued again.   *)
(* Each stage is queued by the last report of the one before, and the end of *)
(* the last candidate has to end the round.                                  *)
RoundsCanEnd ==
  round # NoRound /\ crashes = 0 /\ forgotten = 0 =>
    \/ \E t \in DOMAIN task : /\ t.round = round.id \/ t.delta \in round.candidates
                              /\ task[t].status # "completed"
    \/ \E r, q \in reports : /\ r.task.delta \in round.candidates
                             /\ SameWork(r.task, q.task) /\ r.value # q.value
=============================================================================
