----------------------------- MODULE Native10V5 -----------------------------
(***************************************************************************)
(* The v5 contribution rounds (v5/service.py): one round at a time trains  *)
(* a delta of the canonical checkpoint in replicas, has it verified        *)
(* against the coordinator's validation artifact by other nodes, and ends  *)
(* when it is promoted or rejected.                                        *)
(*                                                                         *)
(* Every handler runs under the locks of the database and the store, so it *)
(* is one step; but it replaces its files before SQLite commits, and a     *)
(* kill in between leaves the files ahead.  Leases are those of TaskQueue: *)
(* here a replica is claimed and answered in one step, or fails for good.  *)
(***************************************************************************)
EXTENDS Integers, FiniteSets, Sequences, SequencesExt

CONSTANTS
  Nodes,
  Starts,      \* checkpoints to start from: what initialize makes, what can be imported
  Jobs,        \* operations, shards and seeds a mutation is queued with
  Deltas,      \* what a mutation can train
  Artifacts,   \* validation artifacts
  Budget,      \* policy.max_candidate_evaluations
  MaxRounds,   \* bound: rounds queued
  MaxLineages, \* bound: checkpoints installed
  MaxLosses,   \* bound: replicas that fail for good
  MaxKills,    \* bound: kills of the coordinator
  Nothing      \* no checkpoint, no artifact, no round

(* A root: a start and the deltas applied to it.                             *)
Roots == Seq(Starts \cup Deltas)

(* The keys of mutations, and the rounds that queue them.                    *)
Mutations == {"mutation"} \X Roots \X Jobs \X Artifacts
ActiveRounds == [id : Nat, work : Mutations]

ASSUME V5Assumption ==
  /\ IsFiniteSet(Nodes)
  /\ {Budget, MaxRounds, MaxLineages, MaxLosses, MaxKills} \subseteq Nat
  /\ Nothing \notin Nat /\ Nothing \notin Artifacts
  /\ Nothing \notin Roots /\ Nothing \notin ActiveRounds

VARIABLES
  files,   \* checkpoint, validation and state files of the store
  db,      \* SQLite: the work, its reports, and the rewards
  rounds,  \* round ids given out
  lineages, \* checkpoints installed, each of which forgets candidates and contributions
  kills

vars == <<files, db, rounds, lineages, kills>>

Quorum == 2   \* MUTATION_QUORUM, VERIFICATION_QUORUM

(* Initializing with the same seed, or importing the same checkpoint, gives  *)
(* the same root again.                                                      *)
Root(start) == <<start>>

Init ==
  /\ files = [checkpoint |-> Nothing, validation |-> Nothing,
              root |-> Nothing, hash |-> Nothing, evaluations |-> 0,
              active |-> Nothing, candidates |-> << >>, contributions |-> << >>]
  /\ db = [work |-> << >>, paid |-> {}, failed |-> 0]
  /\ rounds = 0 /\ lineages = 0 /\ kills = 0

(* The files are replaced one after the other, then the database commits;    *)
(* killed in between, the files written so far stay.                         *)
Commit(written, committed) ==
  \/ files' = Last(written) /\ db' = committed /\ UNCHANGED kills
  \/ /\ kills < MaxKills
     /\ kills' = kills + 1
     /\ \E i \in DOMAIN written : files' = written[i]
     /\ UNCHANGED db
-----------------------------------------------------------------------------
(***************************************************************************)
(* Setting up: initialize and import_checkpoint, set_global_validation.    *)
(***************************************************************************)
Idle == files.active = Nothing

Initialize(start, replace) ==
  /\ Idle
  /\ files.checkpoint = Nothing \/ replace
  /\ lineages < MaxLineages /\ lineages' = lineages + 1
  /\ LET model == [files EXCEPT !.checkpoint = Root(start)]
         bare == [model EXCEPT !.validation = Nothing]
     IN  Commit(<<model, bare,
                  [bare EXCEPT !.root = Root(start), !.hash = Nothing, !.evaluations = 0,
                               !.candidates = << >>, !.contributions = << >>]>>, db)
  /\ UNCHANGED rounds

SetGlobalValidation(a, replace) ==
  /\ Idle
  /\ files.checkpoint # Nothing
  /\ files.validation = Nothing \/ replace
  /\ LET written == [files EXCEPT !.validation = a]
     IN  Commit(<<written, [written EXCEPT !.hash = a, !.evaluations = 0]>>, db)
  /\ UNCHANGED <<rounds, lineages>>

(***************************************************************************)
(* Work: a key names the replicas of a mutation or of a verification.      *)
(***************************************************************************)
Search(root, job, a) == <<"mutation", root, job, a>>
Verify(c) == <<"verification", c>>

(* add_task for every slot: the rows of a known key are left as they are,    *)
(* also the round id and the artifact in their payload.                      *)
AddWork(table, w, slots, excluded, round, hash) ==
  IF w \in DOMAIN table THEN table
    ELSE [v \in DOMAIN table \cup {w} |->
            IF v = w THEN [slots |-> slots, excluded |-> excluded, round |-> round,
                           hash |-> hash, reports |-> {}, lost |-> 0]
                     ELSE table[v]]

Open(w) == Cardinality(db.work[w].reports) + db.work[w].lost < db.work[w].slots

(* queue_mutation and begin_round                                            *)
QueueMutation(job) ==
  /\ files.checkpoint # Nothing /\ files.validation # Nothing
  /\ Idle
  /\ files.checkpoint = files.root
  /\ files.validation = files.hash
  /\ files.evaluations < Budget
  /\ rounds < MaxRounds /\ rounds' = rounds + 1
  /\ LET w == Search(files.root, job, files.hash)
     IN  Commit(<<[files EXCEPT !.evaluations = @ + 1,
                                !.active = [id |-> rounds + 1, work |-> w]]>>,
                [db EXCEPT !.work = AddWork(@, w, Quorum, {}, rounds + 1, files.hash)])
  /\ UNCHANGED lineages

(* The attempts of a replica are used up.                                    *)
Lose(w) ==
  /\ db.failed < MaxLosses
  /\ Open(w)
  /\ db' = [db EXCEPT !.failed = @ + 1, !.work[w].lost = @ + 1]
  /\ UNCHANGED <<files, rounds, lineages, kills>>
-----------------------------------------------------------------------------
(***************************************************************************)
(* handle_result.                                                          *)
(***************************************************************************)
Claimable(n, w) ==
  /\ w \in DOMAIN db.work
  /\ Open(w)
  /\ n \notin db.work[w].excluded
  /\ \A x \in db.work[w].reports : x.node # n

With(n, w, v) == db.work[w].reports \cup {[node |-> n, value |-> v]}
NodesOf(rs) == {x.node : x \in rs}

(* Equal as their consensus hashes are.                                      *)
Agreeing(rs, v) == {x \in rs : x.value = v}

(* Mutant of Consensus: one report short of the quorum.                      *)
EarlyConsensus(rs) == {x \in rs : Cardinality(Agreeing(rs, x.value)) >= Quorum - 1}

(* The largest group of equal reports, if it is a quorum.                    *)
Consensus(rs) == {x \in rs : Cardinality(Agreeing(rs, x.value)) >= Quorum}

Update(f, k, v) == [x \in DOMAIN f \cup {k} |-> IF x = k THEN v ELSE f[x]]

(* Mutant of Verifications: a replica too few.                               *)
SingleVerification(table, c, candidate) ==
  AddWork(table, Verify(c), Quorum - 1, candidate.trainers, candidate.round, candidate.hash)

Verifications(table, c, candidate) ==
  AddWork(table, Verify(c), Quorum, candidate.trainers, candidate.round, candidate.hash)

(* A trained delta; the first consensus makes it a candidate, unless a       *)
(* candidate of this id exists.                                              *)
ReportMutation(n, w, d) ==
  /\ Claimable(n, w)
  /\ w[1] = "mutation"
  /\ LET rs == With(n, w, d)
         c == [base |-> w[2], delta |-> d]     \* candidate_id, the hash of the delta
         work == [db.work EXCEPT ![w].reports = rs]
         candidate == [round |-> db.work[w].round, hash |-> w[4],
                       trainers |-> NodesOf(rs), task |-> w, status |-> "verification-quorum"]
     IN  IF Consensus(rs) = {} \/ c \in DOMAIN files.candidates
           THEN Commit(<<files>>, [db EXCEPT !.work = work])
           ELSE Commit(<<[files EXCEPT !.candidates = Update(@, c, candidate)]>>,
                       [db EXCEPT !.work = Verifications(work, c, candidate)])
  /\ UNCHANGED <<rounds, lineages>>

(* apply_delta, which takes a delta of this parent only.                     *)
Applies(c) == c.base = files.checkpoint
Applied(c) == Append(files.checkpoint, c.delta)

RejectRound(c) == [files EXCEPT !.candidates[c].status = "rejected", !.active = Nothing]

(* Mutant of Promoted: the state keeps the parent's root.                    *)
PromotedStale(c, verifiers) ==
  LET after == Applied(c)
      model == [files EXCEPT !.checkpoint = after]
      record == [candidate |-> c, before |-> files.checkpoint, after |-> after,
                 trainers |-> files.candidates[c].trainers, verifiers |-> verifiers,
                 hash |-> files.candidates[c].hash]
  IN  <<model, [model EXCEPT !.active = Nothing,
                             !.contributions = Append(@, record),
                             !.candidates[c].status = "promoted"]>>

(* promote: the checkpoint is replaced before the state.                     *)
Promoted(c, verifiers) ==
  LET after == Applied(c)
      model == [files EXCEPT !.checkpoint = after]
      record == [candidate |-> c, before |-> files.checkpoint, after |-> after,
                 trainers |-> files.candidates[c].trainers, verifiers |-> verifiers,
                 hash |-> files.candidates[c].hash]
  IN  <<model, [model EXCEPT !.root = after, !.active = Nothing,
                             !.contributions = Append(@, record),
                             !.candidates[c].status = "promoted"]>>

Rewards(c, verifiers) ==
  {files.candidates[c].task} \X files.candidates[c].trainers \cup {Verify(c)} \X verifiers

(* What the consensus found.                                                 *)
Decision(rs) == (CHOOSE x \in Consensus(rs) : TRUE).value

(* Mutant of Rewarded: the verifiers are paid whatever they found.           *)
RewardedAnyway(c, rs) == Rewards(c, NodesOf(Consensus(rs)))

Rewarded(c, rs) == IF Decision(rs) = "gain" THEN Rewards(c, NodesOf(Consensus(rs))) ELSE {}

(* A verification.  What it is checked against in vain refuses it, and the   *)
(* whole step is rolled back.                                                *)
ReportVerification(n, w, verdict) ==
  /\ Claimable(n, w)
  /\ w[1] = "verification"
  /\ w[2] \in DOMAIN files.candidates
  /\ n \notin files.candidates[w[2]].trainers
  /\ db.work[w].hash = files.candidates[w[2]].hash
  /\ LET c == w[2]
         rs == With(n, w, verdict)
         done == [db EXCEPT !.work[w].reports = rs]
         decided == [done EXCEPT !.paid = @ \cup Rewarded(c, rs)]
     IN  \/ Consensus(rs) = {} /\ Commit(<<files>>, done)
         \/ /\ Consensus(rs) # {}
            /\ files.validation = files.candidates[c].hash
            /\ IF Decision(rs) = "loss" THEN Commit(<<RejectRound(c)>>, decided)
                 ELSE /\ Applies(c)
                      /\ Commit(Promoted(c, NodesOf(Consensus(rs))), decided)
  /\ UNCHANGED <<rounds, lineages>>

Next ==
  \/ \E replace \in BOOLEAN :
       \/ \E start \in Starts : Initialize(start, replace)
       \/ \E a \in Artifacts : SetGlobalValidation(a, replace)
  \/ \E job \in Jobs : QueueMutation(job)
  \/ \E w \in DOMAIN db.work :
       \/ Lose(w)
       \/ \E n \in Nodes : \/ \E d \in Deltas : ReportMutation(n, w, d)
                           \/ \E v \in {"gain", "loss"} : ReportVerification(n, w, v)

Spec == Init /\ [][Next]_vars
-----------------------------------------------------------------------------
(* Nothing but its own candidate ends a round, although reports arrive late  *)
(* and neither promote nor reject_round compares the round: only after a     *)
(* kill can a report of an earlier round close the one that is active.       *)
ClosesOwnRound ==
  [][kills = 0 /\ kills' = 0 /\ files.active # Nothing /\ files'.active = Nothing =>
       \E c \in DOMAIN files.candidates :
         /\ files.candidates[c].round = files.active.id
         /\ files.candidates[c].status = "verification-quorum"
         /\ files'.candidates[c].status # "verification-quorum"]_vars

(* The contributions form one line from the start to the canonical root,     *)
(* each trained and verified by disjoint quorums; the checkpoint is the root *)
(* unless a kill left it one delta ahead.                                    *)
Linear ==
  LET line == files.contributions
  IN  /\ \A i \in DOMAIN line :
           /\ IF i = 1 THEN \E start \in Starts : line[i].before = Root(start)
                       ELSE line[i].before = line[i - 1].after
           /\ line[i].candidate.base = line[i].before
           /\ line[i].trainers \cap line[i].verifiers = {}
           /\ Cardinality(line[i].trainers) >= Quorum
           /\ Cardinality(line[i].verifiers) >= Quorum
      /\ line # << >> => files.root = Last(line).after
      /\ files.checkpoint # files.root => kills > 0

(* The lineage survives kills, and it survives a new checkpoint, but not     *)
(* both: a report on a candidate of the old lineage that a kill left open    *)
(* counts for the candidate of the same delta in the new one, where its      *)
(* sender may be a trainer.                                                  *)
LineageIsLinear == kills = 0 \/ lineages <= 1 => Linear

(* Rewards are credited in the step that promotes, to the trainers and       *)
(* verifiers of that contribution; no promotion goes unrewarded but for a    *)
(* kill, and no rejected, undecided or repeated round pays anybody.          *)
PaidWithPromotion ==
  [][LET grown == Len(files'.contributions) > Len(files.contributions)
         new == Last(files'.contributions)
         owed == {files.candidates[new.candidate].task} \X new.trainers
                   \cup {Verify(new.candidate)} \X new.verifiers
     IN  /\ db'.paid # db.paid => grown /\ db'.paid = db.paid \cup owed
         /\ grown /\ kills' = kills => owed \subseteq db'.paid]_vars

(* The candidate of the active round.                                        *)
Own(c) == files.candidates[c].round = files.active.id

(* No round hangs: while it is active somebody can still be offered work for *)
(* it, unless reports disagree, a replica failed for good, the coordinator   *)
(* was killed, or the round repeats work: of a known key, of its own or of   *)
(* its verification, whose tasks are not queued again, or leading to a known *)
(* candidate.                                                                *)
RoundsCanEnd ==
  files.active # Nothing /\ kills = 0 /\ db.failed = 0
    /\ db.work[files.active.work].round = files.active.id =>
      LET w == files.active.work
          found == {x.value : x \in db.work[w].reports}
      IN  \/ Open(w)
          \/ Cardinality(found) > 1
          \/ \E d \in found :
               LET c == [base |-> w[2], delta |-> d]
               IN  \/ ~Own(c)
                   \/ db.work[Verify(c)].round # files.active.id
                   \/ Open(Verify(c))
                   \/ Cardinality({x.value : x \in db.work[Verify(c)].reports}) > 1
=============================================================================
