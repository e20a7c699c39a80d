------------------------- MODULE ReferencePipeline -------------------------
(***************************************************************************)
(* The reference tissue's pipeline: bootstrap queues replicated            *)
(* explorations of a few configurations, a promising consensus queues      *)
(* trainings, a training consensus becomes a candidate and queues          *)
(* verifications, and a verified candidate competes for the canonical      *)
(* place.  Replicas that disagree get one tie-breaker.                     *)
(*                                                                         *)
(* TaskQueue has the leases.  Here a replica is claimed and answered in    *)
(* one step, for what makes a node eligible lasts while it holds the       *)
(* lease; a fault stands for everything that requeues a replica without    *)
(* its holder: a lease that expired and a result that was refused.         *)
(***************************************************************************)
EXTENDS Integers, FiniteSets, Sequences, SequencesExt, FiniteSetsExt

CONSTANTS
  Nodes,
  Configs,      \* the logical experiments of the bootstrap
  Scores,       \* what an exploration can report
  Promising,    \* the scores of at least 0.90
  Artifacts,    \* what a training can report
  Fingerprint,  \* artifact_consensus_hash: equal up to the last digits
  Accuracies,   \* what a verification can report
  Gate,         \* promotion_gate
  MaxAttempts,  \* tasks.max_attempts
  CanRun,       \* node_can_run: <<node, work>> its capabilities and policy admit
  Honest,       \* Honest[n][w]: what an honest execution on the node's machine yields
  MaxTrouble,   \* bound: leases lost or refused, and reports that are not honest
  NoCandidate

(* A row of candidates; its accuracy is that of its verifications.           *)
Candidate == [artifact : Artifacts, trainers : SUBSET Nodes, accuracy : Nat, order : Nat,
              status : {"candidate", "verified", "canonical", "rejected"}]

ASSUME PipelineAssumption ==
  /\ IsFiniteSet(Nodes) /\ IsFiniteSet(Configs)
  /\ Promising \subseteq Scores
  /\ DOMAIN Fingerprint = Artifacts
  /\ Accuracies \subseteq Nat /\ Gate \in Nat
  /\ MaxAttempts \in Nat \ {0} /\ MaxTrouble \in Nat
  /\ NoCandidate \notin Candidate

VARIABLES
  booted,     \* an approved dataset exists
  task,       \* the replicas of every piece of work
  reports,    \* work_reports and candidate_verifications of every work
  paid,       \* ledger: the works a node's report was rewarded for
  candidate,  \* candidates, by the configuration they were trained with
  faults

vars == <<booted, task, reports, paid, candidate, faults>>

Stages == {"exploration", "training", "verification"}
Works == Stages \X Configs      \* the work keys
Quorum == 2                     \* of every stage
MaxReplicas == 3
Slots == 0..MaxReplicas - 1
Replicas == Works \X Slots      \* the dedupe keys

Absent == [status |-> "absent", attempts |-> 0, excluded |-> {}]
Queued(excluded) == [status |-> "queued", attempts |-> 0, excluded |-> excluded]
Trusted == {"verified", "canonical"}
Status(c) == IF candidate[c] = NoCandidate THEN "none" ELSE candidate[c].status

Init ==
  /\ booted = FALSE
  /\ task = [r \in Replicas |-> Absent]
  /\ reports = [w \in Works |-> {}]
  /\ paid = {}
  /\ candidate = [c \in Configs |-> NoCandidate]
  /\ faults = 0

(* add_task for each of a set of replicas: known dedupe keys are left alone  *)
Enqueue(table, rs, excluded) ==
  [r \in Replicas |-> IF r \in rs /\ table[r].status = "absent"
                        THEN Queued(excluded) ELSE table[r]]

(* The replicas of the bootstrap.                                            *)
Explorations == {<<"exploration", c>> : c \in Configs} \X (0..Quorum - 1)

(* bootstrap, replica by replica, after it has approved the dataset.  Killed *)
(* on the way it leaves the rest out, and is not done again.                 *)
Bootstrap ==
  /\ ~booted
  /\ booted' = TRUE
  /\ LET all == SetToSeq(Explorations)
     IN  \E k \in 0..Len(all) :
           task' = Enqueue(task, {all[i] : i \in 1..k}, {})
  /\ UNCHANGED <<reports, paid, candidate, faults>>

NodesOf(rs) == {x.node : x \in rs}

Open(n, r) == task[r].status = "queued" /\ n \notin task[r].excluded

(* Of the replicas of one work the queue offers the oldest; which is         *)
(* answered first makes no difference but to their names.                    *)
Claimable(n, r) ==
  /\ Open(n, r)
  /\ <<n, r[1]>> \in CanRun
  /\ n \notin NodesOf(reports[r[1]])
  /\ \A s \in 0..r[2] - 1 : ~Open(n, <<r[1], s>>)

Wrong(table) ==
  Cardinality(UNION {{<<w, x>> : x \in {x \in table[w] : x.value # Honest[x.node][w]}} : w \in Works})

(* requeue_expired_leases and reject_assigned_task                           *)
Fault(n, r) ==
  /\ Wrong(reports) + faults < MaxTrouble
  /\ Claimable(n, r)
  /\ task' = [task EXCEPT ![r].status = IF task[r].attempts + 1 >= MaxAttempts
                                          THEN "failed" ELSE "queued",
                          ![r].attempts = @ + 1,
                          ![r].excluded = @ \cup {n}]
  /\ faults' = faults + 1
  /\ UNCHANGED <<booted, reports, paid, candidate>>
-----------------------------------------------------------------------------
(***************************************************************************)
(* Consensus: the reports that agree, once they are a quorum, and the      *)
(* tie-breaker when there is none.                                         *)
(***************************************************************************)
Key(stage, v) == IF stage = "training" THEN Fingerprint[v] ELSE v

Agreeing(stage, rs, x) == {y \in rs : Key(stage, y.value) = Key(stage, x.value)}

(* Mutant of Consensus: enough reports are a consensus.                      *)
AnyQuorum(stage, rs) == IF Cardinality(rs) >= Quorum THEN rs ELSE {}

(* Of three reports at most one pair or triple can agree.                    *)
Consensus(stage, rs) == {x \in rs : Cardinality(Agreeing(stage, rs, x)) >= Quorum}

(* Mutant of Tiebreak: replicas that agree get another one as well.          *)
TiebreakAlways(table, w, rs) ==
  IF Cardinality(rs) >= MaxReplicas THEN table
    ELSE Enqueue(table, {<<w, Cardinality(rs)>>}, NodesOf(rs))

(* With one report of two the next dedupe key is that of the waiting         *)
(* replica: nothing is added.                                                *)
Tiebreak(table, w, rs) ==
  IF Cardinality(rs) >= MaxReplicas \/ Consensus(w[1], rs) # {} THEN table
    ELSE Enqueue(table, {<<w, Cardinality(rs)>>}, NodesOf(rs))

(* The reports on w with that of n, whose replica is completed.              *)
With(n, w, v) == reports[w] \cup {[node |-> n, value |-> v]}
Completed(r) == [task EXCEPT ![r] = [Absent EXCEPT !.status = "completed"]]

Answer(n, r, v) ==
  LET w == r[1] rs == With(n, w, v) IN
  /\ Claimable(n, r)
  /\ reports' = [reports EXCEPT ![w] = rs]
  /\ Wrong(reports') + faults <= MaxTrouble
  /\ paid' = paid \cup {<<w, x.node>> : x \in Consensus(w[1], rs)}
  /\ UNCHANGED <<booted, faults>>
-----------------------------------------------------------------------------
(***************************************************************************)
(* The handlers of the three stages.                                       *)
(***************************************************************************)
(* A promising configuration is trained on the full dataset.                 *)
Explored(n, c, s, v) ==
  LET w == <<"exploration", c>>
      rs == With(n, w, v)
      done == Tiebreak(Completed(<<w, s>>), w, rs)
  IN  /\ Answer(n, <<w, s>>, v)
      /\ task' = IF \E x \in Consensus("exploration", rs) : x.value \in Promising
                   THEN Enqueue(done, {<<"training", c>>} \X (0..Quorum - 1), {})
                   ELSE done
      /\ UNCHANGED candidate

(* add_candidate, with the artifact a of the earliest report of the          *)
(* consensus, which can be any of them.                                      *)
AddCandidate(c, a, trainers) ==
  candidate' = [candidate EXCEPT ![c] =
    IF @ # NoCandidate THEN @ ELSE
      [artifact |-> a, trainers |-> trainers, status |-> "candidate", accuracy |-> 0,
       order |-> Cardinality({d \in Configs : candidate[d] # NoCandidate})]]

Trained(n, c, s, v) ==
  LET w == <<"training", c>>
      rs == With(n, w, v)
      done == Tiebreak(Completed(<<w, s>>), w, rs)
      group == Consensus("training", rs)
  IN  /\ Answer(n, <<w, s>>, v)
      /\ \/ group = {} /\ task' = done /\ UNCHANGED candidate
         \/ /\ \E x \in group : AddCandidate(c, x.value, NodesOf(group))
            /\ task' = Enqueue(done, {<<"verification", c>>} \X (0..Quorum - 1), NodesOf(group))

(* The trusted candidates compete: best accuracy, then the oldest.           *)
Beats(x, y) == \/ x.accuracy > y.accuracy
               \/ x.accuracy = y.accuracy /\ x.order < y.order

(* Mutant of Crowned: the latest of equals wins.                             *)
CrownedLatest(table) ==
  LET pool == {c \in Configs : table[c] # NoCandidate /\ table[c].status \in Trusted}
      best == CHOOSE c \in pool : \A d \in pool : table[d].accuracy <= table[c].accuracy
                                    /\ (table[d].accuracy = table[c].accuracy => table[d].order <= table[c].order)
  IN  [c \in Configs |-> IF c \notin pool THEN table[c]
                           ELSE [table[c] EXCEPT !.status = IF c = best THEN "canonical" ELSE "verified"]]

Crowned(table) ==
  LET pool == {c \in Configs : table[c] # NoCandidate /\ table[c].status \in Trusted}
      best == CHOOSE c \in pool : \A d \in pool \ {c} : Beats(table[c], table[d])
  IN  [c \in Configs |-> IF c \notin pool THEN table[c]
                           ELSE [table[c] EXCEPT !.status = IF c = best THEN "canonical" ELSE "verified"]]

(* Mutant of Finalized: the spread of the reports is not looked at.          *)
FinalizedOnSpread(c, values) ==
  IF Max(values) < Gate
    THEN [candidate EXCEPT ![c].status = "rejected", ![c].accuracy = Max(values)]
    ELSE Crowned([candidate EXCEPT ![c].status = "verified", ![c].accuracy = Max(values)])

(* finalize_candidate: all verifications count, also the dissenting one a    *)
(* tie-breaker was queued for.                                               *)
Finalized(c, values) ==
  IF Cardinality(values) > 1 THEN [candidate EXCEPT ![c].status = "rejected"]
    ELSE IF Max(values) < Gate
      THEN [candidate EXCEPT ![c].status = "rejected", ![c].accuracy = Max(values)]
      ELSE Crowned([candidate EXCEPT ![c].status = "verified", ![c].accuracy = Max(values)])

(* A trainer is refused even if the queue offered it the tie-breaker, which  *)
(* excludes the reporters only: that is a Fault.                             *)
Verified(n, c, s, v) ==
  LET w == <<"verification", c>>
      rs == With(n, w, v)
  IN  /\ n \notin candidate[c].trainers
      /\ Answer(n, <<w, s>>, v)
      /\ task' = IF Cardinality(rs) < Quorum THEN Completed(<<w, s>>)
                   ELSE Tiebreak(Completed(<<w, s>>), w, rs)
      /\ candidate' = IF Consensus("verification", rs) = {} THEN candidate
                        ELSE Finalized(c, {x.value : x \in rs})

Next ==
  \/ Bootstrap
  \/ \E n \in Nodes, r \in Replicas : Fault(n, r)
  \/ \E n \in Nodes, c \in Configs, s \in Slots :
       \/ \E v \in Scores : Explored(n, c, s, v)
       \/ \E v \in Artifacts : Trained(n, c, s, v)
       \/ candidate[c] # NoCandidate /\ \E v \in Accuracies : Verified(n, c, s, v)

Spec == Init /\ [][Next]_vars
-----------------------------------------------------------------------------
(* There is exactly one canonical candidate as soon as any is trusted, and   *)
(* no trusted candidate is better or as good and older, in whatever order    *)
(* the stages of the configurations end.                                     *)
CanonicalIsBest ==
  LET trusted == {c \in Configs : Status(c) \in Trusted}
      crowned == {c \in Configs : Status(c) = "canonical"}
  IN  /\ trusted # {} => Cardinality(crowned) = 1
      /\ \A c \in crowned, d \in trusted : ~Beats(candidate[d], candidate[c])

(* A trusted candidate has the whole chain of evidence: explorers who agreed *)
(* it is promising, trainers who agreed on it, and at least a quorum of      *)
(* verifiers, none of them a trainer, who all found the same accuracy, which *)
(* passes the gate.                                                          *)
TrustIsEarned ==
  \A c \in Configs : Status(c) \in Trusted =>
    LET x == candidate[c]
        explored == reports[<<"exploration", c>>]
        trained == reports[<<"training", c>>]
        verified == reports[<<"verification", c>>]
    IN  /\ \E y \in explored : /\ y.value \in Promising
                                /\ Cardinality(Agreeing("exploration", explored, y)) >= Quorum
        /\ Cardinality(x.trainers) >= Quorum
        /\ \A y \in trained : y.node \in x.trainers => Fingerprint[y.value] = Fingerprint[x.artifact]
        /\ Cardinality(verified) >= Quorum
        /\ \A y \in verified : y.node \notin x.trainers /\ y.value = x.accuracy
        /\ x.accuracy >= Gate

(* A report is paid exactly when it is one of a quorum of identities that    *)
(* agree; the dissenter is not, and nobody is while they disagree.           *)
PaidExactlyForConsensus ==
  \A w \in Works, n \in Nodes :
    <<w, n>> \in paid
      <=> \E x, y \in reports[w] : /\ x.node = n /\ y.node # n
                                   /\ Key(w[1], x.value) = Key(w[1], y.value)

(* A verdict on a candidate is final: what is trusted stays servable (an     *)
(* inference queued for its artifact can still be completed), and what is    *)
(* rejected is never trusted.                                                *)
VerdictsAreFinal ==
  [][\A c \in Configs :
       /\ Status(c) \in Trusted => Status(c)' \in Trusted
       /\ Status(c) = "rejected" => Status(c)' = "rejected"]_vars
=============================================================================
