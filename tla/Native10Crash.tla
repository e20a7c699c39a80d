--------------------------- MODULE Native10Crash ---------------------------
(***************************************************************************)
(* Native10Round with a coordinator that may be killed inside a handler.   *)
(*                                                                         *)
(* Native10Store.transaction puts the files back when the enclosing SQLite *)
(* transaction raises.  A kill raises nothing: SQLite forgets the open     *)
(* transaction, while every file that was replaced so far (each save is    *)
(* fsynced) stays replaced.  Tasks, reports and rewards are therefore as   *)
(* they were, the store is as far as the handler had come.  The leases are *)
(* rows too: after the restart the worker still holds its task and sends   *)
(* the same result again.                                                  *)
(***************************************************************************)
EXTENDS Native10Round

CONSTANT MaxCrashes  \* bound: how many kills a behaviour may contain

ASSUME CrashesAssumption == MaxCrashes \in Nat

(* The store's side of SelectBest.                                           *)
StoreSelection(C) ==
  \/ /\ \E d \in Best(C) : candidate' = WithStatus(C, d, "replay-audit")
     /\ UNCHANGED round
  \/ Accepted(C) = {} /\ Close(C)

(* initialize and import_checkpoint: the checkpoint is replaced, then the     *)
(* artifacts are removed, then the state is saved.                           *)
CrashInInstall(root) ==
  /\ installs < MaxInstalls
  /\ installs' = installs + 1
  /\ round = NoRound
  /\ checkpoint' = root
  /\ selection' \in {selection, Fresh(NoArtifact)}
  /\ replication' \in {replication, Fresh(NoArtifact)}
  /\ UNCHANGED <<canonical, round, candidate, contributions, database,
                 begun, forgotten, losses>>

(* queue_mutation: killed after begin_round saved the state.                 *)
CrashInQueueMutation ==
  /\ begun < MaxRounds
  /\ begun' = begun + 1
  /\ round = NoRound /\ checkpoint = canonical
  /\ selection.artifact # NoArtifact /\ replication.artifact # NoArtifact
  /\ WithinBudget
  /\ round' = [id |-> begun + 1, base |-> checkpoint,
               status |-> "independent-search", candidates |-> {}]
  /\ selection' = [selection EXCEPT !.evaluations = @ + Candidates, !.tournaments = @ + 1]
  /\ replication' = [replication EXCEPT !.evaluations = @ + 1, !.tournaments = @ + 1]
  /\ UNCHANGED <<checkpoint, canonical, candidate, contributions, database,
                 forgotten, installs, losses>>

(* The last search report: record_candidate was called for some of the       *)
(* deltas, in the order of their hashes, and perhaps set_round_candidates.   *)
CrashInSearch(t, k) ==
  LET R     == Record(t, k)
      found == FoundIn(R, t)
      first(n) == {d \in found : Cardinality({e \in found :
                      HashOrder[e.kind] <= HashOrder[d.kind]}) <= n}
  IN  /\ t.stage = "search" /\ k \in Trained[t.slot]
      /\ SearchEnds(R, t)
      /\ found \cap DOMAIN candidate = {}
      /\ \E n \in 1..Cardinality(found), listed \in BOOLEAN :
           /\ listed => n = Cardinality(found)
           /\ candidate' = [d \in DOMAIN candidate \cup first(n) |->
                IF d \in first(n)
                  THEN NewCandidate(R, t, d, CHOOSE u \in DOMAIN task :
                         \E r \in Agreeing(R, t, d.kind) : r.task = u)
                  ELSE candidate[d]]
           /\ round' = IF listed
                         THEN [round EXCEPT !.candidates = found,
                                            !.status = "blind-global-verification"]
                         ELSE round
      /\ UNCHANGED <<checkpoint, canonical, contributions, selection, replication,
                     database, begun, forgotten, installs, losses>>

(* The store after the selection evidence of d was saved, or after           *)
(* _advance_round_after_verification too; its tasks are lost.                *)
CrashInVerification(t, v) ==
  LET d == t.delta
      R == Record(t, v)
      C == [candidate EXCEPT ![d].status = IF v > 0 THEN "accepted" ELSE "rejected",
                             ![d].verifiers = VerifiersOf(R, t, v), ![d].score = v]
  IN  /\ t.stage = "verify" /\ v \in Evidence["verify"][d.kind]
      /\ d \in DOMAIN candidate
      /\ candidate[d].status = "global-verification"
      /\ task[t].holder \notin NodesOf(candidate[d].trainers)
      /\ Consensus(R, t, v) /\ v # Malformed
      /\ \/ candidate' = C /\ round' = round
         \/ Entrants # {} /\ ~Undecided(C) /\ StoreSelection(C)
      /\ UNCHANGED <<checkpoint, canonical, contributions, selection, replication,
                     database, begun, forgotten, installs, losses>>

(* The replay was recorded in the store, its replication tasks are lost; or   *)
(* it failed, and the store may have come to the next candidate or the end.  *)
CrashInReplay(t, k) ==
  LET d == t.delta
      replayed(s) == [candidate EXCEPT ![d].status = s,
                                       ![d].replay = {Stamp(task[t].holder, t)}]
  IN  /\ t.stage = "replay"
      /\ d \in DOMAIN candidate
      /\ k \in Trained[candidate[d].source.slot]
      /\ \/ k = d.kind /\ candidate' = replayed("replication-verification") /\ round' = round
         \/ k # d.kind /\ candidate' = replayed("replay-failed") /\ round' = round
         \/ k # d.kind /\ StoreSelection(replayed("replay-failed"))
      /\ UNCHANGED <<checkpoint, canonical, contributions, selection,
                     replication, database, begun, forgotten, installs, losses>>

(* The final evidence was saved; then the checkpoint; then the state; or the *)
(* candidate was rejected and perhaps the round closed.  SQLite commits last: *)
(* the rewards, the report and the completion are lost.                      *)
CrashInReplication(t, v) ==
  LET d == t.delta
      R == Record(t, v)
      C == [candidate EXCEPT ![d].replicators = VerifiersOf(R, t, v)]
  IN  /\ t.stage = "replicate" /\ v \in Evidence["replicate"][d.kind] /\ v # Malformed
      /\ d \in DOMAIN candidate
      /\ candidate[d].status = "replication-verification"
      /\ task[t].holder \notin Barred(candidate[d])
      /\ Consensus(R, t, v)
      /\ \/ /\ v > 0
            /\ d.base = checkpoint
            /\ candidate' = WithStatus(C, d, "replicated")
            /\ checkpoint' \in {checkpoint, Append(checkpoint, d.kind)}
            /\ UNCHANGED <<canonical, round, contributions>>
         \/ /\ v > 0
            /\ d.base = checkpoint
            /\ candidate' = WithStatus(C, d, "promoted")
            /\ checkpoint' = Append(checkpoint, d.kind)
            /\ canonical' = Append(checkpoint, d.kind)
            /\ contributions' = Append(contributions, Contribution(d, C[d]))
            /\ round' = NoRound
         \/ /\ v <= 0
            /\ \/ /\ candidate' \in {WithStatus(C, d, "replication-failed"),
                                    WithStatus(C, d, "rejected")}
                  /\ UNCHANGED round
               \/ Close(WithStatus(C, d, "rejected"))
            /\ UNCHANGED <<checkpoint, canonical, contributions>>
      /\ UNCHANGED <<selection, replication, database, begun, forgotten, installs, losses>>

Crash ==
  /\ crashes < MaxCrashes
  /\ crashes' = crashes + 1
  /\ \/ CrashInInstall(<< >>) \/ CrashInQueueMutation
     \/ \E t \in LeasedTasks :
          \/ \E k \in Kinds : CrashInSearch(t, k) \/ CrashInReplay(t, k)
          \/ \E v \in 0..2 : CrashInVerification(t, v) \/ CrashInReplication(t, v)

CrashNext == Next \/ Crash
CrashSpec == Init /\ [][CrashNext]_vars
-----------------------------------------------------------------------------
(* As long as nothing was killed every promotion pays the work it rests on,  *)
(* and nothing else is paid.                                                 *)
OnlyKillsCostRewards == [][crashes' = 0 => PayStep]_vars
=============================================================================
