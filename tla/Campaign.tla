------------------------------ MODULE Campaign ------------------------------
(***************************************************************************)
(* The CIFAR-100 campaign of v7/campaign.py on top of the Native10         *)
(* coordinator: each campaign round consumes one fold of the selection and *)
(* replication banks, installs it as the holdouts, queues a native round   *)
(* and is reconciled once that round is over.                              *)
(*                                                                         *)
(* The handlers of the HTTP layer run in a thread pool, and campaign.json  *)
(* is read and replaced without a lock: every file access and every call   *)
(* of the native coordinator (which locks itself) is a step of its own.    *)
(* The native coordinator is reduced to what the campaign sees of it: the  *)
(* active round, the canonical root, the contributions, the installed      *)
(* holdouts; Native10Round has the rest.                                   *)
(*                                                                         *)
(* A fold is a set of rows: it is given by the seed the banks were split   *)
(* with and the index of the round.  The same seed gives the same rows.    *)
(***************************************************************************)
EXTENDS Integers, FiniteSets, Sequences

CONSTANTS
  Threads,     \* requests being served at the same time
  Seeds,       \* seeds the banks can be split with
  MaxFolds,    \* max_rounds: folds of the prepared banks
  MaxPreparations, \* bound: preparations of the dataset
  MaxNative,   \* bound: native rounds queued
  MaxInits,    \* bound: initializations of the model
  MaxCrashes,  \* bound: kills of the coordinator
  NoSeed,
  NoRound

ASSUME CampaignAssumption ==
  /\ NoSeed \notin Seeds /\ NoRound \notin Nat
  /\ {MaxFolds, MaxPreparations, MaxNative, MaxInits, MaxCrashes} \subseteq Nat

VARIABLES
  bank,      \* the seed of the prepared dataset, whose banks are cut into folds
  preparations, \* how often the dataset was prepared
  file,      \* campaign.json
  native,    \* the state of the native coordinator
  holdout,   \* the installed artifacts, and whether a round has used them
  consumed,  \* consumed[i]: the folds native round i was queued with, and when
  outcome,   \* outcome[i]: how native round i ended
  pc,        \* what each thread does next
  seen,      \* the campaign state a thread has read
  observed,  \* the native state a thread has read
  started,   \* the native round a thread has queued, its base root and fold
  overtaken, \* a request has acted on a read that was no longer true
  inits,
  crashes

dataset == <<bank, preparations>>
rounds == <<native, holdout, consumed, outcome>>
threadState == <<pc, seen, observed, started>>
bounded == <<inits, crashes>>
vars == <<dataset, file, rounds, threadState, overtaken, bounded>>

(* The rows of a fold: the dataset of this moment, the index a thread read.  *)
Fold(t) == <<bank, seen[t].index>>
NoFold == <<NoSeed, 0>>
Unused(f) == [fold |-> f, used |-> FALSE]
Used(f) == [fold |-> f, used |-> TRUE]

Entry(i, base, f) == [native |-> i, base |-> base, fold |-> f, status |-> "queued"]
Fresh == [index |-> 0, active |-> NoRound, history |-> << >>]

Init ==
  /\ bank = NoSeed /\ preparations = 0
  /\ file = Fresh
  /\ native = [active |-> NoRound, root |-> 0, contributions |-> {}]
  /\ holdout = [selection |-> Used(NoFold), replication |-> Used(NoFold)]
  /\ consumed = << >>
  /\ outcome = << >>
  /\ pc = [t \in Threads |-> "idle"]
  /\ seen = [t \in Threads |-> file]
  /\ observed = [t \in Threads |-> native]
  /\ started = [t \in Threads |-> Entry(0, 0, NoFold)]
  /\ overtaken = FALSE
  /\ inits = 0 /\ crashes = 0

Goto(t, label) == pc' = [pc EXCEPT ![t] = label]

(* t writes the file: no other request has changed it since t read it.       *)
Overtakes(t) == overtaken' = (overtaken \/ seen[t] # file)

(* t queues a round: what it checked and installed still holds, and no other *)
(* request is about to record a round or to reset the campaign.              *)
Undisturbed(t) ==
  /\ seen[t] = file /\ file.active = NoRound
  /\ holdout.selection.fold = Fold(t) /\ holdout.replication.fold = Fold(t)
  /\ \A u \in Threads \ {t} : pc[u] \notin {"enter", "append", "reset"}
-----------------------------------------------------------------------------
(***************************************************************************)
(* reconcile: read the file, compare it with the native state, settle the  *)
(* round that is over.  status stops there, queue_next goes on.            *)
(***************************************************************************)
Queueing(t) == started[t].status = "wanted"

(* status(), or queue_next(), whose first step is plan_next().               *)
Start(t, goal) ==
  /\ pc[t] = "idle"
  /\ seen' = [seen EXCEPT ![t] = file]
  /\ started' = [started EXCEPT ![t].status = goal]
  /\ Goto(t, "reconcile")
  /\ UNCHANGED <<dataset, file, rounds, observed, overtaken, bounded>>

AfterReconcile(t) == IF Queueing(t) THEN "plan" ELSE "idle"

(* native.store.state() is read only if a round is believed to be active.    *)
Judge(t) ==
  /\ pc[t] = "reconcile"
  /\ observed' = [observed EXCEPT ![t] = native]
  /\ Goto(t, IF seen[t].active = NoRound \/ seen[t].active = native.active
               THEN AfterReconcile(t) ELSE "settle")
  /\ UNCHANGED <<dataset, file, rounds, seen, started, overtaken, bounded>>

Last(S) == CHOOSE i \in S : \A j \in S : j <= i

(* Mutant of Settled: the fold index is not advanced.                        *)
SettledSameFold(s, n) ==
  LET hits == {i \in DOMAIN s.history : s.history[i].native = s.active}
      ends == IF \E c \in n.contributions : c.before = s.history[Last(hits)].base
                THEN "promoted" ELSE "closed-without-promotion"
  IN  [s EXCEPT !.active = NoRound,
                !.history = IF hits # {} /\ s.history[Last(hits)].status = "queued"
                              THEN [s.history EXCEPT ![Last(hits)].status = ends]
                              ELSE s.history]

(* Mutant of Settled: whatever the native coordinator contributed counts.    *)
SettledByAny(s, n) ==
  LET hits == {i \in DOMAIN s.history : s.history[i].native = s.active}
      ends == IF n.contributions # {} THEN "promoted" ELSE "closed-without-promotion"
  IN  [s EXCEPT !.active = NoRound, !.index = @ + 1,
                !.history = IF hits # {} /\ s.history[Last(hits)].status = "queued"
                              THEN [s.history EXCEPT ![Last(hits)].status = ends]
                              ELSE s.history]

(* The entry of the round is closed by the contributions that started from   *)
(* its base root; the fold is spent in any case.                             *)
Settled(s, n) ==
  LET hits == {i \in DOMAIN s.history : s.history[i].native = s.active}
      ends == IF \E c \in n.contributions : c.before = s.history[Last(hits)].base
                THEN "promoted" ELSE "closed-without-promotion"
  IN  [s EXCEPT !.active = NoRound, !.index = @ + 1,
                !.history = IF hits # {} /\ s.history[Last(hits)].status = "queued"
                              THEN [s.history EXCEPT ![Last(hits)].status = ends]
                              ELSE s.history]

(* The write comes after the diagnostic report, which takes its time.        *)
Settle(t) ==
  /\ pc[t] = "settle"
  /\ file' = Settled(seen[t], observed[t])
  /\ seen' = [seen EXCEPT ![t] = file']
  /\ Overtakes(t)
  /\ Goto(t, AfterReconcile(t))
  /\ UNCHANGED <<dataset, rounds, observed, started, bounded>>
-----------------------------------------------------------------------------
(***************************************************************************)
(* The rest of queue_next.                                                 *)
(***************************************************************************)
Fail(t) == Goto(t, "idle")

(* The checks of plan_next, and the second read of the file.                 *)
Plan(t) ==
  /\ pc[t] = "plan"
  /\ \/ /\ bank # NoSeed
        /\ seen[t].active = NoRound
        /\ seen[t].index < MaxFolds
        /\ seen' = [seen EXCEPT ![t] = file]
        /\ Goto(t, IF file.index < MaxFolds THEN "select" ELSE "idle")
     \/ /\ bank = NoSeed \/ seen[t].active # NoRound \/ seen[t].index >= MaxFolds
        /\ Fail(t)
        /\ UNCHANGED seen
  /\ UNCHANGED <<dataset, file, rounds, observed, started, overtaken, bounded>>

(* The rows of both folds are read, then set_global_validation and           *)
(* set_replication_validation: refused while a native round is active.       *)
InstallSelection(t) ==
  /\ pc[t] = "select"
  /\ started' = [started EXCEPT ![t].fold = Fold(t)]
  /\ \/ /\ native.active = NoRound
        /\ holdout' = [holdout EXCEPT !.selection = Unused(Fold(t))]
        /\ Goto(t, "replicate")
     \/ /\ native.active # NoRound
        /\ Fail(t)
        /\ UNCHANGED holdout
  /\ UNCHANGED <<dataset, file, native, consumed, outcome, seen, observed, overtaken, bounded>>

InstallReplication(t) ==
  /\ pc[t] = "replicate"
  /\ \/ /\ native.active = NoRound
        /\ holdout' = [holdout EXCEPT !.replication = Unused(started[t].fold)]
        /\ Goto(t, "queue")
     \/ /\ native.active # NoRound
        /\ Fail(t)
        /\ UNCHANGED holdout
  /\ UNCHANGED <<dataset, file, native, consumed, outcome, seen, observed, started,
                 overtaken, bounded>>

(* queue_mutation, with the holdouts that are installed now.                 *)
QueueRound(t) ==
  /\ pc[t] = "queue"
  /\ \/ /\ native.active = NoRound
        /\ ~holdout.selection.used /\ ~holdout.replication.used
        /\ Len(consumed) < MaxNative
        /\ holdout' = [selection |-> Used(holdout.selection.fold),
                       replication |-> Used(holdout.replication.fold)]
        /\ native' = [native EXCEPT !.active = Len(consumed) + 1]
        /\ consumed' = Append(consumed, [preparation |-> preparations,
                                        selection |-> holdout.selection.fold,
                                        replication |-> holdout.replication.fold])
        /\ outcome' = Append(outcome, "running")
        /\ started' = [started EXCEPT ![t] = Entry(Len(consumed) + 1, native.root, @.fold)]
        /\ overtaken' = (overtaken \/ ~Undisturbed(t))
        /\ Goto(t, "enter")
     \/ /\ native.active # NoRound \/ holdout.selection.used \/ holdout.replication.used
        /\ Fail(t)
        /\ UNCHANGED <<rounds, started, overtaken>>
  /\ UNCHANGED <<dataset, file, seen, observed, bounded>>

(* The third read, and the write of the new entry.                           *)
EnterHistory(t) ==
  /\ pc[t] = "enter"
  /\ seen' = [seen EXCEPT ![t] = file]
  /\ Goto(t, "append")
  /\ UNCHANGED <<dataset, file, rounds, observed, started, overtaken, bounded>>

AppendHistory(t) ==
  /\ pc[t] = "append"
  /\ file' = [seen[t] EXCEPT !.active = started[t].native,
                             !.history = Append(@, started[t])]
  /\ Overtakes(t)
  /\ Goto(t, "idle")
  /\ UNCHANGED <<dataset, rounds, seen, observed, started, bounded>>
-----------------------------------------------------------------------------
(* prepare_dataset: the banks are split again (the second time with replace, *)
(* and by default with the same seed, into the same rows); then campaign.json*)
(* is reset.  Nothing is kept of what was consumed before.                   *)
Prepare(t) ==
  /\ pc[t] = "idle"
  /\ preparations < MaxPreparations
  /\ bank' \in Seeds
  /\ preparations' = preparations + 1
  /\ Goto(t, "reset")
  /\ UNCHANGED <<file, rounds, seen, observed, started, overtaken, bounded>>

ResetCampaign(t) ==
  /\ pc[t] = "reset"
  /\ file' = Fresh
  /\ Goto(t, "idle")
  /\ UNCHANGED <<dataset, rounds, seen, observed, started, overtaken, bounded>>

(* evaluate_test counts the evaluation, which changes no other field: it     *)
(* writes back what it has read.                                             *)
ReadForTest(t) ==
  /\ pc[t] = "idle"
  /\ seen' = [seen EXCEPT ![t] = file]
  /\ Goto(t, "count")
  /\ UNCHANGED <<dataset, file, rounds, observed, started, overtaken, bounded>>

CountTest(t) ==
  /\ pc[t] = "count"
  /\ file' = seen[t]
  /\ Overtakes(t)
  /\ Goto(t, "idle")
  /\ UNCHANGED <<dataset, rounds, seen, observed, started, bounded>>

(* The native round ends, as Native10Round ends it: with a contribution to   *)
(* the canonical root, or without one.                                       *)
NativePromotes ==
  /\ native.active # NoRound
  /\ outcome' = [outcome EXCEPT ![native.active] = "promoted"]
  /\ native' = [active |-> NoRound, root |-> native.root + 1,
                contributions |-> native.contributions \cup
                  {[before |-> native.root, round |-> native.active]}]
  /\ UNCHANGED <<dataset, file, holdout, consumed, threadState, overtaken, bounded>>

NativeCloses ==
  /\ native.active # NoRound
  /\ outcome' = [outcome EXCEPT ![native.active] = "closed-without-promotion"]
  /\ native' = [native EXCEPT !.active = NoRound]
  /\ UNCHANGED <<dataset, file, holdout, consumed, threadState, overtaken, bounded>>

(* initialize_model with replace: the contributions and the holdouts go; the *)
(* same seed gives the same root again.                                      *)
InitializeModel ==
  /\ native.active = NoRound
  /\ inits < MaxInits
  /\ inits' = inits + 1
  /\ native' = [active |-> NoRound, root |-> 0, contributions |-> {}]
  /\ holdout' = [selection |-> Used(NoFold), replication |-> Used(NoFold)]
  /\ UNCHANGED <<dataset, file, consumed, outcome, threadState, overtaken, crashes>>

(* The coordinator is killed: the requests it was serving are gone.          *)
Crash ==
  /\ crashes < MaxCrashes
  /\ crashes' = crashes + 1
  /\ pc' = [t \in Threads |-> "idle"]
  /\ UNCHANGED <<dataset, file, rounds, seen, observed, started, overtaken, inits>>

Step(t) == \/ \E goal \in {"status", "wanted"} : Start(t, goal)
           \/ Judge(t) \/ Settle(t)
           \/ Plan(t) \/ InstallSelection(t) \/ InstallReplication(t)
           \/ QueueRound(t) \/ EnterHistory(t) \/ AppendHistory(t)
           \/ Prepare(t) \/ ResetCampaign(t)
           \/ ReadForTest(t) \/ CountTest(t)

Next == (\E t \in Threads : Step(t)) \/ NativePromotes \/ NativeCloses
          \/ InitializeModel \/ Crash

Spec == Init /\ [][Next]_vars
-----------------------------------------------------------------------------
(***************************************************************************)
(* Properties.                                                             *)
(***************************************************************************)
(* A preparation of the dataset hands out each of its folds once, for        *)
(* selection and for replication.  Requests that overlap may use a fold      *)
(* twice, but only by acting on a read that is no longer true; as long as    *)
(* none has, whatever runs next to what, a round gets the rows of an earlier *)
(* one only after a kill, and one for each.  (A new preparation with the     *)
(* seed of an earlier one hands out the same rows again: the campaign keeps  *)
(* no record of what was spent before it.)                                   *)
OnlyKillsReuseFolds ==
  ~overtaken =>
    \A half \in {"selection", "replication"} :
      Len(consumed) - Cardinality({<<consumed[i].preparation, consumed[i][half]>> :
                                     i \in DOMAIN consumed}) <= crashes

(* The history does not credit a native round with a promotion it did not    *)
(* have, nor deny it one, though the campaign infers the outcome from the    *)
(* roots contributions started from, some time after the round, while other  *)
(* requests read and write the file.  (A model initialized again in between  *)
(* takes the contributions with it, and a request that has acted on a read   *)
(* that is no longer true may have left a round unsettled.)                  *)
HistoryIsTruthful ==
  ~overtaken =>
    \A i \in DOMAIN file.history :
      LET e == file.history[i]
      IN  /\ e.status = "promoted" => outcome[e.native] = "promoted"
          /\ e.status = "closed-without-promotion" /\ inits = 0
               => outcome[e.native] = "closed-without-promotion"
=============================================================================
