--------------------------- MODULE CampaignProofs ---------------------------
(***************************************************************************)
(* Proved of the campaign for any number of requests served at once, of    *)
(* folds, seeds, preparations, rounds and kills: what holds as long as no  *)
(* request has acted on a read that was no longer true.                    *)
(*                                                                         *)
(* A request in the window between queue_mutation and its new entry is     *)
(* alone there, and the file calls no round active; otherwise the round    *)
(* the file calls active is the last one that was queued, and the          *)
(* contributions of its base root tell how it ended.  A round once settled *)
(* is never active again, so a request that waits to settle it finds the   *)
(* file as it read it or may not write.  A fold is consumed twice only by  *)
(* a queue_next that finds the current fold consumed and no round active;  *)
(* a kill in the window is what leads there, and each pays for one fold.   *)
(***************************************************************************)
EXTENDS Campaign, FiniteSetTheorems, TLAPS

-----------------------------------------------------------------------------
(* The invariant.                                                            *)
Labels == {"idle", "reconcile", "settle", "plan", "select", "replicate", "queue",
           "enter", "append", "reset", "count"}
Endings == {"promoted", "closed-without-promotion"}
Folds == (Seeds \cup {NoSeed}) \X Nat
Entries == [native : Nat, base : Nat, fold : Folds,
            status : {"status", "wanted", "queued"} \cup Endings]
CampaignFiles == [index : Nat, active : Nat \cup {NoRound}, history : Seq(Entries)]
NativeStates == [active : Nat \cup {NoRound}, root : Nat,
                 contributions : SUBSET [before : Nat, round : Nat]]
Holdouts == [fold : Folds, used : BOOLEAN]
Rows == [preparation : Nat, selection : Folds, replication : Folds]

TypeOK ==
  /\ bank \in Seeds \cup {NoSeed} /\ preparations \in Nat
  /\ inits \in Nat /\ crashes \in Nat
  /\ file \in CampaignFiles /\ native \in NativeStates
  /\ holdout \in [selection : Holdouts, replication : Holdouts]
  /\ consumed \in Seq(Rows)
  /\ outcome \in Seq(Endings \cup {"running"}) /\ Len(outcome) = Len(consumed)
  /\ pc \in [Threads -> Labels] /\ seen \in [Threads -> CampaignFiles]
  /\ observed \in [Threads -> NativeStates] /\ started \in [Threads -> Entries]

(* Only the last native round can be active; roots grow with contributions.  *)
NativeRounds ==
  /\ native.active # NoRound =>
       /\ native.active = Len(consumed) /\ Len(consumed) # 0
       /\ outcome[native.active] = "running"
  /\ \A c \in native.contributions : c.before < native.root

(* The round of entry e is over, and the native state n tells how it ended.  *)
Continues(n, e) == \E c \in n.contributions : c.before = e.base

Judged(n, e, out, k) ==
  /\ out[e.native] # "running"
  /\ Continues(n, e) => out[e.native] = "promoted"
  /\ ~Continues(n, e) /\ k = 0 => out[e.native] = "closed-without-promotion"

(* Entry e is of the last native round.                                      *)
Latest(e, n, out, k) ==
  /\ e.native = Len(out) /\ e.native # 0
  /\ IF n.active = e.native THEN n.root = e.base ELSE Judged(n, e, out, k)

(* The entries H, the round a the file calls active.                         *)
EntriesOK(H, out) ==
  /\ \A i \in DOMAIN H : H[i].native \in 1..Len(out)
  /\ \A i, j \in DOMAIN H : H[i].native = H[j].native => i = j

ActiveLatest(H, a, n, out, k) ==
  a # NoRound => /\ a <= Len(out)
                 /\ \A i \in DOMAIN H : H[i].native = a => Latest(H[i], n, out, k)

Entering(H, e, n, out, k) ==
  /\ Latest(e, n, out, k) /\ e.status = "queued"
  /\ \A i \in DOMAIN H : H[i].native # e.native

Settling(H, a, n, out, k) ==
  a # NoRound /\ \A i \in DOMAIN H : H[i].native = a => Judged(n, H[i], out, k)

Truthful(H, out, k) ==
  \A i \in DOMAIN H :
    /\ H[i].status = "promoted" => out[H[i].native] = "promoted"
    /\ H[i].status = "closed-without-promotion" /\ k = 0
         => out[H[i].native] = "closed-without-promotion"

(* A round was queued, and its entry is not yet in the file.                 *)
InWindow(t) == pc[t] \in {"enter", "append"}

HistoryOK ==
  /\ EntriesOK(file.history, outcome)
  /\ ActiveLatest(file.history, file.active, native, outcome, inits)
  /\ Truthful(file.history, outcome, inits)

WindowOK ==
  /\ \A t \in Threads : InWindow(t) =>
       file.active = NoRound /\ Entering(file.history, started[t], native, outcome, inits)
  /\ \A t, u \in Threads : InWindow(t) /\ InWindow(u) => t = u

(* Round a will not be the active one of the file again.                     *)
Superseded(a) ==
  /\ a <= Len(outcome) /\ file.active # a
  /\ \A t \in Threads : InWindow(t) => started[t].native # a

(* A request that read of an active round settles it from the file it read,  *)
(* or its read is out of date for good.                                      *)
ReadOK(t) ==
  /\ pc[t] = "settle" => seen[t].active # NoRound
  /\ pc[t] \in {"reconcile", "settle"} /\ seen[t].active # NoRound
       => seen[t] = file \/ Superseded(seen[t].active)
  /\ pc[t] = "settle" /\ seen[t] = file
       => Settling(file.history, file.active, observed[t], outcome, inits)

(* The folds spent, each with the preparation that handed it out: none is    *)
(* beyond the index, none of a preparation whose reset is still to come.     *)
Spent == {<<consumed[i].preparation, consumed[i].selection>> : i \in DOMAIN consumed}
Current == <<preparations, <<bank, file.index>>>>

FoldsBehind ==
  \A f \in Spent :
    /\ f[1] <= preparations
    /\ f[1] = preparations => f[2][2] <= file.index
    /\ (\E t \in Threads : pc[t] = "reset") => f[1] < preparations

(* A round is given the same fold of both banks.                             *)
Paired == \A i \in DOMAIN consumed : consumed[i].replication = consumed[i].selection

Repeats == Len(consumed) - Cardinality(Spent)

(* A kill has paid for every repeated fold, and for the one to come.         *)
RepeatsPaid ==
  /\ Repeats <= crashes
  /\ file.active = NoRound /\ (\A t \in Threads : ~InWindow(t)) /\ Current \in Spent
       => Repeats < crashes

Consistent ==
  /\ NativeRounds /\ HistoryOK /\ WindowOK /\ (\A t \in Threads : ReadOK(t))
  /\ Paired /\ FoldsBehind /\ RepeatsPaid

CampaignInv == TypeOK /\ (~overtaken => Consistent)

-----------------------------------------------------------------------------
(* Types.                                                                    *)

LEMMA SettledType ==
  ASSUME NEW f \in CampaignFiles, NEW n
  PROVE  Settled(f, n) \in CampaignFiles
<1> DEFINE H == f.history
           hits == {i \in DOMAIN H : H[i].native = f.active}
           last == Last(hits)
           ends == IF \E c \in n.contributions : c.before = H[last].base
                     THEN "promoted" ELSE "closed-without-promotion"
           G == IF hits # {} /\ H[last].status = "queued"
                  THEN [H EXCEPT ![last].status = ends] ELSE H
           g == [f EXCEPT !.active = NoRound, !.index = @ + 1, !.history = G]
<1>1. Settled(f, n) = g
  BY DEF Settled
<1>2. H \in Seq(Entries) /\ f.index \in Nat /\ DOMAIN H = 1..Len(H) /\ Len(H) \in Nat
  BY DEF CampaignFiles
<1>3. ends \in Endings
  BY DEF Endings
<1> HIDE DEF last, ends, hits
<1>4. G \in Seq(Entries)
  <2>1. CASE last \in DOMAIN H
    <3> DEFINE r == H[last]
    <3>1. r \in Entries
      BY <1>2, <2>1
    <3> HIDE DEF r
    <3>2. [r EXCEPT !.status = ends] \in Entries
      BY <1>3, <3>1 DEF Entries
    <3>3. [H[last] EXCEPT !.status = ends] \in Entries
      BY <3>2 DEF r
    <3>4. [H EXCEPT ![last].status = ends] = [H EXCEPT ![last] = [H[last] EXCEPT !.status = ends]]
      BY <1>2, <2>1
    <3> QED
      BY <1>2, <2>1, <3>3, <3>4
  <2>2. CASE last \notin DOMAIN H
    <3>1. [H EXCEPT ![last].status = ends] = H
      BY <1>2, <2>2
    <3> QED
      BY <1>2, <3>1
  <2> QED
    BY <2>1, <2>2
<1> HIDE DEF G
<1>5. f.index + 1 \in Nat /\ NoRound \in Nat \cup {NoRound}
  BY <1>2
<1>6. g \in CampaignFiles
  BY <1>4, <1>5 DEF CampaignFiles
<1> QED
  BY <1>1, <1>6

LEMMA EntryType ==
  ASSUME NEW i \in Nat, NEW b \in Nat, NEW f \in Folds
  PROVE  Entry(i, b, f) \in Entries
BY DEF Entry, Entries

LEMMA FoldType ==
  ASSUME TypeOK, NEW t \in Threads
  PROVE  Fold(t) \in Folds /\ NoFold \in Folds
BY DEF TypeOK, Fold, Folds, NoFold, CampaignFiles

LEMMA HoldoutType ==
  ASSUME NEW f \in Folds
  PROVE  Unused(f) \in Holdouts /\ Used(f) \in Holdouts
BY DEF Unused, Used, Holdouts

LEMMA FreshType == Fresh \in CampaignFiles
BY DEF Fresh, CampaignFiles

LEMMA TypeInit ==
  ASSUME Init
  PROVE  TypeOK
<1>1. NoFold \in Folds /\ Fresh \in CampaignFiles
  BY FreshType DEF NoFold, Folds
<1>2. Entry(0, 0, NoFold) \in Entries /\ Used(NoFold) \in Holdouts
  BY <1>1, EntryType, HoldoutType
<1>3. native \in NativeStates
  BY DEF Init, NativeStates
<1>4. holdout \in [selection : Holdouts, replication : Holdouts]
  BY <1>2 DEF Init
<1>5. consumed \in Seq(Rows) /\ outcome \in Seq(Endings \cup {"running"}) /\ Len(outcome) = Len(consumed)
  BY DEF Init
<1> QED
  BY <1>1, <1>2, <1>3, <1>4, <1>5 DEF Init, TypeOK, Labels

(* A request goes on, and may read the file or the native state.             *)
Labelled(t) == pc' \in [Threads -> Labels] /\ \A u \in Threads \ {t} : pc'[u] = pc[u]

LEMMA LabelStep ==
  ASSUME TypeOK, NEW t \in Threads, NEW label \in Labels, Goto(t, label)
  PROVE  Labelled(t) /\ pc'[t] = label
BY DEF TypeOK, Goto, Labelled

LEMMA RequestTypes ==
  ASSUME TypeOK, NEW t \in Threads, Step(t)
  PROVE  pc' \in [Threads -> Labels] /\ seen' \in [Threads -> CampaignFiles]
         /\ observed' \in [Threads -> NativeStates]
<1>1. /\ pc \in [Threads -> Labels] /\ seen \in [Threads -> CampaignFiles]
      /\ observed \in [Threads -> NativeStates] /\ native \in NativeStates /\ file \in CampaignFiles
  BY DEF TypeOK
<1>2. \E label \in Labels : Goto(t, label)
  <2>1. AfterReconcile(t) \in {"plan", "idle"}
    BY DEF AfterReconcile
  <2> QED
    BY <2>1 DEF Step, Start, Judge, Settle, Plan, InstallSelection, InstallReplication,
         QueueRound, EnterHistory, AppendHistory, Prepare, ResetCampaign, ReadForTest, CountTest,
         Fail, Labels
<1>3. pc' \in [Threads -> Labels]
  BY <1>2, LabelStep DEF Labelled
<1>4. observed' = observed \/ observed' = [observed EXCEPT ![t] = native]
  BY DEF Step, Start, Judge, Settle, Plan, InstallSelection, InstallReplication,
         QueueRound, EnterHistory, AppendHistory, Prepare, ResetCampaign, ReadForTest, CountTest,
         rounds
<1>5. seen' = seen \/ seen' = [seen EXCEPT ![t] = file]
      \/ seen' = [seen EXCEPT ![t] = Settled(seen[t], observed[t])]
  BY DEF Step, Start, Judge, Settle, Plan, InstallSelection, InstallReplication,
         QueueRound, EnterHistory, AppendHistory, Prepare, ResetCampaign, ReadForTest, CountTest
<1>6. Settled(seen[t], observed[t]) \in CampaignFiles
  BY <1>1, SettledType
<1> QED
  BY <1>1, <1>3, <1>4, <1>5, <1>6

LEMMA FileTypes ==
  ASSUME TypeOK, NEW t \in Threads, Step(t)
  PROVE  file' \in CampaignFiles /\ bank' \in Seeds \cup {NoSeed} /\ preparations' \in Nat
         /\ inits' = inits /\ crashes' = crashes
<1>1. /\ seen[t] \in CampaignFiles /\ file \in CampaignFiles /\ started[t] \in Entries
      /\ bank \in Seeds \cup {NoSeed} /\ preparations \in Nat
  BY DEF TypeOK
<1>2. inits' = inits /\ crashes' = crashes
  BY DEF Step, Start, Judge, Settle, Plan, InstallSelection, InstallReplication, bounded,
         QueueRound, EnterHistory, AppendHistory, Prepare, ResetCampaign, ReadForTest, CountTest
<1>3. dataset' = dataset \/ Prepare(t)
  BY DEF Step, Start, Judge, Settle, Plan, InstallSelection, InstallReplication,
         QueueRound, EnterHistory, AppendHistory, ResetCampaign, ReadForTest, CountTest
<1>4. bank' \in Seeds \cup {NoSeed} /\ preparations' \in Nat
  BY <1>1, <1>3 DEF dataset, Prepare
<1>5. \/ file' = file \/ file' = seen[t] \/ file' = Fresh
      \/ file' = Settled(seen[t], observed[t])
      \/ file' = [seen[t] EXCEPT !.active = started[t].native, !.history = Append(@, started[t])]
  BY DEF Step, Start, Judge, Settle, Plan, InstallSelection, InstallReplication,
         QueueRound, EnterHistory, AppendHistory, Prepare, ResetCampaign, ReadForTest, CountTest
<1>6. [seen[t] EXCEPT !.active = started[t].native, !.history = Append(@, started[t])] \in CampaignFiles
  <2> DEFINE f == seen[t]
             e == started[t]
  <2>1. f \in CampaignFiles /\ e \in Entries
    BY <1>1
  <2> HIDE DEF f, e
  <2>2. Append(f.history, e) \in Seq(Entries) /\ e.native \in Nat
    BY <2>1 DEF CampaignFiles, Entries
  <2>3. [f EXCEPT !.active = e.native, !.history = Append(@, e)] \in CampaignFiles
    BY <2>1, <2>2 DEF CampaignFiles
  <2> QED
    BY <2>3 DEF f, e
<1> QED
  BY <1>1, <1>2, <1>4, <1>5, <1>6, SettledType, FreshType

(* What queue_mutation adds.                                                 *)
Row == [preparation |-> preparations,
        selection |-> holdout.selection.fold, replication |-> holdout.replication.fold]

LEMMA QueueTypes ==
  ASSUME TypeOK, NEW t \in Threads, native.active = NoRound,
         holdout' = [selection |-> Used(holdout.selection.fold),
                     replication |-> Used(holdout.replication.fold)],
         native' = [native EXCEPT !.active = Len(consumed) + 1],
         consumed' = Append(consumed, Row), outcome' = Append(outcome, "running"),
         started' = [started EXCEPT ![t] = Entry(Len(consumed) + 1, native.root, @.fold)]
  PROVE  /\ holdout' \in [selection : Holdouts, replication : Holdouts]
         /\ native' \in NativeStates /\ started' \in [Threads -> Entries]
         /\ consumed' \in Seq(Rows) /\ outcome' \in Seq(Endings \cup {"running"})
         /\ Len(outcome') = Len(consumed')
<1>1. Len(consumed) \in Nat /\ Len(consumed) + 1 \in Nat /\ native.root \in Nat
  BY DEF TypeOK, NativeStates
<1>2. holdout.selection \in Holdouts /\ holdout.replication \in Holdouts
  BY DEF TypeOK
<1>3. holdout.selection.fold \in Folds /\ holdout.replication.fold \in Folds
  BY <1>2 DEF Holdouts
<1>4. holdout' \in [selection : Holdouts, replication : Holdouts]
  BY <1>3, HoldoutType
<1>5. native' \in NativeStates
  BY <1>1 DEF TypeOK, NativeStates
<1>6. started[t].fold \in Folds
  BY DEF TypeOK, Entries
<1>7. Entry(Len(consumed) + 1, native.root, started[t].fold) \in Entries
  BY <1>1, <1>6, EntryType
<1>8. started' \in [Threads -> Entries]
  BY <1>7 DEF TypeOK
<1>9. Row \in Rows
  BY <1>3 DEF Row, Rows, TypeOK
<1>10. consumed' \in Seq(Rows) /\ Len(consumed') = Len(consumed) + 1
  BY <1>9 DEF TypeOK
<1>11. outcome' \in Seq(Endings \cup {"running"}) /\ Len(outcome') = Len(outcome) + 1
  BY DEF TypeOK
<1> QED
  BY <1>4, <1>5, <1>8, <1>10, <1>11 DEF TypeOK

LEMMA StepTypes ==
  ASSUME TypeOK, NEW t \in Threads, Step(t)
  PROVE  TypeOK'
<1> DEFINE Rest == /\ holdout' \in [selection : Holdouts, replication : Holdouts]
                   /\ native' \in NativeStates /\ started' \in [Threads -> Entries]
                   /\ consumed' \in Seq(Rows) /\ outcome' \in Seq(Endings \cup {"running"})
                   /\ Len(outcome') = Len(consumed')
           Native == native' = native /\ consumed' = consumed /\ outcome' = outcome
<1>1. /\ holdout \in [selection : Holdouts, replication : Holdouts] /\ native \in NativeStates
      /\ started \in [Threads -> Entries] /\ consumed \in Seq(Rows)
      /\ outcome \in Seq(Endings \cup {"running"}) /\ Len(outcome) = Len(consumed)
  BY DEF TypeOK
<1>2. ASSUME rounds' = rounds, started' = started PROVE Rest
  BY <1>1, <1>2 DEF rounds
<1>3. ASSUME NEW goal \in {"status", "wanted"}, Start(t, goal) PROVE Rest
  <2>1. [started[t] EXCEPT !.status = goal] \in Entries
    BY <1>1 DEF Entries
  <2>2. rounds' = rounds /\ started' = [started EXCEPT ![t].status = goal]
    BY <1>3 DEF Start
  <2> QED
    BY <1>1, <2>1, <2>2 DEF rounds
<1>4. ASSUME InstallSelection(t) PROVE Rest
  <2>1. /\ Native /\ started' = [started EXCEPT ![t].fold = Fold(t)]
        /\ holdout' = holdout \/ holdout' = [holdout EXCEPT !.selection = Unused(Fold(t))]
    BY <1>4 DEF InstallSelection
  <2>2. Fold(t) \in Folds /\ Unused(Fold(t)) \in Holdouts
    BY FoldType, HoldoutType
  <2>3. [started[t] EXCEPT !.fold = Fold(t)] \in Entries
    BY <1>1, <2>2 DEF Entries
  <2>4. started' \in [Threads -> Entries]
    BY <1>1, <2>1, <2>3
  <2>5. holdout' \in [selection : Holdouts, replication : Holdouts]
    BY <1>1, <2>1, <2>2
  <2> QED
    BY <1>1, <2>1, <2>4, <2>5
<1>5. ASSUME InstallReplication(t) PROVE Rest
  <2>1. /\ Native /\ started' = started
        /\ holdout' = holdout \/ holdout' = [holdout EXCEPT !.replication = Unused(started[t].fold)]
    BY <1>5 DEF InstallReplication
  <2>2. started[t].fold \in Folds
    BY <1>1 DEF Entries
  <2>3. Unused(started[t].fold) \in Holdouts
    BY <2>2, HoldoutType
  <2>4. holdout' \in [selection : Holdouts, replication : Holdouts]
    BY <1>1, <2>1, <2>3
  <2> QED
    BY <1>1, <2>1, <2>4
<1>6. ASSUME QueueRound(t) PROVE Rest
  <2>1. CASE rounds' = rounds /\ started' = started
    BY <1>2, <2>1
  <2>2. CASE ~(rounds' = rounds /\ started' = started)
    BY <1>6, <2>2, QueueTypes DEF QueueRound, Row
  <2> QED
    BY <2>1, <2>2
<1>7. Rest
  <2>1. \/ \E goal \in {"status", "wanted"} : Start(t, goal)
        \/ InstallSelection(t) \/ InstallReplication(t) \/ QueueRound(t)
        \/ rounds' = rounds /\ started' = started
    BY DEF Step, Judge, Settle, Plan, EnterHistory, AppendHistory, Prepare, ResetCampaign,
           ReadForTest, CountTest, rounds
  <2> QED
    BY <1>2, <1>3, <1>4, <1>5, <1>6, <2>1
<1> HIDE DEF Rest
<1>8. inits' \in Nat /\ crashes' \in Nat
  BY FileTypes DEF TypeOK
<1> QED
  BY <1>7, <1>8, RequestTypes, FileTypes DEF TypeOK, Rest

LEMMA OutcomeType ==
  ASSUME NEW S, NEW s \in Seq(S), NEW i, NEW e \in S
  PROVE  [s EXCEPT ![i] = e] \in Seq(S) /\ Len([s EXCEPT ![i] = e]) = Len(s)
<1> DEFINE r == [s EXCEPT ![i] = e]
<1>1. s \in [1..Len(s) -> S] /\ Len(s) \in Nat /\ DOMAIN s = 1..Len(s)
  OBVIOUS
<1>2. r \in [1..Len(s) -> S] /\ DOMAIN r = 1..Len(s)
  BY <1>1
<1> HIDE DEF r
<1>3. r \in Seq(S) /\ Len(r) = Len(s)
  BY <1>1, <1>2
<1> QED
  BY <1>3 DEF r

LEMMA TypeStep ==
  ASSUME TypeOK, [Next]_vars
  PROVE  TypeOK'
<1>1. CASE NativePromotes
  <2>1. /\ native.active \in Nat /\ native.root \in Nat
        /\ native.contributions \subseteq [before : Nat, round : Nat]
    BY <1>1 DEF NativePromotes, TypeOK, NativeStates
  <2>2. [before |-> native.root, round |-> native.active] \in [before : Nat, round : Nat]
    BY <2>1
  <2>3. native' \in NativeStates
    BY <1>1, <2>1, <2>2 DEF NativePromotes, NativeStates
  <2>4. outcome' \in Seq(Endings \cup {"running"}) /\ Len(outcome') = Len(outcome)
    <3> DEFINE S == Endings \cup {"running"}
    <3>1. "promoted" \in S /\ outcome \in Seq(S)
      BY DEF TypeOK, Endings
    <3>2. outcome' = [outcome EXCEPT ![native.active] = "promoted"]
      BY <1>1 DEF NativePromotes
    <3> HIDE DEF S
    <3>3. outcome' \in Seq(S) /\ Len(outcome') = Len(outcome)
      BY <3>1, <3>2, OutcomeType
    <3> QED
      BY <3>3 DEF S
  <2> QED
    BY <1>1, <2>3, <2>4 DEF NativePromotes, TypeOK, dataset, threadState, bounded
<1>2. CASE NativeCloses
  <2>1. native' \in NativeStates
    BY <1>2 DEF NativeCloses, TypeOK, NativeStates
  <2>2. outcome' \in Seq(Endings \cup {"running"}) /\ Len(outcome') = Len(outcome)
    <3> DEFINE S == Endings \cup {"running"}
    <3>1. "closed-without-promotion" \in S /\ outcome \in Seq(S)
      BY DEF TypeOK, Endings
    <3>2. outcome' = [outcome EXCEPT ![native.active] = "closed-without-promotion"]
      BY <1>2 DEF NativeCloses
    <3> HIDE DEF S
    <3>3. outcome' \in Seq(S) /\ Len(outcome') = Len(outcome)
      BY <3>1, <3>2, OutcomeType
    <3> QED
      BY <3>3 DEF S
  <2> QED
    BY <1>2, <2>1, <2>2 DEF NativeCloses, TypeOK, dataset, threadState, bounded
<1>3. CASE InitializeModel
  <2>1. NoFold \in Folds
    BY DEF NoFold, Folds
  <2>2. holdout' \in [selection : Holdouts, replication : Holdouts]
    BY <1>3, <2>1, HoldoutType DEF InitializeModel
  <2>3. native' \in NativeStates
    BY <1>3 DEF InitializeModel, NativeStates
  <2> QED
    BY <1>3, <2>2, <2>3 DEF InitializeModel, TypeOK, dataset, threadState
<1>4. CASE Crash
  BY <1>4 DEF Crash, TypeOK, dataset, rounds, Labels
<1>5. CASE UNCHANGED vars
  BY <1>5 DEF vars, TypeOK, dataset, rounds, threadState, bounded
<1> QED
  BY <1>1, <1>2, <1>3, <1>4, <1>5, StepTypes DEF Next

-----------------------------------------------------------------------------
(* The steps of a request that leave the file and the native rounds alone.   *)

Still == UNCHANGED <<bank, preparations, file, native, consumed, outcome, inits, crashes>>

Others(t) == \A u \in Threads \ {t} :
               /\ pc'[u] = pc[u] /\ seen'[u] = seen[u]
               /\ observed'[u] = observed[u] /\ started'[u] = started[u]

LEMMA QuietStep ==
  ASSUME Consistent, NEW t \in Threads, Still, Others(t),
         InWindow(t)' <=> InWindow(t),
         InWindow(t) => started'[t] = started[t],
         pc'[t] = "reset" => pc[t] = "reset",
         ReadOK(t)'
  PROVE  Consistent'
<1>1. /\ bank' = bank /\ preparations' = preparations /\ file' = file /\ native' = native
      /\ consumed' = consumed /\ outcome' = outcome /\ inits' = inits /\ crashes' = crashes
  BY DEF Still
<1>2. \A u \in Threads : /\ InWindow(u)' <=> InWindow(u)
                         /\ InWindow(u) => started'[u] = started[u]
                         /\ pc'[u] = "reset" => pc[u] = "reset"
  BY DEF Others, InWindow
<1>3. NativeRounds' /\ HistoryOK' /\ Paired'
  BY <1>1 DEF Consistent, NativeRounds, HistoryOK, Paired
<1>4. WindowOK'
  BY <1>1, <1>2 DEF Consistent, WindowOK
<1>5. \A a : Superseded(a) => Superseded(a)'
  BY <1>1, <1>2 DEF Superseded
<1>6. ASSUME NEW u \in Threads, u # t PROVE ReadOK(u)'
  <2>1. pc'[u] = pc[u] /\ seen'[u] = seen[u] /\ observed'[u] = observed[u]
    BY <1>6 DEF Others
  <2>2. ReadOK(u)
    BY DEF Consistent
  <2> QED
    BY <1>1, <1>5, <2>1, <2>2 DEF ReadOK
<1>7. Spent' = Spent /\ Repeats' = Repeats /\ Current' = Current
  BY <1>1 DEF Spent, Repeats, Current
<1>8. FoldsBehind'
  BY <1>1, <1>2, <1>7 DEF Consistent, FoldsBehind
<1>9. RepeatsPaid'
  BY <1>1, <1>2, <1>7 DEF Consistent, RepeatsPaid
<1> QED
  BY <1>3, <1>4, <1>6, <1>8, <1>9 DEF Consistent

(* A request that comes to a label with nothing to settle or to enter.       *)
LEMMA FreeStep ==
  ASSUME TypeOK, Consistent, NEW t \in Threads, Still, NEW label \in Labels, Goto(t, label),
         label \in {"idle", "plan", "select", "replicate", "queue", "count"},
         pc[t] \notin {"enter", "append"},
         \A u \in Threads \ {t} : /\ seen'[u] = seen[u] /\ observed'[u] = observed[u]
                                  /\ started'[u] = started[u]
  PROVE  Consistent'
<1>1. pc'[t] = label /\ \A u \in Threads \ {t} : pc'[u] = pc[u]
  BY LabelStep DEF Labelled
<1>2. Others(t)
  BY <1>1 DEF Others
<1>3. ~InWindow(t) /\ ~InWindow(t)' /\ pc'[t] # "reset" /\ ReadOK(t)'
  BY <1>1 DEF InWindow, ReadOK
<1> QED
  BY <1>2, <1>3, QuietStep

LEMMA StartStep ==
  ASSUME TypeOK, Consistent, NEW t \in Threads, NEW goal, Start(t, goal)
  PROVE  Consistent'
<1>1. /\ pc[t] = "idle" /\ Goto(t, "reconcile") /\ Still
      /\ seen' = [seen EXCEPT ![t] = file] /\ started' = [started EXCEPT ![t].status = goal]
      /\ observed' = observed
  BY DEF Start, Still, dataset, rounds, bounded
<1>2. pc'[t] = "reconcile" /\ \A u \in Threads \ {t} : pc'[u] = pc[u]
  BY <1>1, LabelStep DEF Labelled, Labels
<1>3. seen'[t] = file /\ file' = file
  BY <1>1 DEF TypeOK, Still
<1>4. Others(t)
  BY <1>1, <1>2 DEF Others, TypeOK
<1>5. ReadOK(t)'
  BY <1>2, <1>3 DEF ReadOK
<1> QED
  BY <1>1, <1>2, <1>4, <1>5, QuietStep DEF InWindow

LEMMA JudgeStep ==
  ASSUME TypeOK, Consistent, NEW t \in Threads, Judge(t)
  PROVE  Consistent'
<1>1. /\ pc[t] = "reconcile" /\ Still
      /\ observed' = [observed EXCEPT ![t] = native]
      /\ seen' = seen /\ started' = started
      /\ \/ Goto(t, AfterReconcile(t))
         \/ /\ Goto(t, "settle")
            /\ seen[t].active # NoRound /\ seen[t].active # native.active
  BY DEF Judge, Still, dataset, rounds, bounded
<1>2. \A u \in Threads \ {t} : /\ seen'[u] = seen[u] /\ observed'[u] = observed[u]
                               /\ started'[u] = started[u]
  BY <1>1 DEF TypeOK
<1>3. CASE Goto(t, AfterReconcile(t))
  BY <1>1, <1>2, <1>3, FreeStep DEF AfterReconcile, Labels
<1>4. CASE /\ Goto(t, "settle")
           /\ seen[t].active # NoRound /\ seen[t].active # native.active
  <2>1. pc'[t] = "settle" /\ \A u \in Threads \ {t} : pc'[u] = pc[u]
    BY <1>4, LabelStep DEF Labelled, Labels
  <2>2. observed'[t] = native
    BY <1>1 DEF TypeOK
  <2>3. Others(t)
    BY <1>2, <2>1 DEF Others
  <2>4. \A u \in Threads : (InWindow(u)' <=> InWindow(u)) /\ started'[u] = started[u]
    BY <1>1, <2>1 DEF InWindow
  <2>5. Superseded(seen[t].active) => Superseded(seen[t].active)'
    BY <1>1, <2>4 DEF Superseded, Still
  <2>6. seen[t] = file => Settling(file.history, file.active, native, outcome, inits)
    BY <1>4 DEF Consistent, HistoryOK, ActiveLatest, Latest, Settling
  <2>7. seen[t] = file \/ Superseded(seen[t].active)
    BY <1>1, <1>4 DEF Consistent, ReadOK
  <2>8. ReadOK(t)'
    BY <1>1, <1>4, <2>1, <2>2, <2>5, <2>6, <2>7 DEF ReadOK, Still
  <2> QED
    BY <1>1, <2>1, <2>3, <2>4, <2>8, QuietStep
<1> QED
  BY <1>1, <1>3, <1>4

LEMMA PlanStep ==
  ASSUME TypeOK, Consistent, NEW t \in Threads, Plan(t)
  PROVE  Consistent'
<1>1. /\ pc[t] = "plan" /\ Still /\ started' = started /\ observed' = observed
      /\ seen' = seen \/ seen' = [seen EXCEPT ![t] = file]
      /\ Goto(t, "select") \/ Goto(t, "idle")
  BY DEF Plan, Fail, Still, dataset, rounds, bounded
<1>2. \A u \in Threads \ {t} : /\ seen'[u] = seen[u] /\ observed'[u] = observed[u]
                               /\ started'[u] = started[u]
  BY <1>1 DEF TypeOK
<1> QED
  BY <1>1, <1>2, FreeStep DEF Labels

LEMMA InstallStep ==
  ASSUME TypeOK, Consistent, NEW t \in Threads, InstallSelection(t) \/ InstallReplication(t)
  PROVE  Consistent'
<1>1. /\ pc[t] \in {"select", "replicate"} /\ Still /\ seen' = seen /\ observed' = observed
      /\ started' = started \/ started' = [started EXCEPT ![t].fold = Fold(t)]
      /\ Goto(t, "replicate") \/ Goto(t, "queue") \/ Goto(t, "idle")
  BY DEF InstallSelection, InstallReplication, Fail, Still, dataset, rounds, bounded
<1>2. \A u \in Threads \ {t} : /\ seen'[u] = seen[u] /\ observed'[u] = observed[u]
                               /\ started'[u] = started[u]
  BY <1>1 DEF TypeOK
<1> QED
  BY <1>1, <1>2, FreeStep DEF Labels

(* The file is read once more, for the new entry or for the test count.      *)
LEMMA ReadStep ==
  ASSUME TypeOK, Consistent, NEW t \in Threads, EnterHistory(t) \/ ReadForTest(t)
  PROVE  Consistent'
<1>1. /\ Still /\ started' = started /\ observed' = observed
      /\ seen' = [seen EXCEPT ![t] = file]
      /\ \/ pc[t] = "enter" /\ Goto(t, "append")
         \/ pc[t] = "idle" /\ Goto(t, "count")
  BY DEF EnterHistory, ReadForTest, Still, dataset, rounds, bounded
<1>2. \A u \in Threads \ {t} : /\ seen'[u] = seen[u] /\ observed'[u] = observed[u]
                               /\ started'[u] = started[u]
  BY <1>1 DEF TypeOK
<1>3. CASE pc[t] = "idle" /\ Goto(t, "count")
  BY <1>1, <1>2, <1>3, FreeStep DEF Labels
<1>4. CASE pc[t] = "enter" /\ Goto(t, "append")
  <2>1. pc'[t] = "append" /\ \A u \in Threads \ {t} : pc'[u] = pc[u]
    BY <1>4, LabelStep DEF Labelled, Labels
  <2>2. Others(t)
    BY <1>2, <2>1 DEF Others
  <2>3. InWindow(t) /\ InWindow(t)' /\ ReadOK(t)'
    BY <1>4, <2>1 DEF InWindow, ReadOK
  <2> QED
    BY <1>1, <2>1, <2>2, <2>3, QuietStep
<1> QED
  BY <1>1, <1>3, <1>4

(* evaluate_test writes back what the file still is.                         *)
LEMMA CountTestStep ==
  ASSUME TypeOK, Consistent, NEW t \in Threads, CountTest(t), ~overtaken'
  PROVE  Consistent'
<1>1. pc[t] = "count" /\ Goto(t, "idle") /\ file' = seen[t] /\ seen[t] = file
  BY DEF CountTest, Overtakes
<1>2. Still /\ seen' = seen /\ observed' = observed /\ started' = started
  BY <1>1 DEF CountTest, Still, dataset, rounds, bounded
<1> QED
  BY <1>1, <1>2, FreeStep DEF Labels

-----------------------------------------------------------------------------
(* The steps that write the file.                                            *)

(* A read of an active round outlives a step that writes the file only as an *)
(* out-of-date one.                                                          *)
LEMMA OtherReads ==
  ASSUME TypeOK, Consistent, NEW u \in Threads, pc'[u] = pc[u], seen'[u] = seen[u],
         \A a \in Nat : Superseded(a) \/ (a = file.active /\ a <= Len(outcome))
                          => Superseded(a)'
  PROVE  ReadOK(u)'
<1>1. ReadOK(u) /\ seen[u] \in CampaignFiles
  BY DEF TypeOK, Consistent
<1>2. CASE pc[u] \in {"reconcile", "settle"} /\ seen[u].active # NoRound
  <2>1. seen[u].active \in Nat
    BY <1>1, <1>2 DEF CampaignFiles
  <2>2. seen[u] = file => file.active <= Len(outcome)
    BY <1>2 DEF Consistent, HistoryOK, ActiveLatest
  <2>3. Superseded(seen[u].active)'
    BY <1>1, <1>2, <2>1, <2>2 DEF ReadOK
  <2>4. seen'[u] # file'
    BY <2>3 DEF Superseded
  <2> QED
    BY <1>1, <1>2, <2>3, <2>4 DEF ReadOK
<1>3. CASE ~(pc[u] \in {"reconcile", "settle"} /\ seen[u].active # NoRound)
  BY <1>1, <1>3 DEF ReadOK
<1> QED
  BY <1>2, <1>3

LEMMA LastOfOne ==
  ASSUME NEW i \in Nat
  PROVE  Last({i}) = i
BY DEF Last

(* The entry of the round that is over is closed.                            *)
LEMMA SettledFile ==
  ASSUME NEW f \in CampaignFiles, f.active # NoRound,
         NEW n, NEW out, NEW k,
         EntriesOK(f.history, out), Settling(f.history, f.active, n, out, k)
  PROVE  /\ Settled(f, n).index = f.index + 1 /\ Settled(f, n).active = NoRound
         /\ DOMAIN Settled(f, n).history = DOMAIN f.history
         /\ \A i \in DOMAIN f.history :
              LET e == Settled(f, n).history[i]
              IN  /\ e.native = f.history[i].native
                  /\ \/ e = f.history[i]
                     \/ e.status = "promoted" /\ out[e.native] = "promoted"
                     \/ /\ e.status = "closed-without-promotion"
                        /\ k = 0 => out[e.native] = "closed-without-promotion"
<1> DEFINE H == f.history
           hits == {i \in DOMAIN H : H[i].native = f.active}
           last == Last(hits)
           ends == IF \E c \in n.contributions : c.before = H[last].base
                     THEN "promoted" ELSE "closed-without-promotion"
           G == IF hits # {} /\ H[last].status = "queued"
                  THEN [H EXCEPT ![last].status = ends] ELSE H
           g == [f EXCEPT !.active = NoRound, !.index = @ + 1, !.history = G]
<1>1. Settled(f, n) = g
  BY DEF Settled
<1>2. H \in Seq(Entries) /\ f.index \in Nat /\ DOMAIN H = 1..Len(H) /\ Len(H) \in Nat
  BY DEF CampaignFiles
<1>3. hits # {} => last \in DOMAIN H /\ H[last].native = f.active
  <2> SUFFICES ASSUME hits # {} PROVE last \in DOMAIN H /\ H[last].native = f.active
    OBVIOUS
  <2>1. PICK i \in DOMAIN H : H[i].native = f.active
    OBVIOUS
  <2>2. hits = {i}
    BY <2>1 DEF EntriesOK
  <2>3. i \in Nat
    BY <1>2, <2>1
  <2>4. last = i
    BY <2>2, <2>3, LastOfOne
  <2> QED
    BY <2>1, <2>4
<1>4. ends \in Endings
  BY DEF Endings
<1>5. hits # {} => /\ ends = "promoted" => out[H[last].native] = "promoted"
                   /\ ends = "closed-without-promotion" /\ k = 0
                        => out[H[last].native] = "closed-without-promotion"
  BY <1>3 DEF Settling, Judged, Continues
<1> HIDE DEF last, ends, hits
<1>6. /\ DOMAIN G = DOMAIN H
      /\ \A i \in DOMAIN H :
           \/ G[i] = H[i]
           \/ G[i] = [H[i] EXCEPT !.status = ends] /\ i = last /\ hits # {}
  BY <1>2, <1>3
<1> HIDE DEF G
<1>7. g.index = f.index + 1 /\ g.active = NoRound /\ g.history = G
  BY DEF CampaignFiles
<1> HIDE DEF g
<1>8. ASSUME NEW i \in DOMAIN H
      PROVE  /\ G[i].native = H[i].native
             /\ \/ G[i] = H[i]
                \/ G[i].status = "promoted" /\ out[G[i].native] = "promoted"
                \/ /\ G[i].status = "closed-without-promotion"
                   /\ k = 0 => out[G[i].native] = "closed-without-promotion"
  <2>1. H[i] \in Entries
    BY <1>2
  <2>2. CASE G[i] = H[i]
    BY <2>2
  <2>3. CASE G[i] = [H[i] EXCEPT !.status = ends] /\ i = last /\ hits # {}
    <3>1. G[i].native = H[i].native /\ G[i].status = ends
      BY <2>1, <2>3 DEF Entries
    <3> QED
      BY <1>4, <1>5, <2>3, <3>1 DEF Endings
  <2> QED
    BY <1>6, <2>2, <2>3
<1> QED
  BY <1>1, <1>6, <1>7, <1>8

LEMMA SpentFolds ==
  ASSUME TypeOK
  PROVE  Spent \subseteq Nat \X Folds /\ IsFiniteSet(Spent)
<1> DEFINE f == [i \in DOMAIN consumed |-> <<consumed[i].preparation, consumed[i].selection>>]
<1>1. DOMAIN consumed = 1..Len(consumed) /\ Len(consumed) \in Nat
      /\ \A i \in DOMAIN consumed : consumed[i] \in Rows
  <2> HIDE DEF Rows
  <2> QED
    BY DEF TypeOK
<1>2. \A r \in Rows : <<r.preparation, r.selection>> \in Nat \X Folds
  BY DEF Rows
<1>3. \A i \in DOMAIN consumed : <<consumed[i].preparation, consumed[i].selection>> \in Nat \X Folds
  BY <1>1, <1>2, Zenon
<1>4. Spent \subseteq Nat \X Folds
  BY <1>3, Zenon DEF Spent
<1>5. f \in Surjection(DOMAIN consumed, Spent)
  BY DEF Surjection, Spent
<1>6. IsFiniteSet(DOMAIN consumed)
  BY <1>1, FS_Interval
<1>7. IsFiniteSet(Spent)
  BY <1>5, <1>6, FS_Surjection
<1> QED
  BY <1>4, <1>7

LEMMA SettleStep ==
  ASSUME TypeOK, Consistent, NEW t \in Threads, Settle(t), ~overtaken'
  PROVE  Consistent'
<1> DEFINE label == AfterReconcile(t)
           g == Settled(file, observed[t])
<1>1. NativeRounds /\ HistoryOK /\ WindowOK /\ ReadOK(t) /\ Paired /\ FoldsBehind /\ RepeatsPaid
  BY DEF Consistent
<1>2. pc[t] = "settle" /\ seen[t] = file
  BY DEF Settle, Overtakes
<1>3. /\ file' = g /\ Goto(t, label) /\ seen' = [seen EXCEPT ![t] = g]
      /\ started' = started /\ observed' = observed
      /\ bank' = bank /\ preparations' = preparations /\ native' = native
      /\ consumed' = consumed /\ outcome' = outcome /\ inits' = inits /\ crashes' = crashes
  BY <1>2 DEF Settle, dataset, rounds, bounded
<1>4. label \in {"plan", "idle"}
  BY DEF AfterReconcile
<1>5. /\ EntriesOK(file.history, outcome) /\ file.active # NoRound
      /\ Settling(file.history, file.active, observed[t], outcome, inits)
  BY <1>1, <1>2 DEF HistoryOK, ReadOK
<1>6. file \in CampaignFiles /\ file.index \in Nat
  BY DEF TypeOK, CampaignFiles
<1>7. /\ g.index = file.index + 1 /\ g.active = NoRound
      /\ DOMAIN g.history = DOMAIN file.history
      /\ \A i \in DOMAIN file.history :
           LET e == g.history[i]
           IN  /\ e.native = file.history[i].native
               /\ \/ e = file.history[i]
                  \/ e.status = "promoted" /\ outcome[e.native] = "promoted"
                  \/ /\ e.status = "closed-without-promotion"
                     /\ inits = 0 => outcome[e.native] = "closed-without-promotion"
  BY <1>5, <1>6, SettledFile
<1> HIDE DEF g, label
<1>8. pc'[t] = label /\ \A u \in Threads \ {t} : pc'[u] = pc[u]
  BY <1>3, <1>4, LabelStep DEF Labelled, Labels
<1>9. \A u \in Threads : ~InWindow(u) /\ ~InWindow(u)'
  BY <1>1, <1>2, <1>4, <1>5, <1>8 DEF WindowOK, InWindow
<1>10. NativeRounds' /\ WindowOK' /\ Paired'
  BY <1>1, <1>3, <1>9 DEF NativeRounds, WindowOK, Paired
<1>11. HistoryOK'
  <2>1. EntriesOK(g.history, outcome)
    BY <1>5, <1>7 DEF EntriesOK
  <2>2. ActiveLatest(g.history, g.active, native, outcome, inits)
    BY <1>7 DEF ActiveLatest
  <2>3. Truthful(file.history, outcome, inits)
    BY <1>1 DEF HistoryOK
  <2>4. Truthful(g.history, outcome, inits)
    BY <1>7, <2>3 DEF Truthful
  <2> QED
    BY <1>3, <2>1, <2>2, <2>4 DEF HistoryOK
<1>12. \A a \in Nat : Superseded(a) \/ (a = file.active /\ a <= Len(outcome)) => Superseded(a)'
  BY <1>3, <1>7, <1>9, CampaignAssumption DEF Superseded
<1>13. \A u \in Threads : ReadOK(u)'
  <2>1. ReadOK(t)'
    BY <1>4, <1>8 DEF ReadOK
  <2>2. ASSUME NEW u \in Threads, u # t PROVE ReadOK(u)'
    <3>1. pc'[u] = pc[u] /\ seen'[u] = seen[u]
      BY <1>3, <1>8, <2>2 DEF TypeOK
    <3> QED
      BY <1>12, <3>1, OtherReads
  <2> QED
    BY <2>1, <2>2
<1>14. /\ \A f \in Spent : f[1] = preparations => f[2][2] <= file.index
       /\ \A f \in Spent : f[2][2] \in Nat
  BY <1>1, SpentFolds DEF FoldsBehind, Folds
<1>15. Spent' = Spent /\ Repeats' = Repeats
  BY <1>3 DEF Spent, Repeats
<1>16. FoldsBehind'
  <2>1. \A f \in Spent : f[1] <= preparations
                         /\ (f[1] = preparations => f[2][2] <= file.index + 1)
    BY <1>1, <1>6, <1>14 DEF FoldsBehind
  <2>2. (\E u \in Threads : pc'[u] = "reset") => \E u \in Threads : pc[u] = "reset"
    BY <1>4, <1>8
  <2> QED
    BY <1>1, <1>3, <1>7, <1>15, <2>1, <2>2 DEF FoldsBehind
<1>17. RepeatsPaid'
  <2>1. Current' = <<preparations, <<bank, file.index + 1>>>>
    BY <1>3, <1>7 DEF Current
  <2>2. Current' \notin Spent
    BY <1>6, <1>14, <2>1
  <2> QED
    BY <1>1, <1>3, <1>15, <2>2 DEF RepeatsPaid
<1> QED
  BY <1>10, <1>11, <1>13, <1>16, <1>17 DEF Consistent

(* The entry of the round that was queued.                                   *)
LEMMA AppendStep ==
  ASSUME TypeOK, Consistent, NEW t \in Threads, AppendHistory(t), ~overtaken'
  PROVE  Consistent'
<1> DEFINE e == started[t]
           H == file.history
           G == Append(H, e)
           g == [file EXCEPT !.active = e.native, !.history = G]
<1>1. NativeRounds /\ HistoryOK /\ WindowOK /\ Paired /\ FoldsBehind /\ RepeatsPaid
  BY DEF Consistent
<1>2. pc[t] = "append" /\ seen[t] = file
  BY DEF AppendHistory, Overtakes
<1>3. /\ file' = g /\ Goto(t, "idle")
      /\ seen' = seen /\ started' = started /\ observed' = observed
      /\ bank' = bank /\ preparations' = preparations /\ native' = native
      /\ consumed' = consumed /\ outcome' = outcome /\ inits' = inits /\ crashes' = crashes
  BY <1>2 DEF AppendHistory, dataset, rounds, bounded
<1>4. /\ EntriesOK(H, outcome) /\ Entering(H, e, native, outcome, inits) /\ file.active = NoRound
      /\ \A u \in Threads : InWindow(u) => u = t
  BY <1>1, <1>2 DEF HistoryOK, WindowOK, InWindow
<1>5. /\ file \in CampaignFiles /\ e \in Entries /\ e.native \in Nat
      /\ H \in Seq(Entries) /\ Len(H) \in Nat /\ DOMAIN H = 1..Len(H)
      /\ Len(outcome) \in Nat
  BY DEF TypeOK, CampaignFiles, Entries
<1> HIDE DEF e
<1>6. /\ DOMAIN G = 1..(Len(H) + 1)
      /\ \A i \in DOMAIN H : G[i] = H[i]
      /\ \A i \in DOMAIN G : i \in DOMAIN H \/ G[i] = e
      /\ \A i \in DOMAIN G : i \notin DOMAIN H => i = Len(H) + 1
  BY <1>5
<1> HIDE DEF G
<1>7. g.active = e.native /\ g.history = G /\ g.index = file.index
  BY <1>5 DEF CampaignFiles
<1> HIDE DEF g
<1>8. pc'[t] = "idle" /\ \A u \in Threads \ {t} : pc'[u] = pc[u]
  BY <1>3, LabelStep DEF Labelled, Labels
<1>9. \A u \in Threads : ~InWindow(u)'
  BY <1>4, <1>8 DEF InWindow
<1>10. NativeRounds' /\ WindowOK' /\ Paired'
  BY <1>1, <1>3, <1>9 DEF NativeRounds, WindowOK, Paired
<1>11. /\ e.native = Len(outcome) /\ e.native \in 1..Len(outcome) /\ e.status = "queued"
       /\ \A i \in DOMAIN H : H[i].native # e.native
  BY <1>4, <1>5 DEF Entering, Latest
<1>12. HistoryOK'
  <2>1. EntriesOK(G, outcome)
    BY <1>4, <1>6, <1>11 DEF EntriesOK
  <2>2. ActiveLatest(G, e.native, native, outcome, inits)
    BY <1>4, <1>5, <1>6, <1>11 DEF ActiveLatest, Entering
  <2>3. Truthful(H, outcome, inits)
    BY <1>1 DEF HistoryOK
  <2>4. Truthful(G, outcome, inits)
    BY <1>6, <1>11, <2>3 DEF Truthful
  <2> QED
    BY <1>3, <1>7, <2>1, <2>2, <2>4 DEF HistoryOK
<1>13. \A a \in Nat : Superseded(a) \/ (a = file.active /\ a <= Len(outcome)) => Superseded(a)'
  <2>1. InWindow(t)
    BY <1>2 DEF InWindow
  <2> QED
    BY <1>3, <1>4, <1>7, <1>9, <2>1, CampaignAssumption DEF Superseded, e
<1>14. \A u \in Threads : ReadOK(u)'
  <2>1. ReadOK(t)'
    BY <1>8 DEF ReadOK
  <2>2. ASSUME NEW u \in Threads, u # t PROVE ReadOK(u)'
    BY <1>3, <1>8, <1>13, <2>2, OtherReads
  <2> QED
    BY <2>1, <2>2
<1>15. Spent' = Spent /\ Repeats' = Repeats
  BY <1>3 DEF Spent, Repeats
<1>16. FoldsBehind'
  <2>1. (\E u \in Threads : pc'[u] = "reset") => \E u \in Threads : pc[u] = "reset"
    BY <1>8
  <2> QED
    BY <1>1, <1>3, <1>7, <1>15, <2>1 DEF FoldsBehind
<1>17. RepeatsPaid'
  <2>1. file'.active # NoRound
    BY <1>3, <1>5, <1>7, CampaignAssumption
  <2> QED
    BY <1>1, <1>3, <1>15, <2>1 DEF RepeatsPaid
<1> QED
  BY <1>10, <1>12, <1>14, <1>16, <1>17 DEF Consistent

LEMMA ResetStep ==
  ASSUME TypeOK, Consistent, NEW t \in Threads, ResetCampaign(t)
  PROVE  Consistent'
<1>1. NativeRounds /\ WindowOK /\ Paired /\ FoldsBehind /\ RepeatsPaid
  BY DEF Consistent
<1>2. /\ pc[t] = "reset" /\ Goto(t, "idle") /\ file' = Fresh
      /\ seen' = seen /\ started' = started /\ observed' = observed
      /\ bank' = bank /\ preparations' = preparations /\ native' = native
      /\ consumed' = consumed /\ outcome' = outcome /\ inits' = inits /\ crashes' = crashes
  BY DEF ResetCampaign, dataset, rounds, bounded
<1>3. pc'[t] = "idle" /\ \A u \in Threads \ {t} : pc'[u] = pc[u]
  BY <1>2, LabelStep DEF Labelled, Labels
<1>4. /\ file'.index = 0 /\ file'.active = NoRound
      /\ file'.history = << >> /\ DOMAIN file'.history = {}
  BY <1>2 DEF Fresh
<1>5. \A u \in Threads : InWindow(u)' <=> InWindow(u)
  BY <1>2, <1>3 DEF InWindow
<1>6. NativeRounds' /\ Paired'
  BY <1>1, <1>2 DEF NativeRounds, Paired
<1>7. HistoryOK'
  BY <1>2, <1>4 DEF HistoryOK, EntriesOK, ActiveLatest, Truthful
<1>8. WindowOK'
  BY <1>1, <1>2, <1>4, <1>5 DEF WindowOK, Entering
<1>9. \A a \in Nat : Superseded(a) \/ (a = file.active /\ a <= Len(outcome)) => Superseded(a)'
  <2> SUFFICES ASSUME NEW a \in Nat, Superseded(a) \/ (a = file.active /\ a <= Len(outcome))
               PROVE  Superseded(a)'
    OBVIOUS
  <2>1. a # NoRound
    BY CampaignAssumption
  <2>2. \A u \in Threads : InWindow(u) => started[u].native # a
    BY <1>1, <2>1 DEF Superseded, WindowOK
  <2> QED
    BY <1>2, <1>4, <1>5, <2>1, <2>2 DEF Superseded
<1>10. \A u \in Threads : ReadOK(u)'
  <2>1. ReadOK(t)'
    BY <1>3 DEF ReadOK
  <2>2. ASSUME NEW u \in Threads, u # t PROVE ReadOK(u)'
    BY <1>2, <1>3, <1>9, <2>2, OtherReads
  <2> QED
    BY <2>1, <2>2
<1>11. \A f \in Spent : f[1] \in Nat /\ f[1] < preparations /\ f[1] # preparations
  <2>1. \A f \in Spent : f[1] \in Nat
    BY SpentFolds
  <2>2. \A f \in Spent : f[1] < preparations
    BY <1>1, <1>2 DEF FoldsBehind
  <2> QED
    BY <2>1, <2>2 DEF TypeOK
<1>12. Spent' = Spent /\ Repeats' = Repeats
  BY <1>2 DEF Spent, Repeats
<1>13. FoldsBehind'
  <2>1. \A f \in Spent : f[1] <= preparations
    BY <1>1 DEF FoldsBehind
  <2> QED
    BY <1>2, <1>11, <1>12, <2>1 DEF FoldsBehind
<1>14. RepeatsPaid'
  <2>1. Current' = <<preparations, <<bank, 0>>>>
    BY <1>2, <1>4 DEF Current
  <2>2. Current' \notin Spent
    BY <1>11, <2>1
  <2> QED
    BY <1>1, <1>2, <1>12, <2>2 DEF RepeatsPaid
<1> QED
  BY <1>6, <1>7, <1>8, <1>10, <1>13, <1>14 DEF Consistent

-----------------------------------------------------------------------------
(* queue_mutation: the fold of the holdouts is the current one.              *)
Queued(t) ==
  /\ pc[t] = "queue" /\ native.active = NoRound
  /\ native' = [native EXCEPT !.active = Len(consumed) + 1]
  /\ consumed' = Append(consumed, Row) /\ outcome' = Append(outcome, "running")
  /\ started' = [started EXCEPT ![t] = Entry(Len(consumed) + 1, native.root, @.fold)]
  /\ Goto(t, "enter") /\ Undisturbed(t)
  /\ UNCHANGED <<bank, preparations, file, seen, observed, inits, crashes>>

(* The new round spends the current fold, and a kill may have paid for it.   *)
LEMMA QueuedFolds ==
  ASSUME TypeOK, Paired, FoldsBehind, RepeatsPaid, NEW t \in Threads, Queued(t)
  PROVE  Paired' /\ FoldsBehind' /\ RepeatsPaid'
<1> DEFINE round == Len(consumed) + 1
<1>1. /\ pc[t] = "queue" /\ consumed' = Append(consumed, Row) /\ Undisturbed(t)
      /\ bank' = bank /\ preparations' = preparations /\ file' = file /\ crashes' = crashes
      /\ Goto(t, "enter")
  BY DEF Queued
<1>2. pc'[t] = "enter" /\ \A u \in Threads \ {t} : pc'[u] = pc[u]
  BY <1>1, LabelStep DEF Labelled, Labels
<1>3. /\ file.active = NoRound /\ holdout.selection.fold = <<bank, file.index>>
      /\ holdout.replication.fold = <<bank, file.index>>
      /\ \A u \in Threads : pc[u] \notin {"enter", "append", "reset"}
  BY <1>1 DEF Undisturbed, Fold
<1>4. /\ Row.preparation = preparations /\ Row.selection = <<bank, file.index>>
      /\ Row.replication = Row.selection
  BY <1>3 DEF Row
<1>5. /\ Len(consumed) \in Nat /\ Len(consumed') = round
      /\ DOMAIN consumed = 1..Len(consumed) /\ DOMAIN consumed' = 1..round
      /\ consumed'[round] = Row /\ \A i \in DOMAIN consumed : consumed'[i] = consumed[i]
  <2> HIDE DEF Rows, Row
  <2>1. consumed \in Seq(Rows) /\ consumed' = Append(consumed, Row)
    BY <1>1 DEF TypeOK
  <2> QED
    BY <2>1
<1>6. Spent' = Spent \cup {Current}
  <2>1. \A f : f \in Spent' <=>
          \E i \in 1..round : <<consumed'[i].preparation, consumed'[i].selection>> = f
    BY <1>5 DEF Spent
  <2>2. \A f : f \in Spent <=>
          \E i \in 1..Len(consumed) : <<consumed[i].preparation, consumed[i].selection>> = f
    BY <1>5 DEF Spent
  <2>3. \A i : i \in 1..round <=> i \in 1..Len(consumed) \/ i = round
    BY <1>5
  <2>4. \A i \in 1..Len(consumed) : consumed'[i] = consumed[i]
    BY <1>5
  <2>5. <<consumed'[round].preparation, consumed'[round].selection>> = Current
    BY <1>4, <1>5 DEF Current
  <2> HIDE DEF round
  <2>6. \A f : f \in Spent' <=> f \in Spent \/ f = Current
    BY <2>1, <2>2, <2>3, <2>4, <2>5
  <2> QED
    BY <2>6
<1>7. preparations \in Nat /\ file.index \in Nat
  BY DEF TypeOK, CampaignFiles
<1>8. FoldsBehind'
  <2>1. \A f \in Spent \cup {Current} :
          f[1] <= preparations /\ (f[1] = preparations => f[2][2] <= file.index)
    BY <1>7 DEF FoldsBehind, Current
  <2>2. ~ \E u \in Threads : pc'[u] = "reset"
    BY <1>2, <1>3
  <2> QED
    BY <1>1, <1>6, <2>1, <2>2 DEF FoldsBehind
<1>9. RepeatsPaid'
  <2>1. IsFiniteSet(Spent) /\ Cardinality(Spent) \in Nat
    BY SpentFolds, FS_CardinalityType
  <2> DEFINE extended == Cardinality(Spent \cup {Current})
  <2>2. extended = IF Current \in Spent THEN Cardinality(Spent) ELSE Cardinality(Spent) + 1
    BY <2>1, FS_AddElement
  <2>3. Repeats' = Len(consumed') - extended
    BY <1>6 DEF Repeats
  <2> HIDE DEF extended
  <2>4. Current \in Spent => Repeats < crashes
    BY <1>3 DEF RepeatsPaid, InWindow
  <2>5. Repeats <= crashes /\ crashes \in Nat /\ crashes' = crashes
    BY <1>1 DEF RepeatsPaid, TypeOK
  <2>6. Repeats = Len(consumed) - Cardinality(Spent)
    BY DEF Repeats
  <2>7. Repeats' <= crashes'
    BY <1>5, <2>1, <2>2, <2>3, <2>4, <2>5, <2>6
  <2>8. InWindow(t)'
    BY <1>2 DEF InWindow
  <2> QED
    BY <2>7, <2>8 DEF RepeatsPaid
<1>10. Paired'
  BY <1>4, <1>5 DEF Paired
<1> QED
  BY <1>8, <1>9, <1>10

LEMMA QueuedHistory ==
  ASSUME TypeOK, Consistent, NEW t \in Threads, Queued(t)
  PROVE  NativeRounds' /\ HistoryOK' /\ WindowOK' /\ \A u \in Threads : ReadOK(u)'
<1> DEFINE round == Len(consumed) + 1
           e == Entry(round, native.root, started[t].fold)
           H == file.history
           m == [native EXCEPT !.active = round]
           out == Append(outcome, "running")
<1>1. /\ pc[t] = "queue" /\ Undisturbed(t) /\ Goto(t, "enter")
      /\ native' = m /\ consumed' = Append(consumed, Row) /\ outcome' = out
      /\ started' = [started EXCEPT ![t] = e]
      /\ file' = file /\ seen' = seen /\ observed' = observed /\ inits' = inits
  BY DEF Queued
<1>2. pc'[t] = "enter" /\ \A u \in Threads \ {t} : pc'[u] = pc[u]
  BY <1>1, LabelStep DEF Labelled, Labels
<1>3. /\ file.active = NoRound
      /\ \A u \in Threads : ~InWindow(u) /\ (InWindow(u)' <=> u = t)
  BY <1>1, <1>2 DEF Undisturbed, InWindow
<1>4. NativeRounds /\ HistoryOK
  BY DEF Consistent
<1>5. /\ Len(consumed) \in Nat /\ Len(outcome) = Len(consumed) /\ round \in Nat /\ round # 0
      /\ round # Len(outcome) /\ native.root \in Nat
  BY DEF TypeOK, NativeStates
<1>6. Len(consumed') = round
  BY <1>1 DEF TypeOK
<1>7. e.native = round /\ e.base = native.root /\ e.status = "queued" /\ started'[t] = e
  BY <1>1 DEF Entry, TypeOK
<1>8. m.active = round /\ m.root = native.root /\ m.contributions = native.contributions
  BY DEF TypeOK, NativeStates
<1>9. /\ Len(out) = round /\ out[round] = "running"
      /\ \A i \in 1..Len(outcome) : out[i] = outcome[i]
  BY <1>5 DEF TypeOK
<1> HIDE DEF e, m, out
<1>10. NativeRounds'
  BY <1>1, <1>4, <1>5, <1>6, <1>8, <1>9 DEF NativeRounds
<1>11. \A i \in DOMAIN H : /\ H[i].native \in 1..Len(outcome) /\ H[i].native # round
                           /\ out[H[i].native] = outcome[H[i].native]
  BY <1>4, <1>5, <1>9 DEF HistoryOK, EntriesOK
<1>12. HistoryOK'
  <2>1. EntriesOK(H, out)
    BY <1>4, <1>5, <1>9, <1>11 DEF HistoryOK, EntriesOK
  <2>2. ActiveLatest(H, file.active, m, out, inits)
    BY <1>3 DEF ActiveLatest
  <2>3. Truthful(H, out, inits)
    BY <1>4, <1>11 DEF HistoryOK, Truthful
  <2> QED
    BY <1>1, <2>1, <2>2, <2>3 DEF HistoryOK
<1>13. WindowOK'
  <2>1. Entering(H, e, m, out, inits)
    BY <1>7, <1>8, <1>9, <1>5, <1>11 DEF Entering, Latest
  <2> QED
    BY <1>1, <1>3, <1>7, <2>1 DEF WindowOK
<1>14. ASSUME NEW u \in Threads PROVE ReadOK(u)'
  <2>1. CASE u = t
    BY <1>2, <2>1 DEF ReadOK
  <2>2. CASE u # t
    <3>1. pc'[u] = pc[u] /\ seen'[u] = seen[u] /\ observed'[u] = observed[u]
      BY <1>1, <1>2, <2>2
    <3>2. ReadOK(u) /\ seen[u] \in CampaignFiles
      BY DEF Consistent, TypeOK
    <3>3. ASSUME Superseded(seen[u].active), seen[u].active # NoRound
          PROVE  Superseded(seen[u].active)'
      <4>1. seen[u].active \in Nat /\ seen[u].active <= Len(outcome)
        BY <3>2, <3>3 DEF CampaignFiles, Superseded
      <4>2. seen[u].active # round /\ seen[u].active <= Len(out)
        BY <1>5, <1>9, <4>1
      <4> QED
        BY <1>1, <1>3, <1>7, <3>1, <3>3, <4>2 DEF Superseded
    <3>4. pc[u] = "settle" => seen[u] # file
      BY <1>3, <3>2 DEF ReadOK
    <3> QED
      BY <1>1, <1>3, <3>1, <3>2, <3>3, <3>4 DEF ReadOK
  <2> QED
    BY <2>1, <2>2
<1> QED
  BY <1>10, <1>12, <1>13, <1>14

LEMMA QueueStep ==
  ASSUME TypeOK, Consistent, NEW t \in Threads, QueueRound(t), ~overtaken'
  PROVE  Consistent'
<1>1. pc[t] = "queue"
  BY DEF QueueRound
<1>2. CASE Queued(t)
  BY <1>2, QueuedFolds, QueuedHistory DEF Consistent
<1>3. CASE ~Queued(t)
  <2>1. rounds' = rounds /\ started' = started /\ Goto(t, "idle") /\ Still
        /\ seen' = seen /\ observed' = observed
    BY <1>1, <1>3 DEF QueueRound, Queued, Row, Fail, rounds, dataset, bounded, Still
  <2> QED
    BY <1>1, <2>1, FreeStep DEF Labels
<1> QED
  BY <1>2, <1>3

-----------------------------------------------------------------------------
(* prepare_dataset, the native coordinator, and kills.                       *)

LEMMA PrepareStep ==
  ASSUME TypeOK, Consistent, NEW t \in Threads, Prepare(t)
  PROVE  Consistent'
<1>1. NativeRounds /\ HistoryOK /\ WindowOK /\ Paired /\ FoldsBehind /\ RepeatsPaid
  BY DEF Consistent
<1>2. /\ pc[t] = "idle" /\ preparations' = preparations + 1 /\ Goto(t, "reset")
      /\ file' = file /\ native' = native /\ consumed' = consumed /\ outcome' = outcome
      /\ seen' = seen /\ observed' = observed /\ started' = started
      /\ inits' = inits /\ crashes' = crashes
  BY DEF Prepare, rounds, bounded
<1>3. pc'[t] = "reset" /\ \A u \in Threads \ {t} : pc'[u] = pc[u]
  BY <1>2, LabelStep DEF Labelled, Labels
<1>4. \A u \in Threads : InWindow(u)' <=> InWindow(u)
  BY <1>2, <1>3 DEF InWindow
<1>5. NativeRounds' /\ HistoryOK' /\ WindowOK' /\ Paired'
  BY <1>1, <1>2, <1>4 DEF NativeRounds, HistoryOK, WindowOK, Paired
<1>6. \A a : Superseded(a) => Superseded(a)'
  BY <1>2, <1>4 DEF Superseded
<1>7. \A u \in Threads : ReadOK(u)'
  <2>1. ReadOK(t)'
    BY <1>3 DEF ReadOK
  <2>2. ASSUME NEW u \in Threads, u # t PROVE ReadOK(u)'
    <3>1. ReadOK(u) /\ pc'[u] = pc[u]
      BY <1>3, <2>2 DEF Consistent
    <3> QED
      BY <1>2, <1>6, <3>1 DEF ReadOK
  <2> QED
    BY <2>1, <2>2
<1>8. preparations \in Nat /\ \A f \in Spent : f[1] \in Nat
  BY SpentFolds DEF TypeOK
<1>9. \A f \in Spent : f[1] <= preparations + 1 /\ f[1] < preparations + 1 /\ f[1] # preparations + 1
  BY <1>1, <1>8 DEF FoldsBehind
<1>10. Spent' = Spent /\ Repeats' = Repeats
  BY <1>2 DEF Spent, Repeats
<1>11. FoldsBehind'
  BY <1>2, <1>9, <1>10 DEF FoldsBehind
<1>12. RepeatsPaid'
  <2>1. Current'[1] = preparations + 1
    BY <1>2 DEF Current
  <2>2. Current' \notin Spent
    BY <1>9, <2>1
  <2> QED
    BY <1>1, <1>2, <1>10, <2>2 DEF RepeatsPaid
<1> QED
  BY <1>5, <1>7, <1>11, <1>12 DEF Consistent

(* The native round ends, and its contribution tells how.                    *)
LEMMA EndedRound ==
  ASSUME TypeOK, Consistent, native.active # NoRound,
         NEW ending \in Endings,
         outcome' = [outcome EXCEPT ![native.active] = ending],
         native'.active = NoRound,
         \A c \in native'.contributions : c.before < native'.root,
         \A e : e.base = native.root => (Continues(native', e) <=> ending = "promoted"),
         UNCHANGED <<bank, preparations, file, consumed, pc, seen, observed, started, inits, crashes>>
  PROVE  Consistent'
<1> DEFINE a == native.active
           H == file.history
<1>1. NativeRounds /\ HistoryOK /\ WindowOK /\ Paired /\ FoldsBehind /\ RepeatsPaid
  BY DEF Consistent
<1>2. a = Len(outcome) /\ a \in DOMAIN outcome /\ outcome[a] = "running"
  BY <1>1 DEF NativeRounds, TypeOK
<1>3. /\ Len(outcome') = Len(outcome) /\ DOMAIN outcome = 1..Len(outcome)
      /\ outcome'[a] = ending /\ \A i \in DOMAIN outcome : i # a => outcome'[i] = outcome[i]
  BY <1>2 DEF TypeOK
<1>4. NativeRounds' /\ Paired'
  BY <1>1 DEF NativeRounds, Paired
<1>5. ASSUME NEW e, Latest(e, native, outcome, inits)
      PROVE  Latest(e, native', outcome', inits)
  <2>1. e.native = a /\ native.root = e.base
    BY <1>2, <1>5 DEF Latest
  <2>2. Continues(native', e) <=> ending = "promoted"
    BY <2>1
  <2>3. Judged(native', e, outcome', inits)
    BY <1>3, <2>1, <2>2 DEF Judged, Endings
  <2> QED
    BY <1>3, <1>5, <2>1, <2>3 DEF Latest
<1>6. \A i \in DOMAIN H : H[i].native \in DOMAIN outcome
  BY <1>1, <1>3 DEF HistoryOK, EntriesOK
<1>7. \A i \in DOMAIN H : outcome[H[i].native] # "running"
                            => outcome'[H[i].native] = outcome[H[i].native]
  BY <1>2, <1>3, <1>6
<1>8. HistoryOK'
  <2>1. EntriesOK(H, outcome')
    BY <1>1, <1>3 DEF HistoryOK, EntriesOK
  <2>2. ActiveLatest(H, file.active, native', outcome', inits)
    BY <1>1, <1>3, <1>5 DEF HistoryOK, ActiveLatest
  <2>3. Truthful(H, outcome', inits)
    BY <1>1, <1>7 DEF HistoryOK, Truthful
  <2> QED
    BY <2>1, <2>2, <2>3 DEF HistoryOK
<1>9. WindowOK'
  <2>1. \A e : Entering(H, e, native, outcome, inits) => Entering(H, e, native', outcome', inits)
    BY <1>5 DEF Entering
  <2> QED
    BY <1>1, <2>1 DEF WindowOK, InWindow
<1>10. ASSUME NEW u \in Threads PROVE ReadOK(u)'
  <2>1. ReadOK(u)
    BY DEF Consistent
  <2>2. \A b : Superseded(b) => Superseded(b)'
    BY <1>3 DEF Superseded, InWindow
  <2>3. Settling(H, file.active, observed[u], outcome, inits)
          => Settling(H, file.active, observed[u], outcome', inits)
    BY <1>7 DEF Settling, Judged
  <2> QED
    BY <2>1, <2>2, <2>3 DEF ReadOK
<1>11. FoldsBehind' /\ RepeatsPaid'
  <2>1. Spent' = Spent /\ Repeats' = Repeats /\ Current' = Current
    BY DEF Spent, Repeats, Current
  <2> QED
    BY <1>1, <2>1 DEF FoldsBehind, RepeatsPaid, InWindow
<1> QED
  BY <1>4, <1>8, <1>9, <1>10, <1>11 DEF Consistent

LEMMA NativeStep ==
  ASSUME TypeOK, Consistent, NativePromotes \/ NativeCloses
  PROVE  Consistent'
<1>1. /\ native.root \in Nat
      /\ \A c \in native.contributions : c.before \in Nat /\ c.before < native.root
  <2>1. native.contributions \subseteq [before : Nat, round : Nat] /\ native.root \in Nat
    BY DEF TypeOK, NativeStates
  <2> QED
    BY <2>1 DEF Consistent, NativeRounds
<1>2. /\ native.active # NoRound
      /\ UNCHANGED <<bank, preparations, file, consumed, pc, seen, observed, started, inits, crashes>>
  BY DEF NativePromotes, NativeCloses, dataset, threadState, bounded
<1>3. CASE NativePromotes
  <2> DEFINE new == [before |-> native.root, round |-> native.active]
  <2>1. /\ outcome' = [outcome EXCEPT ![native.active] = "promoted"]
        /\ native'.active = NoRound /\ native'.root = native.root + 1
        /\ native'.contributions = native.contributions \cup {new}
    BY <1>3 DEF NativePromotes
  <2>2. new.before = native.root
    OBVIOUS
  <2> HIDE DEF new
  <2>3. \A c \in native'.contributions : c.before < native'.root
    BY <1>1, <2>1, <2>2
  <2>4. \A e : e.base = native.root => Continues(native', e)
    BY <2>1, <2>2 DEF Continues
  <2>5. "promoted" \in Endings
    BY DEF Endings
  <2> QED
    BY <1>2, <2>1, <2>3, <2>4, <2>5, EndedRound
<1>4. CASE NativeCloses
  <2>1. /\ outcome' = [outcome EXCEPT ![native.active] = "closed-without-promotion"]
        /\ native'.active = NoRound /\ native'.root = native.root
        /\ native'.contributions = native.contributions
    BY <1>4 DEF NativeCloses, TypeOK, NativeStates
  <2>2. \A c \in native'.contributions : c.before < native'.root
    BY <1>1, <2>1
  <2>3. \A e : e.base = native.root => ~Continues(native', e)
    BY <1>1, <2>1 DEF Continues
  <2>4. "closed-without-promotion" \in Endings /\ "closed-without-promotion" # "promoted"
    BY DEF Endings
  <2> QED
    BY <1>2, <2>1, <2>2, <2>3, <2>4, EndedRound
<1> QED
  BY <1>3, <1>4

LEMMA InitializeModelStep ==
  ASSUME TypeOK, Consistent, InitializeModel
  PROVE  Consistent'
<1>1. NativeRounds /\ HistoryOK /\ WindowOK /\ Paired /\ FoldsBehind /\ RepeatsPaid
  BY DEF Consistent
<1>2. /\ native.active = NoRound /\ native'.active = NoRound /\ native'.contributions = {}
      /\ inits \in Nat /\ inits' # 0
      /\ bank' = bank /\ preparations' = preparations /\ file' = file
      /\ consumed' = consumed /\ outcome' = outcome
      /\ pc' = pc /\ seen' = seen /\ observed' = observed /\ started' = started
      /\ crashes' = crashes
  BY DEF InitializeModel, threadState, dataset, TypeOK
<1>3. NativeRounds' /\ Paired'
  BY <1>1, <1>2 DEF NativeRounds, Paired
<1>4. ASSUME NEW e, e.native \in Nat, Latest(e, native, outcome, inits)
      PROVE  Latest(e, native', outcome, inits')
  <2>1. e.native # NoRound
    BY <1>4, CampaignAssumption
  <2>2. ~Continues(native', e)
    BY <1>2 DEF Continues
  <2>3. Judged(native, e, outcome, inits)
    BY <1>2, <1>4, <2>1 DEF Latest
  <2>4. Judged(native', e, outcome, inits')
    BY <1>2, <2>2, <2>3 DEF Judged
  <2> QED
    BY <1>2, <1>4, <2>1, <2>4 DEF Latest
<1>5. HistoryOK'
  <2>1. \A i \in DOMAIN file.history : file.history[i].native \in Nat
    BY <1>1 DEF HistoryOK, EntriesOK
  <2>2. ActiveLatest(file.history, file.active, native', outcome, inits')
    BY <1>1, <1>4, <2>1 DEF HistoryOK, ActiveLatest
  <2>3. Truthful(file.history, outcome, inits')
    BY <1>1, <1>2 DEF HistoryOK, Truthful
  <2> QED
    BY <1>1, <1>2, <2>2, <2>3 DEF HistoryOK
<1>6. WindowOK'
  <2>1. \A u \in Threads : started[u].native \in Nat
    BY DEF TypeOK, Entries
  <2>2. \A u \in Threads : Entering(file.history, started[u], native, outcome, inits)
                             => Entering(file.history, started[u], native', outcome, inits')
    BY <1>4, <2>1 DEF Entering
  <2> QED
    BY <1>1, <1>2, <2>2 DEF WindowOK, InWindow
<1>7. ASSUME NEW u \in Threads PROVE ReadOK(u)'
  <2>1. ReadOK(u)
    BY DEF Consistent
  <2>2. \A b : Superseded(b) => Superseded(b)'
    BY <1>2 DEF Superseded, InWindow
  <2>3. observed' = observed
    BY DEF InitializeModel, threadState
  <2>4. Settling(file.history, file.active, observed[u], outcome, inits)
          => Settling(file.history, file.active, observed[u], outcome, inits')
    BY <1>2 DEF Settling, Judged
  <2> QED
    BY <1>2, <2>1, <2>2, <2>3, <2>4 DEF ReadOK
<1>8. FoldsBehind' /\ RepeatsPaid'
  <2>1. Spent' = Spent /\ Repeats' = Repeats /\ Current' = Current
    BY <1>2 DEF Spent, Repeats, Current
  <2> QED
    BY <1>1, <1>2, <2>1 DEF FoldsBehind, RepeatsPaid, InWindow
<1> QED
  BY <1>3, <1>5, <1>6, <1>7, <1>8 DEF Consistent

LEMMA CrashStep ==
  ASSUME TypeOK, Consistent, Crash
  PROVE  Consistent'
<1>1. NativeRounds /\ HistoryOK /\ Paired /\ FoldsBehind /\ RepeatsPaid
  BY DEF Consistent
<1>2. /\ crashes' = crashes + 1 /\ \A t \in Threads : pc'[t] = "idle"
      /\ bank' = bank /\ preparations' = preparations /\ file' = file /\ native' = native
      /\ consumed' = consumed /\ outcome' = outcome /\ inits' = inits
  BY DEF Crash, dataset, rounds
<1>3. NativeRounds' /\ HistoryOK' /\ Paired'
  BY <1>1, <1>2 DEF NativeRounds, HistoryOK, Paired
<1>4. WindowOK' /\ \A t \in Threads : ReadOK(t)'
  BY <1>2 DEF WindowOK, InWindow, ReadOK
<1>5. Spent' = Spent /\ Repeats' = Repeats
  BY <1>2 DEF Spent, Repeats
<1>6. FoldsBehind'
  BY <1>1, <1>2, <1>5 DEF FoldsBehind
<1>7. RepeatsPaid'
  <2>1. Repeats \in Int /\ crashes \in Nat
    <3>1. Cardinality(Spent) \in Nat /\ Len(consumed) \in Nat
      BY SpentFolds, FS_CardinalityType DEF TypeOK
    <3> QED
      BY <3>1 DEF Repeats, TypeOK
  <2>2. Repeats' <= crashes' /\ Repeats' < crashes'
    BY <1>1, <1>2, <1>5, <2>1 DEF RepeatsPaid
  <2> QED
    BY <2>2 DEF RepeatsPaid
<1> QED
  BY <1>3, <1>4, <1>6, <1>7 DEF Consistent

-----------------------------------------------------------------------------
LEMMA CampaignInit ==
  ASSUME Init
  PROVE  CampaignInv
<1>1. NativeRounds /\ HistoryOK /\ WindowOK /\ \A t \in Threads : ReadOK(t)
  BY DEF Init, Fresh, NativeRounds, HistoryOK, EntriesOK, ActiveLatest, Truthful, WindowOK,
         InWindow, ReadOK
<1>2. consumed = << >> /\ DOMAIN << >> = {} /\ Len(<< >>) = 0
  BY DEF Init
<1>3. Spent = {}
  BY <1>2, Zenon DEF Spent
<1>4. Cardinality(Spent) = 0
  BY <1>3, FS_EmptySet
<1>5. Paired /\ FoldsBehind /\ RepeatsPaid
  BY <1>2, <1>3, <1>4 DEF Init, Paired, FoldsBehind, RepeatsPaid, Repeats
<1> QED
  BY <1>1, <1>5, TypeInit DEF CampaignInv, Consistent

(* A request that has acted on an out-of-date read stays in the record.      *)
LEMMA OvertakenStays ==
  ASSUME overtaken, [Next]_vars
  PROVE  overtaken'
<1>1. ASSUME NEW t \in Threads, Step(t) PROVE overtaken'
  <2>1. ASSUME NEW goal, Start(t, goal) PROVE overtaken'
    BY <2>1 DEF Start
  <2> QED
    BY <1>1, <2>1 DEF Step, Judge, Settle, Plan, InstallSelection, InstallReplication,
       QueueRound, EnterHistory, AppendHistory, Prepare, ResetCampaign, ReadForTest, CountTest,
       Overtakes
<1> QED
  BY <1>1 DEF Next, NativePromotes, NativeCloses, InitializeModel, Crash, vars

LEMMA CampaignStep ==
  ASSUME CampaignInv, [Next]_vars
  PROVE  CampaignInv'
<1>1. TypeOK /\ TypeOK'
  BY TypeStep DEF CampaignInv
<1>2. SUFFICES ASSUME ~overtaken' PROVE Consistent'
  BY <1>1 DEF CampaignInv
<1>3. Consistent
  BY <1>2, OvertakenStays DEF CampaignInv
<1>4. ASSUME NEW t \in Threads, Step(t) PROVE Consistent'
  <2>1. ASSUME NEW goal \in {"status", "wanted"}, Start(t, goal) PROVE Consistent'
    BY <1>1, <1>3, <2>1, StartStep
  <2> QED
    BY <1>1, <1>2, <1>3, <1>4, <2>1, JudgeStep, SettleStep, PlanStep, InstallStep,
       QueueStep, ReadStep, AppendStep, PrepareStep, ResetStep, CountTestStep, Zenon DEF Step
<1>5. ASSUME UNCHANGED vars PROVE Consistent'
  <2>1. /\ bank' = bank /\ preparations' = preparations /\ file' = file /\ native' = native
        /\ consumed' = consumed /\ outcome' = outcome /\ inits' = inits /\ crashes' = crashes
        /\ pc' = pc /\ seen' = seen /\ observed' = observed /\ started' = started
    BY <1>5 DEF vars, dataset, rounds, threadState, bounded
  <2>2. Spent' = Spent /\ Repeats' = Repeats /\ Current' = Current
    BY <2>1 DEF Spent, Repeats, Current
  <2>3. NativeRounds' /\ HistoryOK' /\ WindowOK' /\ Paired' /\ FoldsBehind' /\ RepeatsPaid'
    BY <1>3, <2>1, <2>2
       DEF Consistent, NativeRounds, HistoryOK, WindowOK, InWindow, Paired, FoldsBehind,
           RepeatsPaid
  <2>4. ASSUME NEW t \in Threads PROVE ReadOK(t)'
    BY <1>3, <2>1 DEF Consistent, ReadOK, Superseded, InWindow
  <2> QED
    BY <2>3, <2>4 DEF Consistent
<1> QED
  BY <1>1, <1>3, <1>4, <1>5, NativeStep, InitializeModelStep, CrashStep DEF Next

(* However many requests are served at once, the campaign keeps its          *)
(* invariant up to the first that acts on a read that is no longer true.     *)
THEOREM CampaignInvariant == Spec => []CampaignInv
<1>1. Init => CampaignInv
  BY CampaignInit
<1>2. CampaignInv /\ [Next]_vars => CampaignInv'
  BY CampaignStep
<1> QED
  BY <1>1, <1>2, PTL DEF Spec

(* A fold of a preparation serves a second round, for selection or for       *)
(* replication, only if the coordinator was killed in the meantime, and then *)
(* only one, or if a request has acted on a read that was no longer true:    *)
(* for any number of requests served at once, of folds, rounds, seeds,       *)
(* preparations and kills.                                                   *)
THEOREM FoldsAreSpentOnce == Spec => []OnlyKillsReuseFolds
<1>1. CampaignInv => OnlyKillsReuseFolds
  <2> SUFFICES ASSUME Consistent, NEW half \in {"selection", "replication"}
               PROVE  Len(consumed) - Cardinality({<<consumed[i].preparation, consumed[i][half]>> :
                                                     i \in DOMAIN consumed}) <= crashes
    BY DEF CampaignInv, OnlyKillsReuseFolds
  <2>1. \A i \in DOMAIN consumed : consumed[i][half] = consumed[i].selection
    BY DEF Consistent, Paired
  <2>2. {<<consumed[i].preparation, consumed[i][half]>> : i \in DOMAIN consumed} = Spent
    BY <2>1 DEF Spent
  <2> QED
    BY <2>2 DEF Consistent, RepeatsPaid, Repeats
<1> QED
  BY <1>1, CampaignInvariant, PTL

(* The history says of a native round what became of it, whatever requests   *)
(* run next to the one that settles it, as long as none has acted on a read  *)
(* that was no longer true.                                                  *)
THEOREM HistoryTellsTheOutcome == Spec => []HistoryIsTruthful
<1>1. CampaignInv => HistoryIsTruthful
  BY DEF CampaignInv, Consistent, HistoryOK, Truthful, HistoryIsTruthful
<1> QED
  BY <1>1, CampaignInvariant, PTL
=============================================================================
