-------------------------- MODULE SupervisorProofs --------------------------
(***************************************************************************)
(* StopsOnlyItsOwn for any number of threads, pids, births and kills.  A   *)
(* record names a birth, and a birth has one owner for ever: the invariant *)
(* says so of every copy of a record, in the two files and in the threads. *)
(*                                                                         *)
(* NothingOrphaned in the same generality: unless a start was disturbed,   *)
(* all copies of the records that requests work on name the same births,   *)
(* and a start knows its name has no living process when it spawns one.    *)
(***************************************************************************)
EXTENDS Supervisor, TLAPS

Births  == [born : Nat, owner : Names \cup {"other"}]
Stages  == {"idle", "reload", "save", "assign", "read", "check", "write", "replace", "spawn",
            "reread", "terminate"}
ThreadState ==
    [op : {"none", "status"} \cup Requests, name : Names \cup {None}, pc : Stages,
     value : Records, mine : Rec \cup {None}, auto : SUBSET Names, final : BOOLEAN]

(* In a world w before birth c: if the process r records lives, n owns it. *)
Sound(w, c, n, r) ==
    r # None => /\ r.born < c
                /\ w[r.pid] # None /\ w[r.pid].born = r.born => w[r.pid].owner = n

AllSound(w, c, value) == \A n \in Names : Sound(w, c, n, value[n])

TypeOK ==
    /\ file \in Records
    /\ tmp \in Records \cup {None}
    /\ os \in [Pids -> Births \cup {None}]
    /\ clock \in Nat
    /\ saved \in SUBSET Names
    /\ config \in SUBSET Names
    /\ pending \subseteq Names
    /\ th \in [Threads -> ThreadState]

Steps(u) ==
    /\ u.op \in Requests => u.name \in Names
    /\ u.pc = "save" => u.op = "settings"
    /\ u.pc \in {"spawn", "reread"} => u.op = "start"
    /\ u.pc = "terminate" => u.op = "stop" /\ u.value[u.name] # None

ThreadSound(w, c, u) ==
    /\ AllSound(w, c, u.value)
    /\ u.pc = "reread" => Sound(w, c, u.name, u.mine)
    /\ Steps(u)

SupervisorInv ==
    /\ TypeOK
    /\ AllSound(os, clock, file)
    /\ tmp # None => AllSound(os, clock, tmp)
    /\ \A t \in Threads : ThreadSound(os, clock, th[t])

Evolves ==
    /\ os' \in [Pids -> Births \cup {None}]
    /\ clock' \in Nat /\ clock <= clock'
    /\ \A p \in Pids : os'[p] = os[p] \/ os'[p] = None \/ os'[p].born = clock

(* A record of the past stays sound: what is born now is born later. *)
LEMMA SoundKept ==
    ASSUME TypeOK, Evolves, NEW n, NEW r \in Rec \cup {None}, Sound(os, clock, n, r)
    PROVE  Sound(os', clock', n, r)
BY DEF TypeOK, Evolves, Sound, Rec

(* The flag of a record does not matter. *)
LEMMA FlagIsFree ==
    ASSUME NEW w, NEW c, NEW n, NEW r \in Rec, Sound(w, c, n, r) \/ r = None,
           NEW flag \in BOOLEAN, r # None
    PROVE  /\ [r EXCEPT !.running = flag] \in Rec
           /\ Sound(w, c, n, [r EXCEPT !.running = flag])
BY DEF Sound, Rec

LEMMA AllSoundKept ==
    ASSUME TypeOK, Evolves, NEW v \in Records, AllSound(os, clock, v)
    PROVE  AllSound(os', clock', v)
<1>1. \A n \in Names : v[n] \in Rec \cup {None} BY DEF Records
<1> QED BY <1>1, SoundKept DEF AllSound

LEMMA ThreadKept ==
    ASSUME TypeOK, Evolves, NEW u \in ThreadState, ThreadSound(os, clock, u)
    PROVE  ThreadSound(os', clock', u)
<1>1. u.value \in Records /\ u.mine \in Rec \cup {None} BY DEF ThreadState
<1>2. AllSound(os', clock', u.value) BY <1>1, AllSoundKept DEF ThreadSound
<1>3. u.pc = "reread" => Sound(os', clock', u.name, u.mine)
  BY <1>1, SoundKept DEF ThreadSound
<1> QED BY <1>2, <1>3 DEF ThreadSound

(* Births are numbered; nothing else ever enters the world. *)
LEMMA WorldEvolves == SupervisorInv /\ [SupervisorNext]_vars => Evolves
<1> SUFFICES ASSUME SupervisorInv, [SupervisorNext]_vars PROVE Evolves
  OBVIOUS
<1>0. TypeOK BY DEF SupervisorInv
<1>1. CASE UNCHANGED world BY <1>0, <1>1 DEF Evolves, TypeOK, world
<1>2. ASSUME NEW t \in Threads, Terminate(t) PROVE Evolves
  <2>1. os' = os \/ \E q : os' = [os EXCEPT ![q] = None]
    BY <1>2, Zenon DEF Terminate
  <2>2. clock' = clock BY <1>2, Zenon DEF Terminate
  <2> QED BY <1>0, <2>1, <2>2 DEF Evolves, TypeOK
<1>3. ASSUME NEW t \in Threads, Spawn(t) PROVE Evolves
  <2>1. th[t].name \in Names
    BY <1>3 DEF SupervisorInv, ThreadSound, Steps, Spawn, At, Requests
  <2>2. PICK p \in Pids : os' = [os EXCEPT ![p] = [born |-> clock, owner |-> th[t].name]]
    BY <1>3 DEF Spawn
  <2>3. clock' = clock + 1 BY <1>3 DEF Spawn
  <2>4. [born |-> clock, owner |-> th[t].name] \in Births BY <1>0, <2>1 DEF Births, TypeOK
  <2> QED BY <1>0, <2>2, <2>3, <2>4 DEF Evolves, TypeOK
<1>4. ASSUME NEW p \in Pids, Exit(p) PROVE Evolves
  BY <1>0, <1>4 DEF Evolves, TypeOK, Exit
<1>5. ASSUME NEW p \in Pids, OtherStarts(p) PROVE Evolves
  <2>1. [born |-> clock, owner |-> "other"] \in Births BY <1>0 DEF Births, TypeOK
  <2> QED BY <1>0, <1>5, <2>1 DEF Evolves, TypeOK, OtherStarts
<1>6. ASSUME NEW rebooted \in BOOLEAN, Kill(rebooted) PROVE Evolves
  BY <1>0, <1>6 DEF Evolves, TypeOK, Kill
<1>7. ASSUME NEW t \in Threads, Step(t) PROVE Evolves
  BY <1>1, <1>2, <1>3, <1>7
     DEF Step, SaveSettings, Reload, Assign, ReadRecords, CheckRecords, WriteRecords, Replace,
         SpawnFails, Reread
<1>8. CASE UNCHANGED vars BY <1>1, <1>8 DEF vars, world
<1>9. CASE Poll \/ Launch \/ Serve \/ Autostart(Page)
  BY <1>1, <1>9 DEF Poll, Launch, Autostart, Serve
<1>10. ASSUME NEW t \in Posts, NEW op \in Requests, NEW n \in Names, Post(t, op, n)
       PROVE  Evolves
  BY <1>1, <1>10 DEF Post
<1> QED
  BY <1>4, <1>5, <1>6, <1>7, <1>8, <1>9, <1>10 DEF SupervisorNext

-----------------------------------------------------------------------------
(* What a step of one thread leaves to prove: its own state, the two files  *)
(* and the settings; the other threads keep theirs.                         *)
LEMMA OneThread ==
    ASSUME SupervisorInv, Evolves, NEW t \in Threads, NEW u \in ThreadState,
           th' = [th EXCEPT ![t] = u], ThreadSound(os', clock', u),
           file' = file \/ (tmp # None /\ file' = tmp),
           tmp' = tmp \/ tmp' = None \/ tmp' = th[t].value,
           saved' \subseteq Names, config' \subseteq Names, pending' \subseteq Names
    PROVE  SupervisorInv'
<1>1. TypeOK BY DEF SupervisorInv
<1>2. th[t].value \in Records /\ AllSound(os, clock, th[t].value)
  BY <1>1 DEF SupervisorInv, ThreadSound, TypeOK, ThreadState
<1>3. TypeOK' BY <1>1, <1>2 DEF TypeOK, Evolves
<1>4. AllSound(os, clock, file') BY DEF SupervisorInv
<1>5. tmp' # None => tmp' \in Records /\ AllSound(os, clock, tmp')
  BY <1>1, <1>2 DEF SupervisorInv, TypeOK
<1>6. AllSound(os', clock', file') BY <1>1, <1>3, <1>4, AllSoundKept DEF TypeOK
<1>7. tmp' # None => AllSound(os', clock', tmp') BY <1>1, <1>5, AllSoundKept
<1>8. \A x \in Threads : ThreadSound(os', clock', th'[x])
  <2> TAKE x \in Threads
  <2>1. th[x] \in ThreadState /\ ThreadSound(os, clock, th[x])
    BY <1>1 DEF SupervisorInv, TypeOK
  <2>2. ThreadSound(os', clock', th[x]) BY <1>1, <2>1, ThreadKept
  <2> QED BY <1>1, <2>2 DEF TypeOK
<1> QED BY <1>3, <1>6, <1>7, <1>8 DEF SupervisorInv

(* A step of the world alone. *)
LEMMA NoThread ==
    ASSUME SupervisorInv, Evolves, UNCHANGED <<file, tmp, th>>,
           saved' \subseteq Names, config' \subseteq Names, pending' \subseteq Names
    PROVE  SupervisorInv'
<1>1. TypeOK BY DEF SupervisorInv
<1>2. TypeOK' BY <1>1 DEF TypeOK, Evolves
<1>3. AllSound(os', clock', file') BY <1>1, AllSoundKept DEF SupervisorInv, TypeOK
<1>4. tmp' # None => AllSound(os', clock', tmp')
  BY <1>1, AllSoundKept DEF SupervisorInv, TypeOK
<1>5. \A x \in Threads : ThreadSound(os', clock', th'[x])
  BY <1>1, ThreadKept DEF SupervisorInv, TypeOK
<1> QED BY <1>2, <1>3, <1>4, <1>5 DEF SupervisorInv

LEMMA IdleIsSound ==
    ASSUME NEW w, NEW c, NEW op, NEW name \in Names \cup {None}, NEW pc,
           \/ op \in Requests /\ name \in Names /\ pc = IF op = "settings" THEN "save" ELSE "read"
           \/ op = "status" /\ pc = "reload"
           \/ op = "none" /\ pc = "idle"
    PROVE  Fresh(op, name, pc) \in ThreadState /\ ThreadSound(w, c, Fresh(op, name, pc))
<1> DEFINE u == Fresh(op, name, pc)
<1>1. NoRecords \in Records BY DEF NoRecords, Records
<1>2. CASE op \in Requests /\ name \in Names /\ pc = IF op = "settings" THEN "save" ELSE "read"
  <2>1. pc \in Stages /\ op \in Requests BY <1>2 DEF Stages
  <2>2. u \in ThreadState BY <1>1, <2>1 DEF ThreadState, Fresh
  <2>3. Steps(u) /\ u.pc # "reread" BY <1>2 DEF Steps, Requests, Fresh
  <2> QED BY <2>2, <2>3 DEF ThreadSound, AllSound, Sound, NoRecords, Fresh
<1>3. CASE op \in {"status", "none"} /\ pc \in {"reload", "idle"}
  <2>1. u \in ThreadState BY <1>1, <1>3 DEF ThreadState, Fresh, Stages
  <2>2. Steps(u) /\ u.pc # "reread" BY <1>3 DEF Steps, Requests, Fresh
  <2> QED BY <2>1, <2>2 DEF ThreadSound, AllSound, Sound, NoRecords, Fresh
<1> QED BY <1>2, <1>3

LEMMA InitIsSound == SupervisorInit => SupervisorInv
<1> SUFFICES ASSUME SupervisorInit PROVE SupervisorInv
  OBVIOUS
<1>1. Idle \in ThreadState /\ ThreadSound(os, clock, Idle)
  BY IdleIsSound DEF Idle
<1>2. NoRecords \in Records /\ AllSound(os, clock, NoRecords)
  BY DEF NoRecords, Records, AllSound, Sound
<1>3. saved \subseteq Names BY SettingsAssumption DEF SupervisorInit
<1> QED BY <1>1, <1>2, <1>3 DEF SupervisorInit, SupervisorInv, TypeOK

LEMMA InvKept == SupervisorInv /\ [SupervisorNext]_vars => SupervisorInv'
<1> SUFFICES ASSUME SupervisorInv, [SupervisorNext]_vars PROVE SupervisorInv'
  OBVIOUS
<1>1. TypeOK BY DEF SupervisorInv
<1>2. Evolves BY WorldEvolves
<1>3. \A t \in Threads : th[t] \in ThreadState /\ ThreadSound(os, clock, th[t])
                          /\ ThreadSound(os', clock', th[t])
  BY <1>1, <1>2, ThreadKept DEF SupervisorInv, TypeOK
<1>4. saved \subseteq Names /\ config \subseteq Names /\ pending \subseteq Names
  BY <1>1 DEF TypeOK
<1>5. Idle \in ThreadState /\ ThreadSound(os', clock', Idle)
  BY IdleIsSound DEF Idle
<1>6. file \in Records /\ AllSound(os', clock', file)
  BY <1>1, <1>2, AllSoundKept DEF SupervisorInv, TypeOK
<1>7. NoRecords \in Records /\ AllSound(os', clock', NoRecords)
  BY DEF NoRecords, Records, AllSound, Sound
<1>8. Page \in Threads BY DEF Threads
<1>10. ASSUME NEW t \in Threads, NEW op, NEW name \in Names \cup {None}, NEW pc,
              \/ op \in Requests /\ name \in Names
                 /\ pc = IF op = "settings" THEN "save" ELSE "read"
              \/ op = "status" /\ pc = "reload",
              Begin(t, op, name, pc), UNCHANGED <<disk, conf>>, pending' \subseteq Names
       PROVE  SupervisorInv'
  <2>1. th' = [th EXCEPT ![t] = Fresh(op, name, pc)] BY <1>10 DEF Begin
  <2>2. Fresh(op, name, pc) \in ThreadState /\ ThreadSound(os', clock', Fresh(op, name, pc))
    BY <1>10, IdleIsSound
  <2> QED BY <1>2, <1>4, <1>10, <2>1, <2>2, OneThread DEF disk, conf
<1>11. CASE Poll BY <1>4, <1>8, <1>10, <1>11 DEF Poll
<1>12. ASSUME NEW t \in Posts, NEW op \in Requests, NEW n \in Names, Post(t, op, n)
       PROVE  SupervisorInv'
  BY <1>4, <1>10, <1>12 DEF Post, Threads
<1>13. CASE Autostart(Page) BY <1>4, <1>8, <1>10, <1>13 DEF Autostart, Requests, Names
<1> DEFINE To(t, u) == /\ th' = [th EXCEPT ![t] = u]
                       /\ u \in ThreadState
                       /\ ThreadSound(os', clock', u)
<1>20. ASSUME NEW t \in Threads, NEW u, To(t, u),
              file' = file \/ (tmp # None /\ file' = tmp),
              tmp' = tmp \/ tmp' = None \/ tmp' = th[t].value,
              saved' \subseteq Names, config' \subseteq Names, UNCHANGED pending
       PROVE  SupervisorInv'
  BY <1>2, <1>4, <1>20, OneThread
<1>21. ASSUME NEW t \in Threads, SaveSettings(t) PROVE SupervisorInv'
  <2>1. PICK auto \in {config \cup {th[t].name}, config \ {th[t].name}} \ {config} :
           /\ saved' = auto
           /\ th' = [th EXCEPT ![t].auto = auto, ![t].pc = "assign"]
    BY <1>21 DEF SaveSettings
  <2>2. th[t].name \in Names BY <1>3, <1>21 DEF SaveSettings, ThreadSound, Steps, At, Requests
  <2>3. auto \subseteq Names BY <1>4, <2>1, <2>2
  <2> DEFINE u == [th[t] EXCEPT !.auto = auto, !.pc = "assign"]
  <2>4. To(t, u)
    BY <1>3, <2>1, <2>3, <1>21 DEF ThreadState, ThreadSound, Steps, Stages
  <2> QED BY <1>4, <1>20, <1>21, <2>1, <2>3, <2>4 DEF SaveSettings, disk
<1>22. ASSUME NEW t \in Threads, Reload(t) PROVE SupervisorInv'
  <2> DEFINE u == [th[t] EXCEPT !.auto = saved, !.pc = "assign"]
  <2>1. To(t, u)
    BY <1>3, <1>4, <1>22 DEF Reload, ThreadState, ThreadSound, Steps, Stages
  <2> QED BY <1>4, <1>20, <1>22, <2>1 DEF Reload, disk, conf
<1>23. ASSUME NEW t \in Threads, Assign(t) PROVE SupervisorInv'
  <2> DEFINE pc == IF th[t].op = "settings" THEN "reload" ELSE "read"
             u == [th[t] EXCEPT !.auto = {}, !.op = "status", !.pc = pc]
  <2>1. To(t, u)
    BY <1>3, <1>23 DEF Assign, ThreadState, ThreadSound, Steps, Stages, Requests
  <2>2. config' \subseteq Names BY <1>3, <1>23 DEF Assign, ThreadState
  <2> QED BY <1>4, <1>20, <1>23, <2>1, <2>2 DEF Assign, disk
<1>24. ASSUME NEW t \in Threads, Finish(t), UNCHANGED <<saved, config, pending>>,
              file' = file \/ (tmp # None /\ file' = tmp), tmp' = tmp \/ tmp' = None
       PROVE  SupervisorInv'
  BY <1>4, <1>5, <1>20, <1>24 DEF Finish
<1>25. ASSUME NEW t \in Threads, ReadRecords(t) PROVE SupervisorInv'
  <2>1. CASE Finish(t) BY <1>24, <1>25, <2>1 DEF ReadRecords, disk, conf
  <2>2. CASE ~(th[t].op = "stop" /\ file[th[t].name] = None)
    <3> DEFINE pc == IF th[t].op = "stop" THEN "terminate" ELSE "check"
               u == [th[t] EXCEPT !.value = file, !.pc = pc]
    <3>1. To(t, u)
      BY <1>3, <1>6, <1>25, <2>2 DEF ReadRecords, ThreadState, ThreadSound, Steps, Stages, Requests
    <3> QED BY <1>4, <1>20, <1>25, <3>1 DEF ReadRecords, disk, conf
  <2> QED BY <1>25, <2>1, <2>2 DEF ReadRecords
<1>26. ASSUME NEW t \in Threads, NEW value, AfterStatus(t, value),
              UNCHANGED <<saved, config, pending>>,
              file' = file \/ (tmp # None /\ file' = tmp), tmp' = tmp \/ tmp' = None
       PROVE  SupervisorInv'
  <2>1. CASE Finish(t) BY <1>24, <1>26, <2>1
  <2>2. CASE Spawns(t, value)
    <3> DEFINE u == [th[t] EXCEPT !.value = NoRecords, !.pc = "spawn"]
    <3>1. To(t, u)
      BY <1>3, <1>7, <1>26, <2>2 DEF AfterStatus, Spawns, ThreadState, ThreadSound, Steps, Stages
    <3> QED BY <1>4, <1>20, <1>26, <3>1
  <2> QED BY <1>26, <2>1, <2>2 DEF AfterStatus
<1>27. ASSUME NEW t \in Threads, CheckRecords(t) PROVE SupervisorInv'
  <2> DEFINE value == Checked(th[t].value)
             u == [th[t] EXCEPT !.value = value, !.pc = "write"]
  <2>1. CASE AfterStatus(t, value) BY <1>26, <1>27, <2>1 DEF CheckRecords, disk, conf
  <2>2. CASE th' = [th EXCEPT ![t].value = value, ![t].pc = "write"]
    <3>1. value \in Records /\ AllSound(os', clock', value)
      <4> SUFFICES ASSUME NEW n \in Names
                   PROVE  value[n] \in Rec \cup {None} /\ Sound(os', clock', n, value[n])
        BY DEF Checked, Records, AllSound
      <4>1. th[t].value[n] \in Rec \cup {None} /\ Sound(os', clock', n, th[t].value[n])
        BY <1>3 DEF Records, ThreadState, ThreadSound, AllSound
      <4>2. CASE th[t].value[n] = None BY <4>2 DEF Checked, Sound
      <4>3. CASE th[t].value[n] # None
        <5>1. PidAlive(th[t].value[n]) \in BOOLEAN BY DEF PidAlive
        <5>2. value[n] = [th[t].value[n] EXCEPT !.running = PidAlive(th[t].value[n])]
          BY <4>3 DEF Checked
        <5> QED BY <4>1, <4>3, <5>1, <5>2, FlagIsFree
      <4> QED BY <4>2, <4>3
    <3> HIDE DEF value
    <3>2. To(t, u) BY <1>3, <2>2, <3>1 DEF ThreadState, ThreadSound, Steps, Stages
    <3> QED BY <1>4, <1>20, <1>27, <3>2 DEF CheckRecords, disk, conf
  <2> QED BY <1>27, <2>1, <2>2 DEF CheckRecords
<1>28. ASSUME NEW t \in Threads, WriteRecords(t) PROVE SupervisorInv'
  <2> DEFINE u == [th[t] EXCEPT !.pc = "replace"]
  <2>1. To(t, u)
    BY <1>3, <1>28 DEF WriteRecords, Goto, ThreadState, ThreadSound, Steps, Stages
  <2> QED BY <1>4, <1>20, <1>28, <2>1 DEF WriteRecords, conf
<1>29. ASSUME NEW t \in Threads, Replace(t) PROVE SupervisorInv'
  <2>1. CASE Finish(t) BY <1>24, <1>29, <2>1 DEF Replace, conf
  <2>2. CASE AfterStatus(t, th[t].value) BY <1>26, <1>29, <2>2 DEF Replace, conf
  <2> QED BY <1>29, <2>1, <2>2 DEF Replace
<1>30. ASSUME NEW t \in Threads, Spawn(t) PROVE SupervisorInv'
  <2>1. PICK p \in Pids :
           /\ os' = [os EXCEPT ![p] = [born |-> clock, owner |-> th[t].name]]
           /\ th' = [th EXCEPT ![t].pc = "reread",
                               ![t].mine = [pid |-> p, born |-> clock, running |-> TRUE]]
    BY <1>30 DEF Spawn
  <2> DEFINE r == [pid |-> p, born |-> clock, running |-> TRUE]
             u == [th[t] EXCEPT !.pc = "reread", !.mine = r]
  <2>2. r \in Rec /\ Sound(os', clock', th[t].name, r)
    BY <1>1, <1>30, <2>1 DEF Spawn, Rec, Sound, TypeOK
  <2>3. th[t].op = "start" BY <1>3, <1>30 DEF Spawn, At, ThreadSound, Steps
  <2> HIDE DEF r
  <2>4. To(t, u) BY <1>3, <2>1, <2>2, <2>3 DEF r, ThreadState, ThreadSound, Steps, Stages
  <2> QED BY <1>4, <1>20, <1>30, <2>4 DEF Spawn, disk, conf
<1>31. ASSUME NEW t \in Threads, SpawnFails(t) PROVE SupervisorInv'
  BY <1>24, <1>31 DEF SpawnFails, disk, conf
<1>32. ASSUME NEW t \in Threads, Reread(t) PROVE SupervisorInv'
  <2> DEFINE value == [file EXCEPT ![th[t].name] = th[t].mine]
             u == [th[t] EXCEPT !.value = value, !.mine = None, !.pc = "write", !.final = TRUE]
  <2>1. value \in Records /\ AllSound(os', clock', value)
    BY <1>3, <1>6, <1>32 DEF Reread, At, Records, ThreadState, ThreadSound, AllSound
  <2>2. th' = [th EXCEPT ![t].value = value, ![t].mine = None, ![t].pc = "write",
                         ![t].final = TRUE]
    BY <1>32 DEF Reread
  <2> HIDE DEF value
  <2>3. To(t, u) BY <1>3, <2>1, <2>2 DEF ThreadState, ThreadSound, Steps, Stages
  <2> QED BY <1>4, <1>20, <1>32, <2>3 DEF Reread, disk, conf
<1>33. ASSUME NEW t \in Threads, Terminate(t) PROVE SupervisorInv'
  <2> DEFINE value == Stopped(th[t].value, th[t].name)
             u == [th[t] EXCEPT !.value = value, !.pc = "write", !.final = TRUE]
  <2>1. th[t].name \in Names /\ th[t].value[th[t].name] # None
    BY <1>3, <1>33 DEF Terminate, At, ThreadSound, Steps, Requests
  <2>2. value \in Records /\ AllSound(os', clock', value)
    <3>1. \A n \in Names : th[t].value[n] \in Rec \cup {None}
                            /\ Sound(os', clock', n, th[t].value[n])
      BY <1>3 DEF Records, ThreadState, ThreadSound, AllSound
    <3> DEFINE x == [th[t].value[th[t].name] EXCEPT !.running = FALSE]
    <3>2. x \in Rec /\ Sound(os', clock', th[t].name, x) BY <2>1, <3>1, FlagIsFree
    <3>3. th[t].value \in Records BY <1>3 DEF ThreadState
    <3>4. value = [th[t].value EXCEPT ![th[t].name] = x] BY DEF Stopped
    <3> HIDE DEF x
    <3> QED BY <3>1, <3>2, <3>3, <3>4 DEF Records, AllSound
  <2>3. th' = [th EXCEPT ![t].value = value, ![t].pc = "write", ![t].final = TRUE]
    BY <1>33, Zenon DEF Terminate
  <2> HIDE DEF value
  <2>4. To(t, u) BY <1>3, <2>2, <2>3 DEF ThreadState, ThreadSound, Steps, Stages
  <2>5. UNCHANGED <<disk, conf, pending>> BY <1>33, Zenon DEF Terminate
  <2> QED BY <1>4, <1>20, <2>4, <2>5 DEF disk, conf
<1>34. ASSUME NEW t \in Threads, Step(t) PROVE SupervisorInv'
  BY <1>21, <1>22, <1>23, <1>25, <1>27, <1>28, <1>29, <1>30, <1>31, <1>32, <1>33, <1>34 DEF Step
<1>40. CASE Launch BY <1>2, <1>4, <1>40, NoThread DEF Launch, disk
<1>41. CASE Serve BY <1>2, <1>4, <1>41, NoThread DEF Serve, disk, conf
<1>42. ASSUME NEW p \in Pids, Exit(p) PROVE SupervisorInv'
  BY <1>2, <1>4, <1>42, NoThread DEF Exit, disk, conf
<1>43. ASSUME NEW p \in Pids, OtherStarts(p) PROVE SupervisorInv'
  BY <1>2, <1>4, <1>43, NoThread DEF OtherStarts, disk, conf
<1>44. ASSUME NEW rebooted \in BOOLEAN, Kill(rebooted) PROVE SupervisorInv'
  <2>1. tmp \in Records \cup {None} /\ (tmp # None => AllSound(os', clock', tmp))
    BY <1>1, <1>2, AllSoundKept DEF SupervisorInv, TypeOK
  <2> QED BY <1>1, <1>2, <1>4, <1>5, <1>6, <1>44, <2>1
          DEF Kill, disk, SupervisorInv, TypeOK, Evolves
<1>45. CASE UNCHANGED vars
  BY <1>2, <1>4, <1>45, NoThread DEF vars
<1> QED
  BY <1>11, <1>12, <1>13, <1>34, <1>40, <1>41, <1>42, <1>43, <1>44, <1>45 DEF SupervisorNext

(* A stop ends nobody else's process, whatever has become of the recorded  *)
(* pid since (runtime.py:45-61, 117-145).                                  *)
THEOREM StopsSpareOthers == SupervisorSpec => StopsOnlyItsOwn
<1>1. ASSUME SupervisorInv, [SupervisorNext]_vars
      PROVE  [\A t \in Threads : At(t, "terminate") /\ th'[t].pc = "write" =>
                \A p \in Pids : os[p] # None /\ os'[p] = None => os[p].owner = th[t].name]_vars
  <2> SUFFICES ASSUME NEW t \in Threads, At(t, "terminate"), th'[t].pc = "write",
                      NEW p \in Pids, os[p] # None, os'[p] = None
               PROVE  os[p].owner = th[t].name
    OBVIOUS
  <2>1. th \in [Threads -> ThreadState] BY <1>1 DEF SupervisorInv, TypeOK
  <2>2. Terminate(t)
    <3>1. th'[t].pc # th[t].pc BY DEF At
    <3>2. th' # th BY <3>1
    <3>3. ASSUME NEW u \in Threads, NEW x, th' = [th EXCEPT ![u] = x] PROVE u = t
      BY <2>1, <3>1, <3>3
    <3>4. ASSUME NEW u \in Threads, Step(u) PROVE Terminate(t)
      <4>1. \E x : th' = [th EXCEPT ![u] = x]
        BY <3>4, Zenon DEF Step, SaveSettings, Reload, Assign, ReadRecords, CheckRecords,
           AfterStatus, WriteRecords, Replace, Spawn, SpawnFails, Reread, Terminate, Finish, Goto
      <4>2. u = t BY <3>3, <4>1
      <4> QED BY <3>4, <4>2
        DEF Step, At, SaveSettings, Reload, Assign, ReadRecords, CheckRecords, WriteRecords,
            Replace, Spawn, SpawnFails, Reread
    <3>5. ASSUME NEW u \in Threads, NEW op, NEW name, NEW pc, Begin(u, op, name, pc), ~Busy(u)
          PROVE  FALSE
      BY <3>3, <3>5 DEF Begin, Busy, At
    <3>6. ~Poll BY <3>5 DEF Poll, Threads
    <3>7. ASSUME NEW u \in Posts, NEW op \in Requests, NEW n \in Names, Post(u, op, n)
          PROVE  FALSE
      BY <3>5, <3>7 DEF Post, Threads
    <3>8. ~Autostart(Page) BY <3>5 DEF Autostart, Threads
    <3>9. ASSUME NEW b \in BOOLEAN, Kill(b) PROVE FALSE
      BY <3>9 DEF Kill, Idle, Fresh
    <3> QED
      BY <1>1, <3>2, <3>4, <3>6, <3>7, <3>8, <3>9
         DEF SupervisorNext, vars, Launch, Serve, Exit, OtherStarts
  <2> DEFINE r == th[t].value[th[t].name]
  <2>3. os' = IF PidAlive(r) THEN [os EXCEPT ![r.pid] = None] ELSE os
    BY <2>2, Zenon DEF Terminate
  <2>4. PidAlive(r) /\ p = r.pid
    BY <1>1, <2>3 DEF SupervisorInv, TypeOK
  <2>5. th[t].name \in Names /\ r # None /\ ThreadSound(os, clock, th[t])
    BY <1>1 DEF SupervisorInv, At, ThreadSound, Steps, Requests
  <2>6. Sound(os, clock, th[t].name, r) BY <2>5 DEF ThreadSound, AllSound
  <2> QED BY <2>4, <2>5, <2>6 DEF Sound, PidAlive
<1> QED BY <1>1, InitIsSound, InvKept, PTL DEF SupervisorSpec, StopsOnlyItsOwn

-----------------------------------------------------------------------------
(* Nothing is orphaned.  While no start overlaps another request, the births *)
(* in the file change with a start only: every copy of the records a thread  *)
(* works on names the births of the file, a start that is about to spawn     *)
(* knows that no process of its name lives, and what it spawned is what it   *)
(* is going to write.                                                        *)

Lives(w, p, n)   == w[p] # None /\ w[p].owner = n
IsBirth(w, p, r) == r # None /\ r.pid = p /\ r.born = w[p].born
Only(w, n, r)    == \A p \in Pids : Lives(w, p, n) => IsBirth(w, p, r)

SameBirth(r, q)  == IF r = None THEN q = None
                    ELSE q # None /\ q.pid = r.pid /\ q.born = r.born
SameBirths(v, f) == \A n \in Names : SameBirth(v[n], f[n])

Starts(u)  == u.op = "start"
Writing(u) == u.pc \in {"write", "replace"}
Spawned(u) == Starts(u) /\ (u.pc = "reread" \/ (Writing(u) /\ u.final))
FoundDead(u) == u.value[u.name] # None /\ ~u.value[u.name].running

(* Thread u works on what is in the files f and tm and in the world w.       *)
Follows(w, f, tm, u) ==
    /\ Starts(u) => u.pc \in {"read", "check", "write", "replace", "spawn", "reread"}
    /\ u.pc \in {"check", "terminate"} => SameBirths(u.value, f)
    /\ Writing(u) /\ ~Spawned(u) => SameBirths(u.value, f)
    /\ u.pc = "replace" => IF Starts(u) THEN tm = u.value
                           ELSE tm # None => SameBirths(tm, f)
    /\ Starts(u) /\ u.pc = "spawn" => Only(w, u.name, None)
    /\ Starts(u) /\ Writing(u) /\ ~u.final /\ FoundDead(u) => Only(w, u.name, None)
    /\ Starts(u) /\ u.pc = "reread" => Only(w, u.name, u.mine)
    /\ Starts(u) /\ Writing(u) /\ u.final =>
         /\ Only(w, u.name, u.value[u.name])
         /\ \A n \in Names \ {u.name} : SameBirth(u.value[n], f[n])

StartsAlone == \A t \in Threads : Starts(th[t]) => \A u \in Threads \ {t} : ~Busy(u)

Covered ==
    \A n \in Names : \/ Only(os, n, file[n])
                     \/ \E t \in Threads : Spawned(th[t]) /\ th[t].name = n

Clear    == StartsAlone /\ Covered /\ \A t \in Threads : Follows(os, file, tmp, th[t])
ClearInv == ~excused => Clear

LEMMA SameBirthsRefl == ASSUME NEW v PROVE SameBirths(v, v)
BY DEF SameBirths, SameBirth

LEMMA SameBirthsTrans ==
    ASSUME NEW u, NEW v, NEW w, SameBirths(u, v), SameBirths(v, w)
    PROVE  SameBirths(u, w)
BY DEF SameBirths, SameBirth

LEMMA SameBirthsSym ==
    ASSUME NEW u, NEW v, SameBirths(u, v)
    PROVE  SameBirths(v, u)
BY DEF SameBirths, SameBirth

LEMMA OnlySame ==
    ASSUME NEW w, NEW n, NEW r, NEW q, SameBirth(r, q), Only(w, n, r)
    PROVE  Only(w, n, q)
BY DEF SameBirth, Only, IsBirth

(* No managed process is born in the step.                                   *)
Calm == \A p \in Pids : os'[p] = os[p] \/ os'[p] = None \/ os'[p].owner \notin Names

LEMMA OnlyCalm ==
    ASSUME Calm, NEW n \in Names, NEW r, Only(os, n, r)
    PROVE  Only(os', n, r)
BY DEF Calm, Only, Lives, IsBirth

(* What Checked and Stopped do to records leaves their births.               *)
LEMMA CheckedSame ==
    ASSUME NEW v \in Records
    PROVE  SameBirths(Checked(v), v)
<1> SUFFICES ASSUME NEW n \in Names PROVE SameBirth(Checked(v)[n], v[n])
  BY DEF SameBirths
<1>1. v[n] \in Rec \cup {None}
  BY DEF Records
<1>2. CASE v[n] = None
  BY <1>2 DEF Checked, SameBirth
<1>3. CASE v[n] # None
  <2> DEFINE r == [v[n] EXCEPT !.running = PidAlive(v[n])]
  <2>1. Checked(v)[n] = r
    BY <1>3 DEF Checked
  <2>2. r \in Rec /\ r.pid = v[n].pid /\ r.born = v[n].born
    BY <1>1, <1>3 DEF Rec, PidAlive
  <2>3. r # None
    BY <2>2, NoneAssumption
  <2> QED
    BY <1>3, <2>1, <2>2, <2>3 DEF SameBirth
<1> QED
  BY <1>2, <1>3

LEMMA StoppedSame ==
    ASSUME NEW v \in Records, NEW n \in Names, v[n] # None
    PROVE  SameBirths(Stopped(v, n), v)
<1> DEFINE r == [v[n] EXCEPT !.running = FALSE]
<1>1. v[n] \in Rec
  BY DEF Records
<1>2. r \in Rec /\ r.pid = v[n].pid /\ r.born = v[n].born
  BY <1>1 DEF Rec
<1>3. r # None
  BY <1>2, NoneAssumption
<1>4. Stopped(v, n) = [v EXCEPT ![n] = r]
  BY DEF Stopped
<1> HIDE DEF r
<1> QED
  BY <1>2, <1>3, <1>4 DEF SameBirths, SameBirth, Records

(* A start that finds its recorded process dead finds none of the name alive. *)
LEMMA DeadMeansNone ==
    ASSUME NEW v \in Records, NEW n \in Names, Only(os, n, v[n]),
           v[n] # None => ~PidAlive(v[n])
    PROVE  Only(os, n, None)
BY DEF Only, IsBirth, Lives, PidAlive

(* A thread that is no start moves on: the births in the files stay.         *)
LEMMA QuietStep ==
    ASSUME SupervisorInv, Clear, Calm, NEW t \in Threads, NEW u,
           Busy(t), ~Starts(th[t]), ~Starts(u), th' = [th EXCEPT ![t] = u],
           SameBirths(file', file),
           tmp' = tmp \/ tmp' = None \/ SameBirths(tmp', file),
           Follows(os', file', tmp', u)
    PROVE  Clear'
<1>1. th \in [Threads -> ThreadState]
  BY DEF SupervisorInv, TypeOK
<1>2. \A x \in Threads : ~Starts(th[x])
  BY DEF Clear, StartsAlone
<1>3. \A x \in Threads : ~Starts(th'[x])
  BY <1>1, <1>2
<1>4. StartsAlone'
  BY <1>3 DEF StartsAlone
<1>5. Covered'
  <2> SUFFICES ASSUME NEW n \in Names PROVE Only(os', n, file'[n])
    BY DEF Covered
  <2>1. Only(os, n, file[n])
    BY <1>2 DEF Clear, Covered, Spawned
  <2>2. SameBirth(file[n], file'[n])
    BY SameBirthsSym DEF SameBirths
  <2> QED
    BY <2>1, <2>2, OnlyCalm, OnlySame
<1>6. SameBirths(file, file')
  BY SameBirthsSym
<1>7. ASSUME NEW x \in Threads PROVE Follows(os', file', tmp', th'[x])
  <2>1. CASE x = t
    BY <1>1, <2>1
  <2>2. CASE x # t
    <3>1. th'[x] = th[x] /\ ~Starts(th[x]) /\ ~Spawned(th[x])
      BY <1>1, <1>2, <2>2 DEF Spawned
    <3>2. Follows(os, file, tmp, th[x])
      BY DEF Clear
    <3>3. th[x].pc \in {"check", "terminate"} \/ Writing(th[x]) => SameBirths(th[x].value, file')
      BY <1>6, <3>1, <3>2, SameBirthsTrans DEF Follows
    <3>4. th[x].pc = "replace" /\ tmp' # None => SameBirths(tmp', file')
      <4> SUFFICES ASSUME th[x].pc = "replace", tmp' # None PROVE SameBirths(tmp', file')
        OBVIOUS
      <4>1. SameBirths(tmp', file)
        BY <3>1, <3>2 DEF Follows
      <4> QED
        BY <1>6, <4>1, SameBirthsTrans
    <3> QED
      BY <3>1, <3>3, <3>4 DEF Follows
  <2> QED
    BY <2>1, <2>2
<1> QED
  BY <1>4, <1>5, <1>7 DEF Clear

(* A thread that is a start moves on: it is alone.                           *)
LEMMA StartStep ==
    ASSUME SupervisorInv, Clear, NEW t \in Threads, NEW u,
           Starts(th[t]), th' = [th EXCEPT ![t] = u],
           Follows(os', file', tmp', u),
           \A n \in Names : Only(os', n, file'[n]) \/ (Spawned(u) /\ u.name = n)
    PROVE  Clear'
<1>1. th \in [Threads -> ThreadState]
  BY DEF SupervisorInv, TypeOK
<1>2. ASSUME NEW x \in Threads, x # t PROVE th'[x] = th[x] /\ th[x].pc = "idle" /\ ~Starts(th[x])
  <2>1. th'[x] = th[x] /\ ~Busy(x)
    BY <1>1, <1>2 DEF Clear, StartsAlone
  <2> QED
    BY <2>1 DEF Busy, Clear, Follows
<1>3. th'[t] = u
  BY <1>1
<1>4. StartsAlone'
  BY <1>2 DEF StartsAlone, Busy
<1>5. Covered'
  BY <1>3 DEF Covered
<1>6. ASSUME NEW x \in Threads PROVE Follows(os', file', tmp', th'[x])
  BY <1>2, <1>3 DEF Follows, Spawned, Writing
<1> QED
  BY <1>4, <1>5, <1>6 DEF Clear

(* No thread moves.                                                          *)
LEMMA StillStep ==
    ASSUME SupervisorInv, Clear, Calm, UNCHANGED <<file, tmp, th>>
    PROVE  Clear'
<1>1. StartsAlone'
  BY DEF Clear, StartsAlone, Busy
<1>2. \A n \in Names : \A r : Only(os, n, r) => Only(os', n, r)
  BY OnlyCalm
<1>3. Covered'
  BY <1>2 DEF Clear, Covered
<1>4. ASSUME NEW x \in Threads PROVE Follows(os', file', tmp', th'[x])
  <2>1. Follows(os, file, tmp, th[x]) /\ th'[x] = th[x]
    BY DEF Clear
  <2>2. Starts(th[x]) => th[x].name \in Names
    BY DEF SupervisorInv, ThreadSound, Steps, Starts, Requests
  <2> QED
    BY <1>2, <2>1, <2>2 DEF Follows
<1> QED
  BY <1>1, <1>3, <1>4 DEF Clear

(* A request begins.                                                         *)
LEMMA BeginStep ==
    ASSUME SupervisorInv, Clear, NEW t \in Threads, NEW op, NEW name,
           NEW pc \in {"reload", "save", "read"},
           op = "start" => pc = "read", ~Busy(t), Begin(t, op, name, pc), ~excused',
           UNCHANGED <<disk, world>>
    PROVE  Clear'
<1>1. th \in [Threads -> ThreadState]
  BY DEF SupervisorInv, TypeOK
<1> DEFINE u == Fresh(op, name, pc)
<1>2. th' = [th EXCEPT ![t] = u] /\ UNCHANGED <<file, tmp, os>>
  BY DEF Begin, disk, world
<1>3. u.op = op /\ u.pc = pc
  BY DEF Fresh
<1> HIDE DEF u
<1>4. \A x \in Threads \ {t} : Busy(x) => "start" \notin {op, th[x].op}
  BY DEF Begin
<1>5. \A x \in Threads : ~Busy(x) => ~Starts(th[x])
  BY DEF Busy, Clear, Follows
<1>6. \A x \in Threads \ {t} : th'[x] = th[x] /\ ~Starts(th[x])
  BY <1>1, <1>2, <1>4, <1>5 DEF Starts
<1>7. th'[t] = u
  BY <1>1, <1>2
<1>8. StartsAlone'
  BY <1>3, <1>4, <1>6, <1>7 DEF StartsAlone, Starts, Busy
<1>9. Covered'
  BY <1>2, <1>5, <1>6 DEF Covered, Clear, Spawned
<1>10. ASSUME NEW x \in Threads PROVE Follows(os', file', tmp', th'[x])
  <2>1. CASE x = t
    BY <1>3, <1>7, <2>1 DEF Follows, Starts, Spawned, Writing
  <2>2. CASE x # t
    BY <1>2, <1>6, <2>2 DEF Clear
  <2> QED
    BY <2>1, <2>2
<1> QED
  BY <1>8, <1>9, <1>10 DEF Clear

LEMMA IdleFollows ==
    ASSUME NEW w, NEW f, NEW tm
    PROVE  Follows(w, f, tm, Idle) /\ ~Starts(Idle) /\ ~Spawned(Idle)
BY DEF Follows, Starts, Spawned, Writing, Idle, Fresh

(* The steps of requests that read and write the settings.                   *)
LEMMA SettingsStep ==
    ASSUME SupervisorInv, Clear, NEW t \in Threads,
           SaveSettings(t) \/ Reload(t) \/ Assign(t)
    PROVE  Clear'
<1>1. th \in [Threads -> ThreadState] /\ Calm /\ UNCHANGED <<file, tmp>>
  BY DEF SupervisorInv, TypeOK, Calm, SaveSettings, Reload, Assign, disk, world
<1>2. th[t].pc \in {"save", "reload", "assign"} /\ ~Starts(th[t]) /\ Busy(t)
  BY DEF SaveSettings, Reload, Assign, At, Busy, Clear, Follows
<1>3. PICK u \in ThreadState :
        /\ th' = [th EXCEPT ![t] = u] /\ ~Starts(u) /\ u.pc \in {"assign", "reload", "read"}
  <2>1. CASE SaveSettings(t)
    <3>1. PICK auto \in {config \cup {th[t].name}, config \ {th[t].name}} :
            th' = [th EXCEPT ![t].auto = auto, ![t].pc = "assign"]
      BY <2>1 DEF SaveSettings
    <3>2. auto \subseteq Names
      BY <2>1 DEF SupervisorInv, TypeOK, ThreadSound, Steps, SaveSettings, At, Requests
    <3> DEFINE x == [th[t] EXCEPT !.auto = auto, !.pc = "assign"]
    <3>3. x \in ThreadState /\ x.op = th[t].op /\ x.pc = "assign"
      BY <1>1, <3>2 DEF ThreadState, Stages
    <3>4. th' = [th EXCEPT ![t] = x]
      BY <3>1
    <3> HIDE DEF x
    <3> QED
      BY <1>2, <3>3, <3>4 DEF Starts
  <2>2. CASE Reload(t)
    <3> DEFINE x == [th[t] EXCEPT !.auto = saved, !.pc = "assign"]
    <3>1. x \in ThreadState /\ x.op = th[t].op /\ x.pc = "assign"
      BY <1>1 DEF ThreadState, Stages, SupervisorInv, TypeOK
    <3>2. th' = [th EXCEPT ![t] = x]
      BY <2>2 DEF Reload
    <3> HIDE DEF x
    <3> QED
      BY <1>2, <3>1, <3>2 DEF Starts
  <2>3. CASE Assign(t)
    <3> DEFINE pc == IF th[t].op = "settings" THEN "reload" ELSE "read"
               x == [th[t] EXCEPT !.auto = {}, !.op = "status", !.pc = pc]
    <3>1. x \in ThreadState /\ x.op = "status" /\ x.pc \in {"reload", "read"}
      BY <1>1 DEF ThreadState, Stages
    <3>2. th' = [th EXCEPT ![t] = x]
      BY <2>3 DEF Assign
    <3> HIDE DEF x
    <3> QED
      BY <3>1, <3>2 DEF Starts
  <2> QED
    BY <2>1, <2>2, <2>3
<1>4. Follows(os', file', tmp', u)
  BY <1>3 DEF Follows, Writing
<1> QED
  BY <1>1, <1>2, <1>3, <1>4, QuietStep, SameBirthsRefl

LEMMA ReadStep ==
    ASSUME SupervisorInv, Clear, NEW t \in Threads, ReadRecords(t)
    PROVE  Clear'
<1>1. /\ th \in [Threads -> ThreadState] /\ Calm /\ UNCHANGED <<file, tmp, os>>
      /\ th[t].pc = "read" /\ Busy(t) /\ ~Spawned(th[t])
  BY DEF SupervisorInv, TypeOK, Calm, ReadRecords, disk, world, At, Busy, Spawned, Writing
<1>2. PICK u : /\ th' = [th EXCEPT ![t] = u]
               /\ u = Idle \/ (u.op = th[t].op /\ u.value = file /\ ~Writing(u)
                               /\ u.pc = IF th[t].op = "stop" THEN "terminate" ELSE "check")
  <2>1. CASE Finish(t)
    BY <2>1 DEF Finish
  <2>2. CASE ~Finish(t)
    <3> WITNESS [th[t] EXCEPT !.value = file,
                              !.pc = IF th[t].op = "stop" THEN "terminate" ELSE "check"]
    <3> QED
      BY <1>1, <2>2 DEF ReadRecords, ThreadState, Writing
  <2> QED
    BY <2>1, <2>2
<1>3. Follows(os', file', tmp', u) /\ (Starts(u) => Starts(th[t]))
  BY <1>1, <1>2, IdleFollows, SameBirthsRefl DEF Follows, Spawned, Writing, Starts
<1>4. CASE Starts(th[t])
  <2>1. \A n \in Names : Only(os, n, file[n])
    BY <1>1, <1>4 DEF Clear, Covered, StartsAlone, Spawned, Busy, Follows
  <2> QED
    BY <1>1, <1>2, <1>3, <1>4, <2>1, StartStep
<1>5. CASE ~Starts(th[t])
  BY <1>1, <1>2, <1>3, <1>5, QuietStep, SameBirthsRefl
<1> QED
  BY <1>4, <1>5

(* A request that is no start ends with its status.                          *)
LEMMA StatusEnds ==
    ASSUME NEW t, NEW v, AfterStatus(t, v), ~Starts(th[t])
    PROVE  Finish(t)
BY DEF AfterStatus, Spawns, Starts

(* A start goes on to spawn, or finds its process alive.                     *)
LEMMA StartGoesOn ==
    ASSUME SupervisorInv, NEW t \in Threads, NEW v \in Records, AfterStatus(t, v),
           Starts(th[t]), NEW f, SameBirths(v, f), Only(os, th[t].name, f[th[t].name]),
           v[th[t].name] # None /\ ~v[th[t].name].running => Only(os, th[t].name, None)
    PROVE  \E u : /\ th' = [th EXCEPT ![t] = u]
                  /\ ~Spawned(u)
                  /\ \A tm : Follows(os, f, tm, u)
<1> DEFINE n == th[t].name
<1>1. th \in [Threads -> ThreadState] /\ n \in Names
  BY DEF SupervisorInv, TypeOK, ThreadSound, Steps, Starts, Requests
<1>2. CASE ~Spawns(t, v)
  <2> WITNESS Idle
  <2> QED
    BY <1>2, IdleFollows DEF AfterStatus, Finish
<1>3. CASE Spawns(t, v)
  <2>1. Only(os, n, None)
    <3>1. CASE v[n] = None
      BY <1>1, <3>1 DEF SameBirths, SameBirth
    <3>2. CASE v[n] # None
      BY <1>3, <3>2 DEF Spawns
    <3> QED
      BY <3>1, <3>2
  <2> DEFINE x == [th[t] EXCEPT !.value = NoRecords, !.pc = "spawn"]
  <2>2. th' = [th EXCEPT ![t] = x]
    BY <1>3 DEF AfterStatus
  <2>3. x.op = th[t].op /\ x.pc = "spawn" /\ x.name = n
    BY <1>1 DEF ThreadState
  <2> HIDE DEF x
  <2>4. ~Spawned(x) /\ \A tm : Follows(os, f, tm, x)
    BY <2>1, <2>3 DEF Spawned, Writing, Follows, Starts
  <2> QED
    BY <2>2, <2>4
<1> QED
  BY <1>2, <1>3

LEMMA CheckStep ==
    ASSUME SupervisorInv, Clear, NEW t \in Threads, CheckRecords(t)
    PROVE  Clear'
<1> DEFINE v     == th[t].value
           value == Checked(v)
<1>1. /\ th \in [Threads -> ThreadState] /\ Calm /\ UNCHANGED <<file, tmp, os>>
      /\ th[t].pc = "check" /\ Busy(t) /\ ~Spawned(th[t])
  BY DEF SupervisorInv, TypeOK, Calm, CheckRecords, disk, world, At, Busy, Spawned, Writing
<1>2. v \in Records /\ SameBirths(v, file)
  BY <1>1 DEF ThreadState, Clear, Follows
<1>3. value \in Records
  <2> SUFFICES ASSUME NEW n \in Names PROVE value[n] \in Rec \cup {None}
    BY DEF Checked, Records
  <2>1. v[n] \in Rec \cup {None} /\ PidAlive(v[n]) \in BOOLEAN
    BY <1>2 DEF Records, PidAlive
  <2> QED
    BY <2>1 DEF Checked, Rec
<1>4. SameBirths(value, file)
  BY <1>2, CheckedSame, SameBirthsTrans
<1>5. CASE th' = [th EXCEPT ![t].value = value, ![t].pc = "write"] /\ ~Starts(th[t])
  <2> DEFINE u == [th[t] EXCEPT !.value = value, !.pc = "write"]
  <2>1. th' = [th EXCEPT ![t] = u]
    BY <1>5
  <2>2. u.op = th[t].op /\ u.pc = "write" /\ u.value = value
    BY <1>1 DEF ThreadState
  <2> HIDE DEF u, value
  <2>3. ~Starts(u) /\ Follows(os', file', tmp', u)
    BY <1>1, <1>4, <1>5, <2>2 DEF Follows, Starts, Spawned, Writing
  <2> QED
    BY <1>1, <1>5, <2>1, <2>3, QuietStep, SameBirthsRefl
<1>6. CASE AfterStatus(t, value) /\ ~Starts(th[t])
  BY <1>1, <1>6, IdleFollows, QuietStep, SameBirthsRefl, StatusEnds DEF Finish
<1>7. CASE Starts(th[t])
  <2> DEFINE n == th[t].name
  <2>1. n \in Names
    BY <1>7 DEF SupervisorInv, ThreadSound, Steps, Starts, Requests
  <2>2. \A m \in Names : Only(os, m, file[m])
    BY <1>1, <1>7 DEF Clear, Covered, StartsAlone, Spawned, Busy, Follows
  <2>3. value[n] # None /\ ~value[n].running => Only(os, n, None)
    <3> SUFFICES ASSUME value[n] # None, ~value[n].running PROVE Only(os, n, None)
      OBVIOUS
    <3>1. v[n] \in Rec \cup {None}
      BY <1>2, <2>1 DEF Records
    <3>2. v[n] # None => ~PidAlive(v[n])
      BY <2>1, <3>1 DEF Checked, Rec
    <3>3. SameBirth(file[n], v[n])
      BY <1>2, <2>1, SameBirthsSym DEF SameBirths
    <3>4. Only(os, n, v[n])
      BY <2>1, <2>2, <3>3, OnlySame
    <3> QED
      BY <1>2, <2>1, <3>2, <3>4, DeadMeansNone
  <2>4. CASE AfterStatus(t, value)
    <3>1. PICK u : /\ th' = [th EXCEPT ![t] = u]
                   /\ ~Spawned(u)
                   /\ \A tm : Follows(os, file, tm, u)
      <4> HIDE DEF value
      <4> QED
        BY <1>3, <1>4, <1>7, <2>1, <2>2, <2>3, <2>4, StartGoesOn
    <3> QED
      BY <1>1, <1>7, <2>2, <3>1, StartStep
  <2>5. CASE th' = [th EXCEPT ![t].value = value, ![t].pc = "write"]
    <3> DEFINE u == [th[t] EXCEPT !.value = value, !.pc = "write"]
    <3>1. th' = [th EXCEPT ![t] = u]
      BY <2>5
    <3>2. u.op = th[t].op /\ u.pc = "write" /\ u.value = value /\ u.name = n /\ u.final = th[t].final
      BY <1>1 DEF ThreadState
    <3>3. Only(os, n, value[n])
      <4>1. SameBirth(file[n], value[n])
        BY <1>4, <2>1, SameBirthsSym DEF SameBirths
      <4> QED
        BY <2>1, <2>2, <4>1, OnlySame
    <3> HIDE DEF u, value
    <3>4. Follows(os', file', tmp', u)
      BY <1>1, <1>4, <2>3, <3>2, <3>3 DEF Follows, Starts, Spawned, Writing, FoundDead, SameBirths
    <3> QED
      BY <1>1, <1>7, <2>2, <3>1, <3>4, StartStep
  <2> QED
    BY <2>4, <2>5 DEF CheckRecords
<1> QED
  BY <1>5, <1>6, <1>7 DEF CheckRecords

LEMMA WriteStep ==
    ASSUME SupervisorInv, Clear, NEW t \in Threads, WriteRecords(t)
    PROVE  Clear'
<1> DEFINE u == [th[t] EXCEPT !.pc = "replace"]
<1>1. /\ th \in [Threads -> ThreadState] /\ Calm /\ UNCHANGED <<file, os>>
      /\ tmp' = th[t].value /\ th[t].pc = "write" /\ Busy(t) /\ th' = [th EXCEPT ![t] = u]
  BY DEF SupervisorInv, TypeOK, Calm, WriteRecords, Goto, world, At, Busy
<1>2. /\ u.op = th[t].op /\ u.pc = "replace" /\ u.value = th[t].value
      /\ u.name = th[t].name /\ u.final = th[t].final
  BY <1>1 DEF ThreadState
<1>3. Follows(os, file, tmp, th[t])
  BY DEF Clear
<1> HIDE DEF u
<1>4. Follows(os', file', tmp', u)
  BY <1>1, <1>2, <1>3 DEF Follows, Starts, Spawned, Writing, FoundDead
<1>5. CASE Starts(th[t])
  <2>1. \A n \in Names : Only(os, n, file[n]) \/ (Spawned(th[t]) /\ th[t].name = n)
    BY <1>5 DEF Clear, Covered, StartsAlone, Spawned, Busy, Follows
  <2>2. Spawned(th[t]) => Spawned(u)
    BY <1>1, <1>2 DEF Spawned, Starts, Writing
  <2> QED
    BY <1>1, <1>2, <1>4, <1>5, <2>1, <2>2, StartStep
<1>6. CASE ~Starts(th[t])
  <2>1. SameBirths(tmp', file)
    BY <1>1, <1>3, <1>6 DEF Follows, Spawned, Writing
  <2> QED
    BY <1>1, <1>2, <1>4, <1>6, <2>1, QuietStep, SameBirthsRefl DEF Starts
<1> QED
  BY <1>5, <1>6

LEMMA ReplaceStep ==
    ASSUME SupervisorInv, Clear, NEW t \in Threads, Replace(t)
    PROVE  Clear'
<1>1. /\ th \in [Threads -> ThreadState] /\ Calm /\ os' = os /\ tmp' = None
      /\ th[t].pc = "replace" /\ Busy(t)
  BY DEF SupervisorInv, TypeOK, Calm, Replace, world, At, Busy
<1>2. Follows(os, file, tmp, th[t])
  BY DEF Clear
<1>3. CASE ~Starts(th[t])
  <2>1. Finish(t) /\ SameBirths(file', file)
    BY <1>1, <1>2, <1>3, StatusEnds, SameBirthsRefl DEF Replace, Follows
  <2> QED
    BY <1>1, <1>3, <2>1, IdleFollows, QuietStep DEF Finish
<1>4. CASE Starts(th[t])
  <2> DEFINE v == th[t].value
             n == th[t].name
  <2>1. v \in Records /\ v # None /\ n \in Names
    BY <1>1, <1>4, NoneAssumption
       DEF ThreadState, SupervisorInv, ThreadSound, Steps, Starts, Requests
  <2>2. file' = v
    BY <1>1, <1>2, <1>4, <2>1 DEF Replace, Follows
  <2>3. CASE th[t].final
    <3>1. Finish(t)
      BY <1>1, <1>2, <1>4, <2>1, <2>3 DEF Replace, Follows
    <3>2. Only(os, n, v[n]) /\ \A m \in Names \ {n} : SameBirth(v[m], file[m])
      BY <1>1, <1>2, <1>4, <2>3 DEF Follows, Writing
    <3>3. \A m \in Names \ {n} : Only(os, m, file[m])
      BY <1>4 DEF Clear, Covered, StartsAlone, Spawned, Busy, Follows
    <3>4. \A m \in Names \ {n} : Only(os, m, v[m])
      <4> SUFFICES ASSUME NEW m \in Names \ {n} PROVE Only(os, m, v[m])
        OBVIOUS
      <4>1. SameBirth(file[m], v[m])
        BY <3>2 DEF SameBirth
      <4> QED
        BY <3>3, <4>1, OnlySame
    <3>5. \A m \in Names : Only(os', m, file'[m])
      BY <1>1, <2>2, <3>2, <3>4
    <3> QED
      BY <1>4, <3>1, <3>5, IdleFollows, StartStep DEF Finish
  <2>4. CASE ~th[t].final
    <3>1. AfterStatus(t, v)
      BY <1>1, <1>2, <1>4, <2>1, <2>4 DEF Replace, Follows
    <3>2. ~Spawned(th[t]) /\ SameBirths(v, file)
      BY <1>1, <1>2, <1>4, <2>4 DEF Follows, Writing, Spawned
    <3>3. \A m \in Names : Only(os, m, file[m])
      BY <1>4, <3>2 DEF Clear, Covered, StartsAlone, Spawned, Busy, Follows
    <3>4. \A m \in Names : Only(os, m, v[m])
      <4> SUFFICES ASSUME NEW m \in Names PROVE Only(os, m, v[m])
        OBVIOUS
      <4>1. SameBirth(file[m], v[m])
        BY <3>2, SameBirthsSym DEF SameBirths
      <4> QED
        BY <3>3, <4>1, OnlySame
    <3>5. v[n] # None /\ ~v[n].running => Only(os, n, None)
      BY <1>1, <1>2, <1>4, <2>4 DEF Follows, Writing, FoundDead
    <3>6. PICK u : /\ th' = [th EXCEPT ![t] = u]
                   /\ ~Spawned(u)
                   /\ \A tm : Follows(os, v, tm, u)
      <4>1. SameBirths(v, v) /\ Only(os, n, v[n])
        BY <2>1, <3>4, SameBirthsRefl
      <4> QED
        BY <1>4, <2>1, <3>1, <3>5, <4>1, StartGoesOn
    <3> QED
      BY <1>1, <1>4, <2>2, <3>4, <3>6, StartStep
  <2> QED
    BY <2>3, <2>4
<1> QED
  BY <1>3, <1>4

LEMMA SpawnStep ==
    ASSUME SupervisorInv, Clear, NEW t \in Threads, Spawn(t)
    PROVE  Clear'
<1> DEFINE n == th[t].name
<1>1. /\ th \in [Threads -> ThreadState] /\ os \in [Pids -> Births \cup {None}]
      /\ UNCHANGED <<file, tmp>> /\ th[t].pc = "spawn"
  BY DEF SupervisorInv, TypeOK, Spawn, disk, At
<1>2. Starts(th[t]) /\ ~Spawned(th[t])
  BY <1>1 DEF SupervisorInv, ThreadSound, Steps, Starts, Spawned, Writing
<1>3. Only(os, n, None)
  BY <1>1, <1>2 DEF Clear, Follows
<1>4. PICK p \in Pids :
         /\ os[p] = None
         /\ os' = [os EXCEPT ![p] = [born |-> clock, owner |-> n]]
         /\ th' = [th EXCEPT ![t].pc = "reread",
                             ![t].mine = [pid |-> p, born |-> clock, running |-> TRUE]]
  BY DEF Spawn
<1> DEFINE r == [pid |-> p, born |-> clock, running |-> TRUE]
           u == [th[t] EXCEPT !.pc = "reread", !.mine = r]
<1>5. th' = [th EXCEPT ![t] = u]
  BY <1>4
<1>6. u.op = th[t].op /\ u.pc = "reread" /\ u.name = n /\ u.mine = r
  BY <1>1 DEF ThreadState
<1>7. r \in Rec /\ r # None /\ r.pid = p /\ r.born = clock
  <2>1. r \in Rec
    BY DEF SupervisorInv, TypeOK, Rec
  <2> QED
    BY <2>1, NoneAssumption
<1>8. os'[p].born = clock /\ os'[p].owner = n /\ \A q \in Pids \ {p} : os'[q] = os[q]
  BY <1>1, <1>4
<1> HIDE DEF u, r
<1>9. Only(os', n, r)
  <2> SUFFICES ASSUME NEW q \in Pids, Lives(os', q, n) PROVE IsBirth(os', q, r)
    BY DEF Only
  <2>1. q = p
    BY <1>3, <1>8 DEF Only, Lives, IsBirth
  <2> QED
    BY <1>7, <1>8, <2>1 DEF IsBirth
<1>10. \A m \in Names \ {n} : Only(os', m, file'[m])
  <2> SUFFICES ASSUME NEW m \in Names \ {n} PROVE Only(os', m, file[m])
    BY <1>1
  <2>1. Only(os, m, file[m])
    BY <1>2 DEF Clear, Covered, StartsAlone, Spawned, Busy, Follows
  <2> QED
    BY <1>8, <2>1 DEF Only, Lives, IsBirth
<1>11. Spawned(u) /\ Follows(os', file', tmp', u)
  BY <1>2, <1>6, <1>9 DEF Follows, Starts, Spawned, Writing
<1> QED
  BY <1>2, <1>5, <1>6, <1>10, <1>11, StartStep

LEMMA FailStep ==
    ASSUME SupervisorInv, Clear, NEW t \in Threads, SpawnFails(t)
    PROVE  Clear'
<1>1. /\ UNCHANGED <<file, tmp, os>> /\ th[t].pc = "spawn" /\ Finish(t)
  BY DEF SpawnFails, disk, world, At
<1>2. Starts(th[t]) /\ ~Spawned(th[t])
  BY <1>1 DEF SupervisorInv, ThreadSound, Steps, Starts, Spawned, Writing
<1>3. \A n \in Names : Only(os, n, file[n])
  BY <1>2 DEF Clear, Covered, StartsAlone, Spawned, Busy, Follows
<1> QED
  BY <1>1, <1>2, <1>3, IdleFollows, StartStep DEF Finish

LEMMA RereadStep ==
    ASSUME SupervisorInv, Clear, NEW t \in Threads, Reread(t)
    PROVE  Clear'
<1> DEFINE n == th[t].name
           v == [file EXCEPT ![n] = th[t].mine]
           u == [th[t] EXCEPT !.value = v, !.mine = None, !.pc = "write", !.final = TRUE]
<1>1. /\ th \in [Threads -> ThreadState] /\ file \in Records
      /\ UNCHANGED <<file, tmp, os>> /\ th[t].pc = "reread" /\ n \in Names
  BY DEF SupervisorInv, TypeOK, Reread, disk, world, At, ThreadSound, Steps, Requests
<1>2. Starts(th[t]) /\ Only(os, n, th[t].mine)
  BY <1>1 DEF SupervisorInv, ThreadSound, Steps, Starts, Clear, Follows
<1>3. v[n] = th[t].mine /\ \A m \in Names \ {n} : v[m] = file[m]
  BY <1>1 DEF Records
<1> HIDE DEF v
<1>4. th' = [th EXCEPT ![t] = u]
  BY DEF Reread, v
<1>5. u.op = th[t].op /\ u.pc = "write" /\ u.name = n /\ u.value = v /\ u.final
  BY <1>1 DEF ThreadState
<1> HIDE DEF u
<1>6. Spawned(u) /\ Follows(os', file', tmp', u)
  BY <1>1, <1>2, <1>3, <1>5 DEF Follows, Starts, Spawned, Writing, SameBirth
<1>7. \A m \in Names \ {n} : Only(os, m, file[m])
  BY <1>2 DEF Clear, Covered, StartsAlone, Spawned, Busy, Follows
<1> QED
  BY <1>1, <1>2, <1>4, <1>5, <1>6, <1>7, StartStep

LEMMA TerminateStep ==
    ASSUME SupervisorInv, Clear, NEW t \in Threads, Terminate(t)
    PROVE  Clear'
<1> DEFINE n == th[t].name
           v == Stopped(th[t].value, n)
           u == [th[t] EXCEPT !.value = v, !.pc = "write", !.final = TRUE]
<1>1. /\ th \in [Threads -> ThreadState] /\ os \in [Pids -> Births \cup {None}]
      /\ UNCHANGED <<file, tmp>> /\ th[t].pc = "terminate" /\ Busy(t)
  BY DEF SupervisorInv, TypeOK, Terminate, disk, At, Busy
<1>2. /\ n \in Names /\ th[t].value[n] # None /\ ~Starts(th[t])
      /\ th[t].value \in Records /\ SameBirths(th[t].value, file)
  BY <1>1 DEF SupervisorInv, ThreadSound, Steps, Requests, Starts, ThreadState, Clear, Follows
<1>3. SameBirths(v, file)
  BY <1>2, StoppedSame, SameBirthsTrans
<1>4. th' = [th EXCEPT ![t] = u]
  BY Zenon DEF Terminate
<1>5. u.op = th[t].op /\ u.pc = "write" /\ u.value = v
  BY <1>1 DEF ThreadState
<1>6. Calm
  <2>1. os' = os \/ \E q : os' = [os EXCEPT ![q] = None]
    BY Zenon DEF Terminate
  <2> QED
    BY <1>1, <2>1 DEF Calm
<1> HIDE DEF u, v
<1>7. ~Starts(u) /\ Follows(os', file', tmp', u)
  BY <1>1, <1>2, <1>3, <1>5 DEF Follows, Starts, Spawned, Writing
<1> QED
  BY <1>1, <1>2, <1>4, <1>6, <1>7, QuietStep, SameBirthsRefl

LEMMA KillStep ==
    ASSUME SupervisorInv, Clear, NEW rebooted \in BOOLEAN, Kill(rebooted), ~excused'
    PROVE  Clear'
<1>1. /\ th' = [t \in Threads |-> Idle] /\ UNCHANGED <<file, tmp>>
      /\ os' = IF rebooted THEN [p \in Pids |-> None] ELSE os
  BY DEF Kill, disk
<1>2. \A t \in Threads : ~Starts(th[t])
  BY DEF Kill, Starts, Busy, Clear, Follows
<1>3. Calm
  BY <1>1 DEF Calm
<1>4. \A t \in Threads : ~Starts(th'[t]) /\ Follows(os', file', tmp', th'[t])
  BY <1>1, IdleFollows
<1>5. \A n \in Names : Only(os', n, file'[n])
  BY <1>1, <1>2, <1>3, OnlyCalm DEF Clear, Covered, Spawned
<1> QED
  BY <1>4, <1>5 DEF Clear, StartsAlone, Covered

LEMMA ClearKept == SupervisorInv /\ ClearInv /\ [SupervisorNext]_vars => ClearInv'
<1> SUFFICES ASSUME SupervisorInv, ClearInv, [SupervisorNext]_vars, ~excused'
             PROVE  Clear'
  BY DEF ClearInv
<1>1. Page \in Threads /\ Posts \subseteq Threads
  BY DEF Threads
<1>2. CASE Poll
  <2>1. Clear
    BY <1>2 DEF Poll, Begin, ClearInv
  <2> QED
    BY <1>1, <1>2, <2>1, BeginStep DEF Poll
<1>3. ASSUME NEW t \in Posts, NEW op \in Requests, NEW n \in Names, Post(t, op, n)
      PROVE  Clear'
  <2>1. Clear /\ ~Busy(t)
    <3>1. ~excused
      BY <1>3 DEF Post, Begin
    <3>2. \E x \in Posts : ~Busy(x) /\ t = CHOOSE y \in Posts : ~Busy(y)
      BY <1>3 DEF Post
    <3> QED
      BY <3>1, <3>2 DEF ClearInv
  <2> DEFINE pc == IF op = "settings" THEN "save" ELSE "read"
  <2>2. Begin(t, op, n, pc) /\ UNCHANGED <<disk, world>>
    BY <1>3 DEF Post
  <2>3. pc \in {"reload", "save", "read"} /\ (op = "start" => pc = "read")
    OBVIOUS
  <2> HIDE DEF pc
  <2> QED
    BY <1>1, <2>1, <2>2, <2>3, BeginStep
<1>4. CASE Autostart(Page)
  <2>1. Clear /\ ~Busy(Page)
    BY <1>1, <1>4 DEF Autostart, Begin, ClearInv
  <2>2. \E n : Begin(Page, "start", n, "read")
    BY <1>4 DEF Autostart
  <2> QED
    BY <1>1, <1>4, <2>1, <2>2, BeginStep DEF Autostart
<1>5. ASSUME NEW t \in Threads, Step(t)
      PROVE  Clear'
  <2>1. excused' = excused
    BY <1>5, Zenon DEF Step, SaveSettings, Reload, Assign, ReadRecords, CheckRecords,
         WriteRecords, Replace, Spawn, SpawnFails, Reread, Terminate
  <2>2. Clear
    BY <2>1 DEF ClearInv
  <2> QED
    BY <1>5, <2>2, SettingsStep, ReadStep, CheckStep, WriteStep, ReplaceStep, SpawnStep,
       FailStep, RereadStep, TerminateStep
       DEF Step
<1>6. CASE UNCHANGED <<file, tmp, th, os, excused>>
  BY <1>6, StillStep DEF Calm, ClearInv
<1>7. ASSUME NEW p \in Pids, Exit(p) \/ OtherStarts(p)
      PROVE  Clear'
  <2>1. os \in [Pids -> Births \cup {None}]
    BY DEF SupervisorInv, TypeOK
  <2>2. UNCHANGED <<file, tmp, th, excused>>
    BY <1>7 DEF Exit, OtherStarts, disk
  <2>3. Calm
    BY <1>7, <2>1 DEF Exit, OtherStarts, Calm, Names
  <2> QED
    BY <2>2, <2>3, StillStep DEF ClearInv
<1>8. ASSUME NEW rebooted \in BOOLEAN, Kill(rebooted)
      PROVE  Clear'
  <2>1. Clear
    BY <1>8 DEF Kill, ClearInv
  <2> QED
    BY <1>8, <2>1, KillStep
<1> QED
  BY <1>2, <1>3, <1>4, <1>5, <1>6, <1>7, <1>8
     DEF SupervisorNext, Launch, Serve, vars, disk, world

(* Unless a start overlapped another request or was killed half-way, every   *)
(* living seed and coordinator is the one on record, or belongs to the start *)
(* that is about to record it (runtime.py:76-115).                           *)
THEOREM NothingIsLost == SupervisorSpec => []NothingOrphaned
<1>1. SupervisorInit => ClearInv
  <2> SUFFICES ASSUME SupervisorInit PROVE Clear
    BY DEF ClearInv
  <2>1. \A t \in Threads : th[t] = Idle
    BY DEF SupervisorInit
  <2>2. \A n \in Names : Only(os, n, file[n])
    BY DEF SupervisorInit, Only, Lives
  <2> QED
    BY <2>1, <2>2, IdleFollows DEF Clear, StartsAlone, Covered
<1>2. SupervisorInv /\ ClearInv => NothingOrphaned
  <2> SUFFICES ASSUME SupervisorInv, Clear,
                      NEW p \in Pids, os[p] # None, os[p].owner # "other"
               PROVE  \/ LET r == file[os[p].owner]
                         IN  r # None /\ r.pid = p /\ r.born = os[p].born
                      \/ \E t \in Threads : th[t].op = "start" /\ th[t].name = os[p].owner
    BY DEF ClearInv, NothingOrphaned
  <2>1. os[p].owner \in Names
    BY DEF SupervisorInv, TypeOK, Births
  <2> QED
    BY <2>1 DEF Clear, Covered, Only, Lives, IsBirth, Spawned, Starts
<1> QED
  BY <1>1, <1>2, InitIsSound, InvKept, ClearKept, PTL DEF SupervisorSpec
=============================================================================
