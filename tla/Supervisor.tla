----------------------------- MODULE Supervisor -----------------------------
(***************************************************************************)
(* The dashboard's process supervisor (dashboard/runtime.py): it starts    *)
(* and stops one seed and one local coordinator, and keeps their process   *)
(* ids in processes.json.  The HTTP server runs every request in a thread  *)
(* of its own and nothing locks the file: a request reads the map of all   *)
(* records, works, and writes the whole map back.  Started processes       *)
(* outlive the dashboard, which may be killed and launched again.          *)
(*                                                                         *)
(* A process is its pid and its time of birth (create_time); two births    *)
(* with one pid are more than the second apart that pid_alive tolerates,   *)
(* and no pid changes hands between the look of stop and its handle.       *)
(***************************************************************************)
EXTENDS Integers, FiniteSets

CONSTANTS
    Posts,        \* threads that serve the buttons of the page
    Page,         \* the thread that serves the page's polling of the status
    Pids,
    Settings,     \* the settings a dashboard may have been left with: names to start
    MaxBirths,    \* bound: processes born
    MaxRequests,  \* bound: requests other than polls
    MaxKills,     \* bound: kills of the dashboard, and reboots
    None

Names    == {"seed", "coordinator"}
ASSUME SettingsAssumption == Settings \subseteq SUBSET Names

(* The record of a process, and what a file of them says. *)
Rec     == [pid : Pids, born : Nat, running : BOOLEAN]
Records == [Names -> Rec \cup {None}]
ASSUME NoneAssumption == None \notin Rec /\ None \notin Records

Threads  == Posts \cup {Page}
Requests == {"start", "stop", "settings"}

VARIABLES
    file,      \* processes.json: name -> [pid, born, running] or None
    tmp,       \* processes.tmp, one name for all writers: content or None
    os,        \* pid -> [born, owner], or None: the living processes
    clock,     \* births so far
    saved,     \* dashboard-config.json: the names started automatically
    config,    \* the same in memory
    up,        \* "down", "launching" or "serving"
    pending,   \* what autostart has yet to start
    th,        \* thread -> its request
    requests, kills,
    excused    \* a start overlapped another request, or was killed half-way
disk  == <<file, tmp>>
world == <<os, clock>>
conf  == <<saved, config>>
count == <<requests, kills>>
vars  == <<file, tmp, os, clock, saved, config, up, pending, th, requests, kills, excused>>

NoRecords == [n \in Names |-> None]
Fresh(op, name, pc) == [op |-> op, name |-> name, pc |-> pc, value |-> NoRecords,
                        mine |-> None, auto |-> {}, final |-> FALSE]
Idle == Fresh("none", None, "idle")
Busy(t) == th[t].pc # "idle"
At(t, pc) == th[t].pc = pc
Goto(t, pc) == th' = [th EXCEPT ![t].pc = pc]
Finish(t) == th' = [th EXCEPT ![t] = Idle]

(* Mutant: a living process with the recorded pid is taken for the recorded one. *)
PidExists(r) == r # None /\ os[r.pid] # None

(* pid_alive, which compares the time of birth. *)
PidAlive(r) == /\ r # None
               /\ os[r.pid] # None
               /\ os[r.pid].born = r.born

-----------------------------------------------------------------------------
SupervisorInit ==
    /\ file = NoRecords /\ tmp = None
    /\ os = [p \in Pids |-> None] /\ clock = 0
    /\ saved \in Settings /\ config = saved
    /\ up = "serving" /\ pending = {}
    /\ th = [t \in Threads |-> Idle]
    /\ requests = 0 /\ kills = 0 /\ excused = FALSE

(* A request begins.  The page polls the status all the time. *)
Begin(t, op, name, pc) ==
    /\ th' = [th EXCEPT ![t] = Fresh(op, name, pc)]
    /\ excused' = (excused \/ \E u \in Threads \ {t} :
                                Busy(u) /\ "start" \in {op, th[u].op})

Poll ==
    /\ up = "serving" /\ ~Busy(Page)
    /\ Begin(Page, "status", None, "reload")
    /\ UNCHANGED <<disk, world, conf, up, pending, count>>

Post(t, op, name) ==
    /\ up = "serving" /\ requests < MaxRequests
    /\ \E u \in Posts : ~Busy(u)
    /\ t = CHOOSE u \in Posts : ~Busy(u)    \* any thread does
    /\ requests' = requests + 1
    /\ Begin(t, op, name, IF op = "settings" THEN "save" ELSE "read")
    /\ UNCHANGED <<disk, world, conf, up, pending, kills>>

(* update_settings: the file, then memory, then the answer's status. *)
SaveSettings(t) ==
    /\ At(t, "save")
    /\ \E auto \in {config \cup {th[t].name}, config \ {th[t].name}} \ {config} :
         /\ saved' = auto
         /\ th' = [th EXCEPT ![t].auto = auto, ![t].pc = "assign"]
    /\ UNCHANGED <<disk, world, config, up, pending, count, excused>>

Reload(t) ==
    /\ At(t, "reload")
    /\ th' = [th EXCEPT ![t].auto = saved, ![t].pc = "assign"]
    /\ UNCHANGED <<disk, world, conf, up, pending, count, excused>>

Assign(t) ==
    /\ At(t, "assign")
    /\ config' = th[t].auto
    /\ th' = [th EXCEPT ![t].auto = {}, ![t].op = "status",
                        ![t].pc = IF th[t].op = "settings" THEN "reload" ELSE "read"]
    /\ UNCHANGED <<disk, world, saved, up, pending, count, excused>>

-----------------------------------------------------------------------------
(* ProcessManager *)

ReadRecords(t) ==
    /\ At(t, "read")
    /\ IF th[t].op = "stop" /\ file[th[t].name] = None
       THEN Finish(t)
       ELSE th' = [th EXCEPT ![t].value = file,
                             ![t].pc = IF th[t].op = "stop" THEN "terminate" ELSE "check"]
    /\ UNCHANGED <<disk, world, conf, up, pending, count, excused>>

Checked(value) == [n \in Names |->
    IF value[n] = None THEN None ELSE [value[n] EXCEPT !.running = PidAlive(value[n])]]

(* Mutant: start does not look whether its process runs. *)
SpawnsAlways(t, value) == th[t].op = "start"

(* After status: a start whose process does not run spawns it. *)
Spawns(t, value) == th[t].op = "start" /\ (value[th[t].name] # None => ~value[th[t].name].running)
AfterStatus(t, value) == IF Spawns(t, value)
                         THEN th' = [th EXCEPT ![t].value = NoRecords, ![t].pc = "spawn"]
                         ELSE Finish(t)

(* Mutant: what status finds out is shown and not written. *)
CheckRecordsUnwritten(t) ==
    /\ At(t, "check")
    /\ AfterStatus(t, Checked(th[t].value))
    /\ UNCHANGED <<disk, world, conf, up, pending, count, excused>>

CheckRecords(t) ==
    /\ At(t, "check")
    /\ LET value == Checked(th[t].value) IN
       IF value = th[t].value THEN AfterStatus(t, value)
       ELSE th' = [th EXCEPT ![t].value = value, ![t].pc = "write"]
    /\ UNCHANGED <<disk, world, conf, up, pending, count, excused>>

WriteRecords(t) ==
    /\ At(t, "write")
    /\ tmp' = th[t].value
    /\ Goto(t, "replace")
    /\ UNCHANGED <<file, world, conf, up, pending, count, excused>>

(* os.replace; another writer may have taken the temporary file away. *)
Replace(t) ==
    /\ At(t, "replace")
    /\ tmp' = None
    /\ IF tmp = None
       THEN Finish(t) /\ UNCHANGED file
       ELSE /\ file' = tmp
            /\ IF th[t].final THEN Finish(t) ELSE AfterStatus(t, th[t].value)
    /\ UNCHANGED <<world, conf, up, pending, count, excused>>

Spawn(t) ==
    /\ At(t, "spawn") /\ clock < MaxBirths
    /\ \E p \in {q \in Pids : os[q] = None} :
         /\ os' = [os EXCEPT ![p] = [born |-> clock, owner |-> th[t].name]]
         /\ th' = [th EXCEPT ![t].pc = "reread",
                             ![t].mine = [pid |-> p, born |-> clock, running |-> TRUE]]
    /\ clock' = clock + 1
    /\ UNCHANGED <<disk, conf, up, pending, count, excused>>

(* The command cannot be run: the request fails. *)
SpawnFails(t) ==
    /\ At(t, "spawn")
    /\ Finish(t)
    /\ UNCHANGED <<disk, world, conf, up, pending, count, excused>>

Reread(t) ==
    /\ At(t, "reread")
    /\ th' = [th EXCEPT ![t].value = [file EXCEPT ![th[t].name] = th[t].mine],
                        ![t].mine = None, ![t].pc = "write", ![t].final = TRUE]
    /\ UNCHANGED <<disk, world, conf, up, pending, count, excused>>

Stopped(value, n) == [value EXCEPT ![n] = [@ EXCEPT !.running = FALSE]]

(* stop waits up to ten seconds for the process, then writes what it read. *)
Terminate(t) ==
    /\ At(t, "terminate")
    /\ LET r == th[t].value[th[t].name] IN
       /\ os' = IF PidAlive(r) THEN [os EXCEPT ![r.pid] = None] ELSE os
       /\ th' = [th EXCEPT ![t].value = Stopped(@, th[t].name),
                           ![t].pc = "write", ![t].final = TRUE]
    /\ UNCHANGED <<disk, clock, conf, up, pending, count, excused>>

-----------------------------------------------------------------------------
(* autostart, before the server listens: the coordinator, then the seed. *)
Launch ==
    /\ up = "down"
    /\ up' = "launching" /\ config' = saved
    /\ pending' = saved
    /\ UNCHANGED <<disk, world, saved, th, count, excused>>

Autostart(t) ==
    /\ up = "launching" /\ \A u \in Threads : ~Busy(u)
    /\ pending # {}
    /\ LET n == IF "coordinator" \in pending THEN "coordinator" ELSE "seed" IN
       Begin(t, "start", n, "read") /\ pending' = pending \ {n}
    /\ UNCHANGED <<disk, world, conf, up, count>>

Serve ==
    /\ up = "launching" /\ pending = {} /\ \A u \in Threads : ~Busy(u)
    /\ up' = "serving"
    /\ UNCHANGED <<disk, world, conf, pending, th, count, excused>>

-----------------------------------------------------------------------------
(* The outside: processes end, other programs come and go, the dashboard is *)
(* killed, the machine reboots.                                             *)

Exit(p) ==
    /\ os[p] # None
    /\ os' = [os EXCEPT ![p] = None]
    /\ UNCHANGED <<disk, clock, conf, up, pending, th, count, excused>>

OtherStarts(p) ==
    /\ os[p] = None /\ clock < MaxBirths
    /\ os' = [os EXCEPT ![p] = [born |-> clock, owner |-> "other"]]
    /\ clock' = clock + 1
    /\ UNCHANGED <<disk, conf, up, pending, th, count, excused>>

Kill(rebooted) ==
    /\ up # "down" /\ kills < MaxKills
    /\ kills' = kills + 1
    /\ up' = "down" /\ config' = {} /\ pending' = {}
    /\ excused' = (excused \/ \E t \in Threads : th[t].op = "start" /\ Busy(t))
    /\ th' = [t \in Threads |-> Idle]
    /\ os' = IF rebooted THEN [p \in Pids |-> None] ELSE os
    /\ UNCHANGED <<disk, clock, saved, requests>>

Step(t) ==
    \/ SaveSettings(t) \/ Reload(t) \/ Assign(t)
    \/ ReadRecords(t) \/ CheckRecords(t) \/ WriteRecords(t) \/ Replace(t)
    \/ Spawn(t) \/ SpawnFails(t) \/ Reread(t) \/ Terminate(t)

SupervisorNext ==
    \/ Poll
    \/ \E t \in Posts, op \in Requests, n \in Names : Post(t, op, n)
    \/ \E t \in Threads : Step(t)
    \/ Launch \/ Autostart(Page) \/ Serve
    \/ \E p \in Pids : Exit(p) \/ OtherStarts(p)
    \/ \E rebooted \in BOOLEAN : Kill(rebooted)

(* A thread of the server runs on, and an open page polls for ever. *)
SupervisorSpec ==
    /\ SupervisorInit /\ [][SupervisorNext]_vars
    /\ WF_vars(Poll)
    /\ \A t \in Threads : WF_vars(Step(t))

-----------------------------------------------------------------------------
(* No process is lost: unless a start overlapped another request or the    *)
(* dashboard was killed within one, every living seed and coordinator is   *)
(* the one on record, through kills, launches and polls (the button that   *)
(* stops it reaches it, and a start finds it).                             *)
NothingOrphaned ==
    ~excused =>
      \A p \in Pids : os[p] # None /\ os[p].owner # "other" =>
         \/ LET r == file[os[p].owner] IN r # None /\ r.pid = p /\ r.born = os[p].born
         \/ \E t \in Threads : th[t].op = "start" /\ th[t].name = os[p].owner

(* A stop ends nobody else's process, whatever has become of the recorded  *)
(* pid since, also after a reboot (runtime.py:45-61).                      *)
StopsOnlyItsOwn ==
    [][\A t \in Threads : At(t, "terminate") /\ th'[t].pc = "write" =>
         \A p \in Pids : os[p] # None /\ os'[p] = None => os[p].owner = th[t].name]_vars

(* The dashboard catches up with the world: whatever requests overlap, the *)
(* records and the settings in memory come to agree with the processes and *)
(* the settings file again and again while the page is open.               *)
Agreement ==
    /\ config = saved
    /\ \A n \in Names : file[n] # None => file[n].running = PidAlive(file[n])
StatusCatchesUp == []<>(Agreement \/ up # "serving")
=============================================================================
