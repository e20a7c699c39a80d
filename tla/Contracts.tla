------------------------------ MODULE Contracts ------------------------------
(***************************************************************************)
(* The resource contracts of the reference pipeline.  The coordinator      *)
(* declares, when it queues a task, what the task needs (service.py with   *)
(* estimate_reference_requirements; a paid inference takes the defaults of *)
(* requirements_from_value) and offers it to the seeds whose owners allow  *)
(* that much (node_can_run).  The seed that claims it fetches the data,    *)
(* derives the needs again (derive_payload_requirements) and gives the     *)
(* task back when the declaration is below (contract_covers).              *)
(*                                                                         *)
(* Bytes are bytes of text: the JSON text of a value and its Python text,  *)
(* which the seed measures, have the same length for the data of this      *)
(* pipeline (ASCII strings and numbers).  Leases and replicas are          *)
(* those of TaskQueue: here one piece of work is claimed by several nodes. *)
(***************************************************************************)
EXTENDS Integers, FiniteSets, FiniteSetsExt

CONSTANTS
    Nodes,         \* the seeds
    Machine,       \* node -> [cpus, memory, free, disk]         (NodeCapabilities)
    Policy,        \* node -> [paused, cpu, share, memory, disk, seconds, kinds]
    Configs,       \* set of [branches, iterations]              (TissueConfig)
    Dataset,       \* [train, validation, test, features, row]: samples per split,
                   \* width, and bytes of one sample
    CenterBytes,   \* bytes of one branch of an artifact
    None

Kinds   == {"exploration", "training", "verification", "inference"}
Work    == Kinds \X Configs
MB      == 1048576
Quorum  == 2
CeilDiv(a, b) == (a + b - 1) \div b
Clamp(low, high, x) == Max({low, Min({high, x})})

-----------------------------------------------------------------------------
(* core/resources.py *)

EffectiveLimits(n) ==
    LET m == Machine[n]
        p == Policy[n]
    IN  [threads |-> Clamp(1, m.cpus, (m.cpus * p.cpu) \div 100),
         memory  |-> Min({(m.memory * p.share) \div 100, p.memory, m.free}),
         disk    |-> Min({p.disk, m.disk})]

NodeCanRun(kind, req, n) ==
    LET limits == EffectiveLimits(n) IN
    /\ ~Policy[n].paused
    /\ kind \in Policy[n].kinds
    /\ limits.threads >= req.threads
    /\ limits.memory >= req.memory
    /\ limits.disk >= req.disk
    /\ CeilDiv(req.bytes, MB) <= limits.disk
    /\ req.bytes <= Max({MB, limits.memory * (MB \div 4)})
    /\ Policy[n].seconds >= Max({req.estimated, req.timeout})

(* The units of work of the shape, in seconds of the reference machine. *)
Estimated(kind, units) ==
    LET raw == CeilDiv(units, 40000000) IN
    CASE kind = "inference"    -> Clamp(1, 30, raw)
      [] kind = "verification" -> Clamp(2, 1800, raw)
      [] kind = "exploration"  -> Clamp(2, 3600, raw)
      [] kind = "training"     -> Clamp(5, 86400, raw)

Memory(kind, cells) ==
    LET raw == Max({96, CeilDiv(cells * 32, MB) + 48}) IN
    IF kind = "inference" THEN Clamp(32, 256, raw) ELSE raw

EstimateReferenceRequirements(kind, samples, features, branches, iterations, size) ==
    LET estimated == Estimated(kind, samples * branches * features * iterations)
        memory    == Memory(kind, samples * Max({features, branches}))
        bytes     == Max({65536, size})
    IN  [threads   |-> 1,
         memory    |-> memory,
         maxMemory |-> Clamp(256, MB, memory * 2),
         disk      |-> CeilDiv(bytes, MB),
         estimated |-> estimated,
         timeout   |-> Min({86400, Max({estimated + 10, CeilDiv(estimated * 5, 2)})}),
         bytes     |-> bytes]

(* What a task without requirements is given: a paid inference. *)
DefaultRequirements ==
    [threads |-> 1, memory |-> 64, maxMemory |-> 256, disk |-> 16,
     estimated |-> 5, timeout |-> 30, bytes |-> 8 * MB]

ContractCovers(declared, derived) ==
    \A field \in {"memory", "maxMemory", "disk", "timeout", "bytes"} :
        declared[field] >= derived[field]

-----------------------------------------------------------------------------
(* The data of a task.  A scouting shard of an exploration with few branches *)
(* holds at most 320 samples of either split and none of the test split.     *)

Budget(config) == IF config.branches <= 80 THEN 320 ELSE Dataset.train + Dataset.validation

Data(kind, config) ==
    LET d == Dataset IN
    IF kind = "exploration" /\ config.branches <= 80
    THEN [d EXCEPT !.train = Min({@, Budget(config)}),
                   !.validation = Min({@, Budget(config)}), !.test = 0]
    ELSE d

DatasetBytes(kind, config)  == LET d == Data(kind, config) IN
                               (d.train + d.validation + d.test) * d.row
ArtifactBytes(config)       == config.branches * CenterBytes
NeedsDataset(kind)          == kind # "inference"
NeedsArtifact(kind)         == kind \in {"verification", "inference"}

(* service.py: what the coordinator writes into the task. *)
Declared(kind, config) ==
    LET d    == Data(kind, config)
        size == DatasetBytes(kind, config)
        Estimate(samples, iterations, bytes) ==
            EstimateReferenceRequirements(kind, samples, d.features, config.branches,
                                          iterations, bytes)
    IN  CASE kind \in {"exploration", "training"} ->
                Estimate(d.train + d.validation, config.iterations, size)
          [] kind = "verification" ->
                Estimate(d.test, 1, size + ArtifactBytes(config))
          [] kind = "inference" -> DefaultRequirements

(* The seed measures the Python text of both; of an absent one, that of {}. *)
SerializedHint(kind, config) ==
    (IF NeedsDataset(kind)  THEN DatasetBytes(kind, config) ELSE 2)
  + (IF NeedsArtifact(kind) THEN ArtifactBytes(config) ELSE 2)

(* The configuration of an artifact is the one it was trained with. *)
DerivePayloadRequirements(kind, config) ==
    LET d          == Data(kind, config)
        samples    == CASE kind = "verification" -> d.test
                        [] kind = "inference" -> 1
                        [] OTHER -> d.train + d.validation
        iterations == IF kind = "inference" THEN 1 ELSE config.iterations
    IN  EstimateReferenceRequirements(kind, samples, d.features, config.branches,
                                      iterations, SerializedHint(kind, config))

(* The fetched JSON has no blanks, so it is never longer than its text. *)
MaterializePayload(kind, config, budget) ==
    /\ NeedsDataset(kind) => DatasetBytes(kind, config) <= budget
    /\ NeedsArtifact(kind) =>
         LET rest == budget - (IF NeedsDataset(kind) THEN DatasetBytes(kind, config) ELSE 0)
         IN  rest >= 1024 /\ ArtifactBytes(config) <= rest

-----------------------------------------------------------------------------
VARIABLES
    declared,   \* work -> its contract, None while it is not queued
    ran,        \* work -> the nodes whose result of it was accepted
    holder,     \* node -> the work it has claimed, or None
    refused     \* <<node, work>>: given back as understated
vars == <<declared, ran, holder, refused>>

ContractsInit ==
    /\ declared = [w \in Work |-> None]
    /\ ran = [w \in Work |-> {}]
    /\ holder = [n \in Nodes |-> None]
    /\ refused = {}

(* bootstrap queues the explorations of the configurations. *)
Bootstrap ==
    /\ \A w \in Work : declared[w] = None
    /\ declared' = [w \in Work |-> IF w[1] = "exploration" THEN Declared(w[1], w[2]) ELSE None]
    /\ UNCHANGED <<ran, holder, refused>>

Claim(n, w) ==
    /\ holder[n] = None
    /\ declared[w] # None
    /\ Cardinality(ran[w]) < Quorum
    /\ n \notin ran[w]
    /\ w[1] = "verification" => n \notin ran[<<"training", w[2]>>]
    /\ NodeCanRun(w[1], declared[w], n)
    /\ holder' = [holder EXCEPT ![n] = w]
    /\ UNCHANGED <<declared, ran, refused>>

Understated(w) == ~ContractCovers(declared[w], DerivePayloadRequirements(w[1], w[2]))

(* _execute_signed_task finds the contract understated; the lease is abandoned. *)
Refuse(n) ==
    /\ holder[n] # None
    /\ MaterializePayload(holder[n][1], holder[n][2], declared[holder[n]].bytes)
    /\ Understated(holder[n])
    /\ refused' = refused \cup {<<n, holder[n]>>}
    /\ holder' = [holder EXCEPT ![n] = None]
    /\ UNCHANGED <<declared, ran>>

(* The result is accepted; a quorum of them queues what comes next, after  *)
(* an exploration only if its accuracy is high enough.                     *)
Follows(kind) == CASE kind = "exploration"  -> {"training"}
                 [] kind = "training"     -> {"verification"}
                 [] OTHER                 -> {}

Execute(n) ==
    LET w == holder[n]
        following == {v \in Work : v[1] \in Follows(w[1]) /\ v[2] = w[2]}
    IN  \E promising \in BOOLEAN :
    /\ w # None
    /\ w[1] # "exploration" => promising
    /\ MaterializePayload(w[1], w[2], declared[w].bytes)
    /\ ~Understated(w)
    /\ ran' = [ran EXCEPT ![w] = @ \cup {n}]
    /\ holder' = [holder EXCEPT ![n] = None]
    /\ declared' = [v \in Work |->
                      IF v \in following /\ Cardinality(ran'[w]) = Quorum /\ promising
                      THEN Declared(v[1], v[2]) ELSE declared[v]]
    /\ UNCHANGED refused

(* A client pays for an inference by a verified tissue. *)
CreateInferenceTask(config) ==
    /\ Cardinality(ran[<<"verification", config>>]) = Quorum
    /\ declared[<<"inference", config>>] = None
    /\ declared' = [declared EXCEPT ![<<"inference", config>>] = Declared("inference", config)]
    /\ UNCHANGED <<ran, holder, refused>>

ContractsNext ==
    \/ Bootstrap
    \/ \E n \in Nodes : \/ \E w \in Work : Claim(n, w)
                        \/ Refuse(n)
                        \/ Execute(n)
    \/ \E config \in Configs : CreateInferenceTask(config)

ContractsSpec == ContractsInit /\ [][ContractsNext]_vars

-----------------------------------------------------------------------------
(* The contract the coordinator writes for its own work is one the seeds   *)
(* accept: no honest seed that was offered the task gives it back as       *)
(* understated.  docs/HETEROGENEOUS_SEEDING.md:13 derives the requirements *)
(* from the same dimensions "and reject[s] any understated contract".      *)
QueuedWorkIsCovered == refused = {}
=============================================================================
