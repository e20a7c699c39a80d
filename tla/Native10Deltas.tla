--------------------------- MODULE Native10Deltas ---------------------------
(***************************************************************************)
(* Who may write which cells of the Native10 v6 model (v6/native10.py).    *)
(*                                                                         *)
(* The model is a set of tensors.  A work bundle names an operation and a  *)
(* target (a category, or a block of the sensory field); training it       *)
(* yields a delta, a set of patches, each a box of cells of one tensor.    *)
(* The coordinator derives the boxes a second time from the bundle, checks *)
(* each against the target's territory and the whole against a budget, and *)
(* applies the delta to the model it was trained on, alone or together     *)
(* with others that write none of its cells.  Expert operations rotate:    *)
(* each trains one group of a category's experts and moves the category's  *)
(* phase on, except that a repair trains the least healthy experts.        *)
(*                                                                         *)
(* Numbers in cells are left out.  A root is counted: every promotion      *)
(* makes a new one.  An integer entry of a selector is the interval of     *)
(* length one, as _selector_intervals has it.                              *)
(***************************************************************************)
EXTENDS Integers, FiniteSets, FiniteSetsExt, Sequences

CONSTANTS
  Configs,     \* the topologies considered, records of Native10Config
  MaxUpdates,  \* bound: promotions in a behaviour
  MaxOffers    \* bound: trained deltas that wait at one time

Positive == Nat \ {0}

(* Native10Config.__post_init__, as far as the dimensions go.                *)
ValidConfig(c) ==
  /\ c \in [input_width : Positive, field_blocks : Positive, representation_width : Positive,
            scout_projection_width : Positive, categories : Positive, classes : Positive,
            scouts_per_category : Positive, experts_per_category : Positive,
            active_experts_per_update : Positive, expert_branches : Positive,
            branch_width : Positive]
  /\ c.input_width % c.field_blocks = 0
  /\ c.representation_width % c.field_blocks = 0
  /\ c.classes % c.categories = 0
  /\ c.experts_per_category % c.active_experts_per_update = 0

ASSUME ConfigsAssumption == \A c \in Configs : ValidConfig(c)
ASSUME BoundsAssumption == MaxUpdates \in Nat /\ MaxOffers \in Nat

VARIABLES
  config,   \* the topology of this model
  root,     \* how often the canonical model was replaced
  phase,    \* rotation_phase: which group of a category's experts is next
  offers,   \* the bundles whose deltas were trained and not yet withdrawn
  trained,  \* history: promoted rotations that included the expert
  repairs   \* history: promoted repairs of the category

vars == <<config, root, phase, offers, trained, repairs>>

-----------------------------------------------------------------------------
(* Shapes.                                                                   *)

Categories == 0..(config.categories - 1)
Experts == 0..(config.experts_per_category - 1)
Group == config.active_experts_per_update
ClassesPerCategory == config.classes \div config.categories
ScoutCount == config.categories * config.scouts_per_category
RotationGroups == config.experts_per_category \div Group
FieldBlockWidth == config.input_width \div config.field_blocks
FieldBlockOutput == config.representation_width \div config.field_blocks

TensorNames ==
  {"field_weights", "field_bias", "field_mixer", "field_mixer_bias",
   "scout_weights", "scout_bias", "scout_centers", "scout_quality",
   "category_readout", "category_bias",
   "expert_branch_weights", "expert_branch_bias", "expert_branch_centers",
   "expert_branch_readout", "expert_local_bias", "expert_gate_weights",
   "expert_gate_bias", "expert_health", "expert_branch_health",
   "associative_memory", "associative_counts", "associative_strength", "rotation_phase"}

TensorShape(name) ==
  LET c == config.categories              e == config.experts_per_category
      b == config.expert_branches         r == config.representation_width
      w == config.branch_width            l == ClassesPerCategory
      f == config.field_blocks            p == config.scout_projection_width
  IN CASE name = "field_weights" -> <<f, FieldBlockWidth, FieldBlockOutput>>
       [] name = "field_bias" -> <<f, FieldBlockOutput>>
       [] name = "field_mixer" -> <<r, r>>
       [] name = "field_mixer_bias" -> <<r>>
       [] name = "scout_weights" -> <<ScoutCount, r, p>>
       [] name \in {"scout_bias", "scout_centers"} -> <<ScoutCount, p>>
       [] name = "scout_quality" -> <<ScoutCount>>
       [] name = "category_readout" -> <<c, r>>
       [] name \in {"category_bias", "rotation_phase"} -> <<c>>
       [] name = "expert_branch_weights" -> <<c, e, b, r, w>>
       [] name \in {"expert_branch_bias", "expert_branch_centers"} -> <<c, e, b, w>>
       [] name = "expert_branch_readout" -> <<c, e, b, w, l>>
       [] name = "expert_local_bias" -> <<c, e, l>>
       [] name = "expert_gate_weights" -> <<c, e, r>>
       [] name \in {"expert_gate_bias", "expert_health"} -> <<c, e>>
       [] name = "expert_branch_health" -> <<c, e, b>>
       [] name = "associative_memory" -> <<config.classes, r>>
       [] name \in {"associative_counts", "associative_strength"} -> <<config.classes>>

-----------------------------------------------------------------------------
(* Patches: boxes of cells.                                                  *)

At(i) == <<i, i + 1>>
Span(start, stop) == <<start, stop>>

(* All of the axes of a tensor after its first k.                            *)
Rest(name, k) ==
  LET shape == TensorShape(name)
  IN  SubSeq([i \in DOMAIN shape |-> Span(0, shape[i])], k + 1, Len(shape))

Patch(name, selector) == [tensor |-> name, selector |-> selector]

(* normalize_selector accepts the selector for the tensor's shape.           *)
Fits(p) ==
  LET shape == TensorShape(p.tensor)
  IN  /\ DOMAIN p.selector = DOMAIN shape
      /\ \A i \in DOMAIN shape :
           /\ p.selector[i][1] \in Nat /\ p.selector[i][2] \in Nat
           /\ p.selector[i][1] < p.selector[i][2]
           /\ p.selector[i][2] <= shape[i]

(* The number of cells of a patch.                                           *)
Volume(p) ==
  LET width(i) == IF i \in DOMAIN p.selector THEN p.selector[i][2] - p.selector[i][1] ELSE 1
  IN  width(1) * width(2) * width(3) * width(4) * width(5)

MaxOf(m, n) == IF m < n THEN n ELSE m
MinOf(m, n) == IF m < n THEN m ELSE n

(* Mutant: adjacent intervals are said to overlap.                           *)
PatchesTouch(p, q) ==
  /\ p.tensor = q.tensor
  /\ \A i \in DOMAIN p.selector :
       MaxOf(p.selector[i][1], q.selector[i][1]) <= MinOf(p.selector[i][2], q.selector[i][2])

PatchesOverlap(p, q) ==
  /\ p.tensor = q.tensor
  /\ \A i \in DOMAIN p.selector :
       MaxOf(p.selector[i][1], q.selector[i][1]) < MinOf(p.selector[i][2], q.selector[i][2])

-----------------------------------------------------------------------------
(* Operations and their territories.                                         *)

RotatingOperations == {"expert_train", "branch_train"}
ExpertOperations == RotatingOperations \cup {"repair"}
Operations == ExpertOperations \cup {"scout_train", "memory_train", "field_train"}

Targets(operation) ==
  IF operation = "field_train" THEN 0..(config.field_blocks - 1) ELSE Categories

BranchTensors == {"expert_branch_weights", "expert_branch_bias", "expert_branch_centers",
                  "expert_branch_readout", "expert_health", "expert_branch_health"}
GateTensors == {"expert_local_bias", "expert_gate_weights", "expert_gate_bias"}
ScoutTensors == {"scout_weights", "scout_bias", "scout_centers", "scout_quality"}
RouterTensors == {"category_readout", "category_bias"}
MemoryTensors == {"associative_memory", "associative_counts", "associative_strength"}
FieldTensors == {"field_weights", "field_bias", "field_mixer", "field_mixer_bias"}

(* operation_schema: the tensors an operation may write.                     *)
Allowed(operation) ==
  CASE operation \in {"expert_train", "repair"} -> BranchTensors \cup GateTensors \cup {"rotation_phase"}
    [] operation = "branch_train" -> BranchTensors \cup {"rotation_phase"}
    [] operation = "scout_train" -> ScoutTensors \cup RouterTensors
    [] operation = "memory_train" -> MemoryTensors
    [] operation = "field_train" -> FieldTensors \cup RouterTensors

(* Mutant: the cell of the rotation phase is forgotten.                      *)
BudgetWithoutPhase(operation) ==
  LET r == config.representation_width   b == config.expert_branches
      w == config.branch_width           l == ClassesPerCategory
  IN CASE operation \in {"expert_train", "repair"} ->
            Group * (b * r * w + b * w + b * w + b * w * l + l + r + 1 + 1 + b)
       [] OTHER -> 1000

(* operation_schema: max_changed_parameters.                                 *)
Budget(operation) ==
  LET r == config.representation_width   b == config.expert_branches
      w == config.branch_width           l == ClassesPerCategory
      p == config.scout_projection_width o == FieldBlockOutput
  IN CASE operation \in {"expert_train", "repair"} ->
            Group * (b * r * w + b * w + b * w + b * w * l + l + r + 1 + 1 + b) + 1
       [] operation = "branch_train" -> Group * (b * r * w + b * w * (2 + l) + b + 1) + 1
       [] operation = "scout_train" -> config.scouts_per_category * (r * p + 2 * p + 1) + r + 1
       [] operation = "memory_train" -> l * (r + 2)
       [] operation = "field_train" ->
            FieldBlockWidth * o + o + o * r + r + config.categories * r + config.categories

(* Cells of the scouts, of the class memories and of the mixer that belong to *)
(* a target.                                                                 *)
Scouts(t) == Span(t * config.scouts_per_category, (t + 1) * config.scouts_per_category)
LocalClasses(t) == Span(t * ClassesPerCategory, (t + 1) * ClassesPerCategory)
BlockRows(t) == Span(t * FieldBlockOutput, (t + 1) * FieldBlockOutput)

(* expected_write_plan: what the coordinator lets a bundle write.            *)
ExpectedWritePlan(b) ==
  CASE b.operation \in ExpertOperations ->
         {Patch(n, <<At(b.target), At(e)>> \o Rest(n, 2)) :
            n \in Allowed(b.operation) \ {"rotation_phase"}, e \in b.active}
           \cup {Patch("rotation_phase", <<At(b.target)>>)}
    [] b.operation = "scout_train" ->
         {Patch(n, <<Scouts(b.target)>> \o Rest(n, 1)) : n \in ScoutTensors}
           \cup {Patch(n, <<At(b.target)>> \o Rest(n, 1)) : n \in RouterTensors}
    [] b.operation = "memory_train" ->
         {Patch(n, <<LocalClasses(b.target)>> \o Rest(n, 1)) : n \in MemoryTensors}
    [] b.operation = "field_train" ->
         {Patch(n, <<At(b.target)>> \o Rest(n, 1)) : n \in {"field_weights", "field_bias"}}
           \cup {Patch("field_mixer", <<BlockRows(b.target)>> \o Rest("field_mixer", 1))}
           \cup {Patch(n, Rest(n, 0)) : n \in RouterTensors \cup {"field_mixer_bias"}}

(* Mutant: the gates, which are trained, are left out of the patches.        *)
PatchesWithoutGates(b) == {p \in ExpectedWritePlan(b) : p.tensor \notin GateTensors}

(* execute_mutation: the patches a worker cuts out of what it trained.       *)
ExpertTensors(operation) ==
  IF operation = "branch_train" THEN BranchTensors ELSE BranchTensors \cup GateTensors

PhaseCell(b) == Patch("rotation_phase", <<At(b.target)>>)

ExpertPatches(b) ==
  {Patch(n, <<At(b.target), At(e)>> \o Rest(n, 2)) : n \in ExpertTensors(b.operation), e \in b.active}
    \cup {PhaseCell(b)}

ScoutPatches(b) ==
  {Patch("scout_weights", <<Scouts(b.target)>> \o Rest("scout_weights", 1)),
   Patch("scout_bias", <<Scouts(b.target)>> \o Rest("scout_bias", 1)),
   Patch("scout_centers", <<Scouts(b.target)>> \o Rest("scout_centers", 1)),
   Patch("scout_quality", <<Scouts(b.target)>>),
   Patch("category_readout", <<At(b.target), Span(0, config.representation_width)>>),
   Patch("category_bias", <<At(b.target)>>)}

MemoryPatches(b) == {Patch(n, <<LocalClasses(b.target)>> \o Rest(n, 1)) : n \in MemoryTensors}

FieldPatches(b) ==
  {Patch("field_weights", <<At(b.target), Span(0, FieldBlockWidth), Span(0, FieldBlockOutput)>>),
   Patch("field_bias", <<At(b.target), Span(0, FieldBlockOutput)>>),
   Patch("field_mixer", <<BlockRows(b.target), Span(0, config.representation_width)>>),
   Patch("field_mixer_bias", <<Span(0, config.representation_width)>>),
   Patch("category_readout", <<Span(0, config.categories), Span(0, config.representation_width)>>),
   Patch("category_bias", <<Span(0, config.categories)>>)}

Patches(b) ==
  CASE b.operation \in ExpertOperations -> ExpertPatches(b)
    [] b.operation = "scout_train" -> ScoutPatches(b)
    [] b.operation = "memory_train" -> MemoryPatches(b)
    [] b.operation = "field_train" -> FieldPatches(b)

(* What the training loops assign, whether or not it is cut out afterwards.  *)
(* The loop over the experts moves the local bias also when, for             *)
(* branch_train, the gates are not trained.                                  *)
TrainExperts(b) ==
  {Patch(n, <<At(b.target), At(e)>> \o Rest(n, 2)) :
     n \in BranchTensors \cup IF b.operation = "branch_train"
                                THEN {"expert_local_bias"} ELSE GateTensors,
     e \in b.active}

TrainMemory(b) == {Patch(n, <<LocalClasses(b.target)>> \o Rest(n, 1)) : n \in MemoryTensors}

TrainScouts(b) ==
  {Patch(n, <<Scouts(b.target)>> \o Rest(n, 1)) : n \in ScoutTensors}
    \cup {Patch(n, <<At(b.target)>> \o Rest(n, 1)) : n \in RouterTensors}

TrainField(b) ==
  {Patch(n, <<At(b.target)>> \o Rest(n, 1)) : n \in {"field_weights", "field_bias"}}
    \cup {Patch("field_mixer", <<BlockRows(b.target)>> \o Rest("field_mixer", 1))}
    \cup {Patch(n, Rest(n, 0)) : n \in RouterTensors \cup {"field_mixer_bias"}}

Touched(b) ==
  CASE b.operation \in ExpertOperations ->
         TrainExperts(b) \cup {PhaseCell(b)}
    [] b.operation = "scout_train" -> TrainScouts(b)
    [] b.operation = "memory_train" -> TrainMemory(b)
    [] b.operation = "field_train" -> TrainField(b)

-----------------------------------------------------------------------------
(* Checks of the coordinator.                                                *)

(* _patches_allowed: one patch against the territory of the target.          *)
InTerritory(p, b) ==
  LET first == p.selector[1]
  IN CASE b.operation \in ExpertOperations ->
            /\ first = At(b.target)
            /\ p.tensor # "rotation_phase" => p.selector[2] \in {At(e) : e \in b.active}
       [] b.operation = "scout_train" ->
            first = IF p.tensor \in ScoutTensors THEN Scouts(b.target) ELSE At(b.target)
       [] b.operation = "memory_train" -> first = LocalClasses(b.target)
       [] b.operation = "field_train" ->
            CASE p.tensor \in {"field_weights", "field_bias"} -> first = At(b.target)
              [] p.tensor = "field_mixer" -> first = BlockRows(b.target)
              [] p.tensor = "field_mixer_bias" -> first = Span(0, config.representation_width)
              [] OTHER -> first[1] = 0

(* _patches_allowed: the delta as a whole.                                   *)
PatchesAllowed(b) ==
  /\ \A p \in Patches(b) : p.tensor \in Allowed(b.operation) \cap TensorNames
                            /\ Fits(p) /\ InTerritory(p, b)
  /\ MapThenSumSet(Volume, Patches(b)) <= Budget(b.operation)
  /\ b.operation \in ExpertOperations =>
       /\ Cardinality(b.active) = Group
       /\ \E p \in Patches(b) : p.tensor = "rotation_phase"

ValidDelta(b) == PatchesAllowed(b) /\ Patches(b) = ExpectedWritePlan(b)

(* Mutant: only the same patch twice is a conflict.                          *)
DeltasRepeat(b, d) == Patches(b) \subseteq Patches(d)

DeltasConflict(b, d) == \E p \in Patches(b), q \in Patches(d) : PatchesOverlap(p, q)

-----------------------------------------------------------------------------

Init ==
  /\ config \in Configs
  /\ root = 0
  /\ phase = [c \in Categories |-> 0]
  /\ offers = {}
  /\ trained = [c \in Categories |-> [e \in Experts |-> 0]]
  /\ repairs = [c \in Categories |-> 0]

(* Mutant: the groups of successive phases share experts.                    *)
SlidingGroups(operation, t) ==
  CASE operation \in RotatingOperations -> {phase[t] .. phase[t] + Group - 1}
    [] operation = "repair" -> kSubset(Group, Experts)
    [] OTHER -> {{}}

(* The experts a bundle updates.  Health is not modelled: any group may be   *)
(* the least healthy one.                                                    *)
ActiveGroups(operation, t) ==
  CASE operation \in RotatingOperations ->
         {phase[t] * Group .. (phase[t] + 1) * Group - 1}
    [] operation = "repair" -> kSubset(Group, Experts)
    [] OTHER -> {{}}

(* component_bundle of the canonical model, with the group it will train.    *)
ComponentBundles(operation, t) ==
  {[base |-> root, operation |-> operation, target |-> t, active |-> A,
    phase |-> IF operation \in ExpertOperations THEN phase[t] ELSE 0] :
     A \in ActiveGroups(operation, t)}

PhaseAfter(b) == (b.phase + 1) % RotationGroups

(* A worker trains a bundle of the canonical model.                          *)
ExecuteMutation(operation, t) ==
  /\ root < MaxUpdates
  /\ Cardinality(offers) < MaxOffers
  /\ \E b \in ComponentBundles(operation, t) : offers' = offers \cup {b}
  /\ UNCHANGED <<config, root, phase, trained, repairs>>

(* The patches of the deltas B are assigned to the model: the phase is set   *)
(* to the value in the patch, never incremented.                             *)
Assign(B) ==
  LET rotating(c) == {b \in B : b.operation \in ExpertOperations /\ b.target = c}
  IN  /\ root' = root + 1
      /\ offers' = offers \ B
      /\ phase' \in {f \in [Categories -> 0..(RotationGroups - 1)] : \A c \in Categories :
                      f[c] \in IF rotating(c) = {} THEN {phase[c]}
                              ELSE {PhaseAfter(b) : b \in rotating(c)}}
      /\ trained' = [c \in Categories |-> [e \in Experts |->
           trained[c][e] + Cardinality({b \in rotating(c) :
                              b.operation \in RotatingOperations /\ e \in b.active})]]
      /\ repairs' = [c \in Categories |->
           repairs[c] + Cardinality({b \in rotating(c) : b.operation = "repair"})]
      /\ UNCHANGED config

(* Mutant: a delta trained on an earlier model is applied.                   *)
OnAnyRoot(b) == b.base <= root

(* The delta's parent is the canonical model.                                *)
OnRoot(b) == b.base = root

ApplyDelta(b) ==
  /\ root < MaxUpdates
  /\ OnRoot(b) /\ ValidDelta(b)
  /\ Assign({b})

(* Several deltas of one parent, none of which writes a cell of another.     *)
ComposeNonConflictingDeltas(B) ==
  /\ root < MaxUpdates
  /\ Cardinality(B) > 1
  /\ \A b \in B : OnRoot(b) /\ ValidDelta(b)
  /\ \A b, d \in B : b # d => ~DeltasConflict(b, d)
  /\ Assign(B)

(* A delta that is not promoted: beaten, rejected, or of an old root.        *)
Withdraw(b) ==
  /\ offers' = offers \ {b}
  /\ UNCHANGED <<config, root, phase, trained, repairs>>

Next ==
  \/ \E operation \in Operations : \E t \in Targets(operation) : ExecuteMutation(operation, t)
  \/ \E b \in offers : ApplyDelta(b) \/ Withdraw(b)
  \/ \E B \in SUBSET offers : ComposeNonConflictingDeltas(B)

Spec == Init /\ [][Next]_vars

-----------------------------------------------------------------------------
(* The cells of a tensor: five coordinates, 0 for the axes it does not have. *)
Axis(name, i) == IF i \in DOMAIN TensorShape(name) THEN 0..(TensorShape(name)[i] - 1) ELSE {0}

Cells(name) == Axis(name, 1) \X Axis(name, 2) \X Axis(name, 3) \X Axis(name, 4) \X Axis(name, 5)

Writes(p, cell) ==
  \A i \in DOMAIN p.selector : p.selector[i][1] <= cell[i] /\ cell[i] < p.selector[i][2]

SharedCell(p, q) ==
  /\ p.tensor = q.tensor
  /\ \E cell \in Cells(p.tensor) : Writes(p, cell) /\ Writes(q, cell)

-----------------------------------------------------------------------------
(* What a worker cuts out of an honest training passes the checks of the     *)
(* coordinator: the write plan derived a second time, the territories and    *)
(* the parameter budget agree on every shape.  If they did not the round of  *)
(* that operation could never end.                                           *)
HonestWorkIsAdmitted == \A b \in offers : ValidDelta(b)

(* Two valid deltas are said to conflict (deltas_conflict compares intervals *)
(* axis by axis) exactly when some cell is written by both.                  *)
ConflictsAreSharedCells ==
  \A b, d \in offers : b # d /\ ValidDelta(b) /\ ValidDelta(d) =>
    (DeltasConflict(b, d) <=> \E p \in Patches(b), q \in Patches(d) : SharedCell(p, q))

(* All that training changes is in the delta, with one exception: the loop   *)
(* of branch_train moves the experts' local bias, which its patches lack.    *)
TrainingIsDelivered ==
  \A b \in offers : \A p \in Touched(b) \ Patches(b) :
    b.operation = "branch_train" /\ p.tensor = "expert_local_bias"

(* No expert is trained a second time before the whole colony of its         *)
(* category was trained once, except for the turn a repair takes away: it    *)
(* moves the phase on and trains other experts than the phase's.             *)
ExpertsRotate ==
  \A c \in Categories : \A e, f \in Experts :
    trained[c][e] <= trained[c][f] + 1 + repairs[c]
=============================================================================
