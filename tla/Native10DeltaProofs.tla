------------------------ MODULE Native10DeltaProofs ------------------------
(***************************************************************************)
(* Proved for every topology: comparing the selectors of two valid deltas  *)
(* axis by axis decides whether some cell of the model is written by both. *)
(* The argument is about two boxes: where they overlap on every axis, the  *)
(* cell with the larger of the two starts as its coordinates is in both.   *)
(*                                                                         *)
(* And for every topology and any promotions: the rotation of experts is   *)
(* fair, since a delta is applied to the root it was trained on only, so   *)
(* that its phase is still the phase it moves on.                          *)
(*                                                                         *)
(* And training is delivered: the worker's patches, the coordinator's plan *)
(* and the cells the training loops assign are compared operation by       *)
(* operation.                                                              *)
(*                                                                         *)
(* And honest work is admitted: every patch is a box cut at its target's   *)
(* first axes, and the volumes of an operation's boxes, added up by        *)
(* induction over the experts trained, are what its budget multiplies out. *)
(***************************************************************************)
EXTENDS Native10Deltas, FiniteSetTheorems, WellFoundedInduction, TLAPS

(* Every quotient a shape is made of is a natural number.                    *)
LEMMA Quotients ==
  ASSUME NEW m \in Positive, NEW n \in Positive
  PROVE  m \div n \in Nat
BY DEF Positive

(* A tensor has at most five axes, of natural length.                        *)
LEMMA Axes ==
  ASSUME config \in Configs, NEW name \in TensorNames
  PROVE  /\ DOMAIN TensorShape(name) \subseteq 1..5
         /\ \A i \in DOMAIN TensorShape(name) : TensorShape(name)[i] \in Nat
<1> DEFINE c == config.categories
           e == config.experts_per_category
           b == config.expert_branches
           r == config.representation_width
           w == config.branch_width
           l == ClassesPerCategory
           f == config.field_blocks
           p == config.scout_projection_width
           n == config.classes
           x == FieldBlockWidth
           o == FieldBlockOutput
           s == ScoutCount
<1>1. ValidConfig(config)
  BY ConfigsAssumption
<1>2. c \in Nat /\ e \in Nat /\ b \in Nat /\ r \in Nat /\ w \in Nat /\ f \in Nat /\ p \in Nat /\ n \in Nat
  BY <1>1 DEF ValidConfig, Positive
<1>3. l \in Nat /\ x \in Nat /\ o \in Nat
  BY <1>1, Quotients DEF ValidConfig, ClassesPerCategory, FieldBlockWidth, FieldBlockOutput
<1>4. s \in Nat
  BY <1>1 DEF ValidConfig, ScoutCount, Positive
<1>5. TensorShape(name) \in {<<f, x, o>>, <<f, o>>, <<r, r>>, <<r>>, <<s, r, p>>, <<s, p>>, <<s>>,
                             <<c, r>>, <<c>>, <<c, e, b, r, w>>, <<c, e, b, w>>,
                             <<c, e, b, w, l>>, <<c, e, l>>, <<c, e, r>>, <<c, e>>,
                             <<c, e, b>>, <<n, r>>, <<n>>}
  BY DEF TensorNames, TensorShape
<1> HIDE DEF c, e, b, r, w, l, f, p, n, x, o, s
<1> QED
  BY <1>2, <1>3, <1>4, <1>5

(* Two boxes that fit the same tensor overlap iff they share a cell.         *)
LEMMA OverlapIsSharedCell ==
  ASSUME config \in Configs,
         NEW p, NEW q,
         p.tensor \in TensorNames, Fits(p), Fits(q), p.tensor = q.tensor
  PROVE  PatchesOverlap(p, q) <=> SharedCell(p, q)
<1> DEFINE shape == TensorShape(p.tensor)
           start(i) == MaxOf(p.selector[i][1], q.selector[i][1])
           stop(i) == MinOf(p.selector[i][2], q.selector[i][2])
           at(i) == IF i \in DOMAIN shape THEN start(i) ELSE 0
           cell == <<at(1), at(2), at(3), at(4), at(5)>>
<1>1. DOMAIN shape \subseteq 1..5 /\ \A i \in DOMAIN shape : shape[i] \in Nat
  BY Axes
<1>2. /\ DOMAIN p.selector = DOMAIN shape
      /\ DOMAIN q.selector = DOMAIN shape
      /\ \A i \in DOMAIN shape :
           /\ p.selector[i][1] \in Nat /\ p.selector[i][2] \in Nat
           /\ q.selector[i][1] \in Nat /\ q.selector[i][2] \in Nat
           /\ p.selector[i][2] <= shape[i] /\ q.selector[i][2] <= shape[i]
  BY DEF Fits
<1>3. ASSUME PatchesOverlap(p, q)
      PROVE  SharedCell(p, q)
  <2>1. \A i \in DOMAIN shape : start(i) < stop(i)
    BY <1>2, <1>3 DEF PatchesOverlap
  <2>2. \A i \in DOMAIN shape :
          /\ at(i) \in Nat
          /\ p.selector[i][1] <= at(i) /\ at(i) < p.selector[i][2]
          /\ q.selector[i][1] <= at(i) /\ at(i) < q.selector[i][2]
          /\ at(i) < shape[i]
    BY <1>1, <1>2, <2>1 DEF MaxOf, MinOf
  <2>3. \A i \in 1..5 : at(i) \in Axis(p.tensor, i)
    <3> SUFFICES ASSUME NEW i \in 1..5 PROVE at(i) \in Axis(p.tensor, i)
      OBVIOUS
    <3>1. CASE i \in DOMAIN shape
      BY <1>1, <2>2, <3>1 DEF Axis
    <3>2. CASE i \notin DOMAIN shape
      BY <3>2 DEF Axis
    <3> QED BY <3>1, <3>2
  <2> HIDE DEF at
  <2>4. cell \in Cells(p.tensor)
    BY <2>3 DEF Cells
  <2>5. \A i \in 1..5 : cell[i] = at(i)
    OBVIOUS
  <2> HIDE DEF cell
  <2>6. Writes(p, cell) /\ Writes(q, cell)
    BY <1>1, <1>2, <2>2, <2>5 DEF Writes
  <2> QED
    BY <2>4, <2>6 DEF SharedCell
<1>4. ASSUME SharedCell(p, q)
      PROVE  PatchesOverlap(p, q)
  <2>1. PICK k \in Cells(p.tensor) : Writes(p, k) /\ Writes(q, k)
    BY <1>4 DEF SharedCell
  <2>2. \A i \in 1..5 : k[i] \in Axis(p.tensor, i)
    BY <2>1 DEF Cells
  <2>3. \A i \in DOMAIN shape : k[i] \in Int
    <3> SUFFICES ASSUME NEW i \in DOMAIN shape PROVE k[i] \in Int
      OBVIOUS
    <3>1. k[i] \in Axis(p.tensor, i)
      BY <1>1, <2>2
    <3>2. Axis(p.tensor, i) = 0..(shape[i] - 1)
      BY DEF Axis
    <3> QED BY <1>1, <3>1, <3>2
  <2>4. \A i \in DOMAIN shape :
          /\ p.selector[i][1] <= k[i] /\ k[i] < p.selector[i][2]
          /\ q.selector[i][1] <= k[i] /\ k[i] < q.selector[i][2]
    BY <1>2, <2>1 DEF Writes
  <2>5. \A i \in DOMAIN shape : start(i) < stop(i)
    BY <1>2, <2>3, <2>4 DEF MaxOf, MinOf
  <2> QED
    BY <1>2, <2>5 DEF PatchesOverlap
<1> QED
  BY <1>3, <1>4

(* deltas_conflict is exact on the deltas that validate_delta accepts.       *)
LEMMA ConflictIsExact ==
  ASSUME config \in Configs
  PROVE  ConflictsAreSharedCells
<1> SUFFICES ASSUME NEW b \in offers, NEW d \in offers, ValidDelta(b), ValidDelta(d)
             PROVE  DeltasConflict(b, d) <=>
                      \E p \in Patches(b), q \in Patches(d) : SharedCell(p, q)
  BY DEF ConflictsAreSharedCells
<1>1. \A p \in Patches(b) : p.tensor \in TensorNames /\ Fits(p)
  BY DEF ValidDelta, PatchesAllowed
<1>2. \A q \in Patches(d) : q.tensor \in TensorNames /\ Fits(q)
  BY DEF ValidDelta, PatchesAllowed
<1>3. \A p \in Patches(b), q \in Patches(d) : PatchesOverlap(p, q) <=> SharedCell(p, q)
  <2> SUFFICES ASSUME NEW p \in Patches(b), NEW q \in Patches(d)
               PROVE  PatchesOverlap(p, q) <=> SharedCell(p, q)
    OBVIOUS
  <2>1. CASE p.tensor = q.tensor
    BY <1>1, <1>2, <2>1, OverlapIsSharedCell
  <2>2. CASE p.tensor # q.tensor
    BY <2>2 DEF PatchesOverlap, SharedCell
  <2> QED BY <2>1, <2>2
<1> QED
  BY <1>3 DEF DeltasConflict

TopologyInv == config \in Configs

(* No step changes the topology of the model.                                *)
LEMMA TopologyStays == TopologyInv /\ [Next]_vars => TopologyInv'
BY DEF TopologyInv, Next, vars, ExecuteMutation, ApplyDelta, ComposeNonConflictingDeltas, Withdraw, Assign

(* In every behaviour, of any topology, the interval comparison of           *)
(* deltas_conflict says exactly whether two valid deltas share a cell.       *)
THEOREM ConflictsAreExact == Spec => []ConflictsAreSharedCells
<1>1. Init => TopologyInv
  BY DEF Init, TopologyInv
<1>2. TopologyInv => ConflictsAreSharedCells
  BY ConflictIsExact DEF TopologyInv
<1> QED
  BY <1>1, <1>2, TopologyStays, PTL DEF Spec

-----------------------------------------------------------------------------
(***************************************************************************)
(* The rotation.  A category's experts are trained in rounds: before the   *)
(* phase all were trained once more than behind it.  A repair moves the    *)
(* phase on without training, so an expert may lag by as many turns as the *)
(* category was repaired, and never leads.                                 *)
(***************************************************************************)

(* How often an expert is due when k colonies were completed.                *)
Due(k, p, e) == IF e < p * Group THEN k + 1 ELSE k

InTurn(T, repaired, p) ==
  \E k \in Nat : \A e \in Experts :
    T[e] <= Due(k, p, e) /\ Due(k, p, e) <= T[e] + repaired

(* What a bundle of the canonical model trains.                              *)
OfPhase(b) ==
  /\ b.target \in Categories
  /\ b.phase = phase[b.target]
  /\ b.operation \in RotatingOperations => b.active = b.phase * Group .. (b.phase + 1) * Group - 1

RotationInv ==
  /\ config \in Configs
  /\ root \in Nat
  /\ phase \in [Categories -> 0..(RotationGroups - 1)]
  /\ trained \in [Categories -> [Experts -> Nat]]
  /\ repairs \in [Categories -> Nat]
  /\ \A b \in offers :
       /\ b.base \in 0..root
       /\ b.base = root /\ b.operation \in ExpertOperations => OfPhase(b)
  /\ \A c \in Categories : InTurn(trained[c], repairs[c], phase[c])

(* The groups divide a category's experts.                                   *)
LEMMA GroupsDivide ==
  ASSUME config \in Configs
  PROVE  /\ Group \in Positive
         /\ RotationGroups \in Positive
         /\ config.experts_per_category = RotationGroups * Group
         /\ Categories \subseteq Nat
<1>1. ValidConfig(config)
  BY ConfigsAssumption
<1>2. Group \in Positive /\ config.experts_per_category \in Positive
      /\ config.experts_per_category % Group = 0 /\ config.categories \in Positive
  BY <1>1 DEF ValidConfig, Group
<1>3. \A m, n \in Nat \ {0} : m % n = 0 => m = (m \div n) * n /\ m \div n \in Nat \ {0}
  <2> SUFFICES ASSUME NEW m \in Nat \ {0}, NEW n \in Nat \ {0}, m % n = 0
               PROVE  m = (m \div n) * n /\ m \div n \in Nat \ {0}
    OBVIOUS
  <2>0. m \div n \in Int
    OBVIOUS
  <2>1. m = n * (m \div n)
    BY SMTT(30)
  <2> DEFINE d == m \div n
  <2>2. m = n * d /\ d \in Int
    BY <2>0, <2>1
  <2> HIDE DEF d
  <2>3. n * d = d * n
    BY <2>2
  <2>4. d > 0
    BY <2>2
  <2> QED
    BY <2>2, <2>3, <2>4 DEF d
<1> QED
  BY <1>2, <1>3 DEF Positive, RotationGroups, Categories

(* The experts before the next phase are those before this one and its group. *)
LEMMA NextGroup ==
  ASSUME NEW g \in Nat, NEW p \in Nat
  PROVE  /\ (p + 1) * g = p * g + g
         /\ p * g \in Nat
         /\ p * g .. (p + 1) * g - 1 = p * g .. p * g + g - 1
<1>1. (p + 1) * g = p * g + g
  OBVIOUS
<1>2. p * g \in Nat
  OBVIOUS
<1> QED
  BY <1>1, <1>2

(* Moving the phase on: what is due grows for the experts of the phase only. *)
LEMMA DueAfter ==
  ASSUME config \in Configs,
         NEW p \in 0..(RotationGroups - 1),
         NEW k \in Nat
  PROVE  \E m \in Nat : \A e \in Experts :
           Due(m, (p + 1) % RotationGroups, e)
             = IF e \in p * Group .. (p + 1) * Group - 1 THEN Due(k, p, e) + 1 ELSE Due(k, p, e)
<1> DEFINE g == Group
           x == p * g
           n == RotationGroups
<1>1. g \in Nat /\ n \in Nat \ {0} /\ p \in Nat /\ p <= n - 1
  BY GroupsDivide DEF Positive
<1>2. x \in Nat /\ (p + 1) * g = x + g
  BY <1>1, NextGroup
<1>3. \A e \in Experts : e \in Nat /\ e < n * g
  BY GroupsDivide, <1>1 DEF Experts
<1>4. CASE p + 1 < n
  <2>1. (p + 1) % n = p + 1
    BY <1>1, <1>4
  <2> HIDE DEF x, n, g
  <2>2. \A e \in Experts :
          Due(k, p + 1, e) = IF e \in x .. x + g - 1 THEN Due(k, p, e) + 1 ELSE Due(k, p, e)
    <3> SUFFICES ASSUME NEW e \in Experts
                 PROVE  Due(k, p + 1, e)
                          = IF e \in x .. x + g - 1 THEN Due(k, p, e) + 1 ELSE Due(k, p, e)
      OBVIOUS
    <3>1. Due(k, p + 1, e) = IF e < x + g THEN k + 1 ELSE k
      BY <1>2 DEF Due, g
    <3>2. Due(k, p, e) = IF e < x THEN k + 1 ELSE k
      BY DEF Due, x, g
    <3> QED
      BY <1>1, <1>2, <1>3, <3>1, <3>2
  <2>3. p * Group .. (p + 1) * Group - 1 = x .. x + g - 1
    <3>1. \A y, z \in Int : y = x /\ z = x + g => y .. z - 1 = x .. x + g - 1
      BY <1>1, <1>2
    <3>2. p * Group = x /\ (p + 1) * Group = x + g /\ x \in Int /\ x + g \in Int
      BY <1>1, <1>2 DEF x, g
    <3> QED
      BY <3>1, <3>2, Zenon
  <2>4. (p + 1) % RotationGroups = p + 1
    BY <2>1 DEF n
  <2>5. \A e \in Experts :
          Due(k, (p + 1) % RotationGroups, e)
            = IF e \in p * Group .. (p + 1) * Group - 1 THEN Due(k, p, e) + 1 ELSE Due(k, p, e)
    BY <2>2, <2>3, <2>4, Zenon
  <2> QED
    BY <2>5
<1>5. CASE p + 1 = n
  <2>1. (p + 1) % n = 0
    BY <1>1, <1>5
  <2>2. n * g = x + g
    BY <1>2, <1>5
  <2> HIDE DEF x, n, g
  <2>3. \A e \in Experts :
          Due(k + 1, 0, e) = IF e \in x .. x + g - 1 THEN Due(k, p, e) + 1 ELSE Due(k, p, e)
    <3> SUFFICES ASSUME NEW e \in Experts
                 PROVE  Due(k + 1, 0, e)
                          = IF e \in x .. x + g - 1 THEN Due(k, p, e) + 1 ELSE Due(k, p, e)
      OBVIOUS
    <3>0. 0 * g = 0
      BY <1>1
    <3>1. Due(k + 1, 0, e) = IF e < 0 THEN k + 2 ELSE k + 1
      BY <3>0 DEF Due, g
    <3>2. Due(k, p, e) = IF e < x THEN k + 1 ELSE k
      BY DEF Due, x, g
    <3> QED
      BY <1>1, <1>2, <1>3, <2>2, <3>1, <3>2
  <2>4. p * Group .. (p + 1) * Group - 1 = x .. x + g - 1
    <3>1. \A y, z \in Int : y = x /\ z = x + g => y .. z - 1 = x .. x + g - 1
      BY <1>1, <1>2
    <3>2. p * Group = x /\ (p + 1) * Group = x + g /\ x \in Int /\ x + g \in Int
      BY <1>1, <1>2 DEF x, g
    <3> QED
      BY <3>1, <3>2, Zenon
  <2>5. (p + 1) % RotationGroups = 0
    BY <2>1 DEF n
  <2>6. \A e \in Experts :
          Due(k + 1, (p + 1) % RotationGroups, e)
            = IF e \in p * Group .. (p + 1) * Group - 1 THEN Due(k, p, e) + 1 ELSE Due(k, p, e)
    BY <2>3, <2>4, <2>5, Zenon
  <2>7. k + 1 \in Nat
    OBVIOUS
  <2> QED
    BY <2>6, <2>7
<1> QED
  BY <1>1, <1>4, <1>5

LEMMA DueIsNat == ASSUME NEW k \in Nat, NEW p, NEW e PROVE Due(k, p, e) \in Nat
BY DEF Due

(* A promoted rotation trains the phase's experts and moves the phase on.    *)
LEMMA TurnByTraining ==
  ASSUME config \in Configs,
         NEW p \in 0..(RotationGroups - 1), NEW r \in Nat,
         NEW T \in [Experts -> Nat], NEW U \in [Experts -> Nat],
         InTurn(T, r, p),
         \A e \in Experts : U[e] = IF e \in p * Group .. (p + 1) * Group - 1 THEN T[e] + 1 ELSE T[e]
  PROVE  InTurn(U, r, (p + 1) % RotationGroups)
<1>1. PICK k \in Nat : \A e \in Experts : T[e] <= Due(k, p, e) /\ Due(k, p, e) <= T[e] + r
  BY DEF InTurn
<1>2. PICK m \in Nat : \A e \in Experts :
        Due(m, (p + 1) % RotationGroups, e)
          = IF e \in p * Group .. (p + 1) * Group - 1 THEN Due(k, p, e) + 1 ELSE Due(k, p, e)
  BY DueAfter
<1>3. \A e \in Experts : /\ U[e] <= Due(m, (p + 1) % RotationGroups, e)
                         /\ Due(m, (p + 1) % RotationGroups, e) <= U[e] + r
  <2> SUFFICES ASSUME NEW e \in Experts
               PROVE  /\ U[e] <= Due(m, (p + 1) % RotationGroups, e)
                      /\ Due(m, (p + 1) % RotationGroups, e) <= U[e] + r
    OBVIOUS
  <2>1. Due(k, p, e) \in Nat /\ T[e] \in Nat /\ U[e] \in Nat
    BY DueIsNat
  <2>2. CASE e \in p * Group .. (p + 1) * Group - 1
    <3>1. U[e] = T[e] + 1 /\ Due(m, (p + 1) % RotationGroups, e) = Due(k, p, e) + 1
      BY <1>2, <2>2, Zenon
    <3>2. T[e] <= Due(k, p, e) /\ Due(k, p, e) <= T[e] + r
      BY <1>1
    <3> QED
      BY <2>1, <3>1, <3>2
  <2>3. CASE e \notin p * Group .. (p + 1) * Group - 1
    <3>1. U[e] = T[e] /\ Due(m, (p + 1) % RotationGroups, e) = Due(k, p, e)
      BY <1>2, <2>3, Zenon
    <3>2. T[e] <= Due(k, p, e) /\ Due(k, p, e) <= T[e] + r
      BY <1>1
    <3> QED
      BY <3>1, <3>2, Zenon
  <2> QED
    BY <2>2, <2>3
<1> QED
  BY <1>3, Zenon DEF InTurn

(* A promoted repair moves the phase on without training its experts.        *)
LEMMA TurnByRepair ==
  ASSUME config \in Configs,
         NEW p \in 0..(RotationGroups - 1), NEW r \in Nat,
         NEW T \in [Experts -> Nat],
         InTurn(T, r, p)
  PROVE  InTurn(T, r + 1, (p + 1) % RotationGroups)
<1>1. PICK k \in Nat : \A e \in Experts : T[e] <= Due(k, p, e) /\ Due(k, p, e) <= T[e] + r
  BY DEF InTurn
<1>2. PICK m \in Nat : \A e \in Experts :
        Due(m, (p + 1) % RotationGroups, e)
          = IF e \in p * Group .. (p + 1) * Group - 1 THEN Due(k, p, e) + 1 ELSE Due(k, p, e)
  BY DueAfter
<1>3. \A e \in Experts : /\ T[e] <= Due(m, (p + 1) % RotationGroups, e)
                         /\ Due(m, (p + 1) % RotationGroups, e) <= T[e] + (r + 1)
  <2> SUFFICES ASSUME NEW e \in Experts
               PROVE  /\ T[e] <= Due(m, (p + 1) % RotationGroups, e)
                      /\ Due(m, (p + 1) % RotationGroups, e) <= T[e] + (r + 1)
    OBVIOUS
  <2>1. Due(k, p, e) \in Nat /\ T[e] \in Nat
    BY DueIsNat
  <2>2. Due(m, (p + 1) % RotationGroups, e) \in {Due(k, p, e), Due(k, p, e) + 1}
    BY <1>2, Zenon
  <2>3. T[e] <= Due(k, p, e) /\ Due(k, p, e) <= T[e] + r
    BY <1>1
  <2> QED
    BY <2>1, <2>2, <2>3
<1> QED
  BY <1>3, Zenon DEF InTurn

(* The deltas of B that move the phase of a category on.                     *)
Turning(B, c) == {b \in B : b.operation \in ExpertOperations /\ b.target = c}

(* Each of them writes the cell of the phase.                                *)
LEMMA PhaseIsWritten ==
  ASSUME NEW b, b.operation \in ExpertOperations
  PROVE  PhaseCell(b) \in Patches(b)
<1>1. b.operation # "scout_train" /\ b.operation # "memory_train" /\ b.operation # "field_train"
  BY DEF ExpertOperations, RotatingOperations
<1>2. Patches(b) = ExpertPatches(b)
  BY <1>1, Zenon DEF Patches
<1> QED
  BY <1>2 DEF ExpertPatches

(* So at most one of the deltas that are composed does.                      *)
LEMMA OneTurn ==
  ASSUME NEW c \in Nat, NEW B,
         \A b, d \in B : b # d => ~DeltasConflict(b, d)
  PROVE  Turning(B, c) = {} \/ \E b \in B : Turning(B, c) = {b}
<1> DEFINE cell == Patch("rotation_phase", <<At(c)>>)
<1>1. \A b, d \in Turning(B, c) : b = d
  <2> SUFFICES ASSUME NEW b \in Turning(B, c), NEW d \in Turning(B, c), b # d PROVE FALSE
    OBVIOUS
  <2>1. cell \in Patches(b) /\ cell \in Patches(d)
    BY PhaseIsWritten DEF Turning, PhaseCell
  <2>2. PatchesOverlap(cell, cell)
    BY DEF PatchesOverlap, Patch, At, MaxOf, MinOf
  <2>3. DeltasConflict(b, d)
    BY <2>1, <2>2, Zenon DEF DeltasConflict
  <2> QED
    BY <2>3 DEF Turning
<1> QED
  BY <1>1 DEF Turning

(* How often the deltas of B train an expert, and how often they repair.     *)
Rotations(B, c, e) ==
  {b \in Turning(B, c) : b.operation \in RotatingOperations /\ e \in b.active}
Repairs(B, c) == {b \in Turning(B, c) : b.operation = "repair"}

(* The phase of a category after the deltas B.                               *)
Moved(B, c, p) ==
  p \in IF Turning(B, c) = {} THEN {phase[c]} ELSE {PhaseAfter(b) : b \in Turning(B, c)}

(* What the deltas B do to one category.                                     *)
LEMMA CategoryStaysInTurn ==
  ASSUME RotationInv,
         NEW c \in Categories, NEW B \in SUBSET offers,
         \A b \in B : OnRoot(b),
         \A b, d \in B : b # d => ~DeltasConflict(b, d),
         NEW p, Moved(B, c, p),
         NEW T \in [Experts -> Int], NEW r,
         \A e \in Experts : T[e] = trained[c][e] + Cardinality(Rotations(B, c, e)),
         r = repairs[c] + Cardinality(Repairs(B, c))
  PROVE  T \in [Experts -> Nat] /\ r \in Nat /\ InTurn(T, r, p)
<1>0. /\ config \in Configs /\ c \in Nat
      /\ trained[c] \in [Experts -> Nat] /\ repairs[c] \in Nat
      /\ phase[c] \in 0..(RotationGroups - 1)
      /\ InTurn(trained[c], repairs[c], phase[c])
  BY GroupsDivide DEF RotationInv
<1>1. Turning(B, c) = {} \/ \E b \in B : Turning(B, c) = {b}
  BY <1>0, OneTurn
<1>2. Cardinality({}) = 0
  BY FS_EmptySet
<1>3. \A b : Cardinality({b}) = 1
  BY FS_Singleton
<1>6. \A e \in Experts : trained[c][e] \in Nat
  BY <1>0
<1>4. CASE Turning(B, c) = {}
  <2>1. p = phase[c]
    BY <1>4 DEF Moved
  <2>2. Repairs(B, c) = {} /\ \A e \in Experts : Rotations(B, c, e) = {}
    BY <1>4 DEF Repairs, Rotations
  <2>3. r = repairs[c]
    BY <1>0, <1>2, <2>2
  <2>4. \A e \in Experts : T[e] = trained[c][e]
    <3>1. \A e \in Experts : Cardinality(Rotations(B, c, e)) = 0
      BY <1>2, <2>2, Zenon
    <3> QED BY <1>6, <3>1
  <2>5. T = trained[c]
    BY <1>0, <2>4
  <2> QED
    BY <1>0, <2>1, <2>3, <2>5
<1>5. CASE Turning(B, c) # {}
  <2>1. PICK b \in B : Turning(B, c) = {b}
    BY <1>1, <1>5
  <2>2. /\ b.base = root /\ b.operation \in ExpertOperations /\ b.target = c
        /\ OfPhase(b)
    BY <2>1 DEF Turning, OnRoot, RotationInv
  <2>3. b.phase = phase[c]
    BY <2>2 DEF OfPhase
  <2>4. p = (phase[c] + 1) % RotationGroups
    BY <1>5, <2>1, <2>3 DEF Moved, PhaseAfter
  <2>5. CASE b.operation = "repair"
    <3>1. Repairs(B, c) = {b} /\ \A e \in Experts : Rotations(B, c, e) = {}
      BY <2>1, <2>5 DEF Repairs, Rotations, RotatingOperations
    <3>2. r = repairs[c] + 1
      BY <1>3, <3>1
    <3>3. \A e \in Experts : T[e] = trained[c][e]
      <4>1. \A e \in Experts : Cardinality(Rotations(B, c, e)) = 0
        BY <1>2, <3>1, Zenon
      <4> QED BY <1>6, <4>1
    <3>4. T = trained[c]
      BY <1>0, <3>3
    <3> QED
      BY <1>0, <2>4, <3>2, <3>4, TurnByRepair
  <2>6. CASE b.operation \in RotatingOperations
    <3>1. Repairs(B, c) = {}
      BY <2>1, <2>6 DEF Repairs, RotatingOperations
    <3>2. r = repairs[c]
      BY <1>0, <1>2, <3>1
    <3>3. b.active = phase[c] * Group .. (phase[c] + 1) * Group - 1
      BY <2>2, <2>3, <2>6, Zenon DEF OfPhase
    <3>4. \A e \in Experts : Rotations(B, c, e) = IF e \in b.active THEN {b} ELSE {}
      BY <2>1, <2>6 DEF Rotations
    <3>5. \A e \in Experts : T[e] = IF e \in b.active THEN trained[c][e] + 1 ELSE trained[c][e]
      <4>1. \A e \in Experts :
              Cardinality(Rotations(B, c, e)) = IF e \in b.active THEN 1 ELSE 0
        BY <1>2, <1>3, <3>4, Zenon
      <4> QED BY <1>6, <4>1
    <3>6. T \in [Experts -> Nat]
      BY <1>0, <3>5
    <3>7. \A e \in Experts :
            T[e] = IF e \in phase[c] * Group .. (phase[c] + 1) * Group - 1
                     THEN trained[c][e] + 1 ELSE trained[c][e]
      BY <3>3, <3>5, Zenon
    <3>8. InTurn(T, repairs[c], (phase[c] + 1) % RotationGroups)
      BY <1>0, <3>6, <3>7, TurnByTraining
    <3> QED
      BY <1>0, <2>4, <3>2, <3>6, <3>8
  <2> QED
    BY <2>2, <2>5, <2>6 DEF ExpertOperations
<1> QED
  BY <1>4, <1>5

(* The shapes depend on the topology alone.                                  *)
LEMMA SameShapes ==
  ASSUME config' = config
  PROVE  /\ Categories' = Categories /\ Experts' = Experts
         /\ Group' = Group /\ RotationGroups' = RotationGroups
BY DEF Categories, Experts, Group, RotationGroups

(* The deltas B are assigned to the model they were trained on.              *)
LEMMA AssignKeepsTurns ==
  ASSUME RotationInv, NEW B \in SUBSET offers,
         \A b \in B : OnRoot(b),
         \A b, d \in B : b # d => ~DeltasConflict(b, d),
         Assign(B)
  PROVE  RotationInv'
<1>1. config' = config /\ root' = root + 1 /\ offers' \subseteq offers
  BY DEF Assign
<1>2. /\ Categories' = Categories /\ Experts' = Experts /\ RotationGroups' = RotationGroups
      /\ Group' = Group
  BY <1>1, SameShapes
<1>3. phase' \in [Categories -> 0..(RotationGroups - 1)]
      /\ \A c \in Categories : Moved(B, c, phase'[c])
  BY Zenon DEF Assign, Moved, Turning
<1>4. trained' = [c \in Categories |-> [e \in Experts |->
                    trained[c][e] + Cardinality(Rotations(B, c, e))]]
  BY DEF Assign, Rotations, Turning
<1>5. repairs' = [c \in Categories |-> repairs[c] + Cardinality(Repairs(B, c))]
  BY DEF Assign, Repairs, Turning
<1>6. \A c \in Categories : /\ trained'[c] \in [Experts -> Nat]
                            /\ repairs'[c] \in Nat
                            /\ InTurn(trained'[c], repairs'[c], phase'[c])
  <2> SUFFICES ASSUME NEW c \in Categories
               PROVE  /\ trained'[c] \in [Experts -> Nat]
                      /\ repairs'[c] \in Nat
                      /\ InTurn(trained'[c], repairs'[c], phase'[c])
    OBVIOUS
  <2>1. Moved(B, c, phase'[c])
    BY <1>3
  <2>2. trained'[c] = [e \in Experts |-> trained[c][e] + Cardinality(Rotations(B, c, e))]
    BY <1>4
  <2>3. repairs'[c] = repairs[c] + Cardinality(Repairs(B, c))
    BY <1>5
  <2>4. \A e \in Experts : Cardinality(Rotations(B, c, e)) \in Int /\ trained[c][e] \in Int
    <3>1. c \in Nat
      BY GroupsDivide DEF RotationInv
    <3>2. Turning(B, c) = {} \/ \E b \in B : Turning(B, c) = {b}
      BY <3>1, OneTurn
    <3>3. \A e \in Experts : Rotations(B, c, e) = {} \/ \E b : Rotations(B, c, e) = {b}
      BY <3>2 DEF Rotations
    <3>4. Cardinality({}) = 0 /\ \A b : Cardinality({b}) = 1
      BY FS_EmptySet, FS_Singleton
    <3>5. \A e \in Experts : Cardinality(Rotations(B, c, e)) \in {0, 1}
      BY <3>3, <3>4, Zenon
    <3> QED
      BY <3>5 DEF RotationInv
  <2>5. trained'[c] \in [Experts -> Int]
    BY <2>2, <2>4
  <2>6. \A e \in Experts : trained'[c][e] = trained[c][e] + Cardinality(Rotations(B, c, e))
    BY <2>2
  <2> QED
    BY <2>1, <2>3, <2>5, <2>6, CategoryStaysInTurn
<1>7. \A c \in Categories' : InTurn(trained[c], repairs[c], phase[c])'
  <2> SUFFICES ASSUME NEW c \in Categories PROVE InTurn(trained[c], repairs[c], phase[c])'
    BY <1>2, <1>6
  <2>1. InTurn(trained'[c], repairs'[c], phase'[c])
    BY <1>2, <1>6 DEF RotationInv
  <2> QED
    BY <1>2, <1>6, <2>1 DEF InTurn, Due
<1>8. \A b \in offers' : b.base \in 0..root' /\ b.base # root'
  BY <1>1 DEF RotationInv
<1>9. /\ phase' \in [Categories' -> 0..(RotationGroups' - 1)]
      /\ trained' \in [Categories' -> [Experts' -> Nat]]
      /\ repairs' \in [Categories' -> Nat]
  BY <1>2, <1>3, <1>4, <1>5, <1>6
<1>10. config' \in Configs /\ root' \in Nat
  BY <1>1 DEF RotationInv
<1> QED
  BY <1>7, <1>8, <1>9, <1>10, Zenon DEF RotationInv

(* A bundle is made of the canonical model.                                  *)
LEMMA ExecuteKeepsTurns ==
  ASSUME RotationInv, NEW operation \in Operations, NEW t \in Targets(operation),
         ExecuteMutation(operation, t)
  PROVE  RotationInv'
<1>1. UNCHANGED <<config, root, phase, trained, repairs>>
  BY DEF ExecuteMutation
<1>2. PICK b \in ComponentBundles(operation, t) : offers' = offers \cup {b}
  BY DEF ExecuteMutation
<1>3. b.base = root /\ b.target = t /\ b.operation = operation
  BY <1>2 DEF ComponentBundles
<1>4. operation \in ExpertOperations => OfPhase(b)
  <2> SUFFICES ASSUME operation \in ExpertOperations PROVE OfPhase(b)
    OBVIOUS
  <2>1. t \in Categories
    BY DEF Targets, ExpertOperations, RotatingOperations
  <2>2. b.phase = phase[t]
    BY <1>2 DEF ComponentBundles
  <2>3. operation \in RotatingOperations => b.active \in {phase[t] * Group .. (phase[t] + 1) * Group - 1}
    <3>1. b.active \in ActiveGroups(operation, t)
      BY <1>2 DEF ComponentBundles
    <3>2. operation \in RotatingOperations => operation # "repair"
      BY DEF RotatingOperations
    <3> QED
      BY <3>1, <3>2, Zenon DEF ActiveGroups
  <2>4. operation \in RotatingOperations => b.active = phase[t] * Group .. (phase[t] + 1) * Group - 1
    BY <2>3, Zenon
  <2> QED
    BY <1>3, <2>1, <2>2, <2>4, Zenon DEF OfPhase
<1>5. \A d : OfPhase(d)' <=> OfPhase(d)
  BY <1>1 DEF OfPhase, Categories, Group
<1>6. \A d \in offers' : d.base \in 0..root' /\ (d.base = root' /\ d.operation \in ExpertOperations => OfPhase(d)')
  <2>1. \A d \in offers : d.base \in 0..root /\ (d.base = root /\ d.operation \in ExpertOperations => OfPhase(d))
    BY DEF RotationInv
  <2>2. root \in 0..root
    BY DEF RotationInv
  <2> QED
    BY <1>1, <1>2, <1>3, <1>4, <1>5, <2>1, <2>2, Zenon
<1>7. /\ Categories' = Categories /\ Experts' = Experts /\ RotationGroups' = RotationGroups
      /\ Group' = Group
  BY <1>1, SameShapes
<1>8. \A c \in Categories' : InTurn(trained[c], repairs[c], phase[c])'
  <2> SUFFICES ASSUME NEW c \in Categories PROVE InTurn(trained[c], repairs[c], phase[c])'
    BY <1>1, <1>7
  <2>1. InTurn(trained'[c], repairs'[c], phase'[c])
    BY <1>1, <1>7 DEF RotationInv
  <2> QED
    BY <1>1, <1>7, <2>1 DEF InTurn, Due
<1>9. /\ config' \in Configs /\ root' \in Nat
      /\ phase' \in [Categories' -> 0..(RotationGroups' - 1)]
      /\ trained' \in [Categories' -> [Experts' -> Nat]]
      /\ repairs' \in [Categories' -> Nat]
  BY <1>1, <1>7 DEF RotationInv
<1> QED
  BY <1>6, <1>8, <1>9, Zenon DEF RotationInv

(* Withdrawing a delta takes nothing from the model.                         *)
LEMMA WithdrawKeepsTurns ==
  ASSUME RotationInv, UNCHANGED <<config, root, phase, trained, repairs>>, offers' \subseteq offers
  PROVE  RotationInv'
<1>1. \A d : OfPhase(d)' <=> OfPhase(d)
  BY DEF OfPhase, Categories, Group
<1>2. /\ Categories' = Categories /\ Experts' = Experts /\ RotationGroups' = RotationGroups
      /\ Group' = Group
  BY SameShapes
<1>3. \A c \in Categories' : InTurn(trained[c], repairs[c], phase[c])'
  <2> SUFFICES ASSUME NEW c \in Categories PROVE InTurn(trained[c], repairs[c], phase[c])'
    BY <1>2
  <2>1. InTurn(trained'[c], repairs'[c], phase'[c])
    BY <1>2 DEF RotationInv
  <2> QED
    BY <1>2, <2>1 DEF InTurn, Due
<1>4. /\ config' \in Configs /\ root' \in Nat
      /\ phase' \in [Categories' -> 0..(RotationGroups' - 1)]
      /\ trained' \in [Categories' -> [Experts' -> Nat]]
      /\ repairs' \in [Categories' -> Nat]
  BY <1>2 DEF RotationInv
<1>5. \A d \in offers' : d.base \in 0..root' /\ (d.base = root' /\ d.operation \in ExpertOperations => OfPhase(d)')
  BY <1>1 DEF RotationInv
<1> QED
  BY <1>3, <1>4, <1>5, Zenon DEF RotationInv

LEMMA InitInTurn == Init => RotationInv
<1> SUFFICES ASSUME Init PROVE RotationInv
  OBVIOUS
<1>1. config \in Configs
  BY DEF Init
<1>2. RotationGroups \in Nat \ {0} /\ Group \in Nat
  BY <1>1, GroupsDivide DEF Positive
<1>3. \A c \in Categories : trained[c] = [e \in Experts |-> 0] /\ repairs[c] = 0 /\ phase[c] = 0
  BY DEF Init
<1>4. InTurn([e \in Experts |-> 0], 0, 0)
  <2>1. \A e \in Experts : Due(0, 0, e) = 0
    <3>1. \A e \in Experts : e \in Nat
      BY DEF Experts
    <3>2. 0 * Group = 0
      BY <1>2
    <3> QED BY <3>1, <3>2 DEF Due
  <2> QED BY <2>1 DEF InTurn
<1>5. 0 \in 0..(RotationGroups - 1)
  BY <1>2
<1>6. /\ phase \in [Categories -> 0..(RotationGroups - 1)]
      /\ trained \in [Categories -> [Experts -> Nat]]
      /\ repairs \in [Categories -> Nat]
  BY <1>5 DEF Init
<1> QED
  BY <1>1, <1>3, <1>4, <1>6 DEF RotationInv, Init

(* The rotation is inductive.                                                *)
LEMMA StepInTurn == RotationInv /\ [Next]_vars => RotationInv'
<1> SUFFICES ASSUME RotationInv, [Next]_vars PROVE RotationInv'
  OBVIOUS
<1>1. CASE \E operation \in Operations : \E t \in Targets(operation) : ExecuteMutation(operation, t)
  BY <1>1, ExecuteKeepsTurns
<1>2. ASSUME NEW b \in offers, ApplyDelta(b) PROVE RotationInv'
  <2>1. OnRoot(b) /\ Assign({b})
    BY <1>2 DEF ApplyDelta
  <2> QED
    BY <2>1, AssignKeepsTurns
<1>3. ASSUME NEW b \in offers, Withdraw(b) PROVE RotationInv'
  BY <1>3, WithdrawKeepsTurns DEF Withdraw
<1>4. ASSUME NEW B \in SUBSET offers, ComposeNonConflictingDeltas(B) PROVE RotationInv'
  BY <1>4, AssignKeepsTurns DEF ComposeNonConflictingDeltas
<1>5. CASE UNCHANGED vars
  BY <1>5, WithdrawKeepsTurns DEF vars
<1> QED
  BY <1>1, <1>2, <1>3, <1>4, <1>5, Zenon DEF Next

(* No expert is trained twice before its colony was trained once, for every  *)
(* topology and whatever is composed; each repair takes one turn away.       *)
THEOREM RotationIsFair == Spec => []ExpertsRotate
<1>1. RotationInv => ExpertsRotate
  <2> SUFFICES ASSUME RotationInv, NEW c \in Categories, NEW e \in Experts, NEW f \in Experts
               PROVE  trained[c][e] <= trained[c][f] + 1 + repairs[c]
    BY DEF ExpertsRotate
  <2>1. PICK k \in Nat : \A x \in Experts :
          trained[c][x] <= Due(k, phase[c], x) /\ Due(k, phase[c], x) <= trained[c][x] + repairs[c]
    BY DEF RotationInv, InTurn
  <2>2. \A x \in Experts : Due(k, phase[c], x) \in {k, k + 1}
    BY DEF Due
  <2>3. repairs[c] \in Nat /\ trained[c][e] \in Nat /\ trained[c][f] \in Nat
    BY DEF RotationInv
  <2>4. trained[c][e] <= k + 1 /\ k <= trained[c][f] + repairs[c]
    BY <2>1, <2>2, <2>3
  <2> QED
    BY <2>3, <2>4
<1> QED
  BY <1>1, InitInTurn, StepInTurn, PTL DEF Spec
-----------------------------------------------------------------------------
(***************************************************************************)
(* Delivery.  The patches, the plan and the training loops write the axes  *)
(* of a box in different ways, as a prefix and the rest or one by one.     *)
(***************************************************************************)
(* What is left of a short box behind its first axis, and a box from parts.  *)
LEMMA OneAxis ==
  ASSUME NEW x
  PROVE  SubSeq(<<x>>, 2, 1) = << >> /\ SubSeq(<<x>>, 1, 1) = <<x>> /\ <<x>> \o << >> = <<x>>
<1>1. SubSeq(<<x>>, 2, 1) = << >> /\ <<x>> \o << >> = <<x>>
  OBVIOUS
<1>2. SubSeq(<<x>>, 1, 1) = <<x>>
  <2> DEFINE s == SubSeq(<<x>>, 1, 1)
  <2>1. s \in Seq({x}) /\ Len(s) = 1 /\ s[1] = x
    OBVIOUS
  <2> HIDE DEF s
  <2>2. s = <<x>>
    BY <2>1
  <2> QED
    BY <2>2 DEF s
<1> QED
  BY <1>1, <1>2

LEMMA TwoAxes ==
  ASSUME NEW x, NEW y
  PROVE  /\ SubSeq(<<x, y>>, 2, 2) = <<y>> /\ SubSeq(<<x, y>>, 1, 2) = <<x, y>>
         /\ <<x>> \o <<y>> = <<x, y>>
<1> DEFINE S == {x, y}
<1>1. SubSeq(<<x, y>>, 2, 2) = <<y>>
  <2> DEFINE s == SubSeq(<<x, y>>, 2, 2)
  <2>1. s \in Seq(S) /\ Len(s) = 1 /\ s[1] = y
    OBVIOUS
  <2> HIDE DEF s
  <2>2. s = <<y>>
    BY <2>1
  <2> QED
    BY <2>2 DEF s
<1>2. SubSeq(<<x, y>>, 1, 2) = <<x, y>>
  <2> DEFINE s == SubSeq(<<x, y>>, 1, 2)
  <2>1. s \in Seq(S) /\ Len(s) = 2 /\ s[1] = x /\ s[2] = y
    OBVIOUS
  <2> HIDE DEF s
  <2>2. s = <<x, y>>
    BY <2>1
  <2> QED
    BY <2>2 DEF s
<1>3. <<x>> \o <<y>> = <<x, y>>
  <2> DEFINE s == <<x>> \o <<y>>
  <2>1. s \in Seq(S) /\ Len(s) = 2 /\ s[1] = x /\ s[2] = y
    OBVIOUS
  <2> HIDE DEF s
  <2>2. s = <<x, y>>
    BY <2>1
  <2> QED
    BY <2>2 DEF s
<1> QED
  BY <1>1, <1>2, <1>3

LEMMA ThreeAxes ==
  ASSUME NEW x, NEW y, NEW z
  PROVE  SubSeq(<<x, y, z>>, 2, 3) = <<y, z>> /\ <<x>> \o <<y, z>> = <<x, y, z>>
<1> DEFINE S == {x, y, z}
<1>1. SubSeq(<<x, y, z>>, 2, 3) = <<y, z>>
  <2> DEFINE s == SubSeq(<<x, y, z>>, 2, 3)
  <2>1. s \in Seq(S) /\ Len(s) = 2 /\ s[1] = y /\ s[2] = z
    OBVIOUS
  <2> HIDE DEF s
  <2>2. s = <<y, z>>
    BY <2>1
  <2> QED
    BY <2>2 DEF s
<1>2. <<x>> \o <<y, z>> = <<x, y, z>>
  <2> DEFINE s == <<x>> \o <<y, z>>
  <2>1. s \in Seq(S) /\ Len(s) = 3 /\ s[1] = x /\ s[2] = y /\ s[3] = z
    OBVIOUS
  <2> HIDE DEF s
  <2>2. s = <<x, y, z>>
    BY <2>1
  <2> QED
    BY <2>2 DEF s
<1> QED
  BY <1>1, <1>2

(* The axes behind the target's, and those of a tensor all of a field        *)
(* training writes.                                                         *)
LEMMA Rests ==
  /\ Rest("scout_quality", 1) = << >> /\ Rest("category_bias", 1) = << >>
  /\ Rest("category_readout", 1) = <<Span(0, config.representation_width)>>
  /\ Rest("field_weights", 1) = <<Span(0, FieldBlockWidth), Span(0, FieldBlockOutput)>>
  /\ Rest("field_bias", 1) = <<Span(0, FieldBlockOutput)>>
  /\ Rest("field_mixer", 1) = <<Span(0, config.representation_width)>>
  /\ Rest("category_readout", 0) =
       <<Span(0, config.categories), Span(0, config.representation_width)>>
  /\ Rest("category_bias", 0) = <<Span(0, config.categories)>>
  /\ Rest("field_mixer_bias", 0) = <<Span(0, config.representation_width)>>
<1>1. ASSUME NEW name, NEW a, TensorShape(name) = <<a>>
      PROVE  Rest(name, 0) = <<Span(0, a)>> /\ Rest(name, 1) = << >>
  <2>1. [i \in DOMAIN <<a>> |-> Span(0, <<a>>[i])] = <<Span(0, a)>> /\ Len(<<a>>) = 1
    OBVIOUS
  <2>2. Rest(name, 0) = SubSeq(<<Span(0, a)>>, 1, 1) /\ Rest(name, 1) = SubSeq(<<Span(0, a)>>, 2, 1)
    BY <1>1, <2>1 DEF Rest
  <2> QED
    BY <2>2, OneAxis
<1>2. ASSUME NEW name, NEW a, NEW b, TensorShape(name) = <<a, b>>
      PROVE  Rest(name, 0) = <<Span(0, a), Span(0, b)>> /\ Rest(name, 1) = <<Span(0, b)>>
  <2>1. /\ [i \in DOMAIN <<a, b>> |-> Span(0, <<a, b>>[i])] = <<Span(0, a), Span(0, b)>>
        /\ Len(<<a, b>>) = 2
    OBVIOUS
  <2>2. /\ Rest(name, 0) = SubSeq(<<Span(0, a), Span(0, b)>>, 1, 2)
        /\ Rest(name, 1) = SubSeq(<<Span(0, a), Span(0, b)>>, 2, 2)
    BY <1>2, <2>1 DEF Rest
  <2> QED
    BY <2>2, TwoAxes
<1>3. ASSUME NEW name, NEW a, NEW b, NEW c, TensorShape(name) = <<a, b, c>>
      PROVE  Rest(name, 1) = <<Span(0, b), Span(0, c)>>
  <2>1. /\ [i \in DOMAIN <<a, b, c>> |-> Span(0, <<a, b, c>>[i])] =
             <<Span(0, a), Span(0, b), Span(0, c)>>
        /\ Len(<<a, b, c>>) = 3
    OBVIOUS
  <2>2. Rest(name, 1) = SubSeq(<<Span(0, a), Span(0, b), Span(0, c)>>, 2, 3)
    BY <1>3, <2>1 DEF Rest
  <2> QED
    BY <2>2, ThreeAxes
<1>4. /\ TensorShape("scout_quality") = <<ScoutCount>>
      /\ TensorShape("category_bias") = <<config.categories>>
      /\ TensorShape("field_mixer_bias") = <<config.representation_width>>
      /\ TensorShape("category_readout") = <<config.categories, config.representation_width>>
      /\ TensorShape("field_bias") = <<config.field_blocks, FieldBlockOutput>>
      /\ TensorShape("field_mixer") = <<config.representation_width, config.representation_width>>
      /\ TensorShape("field_weights") = <<config.field_blocks, FieldBlockWidth, FieldBlockOutput>>
  BY DEF TensorShape
<1>5. /\ Rest("scout_quality", 1) = << >> /\ Rest("category_bias", 1) = << >>
      /\ Rest("category_bias", 0) = <<Span(0, config.categories)>>
      /\ Rest("field_mixer_bias", 0) = <<Span(0, config.representation_width)>>
  BY <1>1, <1>4
<1>6. /\ Rest("category_readout", 1) = <<Span(0, config.representation_width)>>
      /\ Rest("category_readout", 0) =
           <<Span(0, config.categories), Span(0, config.representation_width)>>
      /\ Rest("field_bias", 1) = <<Span(0, FieldBlockOutput)>>
      /\ Rest("field_mixer", 1) = <<Span(0, config.representation_width)>>
  BY <1>2, <1>4
<1>7. Rest("field_weights", 1) = <<Span(0, FieldBlockWidth), Span(0, FieldBlockOutput)>>
  BY <1>3, <1>4
<1> QED
  BY <1>5, <1>6, <1>7

(* What a worker cuts out, operation by operation, is the coordinator's plan. *)
LEMMA PlansAgree ==
  ASSUME NEW b, b.operation \in Operations
  PROVE  Patches(b) = ExpectedWritePlan(b)
<1>1. CASE b.operation \in ExpertOperations
  <2>1. ExpertTensors(b.operation) = Allowed(b.operation) \ {"rotation_phase"}
    BY <1>1 DEF ExpertTensors, Allowed, ExpertOperations, RotatingOperations, BranchTensors, GateTensors
  <2>2. Patches(b) = ExpertPatches(b)
    BY <1>1 DEF Patches, ExpertOperations, RotatingOperations
  <2>3. ExpectedWritePlan(b) =
          {Patch(n, <<At(b.target), At(e)>> \o Rest(n, 2)) :
             n \in Allowed(b.operation) \ {"rotation_phase"}, e \in b.active}
           \cup {Patch("rotation_phase", <<At(b.target)>>)}
    BY <1>1 DEF ExpectedWritePlan, ExpertOperations, RotatingOperations
  <2> QED
    BY <2>1, <2>2, <2>3 DEF ExpertPatches, PhaseCell
<1>2. CASE b.operation = "scout_train"
  <2>1. Patches(b) = ScoutPatches(b)
    BY <1>2 DEF Patches, ExpertOperations, RotatingOperations
  <2>2. ExpectedWritePlan(b) =
          {Patch(n, <<Scouts(b.target)>> \o Rest(n, 1)) : n \in ScoutTensors}
           \cup {Patch(n, <<At(b.target)>> \o Rest(n, 1)) : n \in RouterTensors}
    BY <1>2 DEF ExpectedWritePlan, ExpertOperations, RotatingOperations
  <2>3. /\ <<Scouts(b.target)>> \o Rest("scout_quality", 1) = <<Scouts(b.target)>>
        /\ <<At(b.target)>> \o Rest("category_bias", 1) = <<At(b.target)>>
        /\ <<At(b.target)>> \o Rest("category_readout", 1) =
             <<At(b.target), Span(0, config.representation_width)>>
    BY Rests, OneAxis, TwoAxes, ThreeAxes
  <2> QED
    BY <2>1, <2>2, <2>3 DEF ScoutPatches, ScoutTensors, RouterTensors
<1>3. CASE b.operation = "memory_train"
  BY <1>3 DEF Patches, ExpectedWritePlan, MemoryPatches, ExpertOperations, RotatingOperations
<1>4. CASE b.operation = "field_train"
  <2>1. Patches(b) = FieldPatches(b)
    BY <1>4 DEF Patches, ExpertOperations, RotatingOperations
  <2>2. ExpectedWritePlan(b) =
         {Patch(n, <<At(b.target)>> \o Rest(n, 1)) : n \in {"field_weights", "field_bias"}}
           \cup {Patch("field_mixer", <<BlockRows(b.target)>> \o Rest("field_mixer", 1))}
           \cup {Patch(n, Rest(n, 0)) : n \in RouterTensors \cup {"field_mixer_bias"}}
    BY <1>4 DEF ExpectedWritePlan, ExpertOperations, RotatingOperations
  <2>3. <<At(b.target)>> \o Rest("field_weights", 1) =
          <<At(b.target), Span(0, FieldBlockWidth), Span(0, FieldBlockOutput)>>
    <3>1. Rest("field_weights", 1) = <<Span(0, FieldBlockWidth), Span(0, FieldBlockOutput)>>
      BY Rests
    <3> QED
      BY <3>1, ThreeAxes
  <2>4. <<At(b.target)>> \o Rest("field_bias", 1) = <<At(b.target), Span(0, FieldBlockOutput)>>
    <3>1. Rest("field_bias", 1) = <<Span(0, FieldBlockOutput)>>
      BY Rests
    <3> QED
      BY <3>1, TwoAxes
  <2>5. <<BlockRows(b.target)>> \o Rest("field_mixer", 1) =
          <<BlockRows(b.target), Span(0, config.representation_width)>>
    <3>1. Rest("field_mixer", 1) = <<Span(0, config.representation_width)>>
      BY Rests
    <3> QED
      BY <3>1, TwoAxes
  <2> QED
    BY <2>1, <2>2, <2>3, <2>4, <2>5, Rests DEF FieldPatches, RouterTensors
<1> QED
  BY <1>1, <1>2, <1>3, <1>4 DEF Operations

(* Of what the loops assign only the local bias of branch_train is left out. *)
LEMMA LoopsStayInPlan ==
  ASSUME NEW b, b.operation \in Operations, NEW p \in Touched(b), p \notin Patches(b)
  PROVE  b.operation = "branch_train" /\ p.tensor = "expert_local_bias"
<1>1. CASE b.operation \in ExpertOperations
  <2>1. Patches(b) = ExpertPatches(b) /\ Touched(b) = TrainExperts(b) \cup {PhaseCell(b)}
    BY <1>1 DEF Patches, Touched, ExpertOperations, RotatingOperations
  <2>2. p \in TrainExperts(b) /\ p \notin ExpertPatches(b)
    BY <2>1 DEF ExpertPatches
  <2>3. PICK n \in BranchTensors \cup IF b.operation = "branch_train"
                                       THEN {"expert_local_bias"} ELSE GateTensors,
             e \in b.active : p = Patch(n, <<At(b.target), At(e)>> \o Rest(n, 2))
    BY <2>2 DEF TrainExperts
  <2>4. n \notin ExpertTensors(b.operation)
    BY <2>2, <2>3 DEF ExpertPatches
  <2>5. b.operation = "branch_train" /\ n = "expert_local_bias"
    BY <2>3, <2>4 DEF ExpertTensors
  <2> QED
    BY <2>3, <2>5 DEF Patch
<1>2. CASE b.operation \notin ExpertOperations
  <2>1. b.operation \in {"scout_train", "memory_train", "field_train"}
    BY <1>2 DEF Operations
  <2>2. Touched(b) = ExpectedWritePlan(b)
    BY <1>2, <2>1 DEF Touched, ExpectedWritePlan, TrainScouts, TrainMemory, TrainField
  <2> QED
    BY <2>2, PlansAgree
<1> QED
  BY <1>1, <1>2

OffersInv == \A b \in offers : b.operation \in Operations

LEMMA OffersStay == OffersInv /\ [Next]_vars => OffersInv'
<1> SUFFICES ASSUME OffersInv, [Next]_vars PROVE OffersInv'
  OBVIOUS
<1>1. ASSUME NEW operation \in Operations, NEW t \in Targets(operation), ExecuteMutation(operation, t)
      PROVE  OffersInv'
  BY <1>1 DEF OffersInv, ExecuteMutation, ComponentBundles
<1>2. CASE \/ \E b \in offers : ApplyDelta(b) \/ Withdraw(b)
           \/ \E B \in SUBSET offers : ComposeNonConflictingDeltas(B)
  <2>1. offers' \subseteq offers
    BY <1>2 DEF ApplyDelta, Withdraw, ComposeNonConflictingDeltas, Assign
  <2> QED
    BY <2>1 DEF OffersInv
<1>3. CASE UNCHANGED vars
  BY <1>3 DEF OffersInv, vars
<1> QED
  BY <1>1, <1>2, <1>3 DEF Next

(* For every topology, all that a training loop assigns is in the patches   *)
(* the worker cuts out (execute_mutation of v6/native10.py), but for the     *)
(* local bias which the loop of branch_train moves; and these patches are    *)
(* the write plan the coordinator derives a second time from the bundle.     *)
THEOREM TrainingArrives ==
  Spec => [](TrainingIsDelivered /\ \A b \in offers : Patches(b) = ExpectedWritePlan(b))
<1>1. Init => OffersInv
  BY DEF Init, OffersInv
<1>2. OffersInv => TrainingIsDelivered /\ \A b \in offers : Patches(b) = ExpectedWritePlan(b)
  BY LoopsStayInPlan, PlansAgree DEF OffersInv, TrainingIsDelivered
<1> QED
  BY <1>1, <1>2, OffersStay, PTL DEF Spec
-----------------------------------------------------------------------------
(***************************************************************************)
(* Admission.  The sum of the patches' volumes is a fold, and the induction *)
(* over it is of a set of numbers: were a number missing, one would be the *)
(* least.  Volumes are added by upper bounds, which need not say that the  *)
(* patches of a delta are different ones.                                  *)
(***************************************************************************)
LEMMA Numbers ==
  ASSUME NEW A, 0 \in A, \A n \in Nat : n \in A => n + 1 \in A
  PROVE  Nat \subseteq A
<1> SUFFICES ASSUME Nat \ A # {} PROVE FALSE
  OBVIOUS
<1> DEFINE less == OpToRel(<, Nat)
           missing == Nat \ A
<1>1. PICK x \in missing : \A y \in missing : <<y, x>> \notin less
  <2> HIDE DEF less
  <2>1. IsWellFoundedOn(less, Nat)
    BY NatLessThanWellFounded DEF less
  <2> QED
    BY <2>1, WFMin
<1>2. x \in Nat /\ x # 0 /\ x - 1 \in Nat
  OBVIOUS
<1>3. <<x - 1, x>> \in less
  BY <1>2 DEF OpToRel
<1>4. x - 1 \in A
  BY <1>1, <1>2, <1>3
<1> QED
  BY <1>2, <1>4

(* The element a fold takes next.                                           *)
Pick(s) == CHOOSE x \in s : TRUE

(* What is left of a set without its picked element is smaller.             *)
LEMMA Smaller ==
  ASSUME NEW s, IsFiniteSet(s), s # {}
  PROVE  /\ Pick(s) \in s /\ IsFiniteSet(s \ {Pick(s)})
         /\ Cardinality(s) \in Nat /\ Cardinality(s \ {Pick(s)}) \in Nat
         /\ Cardinality(s \ {Pick(s)}) = Cardinality(s) - 1
<1>1. Pick(s) \in s
  BY DEF Pick
<1>2. IsFiniteSet(s \ {Pick(s)}) /\ Cardinality(s \ {Pick(s)}) = Cardinality(s) - 1
  BY <1>1, FS_RemoveElement
<1> QED
  BY <1>1, <1>2, FS_CardinalityType

(* Induction over the subsets of a finite set.                              *)
LEMMA Subsets ==
  ASSUME NEW S, IsFiniteSet(S), NEW A,
         \A s \in SUBSET S : (\A x \in s : s \ {x} \in A) => s \in A
  PROVE  S \in A
<1> DEFINE N == {n \in Nat : \A s \in SUBSET S : Cardinality(s) = n => s \in A}
<1>1. \A s \in SUBSET S : /\ IsFiniteSet(s) /\ Cardinality(s) \in Nat
                           /\ \A x \in s : /\ s \ {x} \in SUBSET S
                                           /\ Cardinality(s \ {x}) = Cardinality(s) - 1
  BY FS_Subset, FS_CardinalityType, FS_RemoveElement
<1>2. 0 \in N
  BY <1>1, FS_EmptySet
<1>3. ASSUME NEW n \in Nat, n \in N PROVE n + 1 \in N
  BY <1>1, <1>3
<1>4. Nat \subseteq N
  <2> HIDE DEF N
  <2> QED
    BY <1>2, <1>3, Numbers
<1> QED
  BY <1>1, <1>4

(* The number of cells of the patches of a delta.                           *)
VolumeSum(S) == MapThenSumSet(Volume, S)

(* Finitely many patches with volumes; and the function of their sets that  *)
(* the fold computes.                                                       *)
Measured(S) == IsFiniteSet(S) /\ \A p \in S : Volume(p) \in Nat

Sums(g, S) ==
  \A s \in SUBSET S : g[s] = IF s = {} THEN 0 ELSE Volume(Pick(s)) + g[s \ {Pick(s)}]

LEMMA SumExists ==
  ASSUME NEW S, Measured(S)
  PROVE  \E g \in [SUBSET S -> Nat] : Sums(g, S)
<1> DEFINE upto(n) == {s \in SUBSET S : Cardinality(s) <= n}
           next(g, s) == IF s = {} THEN 0 ELSE Volume(Pick(s)) + g[s \ {Pick(s)}]
           A == {n \in Nat : \E g \in [upto(n) -> Nat] : \A s \in upto(n) : g[s] = next(g, s)}
<1>0. IsFiniteSet(S) /\ \A p \in S : Volume(p) \in Nat
  BY DEF Measured
<1>1. \A s \in SUBSET S : IsFiniteSet(s) /\ Cardinality(s) \in Nat
  BY <1>0, FS_Subset, FS_CardinalityType
<1>2. \A s \in SUBSET S : s # {} => /\ Pick(s) \in S /\ s \ {Pick(s)} \in SUBSET S
                                    /\ Cardinality(s \ {Pick(s)}) = Cardinality(s) - 1
  BY <1>1, Smaller
<1>3. 0 \in A
  <2>1. \A s \in upto(0) : s = {}
    BY <1>1, FS_EmptySet
  <2> DEFINE g == [s \in upto(0) |-> 0]
  <2>2. g \in [upto(0) -> Nat] /\ \A s \in upto(0) : g[s] = next(g, s)
    BY <2>1
  <2> QED
    BY <2>2
<1>4. ASSUME NEW n \in Nat, n \in A PROVE n + 1 \in A
  <2>1. PICK g \in [upto(n) -> Nat] : \A s \in upto(n) : g[s] = next(g, s)
    BY <1>4
  <2> DEFINE h == [s \in upto(n + 1) |-> next(g, s)]
  <2>2. \A s \in upto(n + 1) : s # {} => s \ {Pick(s)} \in upto(n)
    BY <1>1, <1>2
  <2>3. \A s \in upto(n + 1) : next(g, s) \in Nat
    BY <1>0, <1>2, <2>2
  <2>4. h \in [upto(n + 1) -> Nat]
    BY <2>3
  <2>5. \A s \in upto(n) : s \in upto(n + 1) /\ h[s] = g[s]
    <3>1. \A s \in upto(n) : s \in upto(n + 1)
      BY <1>1
    <3> HIDE DEF next, upto
    <3> QED
      BY <2>1, <3>1
  <2>6. \A s \in upto(n + 1) : h[s] = next(h, s)
    <3> HIDE DEF upto
    <3> QED
      BY <2>2, <2>5
  <2> HIDE DEF h
  <2>7. \E f \in [upto(n + 1) -> Nat] : \A s \in upto(n + 1) : f[s] = next(f, s)
    BY <2>4, <2>6
  <2> HIDE DEF upto, next
  <2> QED
    BY <2>7
<1>5. Nat \subseteq A
  <2> HIDE DEF A
  <2> QED
    BY <1>3, <1>4, Numbers
<1>6. Cardinality(S) \in A
  BY <1>0, <1>1, <1>5
<1>7. PICK g \in [upto(Cardinality(S)) -> Nat] :
        \A s \in upto(Cardinality(S)) : g[s] = next(g, s)
  BY <1>6
<1>8. upto(Cardinality(S)) = SUBSET S
  BY <1>0, FS_Subset
<1> QED
  BY <1>7, <1>8 DEF Sums

LEMMA SumsAgree ==
  ASSUME NEW S, NEW R \in SUBSET S, IsFiniteSet(S), NEW g, NEW h, Sums(g, S), Sums(h, R)
  PROVE  g[R] = h[R]
<1> DEFINE A == {s \in SUBSET R : g[s] = h[s]}
<1>1. ASSUME NEW s \in SUBSET R, \A x \in s : s \ {x} \in A PROVE s \in A
  <2>1. CASE s = {}
    BY <2>1 DEF Sums
  <2>2. CASE s # {}
    <3>1. Pick(s) \in s
      BY <2>2 DEF Pick
    <3>2. g[s \ {Pick(s)}] = h[s \ {Pick(s)}]
      BY <1>1, <3>1
    <3>3. /\ g[s] = Volume(Pick(s)) + g[s \ {Pick(s)}]
          /\ h[s] = Volume(Pick(s)) + h[s \ {Pick(s)}]
      BY <2>2 DEF Sums
    <3> QED
      BY <3>1, <3>2, <3>3
  <2> QED
    BY <2>1, <2>2
<1>2. IsFiniteSet(R)
  BY FS_Subset
<1>3. R \in A
  <2> HIDE DEF A
  <2> QED
    BY <1>1, <1>2, Subsets
<1> QED
  BY <1>3

LEMMA SumIsFold ==
  ASSUME NEW S, Measured(S)
  PROVE  \E g \in [SUBSET S -> Nat] : Sums(g, S) /\ VolumeSum(S) = g[S]
<1> DEFINE next(g, s) == IF s = {} THEN 0 ELSE Volume(Pick(s)) + g[s \ {Pick(s)}]
           I == CHOOSE g : g = [s \in SUBSET S |-> next(g, s)]
<1>1. PICK g \in [SUBSET S -> Nat] : Sums(g, S)
  BY SumExists
<1>2. g = [s \in SUBSET S |-> next(g, s)]
  BY <1>1 DEF Sums
<1>3. I = [s \in SUBSET S |-> next(I, s)]
  <2> HIDE DEF next
  <2> QED
    BY <1>2
<1>4. VolumeSum(S) = I[S]
  BY DEF VolumeSum, MapThenSumSet, MapThenFoldSet, Pick
<1> HIDE DEF I
<1>5. \A s \in SUBSET S : I[s] = next(I, s)
  <2> HIDE DEF next
  <2> QED
    BY <1>3
<1>6. Sums(I, S)
  BY <1>5 DEF Sums
<1>7. g[S] = I[S]
  <2>1. S \in SUBSET S /\ IsFiniteSet(S)
    BY DEF Measured
  <2> QED
    BY <1>1, <1>6, <2>1, SumsAgree
<1> QED
  BY <1>1, <1>4, <1>7

(* A sum is a number, of nothing it is 0, and it grows by each patch.       *)
LEMMA SumEmpty == Measured({}) /\ VolumeSum({}) = 0
<1>1. Measured({})
  BY FS_EmptySet DEF Measured
<1> QED
  BY <1>1, SumIsFold DEF Sums

LEMMA SumAdds ==
  ASSUME NEW S, Measured(S)
  PROVE  /\ VolumeSum(S) \in Nat
         /\ \A x \in S : VolumeSum(S) = Volume(x) + VolumeSum(S \ {x})
<1>0. IsFiniteSet(S) /\ \A x \in S : Volume(x) \in Nat
  BY DEF Measured
<1>1. PICK g \in [SUBSET S -> Nat] : Sums(g, S) /\ VolumeSum(S) = g[S]
  BY SumIsFold
<1>2. ASSUME NEW x \in S PROVE VolumeSum(S \ {x}) = g[S \ {x}]
  <2> DEFINE R == S \ {x}
  <2>1. R \in SUBSET S /\ Measured(R)
    BY <1>0, FS_Subset DEF Measured
  <2> HIDE DEF R
  <2>2. PICK h \in [SUBSET R -> Nat] : Sums(h, R) /\ VolumeSum(R) = h[R]
    BY <2>1, SumIsFold
  <2>3. VolumeSum(R) = g[R]
    BY <1>0, <1>1, <2>1, <2>2, SumsAgree
  <2> QED
    BY <2>3 DEF R
<1> DEFINE A == {s \in SUBSET S : \A x \in s : g[s] = Volume(x) + g[s \ {x}]}
<1>3. ASSUME NEW s \in SUBSET S, \A x \in s : s \ {x} \in A PROVE s \in A
  <2> SUFFICES ASSUME NEW x \in s PROVE g[s] = Volume(x) + g[s \ {x}]
    OBVIOUS
  <2> DEFINE y == Pick(s)
  <2>1. y \in s /\ g[s] = Volume(y) + g[s \ {y}]
    BY <1>1 DEF Pick, Sums
  <2>2. CASE x = y
    BY <2>1, <2>2
  <2>3. CASE x # y
    <3> HIDE DEF y
    <3>1. x \in s \ {y} /\ y \in s \ {x} /\ (s \ {y}) \ {x} = (s \ {x}) \ {y}
      BY <2>1, <2>3
    <3>2. /\ g[s \ {y}] = Volume(x) + g[(s \ {y}) \ {x}]
          /\ g[s \ {x}] = Volume(y) + g[(s \ {x}) \ {y}]
      BY <1>3, <2>1, <3>1
    <3> DEFINE t == g[(s \ {x}) \ {y}]
    <3>3. Volume(x) \in Nat /\ Volume(y) \in Nat /\ t \in Nat
      BY <1>0, <2>1
    <3>4. g[s \ {y}] = Volume(x) + t
      BY <3>1, <3>2
    <3>5. g[s \ {x}] = Volume(y) + t
      BY <3>2
    <3> HIDE DEF t
    <3> QED
      BY <2>1, <3>3, <3>4, <3>5
  <2> QED
    BY <2>2, <2>3
<1>4. S \in A
  <2> HIDE DEF A
  <2> QED
    BY <1>0, <1>3, Subsets
<1> QED
  BY <1>0, <1>1, <1>2, <1>4

(* The patches of two sets together are at most those of each.              *)
LEMMA SumUnion ==
  ASSUME NEW R, Measured(R), NEW S, Measured(S)
  PROVE  /\ Measured(R \cup S)
         /\ VolumeSum(R) \in Nat /\ VolumeSum(S) \in Nat /\ VolumeSum(R \cup S) \in Nat
         /\ VolumeSum(R \cup S) <= VolumeSum(R) + VolumeSum(S)
<1> DEFINE A == {s \in SUBSET S : /\ Measured(R \cup s) /\ Measured(s)
                                  /\ VolumeSum(R \cup s) <= VolumeSum(R) + VolumeSum(s)}
<1>1. ASSUME NEW s \in SUBSET S, \A x \in s : s \ {x} \in A PROVE s \in A
  <2>0. Measured(s) /\ Measured(R \cup s)
    BY FS_Subset, FS_Union DEF Measured
  <2>1. CASE s = {}
    <3>1. R \cup s = R /\ VolumeSum(s) = 0 /\ VolumeSum(R) \in Nat
      BY <2>1, SumEmpty, SumAdds
    <3> QED
      BY <2>0, <3>1
  <2>2. CASE s # {}
    <3>1. PICK x \in s : TRUE
      BY <2>2
    <3> DEFINE r == s \ {x}
    <3>2. Measured(R \cup r) /\ Measured(r) /\ VolumeSum(R \cup r) <= VolumeSum(R) + VolumeSum(r)
      BY <1>1
    <3>3. VolumeSum(s) = Volume(x) + VolumeSum(r) /\ Volume(x) \in Nat
      BY <2>0, SumAdds DEF Measured
    <3>4. VolumeSum(R \cup r) \in Nat /\ VolumeSum(R) \in Nat /\ VolumeSum(r) \in Nat
      BY <3>2, SumAdds
    <3>5. VolumeSum(R \cup s) <= VolumeSum(R \cup r) + Volume(x)
      <4>1. CASE x \in R
        <5>1. R \cup s = R \cup r
          BY <4>1
        <5>2. VolumeSum(R \cup s) = VolumeSum(R \cup r)
          BY <5>1
        <5> HIDE DEF r
        <5> QED
          BY <3>3, <3>4, <5>2
      <4>2. CASE x \notin R
        <5>1. (R \cup s) \ {x} = R \cup r /\ x \in R \cup s
          BY <4>2
        <5> HIDE DEF r
        <5>2. VolumeSum(R \cup s) = Volume(x) + VolumeSum(R \cup r)
          BY <2>0, <5>1, SumAdds
        <5> QED
          BY <3>3, <3>4, <5>2
      <4> QED
        BY <4>1, <4>2
    <3>6. VolumeSum(R \cup s) \in Nat
      BY <2>0, SumAdds
    <3> HIDE DEF r
    <3>7. VolumeSum(R \cup s) <= VolumeSum(R) + VolumeSum(s)
      BY <3>2, <3>3, <3>4, <3>5, <3>6
    <3> QED
      BY <2>0, <3>7
  <2> QED
    BY <2>1, <2>2
<1>2. S \in A
  <2>1. IsFiniteSet(S)
    BY DEF Measured
  <2> HIDE DEF A
  <2> QED
    BY <1>1, <2>1, Subsets
<1> QED
  BY <1>2, SumAdds

LEMMA SumOne ==
  ASSUME NEW p, Volume(p) \in Nat
  PROVE  Measured({p}) /\ VolumeSum({p}) = Volume(p)
<1>1. Measured({p})
  BY FS_Singleton DEF Measured
<1>2. {p} \ {p} = {}
  OBVIOUS
<1>3. VolumeSum({p}) = Volume(p) + VolumeSum({p} \ {p})
  BY <1>1, SumAdds
<1> QED
  BY <1>1, <1>2, <1>3, SumEmpty

LEMMA SumTwo ==
  ASSUME NEW p, NEW q, Volume(p) \in Nat, Volume(q) \in Nat
  PROVE  /\ Measured({p, q}) /\ VolumeSum({p, q}) \in Nat
         /\ VolumeSum({p, q}) <= Volume(p) + Volume(q)
<1>1. {p, q} = {p} \cup {q}
  OBVIOUS
<1>2. /\ Measured({p} \cup {q}) /\ VolumeSum({p} \cup {q}) \in Nat
      /\ VolumeSum({p} \cup {q}) <= VolumeSum({p}) + VolumeSum({q})
  BY SumOne, SumUnion
<1>3. VolumeSum({p}) = Volume(p) /\ VolumeSum({q}) = Volume(q)
  BY SumOne
<1> QED
  BY <1>1, <1>2, <1>3

LEMMA SumThree ==
  ASSUME NEW p, NEW q, NEW r, Volume(p) \in Nat, Volume(q) \in Nat, Volume(r) \in Nat
  PROVE  /\ Measured({p, q, r}) /\ VolumeSum({p, q, r}) \in Nat
         /\ VolumeSum({p, q, r}) <= Volume(p) + Volume(q) + Volume(r)
<1>1. {p, q, r} = {p, q} \cup {r}
  OBVIOUS
<1>2. /\ Measured({p, q} \cup {r}) /\ VolumeSum({p, q} \cup {r}) \in Nat
      /\ VolumeSum({p, q} \cup {r}) <= VolumeSum({p, q}) + VolumeSum({r})
  BY SumOne, SumTwo, SumUnion
<1>3. /\ VolumeSum({p, q}) <= Volume(p) + Volume(q) /\ VolumeSum({p, q}) \in Nat
      /\ VolumeSum({r}) = Volume(r)
  BY SumOne, SumTwo
<1>4. VolumeSum({p, q} \cup {r}) <= Volume(p) + Volume(q) + Volume(r)
  <2> DEFINE a == VolumeSum({p, q} \cup {r})   b == VolumeSum({p, q})
             c == VolumeSum({r})   x == Volume(p)   y == Volume(q)   z == Volume(r)
  <2>1. /\ a <= b + c /\ b <= x + y /\ c = z
        /\ a \in Nat /\ b \in Nat /\ x \in Nat /\ y \in Nat /\ z \in Nat
    BY <1>2, <1>3
  <2> HIDE DEF a, b, c, x, y, z
  <2>2. a <= x + y + z
    BY <2>1
  <2> QED
    BY <2>2 DEF a, x, y, z
<1> QED
  BY <1>1, <1>2, <1>4

LEMMA SumSix ==
  ASSUME NEW p, NEW q, NEW r, NEW s, NEW t, NEW u,
         Volume(p) \in Nat, Volume(q) \in Nat, Volume(r) \in Nat,
         Volume(s) \in Nat, Volume(t) \in Nat, Volume(u) \in Nat
  PROVE  /\ Measured({p, q, r, s, t, u}) /\ VolumeSum({p, q, r, s, t, u}) \in Nat
         /\ VolumeSum({p, q, r, s, t, u}) <=
              Volume(p) + Volume(q) + Volume(r) + (Volume(s) + Volume(t) + Volume(u))
<1>1. {p, q, r, s, t, u} = {p, q, r} \cup {s, t, u}
  OBVIOUS
<1>2. /\ Measured({p, q, r} \cup {s, t, u})
      /\ VolumeSum({p, q, r} \cup {s, t, u}) \in Nat
      /\ VolumeSum({p, q, r} \cup {s, t, u}) <= VolumeSum({p, q, r}) + VolumeSum({s, t, u})
  BY SumThree, SumUnion
<1>3. /\ VolumeSum({p, q, r}) <= Volume(p) + Volume(q) + Volume(r)
      /\ VolumeSum({s, t, u}) <= Volume(s) + Volume(t) + Volume(u)
      /\ VolumeSum({p, q, r}) \in Nat /\ VolumeSum({s, t, u}) \in Nat
  BY SumThree
<1>4. VolumeSum({p, q, r} \cup {s, t, u}) <=
        Volume(p) + Volume(q) + Volume(r) + (Volume(s) + Volume(t) + Volume(u))
  <2> DEFINE a == VolumeSum({p, q, r} \cup {s, t, u})
             b == VolumeSum({p, q, r})   c == VolumeSum({s, t, u})
             x == Volume(p) + Volume(q) + Volume(r)
             y == Volume(s) + Volume(t) + Volume(u)
  <2>1. /\ a <= b + c /\ b <= x /\ c <= y
        /\ a \in Nat /\ b \in Nat /\ c \in Nat /\ x \in Nat /\ y \in Nat
    BY <1>2, <1>3
  <2> HIDE DEF a, b, c, x, y
  <2>2. a <= x + y
    BY <2>1
  <2> QED
    BY <2>2 DEF a, x, y
<1> QED
  BY <1>1, <1>2, <1>4

(* The sizes the shapes are made of, and the divisions that leave no rest.   *)
LEMMA Sizes ==
  ASSUME config \in Configs
  PROVE  /\ config.representation_width \in Positive /\ config.categories \in Positive
         /\ config.scout_projection_width \in Positive /\ config.classes \in Positive
         /\ config.scouts_per_category \in Positive /\ config.expert_branches \in Positive
         /\ config.branch_width \in Positive /\ config.experts_per_category \in Positive
         /\ config.field_blocks \in Positive
         /\ ClassesPerCategory \in Positive /\ FieldBlockWidth \in Positive
         /\ FieldBlockOutput \in Positive /\ ScoutCount \in Positive
         /\ config.classes = ClassesPerCategory * config.categories
         /\ config.representation_width = FieldBlockOutput * config.field_blocks
<1>1. ValidConfig(config)
  BY ConfigsAssumption
<1>2. \A m, n \in Positive : m % n = 0 => m = (m \div n) * n /\ m \div n \in Positive
  <2> SUFFICES ASSUME NEW m \in Nat \ {0}, NEW n \in Nat \ {0}, m % n = 0
               PROVE  m = (m \div n) * n /\ m \div n \in Nat \ {0}
    BY DEF Positive
  <2>0. m \div n \in Int
    OBVIOUS
  <2>1. m = n * (m \div n)
    BY SMTT(30)
  <2> DEFINE d == m \div n
  <2>2. m = n * d /\ d \in Int
    BY <2>0, <2>1
  <2> HIDE DEF d
  <2>3. n * d = d * n
    BY <2>2
  <2>4. d > 0
    BY <2>2
  <2> QED
    BY <2>2, <2>3, <2>4 DEF d
<1>3. /\ config.representation_width \in Positive /\ config.categories \in Positive
      /\ config.scout_projection_width \in Positive /\ config.classes \in Positive
      /\ config.scouts_per_category \in Positive /\ config.expert_branches \in Positive
      /\ config.branch_width \in Positive /\ config.experts_per_category \in Positive
      /\ config.field_blocks \in Positive /\ config.input_width \in Positive
      /\ config.input_width % config.field_blocks = 0
      /\ config.representation_width % config.field_blocks = 0
      /\ config.classes % config.categories = 0
  BY <1>1 DEF ValidConfig
<1>4. ScoutCount \in Positive
  <2>1. \A m, n \in Nat \ {0} : m * n \in Nat \ {0}
    OBVIOUS
  <2> QED
    BY <1>3, <2>1 DEF ScoutCount, Positive
<1> QED
  BY <1>2, <1>3, <1>4 DEF ClassesPerCategory, FieldBlockWidth, FieldBlockOutput

LEMMA Shapes ==
  ASSUME config \in Configs, NEW name \in TensorNames
  PROVE  /\ Len(TensorShape(name)) \in 1..5
         /\ DOMAIN TensorShape(name) = 1..Len(TensorShape(name))
         /\ \A i \in DOMAIN TensorShape(name) : TensorShape(name)[i] \in Positive
<1> DEFINE c == config.categories
           e == config.experts_per_category
           b == config.expert_branches
           r == config.representation_width
           w == config.branch_width
           l == ClassesPerCategory
           f == config.field_blocks
           p == config.scout_projection_width
           n == config.classes
           x == FieldBlockWidth
           o == FieldBlockOutput
           s == ScoutCount
<1>1. /\ c \in Positive /\ e \in Positive /\ b \in Positive /\ r \in Positive /\ w \in Positive
      /\ l \in Positive /\ f \in Positive /\ p \in Positive /\ n \in Positive /\ x \in Positive
      /\ o \in Positive /\ s \in Positive
  BY Sizes
<1>2. TensorShape(name) \in {<<f, x, o>>, <<f, o>>, <<r, r>>, <<r>>, <<s, r, p>>, <<s, p>>, <<s>>,
                             <<c, r>>, <<c>>, <<c, e, b, r, w>>, <<c, e, b, w>>,
                             <<c, e, b, w, l>>, <<c, e, l>>, <<c, e, r>>, <<c, e>>,
                             <<c, e, b>>, <<n, r>>, <<n>>}
  BY DEF TensorNames, TensorShape
<1> HIDE DEF c, e, b, r, w, l, f, p, n, x, o, s
<1> QED
  BY <1>1, <1>2

(* The patch p is a box of the tensor, cut at its first axes as pre says.    *)
IsBox(p, name, pre) ==
  /\ p.tensor = name
  /\ DOMAIN p.selector = DOMAIN TensorShape(name)
  /\ \A i \in DOMAIN TensorShape(name) :
       p.selector[i] = IF i \in DOMAIN pre THEN pre[i] ELSE Span(0, TensorShape(name)[i])

(* The cuts pre are within the tensor's first axes.                         *)
Cut(name, pre) ==
  /\ name \in TensorNames
  /\ Len(pre) <= Len(TensorShape(name))
  /\ \A i \in DOMAIN pre : /\ pre[i][1] \in Nat /\ pre[i][2] \in Nat
                           /\ pre[i][1] < pre[i][2] /\ pre[i][2] <= TensorShape(name)[i]

(* How far the box reaches along an axis.                                   *)
Extent(name, pre, i) ==
  IF i \in DOMAIN TensorShape(name)
    THEN IF i \in DOMAIN pre THEN pre[i][2] - pre[i][1] ELSE TensorShape(name)[i]
    ELSE 1

LEMMA RestIsBox ==
  ASSUME config \in Configs, NEW name \in TensorNames, NEW S, NEW pre \in Seq(S),
         Cut(name, pre)
  PROVE  IsBox(Patch(name, pre \o Rest(name, Len(pre))), name, pre)
<1> DEFINE shape == TensorShape(name)
           n == Len(shape)
           k == Len(pre)
           whole == [i \in DOMAIN shape |-> Span(0, shape[i])]
           rest == Rest(name, k)
           s == pre \o rest
<1>1. n \in 1..5 /\ DOMAIN shape = 1..n /\ k \in 0..n /\ DOMAIN pre = 1..k
  BY Shapes DEF Cut
<1>2. whole \in Seq({Span(0, shape[i]) : i \in DOMAIN shape}) /\ Len(whole) = n
      /\ \A i \in 1..n : whole[i] = Span(0, shape[i])
  BY <1>1
<1>3. rest = SubSeq(whole, k + 1, n)
  BY DEF Rest
<1> DEFINE T == {Span(0, shape[i]) : i \in DOMAIN shape}
<1> HIDE DEF whole, shape, n, k, rest, T
<1>4. /\ rest \in Seq(T) /\ Len(rest) = n - k
      /\ \A i \in 1..(n - k) : rest[i] = whole[i + k]
  BY <1>1, <1>2, <1>3 DEF T
<1> DEFINE U == S \cup T
<1>5. pre \in Seq(U) /\ rest \in Seq(U)
  BY <1>4
<1> HIDE DEF U
<1>6. Len(pre) = k
  BY DEF k
<1>7. s \in Seq(U) /\ Len(s) = n
  BY <1>1, <1>4, <1>5, <1>6
<1>8. \A i \in 1..n : s[i] = IF i <= k THEN pre[i] ELSE rest[i - k]
  BY <1>1, <1>4, <1>5, <1>6
<1>9. ASSUME NEW i \in 1..n, i > k PROVE rest[i - k] = Span(0, shape[i])
  <2>1. i - k \in 1..(n - k) /\ (i - k) + k = i
    BY <1>1, <1>9
  <2>2. rest[i - k] = whole[i]
    BY <1>4, <2>1
  <2> QED
    BY <1>2, <2>2
<1>10. DOMAIN s = 1..n
  BY <1>1, <1>7
<1> HIDE DEF s
<1>11. \A i \in 1..n : s[i] = IF i \in DOMAIN pre THEN pre[i] ELSE Span(0, shape[i])
  BY <1>1, <1>8, <1>9
<1>12. IsBox(Patch(name, s), name, pre)
  BY <1>1, <1>10, <1>11 DEF IsBox, Patch, shape
<1> QED
  BY <1>12 DEF s, rest, k

LEMMA BoxFits ==
  ASSUME config \in Configs, NEW name, NEW pre, NEW p, IsBox(p, name, pre), Cut(name, pre)
  PROVE  /\ Fits(p)
         /\ Volume(p) = Extent(name, pre, 1) * Extent(name, pre, 2) * Extent(name, pre, 3)
                          * Extent(name, pre, 4) * Extent(name, pre, 5)
<1> DEFINE shape == TensorShape(name)
<1>1. DOMAIN shape = 1..Len(shape) /\ \A i \in DOMAIN shape : shape[i] \in Positive
  BY Shapes DEF Cut
<1>2. p.tensor = name /\ DOMAIN p.selector = DOMAIN shape
  BY DEF IsBox
<1> HIDE DEF shape
<1>3. \A i \in DOMAIN shape : p.selector[i] = IF i \in DOMAIN pre THEN pre[i] ELSE <<0, shape[i]>>
  BY DEF IsBox, Span, shape
<1>4. \A i \in DOMAIN shape : /\ p.selector[i][1] \in Nat /\ p.selector[i][2] \in Nat
                              /\ p.selector[i][1] < p.selector[i][2]
                              /\ p.selector[i][2] <= shape[i]
                              /\ p.selector[i][2] - p.selector[i][1] =
                                   IF i \in DOMAIN pre THEN pre[i][2] - pre[i][1] ELSE shape[i]
  <2> TAKE i \in DOMAIN shape
  <2>1. CASE i \in DOMAIN pre
    BY <1>3, <2>1 DEF Cut, shape
  <2>2. CASE i \notin DOMAIN pre
    <3>1. shape[i] \in Nat /\ shape[i] > 0
      BY <1>1 DEF Positive
    <3>2. p.selector[i] = <<0, shape[i]>>
      BY <1>3, <2>2
    <3> QED
      BY <2>2, <3>1, <3>2
  <2> QED
    BY <2>1, <2>2
<1>5. Fits(p)
  BY <1>2, <1>4 DEF Fits, shape
<1> DEFINE width(i) == IF i \in DOMAIN p.selector THEN p.selector[i][2] - p.selector[i][1] ELSE 1
<1>6. \A i : width(i) = Extent(name, pre, i)
  BY <1>2, <1>4 DEF Extent, shape
<1>7. Volume(p) = width(1) * width(2) * width(3) * width(4) * width(5)
  BY DEF Volume
<1> HIDE DEF width
<1> QED
  BY <1>5, <1>6, <1>7

(* The box of an expert in one of its tensors.                              *)
ExpertBox(t, e, n) == Patch(n, <<At(t), At(e)>> \o Rest(n, 2))

LEMMA ExpertBoxes ==
  ASSUME config \in Configs, NEW t \in Categories, NEW e \in Experts,
         NEW n \in BranchTensors \cup GateTensors
  PROVE  /\ IsBox(ExpertBox(t, e, n), n, <<At(t), At(e)>>)
         /\ Cut(n, <<At(t), At(e)>>)
<1> DEFINE pre == <<At(t), At(e)>>
<1>1. /\ TensorShape(n)[1] = config.categories /\ TensorShape(n)[2] = config.experts_per_category
      /\ Len(TensorShape(n)) >= 2 /\ n \in TensorNames
  BY DEF TensorShape, BranchTensors, GateTensors, TensorNames
<1>2. /\ At(t)[1] = t /\ At(t)[2] = t + 1 /\ At(e)[1] = e /\ At(e)[2] = e + 1
      /\ At(t) \in Int \X Int /\ At(e) \in Int \X Int
  BY DEF At, Categories, Experts
<1>3. /\ t \in Nat /\ t + 1 <= config.categories
      /\ e \in Nat /\ e + 1 <= config.experts_per_category
  BY Sizes DEF Categories, Experts, Positive
<1> HIDE DEF pre
<1>4. /\ pre \in Seq(Int \X Int) /\ Len(pre) = 2 /\ DOMAIN pre = {1, 2}
      /\ pre[1] = At(t) /\ pre[2] = At(e)
  BY <1>2 DEF pre
<1>5. \A i \in DOMAIN pre : /\ pre[i][1] \in Nat /\ pre[i][2] \in Nat
                            /\ pre[i][1] < pre[i][2] /\ pre[i][2] <= TensorShape(n)[i]
  <2>1. /\ pre[1][1] = t /\ pre[1][2] = t + 1
        /\ pre[2][1] = e /\ pre[2][2] = e + 1
    BY <1>2, <1>4
  <2> QED
    BY <1>1, <1>3, <1>4, <2>1
<1>6. Cut(n, pre)
  BY <1>1, <1>4, <1>5 DEF Cut
<1>7. IsBox(Patch(n, pre \o Rest(n, Len(pre))), n, pre)
  <2> DEFINE S == Int \X Int
  <2>1. pre \in Seq(S)
    BY <1>4
  <2> HIDE DEF S
  <2> QED
    BY <1>1, <1>6, <2>1, RestIsBox
<1>8. IsBox(Patch(n, pre \o Rest(n, 2)), n, pre)
  BY <1>4, <1>7
<1> QED
  BY <1>6, <1>8 DEF ExpertBox, pre

LEMMA ExpertVolumes ==
  ASSUME config \in Configs, NEW t \in Categories, NEW e \in Experts
  PROVE  LET r == config.representation_width   b == config.expert_branches
             w == config.branch_width           l == ClassesPerCategory
         IN  /\ Volume(ExpertBox(t, e, "expert_branch_weights")) = b * r * w
             /\ Volume(ExpertBox(t, e, "expert_branch_bias")) = b * w
             /\ Volume(ExpertBox(t, e, "expert_branch_centers")) = b * w
             /\ Volume(ExpertBox(t, e, "expert_branch_readout")) = b * w * l
             /\ Volume(ExpertBox(t, e, "expert_health")) = 1
             /\ Volume(ExpertBox(t, e, "expert_branch_health")) = b
             /\ Volume(ExpertBox(t, e, "expert_local_bias")) = l
             /\ Volume(ExpertBox(t, e, "expert_gate_weights")) = r
             /\ Volume(ExpertBox(t, e, "expert_gate_bias")) = 1
<1> DEFINE r == config.representation_width   b == config.expert_branches
           w == config.branch_width           l == ClassesPerCategory
           pre == <<At(t), At(e)>>
<1>1. r \in Nat /\ b \in Nat /\ w \in Nat /\ l \in Nat /\ t \in Int /\ e \in Int
  BY Sizes DEF Positive, Categories, Experts
<1>2. pre[1][2] - pre[1][1] = 1 /\ pre[2][2] - pre[2][1] = 1 /\ DOMAIN pre = {1, 2}
  BY <1>1 DEF At
<1> HIDE DEF r, b, w, l, pre
<1>3. ASSUME NEW n \in BranchTensors \cup GateTensors
      PROVE  /\ Volume(ExpertBox(t, e, n)) =
                  Extent(n, pre, 1) * Extent(n, pre, 2) * Extent(n, pre, 3)
                    * Extent(n, pre, 4) * Extent(n, pre, 5)
             /\ Extent(n, pre, 1) = 1 /\ Extent(n, pre, 2) = 1
  <2>1. /\ IsBox(ExpertBox(t, e, n), n, pre) /\ Cut(n, pre)
    BY ExpertBoxes DEF pre
  <2>2. 1 \in DOMAIN TensorShape(n) /\ 2 \in DOMAIN TensorShape(n)
    <3>1. Len(TensorShape(n)) >= 2
      BY <2>1 DEF Cut, pre
    <3> QED
      BY <2>1, <3>1, Shapes DEF Cut
  <2> QED
    BY <1>2, <2>1, <2>2, BoxFits DEF Extent
<1>4. ASSUME NEW n \in BranchTensors \cup GateTensors,
             NEW x \in Nat, NEW y \in Nat, NEW z \in Nat,
             Extent(n, pre, 3) = x, Extent(n, pre, 4) = y, Extent(n, pre, 5) = z
      PROVE  Volume(ExpertBox(t, e, n)) = x * y * z
  BY <1>3, <1>4
<1>5. ASSUME NEW n \in BranchTensors \cup GateTensors, NEW i \in {3, 4, 5}
      PROVE  Extent(n, pre, i) =
               IF i \in DOMAIN TensorShape(n) THEN TensorShape(n)[i] ELSE 1
  BY <1>2 DEF Extent
<1>6. /\ TensorShape("expert_branch_weights") =
           <<config.categories, config.experts_per_category, b, r, w>>
      /\ TensorShape("expert_branch_bias") =
           <<config.categories, config.experts_per_category, b, w>>
      /\ TensorShape("expert_branch_centers") =
           <<config.categories, config.experts_per_category, b, w>>
      /\ TensorShape("expert_branch_readout") =
           <<config.categories, config.experts_per_category, b, w, l>>
      /\ TensorShape("expert_health") = <<config.categories, config.experts_per_category>>
      /\ TensorShape("expert_branch_health") =
           <<config.categories, config.experts_per_category, b>>
      /\ TensorShape("expert_local_bias") = <<config.categories, config.experts_per_category, l>>
      /\ TensorShape("expert_gate_weights") = <<config.categories, config.experts_per_category, r>>
      /\ TensorShape("expert_gate_bias") = <<config.categories, config.experts_per_category>>
  BY DEF TensorShape, r, b, w, l
<1>7. \A n \in {"expert_branch_weights", "expert_branch_bias", "expert_branch_centers",
               "expert_branch_readout", "expert_health", "expert_branch_health",
               "expert_local_bias", "expert_gate_weights", "expert_gate_bias"} :
        n \in BranchTensors \cup GateTensors
  BY DEF BranchTensors, GateTensors
<1>8. Volume(ExpertBox(t, e, "expert_branch_weights")) = b * r * w
  BY <1>1, <1>4, <1>5, <1>6, <1>7
<1>9. /\ Volume(ExpertBox(t, e, "expert_branch_bias")) = b * w * 1
      /\ Volume(ExpertBox(t, e, "expert_branch_centers")) = b * w * 1
  BY <1>1, <1>4, <1>5, <1>6, <1>7
<1>10. Volume(ExpertBox(t, e, "expert_branch_readout")) = b * w * l
  BY <1>1, <1>4, <1>5, <1>6, <1>7
<1>11. /\ Volume(ExpertBox(t, e, "expert_health")) = 1 * 1 * 1
       /\ Volume(ExpertBox(t, e, "expert_gate_bias")) = 1 * 1 * 1
  BY <1>1, <1>4, <1>5, <1>6, <1>7
<1>12. /\ Volume(ExpertBox(t, e, "expert_branch_health")) = b * 1 * 1
       /\ Volume(ExpertBox(t, e, "expert_local_bias")) = l * 1 * 1
       /\ Volume(ExpertBox(t, e, "expert_gate_weights")) = r * 1 * 1
  BY <1>1, <1>4, <1>5, <1>6, <1>7
<1>13. b * w * 1 = b * w /\ 1 * 1 * 1 = 1 /\ b * 1 * 1 = b /\ l * 1 * 1 = l /\ r * 1 * 1 = r
  BY <1>1
<1> QED
  BY <1>8, <1>9, <1>10, <1>11, <1>12, <1>13 DEF r, b, w, l

(* The cells of one expert that an operation trains.                        *)
PerExpert(operation) ==
  LET r == config.representation_width   b == config.expert_branches
      w == config.branch_width           l == ClassesPerCategory
  IN  IF operation = "branch_train"
        THEN b * r * w + b * w * (2 + l) + b + 1
        ELSE b * r * w + b * w + b * w + b * w * l + l + r + 1 + 1 + b

LEMMA OneExpert ==
  ASSUME config \in Configs, NEW t \in Categories, NEW e \in Experts,
         NEW operation \in ExpertOperations
  PROVE  /\ PerExpert(operation) \in Nat
         /\ Measured({ExpertBox(t, e, n) : n \in ExpertTensors(operation)})
         /\ VolumeSum({ExpertBox(t, e, n) : n \in ExpertTensors(operation)}) \in Nat
         /\ VolumeSum({ExpertBox(t, e, n) : n \in ExpertTensors(operation)}) <= PerExpert(operation)
<1> DEFINE r == config.representation_width   b == config.expert_branches
           w == config.branch_width           l == ClassesPerCategory
           P(n) == ExpertBox(t, e, n)
           branches == {P("expert_branch_weights"), P("expert_branch_bias"),
                        P("expert_branch_centers"), P("expert_branch_readout"),
                        P("expert_health"), P("expert_branch_health")}
           gates == {P("expert_local_bias"), P("expert_gate_weights"), P("expert_gate_bias")}
<1>1. r \in Nat /\ b \in Nat /\ w \in Nat /\ l \in Nat
  BY Sizes DEF Positive
<1>2. /\ {P(n) : n \in BranchTensors} = branches
      /\ {P(n) : n \in BranchTensors \cup GateTensors} = branches \cup gates
  BY DEF BranchTensors, GateTensors
<1>3. /\ Volume(P("expert_branch_weights")) = b * r * w
      /\ Volume(P("expert_branch_bias")) = b * w
      /\ Volume(P("expert_branch_centers")) = b * w
      /\ Volume(P("expert_branch_readout")) = b * w * l
      /\ Volume(P("expert_health")) = 1
      /\ Volume(P("expert_branch_health")) = b
      /\ Volume(P("expert_local_bias")) = l
      /\ Volume(P("expert_gate_weights")) = r
      /\ Volume(P("expert_gate_bias")) = 1
  BY ExpertVolumes
<1> DEFINE x == b * r * w   y == b * w   z == b * w * l
<1>4. x \in Nat /\ y \in Nat /\ z \in Nat /\ y * (2 + l) = y + y + z
  <2>1. \A i, j \in Nat : i * j \in Nat
    OBVIOUS
  <2>2. y \in Nat /\ b * r \in Nat
    BY <1>1, <2>1
  <2>3. x \in Nat /\ z \in Nat
    BY <1>1, <2>1, <2>2
  <2>4. y * (2 + l) = y + y + y * l
    <3> HIDE DEF y, l
    <3> QED
      BY <1>1, <2>2
  <2> QED
    BY <2>2, <2>3, <2>4
<1>5. /\ Measured(branches) /\ VolumeSum(branches) \in Nat
      /\ VolumeSum(branches) <= x + y + y + (z + 1 + b)
  <2> HIDE DEF P, x, y, z, b
  <2>1. /\ Volume(P("expert_branch_weights")) = x
        /\ Volume(P("expert_branch_bias")) = y
        /\ Volume(P("expert_branch_centers")) = y
        /\ Volume(P("expert_branch_readout")) = z
        /\ Volume(P("expert_health")) = 1
        /\ Volume(P("expert_branch_health")) = b
    BY <1>3 DEF x, y, z
  <2>2. 1 \in Nat
    OBVIOUS
  <2> QED
    BY <1>1, <1>4, <2>1, <2>2, SumSix
<1>6. /\ Measured(gates) /\ VolumeSum(gates) \in Nat
      /\ VolumeSum(gates) <= l + r + 1
  <2> HIDE DEF P, l, r
  <2>1. 1 \in Nat
    OBVIOUS
  <2> QED
    BY <1>1, <1>3, <2>1, SumThree
<1> HIDE DEF branches, gates, P
<1>7. /\ Measured(branches \cup gates) /\ VolumeSum(branches \cup gates) \in Nat
      /\ VolumeSum(branches \cup gates) <= VolumeSum(branches) + VolumeSum(gates)
  BY <1>5, <1>6, SumUnion
<1>8. CASE operation = "branch_train"
  <2>1. PerExpert(operation) = x + y * (2 + l) + b + 1
    BY <1>8 DEF PerExpert
  <2>2. {P(n) : n \in ExpertTensors(operation)} = branches
    BY <1>2, <1>8 DEF ExpertTensors
  <2> HIDE DEF x, y, z, b, l
  <2>3. PerExpert(operation) \in Nat /\ VolumeSum(branches) <= PerExpert(operation)
    BY <1>1, <1>4, <1>5, <2>1
  <2> QED
    BY <1>5, <2>2, <2>3 DEF P
<1>9. CASE operation # "branch_train"
  <2>1. PerExpert(operation) = x + y + y + z + l + r + 1 + 1 + b
    BY <1>9 DEF PerExpert
  <2>2. {P(n) : n \in ExpertTensors(operation)} = branches \cup gates
    BY <1>2, <1>9 DEF ExpertTensors
  <2> HIDE DEF x, y, z, b, l, r
  <2>3. PerExpert(operation) \in Nat /\ VolumeSum(branches \cup gates) <= PerExpert(operation)
    BY <1>1, <1>4, <1>5, <1>6, <1>7, <2>1
  <2> QED
    BY <1>7, <2>2, <2>3 DEF P
<1> QED
  BY <1>8, <1>9

(* The boxes of the experts s.                                              *)
ExpertsCells(t, s, operation) == {ExpertBox(t, e, n) : n \in ExpertTensors(operation), e \in s}

LEMMA AllExperts ==
  ASSUME config \in Configs, NEW t \in Categories, NEW operation \in ExpertOperations,
         NEW active \in SUBSET Experts, IsFiniteSet(active)
  PROVE  /\ Measured(ExpertsCells(t, active, operation))
         /\ VolumeSum(ExpertsCells(t, active, operation)) \in Nat
         /\ VolumeSum(ExpertsCells(t, active, operation)) <= Cardinality(active) * PerExpert(operation)
<1> DEFINE B(s) == ExpertsCells(t, s, operation)
           per == PerExpert(operation)
           A == {s \in SUBSET active : /\ Measured(B(s)) /\ VolumeSum(B(s)) \in Nat
                                       /\ VolumeSum(B(s)) <= Cardinality(s) * per}
<1>1. ASSUME NEW s \in SUBSET active, \A e \in s : s \ {e} \in A PROVE s \in A
  <2>0. IsFiniteSet(s) /\ Cardinality(s) \in Nat
    BY FS_Subset, FS_CardinalityType
  <2>1. CASE s = {}
    <3>1. B(s) = {}
      BY <2>1 DEF ExpertsCells
    <3> HIDE DEF B, per
    <3>2. Measured(B(s)) /\ VolumeSum(B(s)) = 0
      BY <3>1, SumEmpty
    <3>3. Cardinality(s) = 0 /\ per \in Nat
      <4>1. CASE Experts = {}
        <5>1. config.experts_per_category \in Nat \ {0}
          BY Sizes DEF Positive
        <5> QED
          BY <4>1, <5>1 DEF Experts
      <4>2. CASE Experts # {}
        BY <2>1, <4>2, FS_EmptySet, OneExpert DEF per
      <4> QED
        BY <4>1, <4>2
    <3>4. Cardinality(s) * per = 0
      BY <3>3
    <3> QED
      BY <3>2, <3>4
  <2>2. CASE s # {}
    <3>1. PICK e \in s : TRUE
      BY <2>2
    <3> DEFINE q == {ExpertBox(t, e, n) : n \in ExpertTensors(operation)}
               u == s \ {e}
    <3>2. B(s) = B(u) \cup q
      BY DEF ExpertsCells
    <3>3. Measured(B(u)) /\ VolumeSum(B(u)) \in Nat /\ VolumeSum(B(u)) <= Cardinality(u) * per
      BY <1>1
    <3>4. per \in Nat /\ Measured(q) /\ VolumeSum(q) \in Nat /\ VolumeSum(q) <= per
      BY OneExpert
    <3>5. Cardinality(s) = Cardinality(u) + 1 /\ Cardinality(u) \in Nat
      <4>1. IsFiniteSet(u) /\ Cardinality(u) = Cardinality(s) - 1
        BY <2>0, FS_RemoveElement
      <4>2. Cardinality(u) \in Nat
        BY <4>1, FS_CardinalityType
      <4> HIDE DEF u
      <4> QED
        BY <2>0, <4>1, <4>2
    <3> HIDE DEF B, q, u, per
    <3>6. /\ Measured(B(u) \cup q) /\ VolumeSum(B(u) \cup q) \in Nat
          /\ VolumeSum(B(u) \cup q) <= VolumeSum(B(u)) + VolumeSum(q)
      BY <3>3, <3>4, SumUnion
    <3>7. Cardinality(s) * per = Cardinality(u) * per + per /\ Cardinality(u) * per \in Nat
      <4> DEFINE k == Cardinality(u)
      <4>1. k \in Nat /\ Cardinality(s) = k + 1
        BY <3>5
      <4> HIDE DEF k
      <4>2. (k + 1) * per = k * per + per /\ k * per \in Nat
        BY <3>4, <4>1
      <4> QED
        BY <4>1, <4>2 DEF k
    <3>8. VolumeSum(B(s)) <= Cardinality(s) * per
      <4> DEFINE i == Cardinality(u) * per   j == VolumeSum(B(u))   k == VolumeSum(q)
                 m == VolumeSum(B(u) \cup q)
      <4>1. /\ m <= j + k /\ j <= i /\ k <= per
            /\ i \in Nat /\ j \in Nat /\ k \in Nat /\ m \in Nat /\ per \in Nat
        BY <3>3, <3>4, <3>6, <3>7
      <4> HIDE DEF i, j, k, m
      <4>2. m <= i + per
        BY <4>1
      <4> QED
        BY <3>2, <3>7, <4>2 DEF m, i
    <3> QED
      BY <3>2, <3>6, <3>8
  <2> QED
    BY <2>1, <2>2
<1>2. active \in A
  <2> HIDE DEF A
  <2> QED
    BY <1>1, Subsets
<1> QED
  BY <1>2

(* What the coordinator lets a category's expert operations write.          *)
LEMMA ExpertsAdmitted ==
  ASSUME config \in Configs, NEW b, b.operation \in ExpertOperations, b.target \in Categories,
         b.active \in SUBSET Experts, Cardinality(b.active) = Group
  PROVE  ValidDelta(b)
<1> DEFINE t == b.target
           cells == ExpertsCells(t, b.active, b.operation)
           per == PerExpert(b.operation)
           cell == PhaseCell(b)
<1>1. b.operation \in Operations
  BY DEF Operations
<1>2. Patches(b) = cells \cup {cell}
  <2>1. Patches(b) = ExpertPatches(b)
    BY DEF Patches, ExpertOperations, RotatingOperations
  <2> QED
    BY <2>1 DEF ExpertPatches, ExpertsCells, ExpertBox
<1>3. /\ ExpertTensors(b.operation) \subseteq BranchTensors \cup GateTensors
      /\ ExpertTensors(b.operation) \subseteq Allowed(b.operation) \cap TensorNames
      /\ "rotation_phase" \notin ExpertTensors(b.operation)
      /\ "rotation_phase" \in Allowed(b.operation) \cap TensorNames
  BY DEF ExpertTensors, Allowed, BranchTensors, GateTensors, TensorNames,
     ExpertOperations, RotatingOperations
<1>0. ASSUME NEW p
      PROVE  InTerritory(p, b) <=>
               /\ p.selector[1] = At(t)
               /\ p.tensor # "rotation_phase" => p.selector[2] \in {At(e) : e \in b.active}
  BY DEF InTerritory, ExpertOperations, RotatingOperations
<1>4. ASSUME NEW p \in cells
      PROVE  p.tensor \in Allowed(b.operation) \cap TensorNames /\ Fits(p) /\ InTerritory(p, b)
  <2>1. PICK n \in ExpertTensors(b.operation), e \in b.active : p = ExpertBox(t, e, n)
    BY <1>4 DEF ExpertsCells
  <2>2. IsBox(p, n, <<At(t), At(e)>>) /\ Cut(n, <<At(t), At(e)>>)
    BY <1>3, <2>1, ExpertBoxes
  <2>3. 1 \in DOMAIN TensorShape(n) /\ 2 \in DOMAIN TensorShape(n)
    <3>1. Len(TensorShape(n)) >= 2
      BY <2>2 DEF Cut
    <3> QED
      BY <2>2, <3>1, Shapes DEF Cut
  <2>4. p.tensor = n /\ p.selector[1] = At(t) /\ p.selector[2] = At(e)
    BY <2>2, <2>3 DEF IsBox
  <2>5. Fits(p)
    BY <2>2, BoxFits
  <2>6. InTerritory(p, b)
    BY <1>0, <2>1, <2>4
  <2> QED
    BY <1>3, <2>1, <2>4, <2>5, <2>6
<1>5. /\ cell.tensor \in Allowed(b.operation) \cap TensorNames
      /\ Fits(cell) /\ InTerritory(cell, b) /\ Volume(cell) = 1
  <2>1. config.categories \in Nat /\ t \in Nat /\ t + 1 <= config.categories
    BY Sizes DEF Categories, Positive
  <2>2. TensorShape("rotation_phase") = <<config.categories>>
    BY DEF TensorShape
  <2>3. cell.tensor = "rotation_phase" /\ cell.selector = <<At(t)>>
    BY DEF PhaseCell, Patch
  <2>4. At(t)[1] = t /\ At(t)[2] = t + 1
    BY DEF At
  <2> HIDE DEF cell, t
  <2>5. DOMAIN cell.selector = {1} /\ cell.selector[1] = At(t)
    BY <2>3
  <2>6. Fits(cell)
    BY <2>1, <2>2, <2>3, <2>4, <2>5 DEF Fits
  <2>7. InTerritory(cell, b)
    BY <1>0, <2>3, <2>5 DEF t
  <2>8. Volume(cell) = 1
    <3>1. 1 \in {1} /\ 2 \notin {1} /\ 3 \notin {1} /\ 4 \notin {1} /\ 5 \notin {1}
      OBVIOUS
    <3>2. Volume(cell) = (At(t)[2] - At(t)[1]) * 1 * 1 * 1 * 1
      BY <2>5, <3>1 DEF Volume
    <3> QED
      BY <2>1, <2>4, <3>2
  <2> QED
    BY <1>3, <2>3, <2>6, <2>7, <2>8
<1>6. VolumeSum(Patches(b)) <= Budget(b.operation)
  <2>1. IsFiniteSet(b.active)
    <3>1. config.experts_per_category - 1 \in Int
      BY Sizes DEF Positive
    <3>2. IsFiniteSet(Experts)
      BY <3>1, FS_Interval DEF Experts
    <3> QED
      BY <3>2, FS_Subset
  <2>2. /\ Measured(cells) /\ VolumeSum(cells) \in Nat
        /\ VolumeSum(cells) <= Group * per
    BY <2>1, AllExperts
  <2>3. 1 \in Nat /\ Measured({cell}) /\ VolumeSum({cell}) = 1
    BY <1>5, SumOne
  <2>4. /\ VolumeSum(cells \cup {cell}) \in Nat
        /\ VolumeSum(cells \cup {cell}) <= VolumeSum(cells) + VolumeSum({cell})
    BY <2>2, <2>3, SumUnion
  <2>5. Budget(b.operation) = Group * per + 1
    BY DEF Budget, PerExpert, ExpertOperations, RotatingOperations
  <2>6. Group * per \in Nat
    <3>1. Group \in Nat /\ 0 \in Experts
      <4>1. config.experts_per_category \in Nat \ {0}
        BY Sizes DEF Positive
      <4>2. 0 \in Experts
        BY <4>1 DEF Experts
      <4> QED
        BY <4>2, GroupsDivide DEF Positive
    <3>2. per \in Nat
      BY <3>1, OneExpert
    <3> HIDE DEF per
    <3> QED
      BY <3>1, <3>2
  <2>7. VolumeSum(cells \cup {cell}) <= Group * per + 1
    <3> DEFINE i == VolumeSum(cells \cup {cell})   j == VolumeSum(cells)
               k == VolumeSum({cell})              m == Group * per
    <3>1. i <= j + k /\ j <= m /\ k = 1 /\ i \in Nat /\ j \in Nat /\ m \in Nat
      BY <2>2, <2>3, <2>4, <2>6
    <3> HIDE DEF i, j, k, m
    <3>2. i <= m + 1
      BY <3>1
    <3> QED
      BY <3>2 DEF i, m
  <2> QED
    BY <1>2, <2>5, <2>7
<1>7. \E p \in Patches(b) : p.tensor = "rotation_phase"
  <2>1. cell \in Patches(b)
    BY <1>2
  <2>2. cell.tensor = "rotation_phase"
    BY DEF PhaseCell, Patch
  <2> QED
    BY <2>1, <2>2
<1>8. \A p \in Patches(b) : p.tensor \in Allowed(b.operation) \cap TensorNames
                             /\ Fits(p) /\ InTerritory(p, b)
  BY <1>2, <1>4, <1>5
<1>9. PatchesAllowed(b)
  BY <1>6, <1>7, <1>8 DEF PatchesAllowed, VolumeSum
<1> QED
  BY <1>1, <1>9, PlansAgree DEF ValidDelta

(* The length of an axis, 1 for one the tensor does not have.               *)
Long(name, i) == IF i \in DOMAIN TensorShape(name) THEN TensorShape(name)[i] ELSE 1

(* Equal parts of an axis.                                                  *)
LEMMA Parts ==
  ASSUME NEW m \in Positive, NEW k \in Positive, NEW t \in 0..(k - 1)
  PROVE  /\ t * m \in Nat /\ (t + 1) * m \in Nat
         /\ t * m < (t + 1) * m /\ (t + 1) * m - t * m = m
         /\ (t + 1) * m <= m * k /\ (t + 1) * m <= k * m
<1>1. m \in Nat /\ m > 0 /\ k \in Nat /\ t \in Nat /\ k - (t + 1) \in Nat
  BY DEF Positive
<1> DEFINE d == k - (t + 1)
<1>2. k = (t + 1) + d /\ d \in Nat
  BY <1>1
<1> HIDE DEF d
<1>3. (t + 1) * m = t * m + m /\ t * m \in Nat /\ d * m \in Nat
  BY <1>1, <1>2
<1>4. k * m = (t + 1) * m + d * m /\ m * k = k * m
  BY <1>1, <1>2
<1> DEFINE u == t * m   v == d * m
<1>5. u \in Nat /\ v \in Nat /\ (t + 1) * m = u + m /\ k * m = (u + m) + v /\ m * k = k * m
  BY <1>3, <1>4
<1>6. u < u + m /\ u + m \in Nat /\ (u + m) - u = m /\ u + m <= (u + m) + v
  <2> HIDE DEF u, v
  <2> QED
    BY <1>1, <1>5
<1> QED
  BY <1>5, <1>6

(* A box cut at its first axis.                                             *)
LEMMA FirstAxisCut ==
  ASSUME config \in Configs, NEW name \in TensorNames, NEW start \in Nat, NEW stop \in Nat,
         start < stop, stop <= TensorShape(name)[1]
  PROVE  LET p == Patch(name, <<Span(start, stop)>> \o Rest(name, 1))
         IN  /\ p.tensor = name /\ p.selector[1] = Span(start, stop) /\ Fits(p)
             /\ Volume(p) = (stop - start) * Long(name, 2) * Long(name, 3)
                              * Long(name, 4) * Long(name, 5)
<1> DEFINE pre == <<Span(start, stop)>>
           S == {Span(start, stop)}
           p == Patch(name, pre \o Rest(name, 1))
<1>1. /\ pre \in Seq(S) /\ Len(pre) = 1 /\ DOMAIN pre = {1} /\ pre[1] = Span(start, stop)
      /\ pre[1][1] = start /\ pre[1][2] = stop
  BY DEF Span
<1>2. 1 \in DOMAIN TensorShape(name) /\ Len(TensorShape(name)) >= 1
  BY Shapes
<1> HIDE DEF pre, S
<1>3. Cut(name, pre)
  BY <1>1, <1>2 DEF Cut
<1>4. IsBox(Patch(name, pre \o Rest(name, Len(pre))), name, pre)
  BY <1>1, <1>3, RestIsBox
<1>5. IsBox(p, name, pre)
  BY <1>1, <1>4
<1> HIDE DEF p
<1>6. /\ Fits(p)
      /\ Volume(p) = Extent(name, pre, 1) * Extent(name, pre, 2) * Extent(name, pre, 3)
                       * Extent(name, pre, 4) * Extent(name, pre, 5)
  BY <1>3, <1>5, BoxFits
<1>7. /\ Extent(name, pre, 1) = stop - start
      /\ Extent(name, pre, 2) = Long(name, 2) /\ Extent(name, pre, 3) = Long(name, 3)
      /\ Extent(name, pre, 4) = Long(name, 4) /\ Extent(name, pre, 5) = Long(name, 5)
  BY <1>1, <1>2 DEF Extent, Long
<1>8. p.tensor = name /\ p.selector[1] = Span(start, stop)
  BY <1>1, <1>2, <1>5 DEF IsBox
<1> QED
  BY <1>6, <1>7, <1>8 DEF p, pre

(* The checks of a delta that moves no expert.                              *)
LEMMA PlanAdmitted ==
  ASSUME NEW b, b.operation \in {"scout_train", "memory_train", "field_train"},
         \A p \in ExpectedWritePlan(b) : /\ p.tensor \in Allowed(b.operation) \cap TensorNames
                                         /\ Fits(p) /\ InTerritory(p, b),
         VolumeSum(ExpectedWritePlan(b)) <= Budget(b.operation)
  PROVE  ValidDelta(b)
<1>1. b.operation \in Operations /\ b.operation \notin ExpertOperations
  BY DEF Operations, ExpertOperations, RotatingOperations
<1>2. Patches(b) = ExpectedWritePlan(b)
  BY <1>1, PlansAgree
<1>3. PatchesAllowed(b)
  BY <1>1, <1>2 DEF PatchesAllowed, VolumeSum
<1> QED
  BY <1>2, <1>3 DEF ValidDelta

(* What the coordinator lets a category's memory training write.            *)
LEMMA MemoryAdmitted ==
  ASSUME config \in Configs, NEW b, b.operation = "memory_train", b.target \in Categories
  PROVE  ValidDelta(b)
<1> DEFINE t == b.target
           r == config.representation_width
           l == ClassesPerCategory
           P(n) == Patch(n, <<LocalClasses(t)>> \o Rest(n, 1))
           plan == {P("associative_memory"), P("associative_counts"), P("associative_strength")}
<1>1. r \in Nat /\ l \in Nat
  BY Sizes DEF Positive
<1>2. ExpectedWritePlan(b) = plan
  <2>1. ExpectedWritePlan(b) = {P(n) : n \in MemoryTensors}
    BY DEF ExpectedWritePlan, ExpertOperations, RotatingOperations
  <2> QED
    BY <2>1 DEF MemoryTensors
<1>3. /\ t * l \in Nat /\ (t + 1) * l \in Nat /\ t * l < (t + 1) * l
      /\ (t + 1) * l - t * l = l /\ (t + 1) * l <= config.classes
  <2>1. config.classes = l * config.categories /\ config.categories \in Positive /\ l \in Positive
    BY Sizes
  <2>2. t \in 0..(config.categories - 1)
    BY DEF Categories
  <2> HIDE DEF l, t
  <2> QED
    BY <2>1, <2>2, Parts
<1>4. /\ TensorShape("associative_memory") = <<config.classes, r>>
      /\ TensorShape("associative_counts") = <<config.classes>>
      /\ TensorShape("associative_strength") = <<config.classes>>
  BY DEF TensorShape
<1>5. MemoryTensors \subseteq TensorNames /\ MemoryTensors \subseteq Allowed(b.operation)
  BY DEF MemoryTensors, TensorNames, Allowed
<1>6. ASSUME NEW n \in MemoryTensors
      PROVE  /\ P(n).tensor = n /\ P(n).selector[1] = LocalClasses(t) /\ Fits(P(n))
             /\ Volume(P(n)) = l * Long(n, 2) * Long(n, 3) * Long(n, 4) * Long(n, 5)
  <2>1. TensorShape(n)[1] = config.classes
    BY <1>4, <1>6 DEF MemoryTensors
  <2> DEFINE start == t * l   stop == (t + 1) * l
  <2>2. P(n) = Patch(n, <<Span(start, stop)>> \o Rest(n, 1)) /\ LocalClasses(t) = Span(start, stop)
    BY DEF LocalClasses
  <2>3. start \in Nat /\ stop \in Nat /\ start < stop /\ stop - start = l
        /\ stop <= TensorShape(n)[1] /\ n \in TensorNames
    BY <1>3, <1>5, <2>1
  <2> HIDE DEF start, stop, P, l
  <2> QED
    BY <2>2, <2>3, FirstAxisCut
<1>7. /\ Volume(P("associative_memory")) = l * r
      /\ Volume(P("associative_counts")) = l
      /\ Volume(P("associative_strength")) = l
  <2>1. /\ "associative_memory" \in MemoryTensors /\ "associative_counts" \in MemoryTensors
        /\ "associative_strength" \in MemoryTensors
    BY DEF MemoryTensors
  <2> HIDE DEF P, l, r
  <2>2. /\ Long("associative_memory", 2) = r /\ Long("associative_memory", 3) = 1
        /\ Long("associative_memory", 4) = 1 /\ Long("associative_memory", 5) = 1
    BY <1>4 DEF Long
  <2>3. \A i \in 2..5 : Long("associative_counts", i) = 1 /\ Long("associative_strength", i) = 1
    BY <1>4 DEF Long
  <2>4. /\ Volume(P("associative_memory")) = l * r * 1 * 1 * 1
        /\ Volume(P("associative_counts")) = l * 1 * 1 * 1 * 1
        /\ Volume(P("associative_strength")) = l * 1 * 1 * 1 * 1
    BY <1>6, <2>1, <2>2, <2>3
  <2>5. l * r \in Nat
    BY <1>1
  <2> QED
    BY <1>1, <2>4, <2>5
<1>8. VolumeSum(ExpectedWritePlan(b)) <= Budget(b.operation)
  <2>1. Budget(b.operation) = l * (r + 2)
    BY DEF Budget
  <2>2. l * (r + 2) = l * r + l + l /\ l * r \in Nat
    <3> HIDE DEF l, r
    <3> QED
      BY <1>1
  <2>3. VolumeSum(plan) <= l * r + l + l
    <3> HIDE DEF P, l, r
    <3> QED
      BY <1>1, <1>7, <2>2, SumThree
  <2> QED
    BY <1>2, <2>1, <2>2, <2>3
<1>9. \A p \in ExpectedWritePlan(b) : /\ p.tensor \in Allowed(b.operation) \cap TensorNames
                                      /\ Fits(p) /\ InTerritory(p, b)
  <2>1. ASSUME NEW p PROVE InTerritory(p, b) <=> p.selector[1] = LocalClasses(t)
    BY DEF InTerritory, ExpertOperations, RotatingOperations
  <2>2. \A p \in plan : \E n \in MemoryTensors : p = P(n)
    BY DEF MemoryTensors
  <2> HIDE DEF P, plan
  <2> QED
    BY <1>2, <1>5, <1>6, <2>1, <2>2
<1> QED
  BY <1>8, <1>9, PlanAdmitted

(* What the coordinator lets a category's scout training write.             *)
LEMMA ScoutsAdmitted ==
  ASSUME config \in Configs, NEW b, b.operation = "scout_train", b.target \in Categories
  PROVE  ValidDelta(b)
<1> DEFINE t == b.target
           r == config.representation_width
           s == config.scouts_per_category
           p == config.scout_projection_width
           P(n) == Patch(n, <<Scouts(t)>> \o Rest(n, 1))
           Q(n) == Patch(n, <<At(t)>> \o Rest(n, 1))
           plan == {P("scout_weights"), P("scout_bias"), P("scout_centers"),
                    P("scout_quality"), Q("category_readout"), Q("category_bias")}
<1>1. r \in Nat /\ s \in Nat /\ p \in Nat
  BY Sizes DEF Positive
<1>2. ExpectedWritePlan(b) = plan
  <2>1. ExpectedWritePlan(b) = {P(n) : n \in ScoutTensors} \cup {Q(n) : n \in RouterTensors}
    BY DEF ExpectedWritePlan, ExpertOperations, RotatingOperations
  <2> QED
    BY <2>1 DEF ScoutTensors, RouterTensors
<1>3. /\ t * s \in Nat /\ (t + 1) * s \in Nat /\ t * s < (t + 1) * s
      /\ (t + 1) * s - t * s = s /\ (t + 1) * s <= ScoutCount
  <2>1. ScoutCount = config.categories * s /\ config.categories \in Positive /\ s \in Positive
    BY Sizes DEF ScoutCount
  <2>2. t \in 0..(config.categories - 1)
    BY DEF Categories
  <2> HIDE DEF s, t
  <2> QED
    BY <2>1, <2>2, Parts
<1>4. /\ TensorShape("scout_weights") = <<ScoutCount, r, p>>
      /\ TensorShape("scout_bias") = <<ScoutCount, p>>
      /\ TensorShape("scout_centers") = <<ScoutCount, p>>
      /\ TensorShape("scout_quality") = <<ScoutCount>>
      /\ TensorShape("category_readout") = <<config.categories, r>>
      /\ TensorShape("category_bias") = <<config.categories>>
  BY DEF TensorShape
<1>5. /\ ScoutTensors \cup RouterTensors \subseteq TensorNames
      /\ ScoutTensors \cup RouterTensors \subseteq Allowed(b.operation)
      /\ ScoutTensors \cap RouterTensors = {}
  BY DEF ScoutTensors, RouterTensors, TensorNames, Allowed
<1>6. ASSUME NEW n \in ScoutTensors
      PROVE  /\ P(n).tensor = n /\ P(n).selector[1] = Scouts(t) /\ Fits(P(n))
             /\ Volume(P(n)) = s * Long(n, 2) * Long(n, 3) * Long(n, 4) * Long(n, 5)
  <2>1. TensorShape(n)[1] = ScoutCount
    BY <1>4, <1>6 DEF ScoutTensors
  <2> DEFINE start == t * s   stop == (t + 1) * s
  <2>2. P(n) = Patch(n, <<Span(start, stop)>> \o Rest(n, 1)) /\ Scouts(t) = Span(start, stop)
    BY DEF Scouts
  <2>3. start \in Nat /\ stop \in Nat /\ start < stop /\ stop - start = s
        /\ stop <= TensorShape(n)[1] /\ n \in TensorNames
    BY <1>3, <1>5, <2>1
  <2> HIDE DEF start, stop, P, s
  <2> QED
    BY <2>2, <2>3, FirstAxisCut
<1>7. ASSUME NEW n \in RouterTensors
      PROVE  /\ Q(n).tensor = n /\ Q(n).selector[1] = At(t) /\ Fits(Q(n))
             /\ Volume(Q(n)) = 1 * Long(n, 2) * Long(n, 3) * Long(n, 4) * Long(n, 5)
  <2>1. TensorShape(n)[1] = config.categories
    BY <1>4, <1>7 DEF RouterTensors
  <2>2. Q(n) = Patch(n, <<Span(t, t + 1)>> \o Rest(n, 1)) /\ At(t) = Span(t, t + 1)
    BY DEF At, Span
  <2>3. t \in Nat /\ t + 1 \in Nat /\ t < t + 1 /\ (t + 1) - t = 1
        /\ t + 1 <= TensorShape(n)[1] /\ n \in TensorNames
    BY <1>5, <2>1, Sizes DEF Categories, Positive
  <2> HIDE DEF Q, t
  <2> QED
    BY <2>2, <2>3, FirstAxisCut
<1>8. /\ Volume(P("scout_weights")) = s * r * p
      /\ Volume(P("scout_bias")) = s * p
      /\ Volume(P("scout_centers")) = s * p
      /\ Volume(P("scout_quality")) = s
      /\ Volume(Q("category_readout")) = r
      /\ Volume(Q("category_bias")) = 1
  <2>1. /\ {"scout_weights", "scout_bias", "scout_centers", "scout_quality"} = ScoutTensors
        /\ {"category_readout", "category_bias"} = RouterTensors
    BY DEF ScoutTensors, RouterTensors
  <2> HIDE DEF P, Q, r, s, p
  <2>2. /\ Long("scout_weights", 2) = r /\ Long("scout_weights", 3) = p
        /\ Long("scout_weights", 4) = 1 /\ Long("scout_weights", 5) = 1
        /\ Long("scout_bias", 2) = p /\ Long("scout_centers", 2) = p
        /\ Long("category_readout", 2) = r
    BY <1>4 DEF Long
  <2>3. \A i \in 3..5 : Long("scout_bias", i) = 1 /\ Long("scout_centers", i) = 1
                        /\ Long("category_readout", i) = 1
    BY <1>4 DEF Long
  <2>4. \A i \in 2..5 : Long("scout_quality", i) = 1 /\ Long("category_bias", i) = 1
    BY <1>4 DEF Long
  <2>5. /\ Volume(P("scout_weights")) = s * r * p * 1 * 1
        /\ Volume(P("scout_bias")) = s * p * 1 * 1 * 1
        /\ Volume(P("scout_centers")) = s * p * 1 * 1 * 1
        /\ Volume(P("scout_quality")) = s * 1 * 1 * 1 * 1
    BY <1>6, <2>1, <2>2, <2>3, <2>4
  <2>6. /\ Volume(Q("category_readout")) = 1 * r * 1 * 1 * 1
        /\ Volume(Q("category_bias")) = 1 * 1 * 1 * 1 * 1
    BY <1>7, <2>1, <2>2, <2>3, <2>4
  <2>7. \A i, j \in Nat : i * j \in Nat
    OBVIOUS
  <2>8. s * r * p \in Nat /\ s * p \in Nat
    BY <1>1, <2>7
  <2> QED
    BY <1>1, <2>5, <2>6, <2>8
<1>9. VolumeSum(ExpectedWritePlan(b)) <= Budget(b.operation)
  <2>1. Budget(b.operation) = s * (r * p + 2 * p + 1) + r + 1
    BY DEF Budget
  <2> DEFINE x == s * r * p   y == s * p
  <2>2. x \in Nat /\ y \in Nat /\ s * (r * p + 2 * p + 1) = x + y + y + s
    <3> HIDE DEF s, r, p
    <3>1. \A i, j \in Nat : i * j \in Nat
      OBVIOUS
    <3>2. x \in Nat /\ y \in Nat /\ r * p \in Nat /\ s * r \in Nat
      BY <1>1, <3>1
    <3>3. x = s * (r * p)
      BY <1>1, SMTT(30)
    <3> DEFINE q == r * p
    <3>4. q \in Nat /\ x = s * q
      BY <3>2, <3>3
    <3> HIDE DEF q
    <3>5. s * (q + 2 * p + 1) = s * q + (s * p + s * p) + s
      BY <1>1, <3>4
    <3> QED
      BY <1>1, <3>2, <3>4, <3>5 DEF q
  <2>3. VolumeSum(plan) <= x + y + y + (s + r + 1)
    <3>1. /\ Volume(P("scout_weights")) = x /\ Volume(P("scout_bias")) = y
          /\ Volume(P("scout_centers")) = y
      BY <1>8
    <3>2. 1 \in Nat
      OBVIOUS
    <3> HIDE DEF P, Q, s, r, p, x, y
    <3> QED
      BY <1>1, <1>8, <2>2, <3>1, <3>2, SumSix
  <2>4. x + y + y + (s + r + 1) = x + y + y + s + r + 1
    <3> HIDE DEF s, r, p, x, y
    <3> QED
      BY <1>1, <2>2
  <2> HIDE DEF x, y
  <2> QED
    BY <1>2, <2>1, <2>2, <2>3, <2>4
<1>10. \A q \in ExpectedWritePlan(b) : /\ q.tensor \in Allowed(b.operation) \cap TensorNames
                                       /\ Fits(q) /\ InTerritory(q, b)
  <2>1. ASSUME NEW q
        PROVE  InTerritory(q, b) <=>
                 q.selector[1] = IF q.tensor \in ScoutTensors THEN Scouts(t) ELSE At(t)
    BY DEF InTerritory, ExpertOperations, RotatingOperations
  <2>2. \A q \in plan : (\E n \in ScoutTensors : q = P(n)) \/ (\E n \in RouterTensors : q = Q(n))
    BY DEF ScoutTensors, RouterTensors
  <2> HIDE DEF P, Q, plan
  <2> QED
    BY <1>2, <1>5, <1>6, <1>7, <2>1, <2>2
<1> QED
  BY <1>9, <1>10, PlanAdmitted

(* A whole tensor.                                                          *)
LEMMA WholeTensor ==
  ASSUME config \in Configs, NEW name \in TensorNames
  PROVE  LET p == Patch(name, Rest(name, 0))
         IN  /\ p.tensor = name /\ p.selector[1] = Span(0, TensorShape(name)[1]) /\ Fits(p)
             /\ Volume(p) = Long(name, 1) * Long(name, 2) * Long(name, 3)
                              * Long(name, 4) * Long(name, 5)
<1> DEFINE pre == << >>
           S == {0}
           shape == TensorShape(name)
           whole == [i \in DOMAIN shape |-> Span(0, shape[i])]
           T == {Span(0, shape[i]) : i \in DOMAIN shape}
           p == Patch(name, Rest(name, 0))
<1>1. pre \in Seq(S) /\ Len(pre) = 0 /\ DOMAIN pre = {}
  OBVIOUS
<1>2. DOMAIN shape = 1..Len(shape) /\ Len(shape) \in Nat /\ 1 \in DOMAIN shape
  BY Shapes
<1>3. Rest(name, 0) \in Seq(T)
  <2>1. whole \in Seq(T) /\ Len(whole) = Len(shape)
    BY <1>2
  <2>2. Rest(name, 0) = SubSeq(whole, 1, Len(shape))
    BY DEF Rest
  <2> HIDE DEF whole, T, shape
  <2> QED
    BY <2>1, <2>2
<1>4. pre \o Rest(name, 0) = Rest(name, 0)
  <2> HIDE DEF T
  <2> QED
    BY <1>3
<1> HIDE DEF pre, S
<1>5. Cut(name, pre)
  BY <1>1, <1>2 DEF Cut
<1>6. IsBox(Patch(name, pre \o Rest(name, Len(pre))), name, pre)
  BY <1>1, <1>5, RestIsBox
<1>7. IsBox(p, name, pre)
  BY <1>1, <1>4, <1>6
<1> HIDE DEF p
<1>8. /\ Fits(p)
      /\ Volume(p) = Extent(name, pre, 1) * Extent(name, pre, 2) * Extent(name, pre, 3)
                       * Extent(name, pre, 4) * Extent(name, pre, 5)
  BY <1>5, <1>7, BoxFits
<1>9. \A i : Extent(name, pre, i) = Long(name, i)
  BY <1>1 DEF Extent, Long
<1>10. p.tensor = name /\ p.selector[1] = Span(0, shape[1])
  BY <1>1, <1>2, <1>7 DEF IsBox
<1> QED
  BY <1>8, <1>9, <1>10 DEF p

(* What the coordinator lets a block's field training write.                *)
LEMMA FieldAdmitted ==
  ASSUME config \in Configs, NEW b, b.operation = "field_train",
         b.target \in 0..(config.field_blocks - 1)
  PROVE  ValidDelta(b)
<1> DEFINE t == b.target
           f == config.field_blocks
           c == config.categories
           r == config.representation_width
           x == FieldBlockWidth
           o == FieldBlockOutput
           P(n) == Patch(n, <<At(t)>> \o Rest(n, 1))
           M == Patch("field_mixer", <<BlockRows(t)>> \o Rest("field_mixer", 1))
           W(n) == Patch(n, Rest(n, 0))
           blocks == {"field_weights", "field_bias"}
           wholes == {"field_mixer_bias", "category_readout", "category_bias"}
           plan == {P("field_weights"), P("field_bias"), M,
                    W("field_mixer_bias"), W("category_readout"), W("category_bias")}
<1>1. r \in Nat /\ c \in Nat /\ x \in Nat /\ o \in Nat /\ f \in Nat
  BY Sizes DEF Positive
<1>2. ExpectedWritePlan(b) = plan
  <2>1. ExpectedWritePlan(b) =
          {P(n) : n \in {"field_weights", "field_bias"}} \cup {M}
            \cup {W(n) : n \in RouterTensors \cup {"field_mixer_bias"}}
    BY DEF ExpectedWritePlan, ExpertOperations, RotatingOperations
  <2> HIDE DEF P, M, W
  <2> QED
    BY <2>1 DEF RouterTensors
<1>3. /\ t * o \in Nat /\ (t + 1) * o \in Nat /\ t * o < (t + 1) * o
      /\ (t + 1) * o - t * o = o /\ (t + 1) * o <= r
  <2>1. r = o * f /\ f \in Positive /\ o \in Positive
    BY Sizes
  <2>2. t \in 0..(f - 1)
    OBVIOUS
  <2> HIDE DEF o, t, f, r
  <2> QED
    BY <2>1, <2>2, Parts
<1>4. /\ TensorShape("field_weights") = <<f, x, o>>
      /\ TensorShape("field_bias") = <<f, o>>
      /\ TensorShape("field_mixer") = <<r, r>>
      /\ TensorShape("field_mixer_bias") = <<r>>
      /\ TensorShape("category_readout") = <<c, r>>
      /\ TensorShape("category_bias") = <<c>>
  BY DEF TensorShape
<1>5. \A n \in blocks \cup wholes \cup {"field_mixer"} :
        n \in TensorNames /\ n \in Allowed(b.operation)
  BY DEF FieldTensors, RouterTensors, TensorNames, Allowed
<1>6. ASSUME NEW n \in blocks
      PROVE  /\ P(n).tensor = n /\ P(n).selector[1] = At(t) /\ Fits(P(n))
             /\ Volume(P(n)) = 1 * Long(n, 2) * Long(n, 3) * Long(n, 4) * Long(n, 5)
  <2>1. TensorShape(n)[1] = f
    BY <1>4, <1>6
  <2>2. P(n) = Patch(n, <<Span(t, t + 1)>> \o Rest(n, 1)) /\ At(t) = Span(t, t + 1)
    BY DEF At, Span
  <2>3. t \in Nat /\ t + 1 \in Nat /\ t < t + 1 /\ (t + 1) - t = 1
        /\ t + 1 <= TensorShape(n)[1] /\ n \in TensorNames
    BY <1>1, <1>5, <2>1
  <2> HIDE DEF P, t
  <2> QED
    BY <2>2, <2>3, FirstAxisCut
<1>7. /\ M.tensor = "field_mixer" /\ M.selector[1] = BlockRows(t) /\ Fits(M)
      /\ Volume(M) = o * Long("field_mixer", 2) * Long("field_mixer", 3)
                       * Long("field_mixer", 4) * Long("field_mixer", 5)
  <2>1. TensorShape("field_mixer")[1] = r
    BY <1>4
  <2> DEFINE start == t * o   stop == (t + 1) * o
  <2>2. /\ M = Patch("field_mixer", <<Span(start, stop)>> \o Rest("field_mixer", 1))
        /\ BlockRows(t) = Span(start, stop)
    BY DEF BlockRows
  <2>3. start \in Nat /\ stop \in Nat /\ start < stop /\ stop - start = o
        /\ stop <= TensorShape("field_mixer")[1] /\ "field_mixer" \in TensorNames
    BY <1>3, <1>5, <2>1
  <2> HIDE DEF start, stop, M, o
  <2> QED
    BY <2>2, <2>3, FirstAxisCut
<1>8. ASSUME NEW n \in wholes
      PROVE  /\ W(n).tensor = n /\ W(n).selector[1] = Span(0, TensorShape(n)[1]) /\ Fits(W(n))
             /\ Volume(W(n)) = Long(n, 1) * Long(n, 2) * Long(n, 3) * Long(n, 4) * Long(n, 5)
  <2>1. n \in TensorNames
    BY <1>5
  <2> QED
    BY <2>1, WholeTensor
<1>9. /\ Volume(P("field_weights")) = x * o
      /\ Volume(P("field_bias")) = o
      /\ Volume(M) = o * r
      /\ Volume(W("field_mixer_bias")) = r
      /\ Volume(W("category_readout")) = c * r
      /\ Volume(W("category_bias")) = c
  <2> HIDE DEF P, M, W, r, c, x, o, f
  <2>1. /\ Long("field_weights", 2) = x /\ Long("field_weights", 3) = o
        /\ Long("field_bias", 2) = o /\ Long("field_mixer", 2) = r
        /\ Long("field_mixer_bias", 1) = r /\ Long("category_bias", 1) = c
        /\ Long("category_readout", 1) = c /\ Long("category_readout", 2) = r
    BY <1>4 DEF Long
  <2>2. \A i \in 4..5 : Long("field_weights", i) = 1
    BY <1>4 DEF Long
  <2>3. \A i \in 3..5 : Long("field_bias", i) = 1 /\ Long("field_mixer", i) = 1
                        /\ Long("category_readout", i) = 1
    BY <1>4 DEF Long
  <2>4. \A i \in 2..5 : Long("field_mixer_bias", i) = 1 /\ Long("category_bias", i) = 1
    BY <1>4 DEF Long
  <2>5. /\ Volume(P("field_weights")) = 1 * x * o * 1 * 1
        /\ Volume(P("field_bias")) = 1 * o * 1 * 1 * 1
    BY <1>6, <2>1, <2>2, <2>3
  <2>6. Volume(M) = o * r * 1 * 1 * 1
    BY <1>7, <2>1, <2>3
  <2>7. /\ Volume(W("field_mixer_bias")) = r * 1 * 1 * 1 * 1
        /\ Volume(W("category_readout")) = c * r * 1 * 1 * 1
        /\ Volume(W("category_bias")) = c * 1 * 1 * 1 * 1
    BY <1>8, <2>1, <2>3, <2>4
  <2>8. x * o \in Nat /\ o * r \in Nat /\ c * r \in Nat /\ 1 * x = x
    BY <1>1
  <2> QED
    BY <1>1, <2>5, <2>6, <2>7, <2>8
<1>10. VolumeSum(ExpectedWritePlan(b)) <= Budget(b.operation)
  <2>1. Budget(b.operation) = x * o + o + o * r + r + c * r + c
    BY DEF Budget
  <2> DEFINE i == x * o   j == o * r   k == c * r
  <2>2. i \in Nat /\ j \in Nat /\ k \in Nat
    <3> HIDE DEF x, o, r, c
    <3> QED
      BY <1>1
  <2>3. VolumeSum(plan) <= i + o + j + (r + k + c)
    <3>1. /\ Volume(P("field_weights")) = i /\ Volume(M) = j
          /\ Volume(W("category_readout")) = k
      BY <1>9
    <3> HIDE DEF P, M, W, x, o, r, c, i, j, k
    <3> QED
      BY <1>1, <1>9, <2>2, <3>1, SumSix
  <2>4. i + o + j + (r + k + c) = i + o + j + r + k + c
    <3> HIDE DEF i, j, k, o, r, c
    <3> QED
      BY <1>1, <2>2
  <2> HIDE DEF i, j, k
  <2> QED
    BY <1>2, <2>1, <2>3, <2>4 DEF i, j, k
<1>11. \A q \in ExpectedWritePlan(b) : /\ q.tensor \in Allowed(b.operation) \cap TensorNames
                                       /\ Fits(q) /\ InTerritory(q, b)
  <2>1. ASSUME NEW q
        PROVE  InTerritory(q, b) <=>
                 CASE q.tensor \in {"field_weights", "field_bias"} -> q.selector[1] = At(t)
                   [] q.tensor = "field_mixer" -> q.selector[1] = BlockRows(t)
                   [] q.tensor = "field_mixer_bias" -> q.selector[1] = Span(0, r)
                   [] OTHER -> q.selector[1][1] = 0
    BY DEF InTerritory, ExpertOperations, RotatingOperations
  <2>2. \A n \in blocks : InTerritory(P(n), b)
    <3> HIDE DEF P
    <3> QED
      BY <1>6, <2>1
  <2>3. InTerritory(M, b)
    <3> HIDE DEF M
    <3> QED
      BY <1>7, <2>1
  <2>4. InTerritory(W("field_mixer_bias"), b)
    <3> HIDE DEF W
    <3> QED
      BY <1>4, <1>8, <2>1
  <2>5. \A n \in wholes \ {"field_mixer_bias"} : InTerritory(W(n), b)
    <3> HIDE DEF W
    <3>1. \A n \in wholes : W(n).selector[1][1] = 0
      BY <1>8 DEF Span
    <3> QED
      BY <1>8, <2>1, <3>1
  <2>6. \A q \in plan : (\E n \in blocks : q = P(n)) \/ q = M \/ (\E n \in wholes : q = W(n))
    <3> HIDE DEF P, M, W
    <3> QED
      OBVIOUS
  <2> HIDE DEF P, M, W, plan
  <2> QED
    BY <1>2, <1>5, <1>6, <1>7, <1>8, <2>2, <2>3, <2>4, <2>5, <2>6
<1> QED
  BY <1>10, <1>11, PlanAdmitted

(* The bundles that wait have a target of their operation, and those that   *)
(* train experts name as many of the category's as an update may move.      *)
OffersForm ==
  \A b \in offers :
    /\ b.operation \in Operations
    /\ b.target \in Targets(b.operation)
    /\ b.operation \in ExpertOperations =>
         b.active \in SUBSET Experts /\ Cardinality(b.active) = Group

LEMMA OffersAdmitted == config \in Configs /\ OffersForm => HonestWorkIsAdmitted
<1> SUFFICES ASSUME config \in Configs, OffersForm, NEW b \in offers PROVE ValidDelta(b)
  BY DEF HonestWorkIsAdmitted
<1>1. b.operation \in Operations /\ b.target \in Targets(b.operation)
  BY DEF OffersForm
<1>2. CASE b.operation \in ExpertOperations
  <2>1. b.target \in Categories
    BY <1>1, <1>2 DEF Targets, ExpertOperations, RotatingOperations
  <2> QED
    BY <1>2, <2>1, ExpertsAdmitted DEF OffersForm
<1>3. CASE b.operation = "scout_train"
  BY <1>1, <1>3, ScoutsAdmitted DEF Targets
<1>4. CASE b.operation = "memory_train"
  BY <1>1, <1>4, MemoryAdmitted DEF Targets
<1>5. CASE b.operation = "field_train"
  BY <1>1, <1>5, FieldAdmitted DEF Targets
<1> QED
  BY <1>1, <1>2, <1>3, <1>4, <1>5 DEF Operations

(* The experts of a phase are a group.                                      *)
LEMMA PhaseIsGroup ==
  ASSUME config \in Configs, NEW p \in 0..(RotationGroups - 1)
  PROVE  /\ p * Group .. (p + 1) * Group - 1 \in SUBSET Experts
         /\ Cardinality(p * Group .. (p + 1) * Group - 1) = Group
<1> DEFINE g == Group   n == RotationGroups   x == p * g
<1>1. g \in Positive /\ n \in Positive /\ config.experts_per_category = n * g
  BY GroupsDivide
<1>2. g \in Nat /\ g > 0 /\ p \in Nat
  BY <1>1 DEF Positive
<1>3. x \in Nat /\ (p + 1) * g = x + g /\ x + g <= n * g /\ n * g \in Nat
  <2>1. p \in 0..(n - 1)
    OBVIOUS
  <2>2. (p + 1) * g <= n * g
    <3> HIDE DEF g, n
    <3> QED
      BY <1>1, <2>1, Parts
  <2>3. x \in Nat /\ (p + 1) * g = x + g
    BY <1>2, NextGroup
  <2>4. n * g \in Nat
    BY <1>1 DEF Positive
  <2> QED
    BY <2>2, <2>3, <2>4
<1>4. p * Group .. (p + 1) * Group - 1 = x .. x + g - 1
  <2>1. \A y, z \in Int : y = x /\ z = x + g => y .. z - 1 = x .. x + g - 1
    BY <1>2, <1>3
  <2>2. p * Group = x /\ (p + 1) * Group = x + g /\ x \in Int /\ x + g \in Int
    BY <1>2, <1>3 DEF x, g
  <2> QED
    BY <2>1, <2>2, Zenon
<1> HIDE DEF x, g, n
<1>5. x .. x + g - 1 \in SUBSET Experts
  BY <1>1, <1>2, <1>3 DEF Experts
<1>6. Cardinality(x .. x + g - 1) = g
  <2>1. x \in Int /\ x + g - 1 \in Int /\ x <= x + g - 1 /\ (x + g - 1) - x + 1 = g
    BY <1>2, <1>3
  <2> DEFINE y == x + g - 1
  <2> HIDE DEF y
  <2>2. y \in Int /\ x <= y /\ y - x + 1 = g
    BY <2>1 DEF y
  <2>3. Cardinality(x .. y) = y - x + 1
    BY <2>1, <2>2, FS_Interval
  <2> QED
    BY <2>2, <2>3 DEF y
<1> QED
  BY <1>4, <1>5, <1>6 DEF g

(* Only training makes an offer.                                            *)
LEMMA OffersKeepForm ==
  ASSUME RotationInv, OffersForm, [Next]_vars
  PROVE  OffersForm'
<1>1. config' = config
  BY DEF Next, vars, ExecuteMutation, ApplyDelta, Withdraw, ComposeNonConflictingDeltas, Assign
<1>2. /\ Experts' = Experts /\ Group' = Group
      /\ \A operation : Targets(operation)' = Targets(operation)
  BY <1>1 DEF Experts, Group, Targets, Categories
<1>3. ASSUME offers' \subseteq offers PROVE OffersForm'
  BY <1>2, <1>3 DEF OffersForm
<1>4. ASSUME NEW operation \in Operations, NEW t \in Targets(operation),
             ExecuteMutation(operation, t)
      PROVE  OffersForm'
  <2>1. PICK b \in ComponentBundles(operation, t) : offers' = offers \cup {b}
    BY <1>4 DEF ExecuteMutation
  <2>2. b.operation = operation /\ b.target = t /\ b.active \in ActiveGroups(operation, t)
    BY <2>1 DEF ComponentBundles
  <2>3. operation \in ExpertOperations => b.active \in SUBSET Experts /\ Cardinality(b.active) = Group
    <3>1. CASE operation \in RotatingOperations
      <4>1. t \in Categories /\ ActiveGroups(operation, t) =
                                  {phase[t] * Group .. (phase[t] + 1) * Group - 1}
        BY <1>4, <3>1 DEF Targets, ActiveGroups, RotatingOperations
      <4>2. phase[t] \in 0..(RotationGroups - 1) /\ config \in Configs
        BY <4>1 DEF RotationInv
      <4>3. b.active = phase[t] * Group .. (phase[t] + 1) * Group - 1
        BY <2>2, <4>1
      <4> QED
        BY <4>2, <4>3, PhaseIsGroup
    <3>2. CASE operation = "repair"
      <4>1. ActiveGroups(operation, t) = kSubset(Group, Experts)
        BY <3>2 DEF ActiveGroups, RotatingOperations
      <4> QED
        BY <2>2, <4>1 DEF kSubset
    <3> QED
      BY <3>1, <3>2 DEF ExpertOperations
  <2> QED
    BY <1>2, <1>4, <2>1, <2>2, <2>3 DEF OffersForm
<1>5. CASE \E operation \in Operations : \E t \in Targets(operation) : ExecuteMutation(operation, t)
  BY <1>4, <1>5
<1>6. CASE \/ \E b \in offers : ApplyDelta(b) \/ Withdraw(b)
           \/ \E B \in SUBSET offers : ComposeNonConflictingDeltas(B)
  <2>1. offers' \subseteq offers
    BY <1>6 DEF ApplyDelta, Withdraw, ComposeNonConflictingDeltas, Assign
  <2> QED
    BY <1>3, <2>1
<1>7. CASE UNCHANGED vars
  BY <1>3, <1>7 DEF vars
<1> QED
  BY <1>5, <1>6, <1>7 DEF Next

(* For every topology, a delta of honest training passes validate_delta:    *)
(* its patches are within the schema, the territory of the target and the   *)
(* parameter budget of operation_schema, and are the expected write plan.   *)
THEOREM HonestWorkPasses == Spec => []HonestWorkIsAdmitted
<1>1. Init => RotationInv /\ OffersForm
  BY InitInTurn DEF Init, OffersForm
<1>2. RotationInv /\ OffersForm /\ [Next]_vars => (RotationInv /\ OffersForm)'
  BY StepInTurn, OffersKeepForm
<1>3. RotationInv /\ OffersForm => HonestWorkIsAdmitted
  BY OffersAdmitted DEF RotationInv
<1> QED
  BY <1>1, <1>2, <1>3, PTL DEF Spec
=============================================================================
