---------------------- MODULE ReferencePipelineProofs ----------------------
(***************************************************************************)
(* Theorems about the reference tissue's pipeline, for any nodes, any      *)
(* configurations, any reports and any number of lost leases: trust rests  *)
(* on the whole chain of evidence, a reward on a quorum that agrees,       *)
(* verdicts are final, the canonical candidate is the best one.            *)
(*                                                                         *)
(* The argument is a count.  A piece of work has three slots and a report  *)
(* for each that was completed, so that at most one group of reports can   *)
(* agree; and the third slot is opened by two reports that disagree only.  *)
(* So when the verifications of a candidate agree, nobody holds or is      *)
(* offered another one, and the verdict stands on all the reports there    *)
(* will ever be.                                                           *)
(***************************************************************************)
EXTENDS ReferencePipeline, FiniteSetTheorems, TLAPS

Outcomes(stage) == CASE stage = "exploration" -> Scores
                     [] stage = "training" -> Artifacts
                     [] OTHER -> Accuracies

Row == [status : {"absent", "queued", "completed", "failed"}, attempts : Nat,
        excluded : SUBSET Nodes]

TypeOK ==
  /\ task \in [Replicas -> Row]
  /\ reports \in [Works -> SUBSET [node : Nodes, value : Scores \cup Artifacts \cup Accuracies]]
  /\ \A w \in Works : \A x \in reports[w] : x.value \in Outcomes(w[1])
  /\ candidate \in [Configs -> Candidate \cup {NoCandidate}]

OneEach(rs) == \A x, y \in rs : x.node = y.node => x = y

Disagree(stage, rs) == \E x, y \in rs : Key(stage, x.value) # Key(stage, y.value)

AnsweredSlots(T, w) == {s \in Slots : T[<<w, s>>].status = "completed"}

(* Work w with the table of replicas T and the reports rs.                   *)
WorkOK(T, rs, w) ==
  /\ IsFiniteSet(rs)
  /\ OneEach(rs)
  /\ Cardinality(rs) <= Cardinality(AnsweredSlots(T, w))
  /\ T[<<w, 2>>].status # "absent" => Disagree(w[1], rs)

Exploration(c) == <<"exploration", c>>
Training(c) == <<"training", c>>
Verification(c) == <<"verification", c>>

Promised(R, c) ==
  \E x, y \in R[Exploration(c)] :
    x.node # y.node /\ x.value = y.value /\ x.value \in Promising

(* The evidence for candidate x of configuration c.                          *)
Backed(R, x, c) ==
  /\ Promised(R, c)
  /\ x.trainers \subseteq NodesOf(R[Training(c)])
  /\ Cardinality(x.trainers) >= Quorum
  /\ \A y \in R[Training(c)] :
       y.node \in x.trainers => Fingerprint[y.value] = Fingerprint[x.artifact]
  /\ \A y \in R[Verification(c)] : y.node \notin x.trainers

(* Nothing is left to verify.                                                *)
Closed(T, c) ==
  /\ \A s \in 0..1 : T[<<Verification(c), s>>].status = "completed"
  /\ T[<<Verification(c), 2>>].status \in {"absent", "completed"}

Unanimous(R, x, c) ==
  /\ Cardinality(R[Verification(c)]) >= Quorum
  /\ \A y \in R[Verification(c)] : y.value = x.accuracy
  /\ x.accuracy >= Gate

(* Configuration c with the candidate x.                                     *)
ConfigOK(T, R, x, c) ==
  /\ \A s \in Slots : T[<<Training(c), s>>].status # "absent" => Promised(R, c)
  /\ x = NoCandidate => R[Verification(c)] = {}
  /\ x # NoCandidate =>
       /\ Backed(R, x, c)
       /\ x.status # "candidate" => Closed(T, c)
       /\ x.status \in Trusted => Unanimous(R, x, c)

Made(C) == {c \in Configs : C[c] # NoCandidate}
Pool(C) == {c \in Made(C) : C[c].status \in Trusted}

Ordered(C) ==
  /\ \A c \in Made(C) : C[c].order < Cardinality(Made(C))
  /\ \A c, d \in Made(C) : C[c].order = C[d].order => c = d

Best(C, b) == b \in Pool(C) /\ \A d \in Pool(C) \ {b} : Beats(C[b], C[d])

OneCrown(C) ==
  \A c \in Pool(C) : \E b \in Pool(C) :
    /\ Best(C, b)
    /\ \A d \in Pool(C) : C[d].status = "canonical" <=> d = b

PipelineInv ==
  /\ TypeOK
  /\ \A w \in Works : WorkOK(task, reports[w], w)
  /\ \A c \in Configs : ConfigOK(task, reports, candidate[c], c)
  /\ Ordered(candidate)
  /\ OneCrown(candidate)
  /\ PaidExactlyForConsensus
-----------------------------------------------------------------------------
(***************************************************************************)
(* Counting reports.                                                       *)
(***************************************************************************)
LEMMA TwoMembers ==
  ASSUME NEW S, IsFiniteSet(S), NEW x \in S, NEW y \in S, x # y
  PROVE  Cardinality(S) >= 2
<1>1. IsFiniteSet({x}) /\ Cardinality({x}) = 1
  BY FS_Singleton
<1>2. IsFiniteSet({x} \cup {y}) /\ Cardinality({x} \cup {y}) = 2
  <2>1. y \notin {x}
    OBVIOUS
  <2> QED
    BY <1>1, <2>1, FS_AddElement
<1>3. {x} \cup {y} \in SUBSET S
  OBVIOUS
<1>4. Cardinality({x} \cup {y}) <= Cardinality(S)
  BY <1>3, FS_Subset
<1>5. Cardinality(S) \in Nat
  BY FS_CardinalityType
<1> QED
  BY <1>2, <1>4, <1>5

LEMMA AnotherMember ==
  ASSUME NEW S, IsFiniteSet(S), Cardinality(S) >= 2, NEW x \in S
  PROVE  \E y \in S : y # x
<1> SUFFICES ASSUME \A y \in S : y = x
             PROVE  FALSE
  OBVIOUS
<1>1. S = {x}
  OBVIOUS
<1> QED
  BY <1>1, FS_Singleton

LEMMA FourMembers ==
  ASSUME NEW S, IsFiniteSet(S), NEW a \in S, NEW b \in S, NEW c \in S, NEW d \in S,
         a # b, c # d, a # c, a # d, b # c, b # d
  PROVE  Cardinality(S) > 3
<1> DEFINE B == {a} \cup {b}
           C == B \cup {c}
           D == C \cup {d}
<1>1. IsFiniteSet({a}) /\ Cardinality({a}) = 1
  BY FS_Singleton
<1>2. b \notin {a} /\ c \notin B /\ d \notin C /\ D \in SUBSET S
  OBVIOUS
<1>3. IsFiniteSet(B) /\ Cardinality(B) = 2
  BY <1>1, <1>2, FS_AddElement
<1> HIDE DEF B
<1>4. IsFiniteSet(C) /\ Cardinality(C) = 3
  BY <1>2, <1>3, FS_AddElement
<1> HIDE DEF C
<1>5. IsFiniteSet(D) /\ Cardinality(D) = 4
  BY <1>2, <1>4, FS_AddElement
<1> HIDE DEF D
<1>6. Cardinality(D) <= Cardinality(S) /\ Cardinality(S) \in Nat
  BY <1>2, FS_Subset, FS_CardinalityType
<1> QED
  BY <1>5, <1>6

(* A report counts when another node's has the same key.                     *)
LEMMA ConsensusIsPairs ==
  ASSUME NEW stage, NEW rs, IsFiniteSet(rs), OneEach(rs), NEW x \in rs
  PROVE  x \in Consensus(stage, rs)
           <=> \E y \in rs : y.node # x.node /\ Key(stage, y.value) = Key(stage, x.value)
<1> DEFINE A == Agreeing(stage, rs, x)
<1>1. A \in SUBSET rs /\ x \in A
  BY DEF Agreeing
<1>2. IsFiniteSet(A)
  BY <1>1, FS_Subset
<1>3. ASSUME Cardinality(A) >= 2
      PROVE  \E y \in rs : y.node # x.node /\ Key(stage, y.value) = Key(stage, x.value)
  <2>1. PICK y \in A : y # x
    BY <1>1, <1>2, <1>3, AnotherMember
  <2> QED
    BY <2>1 DEF Agreeing, OneEach
<1>4. ASSUME NEW y \in rs, y.node # x.node, Key(stage, y.value) = Key(stage, x.value)
      PROVE  Cardinality(A) >= 2
  <2>1. y \in A
    BY <1>4 DEF Agreeing
  <2>2. y # x
    BY <1>4
  <2> QED
    BY <1>1, <1>2, <2>1, <2>2, TwoMembers
<1>5. x \in Consensus(stage, rs) <=> Cardinality(A) >= 2
  BY DEF Consensus, Quorum
<1> QED
  BY <1>3, <1>4, <1>5

(* Of three reports at most one group agrees.                                *)
LEMMA OneGroup ==
  ASSUME NEW stage, NEW rs, IsFiniteSet(rs), OneEach(rs), Cardinality(rs) <= 3,
         NEW x \in Consensus(stage, rs), NEW y \in Consensus(stage, rs)
  PROVE  Key(stage, x.value) = Key(stage, y.value)
<1>1. x \in rs /\ y \in rs
  BY DEF Consensus
<1>2. PICK a \in rs : a.node # x.node /\ Key(stage, a.value) = Key(stage, x.value)
  BY <1>1, ConsensusIsPairs
<1>3. PICK b \in rs : b.node # y.node /\ Key(stage, b.value) = Key(stage, y.value)
  BY <1>1, ConsensusIsPairs
<1> SUFFICES ASSUME Key(stage, x.value) # Key(stage, y.value)
             PROVE  FALSE
  OBVIOUS
<1>4. x # a /\ y # b /\ x # y /\ x # b /\ a # y /\ a # b
  BY <1>2, <1>3
<1>5. Cardinality(rs) > 3
  BY <1>1, <1>4, FourMembers
<1>6. Cardinality(rs) \in Nat
  BY FS_CardinalityType
<1> QED
  BY <1>5, <1>6

(* Two reports without a consensus disagree.                                 *)
LEMMA NoGroup ==
  ASSUME NEW stage, NEW rs, IsFiniteSet(rs), OneEach(rs), Cardinality(rs) >= 2,
         Consensus(stage, rs) = {}
  PROVE  Disagree(stage, rs)
<1>1. rs # {}
  BY FS_EmptySet
<1>2. PICK x \in rs : TRUE
  BY <1>1
<1>3. PICK y \in rs : y # x
  BY AnotherMember
<1>4. y.node # x.node
  BY <1>3 DEF OneEach
<1>5. x \notin Consensus(stage, rs)
  OBVIOUS
<1>6. ~ \E z \in rs : z.node # x.node /\ Key(stage, z.value) = Key(stage, x.value)
  BY <1>5, ConsensusIsPairs
<1>7. Key(stage, y.value) # Key(stage, x.value)
  BY <1>4, <1>6
<1> QED
  BY <1>7 DEF Disagree

(* And two reports with one do not.                                          *)
LEMMA PairAgrees ==
  ASSUME NEW stage, NEW rs, IsFiniteSet(rs), OneEach(rs), Cardinality(rs) = 2,
         Consensus(stage, rs) # {}
  PROVE  ~Disagree(stage, rs)
<1>1. PICK x \in Consensus(stage, rs) : TRUE
  OBVIOUS
<1>2. x \in rs
  BY <1>1 DEF Consensus
<1>3. PICK y \in rs : y.node # x.node /\ Key(stage, y.value) = Key(stage, x.value)
  BY <1>1, <1>2, ConsensusIsPairs
<1>4. ASSUME NEW z \in rs, z # x, z # y
      PROVE  FALSE
  <2>1. IsFiniteSet(rs \ {x}) /\ Cardinality(rs \ {x}) = 1
    BY <1>2, FS_RemoveElement
  <2>2. PICK u : rs \ {x} = {u}
    BY <2>1, FS_Singleton
  <2>3. y \in rs \ {x} /\ z \in rs \ {x}
    BY <1>3, <1>4
  <2> QED
    BY <1>4, <2>2, <2>3
<1>5. ASSUME NEW z \in rs
      PROVE  Key(stage, z.value) = Key(stage, x.value)
  BY <1>3, <1>4
<1> QED
  BY <1>5 DEF Disagree
-----------------------------------------------------------------------------
(***************************************************************************)
(* The table of replicas when slot s of w is answered and rs are its       *)
(* reports: only rows of w and of the works W that were absent are queued, *)
(* and a third slot only when the reports disagree.                        *)
(***************************************************************************)
After(T, U, w, s, rs, W) ==
  /\ U \in [Replicas -> Row]
  /\ T[<<w, s>>].status = "queued" /\ U[<<w, s>>].status = "completed"
  /\ \A r \in Replicas \ {<<w, s>>} :
       U[r] = T[r] \/ (T[r].status = "absent" /\ U[r].status = "queued" /\ r[1] \in W \cup {w})
  /\ \A u \in Works : T[<<u, 2>>].status = "absent" /\ U[<<u, 2>>].status # "absent" =>
       u = w /\ Disagree(w[1], rs)

LEMMA EnqueueRows ==
  ASSUME NEW T \in [Replicas -> Row], NEW X, NEW excluded \in SUBSET Nodes
  PROVE  /\ Enqueue(T, X, excluded) \in [Replicas -> Row]
         /\ \A r \in Replicas :
              Enqueue(T, X, excluded)[r] = T[r]
                \/ (r \in X /\ T[r].status = "absent" /\ Enqueue(T, X, excluded)[r].status = "queued")
<1>1. Queued(excluded) \in Row /\ Queued(excluded).status = "queued"
  BY DEF Queued, Row
<1> QED
  BY <1>1 DEF Enqueue

LEMMA SlotsOfWork ==
  ASSUME NEW w \in Works, NEW s \in Slots
  PROVE  <<w, s>> \in Replicas
  BY DEF Replicas

LEMMA SlotsAre ==
  /\ Slots = 0..2 /\ 0 \in Slots /\ 1 \in Slots /\ 2 \in Slots
  /\ IsFiniteSet(0..2) /\ Cardinality(0..2) = 3
  /\ IsFiniteSet(0..1) /\ Cardinality(0..1) = 2
<1>1. Slots = 0..2
  BY DEF Slots, MaxReplicas
<1>2. ASSUME NEW k \in Nat
      PROVE  IsFiniteSet(0..k) /\ Cardinality(0..k) = k + 1
  BY FS_Interval
<1>3. 1 \in Nat /\ 2 \in Nat /\ 1 + 1 = 2 /\ 2 + 1 = 3
  OBVIOUS
<1>4. IsFiniteSet(0..2) /\ Cardinality(0..2) = 2 + 1
  BY <1>2, <1>3, Zenon
<1>5. IsFiniteSet(0..1) /\ Cardinality(0..1) = 1 + 1
  BY <1>2, <1>3, Zenon
<1> QED
  BY <1>1, <1>3, <1>4, <1>5

LEMMA CompletedAfter ==
  ASSUME task \in [Replicas -> Row], NEW w \in Works, NEW s \in Slots,
         task[<<w, s>>].status = "queued", NEW rs, NEW W
  PROVE  After(task, Completed(<<w, s>>), w, s, rs, W)
<1>1. <<w, s>> \in Replicas
  BY SlotsOfWork
<1>2. [Absent EXCEPT !.status = "completed"] \in Row
  BY DEF Absent, Row
<1>3. [Absent EXCEPT !.status = "completed"].status = "completed"
  BY DEF Absent
<1>4. \A u \in Works : <<u, 2>> \in Replicas
  BY SlotsOfWork, SlotsAre
<1>5. \A u \in Works : <<u, 2>> = <<w, s>> => task[<<u, 2>>].status # "absent"
  OBVIOUS
<1> QED
  BY <1>1, <1>2, <1>3, <1>4, <1>5 DEF After, Completed

LEMMA EnqueueAfter ==
  ASSUME NEW T \in [Replicas -> Row], NEW V, NEW w \in Works, NEW s \in Slots, NEW rs, NEW W,
         After(T, V, w, s, rs, W), NEW X, NEW excluded \in SUBSET Nodes,
         \A r \in X : r[1] \in W \cup {w},
         \A u \in Works : <<u, 2>> \in X => u = w /\ Disagree(w[1], rs)
  PROVE  After(T, Enqueue(V, X, excluded), w, s, rs, W)
<1> DEFINE U == Enqueue(V, X, excluded)
<1>1. V \in [Replicas -> Row]
  BY DEF After
<1>2. U \in [Replicas -> Row]
  BY <1>1, EnqueueRows
<1>3. \A r \in Replicas : U[r] = V[r] \/ (r \in X /\ V[r].status = "absent" /\ U[r].status = "queued")
  BY <1>1, EnqueueRows
<1>4. <<w, s>> \in Replicas /\ \A u \in Works : <<u, 2>> \in Replicas
  BY SlotsOfWork, SlotsAre
<1> HIDE DEF U
<1>5. U[<<w, s>>].status = "completed"
  BY <1>3, <1>4 DEF After
<1>6. ASSUME NEW r \in Replicas \ {<<w, s>>}
      PROVE  U[r] = T[r] \/ (T[r].status = "absent" /\ U[r].status = "queued" /\ r[1] \in W \cup {w})
  BY <1>3 DEF After
<1>7. ASSUME NEW u \in Works, T[<<u, 2>>].status = "absent", U[<<u, 2>>].status # "absent"
      PROVE  u = w /\ Disagree(w[1], rs)
  BY <1>3, <1>4, <1>7 DEF After
<1>8. After(T, U, w, s, rs, W)
  BY <1>2, <1>5, <1>6, <1>7 DEF After
<1> QED
  BY <1>8 DEF U

LEMMA TiebreakAfter ==
  ASSUME NEW T \in [Replicas -> Row], NEW V, NEW w \in Works, NEW s \in Slots, NEW rs, NEW W,
         After(T, V, w, s, rs, W), IsFiniteSet(rs), OneEach(rs), NodesOf(rs) \subseteq Nodes
  PROVE  After(T, Tiebreak(V, w, rs), w, s, rs, W)
<1> DEFINE X == {<<w, Cardinality(rs)>>}
<1>1. CASE Cardinality(rs) >= MaxReplicas \/ Consensus(w[1], rs) # {}
  BY <1>1 DEF Tiebreak
<1>2. CASE Cardinality(rs) < MaxReplicas /\ Consensus(w[1], rs) = {}
  <2>1. ASSUME NEW u \in Works, <<u, 2>> \in X
        PROVE  u = w /\ Disagree(w[1], rs)
    <3>1. u = w /\ Cardinality(rs) = 2
      BY <2>1
    <3>2. Disagree(w[1], rs)
      BY <1>2, <3>1, NoGroup
    <3> QED
      BY <3>1, <3>2
  <2>2. After(T, Enqueue(V, X, NodesOf(rs)), w, s, rs, W)
    BY <2>1, EnqueueAfter
  <2>3. Tiebreak(V, w, rs) = Enqueue(V, X, NodesOf(rs))
    <3>1. Cardinality(rs) \in Nat
      BY FS_CardinalityType
    <3> QED
      BY <1>2, <3>1 DEF Tiebreak, MaxReplicas
  <2> QED
    BY <2>2, <2>3
<1>3. Cardinality(rs) \in Nat
  BY FS_CardinalityType
<1> QED
  BY <1>1, <1>2, <1>3 DEF MaxReplicas

(* The work that was answered.                                               *)
LEMMA WorkAnswered ==
  ASSUME NEW T \in [Replicas -> Row], NEW U, NEW w \in Works, NEW s \in Slots, NEW old, NEW x, NEW W,
         x.node \notin NodesOf(old), WorkOK(T, old, w), After(T, U, w, s, old \cup {x}, W)
  PROVE  WorkOK(U, old \cup {x}, w) /\ Cardinality(old \cup {x}) <= 3
<1> DEFINE rs == old \cup {x}
           A == AnsweredSlots(T, w)
           B == AnsweredSlots(U, w)
<1>1. IsFiniteSet(rs) /\ Cardinality(rs) = Cardinality(old) + 1
  <2>1. x \notin old
    BY DEF NodesOf
  <2> QED
    BY <2>1, FS_AddElement DEF WorkOK
<1>2. OneEach(rs)
  BY DEF OneEach, WorkOK, NodesOf
<1>3. A \in SUBSET (0..2) /\ B \in SUBSET (0..2)
  BY SlotsAre DEF AnsweredSlots
<1>4. IsFiniteSet(A) /\ IsFiniteSet(B) /\ Cardinality(B) <= 3
  BY <1>3, FS_Subset, SlotsAre
<1>5. s \notin A
  BY DEF AnsweredSlots, After
<1>6. A \cup {s} \in SUBSET B
  <2>1. ASSUME NEW a \in A
        PROVE  a \in B
    <3>1. <<w, a>> \in Replicas \ {<<w, s>>} /\ T[<<w, a>>].status = "completed" /\ a \in Slots
      BY <1>5, SlotsOfWork DEF AnsweredSlots
    <3>2. U[<<w, a>>] = T[<<w, a>>]
      BY <3>1 DEF After
    <3> QED
      BY <3>1, <3>2 DEF AnsweredSlots
  <2>2. s \in B
    BY DEF AnsweredSlots, After
  <2> QED
    BY <2>1, <2>2
<1>7. Cardinality(A \cup {s}) = Cardinality(A) + 1
  BY <1>4, <1>5, FS_AddElement
<1>8. Cardinality(A \cup {s}) <= Cardinality(B)
  BY <1>4, <1>6, FS_Subset
<1>9. /\ Cardinality(old) \in Nat /\ Cardinality(A) \in Nat /\ Cardinality(B) \in Nat
      /\ Cardinality(old) <= Cardinality(A)
  BY <1>4, FS_CardinalityType DEF WorkOK
<1>10. Cardinality(rs) <= Cardinality(B) /\ Cardinality(rs) <= 3
  BY <1>1, <1>4, <1>7, <1>8, <1>9
<1>11. ASSUME U[<<w, 2>>].status # "absent"
       PROVE  Disagree(w[1], rs)
  <2>1. CASE T[<<w, 2>>].status = "absent"
    BY <1>11, <2>1 DEF After
  <2>2. CASE T[<<w, 2>>].status # "absent"
    BY <2>2 DEF WorkOK, Disagree
  <2> QED
    BY <2>1, <2>2
<1> QED
  BY <1>1, <1>2, <1>10, <1>11 DEF WorkOK

(* The other works.                                                          *)
LEMMA WorkElsewhere ==
  ASSUME NEW T \in [Replicas -> Row], NEW U, NEW w \in Works, NEW s \in Slots, NEW rs, NEW W,
         After(T, U, w, s, rs, W), NEW u \in Works, u # w, NEW old, WorkOK(T, old, u)
  PROVE  WorkOK(U, old, u)
<1>1. \A a \in Slots : <<u, a>> \in Replicas \ {<<w, s>>}
  BY SlotsOfWork
<1>2. AnsweredSlots(U, u) = AnsweredSlots(T, u)
  BY <1>1 DEF AnsweredSlots, After
<1>3. U[<<u, 2>>].status # "absent" => T[<<u, 2>>].status # "absent"
  BY DEF After
<1> QED
  BY <1>2, <1>3 DEF WorkOK

(* With a consensus no replica of the work is left.                          *)
LEMMA ConsensusEnds ==
  ASSUME NEW U \in [Replicas -> Row], NEW w \in Works, NEW rs, WorkOK(U, rs, w),
         Consensus(w[1], rs) # {}
  PROVE  /\ U[<<w, 0>>].status = "completed" /\ U[<<w, 1>>].status = "completed"
         /\ U[<<w, 2>>].status \in {"absent", "completed"}
         /\ Cardinality(rs) >= 2
<1> DEFINE B == AnsweredSlots(U, w)
<1>1. IsFiniteSet(rs) /\ OneEach(rs) /\ Cardinality(rs) \in Nat
  BY FS_CardinalityType DEF WorkOK
<1>2. Cardinality(rs) >= 2
  <2>1. PICK x \in Consensus(w[1], rs) : TRUE
    OBVIOUS
  <2>2. x \in rs
    BY <2>1 DEF Consensus
  <2>3. PICK y \in rs : y.node # x.node
    BY <1>1, <2>1, <2>2, ConsensusIsPairs
  <2> QED
    BY <1>1, <2>2, <2>3, TwoMembers
<1>3. B \in SUBSET (0..2)
  BY SlotsAre DEF AnsweredSlots
<1>4. IsFiniteSet(B) /\ Cardinality(B) <= 3 /\ Cardinality(B) \in Nat /\ Cardinality(rs) <= Cardinality(B)
  BY <1>3, FS_Subset, SlotsAre, FS_CardinalityType DEF WorkOK
<1>5. CASE Cardinality(B) = 3
  <2>1. B = 0..2
    BY <1>3, <1>5, FS_Subset, SlotsAre
  <2>2. 0 \in B /\ 1 \in B /\ 2 \in B
    BY <2>1
  <2> QED
    BY <1>2, <2>2 DEF AnsweredSlots
<1>6. CASE Cardinality(B) = 2
  <2>1. Cardinality(rs) = 2
    BY <1>1, <1>2, <1>4, <1>6
  <2>2. ~Disagree(w[1], rs)
    BY <1>1, <2>1, PairAgrees
  <2>3. U[<<w, 2>>].status = "absent"
    BY <2>2 DEF WorkOK
  <2>4. 2 \notin B
    BY <2>3 DEF AnsweredSlots
  <2>5. B \in SUBSET (0..1)
    BY <1>3, <2>4
  <2>6. B = 0..1
    BY <1>6, <2>5, FS_Subset, SlotsAre
  <2>7. 0 \in B /\ 1 \in B
    BY <2>6
  <2> QED
    BY <1>2, <2>3, <2>7 DEF AnsweredSlots
<1> QED
  BY <1>1, <1>2, <1>4, <1>5, <1>6
-----------------------------------------------------------------------------
(***************************************************************************)
(* An answer: reports and rewards.                                         *)
(***************************************************************************)
LEMMA Constants ==
  /\ IsFiniteSet(Nodes) /\ IsFiniteSet(Configs)
  /\ Promising \subseteq Scores /\ Accuracies \subseteq Nat /\ Gate \in Nat
  /\ NoCandidate \notin Candidate
  BY PipelineAssumption

LEMMA StagesAre ==
  /\ \A w \in Works : w[1] \in Stages
  /\ \A c \in Configs : /\ Exploration(c) \in Works /\ Exploration(c)[1] = "exploration"
                        /\ Training(c) \in Works /\ Training(c)[1] = "training"
                        /\ Verification(c) \in Works /\ Verification(c)[1] = "verification"
  /\ \A c, d : /\ Exploration(c) # Training(d) /\ Exploration(c) # Verification(d)
               /\ Training(c) # Verification(d)
               /\ Exploration(c) = Exploration(d) => c = d
               /\ Training(c) = Training(d) => c = d
               /\ Verification(c) = Verification(d) => c = d
  BY DEF Works, Stages, Exploration, Training, Verification

(* What an answer of node n on w does to the reports.                        *)
Reported(R, S, n, w) ==
  \E x : /\ x.node = n /\ n \notin NodesOf(R[w])
         /\ S[w] = R[w] \cup {x}
         /\ \A u \in Works \ {w} : S[u] = R[u]

LEMMA AnswerReports ==
  ASSUME PipelineInv, NEW n \in Nodes, NEW w \in Works, NEW s \in Slots,
         NEW v \in Outcomes(w[1]), Answer(n, <<w, s>>, v)
  PROVE  /\ task[<<w, s>>].status = "queued"
         /\ reports'[w] = With(n, w, v)
         /\ Reported(reports, reports', n, w)
         /\ reports' \in [Works -> SUBSET [node : Nodes, value : Scores \cup Artifacts \cup Accuracies]]
         /\ \A u \in Works : \A x \in reports'[u] : x.value \in Outcomes(u[1])
         /\ IsFiniteSet(With(n, w, v)) /\ OneEach(With(n, w, v))
         /\ NodesOf(With(n, w, v)) \subseteq Nodes
<1> DEFINE x == [node |-> n, value |-> v]
           rs == With(n, w, v)
<1>1. Claimable(n, <<w, s>>) /\ reports' = [reports EXCEPT ![w] = rs]
  BY DEF Answer
<1>2. task[<<w, s>>].status = "queued" /\ n \notin NodesOf(reports[w])
  BY <1>1 DEF Claimable, Open
<1>3. x \in [node : Nodes, value : Scores \cup Artifacts \cup Accuracies]
  BY DEF Outcomes
<1>4. /\ reports \in [Works -> SUBSET [node : Nodes, value : Scores \cup Artifacts \cup Accuracies]]
      /\ \A u \in Works : \A y \in reports[u] : y.value \in Outcomes(u[1])
  BY DEF PipelineInv, TypeOK
<1>5. rs = reports[w] \cup {x} /\ x.node = n /\ x.value = v
  BY DEF With
<1>6. rs \in SUBSET [node : Nodes, value : Scores \cup Artifacts \cup Accuracies]
  BY <1>3, <1>4, <1>5
<1>7. reports'[w] = rs /\ \A u \in Works \ {w} : reports'[u] = reports[u]
  BY <1>1, <1>4
<1>8. reports' \in [Works -> SUBSET [node : Nodes, value : Scores \cup Artifacts \cup Accuracies]]
  BY <1>1, <1>4, <1>6
<1>9. \A u \in Works : \A y \in reports'[u] : y.value \in Outcomes(u[1])
  BY <1>4, <1>5, <1>7
<1>10. Reported(reports, reports', n, w)
  BY <1>2, <1>5, <1>7 DEF Reported
<1>11. IsFiniteSet(reports[w]) /\ OneEach(reports[w])
  BY DEF PipelineInv, WorkOK
<1>12. IsFiniteSet(rs)
  BY <1>5, <1>11, FS_AddElement
<1>13. OneEach(rs)
  BY <1>2, <1>5, <1>11 DEF OneEach, NodesOf
<1>14. NodesOf(rs) \subseteq Nodes
  BY <1>6 DEF NodesOf
<1> QED
  BY <1>2, <1>7, <1>8, <1>9, <1>10, <1>12, <1>13, <1>14

LEMMA AnswerWorks ==
  ASSUME PipelineInv, NEW n \in Nodes, NEW w \in Works, NEW s \in Slots, NEW W,
         Reported(reports, reports', n, w), After(task, task', w, s, reports'[w], W)
  PROVE  /\ \A u \in Works : WorkOK(task', reports'[u], u)
         /\ Cardinality(reports'[w]) <= 3
<1>1. task \in [Replicas -> Row] /\ \A u \in Works : WorkOK(task, reports[u], u)
  BY DEF PipelineInv, TypeOK
<1>2. PICK x : /\ x.node \notin NodesOf(reports[w]) /\ reports'[w] = reports[w] \cup {x}
               /\ \A u \in Works \ {w} : reports'[u] = reports[u]
  BY DEF Reported
<1>3. WorkOK(task', reports'[w], w) /\ Cardinality(reports'[w]) <= 3
  <2>1. After(task, task', w, s, reports[w] \cup {x}, W) /\ WorkOK(task, reports[w], w)
    BY <1>1, <1>2
  <2>2. WorkOK(task', reports[w] \cup {x}, w) /\ Cardinality(reports[w] \cup {x}) <= 3
    BY <1>1, <1>2, <2>1, WorkAnswered
  <2> QED
    BY <1>2, <2>2
<1>4. ASSUME NEW u \in Works, u # w
      PROVE  WorkOK(task', reports'[u], u)
  BY <1>1, <1>2, <1>4, WorkElsewhere
<1> QED
  BY <1>3, <1>4

LEMMA AnswerPays ==
  ASSUME PipelineInv, NEW n \in Nodes, NEW w \in Works, NEW s \in Slots,
         NEW v \in Outcomes(w[1]), Answer(n, <<w, s>>, v)
  PROVE  PaidExactlyForConsensus'
<1> DEFINE rs == With(n, w, v)
           Pair(R, u, m) == \E x, y \in R[u] : /\ x.node = m /\ y.node # m
                                               /\ Key(u[1], x.value) = Key(u[1], y.value)
<1>1. /\ reports'[w] = rs /\ Reported(reports, reports', n, w)
      /\ IsFiniteSet(rs) /\ OneEach(rs) /\ NodesOf(rs) \subseteq Nodes
  BY AnswerReports
<1>2. paid' = paid \cup {<<w, x.node>> : x \in Consensus(w[1], rs)}
  BY DEF Answer
<1>3. \A u \in Works, m \in Nodes : <<u, m>> \in paid <=> Pair(reports, u, m)
  BY DEF PipelineInv, PaidExactlyForConsensus
<1>4. ASSUME NEW u \in Works, u # w, NEW m \in Nodes
      PROVE  <<u, m>> \in paid' <=> Pair(reports', u, m)
  <2>1. reports'[u] = reports[u]
    BY <1>1, <1>4 DEF Reported
  <2>2. <<u, m>> \in paid' <=> <<u, m>> \in paid
    BY <1>2, <1>4
  <2> QED
    BY <1>3, <2>1, <2>2
<1>5. ASSUME NEW m \in Nodes
      PROVE  <<w, m>> \in paid' <=> Pair(reports', w, m)
  <2>1. reports[w] \subseteq rs
    BY DEF With
  <2>2. Pair(reports, w, m) => Pair(reports', w, m)
    BY <1>1, <2>1
  <2>3. ASSUME NEW x \in Consensus(w[1], rs), x.node = m
        PROVE  Pair(reports', w, m)
    <3>1. x \in rs
      BY DEF Consensus
    <3>2. PICK y \in rs : y.node # x.node /\ Key(w[1], y.value) = Key(w[1], x.value)
      BY <1>1, <3>1, ConsensusIsPairs
    <3> QED
      BY <1>1, <2>3, <3>1, <3>2
  <2>4. ASSUME Pair(reports', w, m)
        PROVE  \E x \in Consensus(w[1], rs) : x.node = m
    <3>1. PICK x \in rs, y \in rs : x.node = m /\ y.node # m /\ Key(w[1], x.value) = Key(w[1], y.value)
      BY <1>1, <2>4
    <3>2. x \in Consensus(w[1], rs)
      BY <1>1, <3>1, ConsensusIsPairs
    <3> QED
      BY <3>1, <3>2
  <2>5. <<w, m>> \in paid' <=> <<w, m>> \in paid \/ \E x \in Consensus(w[1], rs) : x.node = m
    BY <1>2
  <2>6. <<w, m>> \in paid <=> Pair(reports, w, m)
    BY <1>3
  <2> HIDE DEF Pair
  <2> QED
    BY <2>2, <2>3, <2>4, <2>5, <2>6
<1>6. ASSUME NEW u \in Works, NEW m \in Nodes
      PROVE  <<u, m>> \in paid' <=> Pair(reports', u, m)
  <2> HIDE DEF Pair
  <2>1. CASE u = w
    BY <1>5, <2>1
  <2>2. CASE u # w
    BY <1>4, <2>2
  <2> QED
    BY <2>1, <2>2
<1> QED
  BY <1>6 DEF PaidExactlyForConsensus
-----------------------------------------------------------------------------
(***************************************************************************)
(* Configurations.                                                         *)
(***************************************************************************)
LEMMA ReportsGrow ==
  ASSUME NEW R, NEW S, NEW n, NEW w, Reported(R, S, n, w)
  PROVE  /\ \A u \in Works : R[u] \subseteq S[u]
         /\ \A c \in Configs : Promised(R, c) => Promised(S, c)
<1>1. \A u \in Works : R[u] \subseteq S[u]
  BY DEF Reported
<1> QED
  BY <1>1, StagesAre DEF Promised

(* The evidence for x stays; a later report is not by one of its trainers.   *)
LEMMA BackedKept ==
  ASSUME NEW R, NEW S, NEW n, NEW w, Reported(R, S, n, w), NEW c \in Configs, NEW x,
         Backed(R, x, c), w = Verification(c) => n \notin x.trainers
  PROVE  Backed(S, x, c)
<1>1. Promised(S, c)
  BY ReportsGrow DEF Backed
<1>2. x.trainers \subseteq NodesOf(S[Training(c)])
  <2>1. R[Training(c)] \subseteq S[Training(c)]
    BY ReportsGrow, StagesAre
  <2> QED
    BY <2>1 DEF Backed, NodesOf
<1>3. PICK z : /\ z.node = n /\ n \notin NodesOf(R[w]) /\ S[w] = R[w] \cup {z}
               /\ \A u \in Works \ {w} : S[u] = R[u]
  BY DEF Reported
<1>4. ASSUME NEW y \in S[Training(c)], y.node \in x.trainers
      PROVE  y \in R[Training(c)]
  <2>1. CASE w = Training(c)
    <3>1. y # z
      BY <1>3, <1>4, <2>1 DEF Backed
    <3> QED
      BY <1>3, <2>1, <3>1
  <2>2. CASE w # Training(c)
    BY <1>3, <2>2, StagesAre
  <2> QED
    BY <2>1, <2>2
<1>5. ASSUME NEW y \in S[Verification(c)]
      PROVE  y.node \notin x.trainers
  <2>1. CASE w = Verification(c)
    BY <1>3, <2>1 DEF Backed
  <2>2. CASE w # Verification(c)
    <3>1. S[Verification(c)] = R[Verification(c)]
      BY <1>3, <2>2, StagesAre
    <3> QED
      BY <3>1 DEF Backed
  <2> QED
    BY <2>1, <2>2
<1> QED
  BY <1>1, <1>2, <1>4, <1>5 DEF Backed

(* What is closed stays closed, and is not answered.                         *)
LEMMA ClosedKept ==
  ASSUME NEW T \in [Replicas -> Row], NEW U, NEW w \in Works, NEW s \in Slots, NEW rs, NEW W,
         After(T, U, w, s, rs, W), NEW c \in Configs, Closed(T, c)
  PROVE  w # Verification(c) /\ Closed(U, c)
<1>1. \A a \in Slots : <<Verification(c), a>> \in Replicas
  BY SlotsOfWork, StagesAre
<1>2. w # Verification(c)
  <2>1. \A a \in Slots : T[<<Verification(c), a>>].status # "queued"
    BY SlotsAre DEF Closed
  <2> QED
    BY <2>1 DEF After
<1>3. \A a \in Slots : <<Verification(c), a>> \in Replicas \ {<<w, s>>}
  BY <1>1, <1>2
<1>4. \A a \in 0..1 : U[<<Verification(c), a>>].status = "completed"
  BY <1>3, SlotsAre DEF Closed, After
<1>5. U[<<Verification(c), 2>>].status \in {"absent", "completed"}
  <2>1. CASE T[<<Verification(c), 2>>].status = "completed"
    BY <1>3, <2>1, SlotsAre DEF After
  <2>2. CASE T[<<Verification(c), 2>>].status = "absent"
    BY <1>2, <2>2, StagesAre DEF After
  <2> QED
    BY <2>1, <2>2 DEF Closed
<1> QED
  BY <1>2, <1>4, <1>5 DEF Closed

(* A configuration whose candidate an answer leaves alone.                   *)
LEMMA ConfigKept ==
  ASSUME NEW T \in [Replicas -> Row], NEW U, NEW R, NEW S, NEW n,
         NEW w \in Works, NEW s \in Slots, NEW W,
         After(T, U, w, s, S[w], W), Reported(R, S, n, w),
         NEW c \in Configs, NEW x, ConfigOK(T, R, x, c),
         Training(c) \in W => Promised(S, c),
         w = Verification(c) => x # NoCandidate /\ n \notin x.trainers
  PROVE  ConfigOK(U, S, x, c)
<1>1. ASSUME NEW a \in Slots, U[<<Training(c), a>>].status # "absent"
      PROVE  Promised(S, c)
  <2>1. <<Training(c), a>> \in Replicas
    BY SlotsOfWork, StagesAre
  <2>2. CASE T[<<Training(c), a>>].status # "absent"
    BY <2>2, ReportsGrow DEF ConfigOK
  <2>3. CASE T[<<Training(c), a>>].status = "absent"
    <3>1. <<Training(c), a>> # <<w, s>>
      BY <2>3 DEF After
    <3>2. Training(c) \in W \cup {w}
      BY <1>1, <2>1, <2>3, <3>1 DEF After
    <3>3. CASE w = Training(c)
      <4>1. T[<<Training(c), s>>].status # "absent"
        BY <3>3 DEF After
      <4> QED
        BY <4>1, ReportsGrow DEF ConfigOK
    <3> QED
      BY <3>2, <3>3
  <2> QED
    BY <2>2, <2>3
<1>2. ASSUME x = NoCandidate
      PROVE  S[Verification(c)] = {}
  <2>1. S[Verification(c)] = R[Verification(c)]
    BY <1>2, StagesAre DEF Reported
  <2> QED
    BY <1>2, <2>1 DEF ConfigOK
<1>3. ASSUME x # NoCandidate
      PROVE  Backed(S, x, c)
  BY <1>3, BackedKept DEF ConfigOK
<1>4. ASSUME x # NoCandidate, x.status # "candidate"
      PROVE  Closed(U, c) /\ (x.status \in Trusted => Unanimous(S, x, c))
  <2>1. Closed(T, c) /\ (x.status \in Trusted => Unanimous(R, x, c))
    BY <1>4 DEF ConfigOK
  <2>2. w # Verification(c) /\ Closed(U, c)
    BY <2>1, ClosedKept
  <2>3. S[Verification(c)] = R[Verification(c)]
    BY <2>2, StagesAre DEF Reported
  <2> QED
    BY <2>1, <2>2, <2>3 DEF Unanimous
<1>5. Trusted = {"verified", "canonical"}
  BY DEF Trusted
<1>6. x # NoCandidate /\ x.status \in Trusted => Unanimous(S, x, c)
  BY <1>4, <1>5
<1> QED
  BY <1>1, <1>2, <1>3, <1>4, <1>6 DEF ConfigOK
-----------------------------------------------------------------------------
(***************************************************************************)
(* The crown.                                                              *)
(***************************************************************************)
Tables == [Configs -> Candidate \cup {NoCandidate}]

(* Who beats whom is a strict order, total on different orders of arrival.   *)
LEMMA BeatsIsAnOrder ==
  /\ \A x, y \in Candidate : ~(Beats(x, y) /\ Beats(y, x))
  /\ \A x, y, z \in Candidate : Beats(x, y) /\ Beats(y, z) => Beats(x, z)
  /\ \A x, y \in Candidate : x.order # y.order => Beats(x, y) \/ Beats(y, x)
  BY DEF Beats, Candidate

LEMMA MadeAreCandidates ==
  ASSUME NEW C \in Tables
  PROVE  /\ \A c \in Made(C) : c \in Configs /\ C[c] \in Candidate
         /\ \A c \in Pool(C) : c \in Made(C)
         /\ \A c \in Configs : C[c] \in Candidate => c \in Made(C)
  BY Constants DEF Tables, Made, Pool

LEMMA BestIsUnique ==
  ASSUME NEW C \in Tables, NEW a, NEW b, Best(C, a), Best(C, b)
  PROVE  a = b
<1> SUFFICES ASSUME a # b
             PROVE  FALSE
  OBVIOUS
<1>1. a \in Pool(C) /\ b \in Pool(C) /\ Beats(C[a], C[b]) /\ Beats(C[b], C[a])
  BY DEF Best
<1>2. C[a] \in Candidate /\ C[b] \in Candidate
  BY <1>1, MadeAreCandidates
<1> QED
  BY <1>1, <1>2, BeatsIsAnOrder

(* A trusted candidate joins the others: it, or the best of them, is best.   *)
LEMMA BestExists ==
  ASSUME NEW C \in Tables, Ordered(C), NEW c \in Pool(C),
         \A d \in Pool(C) \ {c} :
           \E b \in Pool(C) \ {c} : \A e \in Pool(C) \ {b, c} : Beats(C[b], C[e])
  PROVE  \E b \in Pool(C) : Best(C, b)
<1>1. CASE Pool(C) \ {c} = {}
  BY <1>1 DEF Best
<1>2. CASE Pool(C) \ {c} # {}
  <2>1. PICK b \in Pool(C) \ {c} : \A e \in Pool(C) \ {b, c} : Beats(C[b], C[e])
    BY <1>2
  <2>2. \A d \in Pool(C) : d \in Made(C) /\ C[d] \in Candidate
    BY MadeAreCandidates
  <2>3. C[b].order # C[c].order
    BY <2>1, <2>2 DEF Ordered
  <2>4. CASE Beats(C[b], C[c])
    BY <2>1, <2>4 DEF Best
  <2>5. CASE Beats(C[c], C[b])
    <3>1. \A e \in Pool(C) \ {b, c} : Beats(C[c], C[e])
      BY <2>1, <2>2, <2>5, BeatsIsAnOrder
    <3> QED
      BY <2>5, <3>1 DEF Best
  <2> QED
    BY <2>1, <2>2, <2>3, <2>4, <2>5, BeatsIsAnOrder
<1> QED
  BY <1>1, <1>2

(* What crowning the best leaves as it is.                                   *)
SameBut(x, y) ==
  /\ y \in Candidate
  /\ y.artifact = x.artifact /\ y.trainers = x.trainers
  /\ y.accuracy = x.accuracy /\ y.order = x.order

LEMMA CrownedRows ==
  ASSUME NEW C \in Tables, Ordered(C), NEW b \in Pool(C), Best(C, b)
  PROVE  /\ Crowned(C) \in Tables
         /\ \A d \in Configs \ Pool(C) : Crowned(C)[d] = C[d]
         /\ \A d \in Pool(C) :
              /\ SameBut(C[d], Crowned(C)[d])
              /\ Crowned(C)[d].status = IF d = b THEN "canonical" ELSE "verified"
<1> DEFINE best == CHOOSE c \in Pool(C) : \A d \in Pool(C) \ {c} : Beats(C[c], C[d])
           crowned(d) == [C[d] EXCEPT !.status = IF d = b THEN "canonical" ELSE "verified"]
<1>1. best \in Pool(C) /\ Best(C, best)
  BY DEF Best
<1>2. best = b
  BY <1>1, BestIsUnique
<1>3. Pool(C) = {c \in Configs : C[c] # NoCandidate /\ C[c].status \in Trusted}
  BY DEF Pool, Made
<1> HIDE DEF best
<1>4. Crowned(C) = [c \in Configs |-> IF c \notin Pool(C) THEN C[c]
                      ELSE [C[c] EXCEPT !.status = IF c = best THEN "canonical" ELSE "verified"]]
  BY <1>3 DEF Crowned, best
<1>5. \A d \in Configs : Crowned(C)[d] = IF d \notin Pool(C) THEN C[d] ELSE crowned(d)
  BY <1>2, <1>4
<1>6. ASSUME NEW d \in Pool(C)
      PROVE  /\ SameBut(C[d], crowned(d))
             /\ crowned(d).status = IF d = b THEN "canonical" ELSE "verified"
  <2>1. C[d] \in Candidate
    BY MadeAreCandidates
  <2> QED
    BY <2>1 DEF SameBut, Candidate
<1>7. \A d \in Pool(C) : d \in Configs
  BY DEF Pool, Made
<1>8. ASSUME NEW d \in Configs
      PROVE  Crowned(C)[d] \in Candidate \cup {NoCandidate}
  <2>1. CASE d \in Pool(C)
    BY <1>5, <1>6, <2>1 DEF SameBut
  <2>2. CASE d \notin Pool(C)
    BY <1>5, <2>2 DEF Tables
  <2> QED
    BY <2>1, <2>2
<1>9. Crowned(C) \in Tables
  BY <1>4, <1>8 DEF Tables
<1> HIDE DEF crowned
<1> QED
  BY <1>5, <1>6, <1>7, <1>9

LEMMA CrownedIsCrowned ==
  ASSUME NEW C \in Tables, Ordered(C), NEW b \in Pool(C), Best(C, b)
  PROVE  Ordered(Crowned(C)) /\ OneCrown(Crowned(C))
<1> DEFINE D == Crowned(C)
<1>1. /\ D \in Tables
      /\ \A d \in Configs \ Pool(C) : D[d] = C[d]
      /\ \A d \in Pool(C) : /\ SameBut(C[d], D[d])
                            /\ D[d].status = IF d = b THEN "canonical" ELSE "verified"
  BY CrownedRows
<1> HIDE DEF D
<1>2. \A d \in Pool(C) : d \in Configs /\ C[d] # NoCandidate /\ D[d] # NoCandidate /\ D[d].status \in Trusted
  BY <1>1, Constants DEF Pool, Made, SameBut, Trusted
<1>3. Made(D) = Made(C)
  BY <1>1, <1>2 DEF Made
<1>4. Pool(D) = Pool(C)
  BY <1>1, <1>2, <1>3 DEF Pool, Made
<1>5. \A d \in Made(D) : D[d].order = C[d].order
  BY <1>1, <1>3 DEF SameBut, Made
<1>6. Ordered(D)
  BY <1>3, <1>5 DEF Ordered
<1>7. \A d, e \in Pool(C) : Beats(D[d], D[e]) <=> Beats(C[d], C[e])
  BY <1>1 DEF SameBut, Beats
<1>8. Best(D, b)
  BY <1>4, <1>7 DEF Best
<1>9. \A d \in Pool(D) : D[d].status = "canonical" <=> d = b
  BY <1>1, <1>4
<1>10. OneCrown(D)
  BY <1>4, <1>8, <1>9 DEF OneCrown
<1> QED
  BY <1>6, <1>10 DEF D

(* The crown does not depend on what is not trusted.                         *)
LEMMA CrownKept ==
  ASSUME NEW C, NEW D, OneCrown(C), Pool(D) = Pool(C), \A d \in Pool(C) : D[d] = C[d]
  PROVE  OneCrown(D)
<1>1. ASSUME NEW c \in Pool(D)
      PROVE  \E b \in Pool(D) : /\ Best(D, b)
                                /\ \A d \in Pool(D) : D[d].status = "canonical" <=> d = b
  <2>1. PICK b \in Pool(C) : Best(C, b) /\ \A d \in Pool(C) : C[d].status = "canonical" <=> d = b
    BY <1>1 DEF OneCrown
  <2>2. Best(D, b)
    BY <2>1 DEF Best
  <2> QED
    BY <2>1, <2>2
<1> QED
  BY <1>1 DEF OneCrown

(* The verdict on candidate c, which had none, with the reported values.     *)
LEMMA FinalizedRows ==
  ASSUME candidate \in Tables, Ordered(candidate), OneCrown(candidate),
         NEW c \in Made(candidate), candidate[c].status \notin Trusted,
         NEW values \in SUBSET Nat, IsFiniteSet(values), values # {},
         NEW D, D = Finalized(c, values)
  PROVE  /\ D \in Tables /\ Ordered(D) /\ OneCrown(D)
         /\ \A d \in Configs \ {c} :
              D[d] = candidate[d]
                \/ /\ d \in Pool(candidate)
                   /\ SameBut(candidate[d], D[d]) /\ D[d].status \in Trusted
         /\ D[c] \in Candidate
         /\ D[c].artifact = candidate[c].artifact /\ D[c].trainers = candidate[c].trainers
         /\ D[c].status \in Trusted \cup {"rejected"}
         /\ D[c].status \in Trusted => D[c].accuracy >= Gate /\ \A v \in values : v = D[c].accuracy
<1> DEFINE C == candidate
<1>1. /\ c \in Configs /\ C[c] \in Candidate
      /\ \A d \in Made(C) : d \in Configs /\ C[d] \in Candidate
  BY MadeAreCandidates
<1>2. c \notin Pool(C)
  BY DEF Pool
(* A rejection.                                                              *)
<1>3. ASSUME D \in Tables, \A d \in Configs \ {c} : D[d] = C[d],
             D[c] \in Candidate, D[c].status = "rejected", D[c].order = C[c].order
      PROVE  Ordered(D) /\ OneCrown(D)
  <2>1. Made(D) = Made(C)
    BY <1>1, <1>3, Constants DEF Made
  <2>2. Pool(D) = Pool(C)
    <3>1. c \notin Pool(D)
      BY <1>3 DEF Pool, Trusted
    <3>2. \A d \in Made(C) \ {c} : D[d] = C[d]
      BY <1>1, <1>3
    <3> QED
      BY <1>2, <2>1, <3>1, <3>2 DEF Pool
  <2>3. \A d \in Made(C) : D[d].order = C[d].order
    BY <1>1, <1>3
  <2>4. Ordered(D)
    BY <2>1, <2>3 DEF Ordered
  <2>5. \A d \in Pool(C) : D[d] = C[d]
    BY <1>1, <1>2, <1>3 DEF Pool
  <2> QED
    BY <2>2, <2>4, <2>5, CrownKept
<1>4. CASE Cardinality(values) > 1
  <2>1. D = [candidate EXCEPT ![c].status = "rejected"]
    BY <1>4 DEF Finalized
  <2>2. /\ D[c] = [C[c] EXCEPT !.status = "rejected"]
        /\ \A d \in Configs \ {c} : D[d] = C[d]
    BY <1>1, <2>1 DEF Tables
  <2>3. D[c] \in Candidate /\ D[c].status = "rejected" /\ D[c].order = C[c].order
        /\ D[c].artifact = C[c].artifact /\ D[c].trainers = C[c].trainers
    BY <1>1, <2>2 DEF Candidate
  <2>4. D \in Tables
    BY <2>1, <2>3 DEF Tables
  <2> QED
    BY <1>3, <2>2, <2>3, <2>4 DEF Trusted
<1>5. CASE ~(Cardinality(values) > 1)
  <2>1. PICK v : values = {v} /\ v \in Nat
    <3>1. Cardinality(values) \in Nat /\ Cardinality(values) # 0
      BY FS_CardinalityType, FS_EmptySet
    <3>2. Cardinality(values) = 1
      BY <1>5, <3>1
    <3> QED
      BY <3>2, FS_Singleton
  <2>2. Max(values) = v
    BY <2>1 DEF Max
  <2>3. CASE v < Gate
    <3>1. D = [candidate EXCEPT ![c].status = "rejected", ![c].accuracy = v]
      BY <1>5, <2>2, <2>3 DEF Finalized
    <3>2. /\ D[c] = [C[c] EXCEPT !.status = "rejected", !.accuracy = v]
          /\ \A d \in Configs \ {c} : D[d] = C[d]
      BY <1>1, <3>1 DEF Tables
    <3>3. D[c] \in Candidate /\ D[c].status = "rejected" /\ D[c].order = C[c].order
          /\ D[c].artifact = C[c].artifact /\ D[c].trainers = C[c].trainers
      BY <1>1, <2>1, <3>2 DEF Candidate
    <3>4. D \in Tables
      BY <3>1, <3>3 DEF Tables
    <3> QED
      BY <1>3, <3>2, <3>3, <3>4 DEF Trusted
  <2>4. CASE ~(v < Gate)
    <3> DEFINE T == [candidate EXCEPT ![c].status = "verified", ![c].accuracy = v]
    <3>1. D = Crowned(T)
      BY <1>5, <2>2, <2>4 DEF Finalized
    <3>2. /\ T[c] = [C[c] EXCEPT !.status = "verified", !.accuracy = v]
          /\ \A d \in Configs \ {c} : T[d] = C[d]
      BY <1>1 DEF Tables
    <3>3. T[c] \in Candidate /\ T[c].status = "verified" /\ T[c].order = C[c].order
          /\ T[c].artifact = C[c].artifact /\ T[c].trainers = C[c].trainers /\ T[c].accuracy = v
      <4> HIDE DEF T
      <4>1. T[c] \in Candidate
        BY <1>1, <2>1, <3>2 DEF Candidate
      <4>2. T[c].status = "verified" /\ T[c].accuracy = v
        BY <1>1, <3>2 DEF Candidate
      <4>3. T[c].order = C[c].order /\ T[c].artifact = C[c].artifact /\ T[c].trainers = C[c].trainers
        BY <1>1, <3>2 DEF Candidate
      <4> QED
        BY <4>1, <4>2, <4>3
    <3>4. T \in Tables
      BY <3>3 DEF Tables
    <3> HIDE DEF T
    <3>5. Made(T) = Made(C)
      BY <1>1, <3>2, <3>3, Constants DEF Made
    <3>6. Pool(T) = Pool(C) \cup {c}
      BY <1>1, <3>2, <3>3, <3>5 DEF Pool, Trusted
    <3>7. \A d \in Made(C) : T[d].order = C[d].order
      BY <1>1, <3>2, <3>3
    <3>8. Ordered(T)
      BY <3>5, <3>7 DEF Ordered
    <3>9. ASSUME NEW d \in Pool(T) \ {c}
          PROVE  \E b \in Pool(T) \ {c} : \A e \in Pool(T) \ {b, c} : Beats(T[b], T[e])
      <4>1. PICK b \in Pool(C) : Best(C, b)
        BY <3>6, <3>9 DEF OneCrown
      <4>2. \A e \in Pool(T) \ {b, c} : Beats(C[b], C[e]) /\ e \in Configs \ {c}
        BY <3>6, <4>1, <1>1 DEF Best, Pool
      <4>3. b \in Pool(T) \ {c} /\ b \in Configs \ {c}
        BY <1>1, <1>2, <3>6, <4>1 DEF Pool
      <4> QED
        BY <3>2, <4>2, <4>3
    <3>10. c \in Pool(T)
      BY <3>6
    <3>11. PICK b \in Pool(T) : Best(T, b)
      BY <3>4, <3>8, <3>9, <3>10, BestExists
    <3>12. /\ D \in Tables
           /\ \A d \in Configs \ Pool(T) : D[d] = T[d]
           /\ \A d \in Pool(T) : /\ SameBut(T[d], D[d])
                                 /\ D[d].status = IF d = b THEN "canonical" ELSE "verified"
      BY <3>1, <3>4, <3>8, <3>11, CrownedRows
    <3>13. Ordered(D) /\ OneCrown(D)
      BY <3>1, <3>4, <3>8, <3>11, CrownedIsCrowned
    <3>14. ASSUME NEW d \in Configs \ {c}
           PROVE  D[d] = C[d]
                    \/ (d \in Pool(C) /\ SameBut(C[d], D[d]) /\ D[d].status \in Trusted)
      <4>1. T[d] = C[d]
        BY <3>2, <3>14
      <4>2. CASE d \in Pool(C)
        BY <3>6, <3>12, <4>1, <4>2 DEF Trusted
      <4>3. CASE d \notin Pool(C)
        BY <3>6, <3>12, <3>14, <4>1, <4>3
      <4> QED
        BY <4>2, <4>3
    <3>15. SameBut(T[c], D[c]) /\ D[c].status \in Trusted
      BY <3>10, <3>12 DEF Trusted
    <3>16. D[c].accuracy >= Gate /\ \A u \in values : u = D[c].accuracy
      BY <2>1, <2>4, <3>3, <3>15, Constants DEF SameBut
    <3>17. /\ D[c] \in Candidate
           /\ D[c].artifact = C[c].artifact /\ D[c].trainers = C[c].trainers
      BY <3>3, <3>15 DEF SameBut
    <3> QED
      BY <3>12, <3>13, <3>14, <3>15, <3>16, <3>17
  <2> QED
    BY <2>3, <2>4
<1> QED
  BY <1>4, <1>5

(* A new candidate is the youngest.                                          *)
LEMMA NewcomerOrdered ==
  ASSUME NEW C \in Tables, NEW D \in Tables, Ordered(C), OneCrown(C),
         NEW c \in Configs, C[c] = NoCandidate, D[c] \in Candidate,
         D[c].order = Cardinality(Made(C)), D[c].status = "candidate",
         \A d \in Configs \ {c} : D[d] = C[d]
  PROVE  Ordered(D) /\ OneCrown(D)
<1>1. Made(D) = Made(C) \cup {c} /\ c \notin Made(C)
  BY Constants DEF Made
<1>2. IsFiniteSet(Made(C))
  <2>1. Made(C) \in SUBSET Configs
    BY DEF Made
  <2> QED
    BY <2>1, Constants, FS_Subset
<1>3. Cardinality(Made(C)) \in Nat /\ Cardinality(Made(D)) = Cardinality(Made(C)) + 1
  BY <1>1, <1>2, FS_AddElement, FS_CardinalityType
<1>4. \A d \in Made(C) : D[d] = C[d] /\ C[d].order \in Nat /\ C[d].order < Cardinality(Made(C))
  <2>1. \A d \in Made(C) : C[d] \in Candidate /\ d \in Configs \ {c}
    BY <1>1, MadeAreCandidates
  <2>2. \A d \in Made(C) : C[d].order \in Nat
    BY <2>1 DEF Candidate
  <2> QED
    BY <2>1, <2>2 DEF Ordered
<1>5. ASSUME NEW d \in Made(D)
      PROVE  D[d].order < Cardinality(Made(D))
  BY <1>1, <1>3, <1>4
<1>6. ASSUME NEW d \in Made(D), NEW e \in Made(D), D[d].order = D[e].order
      PROVE  d = e
  <2>1. CASE d \in Made(C) /\ e \in Made(C)
    BY <1>4, <1>6, <2>1 DEF Ordered
  <2>2. CASE d = c /\ e \in Made(C)
    BY <1>3, <1>4, <1>6, <2>2
  <2>3. CASE e = c /\ d \in Made(C)
    BY <1>3, <1>4, <1>6, <2>3
  <2> QED
    BY <1>1, <2>1, <2>2, <2>3
<1>7. Pool(D) = Pool(C)
  BY <1>1, <1>4 DEF Pool, Trusted
<1>8. \A d \in Pool(C) : D[d] = C[d]
  BY <1>4 DEF Pool
<1> QED
  BY <1>5, <1>6, <1>7, <1>8, CrownKept DEF Ordered
-----------------------------------------------------------------------------
(***************************************************************************)
(* The actions.                                                            *)
(***************************************************************************)
LEMMA InitInv == Init => PipelineInv
<1> SUFFICES ASSUME Init
             PROVE  PipelineInv
  OBVIOUS
<1> USE DEF Init
<1>1. Absent \in Row /\ Absent.status = "absent"
  BY DEF Absent, Row
<1>2. \A w \in Works, s \in Slots : task[<<w, s>>].status = "absent"
  BY <1>1, SlotsOfWork
<1>3. TypeOK
  BY <1>1 DEF TypeOK, Candidate
<1>4. ASSUME NEW w \in Works
      PROVE  WorkOK(task, reports[w], w)
  <2>1. AnsweredSlots(task, w) = {}
    BY <1>2 DEF AnsweredSlots
  <2>2. reports[w] = {}
    OBVIOUS
  <2>3. task[<<w, 2>>].status = "absent"
    BY <1>2, SlotsAre
  <2>4. IsFiniteSet({}) /\ Cardinality({}) = 0
    BY FS_EmptySet
  <2> QED
    BY <2>1, <2>2, <2>3, <2>4 DEF WorkOK, OneEach
<1>5. \A c \in Configs : ConfigOK(task, reports, candidate[c], c)
  BY <1>2, StagesAre DEF ConfigOK
<1>6. Made(candidate) = {} /\ Pool(candidate) = {}
  BY DEF Made, Pool
<1>7. Ordered(candidate) /\ OneCrown(candidate)
  BY <1>6 DEF Ordered, OneCrown
<1>8. PaidExactlyForConsensus
  BY DEF PaidExactlyForConsensus
<1> QED
  BY <1>3, <1>4, <1>5, <1>7, <1>8 DEF PipelineInv

(* Steps that answer nothing: a replica is lost, or one of the bootstrap is  *)
(* queued.                                                                   *)
Quiet(T, U) ==
  \A r \in Replicas :
    \/ U[r] = T[r]
    \/ T[r].status = "queued" /\ U[r].status \in {"queued", "failed"}
    \/ /\ T[r].status = "absent" /\ U[r].status = "queued"
       /\ \E c \in Configs : r[1] = Exploration(c)
       /\ r[2] \in 0..1

LEMMA QuietStep ==
  ASSUME PipelineInv, task' \in [Replicas -> Row], Quiet(task, task'),
         UNCHANGED <<reports, paid, candidate>>
  PROVE  PipelineInv'
<1>1. TypeOK'
  BY DEF PipelineInv, TypeOK
<1>2. \A r \in Replicas : task[r].status = "completed" <=> task'[r].status = "completed"
  BY DEF Quiet
<1>3. ASSUME NEW w \in Works
      PROVE  WorkOK(task', reports'[w], w)
  <2>1. WorkOK(task, reports[w], w)
    BY DEF PipelineInv
  <2>2. AnsweredSlots(task', w) = AnsweredSlots(task, w)
    BY <1>2, SlotsOfWork DEF AnsweredSlots
  <2>3. <<w, 2>> \in Replicas
    BY SlotsOfWork, SlotsAre
  <2>4. task'[<<w, 2>>].status # "absent" => task[<<w, 2>>].status # "absent"
    BY <2>3 DEF Quiet
  <2> QED
    BY <2>1, <2>2, <2>4 DEF WorkOK
<1>4. ASSUME NEW c \in Configs
      PROVE  ConfigOK(task', reports', candidate'[c], c)
  <2>1. ConfigOK(task, reports, candidate[c], c)
    BY DEF PipelineInv
  <2>2. \A s \in Slots : /\ <<Training(c), s>> \in Replicas
                         /\ <<Verification(c), s>> \in Replicas
    BY SlotsOfWork, StagesAre
  <2>3. ASSUME NEW s \in Slots, task'[<<Training(c), s>>].status # "absent"
        PROVE  task[<<Training(c), s>>].status # "absent"
    BY <2>2, <2>3, StagesAre DEF Quiet
  <2>4. Closed(task, c) => Closed(task', c)
    <3>1. ASSUME task[<<Verification(c), 2>>].status = "absent"
          PROVE  task'[<<Verification(c), 2>>].status = "absent"
      BY <2>2, <3>1, SlotsAre, StagesAre DEF Quiet
    <3> QED
      BY <1>2, <2>2, <3>1, SlotsAre DEF Closed
  <2> QED
    BY <2>1, <2>3, <2>4 DEF ConfigOK
<1>5. Ordered(candidate') /\ OneCrown(candidate')
  BY DEF PipelineInv
<1>6. PaidExactlyForConsensus'
  <2>1. PaidExactlyForConsensus
    BY DEF PipelineInv
  <2>2. paid' = paid /\ reports' = reports
    OBVIOUS
  <2>3. ASSUME NEW w \in Works, NEW n \in Nodes
        PROVE  <<w, n>> \in paid' <=>
                 \E x, y \in reports'[w] : /\ x.node = n /\ y.node # n
                                           /\ Key(w[1], x.value) = Key(w[1], y.value)
    BY <2>1, <2>2 DEF PaidExactlyForConsensus
  <2> QED
    BY <2>3 DEF PaidExactlyForConsensus
<1> QED
  BY <1>1, <1>3, <1>4, <1>5, <1>6 DEF PipelineInv

LEMMA Enumerated ==
  ASSUME NEW S, IsFiniteSet(S)
  PROVE  SetToSeq(S) \in [1..Cardinality(S) -> S] /\ Len(SetToSeq(S)) = Cardinality(S)
<1>1. Cardinality(S) \in Nat /\ ExistsBijection(1..Cardinality(S), S)
  BY FS_CardinalityType
<1>2. \E f \in [1..Cardinality(S) -> S] : IsInjective(f)
  BY <1>1 DEF ExistsBijection, Bijection, Injection
<1>3. SetToSeq(S) \in [1..Cardinality(S) -> S]
  BY <1>2 DEF SetToSeq
<1> QED
  BY <1>1, <1>3

LEMMA BootstrapStep ==
  ASSUME PipelineInv, Bootstrap
  PROVE  PipelineInv'
<1> DEFINE S == Explorations
           queued(k) == {SetToSeq(S)[i] : i \in 1..k}
<1>1. PICK k \in 0..Len(SetToSeq(S)) : task' = Enqueue(task, queued(k), {})
  BY DEF Bootstrap
<1>2. IsFiniteSet(S)
  <2>1. IsFiniteSet({"exploration"})
    <3>1. \A x : IsFiniteSet({x})
      BY FS_Singleton
    <3> QED
      BY <3>1
  <2>2. IsFiniteSet({"exploration"} \X Configs)
    BY <2>1, Constants, FS_Product
  <2>3. IsFiniteSet(({"exploration"} \X Configs) \X (0..1))
    BY <2>2, SlotsAre, FS_Product
  <2>4. S \in SUBSET (({"exploration"} \X Configs) \X (0..1))
    BY DEF Quorum, Explorations
  <2> HIDE DEF S
  <2> QED
    BY <2>3, <2>4, FS_Subset
<1>3. \A r \in S : (\E c \in Configs : r[1] = Exploration(c)) /\ r[2] \in 0..1
  BY DEF Explorations, Exploration, Quorum
<1> HIDE DEF S
<1>4. queued(k) \subseteq S
  BY <1>2, Enumerated
<1> HIDE DEF queued
<1>5. task \in [Replicas -> Row]
  BY DEF PipelineInv, TypeOK
<1>6. /\ task' \in [Replicas -> Row]
      /\ \A r \in Replicas :
           task'[r] = task[r]
             \/ (r \in queued(k) /\ task[r].status = "absent" /\ task'[r].status = "queued")
  BY <1>1, <1>5, EnqueueRows
<1>7. Quiet(task, task')
  BY <1>3, <1>4, <1>6 DEF Quiet
<1>8. UNCHANGED <<reports, paid, candidate>>
  BY DEF Bootstrap
<1> QED
  BY <1>6, <1>7, <1>8, QuietStep

LEMMA FaultStep ==
  ASSUME PipelineInv, NEW n \in Nodes, NEW r \in Replicas, Fault(n, r)
  PROVE  PipelineInv'
<1>1. task \in [Replicas -> Row]
  BY DEF PipelineInv, TypeOK
<1>2. task[r].status = "queued"
  BY DEF Fault, Claimable, Open
<1> DEFINE outcome == IF task[r].attempts + 1 >= MaxAttempts THEN "failed" ELSE "queued"
           row == [task[r] EXCEPT !.status = outcome, !.attempts = @ + 1, !.excluded = @ \cup {n}]
<1>3. task' = [task EXCEPT ![r] = row]
  BY DEF Fault
<1>4. row \in Row /\ row.status \in {"queued", "failed"}
  <2>1. task[r] \in Row /\ task[r].attempts + 1 \in Nat
    BY <1>1 DEF Row
  <2>2. outcome \in {"queued", "failed"}
    OBVIOUS
  <2> HIDE DEF outcome
  <2> QED
    BY <2>1, <2>2 DEF Row
<1> HIDE DEF row
<1>5. task' \in [Replicas -> Row]
  BY <1>1, <1>3, <1>4
<1>6. Quiet(task, task')
  BY <1>1, <1>2, <1>3, <1>4 DEF Quiet
<1>7. UNCHANGED <<reports, paid, candidate>>
  BY DEF Fault
<1> QED
  BY <1>5, <1>6, <1>7, QuietStep

(* What is left to show of a handler: its table of replicas, its candidates. *)
LEMMA AnswerStep ==
  ASSUME PipelineInv, NEW n \in Nodes, NEW w \in Works, NEW s \in Slots,
         NEW v \in Outcomes(w[1]), Answer(n, <<w, s>>, v),
         NEW W, After(task, task', w, s, With(n, w, v), W),
         candidate' \in Tables, Ordered(candidate'), OneCrown(candidate'),
         \A c \in Configs : ConfigOK(task', reports', candidate'[c], c)
  PROVE  PipelineInv'
<1>1. /\ reports'[w] = With(n, w, v) /\ Reported(reports, reports', n, w)
      /\ reports' \in [Works -> SUBSET [node : Nodes, value : Scores \cup Artifacts \cup Accuracies]]
      /\ \A u \in Works : \A x \in reports'[u] : x.value \in Outcomes(u[1])
  BY AnswerReports
<1>2. TypeOK'
  BY <1>1 DEF TypeOK, Tables, After
<1>3. \A u \in Works : WorkOK(task', reports'[u], u)
  BY <1>1, AnswerWorks
<1>4. PaidExactlyForConsensus'
  BY AnswerPays
<1> QED
  BY <1>2, <1>3, <1>4 DEF PipelineInv

(* The replica is completed, and a tie-breaker queued.                       *)
LEMMA AnsweredTable ==
  ASSUME PipelineInv, NEW n \in Nodes, NEW w \in Works, NEW s \in Slots,
         NEW v \in Outcomes(w[1]), Answer(n, <<w, s>>, v), NEW W
  PROVE  /\ After(task, Completed(<<w, s>>), w, s, With(n, w, v), W)
         /\ After(task, Tiebreak(Completed(<<w, s>>), w, With(n, w, v)), w, s, With(n, w, v), W)
         /\ task \in [Replicas -> Row]
<1>1. task \in [Replicas -> Row]
  BY DEF PipelineInv, TypeOK
<1>2. /\ task[<<w, s>>].status = "queued"
      /\ IsFiniteSet(With(n, w, v)) /\ OneEach(With(n, w, v)) /\ NodesOf(With(n, w, v)) \subseteq Nodes
  BY AnswerReports
<1>3. After(task, Completed(<<w, s>>), w, s, With(n, w, v), W)
  BY <1>1, <1>2, CompletedAfter
<1> QED
  BY <1>1, <1>2, <1>3, TiebreakAfter

(* Whoever explored c and agreed that it is promising.                       *)
LEMMA ConsensusPromises ==
  ASSUME NEW c \in Configs, NEW rs, IsFiniteSet(rs), OneEach(rs),
         NEW x \in Consensus("exploration", rs), x.value \in Promising,
         NEW S, S[Exploration(c)] = rs
  PROVE  Promised(S, c)
<1>1. x \in rs
  BY DEF Consensus
<1>2. PICK y \in rs : y.node # x.node /\ Key("exploration", y.value) = Key("exploration", x.value)
  BY <1>1, ConsensusIsPairs
<1>3. y.value = x.value
  BY <1>2 DEF Key
<1> QED
  BY <1>1, <1>2, <1>3 DEF Promised

LEMMA ExploredStep ==
  ASSUME PipelineInv, NEW n \in Nodes, NEW c \in Configs, NEW s \in Slots, NEW v \in Scores,
         Explored(n, c, s, v)
  PROVE  PipelineInv'
<1> DEFINE w == Exploration(c)
           rs == With(n, w, v)
           done == Tiebreak(Completed(<<w, s>>), w, rs)
           promising == \E x \in Consensus("exploration", rs) : x.value \in Promising
           W == IF promising THEN {Training(c)} ELSE {}
<1>1. w \in Works /\ w[1] = "exploration" /\ v \in Outcomes(w[1])
  BY StagesAre DEF Outcomes
<1>2. /\ Answer(n, <<w, s>>, v)
      /\ task' = IF promising THEN Enqueue(done, {<<"training", c>>} \X (0..Quorum - 1), {}) ELSE done
      /\ candidate' = candidate
  BY DEF Explored, Exploration
<1>3. After(task, done, w, s, rs, W) /\ task \in [Replicas -> Row]
  BY <1>1, <1>2, AnsweredTable
<1>4. /\ reports'[w] = rs /\ Reported(reports, reports', n, w)
      /\ IsFiniteSet(rs) /\ OneEach(rs)
  BY <1>1, <1>2, AnswerReports
<1> HIDE DEF done, rs
<1>5. After(task, task', w, s, rs, W)
  <2>1. CASE promising
    <3> DEFINE X == {<<"training", c>>} \X (0..Quorum - 1)
    <3>1. \A r \in X : r[1] \in W \cup {w}
      BY <2>1 DEF Training
    <3>2. \A u \in Works : <<u, 2>> \notin X
      BY DEF Quorum
    <3>3. After(task, Enqueue(done, X, {}), w, s, rs, W)
      BY <1>1, <1>3, <3>1, <3>2, EnqueueAfter
    <3> QED
      BY <1>2, <2>1, <3>3
  <2>2. CASE ~promising
    BY <1>2, <1>3, <2>2
  <2> QED
    BY <2>1, <2>2
<1>6. \A d \in Configs : Training(d) \in W => Promised(reports', d)
  <2>1. ASSUME promising
        PROVE  Promised(reports', c)
    BY <1>4, <2>1, ConsensusPromises
  <2> QED
    BY <2>1, StagesAre
<1> HIDE DEF W
<1>7. ASSUME NEW d \in Configs
      PROVE  ConfigOK(task', reports', candidate'[d], d)
  <2>1. ConfigOK(task, reports, candidate[d], d)
    BY DEF PipelineInv
  <2>2. w # Verification(d)
    BY StagesAre
  <2>3. After(task, task', w, s, reports'[w], W)
    BY <1>4, <1>5
  <2> QED
    BY <1>1, <1>2, <1>3, <1>4, <1>6, <2>1, <2>2, <2>3, ConfigKept
<1>8. candidate' \in Tables /\ Ordered(candidate') /\ OneCrown(candidate')
  BY <1>2 DEF PipelineInv, TypeOK, Tables
<1> QED
  BY <1>1, <1>2, <1>5, <1>7, <1>8, AnswerStep DEF rs

(* What a consensus of trainers is worth.                                    *)
LEMMA GroupBacks ==
  ASSUME NEW c \in Configs, NEW rs, IsFiniteSet(rs), OneEach(rs), Cardinality(rs) <= 3,
         NodesOf(rs) \subseteq Nodes,
         NEW group, group = Consensus("training", rs), NEW x \in group,
         NEW S, S[Training(c)] = rs, S[Verification(c)] = {}, Promised(S, c),
         NEW y, y.trainers = NodesOf(group), y.artifact = x.value
  PROVE  Backed(S, y, c)
<1>1. group \subseteq rs
  BY DEF Consensus
<1>2. PICK z \in rs : z.node # x.node /\ Key("training", z.value) = Key("training", x.value)
  BY <1>1, ConsensusIsPairs
<1>3. z \in group
  <2>1. x \in rs /\ x.node # z.node /\ Key("training", x.value) = Key("training", z.value)
    BY <1>1, <1>2
  <2> QED
    BY <2>1, ConsensusIsPairs
<1>4. Cardinality(NodesOf(group)) >= 2
  <2>1. x.node \in NodesOf(group) /\ z.node \in NodesOf(group)
    BY <1>3 DEF NodesOf
  <2>2. NodesOf(group) \in SUBSET Nodes
    BY <1>1 DEF NodesOf
  <2>3. IsFiniteSet(NodesOf(group))
    BY <2>2, Constants, FS_Subset
  <2> QED
    BY <1>2, <2>1, <2>3, TwoMembers
<1>5. ASSUME NEW u \in rs, u.node \in NodesOf(group)
      PROVE  Fingerprint[u.value] = Fingerprint[x.value]
  <2>1. PICK t \in group : t.node = u.node
    BY <1>5 DEF NodesOf
  <2>2. t = u
    BY <1>1, <2>1 DEF OneEach
  <2>3. Key("training", u.value) = Key("training", x.value)
    BY <2>1, <2>2, OneGroup
  <2> QED
    BY <2>3 DEF Key
<1>6. NodesOf(group) \subseteq NodesOf(rs)
  BY <1>1 DEF NodesOf
<1> QED
  BY <1>4, <1>5, <1>6 DEF Backed, Quorum

LEMMA TrainedStep ==
  ASSUME PipelineInv, NEW n \in Nodes, NEW c \in Configs, NEW s \in Slots, NEW v \in Artifacts,
         Trained(n, c, s, v)
  PROVE  PipelineInv'
<1> DEFINE w == Training(c)
           rs == With(n, w, v)
           done == Tiebreak(Completed(<<w, s>>), w, rs)
           group == Consensus("training", rs)
           W == {Verification(c)}
           X == {<<"verification", c>>} \X (0..Quorum - 1)
<1>1. w \in Works /\ w[1] = "training" /\ v \in Outcomes(w[1])
  BY StagesAre DEF Outcomes
<1>2. /\ Answer(n, <<w, s>>, v)
      /\ \/ group = {} /\ task' = done /\ candidate' = candidate
         \/ /\ \E x \in group : AddCandidate(c, x.value, NodesOf(group))
            /\ task' = Enqueue(done, X, NodesOf(group))
  BY DEF Trained, Training
<1>3. After(task, done, w, s, rs, W) /\ task \in [Replicas -> Row]
  BY <1>1, <1>2, AnsweredTable
<1>4. /\ reports'[w] = rs /\ Reported(reports, reports', n, w)
      /\ IsFiniteSet(rs) /\ OneEach(rs) /\ NodesOf(rs) \subseteq Nodes
      /\ \A u \in Works : \A x \in reports'[u] : x.value \in Outcomes(u[1])
  BY <1>1, <1>2, AnswerReports
<1> HIDE DEF done, rs
<1>5. group \subseteq rs /\ NodesOf(group) \in SUBSET Nodes
  BY <1>4 DEF Consensus, NodesOf
<1> HIDE DEF group
<1>6. After(task, task', w, s, rs, W)
  <2>1. \A r \in X : r[1] \in W \cup {w}
    BY DEF Verification
  <2>2. \A u \in Works : <<u, 2>> \notin X
    BY DEF Quorum
  <2>3. After(task, Enqueue(done, X, NodesOf(group)), w, s, rs, W)
    BY <1>1, <1>3, <1>5, <2>1, <2>2, EnqueueAfter
  <2> QED
    BY <1>2, <1>3, <2>3
<1>7. After(task, task', w, s, reports'[w], W)
  BY <1>4, <1>6
<1>8. ASSUME NEW d \in Configs
      PROVE  ConfigOK(task', reports', candidate[d], d)
  <2>1. ConfigOK(task, reports, candidate[d], d)
    BY DEF PipelineInv
  <2>2. w # Verification(d) /\ Training(d) \notin W
    BY StagesAre
  <2> QED
    BY <1>1, <1>3, <1>4, <1>7, <2>1, <2>2, ConfigKept
<1>9. candidate \in Tables /\ Ordered(candidate) /\ OneCrown(candidate)
  BY DEF PipelineInv, TypeOK, Tables
<1>10. CASE candidate' = candidate
  BY <1>1, <1>2, <1>6, <1>8, <1>9, <1>10, AnswerStep DEF rs
<1>11. CASE candidate' # candidate
  <2>1. PICK x \in group : AddCandidate(c, x.value, NodesOf(group))
    BY <1>2, <1>11
  <2>2. candidate[c] = NoCandidate
    BY <1>9, <1>11, <2>1 DEF AddCandidate, Tables
  <2> DEFINE y == [artifact |-> x.value, trainers |-> NodesOf(group), status |-> "candidate",
                   accuracy |-> 0, order |-> Cardinality(Made(candidate))]
  <2>3. candidate' = [candidate EXCEPT ![c] = y]
    BY <2>1, <2>2 DEF AddCandidate, Made
  <2>4. IsFiniteSet(Made(candidate)) /\ Cardinality(Made(candidate)) \in Nat
    <3>1. Made(candidate) \in SUBSET Configs
      BY DEF Made
    <3>2. IsFiniteSet(Made(candidate))
      BY <3>1, Constants, FS_Subset
    <3> QED
      BY <3>2, FS_CardinalityType
  <2>5. x \in rs /\ x.value \in Artifacts
    BY <1>1, <1>4, <1>5 DEF Outcomes
  <2>6. y \in Candidate /\ y # NoCandidate
    BY <1>5, <2>4, <2>5, Constants DEF Candidate
  <2>7. /\ y.trainers = NodesOf(group) /\ y.artifact = x.value /\ y.status = "candidate"
        /\ y.order = Cardinality(Made(candidate))
    OBVIOUS
  <2> HIDE DEF y
  <2>8. candidate' \in Tables /\ candidate'[c] = y /\ \A d \in Configs \ {c} : candidate'[d] = candidate[d]
    BY <1>9, <2>3, <2>6 DEF Tables
  <2>9. Ordered(candidate') /\ OneCrown(candidate')
    BY <1>9, <2>2, <2>6, <2>7, <2>8, NewcomerOrdered
  <2>10. ConfigOK(task', reports', y, c)
    <3>1. ConfigOK(task', reports', NoCandidate, c)
      BY <1>8, <2>2
    <3>2. reports'[Verification(c)] = {}
      BY <3>1 DEF ConfigOK
    <3>3. Promised(reports', c)
      BY <1>6, <3>1 DEF ConfigOK, After
    <3>4. Cardinality(rs) <= 3
      BY <1>1, <1>4, <1>7, AnswerWorks
    <3>5. Backed(reports', y, c)
      BY <1>4, <2>7, <3>2, <3>3, <3>4, GroupBacks DEF group
    <3> QED
      BY <2>7, <3>1, <3>5 DEF ConfigOK, Trusted
  <2>11. \A d \in Configs : ConfigOK(task', reports', candidate'[d], d)
    BY <1>8, <2>8, <2>10
  <2> QED
    BY <1>1, <1>2, <1>6, <2>8, <2>9, <2>11, AnswerStep DEF rs
<1> QED
  BY <1>10, <1>11

LEMMA ValuesFinite ==
  ASSUME NEW rs, IsFiniteSet(rs)
  PROVE  IsFiniteSet({x.value : x \in rs})
<1> DEFINE T == {x.value : x \in rs}
           f == [x \in rs |-> x.value]
<1>1. f \in Surjection(rs, T)
  BY DEF Surjection
<1> HIDE DEF f
<1> QED
  BY <1>1, FS_Surjection

(* The crown may move among the trusted: nothing else about them changes.    *)
LEMMA CrownMoves ==
  ASSUME NEW T, NEW R, NEW c \in Configs, NEW x, ConfigOK(T, R, x, c),
         x # NoCandidate, x.status \in Trusted, NEW y, SameBut(x, y), y.status \in Trusted
  PROVE  ConfigOK(T, R, y, c)
<1>1. x.status # "candidate" /\ y # NoCandidate
  BY Constants DEF Trusted, SameBut
<1>2. Backed(R, x, c) /\ Closed(T, c) /\ Unanimous(R, x, c)
  BY <1>1 DEF ConfigOK
<1>3. Backed(R, y, c)
  BY <1>2 DEF Backed, SameBut
<1>4. Unanimous(R, y, c)
  BY <1>2 DEF Unanimous, SameBut
<1> QED
  BY <1>1, <1>2, <1>3, <1>4 DEF ConfigOK

(* The step that reaches a consensus: the candidate had no verdict, nothing  *)
(* is left to verify, and the others keep theirs.                            *)
LEMMA VerdictRows ==
  ASSUME PipelineInv, NEW n \in Nodes, NEW c \in Configs, NEW s \in Slots, NEW v \in Accuracies,
         candidate[c] # NoCandidate, Verified(n, c, s, v),
         NEW rs, rs = With(n, Verification(c), v), Consensus("verification", rs) # {}
  PROVE  /\ Closed(task', c) /\ Cardinality(rs) >= 2
         /\ candidate[c].status = "candidate"
         /\ candidate' \in Tables /\ Ordered(candidate') /\ OneCrown(candidate')
         /\ \A d \in Configs \ {c} :
              candidate'[d] = candidate[d]
                \/ /\ d \in Pool(candidate)
                   /\ SameBut(candidate[d], candidate'[d]) /\ candidate'[d].status \in Trusted
         /\ candidate'[c] \in Candidate
         /\ candidate'[c].artifact = candidate[c].artifact
         /\ candidate'[c].trainers = candidate[c].trainers
         /\ candidate'[c].status \in Trusted \cup {"rejected"}
         /\ candidate'[c].status \in Trusted =>
              candidate'[c].accuracy >= Gate /\ \A u \in rs : u.value = candidate'[c].accuracy
<1> DEFINE w == Verification(c)
           values == {x.value : x \in rs}
<1>1. w \in Works /\ w[1] = "verification" /\ v \in Outcomes(w[1])
  BY StagesAre DEF Outcomes
<1>2. /\ Answer(n, <<w, s>>, v)
      /\ task' = Completed(<<w, s>>) \/ task' = Tiebreak(Completed(<<w, s>>), w, rs)
      /\ candidate' = Finalized(c, values)
  BY DEF Verified, Verification
<1>3. After(task, task', w, s, rs, {}) /\ task \in [Replicas -> Row]
  BY <1>1, <1>2, AnsweredTable
<1>4. /\ reports'[w] = rs /\ Reported(reports, reports', n, w)
      /\ IsFiniteSet(rs) /\ OneEach(rs)
      /\ \A u \in Works : \A x \in reports'[u] : x.value \in Outcomes(u[1])
  BY <1>1, <1>2, AnswerReports
<1>5. task' \in [Replicas -> Row] /\ WorkOK(task', rs, w)
  BY <1>1, <1>3, <1>4, AnswerWorks DEF After
<1>6. Closed(task', c) /\ Cardinality(rs) >= 2
  <2>1. Consensus(w[1], rs) # {}
    BY <1>1
  <2>2. /\ task'[<<w, 0>>].status = "completed" /\ task'[<<w, 1>>].status = "completed"
        /\ task'[<<w, 2>>].status \in {"absent", "completed"}
        /\ Cardinality(rs) >= 2
    BY <1>1, <1>5, <2>1, ConsensusEnds
  <2>3. \A a \in 0..1 : a = 0 \/ a = 1
    OBVIOUS
  <2> QED
    BY <2>2, <2>3 DEF Closed
<1>7. candidate \in Tables /\ Ordered(candidate) /\ OneCrown(candidate)
  BY DEF PipelineInv, TypeOK, Tables
<1>8. c \in Made(candidate) /\ candidate[c] \in Candidate
  BY <1>7, MadeAreCandidates DEF Made
<1>9. candidate[c].status = "candidate"
  <2>1. ~Closed(task, c)
    BY <1>1, <1>3, ClosedKept
  <2> QED
    BY <2>1 DEF PipelineInv, ConfigOK
<1>10. candidate[c].status \notin Trusted
  BY <1>9 DEF Trusted
<1>11. values \in SUBSET Nat /\ IsFiniteSet(values) /\ values # {}
  <2>1. \A x \in rs : x.value \in Accuracies
    BY <1>1, <1>4 DEF Outcomes
  <2>2. rs # {}
    BY <1>6, FS_EmptySet
  <2> QED
    BY <1>4, <2>1, <2>2, ValuesFinite, Constants
<1>12. \A u \in rs : u.value \in values
  OBVIOUS
<1> HIDE DEF values
<1>13. /\ candidate' \in Tables /\ Ordered(candidate') /\ OneCrown(candidate')
       /\ \A d \in Configs \ {c} :
            candidate'[d] = candidate[d]
              \/ /\ d \in Pool(candidate)
                 /\ SameBut(candidate[d], candidate'[d]) /\ candidate'[d].status \in Trusted
       /\ candidate'[c] \in Candidate
       /\ candidate'[c].artifact = candidate[c].artifact
       /\ candidate'[c].trainers = candidate[c].trainers
       /\ candidate'[c].status \in Trusted \cup {"rejected"}
       /\ candidate'[c].status \in Trusted =>
            candidate'[c].accuracy >= Gate /\ \A u \in values : u = candidate'[c].accuracy
  BY <1>2, <1>7, <1>8, <1>10, <1>11, FinalizedRows
<1> QED
  BY <1>6, <1>9, <1>12, <1>13

LEMMA VerifiedStep ==
  ASSUME PipelineInv, NEW n \in Nodes, NEW c \in Configs, NEW s \in Slots, NEW v \in Accuracies,
         candidate[c] # NoCandidate, Verified(n, c, s, v)
  PROVE  PipelineInv'
<1> DEFINE w == Verification(c)
           rs == With(n, w, v)
<1>1. w \in Works /\ w[1] = "verification" /\ v \in Outcomes(w[1])
  BY StagesAre DEF Outcomes
<1>2. /\ n \notin candidate[c].trainers
      /\ Answer(n, <<w, s>>, v)
      /\ task' = Completed(<<w, s>>) \/ task' = Tiebreak(Completed(<<w, s>>), w, rs)
      /\ Consensus("verification", rs) = {} => candidate' = candidate
  BY DEF Verified, Verification
<1>3. After(task, task', w, s, rs, {}) /\ task \in [Replicas -> Row]
  BY <1>1, <1>2, AnsweredTable
<1>4. reports'[w] = rs /\ Reported(reports, reports', n, w)
  BY <1>1, <1>2, AnswerReports
<1>5. After(task, task', w, s, reports'[w], {})
  BY <1>3, <1>4
<1>6. ASSUME NEW d \in Configs
      PROVE  ConfigOK(task', reports', candidate[d], d)
  <2>1. ConfigOK(task, reports, candidate[d], d)
    BY DEF PipelineInv
  <2>2. w = Verification(d) => candidate[d] # NoCandidate /\ n \notin candidate[d].trainers
    BY <1>2, StagesAre
  <2>3. Training(d) \notin {}
    OBVIOUS
  <2> HIDE DEF w
  <2> QED
    BY <1>1, <1>3, <1>4, <1>5, <2>1, <2>2, <2>3, ConfigKept
<1>7. CASE Consensus("verification", rs) = {}
  <2>1. candidate' \in Tables /\ Ordered(candidate') /\ OneCrown(candidate')
    BY <1>2, <1>7 DEF PipelineInv, TypeOK, Tables
  <2>2. \A d \in Configs : ConfigOK(task', reports', candidate'[d], d)
    BY <1>2, <1>6, <1>7
  <2> QED
    BY <1>1, <1>2, <1>3, <2>1, <2>2, AnswerStep
<1>8. CASE Consensus("verification", rs) # {}
  <2> DEFINE y == candidate'[c]
  <2>1. /\ Closed(task', c) /\ Cardinality(rs) >= 2
        /\ candidate' \in Tables /\ Ordered(candidate') /\ OneCrown(candidate')
        /\ \A d \in Configs \ {c} :
             candidate'[d] = candidate[d]
               \/ /\ d \in Pool(candidate)
                  /\ SameBut(candidate[d], candidate'[d]) /\ candidate'[d].status \in Trusted
        /\ y \in Candidate /\ y.artifact = candidate[c].artifact /\ y.trainers = candidate[c].trainers
        /\ y.status \in Trusted => y.accuracy >= Gate /\ \A u \in rs : u.value = y.accuracy
    BY <1>8, VerdictRows
  <2> HIDE DEF rs
  <2>2. ConfigOK(task', reports', y, c)
    <3>1. ConfigOK(task', reports', candidate[c], c)
      BY <1>6
    <3>2. Backed(reports', candidate[c], c)
      BY <3>1 DEF ConfigOK
    <3>3. Backed(reports', y, c)
      BY <2>1, <3>2 DEF Backed
    <3>4. y # NoCandidate
      BY <2>1, Constants
    <3>5. y.status \in Trusted => Unanimous(reports', y, c)
      BY <1>4, <2>1 DEF Unanimous, Quorum
    <3> QED
      BY <2>1, <3>1, <3>3, <3>4, <3>5 DEF ConfigOK
  <2>3. ASSUME NEW d \in Configs
        PROVE  ConfigOK(task', reports', candidate'[d], d)
    <3>1. CASE d = c
      BY <2>2, <3>1
    <3>2. CASE d # c /\ candidate'[d] = candidate[d]
      BY <1>6, <3>2
    <3>3. CASE /\ d \in Pool(candidate)
               /\ SameBut(candidate[d], candidate'[d]) /\ candidate'[d].status \in Trusted
      <4>1. candidate[d] # NoCandidate /\ candidate[d].status \in Trusted
        BY <3>3 DEF Pool, Made
      <4> QED
        BY <1>6, <3>3, <4>1, CrownMoves
    <3> QED
      BY <2>1, <3>1, <3>2, <3>3
  <2> QED
    BY <1>1, <1>2, <1>3, <2>1, <2>3, AnswerStep DEF rs
<1> QED
  BY <1>7, <1>8

LEMMA PipelineStep == PipelineInv /\ [Next]_vars => PipelineInv'
<1> SUFFICES ASSUME PipelineInv, [Next]_vars
             PROVE  PipelineInv'
  OBVIOUS
<1>1. CASE Bootstrap
  BY <1>1, BootstrapStep
<1>2. ASSUME NEW n \in Nodes, NEW r \in Replicas, Fault(n, r)
      PROVE  PipelineInv'
  BY <1>2, FaultStep
<1>3. ASSUME NEW n \in Nodes, NEW c \in Configs, NEW s \in Slots, NEW v \in Scores,
             Explored(n, c, s, v)
      PROVE  PipelineInv'
  BY <1>3, ExploredStep
<1>4. ASSUME NEW n \in Nodes, NEW c \in Configs, NEW s \in Slots, NEW v \in Artifacts,
             Trained(n, c, s, v)
      PROVE  PipelineInv'
  BY <1>4, TrainedStep
<1>5. ASSUME NEW n \in Nodes, NEW c \in Configs, NEW s \in Slots, NEW v \in Accuracies,
             candidate[c] # NoCandidate, Verified(n, c, s, v)
      PROVE  PipelineInv'
  BY <1>5, VerifiedStep
<1>6. CASE UNCHANGED vars
  <2>1. task' = task /\ UNCHANGED <<reports, paid, candidate>>
    BY <1>6 DEF vars
  <2>2. task' \in [Replicas -> Row]
    BY <2>1 DEF PipelineInv, TypeOK
  <2> QED
    BY <2>1, <2>2, QuietStep DEF Quiet
<1> QED
  BY <1>1, <1>2, <1>3, <1>4, <1>5, <1>6 DEF Next

(* The invariant holds in every state of the pipeline: the types, and for    *)
(* each work and each configuration what the theorems below rest on.         *)
THEOREM PipelineInvariant == Spec => []PipelineInv
<1>1. Init => PipelineInv
  BY InitInv
<1>2. PipelineInv /\ [Next]_vars => PipelineInv'
  BY PipelineStep
<1> QED
  BY <1>1, <1>2, PTL DEF Spec

(* handle_exploration, handle_training, handle_verification: what is trusted *)
(* was explored by two who agree, trained by two who agree, and verified by  *)
(* two or more others, all of whom found the same accuracy; no report comes  *)
(* later that would disagree.                                                *)
THEOREM TrustRestsOnEvidence == Spec => []TrustIsEarned
<1>1. PipelineInv => TrustIsEarned
  <2> SUFFICES ASSUME PipelineInv, NEW c \in Configs, Status(c) \in Trusted
               PROVE  LET x == candidate[c]
                          explored == reports[<<"exploration", c>>]
                          trained == reports[<<"training", c>>]
                          verified == reports[<<"verification", c>>]
                      IN  /\ \E y \in explored : /\ y.value \in Promising
                                                  /\ Cardinality(Agreeing("exploration", explored, y)) >= Quorum
                          /\ Cardinality(x.trainers) >= Quorum
                          /\ \A y \in trained : y.node \in x.trainers => Fingerprint[y.value] = Fingerprint[x.artifact]
                          /\ Cardinality(verified) >= Quorum
                          /\ \A y \in verified : y.node \notin x.trainers /\ y.value = x.accuracy
                          /\ x.accuracy >= Gate
    BY DEF TrustIsEarned
  <2>1. candidate[c] # NoCandidate /\ candidate[c].status \in Trusted
    BY DEF Status, Trusted
  <2>2. Backed(reports, candidate[c], c) /\ Unanimous(reports, candidate[c], c)
    BY <2>1 DEF PipelineInv, ConfigOK
  <2> DEFINE explored == reports[Exploration(c)]
  <2>3. \E y \in explored : /\ y.value \in Promising
                            /\ Cardinality(Agreeing("exploration", explored, y)) >= Quorum
    <3>1. WorkOK(task, explored, Exploration(c))
      BY StagesAre DEF PipelineInv
    <3>2. IsFiniteSet(explored) /\ OneEach(explored)
      BY <3>1 DEF WorkOK
    <3>3. PICK x, y \in explored : x.node # y.node /\ x.value = y.value /\ x.value \in Promising
      BY <2>2 DEF Backed, Promised
    <3>4. Key("exploration", y.value) = Key("exploration", x.value)
      BY <3>3
    <3>5. x \in Consensus("exploration", explored)
      BY <3>2, <3>3, <3>4, ConsensusIsPairs
    <3> QED
      BY <3>3, <3>5 DEF Consensus
  <2> QED
    BY <2>2, <2>3 DEF Backed, Unanimous, Exploration, Training, Verification
<1> QED
  BY <1>1, PipelineInvariant, PTL

(* A report is paid exactly when another identity reported the same result   *)
(* of the same work, whatever order the reports come in and however often a  *)
(* replica was lost on the way.                                              *)
THEOREM AgreementIsPaid == Spec => []PaidExactlyForConsensus
<1>1. PipelineInv => PaidExactlyForConsensus
  BY DEF PipelineInv
<1> QED
  BY <1>1, PipelineInvariant, PTL

(* canonical_candidate: one trusted candidate is canonical and none of the   *)
(* others is better, or as good and older.                                   *)
THEOREM BestIsCanonical == Spec => []CanonicalIsBest
<1>1. PipelineInv => CanonicalIsBest
  <2> SUFFICES ASSUME PipelineInv
               PROVE  CanonicalIsBest
    OBVIOUS
  <2> DEFINE trusted == {c \in Configs : Status(c) \in Trusted}
             crowned == {c \in Configs : Status(c) = "canonical"}
  <2>1. candidate \in Tables /\ OneCrown(candidate)
    BY DEF PipelineInv, TypeOK, Tables
  <2>2. trusted = Pool(candidate)
    BY DEF Status, Trusted, Pool, Made
  <2>3. crowned = {c \in Pool(candidate) : candidate[c].status = "canonical"}
    BY DEF Status, Trusted, Pool, Made
  <2> HIDE DEF trusted, crowned
  <2>4. CASE trusted = {}
    <3>1. crowned = {}
      BY <2>2, <2>3, <2>4
    <3> QED
      BY <2>4, <3>1 DEF CanonicalIsBest, trusted, crowned
  <2>5. CASE trusted # {}
    <3>1. PICK b \in Pool(candidate) :
             Best(candidate, b) /\ \A d \in Pool(candidate) : candidate[d].status = "canonical" <=> d = b
      BY <2>1, <2>2, <2>5 DEF OneCrown
    <3>2. crowned = {b}
      BY <2>3, <3>1
    <3>3. Cardinality(crowned) = 1
      BY <3>2, FS_Singleton
    <3>4. \A d \in trusted : ~Beats(candidate[d], candidate[b])
      <4>1. \A d \in Pool(candidate) : candidate[d] \in Candidate
        BY <2>1, MadeAreCandidates
      <4>2. ~Beats(candidate[b], candidate[b])
        BY <4>1, BeatsIsAnOrder
      <4>3. \A d \in Pool(candidate) \ {b} : Beats(candidate[b], candidate[d])
        BY <3>1 DEF Best
      <4> QED
        BY <2>2, <4>1, <4>2, <4>3, BeatsIsAnOrder
    <3>5. \A c \in crowned, d \in trusted : ~Beats(candidate[d], candidate[c])
      BY <3>2, <3>4
    <3> QED
      BY <3>3, <3>5 DEF CanonicalIsBest, trusted, crowned
  <2> QED
    BY <2>4, <2>5
<1> QED
  BY <1>1, PipelineInvariant, PTL

(* What a step may do to a candidate: nothing, move the crown among trusted  *)
(* ones, judge one that had no verdict, add one.                             *)
LEMMA CandidatesMove ==
  ASSUME PipelineInv, [Next]_vars, NEW c \in Configs
  PROVE  \/ candidate'[c] = candidate[c]
         \/ candidate[c] = NoCandidate
         \/ candidate[c].status = "candidate"
         \/ candidate[c].status \in Trusted /\ candidate'[c] # NoCandidate /\ candidate'[c].status \in Trusted
<1>1. CASE candidate' = candidate
  BY <1>1
<1>2. ASSUME NEW n \in Nodes, NEW d \in Configs, NEW s \in Slots, NEW v \in Artifacts,
             Trained(n, d, s, v), candidate' # candidate
      PROVE  candidate'[c] = candidate[c] \/ candidate[c] = NoCandidate
  BY <1>2 DEF Trained, AddCandidate, PipelineInv, TypeOK
<1>3. ASSUME NEW n \in Nodes, NEW d \in Configs, NEW s \in Slots, NEW v \in Accuracies,
             candidate[d] # NoCandidate, Verified(n, d, s, v), candidate' # candidate
      PROVE  \/ candidate'[c] = candidate[c]
             \/ candidate[c].status = "candidate"
             \/ candidate[c].status \in Trusted /\ candidate'[c] # NoCandidate /\ candidate'[c].status \in Trusted
  <2>1. Consensus("verification", With(n, Verification(d), v)) # {}
    BY <1>3 DEF Verified, Verification
  <2>2. /\ candidate[d].status = "candidate"
        /\ \A e \in Configs \ {d} :
             candidate'[e] = candidate[e]
               \/ /\ e \in Pool(candidate)
                  /\ SameBut(candidate[e], candidate'[e]) /\ candidate'[e].status \in Trusted
    BY <1>3, <2>1, VerdictRows
  <2>3. CASE c = d
    BY <2>2, <2>3
  <2>4. CASE c # d
    BY <2>2, <2>4, Constants DEF Pool, SameBut
  <2> QED
    BY <2>3, <2>4
<1>4. ASSUME candidate' # candidate
      PROVE  \E n \in Nodes, d \in Configs, s \in Slots :
               \/ \E v \in Artifacts : Trained(n, d, s, v)
               \/ candidate[d] # NoCandidate /\ \E v \in Accuracies : Verified(n, d, s, v)
  BY <1>4 DEF Next, Bootstrap, Fault, Explored, vars
<1> QED
  BY <1>1, <1>2, <1>3, <1>4

(* finalize_candidate: a verdict is never taken back, for a candidate that   *)
(* has one is not verified again; only the crown moves.                      *)
THEOREM VerdictsStay == Spec => VerdictsAreFinal
<1>1. ASSUME PipelineInv, [Next]_vars, NEW c \in Configs
      PROVE  /\ Status(c) \in Trusted => Status(c)' \in Trusted
             /\ Status(c) = "rejected" => Status(c)' = "rejected"
  <2>1. Status(c)' = IF candidate'[c] = NoCandidate THEN "none" ELSE candidate'[c].status
    BY DEF Status
  <2>2. Status(c) = IF candidate[c] = NoCandidate THEN "none" ELSE candidate[c].status
    BY DEF Status
  <2> QED
    BY <1>1, <2>1, <2>2, CandidatesMove DEF Trusted
<1>2. PipelineInv /\ [Next]_vars =>
        [\A c \in Configs :
           /\ Status(c) \in Trusted => Status(c)' \in Trusted
           /\ Status(c) = "rejected" => Status(c)' = "rejected"]_vars
  BY <1>1
<1> QED
  BY <1>2, PipelineInvariant, PTL DEF Spec, VerdictsAreFinal
=============================================================================
