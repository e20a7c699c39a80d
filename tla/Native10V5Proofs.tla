-------------------------- MODULE Native10V5Proofs --------------------------
(***************************************************************************)
(* Proved of the v5 rounds, for any number of nodes, jobs and deltas.      *)
(*                                                                         *)
(* Without kills at most one key of work is open at a time, and it is the  *)
(* mutation of the active round or the verification of its candidate: so   *)
(* late reports have nothing left to answer, and a round ends by its own   *)
(* candidate.  With kills, but one lineage, the checkpoint is the root or  *)
(* longer than every root that work or a candidate was made for, so what   *)
(* a kill left open can no longer be promoted.  Both facts are inductive,  *)
(* together with the types they are stated on.                             *)
(***************************************************************************)
EXTENDS Native10V5, FiniteSetTheorems, TLAPS

-----------------------------------------------------------------------------
(* The invariant, in parts that speak of a table of work T, a book of        *)
(* candidates C and an active round a.                                       *)
Candidates == [base : Roots, delta : Deltas]
Verdicts == {"gain", "loss"}
Values(w) == IF w[1] = "mutation" THEN Deltas ELSE Verdicts

Reports(w, rs) ==
  /\ IsFiniteSet(rs)
  /\ \A x \in rs : x.node \in Nodes /\ x.value \in Values(w)
  /\ \A x, y \in rs : x.node = y.node => x = y

RowOK(w, r, last, failed) ==
  /\ w \in Mutations \cup ({"verification"} \X Candidates)
  /\ DOMAIN r = {"slots", "excluded", "round", "hash", "reports", "lost"}
  /\ r.slots = Quorum /\ r.round \in 0..last
  /\ r.lost \in Nat /\ (failed = 0 => r.lost = 0)
  /\ Reports(w, r.reports)

TableOK(T, last, failed) == \A w \in DOMAIN T : RowOK(w, T[w], last, failed)

CandidateOK(c, r, last) ==
  /\ c \in Candidates
  /\ DOMAIN r = {"round", "hash", "trainers", "task", "status"}
  /\ r.round \in 0..last /\ r.hash \in Artifacts
  /\ r.trainers \in SUBSET Nodes /\ Cardinality(r.trainers) >= Quorum

BookOK(C, last) == \A c \in DOMAIN C : CandidateOK(c, C[c], last)

Contribution == [candidate : Candidates, before : Roots, after : Roots,
                 trainers : SUBSET Nodes, verifiers : SUBSET Nodes, hash : Artifacts]

FileNames == {"checkpoint", "validation", "root", "hash", "evaluations",
              "active", "candidates", "contributions"}

StoreOK ==
  /\ DOMAIN files = FileNames
  /\ files.checkpoint \in Roots \cup {Nothing} /\ files.root \in Roots \cup {Nothing}
  /\ files.validation \in Artifacts \cup {Nothing} /\ files.hash \in Artifacts \cup {Nothing}
  /\ files.active \in ActiveRounds \cup {Nothing}
  /\ files.contributions \in Seq(Contribution)
  /\ BookOK(files.candidates, rounds)

DatabaseOK ==
  /\ DOMAIN db = {"work", "paid", "failed"}
  /\ db.failed \in Nat
  /\ TableOK(db.work, rounds, db.failed)

CountersOK == rounds \in Nat /\ lineages \in Nat /\ kills \in Nat

(* The line of contributions ends in the root.                               *)
Headed(line, root) ==
  IF line = << >> THEN root = Nothing \/ \E s \in Starts : root = Root(s)
                  ELSE root = line[Len(line)].after

Link(line, i) ==
  /\ IF i = 1 THEN \E start \in Starts : line[i].before = Root(start)
              ELSE line[i].before = line[i - 1].after
  /\ line[i].candidate.base = line[i].before
  /\ line[i].trainers \cap line[i].verifiers = {}
  /\ Cardinality(line[i].trainers) >= Quorum
  /\ Cardinality(line[i].verifiers) >= Quorum

Chained(line) == \A i \in DOMAIN line : Link(line, i)

Apart(T, C, c) == NodesOf(T[Verify(c)].reports) \cap C[c].trainers = {}

(* Nothing is made for a root longer than the canonical one, and a candidate *)
(* is made before it is verified.                                            *)
Behind(T, C, checkpoint, root) ==
  /\ DOMAIN T # {} => checkpoint = root \/ (checkpoint \in Roots /\ Len(checkpoint) > Len(root))
  /\ \A w \in DOMAIN T : w[1] = "mutation" => Len(w[2]) <= Len(root)
  /\ \A c \in DOMAIN C : Len(c.base) <= Len(root)
  /\ \A w \in DOMAIN T : w[1] = "verification" => w[2] \in DOMAIN C /\ Apart(T, C, w[2])

OneLineage ==
  /\ lineages = 0 => /\ files.checkpoint = Nothing
                     /\ DOMAIN db.work = {} /\ DOMAIN files.candidates = {}
  /\ Behind(db.work, files.candidates, files.checkpoint, files.root)

IsOpen(r) == Cardinality(r.reports) + r.lost < r.slots

(* The key is the active round's, or its candidate's.                        *)
Current(w, T, C, a) ==
  \/ w = a.work /\ T[w].round = a.id
  \/ /\ w[1] = "verification" /\ w[2] \in DOMAIN C
     /\ C[w[2]].round = a.id /\ C[w[2]].status = "verification-quorum"
     /\ Apart(T, C, w[2])

(* At most one key is open, for the active round.                            *)
OneOpen(T, C, a) ==
  /\ \A w \in DOMAIN T : IsOpen(T[w]) => a # Nothing /\ Current(w, T, C, a)
  /\ \A v, w \in DOMAIN T : IsOpen(T[v]) /\ IsOpen(T[w]) => v = w

(* What the active round decided has come into effect.                       *)
Effective(T, C, a, last) ==
  /\ \A c \in DOMAIN C : Verify(c) \in DOMAIN T
  /\ a # Nothing =>
       /\ a.work \in DOMAIN T /\ a.id \in 0..last
       /\ IsOpen(T[a.work]) => \A v \in DOMAIN T : T[v].round = a.id => v = a.work
       /\ T[a.work].round = a.id =>
            \A x \in Consensus(T[a.work].reports) : [base |-> a.work[2], delta |-> x.value] \in DOMAIN C
       /\ \A c \in DOMAIN C : C[c].round = a.id /\ T[Verify(c)].round = a.id =>
                                Consensus(T[Verify(c)].reports) = {}

NoKills ==
  /\ files.checkpoint = files.root
  /\ OneOpen(db.work, files.candidates, files.active)
  /\ Effective(db.work, files.candidates, files.active, rounds)

V5Inv ==
  /\ StoreOK /\ DatabaseOK /\ CountersOK
  /\ Headed(files.contributions, files.root)
  /\ DOMAIN db.work # {} => files.root # Nothing
  /\ lineages <= 1 => OneLineage
  /\ kills = 0 => NoKills
  /\ kills = 0 \/ lineages <= 1 => Chained(files.contributions)

-----------------------------------------------------------------------------
(* Sets with two members.                                                    *)

LEMMA TwoOf ==
  ASSUME NEW S, IsFiniteSet(S), Cardinality(S) >= Quorum
  PROVE  \E x, y \in S : x # y
<1>1. Cardinality(S) \in Nat /\ Quorum = 2
  BY FS_CardinalityType DEF Quorum
<1>2. S # {}
  BY <1>1, FS_EmptySet
<1>3. PICK x \in S : TRUE
  BY <1>2
<1>4. Cardinality(S \ {x}) = Cardinality(S) - 1
  BY <1>3, FS_RemoveElement
<1>5. S \ {x} # {}
  BY <1>1, <1>4, FS_EmptySet
<1> QED
  BY <1>5

LEMMA AtLeastTwo ==
  ASSUME NEW S, IsFiniteSet(S), NEW x \in S, NEW y \in S, x # y
  PROVE  Cardinality(S) >= Quorum
<1>1. IsFiniteSet(S \ {x}) /\ Cardinality(S \ {x}) = Cardinality(S) - 1
  BY FS_RemoveElement
<1>2. Cardinality((S \ {x}) \ {y}) = Cardinality(S \ {x}) - 1
  BY <1>1, FS_RemoveElement
<1>3. Cardinality((S \ {x}) \ {y}) \in Nat /\ Cardinality(S) \in Nat
  BY <1>1, FS_RemoveElement, FS_CardinalityType
<1> QED
  BY <1>1, <1>2, <1>3 DEF Quorum

-----------------------------------------------------------------------------
(* Reports and what they agree on.                                           *)

(* A node that has not answered adds one report.                             *)
Adds(rs, old, n, v) == rs = old \cup {[node |-> n, value |-> v]}

LEMMA OneReportMore ==
  ASSUME NEW w, NEW old, Reports(w, old),
         NEW n \in Nodes, NEW v \in Values(w), \A x \in old : x.node # n,
         NEW rs, Adds(rs, old, n, v)
  PROVE  Reports(w, rs) /\ Cardinality(rs) = Cardinality(old) + 1
<1> DEFINE x == [node |-> n, value |-> v]
<1>1. x.node = n /\ x.value = v /\ rs = old \cup {x}
  BY DEF Adds
<1> HIDE DEF x
<1>2. x \notin old
  BY <1>1
<1>3. IsFiniteSet(old)
  BY DEF Reports
<1>4. IsFiniteSet(rs) /\ Cardinality(rs) = Cardinality(old) + 1
  BY <1>1, <1>2, <1>3, FS_AddElement
<1>5. Reports(w, rs)
  BY <1>1, <1>4 DEF Reports
<1> QED
  BY <1>4, <1>5

LEMMA OneNodeMore ==
  ASSUME NEW old, NEW n, NEW v, NEW rs, Adds(rs, old, n, v)
  PROVE  NodesOf(rs) = NodesOf(old) \cup {n}
<1> DEFINE x == [node |-> n, value |-> v]
<1>1. x.node = n /\ rs = old \cup {x}
  BY DEF Adds
<1> HIDE DEF x
<1>2. \A y : y \in rs <=> y \in old \/ y = x
  BY <1>1
<1>3. \A m : m \in NodesOf(rs) <=> \E y \in rs : y.node = m
  BY Zenon DEF NodesOf
<1>4. \A m : m \in NodesOf(old) <=> \E y \in old : y.node = m
  BY Zenon DEF NodesOf
<1>5. \A m : m \in NodesOf(rs) <=> m \in NodesOf(old) \/ m = n
  BY <1>1, <1>2, <1>3, <1>4
<1> QED
  BY <1>5

(* A consensus needs two reports, which are of two nodes.                    *)
LEMMA ConsensusCounts ==
  ASSUME NEW w, NEW rs, Reports(w, rs)
  PROVE  /\ NodesOf(rs) \in SUBSET Nodes
         /\ NodesOf(Consensus(rs)) \subseteq NodesOf(rs)
         /\ Consensus(rs) # {} =>
              /\ Cardinality(rs) >= Quorum
              /\ Cardinality(NodesOf(rs)) >= Quorum
              /\ Cardinality(NodesOf(Consensus(rs))) >= Quorum
<1>1. NodesOf(rs) \in SUBSET Nodes /\ NodesOf(Consensus(rs)) \subseteq NodesOf(rs)
  BY DEF NodesOf, Consensus, Reports
<1>2. IsFiniteSet(NodesOf(rs)) /\ IsFiniteSet(NodesOf(Consensus(rs)))
  BY <1>1, V5Assumption, FS_Subset
<1>3. ASSUME Consensus(rs) # {}
      PROVE  /\ Cardinality(rs) >= Quorum
             /\ Cardinality(NodesOf(rs)) >= Quorum
             /\ Cardinality(NodesOf(Consensus(rs))) >= Quorum
  <2>1. PICK x \in rs : Cardinality(Agreeing(rs, x.value)) >= Quorum
    BY <1>3 DEF Consensus
  <2>2. IsFiniteSet(rs) /\ Agreeing(rs, x.value) \subseteq rs
    BY DEF Reports, Agreeing
  <2>3. IsFiniteSet(Agreeing(rs, x.value))
    BY <2>2, FS_Subset
  <2>4. PICK y, z \in Agreeing(rs, x.value) : y # z
    BY <2>1, <2>3, TwoOf
  <2>5. y \in Consensus(rs) /\ z \in Consensus(rs)
    BY <2>1, <2>4 DEF Consensus, Agreeing
  <2>6. y \in rs /\ z \in rs /\ y.node # z.node
    BY <2>2, <2>4 DEF Reports
  <2>7. /\ y.node \in NodesOf(rs) /\ z.node \in NodesOf(rs)
        /\ y.node \in NodesOf(Consensus(rs)) /\ z.node \in NodesOf(Consensus(rs))
    BY <2>5, <2>6 DEF NodesOf
  <2>8. Cardinality(rs) >= Quorum
    BY <2>2, <2>4, <2>6, AtLeastTwo
  <2> QED
    BY <1>2, <2>6, <2>7, <2>8, AtLeastTwo
<1> QED
  BY <1>1, <1>3

(* Two reports that do not disagree are a consensus.                         *)
LEMMA AgreementIsConsensus ==
  ASSUME NEW w, NEW rs, Reports(w, rs), Cardinality(rs) >= Quorum,
         ~(Cardinality({x.value : x \in rs}) > 1)
  PROVE  /\ \A x, y \in rs : x.value = y.value
         /\ Consensus(rs) = rs /\ rs # {}
<1> DEFINE found == {x.value : x \in rs}
           f == [x \in rs |-> x.value]
<1>1. IsFiniteSet(rs)
  BY DEF Reports
<1>2. f \in Surjection(rs, found)
  BY DEF Surjection
<1>3. IsFiniteSet(found)
  BY <1>1, <1>2, FS_Surjection
<1>4. \A x, y \in rs : x.value = y.value
  <2> SUFFICES ASSUME NEW x \in rs, NEW y \in rs, x.value # y.value PROVE FALSE
    OBVIOUS
  <2>1. x.value \in found /\ y.value \in found
    OBVIOUS
  <2>2. Cardinality(found) >= Quorum /\ Cardinality(found) \in Nat
    BY <1>3, <2>1, AtLeastTwo, FS_CardinalityType
  <2> QED
    BY <2>2 DEF Quorum
<1>5. \A x \in rs : Agreeing(rs, x.value) = rs
  BY <1>4 DEF Agreeing
<1>6. Consensus(rs) = rs
  BY <1>5 DEF Consensus
<1>7. rs # {}
  BY <1>1, TwoOf
<1> QED
  BY <1>4, <1>6, <1>7

LEMMA NoReportsNoConsensus == Consensus({}) = {}
BY DEF Consensus

-----------------------------------------------------------------------------
(* Rows of the table.                                                        *)

Fresh(excluded, round, hash) ==
  [slots |-> Quorum, excluded |-> excluded, round |-> round,
   hash |-> hash, reports |-> {}, lost |-> 0]

LEMMA FreshOK ==
  ASSUME NEW w \in Mutations \cup ({"verification"} \X Candidates),
         NEW last \in Nat, NEW failed, NEW ex, NEW round \in 0..last, NEW hash
  PROVE  /\ RowOK(w, Fresh(ex, round, hash), last, failed)
         /\ IsOpen(Fresh(ex, round, hash))
         /\ Fresh(ex, round, hash).round = round
         /\ Fresh(ex, round, hash).reports = {}
<1> DEFINE r == Fresh(ex, round, hash)
<1>1. /\ DOMAIN r = {"slots", "excluded", "round", "hash", "reports", "lost"}
      /\ r.slots = Quorum /\ r.round = round /\ r.reports = {} /\ r.lost = 0
  BY DEF Fresh
<1>2. IsFiniteSet({}) /\ Cardinality({}) = 0
  BY FS_EmptySet
<1>3. Reports(w, {})
  BY <1>2 DEF Reports
<1> HIDE DEF r
<1>4. RowOK(w, r, last, failed)
  BY <1>1, <1>3 DEF RowOK
<1>5. IsOpen(r)
  BY <1>1, <1>2 DEF IsOpen, Quorum
<1> QED
  BY <1>1, <1>4, <1>5 DEF r

(* A report fills a slot; a consensus fills them all.                        *)
LEMMA ReportedRow ==
  ASSUME NEW w, NEW r, NEW last, NEW failed, RowOK(w, r, last, failed),
         NEW n \in Nodes, NEW v \in Values(w), \A x \in r.reports : x.node # n,
         NEW rs, Adds(rs, r.reports, n, v),
         NEW q, q = [r EXCEPT !.reports = rs]
  PROVE  /\ RowOK(w, q, last, failed)
         /\ q.reports = rs /\ q.round = r.round
         /\ IsOpen(q) => IsOpen(r)
         /\ Consensus(rs) # {} => ~IsOpen(q)
<1>1. /\ DOMAIN q = DOMAIN r /\ q.reports = rs /\ q.slots = r.slots
      /\ q.round = r.round /\ q.lost = r.lost
  BY DEF RowOK
<1>2. Reports(w, rs) /\ Cardinality(rs) = Cardinality(r.reports) + 1
  BY OneReportMore DEF RowOK
<1>3. Cardinality(r.reports) \in Nat /\ r.lost \in Nat /\ r.slots = Quorum /\ Quorum = 2
  BY FS_CardinalityType DEF RowOK, Reports, Quorum
<1>4. Consensus(rs) # {} => Cardinality(rs) >= Quorum
  BY <1>2, ConsensusCounts
<1>5. RowOK(w, q, last, failed)
  BY <1>1, <1>2 DEF RowOK
<1>6. IsOpen(q) => IsOpen(r)
  BY <1>1, <1>2, <1>3 DEF IsOpen
<1>7. Consensus(rs) # {} => ~IsOpen(q)
  <2> SUFFICES ASSUME Consensus(rs) # {} PROVE ~IsOpen(q)
    OBVIOUS
  <2>1. \A k, l \in Nat : k >= 2 => ~(k + l < 2)
    OBVIOUS
  <2>2. Cardinality(rs) \in Nat /\ Cardinality(rs) >= 2
    BY <1>2, <1>3, <1>4
  <2>3. ~(Cardinality(rs) + r.lost < 2)
    BY <1>3, <2>1, <2>2
  <2>4. IsOpen(q) <=> Cardinality(rs) + r.lost < 2
    BY <1>1, <1>3, Zenon DEF IsOpen
  <2> QED BY <2>3, <2>4
<1> QED
  BY <1>1, <1>5, <1>6, <1>7

(* The report that fills the last slot is one of those that agree.           *)
LEMMA LastReportDecides ==
  ASSUME NEW w, NEW r, NEW last, NEW failed, RowOK(w, r, last, failed), IsOpen(r),
         NEW n, NEW v,
         NEW rs, Adds(rs, r.reports, n, v),
         NEW x \in Consensus(rs)
  PROVE  x.value = v
<1> DEFINE new == [node |-> n, value |-> v]
<1>1. IsFiniteSet(r.reports) /\ Cardinality(r.reports) \in Nat /\ r.lost \in Nat /\ r.slots = 2
  BY FS_CardinalityType DEF RowOK, Reports, Quorum
<1>2. Cardinality(r.reports) < 2
  BY <1>1 DEF IsOpen
<1>3. \A y, z \in r.reports : y = z
  BY <1>1, <1>2, AtLeastTwo DEF Quorum
<1>4. IsFiniteSet(rs)
  BY <1>1, FS_AddElement DEF Adds
<1>5. Agreeing(rs, x.value) \subseteq rs /\ Cardinality(Agreeing(rs, x.value)) >= Quorum
  BY DEF Consensus, Agreeing
<1>9. IsFiniteSet(Agreeing(rs, x.value))
  BY <1>4, <1>5, FS_Subset
<1>6. PICK y, z \in Agreeing(rs, x.value) : y # z
  BY <1>5, <1>9, TwoOf
<1>7. new.value = v /\ rs = r.reports \cup {new}
  BY DEF Adds
<1> HIDE DEF new
<1>8. y = new \/ z = new
  BY <1>3, <1>5, <1>6, <1>7
<1> QED
  BY <1>6, <1>7, <1>8 DEF Agreeing

(* The reports of one row are replaced.                                      *)
Notes(U, T, w, rs) == U = [T EXCEPT ![w].reports = rs]

(* One row of the table changes, and does not reopen.                        *)
Edited(T, U, w) ==
  /\ w \in DOMAIN T /\ DOMAIN U = DOMAIN T
  /\ \A v \in DOMAIN T : v # w => U[v] = T[v]
  /\ U[w].round = T[w].round
  /\ IsOpen(U[w]) => IsOpen(T[w])

LEMMA ReportedTable ==
  ASSUME NEW T, NEW last, NEW failed, TableOK(T, last, failed),
         NEW w \in DOMAIN T,
         NEW n \in Nodes, NEW v \in Values(w), \A x \in T[w].reports : x.node # n,
         NEW rs, Adds(rs, T[w].reports, n, v),
         NEW U, Notes(U, T, w, rs)
  PROVE  /\ Edited(T, U, w) /\ TableOK(U, last, failed)
         /\ U[w].reports = rs
         /\ Consensus(rs) # {} => ~IsOpen(U[w])
<1> DEFINE q == [T[w] EXCEPT !.reports = rs]
<1>1. RowOK(w, T[w], last, failed)
  BY DEF TableOK
<1>2. /\ RowOK(w, q, last, failed) /\ q.reports = rs /\ q.round = T[w].round
      /\ IsOpen(q) => IsOpen(T[w])
      /\ Consensus(rs) # {} => ~IsOpen(q)
  BY <1>1, ReportedRow
<1>3. DOMAIN U = DOMAIN T /\ U[w] = q /\ \A x \in DOMAIN T : x # w => U[x] = T[x]
  BY DEF Notes
<1> HIDE DEF q
<1>4. Edited(T, U, w)
  BY <1>2, <1>3 DEF Edited
<1>5. TableOK(U, last, failed)
  BY <1>2, <1>3, Zenon DEF TableOK
<1> QED
  BY <1>2, <1>3, <1>4, <1>5

LEMMA LostTable ==
  ASSUME NEW T, NEW last, NEW failed \in Nat, TableOK(T, last, failed),
         NEW w \in DOMAIN T,
         NEW U, U = [T EXCEPT ![w].lost = @ + 1]
  PROVE  /\ Edited(T, U, w) /\ TableOK(U, last, failed + 1)
         /\ U[w].reports = T[w].reports
<1> DEFINE r == T[w]
           q == [r EXCEPT !.lost = @ + 1]
<1>1. RowOK(w, r, last, failed)
  BY DEF TableOK
<1>2. DOMAIN U = DOMAIN T /\ U[w] = q /\ \A x \in DOMAIN T : x # w => U[x] = T[x]
  OBVIOUS
<1> HIDE DEF r
<1>3. /\ DOMAIN q = DOMAIN r /\ q.reports = r.reports /\ q.slots = r.slots
      /\ q.round = r.round /\ q.lost = r.lost + 1
  BY <1>1 DEF RowOK
<1> HIDE DEF q
<1>4. failed + 1 # 0
  OBVIOUS
<1>5. RowOK(w, q, last, failed + 1)
  BY <1>1, <1>3, <1>4 DEF RowOK
<1>6. Cardinality(r.reports) \in Nat /\ r.lost \in Nat /\ r.slots = 2
  BY <1>1, FS_CardinalityType DEF RowOK, Reports, Quorum
<1>7. IsOpen(q) => IsOpen(r)
  BY <1>3, <1>6 DEF IsOpen
<1>8. Edited(T, U, w)
  BY <1>2, <1>3, <1>7 DEF Edited, r
<1>9. \A x \in DOMAIN T : x # w => RowOK(x, T[x], last, failed + 1)
  BY <1>4 DEF TableOK, RowOK
<1>10. TableOK(U, last, failed + 1)
  BY <1>2, <1>5, <1>9, Zenon DEF TableOK
<1> QED
  BY <1>2, <1>3, <1>8, <1>10 DEF r

LEMMA LaterTable ==
  ASSUME NEW T, NEW last \in Nat, NEW failed, TableOK(T, last, failed)
  PROVE  TableOK(T, last + 1, failed)
BY DEF TableOK, RowOK

LEMMA LaterBook ==
  ASSUME NEW C, NEW last \in Nat, BookOK(C, last)
  PROVE  BookOK(C, last + 1)
BY DEF BookOK, CandidateOK

(* A key of work is queued, or was known.                                    *)
Queued(T, U, w, ex, round, hash) == U = AddWork(T, w, Quorum, ex, round, hash)

LEMMA QueuedTable ==
  ASSUME NEW T, NEW last \in Nat, NEW failed, TableOK(T, last, failed),
         NEW w \in Mutations \cup ({"verification"} \X Candidates),
         NEW ex, NEW round \in 0..last, NEW hash,
         NEW U, Queued(T, U, w, ex, round, hash)
  PROVE  /\ TableOK(U, last, failed)
         /\ DOMAIN U = DOMAIN T \cup {w}
         /\ \A v \in DOMAIN T : U[v] = T[v]
         /\ w \notin DOMAIN T => IsOpen(U[w]) /\ U[w].round = round /\ U[w].reports = {}
<1>1. /\ DOMAIN U = DOMAIN T \cup {w}
      /\ \A v \in DOMAIN T : U[v] = T[v]
      /\ w \notin DOMAIN T => U[w] = Fresh(ex, round, hash)
  <2>1. CASE w \in DOMAIN T
    BY <2>1 DEF AddWork, Queued
  <2>2. CASE w \notin DOMAIN T
    BY <2>2 DEF AddWork, Queued, Fresh
  <2> QED
    BY <2>1, <2>2
<1>2. /\ RowOK(w, Fresh(ex, round, hash), last, failed)
      /\ IsOpen(Fresh(ex, round, hash))
      /\ Fresh(ex, round, hash).round = round
      /\ Fresh(ex, round, hash).reports = {}
  BY FreshOK
<1>3. TableOK(U, last, failed)
  BY <1>1, <1>2, Zenon DEF TableOK
<1> QED
  BY <1>1, <1>2, <1>3, Zenon

-----------------------------------------------------------------------------
(* How the parts of the invariant that relate work and candidates survive.   *)

LEMMA Keys ==
  /\ \A w \in Mutations : w[1] = "mutation" /\ w[2] \in Roots
  /\ \A w \in {"verification"} \X Candidates :
       w[1] = "verification" /\ w[2] \in Candidates /\ w = Verify(w[2])
  /\ \A c : Verify(c)[1] = "verification" /\ Verify(c)[2] = c
  /\ \A c, d : Verify(c) = Verify(d) => c = d
BY DEF Mutations, Verify

LEMMA KeyOfRow ==
  ASSUME NEW T, NEW last, NEW failed, TableOK(T, last, failed), NEW w \in DOMAIN T
  PROVE  \/ w[1] = "mutation" /\ w[2] \in Roots /\ w \in Mutations
         \/ w[1] = "verification" /\ w[2] \in Candidates /\ w = Verify(w[2])
<1>1. w \in Mutations \cup ({"verification"} \X Candidates)
  BY DEF TableOK, RowOK
<1> QED
  BY <1>1, Keys

(* What an edit of one row must leave as it is for the nodes kept apart.     *)
StaysApart(T, U, C, w) ==
  w[1] = "verification" /\ w[2] \in DOMAIN C /\ Apart(T, C, w[2]) => Apart(U, C, w[2])

LEMMA EditedApart ==
  ASSUME NEW T, NEW U, NEW C, NEW w, NEW last, NEW failed,
         TableOK(T, last, failed), Edited(T, U, w), StaysApart(T, U, C, w),
         NEW v \in DOMAIN T, v[1] = "verification", v[2] \in DOMAIN C, Apart(T, C, v[2])
  PROVE  Apart(U, C, v[2])
<1>1. v = Verify(v[2])
  BY KeyOfRow
<1>2. CASE v = w
  BY <1>2 DEF StaysApart
<1>3. CASE v # w
  BY <1>1, <1>3 DEF Edited, Apart
<1> QED
  BY <1>2, <1>3

LEMMA EditedOneOpen ==
  ASSUME NEW T, NEW U, NEW C, NEW a, NEW w, NEW last, NEW failed,
         TableOK(T, last, failed), Edited(T, U, w), StaysApart(T, U, C, w),
         OneOpen(T, C, a)
  PROVE  OneOpen(U, C, a)
<1>1. \A v \in DOMAIN U : IsOpen(U[v]) => v \in DOMAIN T /\ IsOpen(T[v])
  BY DEF Edited
<1>2. \A v \in DOMAIN T : U[v].round = T[v].round
  BY DEF Edited
<1>3. ASSUME NEW v \in DOMAIN U, IsOpen(U[v]) PROVE a # Nothing /\ Current(v, U, C, a)
  <2>1. v \in DOMAIN T /\ IsOpen(T[v])
    BY <1>1, <1>3
  <2>2. a # Nothing /\ Current(v, T, C, a)
    BY <2>1 DEF OneOpen
  <2>3. CASE v = a.work /\ T[v].round = a.id
    BY <1>2, <2>1, <2>2, <2>3 DEF Current
  <2>4. CASE /\ v[1] = "verification" /\ v[2] \in DOMAIN C
             /\ C[v[2]].round = a.id /\ C[v[2]].status = "verification-quorum"
             /\ Apart(T, C, v[2])
    <3>1. Apart(U, C, v[2])
      BY <2>1, <2>4, EditedApart
    <3> QED
      BY <2>2, <2>4, <3>1 DEF Current
  <2> QED
    BY <2>2, <2>3, <2>4 DEF Current
<1>4. \A v, x \in DOMAIN U : IsOpen(U[v]) /\ IsOpen(U[x]) => v = x
  BY <1>1 DEF OneOpen
<1> QED
  BY <1>3, <1>4 DEF OneOpen

LEMMA EditedEffective ==
  ASSUME NEW T, NEW U, NEW C, NEW a, NEW w, NEW last, NEW failed,
         TableOK(T, last, failed), Edited(T, U, w),
         Effective(T, C, a, last),
         a # Nothing /\ w = a.work /\ T[w].round = a.id =>
           \A x \in Consensus(U[w].reports) : [base |-> a.work[2], delta |-> x.value] \in DOMAIN C,
         a # Nothing => \A c \in DOMAIN C :
           w = Verify(c) /\ C[c].round = a.id /\ T[w].round = a.id => Consensus(U[w].reports) = {}
  PROVE  Effective(U, C, a, last)
<1>1. \A v \in DOMAIN T : U[v].round = T[v].round /\ (IsOpen(U[v]) => IsOpen(T[v]))
                           /\ (v # w => U[v] = T[v])
  BY DEF Edited
<1>2. DOMAIN U = DOMAIN T
  BY DEF Edited
<1>3. \A c \in DOMAIN C : Verify(c) \in DOMAIN U
  BY <1>2 DEF Effective
<1>4. ASSUME a # Nothing
      PROVE  /\ a.work \in DOMAIN U /\ a.id \in 0..last
             /\ IsOpen(U[a.work]) => \A v \in DOMAIN U : U[v].round = a.id => v = a.work
             /\ U[a.work].round = a.id =>
                  \A x \in Consensus(U[a.work].reports) : [base |-> a.work[2], delta |-> x.value] \in DOMAIN C
             /\ \A c \in DOMAIN C : C[c].round = a.id /\ U[Verify(c)].round = a.id =>
                                      Consensus(U[Verify(c)].reports) = {}
  <2>1. /\ a.work \in DOMAIN T /\ a.id \in 0..last
        /\ IsOpen(T[a.work]) => \A v \in DOMAIN T : T[v].round = a.id => v = a.work
        /\ T[a.work].round = a.id =>
             \A x \in Consensus(T[a.work].reports) : [base |-> a.work[2], delta |-> x.value] \in DOMAIN C
        /\ \A c \in DOMAIN C : C[c].round = a.id /\ T[Verify(c)].round = a.id =>
                                 Consensus(T[Verify(c)].reports) = {}
    BY <1>4 DEF Effective
  <2>2. IsOpen(U[a.work]) => \A v \in DOMAIN U : U[v].round = a.id => v = a.work
    BY <1>1, <1>2, <2>1
  <2>3. U[a.work].round = a.id =>
          \A x \in Consensus(U[a.work].reports) : [base |-> a.work[2], delta |-> x.value] \in DOMAIN C
    <3>1. CASE w = a.work
      BY <1>1, <1>4, <2>1, <3>1, Zenon
    <3>2. CASE w # a.work
      BY <1>1, <2>1, <3>2, Zenon
    <3> QED BY <3>1, <3>2
  <2>4. \A c \in DOMAIN C : C[c].round = a.id /\ U[Verify(c)].round = a.id =>
                              Consensus(U[Verify(c)].reports) = {}
    <3> SUFFICES ASSUME NEW c \in DOMAIN C, C[c].round = a.id, U[Verify(c)].round = a.id
                 PROVE  Consensus(U[Verify(c)].reports) = {}
      OBVIOUS
    <3>1. Verify(c) \in DOMAIN T
      BY DEF Effective
    <3>2. CASE w = Verify(c)
      BY <1>1, <1>4, <3>1, <3>2, Zenon
    <3>3. CASE w # Verify(c)
      BY <1>1, <2>1, <3>1, <3>3, Zenon
    <3> QED BY <3>2, <3>3
  <2> QED
    BY <1>2, <2>1, <2>2, <2>3, <2>4
<1> QED
  BY <1>3, <1>4, Zenon DEF Effective

LEMMA EditedBehind ==
  ASSUME NEW T, NEW U, NEW C, NEW k, NEW r, NEW w, NEW last, NEW failed,
         TableOK(T, last, failed), Edited(T, U, w), StaysApart(T, U, C, w),
         Behind(T, C, k, r)
  PROVE  Behind(U, C, k, r)
<1>1. DOMAIN U = DOMAIN T
  BY DEF Edited
<1>2. \A v \in DOMAIN U : v[1] = "verification" => v[2] \in DOMAIN C /\ Apart(U, C, v[2])
  BY <1>1, EditedApart DEF Behind
<1> QED
  BY <1>1, <1>2 DEF Behind

(* Nothing is open: the next round may begin.                                *)
AllShut(T) == \A w \in DOMAIN T : ~IsOpen(T[w])

LEMMA ShutWhenDecided ==
  ASSUME NEW T, NEW U, NEW C, NEW a, NEW w,
         Edited(T, U, w), OneOpen(T, C, a), IsOpen(T[w]), ~IsOpen(U[w])
  PROVE  AllShut(U)
BY DEF AllShut, Edited, OneOpen

LEMMA ShutIsOneOpen == \A T, C, a : AllShut(T) => OneOpen(T, C, a)
BY DEF AllShut, OneOpen

(* The row X a table gains, if it had none under this key.                   *)
Gained(T, X, w, round) ==
  /\ DOMAIN X = DOMAIN T \cup {w}
  /\ \A v \in DOMAIN T : X[v] = T[v]
  /\ w \notin DOMAIN T => IsOpen(X[w]) /\ X[w].round = round /\ X[w].reports = {}

(* A candidate is written down, and its verification queued.                 *)
LEMMA CandidateOneOpen ==
  ASSUME NEW T, NEW X, NEW C, NEW D, NEW a, NEW c, NEW r, NEW last, NEW failed,
         TableOK(T, last, failed), AllShut(T), a # Nothing,
         Gained(T, X, Verify(c), a.id),
         D = Update(C, c, r), r.round = a.id, r.status = "verification-quorum"
  PROVE  OneOpen(X, D, a)
<1>1. DOMAIN D = DOMAIN C \cup {c} /\ D[c] = r
  BY DEF Update
<1>2. ASSUME NEW v \in DOMAIN X, IsOpen(X[v]) PROVE v = Verify(c) /\ v \notin DOMAIN T
  BY <1>2 DEF Gained, AllShut
<1>3. ASSUME NEW v \in DOMAIN X, IsOpen(X[v]) PROVE Current(v, X, D, a)
  <2>1. v = Verify(c) /\ Verify(c) \notin DOMAIN T
    BY <1>2, <1>3
  <2>2. v[1] = "verification" /\ v[2] = c
    BY <2>1, Keys
  <2>3. X[Verify(c)].reports = {}
    BY <2>1 DEF Gained
  <2>4. Apart(X, D, c)
    BY <2>3 DEF Apart, NodesOf
  <2> QED
    BY <1>1, <2>2, <2>4 DEF Current
<1> QED
  BY <1>2, <1>3 DEF OneOpen

LEMMA CandidateEffective ==
  ASSUME NEW T, NEW X, NEW C, NEW D, NEW a, NEW c, NEW r, NEW last, NEW failed,
         TableOK(T, last, failed), a # Nothing,
         \A e \in DOMAIN C : Verify(e) \in DOMAIN T,
         a.work \in DOMAIN T, a.id \in 0..last, a.work[1] = "mutation", ~IsOpen(T[a.work]),
         \A v \in DOMAIN T : T[v].round = a.id => v = a.work,
         \A x \in Consensus(T[a.work].reports) : [base |-> a.work[2], delta |-> x.value] = c,
         Gained(T, X, Verify(c), a.id),
         D = Update(C, c, r)
  PROVE  Effective(X, D, a, last)
<1>1. DOMAIN D = DOMAIN C \cup {c}
  BY DEF Update
<1>2. \A e : Verify(e) # a.work
  BY Keys
<1>3. /\ DOMAIN X = DOMAIN T \cup {Verify(c)}
      /\ \A v \in DOMAIN T : X[v] = T[v]
      /\ Verify(c) \notin DOMAIN T => X[Verify(c)].reports = {}
  BY DEF Gained
<1>4. \A e \in DOMAIN D : Verify(e) \in DOMAIN X
  BY <1>1, <1>3
<1>5. X[a.work] = T[a.work]
  BY <1>3
<1>6. \A e \in DOMAIN D : X[Verify(e)].round = a.id => Consensus(X[Verify(e)].reports) = {}
  <2> SUFFICES ASSUME NEW e \in DOMAIN D, X[Verify(e)].round = a.id
               PROVE  Consensus(X[Verify(e)].reports) = {}
    OBVIOUS
  <2>1. Verify(e) \notin DOMAIN T
    BY <1>2, <1>3
  <2>2. Verify(e) = Verify(c)
    BY <1>3, <1>4, <2>1
  <2>3. X[Verify(e)].reports = {}
    BY <1>3, <2>1, <2>2
  <2> QED
    BY <2>3, NoReportsNoConsensus
<1> QED
  BY <1>1, <1>3, <1>4, <1>5, <1>6 DEF Effective

(* The candidate is written down; its verification is queued or, after a     *)
(* kill, it is not.                                                          *)
LEMMA CandidateBehind ==
  ASSUME NEW T, NEW X, NEW C, NEW D, NEW k, NEW r, NEW c, NEW row, NEW last, NEW failed,
         TableOK(T, last, failed), Behind(T, C, k, r), DOMAIN T # {},
         c \notin DOMAIN C, Len(c.base) <= Len(r),
         D = Update(C, c, row),
         X = T \/ \E round : Gained(T, X, Verify(c), round)
  PROVE  Behind(X, D, k, r)
<1>1. DOMAIN D = DOMAIN C \cup {c} /\ \A e \in DOMAIN C : D[e] = C[e]
  BY DEF Update
<1>2. Verify(c) \notin DOMAIN T
  BY Keys DEF Behind
<1>3. /\ DOMAIN T \subseteq DOMAIN X /\ DOMAIN X \subseteq DOMAIN T \cup {Verify(c)}
      /\ \A v \in DOMAIN T : X[v] = T[v]
      /\ Verify(c) \in DOMAIN X => X[Verify(c)].reports = {}
  BY <1>2 DEF Gained
<1>4. ASSUME NEW v \in DOMAIN X, v[1] = "verification"
      PROVE  v[2] \in DOMAIN D /\ Apart(X, D, v[2])
  <2>1. CASE v \in DOMAIN T
    <3>1. v = Verify(v[2])
      BY <1>4, <2>1, KeyOfRow
    <3>2. v[2] \in DOMAIN C /\ Apart(T, C, v[2])
      BY <1>4, <2>1 DEF Behind
    <3>3. X[Verify(v[2])] = T[Verify(v[2])] /\ D[v[2]] = C[v[2]]
      BY <1>1, <1>3, <2>1, <3>1, <3>2
    <3> QED
      BY <1>1, <3>2, <3>3 DEF Apart
  <2>2. CASE v \notin DOMAIN T
    <3>1. v = Verify(c) /\ v[2] = c /\ X[Verify(c)].reports = {}
      BY <1>3, <2>2, Keys
    <3> QED
      BY <1>1, <3>1 DEF Apart, NodesOf
  <2> QED BY <2>1, <2>2
<1>5. \A v \in DOMAIN X : v[1] = "mutation" => Len(v[2]) <= Len(r)
  <2>1. Verify(c)[1] # "mutation"
    BY Keys
  <2> QED
    BY <1>3, <2>1 DEF Behind
<1>6. k = r \/ (k \in Roots /\ Len(k) > Len(r))
  BY DEF Behind
<1>7. \A e \in DOMAIN D : Len(e.base) <= Len(r)
  BY <1>1 DEF Behind
<1> QED
  BY <1>4, <1>5, <1>6, <1>7 DEF Behind

LEMMA CandidateBook ==
  ASSUME NEW C, NEW D, NEW c, NEW r, NEW last, BookOK(C, last), CandidateOK(c, r, last),
         D = Update(C, c, r)
  PROVE  BookOK(D, last)
<1>1. DOMAIN D = DOMAIN C \cup {c} /\ D[c] = r /\ \A e \in DOMAIN C : e # c => D[e] = C[e]
  BY DEF Update
<1> QED
  BY <1>1, Zenon DEF BookOK

(* The status of a candidate changes, nothing else of it.                    *)
Restated(C, D) ==
  DOMAIN D = DOMAIN C /\ \A c \in DOMAIN C : D[c].trainers = C[c].trainers

LEMMA StatusBook ==
  ASSUME NEW C, NEW last, BookOK(C, last), NEW c \in DOMAIN C, NEW s,
         NEW D, D = [C EXCEPT ![c].status = s]
  PROVE  BookOK(D, last) /\ Restated(C, D)
<1> DEFINE r == C[c]
           q == [r EXCEPT !.status = s]
<1>1. CandidateOK(c, r, last)
  BY DEF BookOK
<1>2. DOMAIN D = DOMAIN C /\ D[c] = q /\ \A e \in DOMAIN C : e # c => D[e] = C[e]
  OBVIOUS
<1> HIDE DEF r
<1>3. /\ DOMAIN q = DOMAIN r /\ q.round = r.round /\ q.hash = r.hash /\ q.trainers = r.trainers
  BY <1>1 DEF CandidateOK
<1> HIDE DEF q
<1>4. CandidateOK(c, q, last)
  BY <1>1, <1>3 DEF CandidateOK
<1>5. BookOK(D, last)
  BY <1>2, <1>4, Zenon DEF BookOK
<1>6. Restated(C, D)
  <2> SUFFICES ASSUME NEW e \in DOMAIN C PROVE D[e].trainers = C[e].trainers
    BY <1>2 DEF Restated
  <2>1. CASE e = c
    BY <1>2, <1>3, <2>1 DEF r
  <2>2. CASE e # c
    BY <1>2, <2>2
  <2> QED BY <2>1, <2>2
<1> QED
  BY <1>5, <1>6

LEMMA StatusBehind ==
  ASSUME NEW T, NEW C, NEW D, NEW k, NEW r, Behind(T, C, k, r), Restated(C, D)
  PROVE  Behind(T, D, k, r)
BY DEF Behind, Restated, Apart

-----------------------------------------------------------------------------
(* The steps.                                                                *)

LEMMA CommitOne ==
  ASSUME NEW f, NEW d, Commit(<<f>>, d)
  PROVE  files' = f /\ \/ db' = d /\ kills' = kills
                       \/ db' = db /\ kills' = kills + 1
BY DEF Commit, Last

LEMMA CommitTwo ==
  ASSUME NEW f, NEW g, NEW d, Commit(<<f, g>>, d)
  PROVE  \/ files' = g /\ db' = d /\ kills' = kills
         \/ files' \in {f, g} /\ db' = db /\ kills' = kills + 1
BY DEF Commit, Last

LEMMA CommitThree ==
  ASSUME NEW f, NEW g, NEW h, NEW d, Commit(<<f, g, h>>, d)
  PROVE  \/ files' = h /\ db' = d /\ kills' = kills
         \/ files' \in {f, g, h} /\ db' = db /\ kills' = kills + 1
<1>1. Len(<<f, g, h>>) = 3 /\ DOMAIN <<f, g, h>> = 1..3
  OBVIOUS
<1>2. Last(<<f, g, h>>) = h
  BY <1>1 DEF Last
<1>3. \A i \in DOMAIN <<f, g, h>> : <<f, g, h>>[i] \in {f, g, h}
  BY <1>1
<1> QED
  BY <1>2, <1>3, Zenon DEF Commit

LEMMA V5Init == Init => V5Inv
<1> SUFFICES ASSUME Init PROVE V5Inv
  OBVIOUS
<1>1. /\ files = [checkpoint |-> Nothing, validation |-> Nothing,
                  root |-> Nothing, hash |-> Nothing, evaluations |-> 0,
                  active |-> Nothing, candidates |-> << >>, contributions |-> << >>]
      /\ db = [work |-> << >>, paid |-> {}, failed |-> 0]
      /\ rounds = 0 /\ lineages = 0 /\ kills = 0
  BY DEF Init
<1>2. /\ DOMAIN files = FileNames
      /\ files.checkpoint = Nothing /\ files.root = Nothing
      /\ files.validation = Nothing /\ files.hash = Nothing
      /\ files.active = Nothing
      /\ files.candidates = << >> /\ files.contributions = << >>
  BY <1>1 DEF FileNames
<1>3. DOMAIN db = {"work", "paid", "failed"} /\ db.work = << >> /\ db.failed = 0
  BY <1>1
<1>4. DOMAIN << >> = {}
  OBVIOUS
<1>5. StoreOK
  BY <1>2, <1>4 DEF StoreOK, BookOK
<1>6. DatabaseOK
  BY <1>3, <1>4 DEF DatabaseOK, TableOK
<1>7. CountersOK
  BY <1>1 DEF CountersOK
<1>8. Headed(files.contributions, files.root) /\ Chained(files.contributions)
  BY <1>2, <1>4 DEF Headed, Chained
<1>9. OneLineage
  BY <1>2, <1>3, <1>4 DEF OneLineage, Behind
<1>10. NoKills
  BY <1>2, <1>3, <1>4 DEF NoKills, OneOpen, Effective
<1> QED
  BY <1>3, <1>4, <1>5, <1>6, <1>7, <1>8, <1>9, <1>10, Zenon DEF V5Inv

LEMMA RootOfStart ==
  ASSUME NEW start \in Starts
  PROVE  Root(start) \in Roots /\ Root(start) # Nothing /\ Len(Root(start)) = 1
<1>1. Root(start) \in Roots
  BY DEF Root, Roots
<1>2. Len(Root(start)) = 1
  BY DEF Root
<1> QED
  BY <1>1, <1>2, V5Assumption

(* initialize, import_checkpoint: a new line begins, or a kill leaves its    *)
(* checkpoint beside the old state.                                          *)
LEMMA InitializeStep ==
  ASSUME V5Inv, NEW start \in Starts, NEW replace, Initialize(start, replace)
  PROVE  V5Inv'
<1> DEFINE model == [files EXCEPT !.checkpoint = Root(start)]
           bare == [model EXCEPT !.validation = Nothing]
           final == [bare EXCEPT !.root = Root(start), !.hash = Nothing, !.evaluations = 0,
                                 !.candidates = << >>, !.contributions = << >>]
<1>1. /\ StoreOK /\ DatabaseOK /\ CountersOK
      /\ Headed(files.contributions, files.root)
      /\ DOMAIN db.work # {} => files.root # Nothing
      /\ lineages <= 1 => OneLineage
      /\ kills = 0 => NoKills
      /\ kills = 0 \/ lineages <= 1 => Chained(files.contributions)
  BY DEF V5Inv
<1>2. /\ files.active = Nothing /\ rounds' = rounds /\ lineages' = lineages + 1
      /\ Commit(<<model, bare, final>>, db)
  BY DEF Initialize, Idle
<1>3. DOMAIN files = FileNames
  BY <1>1 DEF StoreOK
<1>4. /\ DOMAIN model = FileNames /\ model.checkpoint = Root(start)
      /\ model.validation = files.validation /\ model.root = files.root /\ model.hash = files.hash
      /\ model.active = files.active /\ model.candidates = files.candidates
      /\ model.contributions = files.contributions
  BY <1>3 DEF FileNames
<1> HIDE DEF model
<1>5. /\ DOMAIN bare = FileNames /\ bare.checkpoint = Root(start)
      /\ bare.validation = Nothing /\ bare.root = files.root /\ bare.hash = files.hash
      /\ bare.active = files.active /\ bare.candidates = files.candidates
      /\ bare.contributions = files.contributions
  BY <1>4 DEF FileNames
<1> HIDE DEF bare
<1>6. /\ DOMAIN final = FileNames /\ final.checkpoint = Root(start)
      /\ final.validation = Nothing /\ final.root = Root(start) /\ final.hash = Nothing
      /\ final.active = files.active /\ final.candidates = << >>
      /\ final.contributions = << >>
  BY <1>5 DEF FileNames
<1> HIDE DEF final
<1>7. /\ db' = db /\ rounds' = rounds /\ lineages' = lineages + 1
      /\ \/ files' = final /\ kills' \in {kills, kills + 1}
         \/ files' \in {model, bare} /\ kills' = kills + 1
  BY <1>2, CommitThree, Zenon
<1>8. CountersOK' /\ DatabaseOK'
  BY <1>1, <1>7 DEF CountersOK, DatabaseOK
<1>9. lineages \in Nat /\ kills \in Nat
  BY <1>1 DEF CountersOK
<1>10. DOMAIN << >> = {}
  OBVIOUS
<1>11. lineages' <= 1 => DOMAIN db'.work = {} /\ DOMAIN files'.candidates = {}
  <2> SUFFICES ASSUME lineages' <= 1 PROVE DOMAIN db'.work = {} /\ DOMAIN files'.candidates = {}
    OBVIOUS
  <2>1. lineages = 0
    BY <1>7, <1>9
  <2>2. DOMAIN db.work = {} /\ DOMAIN files.candidates = {}
    BY <1>1, <2>1 DEF OneLineage
  <2> QED
    BY <1>4, <1>5, <1>6, <1>7, <1>10, <2>2
<1>12. lineages' <= 1 => OneLineage'
  <2>1. lineages' # 0
    BY <1>7, <1>9
  <2> QED
    BY <1>11, <2>1 DEF OneLineage, Behind
<1>13. CASE files' = final
  <2>1. StoreOK'
    <3>1. << >> \in Seq(Contribution)
      OBVIOUS
    <3>2. BookOK(<< >>, rounds')
      BY <1>10 DEF BookOK
    <3> QED
      BY <1>1, <1>2, <1>6, <1>13, <3>1, <3>2, RootOfStart DEF StoreOK
  <2>2. Headed(files'.contributions, files'.root) /\ Chained(files'.contributions)
    BY <1>6, <1>10, <1>13 DEF Headed, Chained
  <2>3. files'.root # Nothing
    BY <1>6, <1>13, RootOfStart
  <2>4. kills' = 0 => NoKills'
    <3> SUFFICES ASSUME kills' = 0 PROVE NoKills'
      OBVIOUS
    <3>1. kills = 0
      BY <1>7, <1>9
    <3>2. OneOpen(db.work, files.candidates, files.active)
      BY <1>1, <3>1 DEF NoKills
    <3>3. AllShut(db.work)
      BY <1>2, <3>2 DEF OneOpen, AllShut
    <3>4. OneOpen(db'.work, files'.candidates, files'.active)
      BY <1>7, <3>3, ShutIsOneOpen
    <3>5. Effective(db'.work, files'.candidates, files'.active, rounds')
      BY <1>2, <1>6, <1>10, <1>13 DEF Effective
    <3>6. files'.checkpoint = files'.root
      BY <1>6, <1>13
    <3> QED
      BY <3>4, <3>5, <3>6, Zenon DEF NoKills
  <2> QED
    BY <1>8, <1>12, <2>1, <2>2, <2>3, <2>4, Zenon DEF V5Inv
<1>14. CASE files' \in {model, bare} /\ kills' = kills + 1
  <2>1. /\ DOMAIN files' = FileNames /\ files'.checkpoint = Root(start)
        /\ files'.validation \in {files.validation, Nothing}
        /\ files'.root = files.root /\ files'.hash = files.hash
        /\ files'.active = files.active /\ files'.candidates = files.candidates
        /\ files'.contributions = files.contributions
    BY <1>4, <1>5, <1>14
  <2>2. StoreOK'
    BY <1>1, <1>7, <2>1, RootOfStart DEF StoreOK
  <2>3. Headed(files'.contributions, files'.root)
    BY <1>1, <2>1
  <2>4. DOMAIN db'.work # {} => files'.root # Nothing
    BY <1>1, <1>7, <2>1
  <2>5. kills' # 0
    BY <1>9, <1>14
  <2>6. lineages' <= 1 => Chained(files'.contributions)
    BY <1>1, <1>7, <1>9, <2>1
  <2> QED
    BY <1>8, <1>12, <2>2, <2>3, <2>4, <2>5, <2>6, Zenon DEF V5Inv
<1> QED
  BY <1>7, <1>13, <1>14

(* Steps that leave the line, the work and the candidates alone.             *)
LEMMA QuietStep ==
  ASSUME V5Inv,
         StoreOK', db' = db, UNCHANGED <<rounds, lineages>>, kills' \in {kills, kills + 1},
         files'.checkpoint = files.checkpoint, files'.root = files.root,
         files'.active = files.active, files'.candidates = files.candidates,
         files'.contributions = files.contributions
  PROVE  V5Inv'
<1>1. kills \in Nat /\ CountersOK'
  BY DEF V5Inv, CountersOK
<1>2. DatabaseOK'
  BY DEF V5Inv, DatabaseOK
<1>3. Headed(files'.contributions, files'.root) /\ (DOMAIN db'.work # {} => files'.root # Nothing)
  BY DEF V5Inv
<1>4. kills' = 0 => kills = 0
  BY <1>1
<1>5. lineages' <= 1 => OneLineage'
  BY DEF V5Inv, OneLineage
<1>6. kills' = 0 => NoKills'
  BY <1>4 DEF V5Inv, NoKills
<1>7. kills' = 0 \/ lineages' <= 1 => Chained(files'.contributions)
  BY <1>4 DEF V5Inv
<1> QED
  BY <1>1, <1>2, <1>3, <1>5, <1>6, <1>7, Zenon DEF V5Inv

LEMMA SetGlobalValidationStep ==
  ASSUME V5Inv, NEW a \in Artifacts, NEW replace, SetGlobalValidation(a, replace)
  PROVE  V5Inv'
<1> DEFINE written == [files EXCEPT !.validation = a]
           final == [written EXCEPT !.hash = a, !.evaluations = 0]
<1>1. /\ rounds' = rounds /\ lineages' = lineages
      /\ Commit(<<written, final>>, db)
  BY DEF SetGlobalValidation
<1>2. DOMAIN files = FileNames
  BY DEF V5Inv, StoreOK
<1>3. /\ DOMAIN written = FileNames /\ written.validation = a
      /\ written.checkpoint = files.checkpoint /\ written.root = files.root
      /\ written.hash = files.hash
      /\ written.active = files.active /\ written.candidates = files.candidates
      /\ written.contributions = files.contributions
  BY <1>2 DEF FileNames
<1> HIDE DEF written
<1>4. /\ DOMAIN final = FileNames /\ final.validation = a
      /\ final.checkpoint = files.checkpoint /\ final.root = files.root
      /\ final.hash = a
      /\ final.active = files.active /\ final.candidates = files.candidates
      /\ final.contributions = files.contributions
  BY <1>3 DEF FileNames
<1> HIDE DEF final
<1>5. files' \in {written, final} /\ db' = db /\ kills' \in {kills, kills + 1}
  BY <1>1, CommitTwo, Zenon
<1>6. /\ DOMAIN files' = FileNames /\ files'.validation = a
      /\ files'.checkpoint = files.checkpoint /\ files'.root = files.root
      /\ files'.hash \in {files.hash, a}
      /\ files'.active = files.active /\ files'.candidates = files.candidates
      /\ files'.contributions = files.contributions
  BY <1>3, <1>4, <1>5
<1>7. StoreOK'
  BY <1>1, <1>6 DEF V5Inv, StoreOK
<1> QED
  BY <1>1, <1>5, <1>6, <1>7, QuietStep

(* queue_mutation: the key is new, and the only one open; or it was known,   *)
(* and nothing is open.                                                      *)
LEMMA QueueMutationStep ==
  ASSUME V5Inv, NEW job \in Jobs, QueueMutation(job)
  PROVE  V5Inv'
<1> DEFINE w == Search(files.root, job, files.hash)
           round == [id |-> rounds + 1, work |-> w]
           written == [files EXCEPT !.evaluations = @ + 1, !.active = round]
           T == db.work
           X == AddWork(T, w, Quorum, {}, rounds + 1, files.hash)
           committed == [db EXCEPT !.work = X]
           C == files.candidates
<1>1. /\ StoreOK /\ DatabaseOK /\ CountersOK
      /\ Headed(files.contributions, files.root)
      /\ lineages <= 1 => OneLineage
      /\ kills = 0 => NoKills
      /\ kills = 0 \/ lineages <= 1 => Chained(files.contributions)
  BY DEF V5Inv
<1>2. /\ files.checkpoint # Nothing /\ files.checkpoint = files.root
      /\ files.validation # Nothing /\ files.validation = files.hash
      /\ files.active = Nothing
      /\ rounds' = rounds + 1 /\ lineages' = lineages
      /\ Commit(<<written>>, committed)
  BY DEF QueueMutation, Idle
<1>3. /\ DOMAIN files = FileNames /\ DOMAIN db = {"work", "paid", "failed"}
      /\ rounds \in Nat /\ lineages \in Nat /\ kills \in Nat /\ db.failed \in Nat
      /\ TableOK(T, rounds, db.failed) /\ BookOK(C, rounds)
  BY <1>1 DEF StoreOK, DatabaseOK, CountersOK
<1>4. w \in Mutations /\ files.root \in Roots /\ w[1] = "mutation" /\ w[2] = files.root
  BY <1>1, <1>2 DEF StoreOK, Search, Mutations
<1>5. round \in ActiveRounds /\ round.id = rounds + 1 /\ round.work = w
  BY <1>3, <1>4 DEF ActiveRounds
<1>6. round # Nothing
  BY <1>5, V5Assumption
<1> HIDE DEF w, round
<1>7. /\ DOMAIN written = FileNames /\ written.active = round
      /\ written.checkpoint = files.checkpoint /\ written.root = files.root
      /\ written.validation = files.validation /\ written.hash = files.hash
      /\ written.candidates = C /\ written.contributions = files.contributions
  BY <1>3 DEF FileNames
<1> HIDE DEF written
<1>8. TableOK(T, rounds + 1, db.failed) /\ rounds + 1 \in Nat /\ rounds + 1 \in 0..(rounds + 1)
  BY <1>3, LaterTable
<1>9. /\ TableOK(X, rounds + 1, db.failed)
      /\ DOMAIN X = DOMAIN T \cup {w}
      /\ \A v \in DOMAIN T : X[v] = T[v]
      /\ w \notin DOMAIN T => IsOpen(X[w]) /\ X[w].round = rounds + 1 /\ X[w].reports = {}
  <2>1. X = AddWork(T, w, Quorum, {}, rounds + 1, files.hash)
    OBVIOUS
  <2>2. w \in Mutations \cup ({"verification"} \X Candidates)
    BY <1>4
  <2>3. Queued(T, X, w, {}, rounds + 1, files.hash)
    BY <2>1 DEF Queued
  <2> HIDE DEF X
  <2> QED
    BY <1>8, <2>2, <2>3, QueuedTable
<1>10. /\ DOMAIN committed = {"work", "paid", "failed"}
       /\ committed.work = X /\ committed.failed = db.failed
  BY <1>3
<1> HIDE DEF X, committed
<1>11. files' = written /\ \/ db' = committed /\ kills' = kills
                           \/ db' = db /\ kills' = kills + 1
  BY <1>2, CommitOne, Zenon
<1>12. CountersOK'
  BY <1>2, <1>3, <1>11 DEF CountersOK
<1>13. StoreOK'
  <2>1. BookOK(C, rounds')
    BY <1>2, <1>3, LaterBook
  <2> QED
    BY <1>1, <1>5, <1>7, <1>11, <2>1 DEF StoreOK
<1>14. DatabaseOK'
  BY <1>2, <1>3, <1>8, <1>9, <1>10, <1>11 DEF DatabaseOK
<1>15. Headed(files'.contributions, files'.root) /\ files'.root # Nothing
  BY <1>1, <1>2, <1>7, <1>11
<1>16. lineages' <= 1 => OneLineage'
  <2> SUFFICES ASSUME lineages <= 1 PROVE OneLineage'
    BY <1>2
  <2>1. lineages # 0 /\ Behind(T, C, files.checkpoint, files.root)
    BY <1>1, <1>2 DEF OneLineage
  <2>2. Len(files.root) \in Nat
    BY <1>4 DEF Roots
  <2>3. \A v \in DOMAIN X : v[1] = "verification" => v \in DOMAIN T
    BY <1>4, <1>9
  <2>4. \A v \in DOMAIN X : v[1] = "mutation" => Len(v[2]) <= Len(files.root)
    BY <1>4, <1>9, <2>1, <2>2 DEF Behind
  <2>5. \A v \in DOMAIN X : v[1] = "verification" => v[2] \in DOMAIN C /\ Apart(X, C, v[2])
    <3> SUFFICES ASSUME NEW v \in DOMAIN X, v[1] = "verification"
                 PROVE  v[2] \in DOMAIN C /\ Apart(X, C, v[2])
      OBVIOUS
    <3>1. v \in DOMAIN T /\ v = Verify(v[2])
      BY <1>3, <2>3, KeyOfRow
    <3>2. v[2] \in DOMAIN C /\ Apart(T, C, v[2])
      BY <2>1, <3>1 DEF Behind
    <3>3. X[Verify(v[2])] = T[Verify(v[2])]
      BY <1>9, <3>1
    <3> QED
      BY <3>2, <3>3 DEF Apart
  <2>6. Behind(X, C, files.checkpoint, files.root)
    BY <1>2, <2>1, <2>4, <2>5 DEF Behind
  <2>7. Behind(db'.work, files'.candidates, files'.checkpoint, files'.root)
    BY <1>7, <1>10, <1>11, <2>1, <2>6
  <2> QED
    BY <1>2, <2>1, <2>7, Zenon DEF OneLineage
<1>17. kills' = 0 => NoKills'
  <2> SUFFICES ASSUME kills' = 0 PROVE NoKills'
    OBVIOUS
  <2>1. kills = 0 /\ db' = committed
    BY <1>3, <1>11
  <2>2. OneOpen(T, C, files.active) /\ Effective(T, C, files.active, rounds)
    BY <1>1, <2>1 DEF NoKills
  <2>3. AllShut(T)
    BY <1>2, <2>2 DEF OneOpen, AllShut
  <2>4. \A v \in DOMAIN X : IsOpen(X[v]) => v = w /\ w \notin DOMAIN T
    BY <1>9, <2>3 DEF AllShut
  <2>5. \A v \in DOMAIN X : IsOpen(X[v]) => Current(v, X, C, round)
    BY <1>5, <1>9, <2>4 DEF Current
  <2>6. OneOpen(X, C, round)
    BY <1>6, <2>4, <2>5 DEF OneOpen
  <2>7. \A v \in DOMAIN T : T[v].round \in 0..rounds
    BY <1>3 DEF TableOK, RowOK
  <2>8. \A c \in DOMAIN C : C[c].round \in 0..rounds
    BY <1>3 DEF BookOK, CandidateOK
  <2>9. rounds + 1 \notin 0..rounds
    BY <1>3
  <2>10. \A v \in DOMAIN X : X[v].round = round.id => v = w /\ w \notin DOMAIN T
    BY <1>5, <1>9, <2>7, <2>9
  <2>11. \A c \in DOMAIN C : Verify(c) \in DOMAIN X /\ C[c].round # round.id
    BY <1>5, <1>9, <2>2, <2>8, <2>9 DEF Effective
  <2>12. X[w].round = round.id => Consensus(X[w].reports) = {}
    BY <1>9, <2>10, NoReportsNoConsensus
  <2>13. Effective(X, C, round, rounds + 1)
    BY <1>5, <1>8, <1>9, <2>10, <2>11, <2>12 DEF Effective
  <2>14. OneOpen(db'.work, files'.candidates, files'.active)
    BY <1>7, <1>10, <1>11, <2>1, <2>6
  <2>15. Effective(db'.work, files'.candidates, files'.active, rounds')
    BY <1>2, <1>7, <1>10, <1>11, <2>1, <2>13
  <2>16. files'.checkpoint = files'.root
    BY <1>2, <1>7, <1>11
  <2> QED
    BY <2>14, <2>15, <2>16, Zenon DEF NoKills
<1>18. kills' = 0 \/ lineages' <= 1 => Chained(files'.contributions)
  BY <1>1, <1>2, <1>3, <1>7, <1>11
<1> QED
  BY <1>12, <1>13, <1>14, <1>15, <1>16, <1>17, <1>18, Zenon DEF V5Inv

(* A slot is lost.                                                           *)
LEMMA LoseStep ==
  ASSUME V5Inv, NEW w \in DOMAIN db.work, Lose(w)
  PROVE  V5Inv'
<1> DEFINE T == db.work
           U == [T EXCEPT ![w].lost = @ + 1]
           C == files.candidates
<1>1. /\ StoreOK /\ DatabaseOK /\ CountersOK
      /\ lineages <= 1 => OneLineage
      /\ kills = 0 => NoKills
  BY DEF V5Inv
<1>2. UNCHANGED <<files, rounds, lineages, kills>>
      /\ db' = [db EXCEPT !.failed = @ + 1, !.work[w].lost = @ + 1]
  BY DEF Lose
<1>3. /\ DOMAIN db = {"work", "paid", "failed"} /\ db.failed \in Nat
      /\ TableOK(T, rounds, db.failed)
  BY <1>1 DEF DatabaseOK
<1>4. DOMAIN db' = {"work", "paid", "failed"} /\ db'.work = U /\ db'.failed = db.failed + 1
  BY <1>2, <1>3
<1>5. Edited(T, U, w) /\ TableOK(U, rounds, db.failed + 1) /\ U[w].reports = T[w].reports
  BY <1>3, LostTable
<1> HIDE DEF U
<1>6. StaysApart(T, U, C, w)
  <2>1. ASSUME w[1] = "verification" PROVE w = Verify(w[2])
    BY <1>3, <2>1, KeyOfRow
  <2> QED
    BY <1>5, <2>1 DEF StaysApart, Apart
<1>7. StoreOK' /\ CountersOK'
  BY <1>1, <1>2 DEF StoreOK, CountersOK
<1>8. DatabaseOK'
  BY <1>2, <1>3, <1>4, <1>5 DEF DatabaseOK
<1>9. lineages' <= 1 => OneLineage'
  <2> SUFFICES ASSUME lineages <= 1 PROVE OneLineage'
    BY <1>2
  <2>1. OneLineage
    BY <1>1
  <2>2. lineages # 0 /\ Behind(T, C, files.checkpoint, files.root)
    BY <2>1 DEF OneLineage
  <2>3. Behind(U, C, files.checkpoint, files.root)
    BY <1>3, <1>5, <1>6, <2>2, EditedBehind
  <2>4. Behind(db'.work, files'.candidates, files'.checkpoint, files'.root)
    BY <1>2, <1>4, <2>3
  <2> QED
    BY <1>2, <2>2, <2>4, Zenon DEF OneLineage
<1>10. kills' = 0 => NoKills'
  <2> SUFFICES ASSUME kills = 0 PROVE NoKills'
    BY <1>2
  <2>1. /\ files.checkpoint = files.root
        /\ OneOpen(T, C, files.active) /\ Effective(T, C, files.active, rounds)
    BY <1>1 DEF NoKills
  <2>2. OneOpen(U, C, files.active)
    BY <1>3, <1>5, <1>6, <2>1, EditedOneOpen
  <2>3. Effective(U, C, files.active, rounds)
    <3>1. files.active # Nothing /\ w = files.active.work /\ T[w].round = files.active.id =>
            \A x \in Consensus(U[w].reports) : [base |-> files.active.work[2], delta |-> x.value] \in DOMAIN C
      BY <1>5, <2>1, Zenon DEF Effective
    <3>2. files.active # Nothing => \A c \in DOMAIN C :
            w = Verify(c) /\ C[c].round = files.active.id /\ T[w].round = files.active.id
              => Consensus(U[w].reports) = {}
      BY <1>5, <2>1, Zenon DEF Effective
    <3> QED
      BY <1>3, <1>5, <2>1, <3>1, <3>2, EditedEffective
  <2> QED
    BY <1>2, <1>4, <2>1, <2>2, <2>3 DEF NoKills
<1>11. /\ Headed(files'.contributions, files'.root)
       /\ DOMAIN db'.work # {} => files'.root # Nothing
       /\ kills' = 0 \/ lineages' <= 1 => Chained(files'.contributions)
  BY <1>2, <1>4, <1>5 DEF V5Inv, Edited
<1> QED
  BY <1>7, <1>8, <1>9, <1>10, <1>11, Zenon DEF V5Inv

(* A report is written down, and nothing follows from it yet.                *)
LEMMA NotedStep ==
  ASSUME V5Inv, NEW w \in DOMAIN db.work, NEW U,
         Edited(db.work, U, w), TableOK(U, rounds, db.failed),
         StaysApart(db.work, U, files.candidates, w),
         kills = 0 => Effective(U, files.candidates, files.active, rounds),
         UNCHANGED <<files, rounds, lineages, kills>>,
         DOMAIN db' = DOMAIN db, db'.work = U, db'.failed = db.failed
  PROVE  V5Inv'
<1> DEFINE T == db.work
           C == files.candidates
<1>1. /\ StoreOK /\ DatabaseOK /\ CountersOK
      /\ lineages <= 1 => OneLineage
      /\ kills = 0 => NoKills
  BY DEF V5Inv
<1>2. TableOK(T, rounds, db.failed)
  BY <1>1 DEF DatabaseOK
<1>3. StoreOK' /\ CountersOK' /\ DatabaseOK'
  BY <1>1 DEF StoreOK, CountersOK, DatabaseOK
<1>4. lineages' <= 1 => OneLineage'
  <2> SUFFICES ASSUME lineages <= 1 PROVE OneLineage'
    OBVIOUS
  <2>1. OneLineage
    BY <1>1
  <2>2. lineages # 0 /\ Behind(T, C, files.checkpoint, files.root)
    BY <2>1 DEF OneLineage
  <2>3. Behind(U, C, files.checkpoint, files.root)
    BY <1>2, <2>2, EditedBehind
  <2>4. Behind(db'.work, files'.candidates, files'.checkpoint, files'.root)
    BY <2>3
  <2> QED
    BY <2>2, <2>4, Zenon DEF OneLineage
<1>5. kills' = 0 => NoKills'
  <2> SUFFICES ASSUME kills = 0 PROVE NoKills'
    OBVIOUS
  <2>1. files.checkpoint = files.root /\ OneOpen(T, C, files.active)
    BY <1>1 DEF NoKills
  <2>2. OneOpen(U, C, files.active)
    BY <1>2, <2>1, EditedOneOpen
  <2> QED
    BY <2>1, <2>2 DEF NoKills
<1>6. /\ Headed(files'.contributions, files'.root)
      /\ DOMAIN db'.work # {} => files'.root # Nothing
      /\ kills' = 0 \/ lineages' <= 1 => Chained(files'.contributions)
  BY DEF V5Inv, Edited
<1> QED
  BY <1>3, <1>4, <1>5, <1>6, Zenon DEF V5Inv

(* A trained delta of the active round, or a late one after a kill.          *)
LEMMA ReportMutationStep ==
  ASSUME V5Inv, NEW w \in DOMAIN db.work, NEW n \in Nodes, NEW d \in Deltas,
         ReportMutation(n, w, d)
  PROVE  V5Inv'
<1> DEFINE T == db.work
           C == files.candidates
           a == files.active
           rs == With(n, w, d)
           U == [T EXCEPT ![w].reports = rs]
           c == [base |-> w[2], delta |-> d]
           cand == [round |-> T[w].round, hash |-> w[4], trainers |-> NodesOf(rs),
                    task |-> w, status |-> "verification-quorum"]
           noted == [db EXCEPT !.work = U]
           D == Update(C, c, cand)
           X == Verifications(U, c, cand)
           written == [files EXCEPT !.candidates = D]
           queued == [db EXCEPT !.work = X]
<1>1. /\ StoreOK /\ DatabaseOK /\ CountersOK
      /\ Headed(files.contributions, files.root)
      /\ DOMAIN db.work # {} => files.root # Nothing
      /\ lineages <= 1 => OneLineage
      /\ kills = 0 => NoKills
      /\ kills = 0 \/ lineages <= 1 => Chained(files.contributions)
  BY DEF V5Inv
<1>2. /\ IsOpen(T[w]) /\ \A x \in T[w].reports : x.node # n
      /\ w[1] = "mutation"
      /\ rounds' = rounds /\ lineages' = lineages
      /\ IF Consensus(rs) = {} \/ c \in DOMAIN C THEN Commit(<<files>>, noted)
                                                 ELSE Commit(<<written>>, queued)
  BY DEF ReportMutation, Claimable, Open, IsOpen
<1>3. /\ DOMAIN files = FileNames /\ DOMAIN db = {"work", "paid", "failed"}
      /\ rounds \in Nat /\ lineages \in Nat /\ kills \in Nat /\ db.failed \in Nat
      /\ TableOK(T, rounds, db.failed) /\ BookOK(C, rounds)
  BY <1>1 DEF StoreOK, DatabaseOK, CountersOK
<1>4. RowOK(w, T[w], rounds, db.failed)
  BY <1>3 DEF TableOK
<1>5. w \in Mutations /\ w[2] \in Roots /\ w[4] \in Artifacts
  BY <1>2, <1>3, KeyOfRow DEF Mutations
<1>6. Adds(rs, T[w].reports, n, d) /\ d \in Values(w) /\ Notes(U, T, w, rs)
  BY <1>2 DEF With, Values, Adds, Notes
<1>7. StaysApart(T, U, C, w)
  BY <1>2 DEF StaysApart
<1>8. c \in Candidates /\ c.base = w[2] /\ c.delta = d
  BY <1>5 DEF Candidates
<1>9. /\ DOMAIN cand = {"round", "hash", "trainers", "task", "status"}
      /\ cand.round = T[w].round /\ cand.status = "verification-quorum"
      /\ cand.trainers = NodesOf(rs) /\ cand.hash = w[4]
  OBVIOUS
<1>10. /\ DOMAIN noted = DOMAIN db /\ noted.work = U /\ noted.failed = db.failed
       /\ DOMAIN queued = DOMAIN db /\ queued.work = X /\ queued.failed = db.failed
  BY <1>3
<1>11. /\ DOMAIN written = FileNames /\ written.active = a
       /\ written.checkpoint = files.checkpoint /\ written.root = files.root
       /\ written.validation = files.validation /\ written.hash = files.hash
       /\ written.candidates = D /\ written.contributions = files.contributions
  BY <1>3 DEF FileNames
<1>12. kills = 0 => /\ a # Nothing /\ w = a.work /\ T[w].round = a.id
                    /\ OneOpen(T, C, a) /\ Effective(T, C, a, rounds)
  <2> SUFFICES ASSUME kills = 0
               PROVE  /\ a # Nothing /\ w = a.work /\ T[w].round = a.id
                      /\ OneOpen(T, C, a) /\ Effective(T, C, a, rounds)
    OBVIOUS
  <2>1. OneOpen(T, C, a) /\ Effective(T, C, a, rounds)
    BY <1>1 DEF NoKills
  <2>2. a # Nothing /\ Current(w, T, C, a)
    BY <1>2, <2>1 DEF OneOpen
  <2> QED
    BY <1>2, <2>1, <2>2 DEF Current
<1>13. Queued(U, X, Verify(c), NodesOf(rs), T[w].round, w[4])
  BY DEF Verifications, Queued
<1> HIDE DEF rs, U, c, cand, noted, D, X, written, queued
<1>14. /\ Edited(T, U, w) /\ TableOK(U, rounds, db.failed)
       /\ U[w].reports = rs
       /\ Consensus(rs) # {} => ~IsOpen(U[w])
  BY <1>2, <1>3, <1>6, ReportedTable
<1>15. \A x \in Consensus(rs) : x.value = d
  <2>1. IsOpen(T[w]) /\ Adds(rs, T[w].reports, n, d)
    BY <1>2, <1>6
  <2> QED
    BY <1>4, <2>1, LastReportDecides, Zenon
<1>16. Reports(w, rs)
  <2>1. Reports(w, T[w].reports)
    BY <1>4 DEF RowOK
  <2> QED
    BY <1>2, <1>6, <2>1, OneReportMore
<1>17. Consensus(rs) # {} => CandidateOK(c, cand, rounds)
  <2> SUFFICES ASSUME Consensus(rs) # {} PROVE CandidateOK(c, cand, rounds)
    OBVIOUS
  <2>1. NodesOf(rs) \in SUBSET Nodes /\ Cardinality(NodesOf(rs)) >= Quorum
    BY <1>16, ConsensusCounts
  <2>2. T[w].round \in 0..rounds
    BY <1>4 DEF RowOK
  <2> QED
    BY <1>5, <1>8, <1>9, <2>1, <2>2 DEF CandidateOK
<1>18. CASE Consensus(rs) = {} \/ c \in DOMAIN C
  <2>1. files' = files /\ \/ db' = noted /\ kills' = kills
                          \/ db' = db /\ kills' = kills + 1
    BY <1>2, <1>18, CommitOne, Zenon
  <2>2. CASE db' = db
    <3>1. StoreOK'
      BY <1>1, <1>2, <2>1 DEF StoreOK
    <3> QED
      BY <1>2, <2>1, <2>2, <3>1, QuietStep
  <2>3. CASE db' = noted /\ kills' = kills
    <3>1. kills = 0 => Effective(U, C, a, rounds)
      <4> SUFFICES ASSUME kills = 0 PROVE Effective(U, C, a, rounds)
        OBVIOUS
      <4>1. \A x \in Consensus(U[w].reports) : [base |-> w[2], delta |-> x.value] \in DOMAIN C
        BY <1>14, <1>15, <1>18 DEF c
      <4>2. \A e : w # Verify(e)
        BY <1>2, Keys
      <4> QED
        BY <1>3, <1>14, <1>12, <4>1, <4>2, EditedEffective
    <3> QED
      BY <1>2, <1>14, <1>7, <1>10, <2>1, <2>3, <3>1, NotedStep
  <2> QED
    BY <2>1, <2>2, <2>3
<1>19. CASE Consensus(rs) # {} /\ c \notin DOMAIN C
  <2>1. files' = written /\ \/ db' = queued /\ kills' = kills
                            \/ db' = db /\ kills' = kills + 1
    BY <1>2, <1>19, CommitOne, Zenon
  <2>2. /\ TableOK(X, rounds, db.failed)
        /\ Gained(U, X, Verify(c), T[w].round)
        /\ DOMAIN X = DOMAIN T \cup {Verify(c)}
    <3>1. Verify(c) \in Mutations \cup ({"verification"} \X Candidates)
      BY <1>8 DEF Verify
    <3>2. T[w].round \in 0..rounds
      BY <1>4 DEF RowOK
    <3>3. /\ TableOK(X, rounds, db.failed)
          /\ DOMAIN X = DOMAIN U \cup {Verify(c)}
          /\ \A v \in DOMAIN U : X[v] = U[v]
          /\ Verify(c) \notin DOMAIN U => IsOpen(X[Verify(c)]) /\ X[Verify(c)].round = T[w].round
                                          /\ X[Verify(c)].reports = {}
      <4> DEFINE key == Verify(c)
                 round == T[w].round
                 nodes == NodesOf(rs)
                 hash == w[4]
                 failed == db.failed
      <4>1. rounds \in Nat /\ TableOK(U, rounds, failed)
        BY <1>3, <1>14
      <4>2. Queued(U, X, key, nodes, round, hash)
        BY <1>13
      <4>3. key \in Mutations \cup ({"verification"} \X Candidates) /\ round \in 0..rounds
        BY <3>1, <3>2
      <4> HIDE DEF key, round, nodes, hash, failed
      <4>4. /\ TableOK(X, rounds, failed)
            /\ DOMAIN X = DOMAIN U \cup {key}
            /\ \A v \in DOMAIN U : X[v] = U[v]
            /\ key \notin DOMAIN U => IsOpen(X[key]) /\ X[key].round = round /\ X[key].reports = {}
        BY <4>1, <4>2, <4>3, QueuedTable
      <4> QED
        BY <4>4 DEF key, round, failed
    <3> QED
      BY <1>14, <3>3, Zenon DEF Gained, Edited
  <2>3. BookOK(D, rounds)
    BY <1>3, <1>17, <1>19, CandidateBook DEF D
  <2>4. StoreOK' /\ CountersOK' /\ DatabaseOK'
    <3>1. StoreOK'
      BY <1>1, <1>2, <1>11, <2>1, <2>3 DEF StoreOK
    <3>2. CountersOK'
      BY <1>2, <1>3, <2>1 DEF CountersOK
    <3>3. DatabaseOK'
      BY <1>1, <1>2, <1>10, <2>1, <2>2 DEF DatabaseOK
    <3> QED BY <3>1, <3>2, <3>3
  <2>5. Headed(files'.contributions, files'.root) /\ files'.root # Nothing
    BY <1>1, <1>11, <2>1
  <2>6. lineages' <= 1 => OneLineage'
    <3> SUFFICES ASSUME lineages <= 1 PROVE OneLineage'
      BY <1>2
    <3>1. OneLineage
      BY <1>1
    <3>2. lineages # 0 /\ Behind(T, C, files.checkpoint, files.root)
      BY <3>1 DEF OneLineage
    <3>3. Behind(U, C, files.checkpoint, files.root)
      BY <1>3, <1>14, <1>7, <3>2, EditedBehind
    <3>4. Len(c.base) <= Len(files.root)
      BY <1>2, <1>8, <3>2 DEF Behind
    <3>5. DOMAIN U # {} /\ DOMAIN T # {}
      BY <1>14 DEF Edited
    <3>6. Behind(X, D, files.checkpoint, files.root)
      BY <1>14, <1>19, <2>2, <3>3, <3>4, <3>5, CandidateBehind DEF D
    <3>7. Behind(T, D, files.checkpoint, files.root)
      BY <1>3, <1>19, <3>2, <3>4, <3>5, CandidateBehind DEF D
    <3>8. Behind(db'.work, files'.candidates, files'.checkpoint, files'.root)
      BY <1>10, <1>11, <2>1, <3>6, <3>7
    <3> QED
      BY <1>2, <3>2, <3>8, Zenon DEF OneLineage
  <2>7. kills' = 0 => NoKills'
    <3> SUFFICES ASSUME kills' = 0 PROVE NoKills'
      OBVIOUS
    <3>1. kills = 0 /\ db' = queued
      BY <1>3, <2>1
    <3>2. a # Nothing /\ w = a.work /\ T[w].round = a.id
      BY <1>12, <3>1
    <3>3. AllShut(U)
      BY <1>2, <1>14, <1>12, <1>19, <3>1, ShutWhenDecided
    <3>4. OneOpen(X, D, a)
      BY <1>14, <1>9, <2>2, <3>2, <3>3, CandidateOneOpen DEF D
    <3>5. Effective(X, D, a, rounds)
      <4>1. /\ \A e \in DOMAIN C : Verify(e) \in DOMAIN U
            /\ a.work \in DOMAIN U /\ a.id \in 0..rounds
            /\ \A v \in DOMAIN U : U[v].round = a.id => v = a.work
        BY <1>2, <1>14, <1>12, <3>1, <3>2 DEF Effective, Edited
      <4>2. \A x \in Consensus(U[a.work].reports) : [base |-> a.work[2], delta |-> x.value] = c
        BY <1>14, <1>15, <3>2 DEF c
      <4>3. a.work[1] = "mutation" /\ ~IsOpen(U[a.work])
        BY <1>2, <1>14, <1>19, <3>2
      <4> QED
        BY <1>14, <2>2, <3>2, <4>1, <4>2, <4>3, CandidateEffective DEF D
    <3>6. files'.checkpoint = files'.root
      BY <1>1, <1>11, <2>1, <3>1 DEF NoKills
    <3> QED
      BY <1>2, <1>10, <1>11, <2>1, <3>1, <3>4, <3>5, <3>6 DEF NoKills
  <2>8. kills' = 0 \/ lineages' <= 1 => Chained(files'.contributions)
    BY <1>1, <1>2, <1>3, <1>11, <2>1
  <2> QED
    BY <2>4, <2>5, <2>6, <2>7, <2>8, Zenon DEF V5Inv
<1> QED
  BY <1>18, <1>19

-----------------------------------------------------------------------------
(* A verification.                                                           *)

(* A contribution is added to the line.                                      *)
Follows(line, root, new) ==
  /\ new.before = root /\ new.candidate.base = root
  /\ new.trainers \cap new.verifiers = {}
  /\ Cardinality(new.trainers) >= Quorum
  /\ Cardinality(new.verifiers) >= Quorum

LEMMA LineGrows ==
  ASSUME NEW line \in Seq(Contribution), NEW new \in Contribution,
         NEW root \in Roots, Headed(line, root)
  PROVE  /\ Append(line, new) \in Seq(Contribution)
         /\ Headed(Append(line, new), new.after)
         /\ Chained(line) /\ Follows(line, root, new) => Chained(Append(line, new))
<1> DEFINE more == Append(line, new)
<1>1. /\ more \in Seq(Contribution) /\ Len(line) \in Nat
      /\ Len(more) = Len(line) + 1 /\ DOMAIN more = 1..(Len(line) + 1)
      /\ DOMAIN line = 1..Len(line)
      /\ more[Len(line) + 1] = new
      /\ \A i \in 1..Len(line) : more[i] = line[i]
  OBVIOUS
<1> HIDE DEF more
<1>2. more # << >>
  BY <1>1
<1>3. Headed(more, new.after)
  BY <1>1, <1>2 DEF Headed
<1>4. ASSUME Chained(line), Follows(line, root, new) PROVE Chained(more)
  <2> SUFFICES ASSUME NEW i \in DOMAIN more PROVE Link(more, i)
    BY DEF Chained
  <2>1. CASE i \in 1..Len(line)
    <3>1. Link(line, i)
      BY <1>1, <1>4, <2>1 DEF Chained
    <3>2. more[i] = line[i] /\ (i # 1 => i - 1 \in 1..Len(line) /\ more[i - 1] = line[i - 1])
      BY <1>1, <2>1
    <3> QED
      BY <3>1, <3>2 DEF Link
  <2>2. CASE i = Len(line) + 1
    <3>1. more[i] = new
      BY <1>1, <2>2
    <3>2. CASE line = << >>
      <4>1. i = 1
        BY <2>2, <3>2
      <4>2. \E start \in Starts : root = Root(start)
        BY <3>2, V5Assumption DEF Headed
      <4> QED
        BY <1>4, <3>1, <4>1, <4>2 DEF Link, Follows
    <3>3. CASE line # << >>
      <4>1. i # 1 /\ i - 1 = Len(line) /\ Len(line) \in 1..Len(line)
        BY <1>1, <2>2, <3>3
      <4>2. more[i - 1].after = root
        BY <1>1, <3>3, <4>1 DEF Headed
      <4> QED
        BY <1>4, <3>1, <4>1, <4>2 DEF Link, Follows
    <3> QED BY <3>2, <3>3
  <2> QED
    BY <1>1, <2>1, <2>2
<1> QED
  BY <1>1, <1>3, <1>4 DEF more

(* A longer checkpoint, and a longer root.                                   *)
LEMMA RootGrows ==
  ASSUME NEW k \in Roots, NEW d \in Deltas
  PROVE  /\ Append(k, d) \in Roots /\ Append(k, d) # Nothing
         /\ Len(k) \in Nat /\ Len(Append(k, d)) = Len(k) + 1
<1>1. Append(k, d) \in Roots /\ Len(k) \in Nat /\ Len(Append(k, d)) = Len(k) + 1
  BY DEF Roots
<1> QED
  BY <1>1, V5Assumption

LEMMA AheadBehind ==
  ASSUME NEW T, NEW C, NEW k \in Roots, NEW r \in Roots, NEW d \in Deltas,
         DOMAIN T # {}, Behind(T, C, k, r)
  PROVE  Behind(T, C, Append(k, d), r)
<1>1. /\ Append(k, d) \in Roots /\ Len(k) \in Nat /\ Len(r) \in Nat
      /\ Len(Append(k, d)) = Len(k) + 1
  BY RootGrows DEF Roots
<1>2. Len(k) >= Len(r)
  BY <1>1 DEF Behind
<1>3. Len(Append(k, d)) > Len(r)
  BY <1>1, <1>2
<1> QED
  BY <1>1, <1>3 DEF Behind

(* What Behind says of lengths only. *)
LEMMA PromotedBehind ==
  ASSUME NEW T, NEW C, NEW k, NEW r, NEW s, NEW last, NEW failed,
         TableOK(T, last, failed), BookOK(C, last),
         r \in Roots, s \in Roots, Len(r) <= Len(s),
         Behind(T, C, k, r)
  PROVE  Behind(T, C, s, s)
<1>1. Len(r) \in Nat /\ Len(s) \in Nat
  BY DEF Roots
<1>2. \A w \in DOMAIN T : w[1] = "mutation" => Len(w[2]) <= Len(s)
  <2> SUFFICES ASSUME NEW w \in DOMAIN T, w[1] = "mutation" PROVE Len(w[2]) <= Len(s)
    OBVIOUS
  <2>1. w[2] \in Roots
    BY KeyOfRow
  <2>2. Len(w[2]) \in Nat /\ Len(w[2]) <= Len(r)
    BY <2>1 DEF Roots, Behind
  <2> QED
    BY <1>1, <2>2
<1>3. \A c \in DOMAIN C : Len(c.base) <= Len(s)
  <2> SUFFICES ASSUME NEW c \in DOMAIN C PROVE Len(c.base) <= Len(s)
    OBVIOUS
  <2>1. c.base \in Roots
    BY DEF BookOK, CandidateOK, Candidates
  <2>2. Len(c.base) \in Nat /\ Len(c.base) <= Len(r)
    BY <2>1 DEF Roots, Behind
  <2> QED
    BY <1>1, <2>2
<1> QED
  BY <1>2, <1>3 DEF Behind

(* What is known when the verification w of the candidate c has the reports  *)
(* rs, which make the table U.                                               *)
Answered(w, c, rs, U) ==
  /\ w \in DOMAIN db.work /\ w = Verify(c)
  /\ c \in Candidates /\ c \in DOMAIN files.candidates
  /\ Edited(db.work, U, w) /\ TableOK(U, rounds, db.failed)
  /\ StaysApart(db.work, U, files.candidates, w)
  /\ Reports(w, rs) /\ U[w].reports = rs
  /\ Consensus(rs) # {} => ~IsOpen(U[w])
  /\ kills = 0 =>
       /\ IsOpen(db.work[w]) /\ files.active # Nothing /\ w # files.active.work
       /\ files.candidates[c].round = files.active.id
       /\ files.candidates[c].status = "verification-quorum"
       /\ Apart(db.work, files.candidates, c)

LEMMA VerificationFacts ==
  ASSUME V5Inv, NEW w \in DOMAIN db.work, NEW n \in Nodes, NEW verdict \in Verdicts,
         ReportVerification(n, w, verdict)
  PROVE  Answered(w, w[2], With(n, w, verdict), [db.work EXCEPT ![w].reports = With(n, w, verdict)])
<1> DEFINE T == db.work
           C == files.candidates
           a == files.active
           c == w[2]
           rs == With(n, w, verdict)
           U == [T EXCEPT ![w].reports = rs]
<1>1. StoreOK /\ DatabaseOK /\ (kills = 0 => NoKills)
  BY DEF V5Inv
<1>2. /\ IsOpen(T[w]) /\ \A x \in T[w].reports : x.node # n
      /\ w[1] = "verification" /\ c \in DOMAIN C /\ n \notin C[c].trainers
  BY DEF ReportVerification, Claimable, Open, IsOpen
<1>3. TableOK(T, rounds, db.failed)
  BY <1>1 DEF DatabaseOK
<1>4. w = Verify(c) /\ c \in Candidates
  BY <1>2, <1>3, KeyOfRow
<1>5. rs = T[w].reports \cup {[node |-> n, value |-> verdict]}
  BY DEF With
<1>6. Adds(rs, T[w].reports, n, verdict) /\ verdict \in Values(w) /\ Notes(U, T, w, rs)
  BY <1>2, <1>5 DEF Values, Adds, Notes
<1>7. NodesOf(rs) = NodesOf(T[w].reports) \cup {n}
  BY <1>6, OneNodeMore
<1>8. Reports(w, T[w].reports)
  BY <1>3 DEF TableOK, RowOK
<1> HIDE DEF rs, U, c
<1>9. Reports(w, rs)
  BY <1>2, <1>6, <1>8, OneReportMore
<1>10. /\ Edited(T, U, w) /\ TableOK(U, rounds, db.failed)
       /\ U[w].reports = rs
       /\ Consensus(rs) # {} => ~IsOpen(U[w])
  BY <1>2, <1>3, <1>6, ReportedTable
<1>11. StaysApart(T, U, C, w)
  <2> SUFFICES ASSUME Apart(T, C, c) PROVE Apart(U, C, c)
    BY DEF StaysApart, c
  <2>1. NodesOf(T[w].reports) \cap C[c].trainers = {}
    BY <1>4 DEF Apart
  <2>2. NodesOf(rs) \cap C[c].trainers = {}
    BY <1>2, <1>7, <2>1
  <2> QED
    BY <1>4, <1>10, <2>2 DEF Apart
<1>12. ASSUME kills = 0
       PROVE  /\ a # Nothing /\ w # a.work
              /\ C[c].round = a.id /\ C[c].status = "verification-quorum" /\ Apart(T, C, c)
  <2>1. a # Nothing /\ Current(w, T, C, a)
    BY <1>1, <1>2, <1>12 DEF NoKills, OneOpen
  <2>2. a.work \in Mutations
    BY <1>1, <2>1 DEF StoreOK, ActiveRounds
  <2>3. w # a.work
    BY <1>2, <2>2, Keys
  <2> QED
    BY <1>2, <2>1, <2>3 DEF Current, c
<1>13. Answered(w, c, rs, U)
  BY <1>2, <1>4, <1>9, <1>10, <1>11, <1>12, Zenon DEF Answered
<1> QED
  BY <1>13 DEF rs, U, c

(* The database has the report, or a kill undid it.                          *)
Settled(U) ==
  /\ DOMAIN db' = DOMAIN db /\ db'.failed = db.failed
  /\ \/ db'.work = U /\ kills' = kills
     \/ db'.work = db.work /\ kills' = kills + 1

LEMMA SettledParts ==
  ASSUME V5Inv, NEW w, NEW c, NEW rs, NEW U, Answered(w, c, rs, U),
         UNCHANGED <<rounds, lineages>>, Settled(U)
  PROVE  /\ CountersOK' /\ DatabaseOK'
         /\ kills \in Nat
         /\ kills' = 0 => kills = 0 /\ db'.work = U
         /\ lineages' <= 1 =>
              /\ lineages # 0
              /\ Behind(db.work, files.candidates, files.checkpoint, files.root)
              /\ Behind(db'.work, files.candidates, files.checkpoint, files.root)
         /\ DOMAIN db.work # {}
<1>1. DatabaseOK /\ CountersOK /\ (lineages <= 1 => OneLineage)
  BY DEF V5Inv
<1>2. kills \in Nat
  BY <1>1 DEF CountersOK
<1>3. CountersOK'
  BY <1>1, <1>2 DEF CountersOK, Settled
<1>4. /\ TableOK(db.work, rounds, db.failed) /\ TableOK(U, rounds, db.failed)
      /\ Edited(db.work, U, w) /\ StaysApart(db.work, U, files.candidates, w)
      /\ DOMAIN db.work # {}
  BY <1>1 DEF DatabaseOK, Answered
<1>5. DatabaseOK'
  BY <1>1, <1>4 DEF DatabaseOK, Settled
<1>6. kills' = 0 => kills = 0 /\ db'.work = U
  BY <1>2 DEF Settled
<1>7. ASSUME lineages <= 1
      PROVE  /\ lineages # 0
             /\ Behind(db.work, files.candidates, files.checkpoint, files.root)
             /\ Behind(db'.work, files.candidates, files.checkpoint, files.root)
  <2>1. lineages # 0 /\ Behind(db.work, files.candidates, files.checkpoint, files.root)
    BY <1>1, <1>4, <1>7 DEF OneLineage
  <2>2. Behind(U, files.candidates, files.checkpoint, files.root)
    BY <1>4, <2>1, EditedBehind
  <2> QED
    BY <2>1, <2>2 DEF Settled
<1> QED
  BY <1>2, <1>3, <1>4, <1>5, <1>6, <1>7

(* A round is closed and its candidate decided: nothing is open any more.    *)
LEMMA ClosedRound ==
  ASSUME V5Inv, kills = 0, NEW w, NEW c, NEW rs, NEW U, Answered(w, c, rs, U),
         Consensus(rs) # {}, NEW D, DOMAIN D = DOMAIN files.candidates
  PROVE  OneOpen(U, D, Nothing) /\ Effective(U, D, Nothing, rounds)
<1>1. /\ OneOpen(db.work, files.candidates, files.active)
      /\ Effective(db.work, files.candidates, files.active, rounds)
  BY DEF V5Inv, NoKills
<1>2. Edited(db.work, U, w) /\ IsOpen(db.work[w]) /\ ~IsOpen(U[w])
  BY DEF Answered
<1>3. AllShut(U)
  BY <1>1, <1>2, ShutWhenDecided
<1>4. Effective(U, D, Nothing, rounds)
  BY <1>1, <1>2 DEF Effective, Edited
<1> QED
  BY <1>3, <1>4, ShutIsOneOpen

(* reject_round                                                              *)
LEMMA RejectStep ==
  ASSUME V5Inv, NEW w, NEW c, NEW rs, NEW U, Answered(w, c, rs, U), Consensus(rs) # {},
         UNCHANGED <<rounds, lineages>>, Settled(U), files' = RejectRound(c)
  PROVE  V5Inv'
<1> DEFINE C == files.candidates
           D == [C EXCEPT ![c].status = "rejected"]
<1>1. /\ StoreOK /\ Headed(files.contributions, files.root)
      /\ DOMAIN db.work # {} => files.root # Nothing
      /\ kills = 0 => NoKills
      /\ kills = 0 \/ lineages <= 1 => Chained(files.contributions)
  BY DEF V5Inv
<1>2. DOMAIN files = FileNames /\ BookOK(C, rounds) /\ c \in DOMAIN C
  BY <1>1 DEF StoreOK, Answered
<1>3. /\ DOMAIN files' = FileNames /\ files'.active = Nothing
      /\ files'.checkpoint = files.checkpoint /\ files'.root = files.root
      /\ files'.validation = files.validation /\ files'.hash = files.hash
      /\ files'.candidates = D /\ files'.contributions = files.contributions
  BY <1>2 DEF FileNames, RejectRound
<1>4. BookOK(D, rounds) /\ Restated(C, D)
  BY <1>2, StatusBook
<1> HIDE DEF D
<1>5. /\ CountersOK' /\ DatabaseOK' /\ kills \in Nat /\ DOMAIN db.work # {}
      /\ kills' = 0 => kills = 0 /\ db'.work = U
      /\ lineages' <= 1 => /\ lineages # 0
                           /\ Behind(db'.work, C, files.checkpoint, files.root)
  BY SettledParts
<1>6. StoreOK'
  BY <1>1, <1>3, <1>4 DEF StoreOK
<1>7. Headed(files'.contributions, files'.root) /\ files'.root # Nothing
  BY <1>1, <1>3, <1>5
<1>8. lineages' <= 1 => OneLineage'
  <2> SUFFICES ASSUME lineages' <= 1 PROVE OneLineage'
    OBVIOUS
  <2>1. Behind(db'.work, D, files.checkpoint, files.root)
    BY <1>4, <1>5, StatusBehind
  <2>2. Behind(db'.work, files'.candidates, files'.checkpoint, files'.root)
    BY <1>3, <2>1
  <2>3. lineages' # 0
    BY <1>5
  <2> QED
    BY <2>2, <2>3, Zenon DEF OneLineage
<1>9. kills' = 0 => NoKills'
  <2> SUFFICES ASSUME kills' = 0 PROVE NoKills'
    OBVIOUS
  <2>1. kills = 0 /\ db'.work = U
    BY <1>5
  <2>2. OneOpen(U, D, Nothing) /\ Effective(U, D, Nothing, rounds)
    BY <1>4, <2>1, ClosedRound DEF Restated
  <2>3. files'.checkpoint = files'.root
    BY <1>1, <1>3, <2>1 DEF NoKills
  <2> QED
    BY <1>3, <2>1, <2>2, <2>3 DEF NoKills
<1>10. kills' = 0 \/ lineages' <= 1 => Chained(files'.contributions)
  BY <1>1, <1>3, <1>5
<1> QED
  BY <1>5, <1>6, <1>7, <1>8, <1>9, <1>10, Zenon DEF V5Inv

(* promote, killed after it replaced the checkpoint.                         *)
LEMMA AheadStep ==
  ASSUME V5Inv, NEW w, NEW c, NEW rs, NEW U, Answered(w, c, rs, U),
         UNCHANGED <<rounds, lineages>>, db' = db, kills' = kills + 1, Applies(c),
         files' = [files EXCEPT !.checkpoint = Applied(c)]
  PROVE  V5Inv'
<1>1. /\ StoreOK /\ Headed(files.contributions, files.root)
      /\ DOMAIN db.work # {} => files.root # Nothing
      /\ kills = 0 \/ lineages <= 1 => Chained(files.contributions)
  BY DEF V5Inv
<1>2. DOMAIN files = FileNames /\ c \in Candidates
  BY <1>1 DEF StoreOK, Answered
<1>3. files.checkpoint = c.base /\ files.checkpoint \in Roots /\ c.delta \in Deltas
  BY <1>2 DEF Applies, Candidates
<1>4. /\ DOMAIN files' = FileNames /\ files'.active = files.active
      /\ files'.checkpoint = Append(files.checkpoint, c.delta) /\ files'.root = files.root
      /\ files'.validation = files.validation /\ files'.hash = files.hash
      /\ files'.candidates = files.candidates /\ files'.contributions = files.contributions
  BY <1>2 DEF FileNames, Applied
<1>5. Settled(U)
  BY DEF Settled
<1>6. /\ CountersOK' /\ DatabaseOK' /\ kills \in Nat /\ DOMAIN db.work # {}
      /\ lineages' <= 1 => /\ lineages # 0
                           /\ Behind(db.work, files.candidates, files.checkpoint, files.root)
  BY <1>5, SettledParts
<1>7. files.root \in Roots
  BY <1>1, <1>6 DEF StoreOK
<1>8. files'.checkpoint \in Roots
  BY <1>3, <1>4, RootGrows
<1>9. StoreOK'
  BY <1>1, <1>4, <1>8 DEF StoreOK
<1>10. lineages' <= 1 => OneLineage'
  <2> SUFFICES ASSUME lineages' <= 1 PROVE OneLineage'
    OBVIOUS
  <2>1. lineages' # 0
    BY <1>6
  <2>2. Behind(db.work, files.candidates, Append(files.checkpoint, c.delta), files.root)
    BY <1>3, <1>6, <1>7, AheadBehind
  <2>3. Behind(db'.work, files'.candidates, files'.checkpoint, files'.root)
    BY <1>4, <2>2
  <2> QED
    BY <2>1, <2>3, Zenon DEF OneLineage
<1>11. kills' # 0
  BY <1>6
<1>12. /\ Headed(files'.contributions, files'.root) /\ files'.root # Nothing
       /\ lineages' <= 1 => Chained(files'.contributions)
  BY <1>1, <1>4, <1>6
<1> QED
  BY <1>6, <1>9, <1>10, <1>11, <1>12, Zenon DEF V5Inv

(* The contribution of a candidate that is promoted.                         *)
Record(c, verifiers) ==
  [candidate |-> c, before |-> files.checkpoint, after |-> Applied(c),
   trainers |-> files.candidates[c].trainers, verifiers |-> verifiers,
   hash |-> files.candidates[c].hash]

LEMMA PromotedFiles ==
  ASSUME DOMAIN files = FileNames, NEW c, NEW verifiers, NEW f, NEW g,
         <<f, g>> = Promoted(c, verifiers)
  PROVE  /\ f = [files EXCEPT !.checkpoint = Applied(c)]
         /\ DOMAIN g = FileNames /\ g.active = Nothing
         /\ g.checkpoint = Applied(c) /\ g.root = Applied(c)
         /\ g.validation = files.validation /\ g.hash = files.hash
         /\ g.candidates = [files.candidates EXCEPT ![c].status = "promoted"]
         /\ g.contributions = Append(files.contributions, Record(c, verifiers))
<1> DEFINE model == [files EXCEPT !.checkpoint = Applied(c)]
           final == [model EXCEPT !.root = Applied(c), !.active = Nothing,
                                  !.contributions = Append(@, Record(c, verifiers)),
                                  !.candidates[c].status = "promoted"]
<1>1. Promoted(c, verifiers) = <<model, final>>
  BY DEF Promoted, Record
<1>2. /\ DOMAIN model = FileNames
      /\ model.validation = files.validation /\ model.hash = files.hash
      /\ model.candidates = files.candidates /\ model.contributions = files.contributions
      /\ model.checkpoint = Applied(c)
  BY DEF FileNames
<1>3. f = model /\ g = final
  BY <1>1
<1>4. model = [files EXCEPT !.checkpoint = Applied(c)]
  OBVIOUS
<1> HIDE DEF model
<1>5. /\ DOMAIN final = FileNames /\ final.active = Nothing
      /\ final.checkpoint = Applied(c) /\ final.root = Applied(c)
      /\ final.validation = files.validation /\ final.hash = files.hash
      /\ final.candidates = [files.candidates EXCEPT ![c].status = "promoted"]
      /\ final.contributions = Append(files.contributions, Record(c, verifiers))
  BY <1>2 DEF FileNames
<1> HIDE DEF final
<1> QED
  BY <1>3, <1>4, <1>5

(* promote: the candidate was made for the canonical root, and its trainers  *)
(* did not verify it.                                                        *)
LEMMA PromoteStep ==
  ASSUME V5Inv, NEW w, NEW c, NEW rs, NEW U, Answered(w, c, rs, U), Consensus(rs) # {},
         UNCHANGED <<rounds, lineages>>, Settled(U), Applies(c),
         NEW f, <<f, files'>> = Promoted(c, NodesOf(Consensus(rs)))
  PROVE  V5Inv'
<1> DEFINE C == files.candidates
           D == [C EXCEPT ![c].status = "promoted"]
           k == files.checkpoint
           s == Append(k, c.delta)
           line == files.contributions
           verifiers == NodesOf(Consensus(rs))
           new == Record(c, verifiers)
<1>1. /\ StoreOK /\ DatabaseOK /\ CountersOK /\ Headed(line, files.root)
      /\ DOMAIN db.work # {} => files.root # Nothing
      /\ kills = 0 => NoKills
      /\ kills = 0 \/ lineages <= 1 => Chained(line)
  BY DEF V5Inv
<1>2. /\ DOMAIN files = FileNames /\ BookOK(C, rounds) /\ line \in Seq(Contribution)
      /\ c \in DOMAIN C /\ c \in Candidates
      /\ TableOK(db.work, rounds, db.failed)
  BY <1>1 DEF StoreOK, DatabaseOK, Answered
<1>3. k = c.base /\ k \in Roots /\ c.delta \in Deltas /\ Applied(c) = s
  BY <1>2 DEF Applies, Applied, Candidates
<1>4. /\ DOMAIN files' = FileNames /\ files'.active = Nothing
      /\ files'.checkpoint = s /\ files'.root = s
      /\ files'.validation = files.validation /\ files'.hash = files.hash
      /\ files'.candidates = D
      /\ files'.contributions = Append(line, new)
  BY <1>2, <1>3, PromotedFiles
<1>5. BookOK(D, rounds) /\ Restated(C, D)
  BY <1>2, StatusBook
<1>6. CandidateOK(c, C[c], rounds)
  BY <1>2 DEF BookOK
<1>7. s \in Roots /\ s # Nothing /\ Len(k) \in Nat /\ Len(s) = Len(k) + 1
  BY <1>3, RootGrows
<1>8. /\ NodesOf(rs) \in SUBSET Nodes /\ verifiers \subseteq NodesOf(rs)
      /\ Cardinality(verifiers) >= Quorum
  BY ConsensusCounts DEF Answered
<1>9. /\ new.candidate = c /\ new.before = k /\ new.after = s
      /\ new.trainers = C[c].trainers /\ new.verifiers = verifiers
      /\ new \in Contribution
  <2>1. new = [candidate |-> c, before |-> k, after |-> s, trainers |-> C[c].trainers,
               verifiers |-> verifiers, hash |-> C[c].hash]
    BY <1>3 DEF Record
  <2>2. C[c].trainers \in SUBSET Nodes /\ C[c].hash \in Artifacts /\ verifiers \in SUBSET Nodes
    BY <1>6, <1>8 DEF CandidateOK
  <2> HIDE DEF new, D, C, s, verifiers, k
  <2>3. new \in Contribution
    BY <1>2, <1>3, <1>7, <2>1, <2>2 DEF Contribution
  <2> QED
    BY <2>1, <2>3
<1>10. /\ CountersOK' /\ DatabaseOK' /\ kills \in Nat /\ DOMAIN db.work # {}
       /\ kills' = 0 => kills = 0 /\ db'.work = U
       /\ lineages' <= 1 => /\ lineages # 0
                            /\ Behind(db.work, C, k, files.root)
                            /\ Behind(db'.work, C, k, files.root)
  BY SettledParts
<1> HIDE DEF D, s, verifiers, new
<1>11. files.root \in Roots
  BY <1>1, <1>10 DEF StoreOK
<1>12. /\ Append(line, new) \in Seq(Contribution)
       /\ Headed(Append(line, new), s)
       /\ Chained(line) /\ Follows(line, files.root, new) => Chained(Append(line, new))
  BY <1>1, <1>2, <1>9, <1>11, LineGrows
<1>13. StoreOK'
  BY <1>1, <1>4, <1>5, <1>7, <1>12 DEF StoreOK
<1>14. lineages <= 1 => k = files.root /\ Apart(db.work, C, c)
  <2> SUFFICES ASSUME lineages <= 1 PROVE k = files.root /\ Apart(db.work, C, c)
    OBVIOUS
  <2>1. Behind(db.work, C, k, files.root)
    BY <1>10
  <2>2. Len(k) <= Len(files.root) /\ Len(files.root) \in Nat
    BY <1>2, <1>3, <1>11, <2>1 DEF Behind, Roots
  <2>3. k = files.root
    BY <1>7, <1>10, <2>1, <2>2 DEF Behind
  <2>4. w \in DOMAIN db.work /\ w[1] = "verification" /\ w[2] = c
    BY Keys DEF Answered
  <2> QED
    BY <2>1, <2>3, <2>4 DEF Behind
<1>15. kills = 0 => k = files.root /\ Apart(db.work, C, c)
  BY <1>1 DEF NoKills, Answered
<1>16. ASSUME kills = 0 \/ lineages <= 1
       PROVE  Follows(line, files.root, new)
  <2>1. k = files.root /\ Apart(db.work, C, c)
    BY <1>14, <1>15, <1>16
  <2>2. Apart(U, C, c)
    <3>1. w[1] = "verification" /\ w[2] = c
      BY Keys DEF Answered
    <3> QED
      BY <1>2, <2>1, <3>1 DEF StaysApart, Answered
  <2>3. NodesOf(rs) \cap C[c].trainers = {}
    BY <2>2 DEF Apart, Answered
  <2>4. new.trainers \cap new.verifiers = {}
    BY <1>8, <1>9, <2>3
  <2> QED
    BY <1>3, <1>6, <1>8, <1>9, <2>1, <2>4 DEF Follows, CandidateOK
<1>17. kills' = 0 \/ lineages' <= 1 => Chained(files'.contributions)
  BY <1>1, <1>4, <1>10, <1>12, <1>16
<1>18. Headed(files'.contributions, files'.root) /\ files'.root # Nothing
  BY <1>4, <1>7, <1>12
<1>19. lineages' <= 1 => OneLineage'
  <2> SUFFICES ASSUME lineages' <= 1 PROVE OneLineage'
    OBVIOUS
  <2>1. lineages # 0 /\ Behind(db'.work, C, k, files.root) /\ k = files.root
    BY <1>10, <1>14
  <2>2. Len(files.root) <= Len(s)
    BY <1>7, <2>1
  <2>3. Behind(db'.work, D, k, files.root)
    BY <1>5, <2>1, StatusBehind
  <2>4. TableOK(db'.work, rounds, db'.failed)
    BY <1>10 DEF DatabaseOK
  <2>5. Behind(db'.work, D, s, s)
    BY <1>5, <1>7, <1>11, <2>2, <2>3, <2>4, PromotedBehind
  <2>6. Behind(db'.work, files'.candidates, files'.checkpoint, files'.root)
    BY <1>4, <2>5
  <2>7. lineages' # 0
    BY <2>1
  <2> QED
    BY <2>6, <2>7, Zenon DEF OneLineage
<1>20. kills' = 0 => NoKills'
  <2> SUFFICES ASSUME kills' = 0 PROVE NoKills'
    OBVIOUS
  <2>1. kills = 0 /\ db'.work = U
    BY <1>10
  <2>2. OneOpen(U, D, Nothing) /\ Effective(U, D, Nothing, rounds)
    BY <1>5, <2>1, ClosedRound DEF Restated
  <2>3. files'.checkpoint = files'.root
    BY <1>4
  <2> QED
    BY <1>4, <2>1, <2>2, <2>3 DEF NoKills
<1> QED
  BY <1>10, <1>13, <1>17, <1>18, <1>19, <1>20, Zenon DEF V5Inv

(* The outcomes of a verification: its report is written down; or it decides *)
(* against the candidate, or for it.                                         *)
Rejects(w, c, rs, U) ==
  /\ Consensus(rs) # {} /\ Decision(rs) = "loss"
  /\ files' = RejectRound(c)
  /\ \/ /\ db' = [[db EXCEPT !.work = U] EXCEPT !.paid = @ \cup Rewarded(c, rs)]
        /\ kills' = kills
     \/ db' = db /\ kills' = kills + 1

Promotes(w, c, rs, U) ==
  /\ Consensus(rs) # {} /\ Decision(rs) # "loss" /\ Applies(c)
  /\ \E f : <<f, files'>> = Promoted(c, NodesOf(Consensus(rs)))
  /\ \/ /\ db' = [[db EXCEPT !.work = U] EXCEPT !.paid = @ \cup Rewarded(c, rs)]
        /\ kills' = kills
     \/ db' = db /\ kills' = kills + 1

LEMMA Outcomes ==
  ASSUME DOMAIN db = {"work", "paid", "failed"},
         NEW w, NEW n, NEW verdict, ReportVerification(n, w, verdict),
         NEW c, c = w[2], NEW rs, rs = With(n, w, verdict),
         NEW U, U = [db.work EXCEPT ![w].reports = rs]
  PROVE  \/ /\ Consensus(rs) = {} /\ files' = files
            /\ \/ db' = [db EXCEPT !.work = U] /\ kills' = kills
               \/ db' = db /\ kills' = kills + 1
         \/ Rejects(w, c, rs, U)
         \/ Promotes(w, c, rs, U)
         \/ /\ Consensus(rs) # {} /\ Applies(c)
            /\ files' = [files EXCEPT !.checkpoint = Applied(c)]
            /\ db' = db /\ kills' = kills + 1
<1> DEFINE done == [db EXCEPT !.work[w].reports = rs]
           decided == [done EXCEPT !.paid = @ \cup Rewarded(c, rs)]
           model == [files EXCEPT !.checkpoint = Applied(c)]
<1>1. done = [db EXCEPT !.work = U]
  OBVIOUS
<1>2. \/ Consensus(rs) = {} /\ Commit(<<files>>, done)
      \/ /\ Consensus(rs) # {}
         /\ IF Decision(rs) = "loss" THEN Commit(<<RejectRound(c)>>, decided)
              ELSE Applies(c) /\ Commit(Promoted(c, NodesOf(Consensus(rs))), decided)
  BY DEF ReportVerification
<1>3. CASE Consensus(rs) = {} /\ Commit(<<files>>, done)
  <2>1. files' = files /\ ((db' = done /\ kills' = kills) \/ (db' = db /\ kills' = kills + 1))
    BY <1>3, CommitOne, Zenon
  <2> QED
    BY <1>1, <1>3, <2>1, Zenon
<1>4. CASE Consensus(rs) # {} /\ Decision(rs) = "loss" /\ Commit(<<RejectRound(c)>>, decided)
  <2>1. /\ files' = RejectRound(c)
        /\ ((db' = decided /\ kills' = kills) \/ (db' = db /\ kills' = kills + 1))
    BY <1>4, CommitOne, Zenon
  <2> QED
    BY <1>1, <1>4, <2>1, Zenon DEF Rejects
<1>5. CASE /\ Consensus(rs) # {} /\ Decision(rs) # "loss" /\ Applies(c)
           /\ Commit(Promoted(c, NodesOf(Consensus(rs))), decided)
  <2>1. PICK g : Promoted(c, NodesOf(Consensus(rs))) = <<model, g>>
    BY DEF Promoted
  <2>2. \/ files' = g /\ db' = decided /\ kills' = kills
        \/ files' \in {model, g} /\ db' = db /\ kills' = kills + 1
    <3> HIDE DEF decided, done, model
    <3>1. Commit(<<model, g>>, decided)
      BY <1>5, <2>1, Zenon
    <3> QED
      BY <3>1, CommitTwo, Zenon
  <2> HIDE DEF decided, done
  <2>3. CASE files' = g
    <3>1. \/ db' = decided /\ kills' = kills
          \/ db' = db /\ kills' = kills + 1
      BY <2>2
    <3> QED
      BY <1>1, <1>5, <2>1, <2>3, <3>1, Zenon DEF Promotes, decided
  <2>4. CASE files' = model /\ db' = db /\ kills' = kills + 1
    BY <1>5, <2>4, Zenon
  <2> QED
    BY <2>2, <2>3, <2>4
<1> QED
  BY <1>2, <1>3, <1>4, <1>5

LEMMA ReportVerificationStep ==
  ASSUME V5Inv, NEW w \in DOMAIN db.work, NEW n \in Nodes, NEW verdict \in Verdicts,
         ReportVerification(n, w, verdict)
  PROVE  V5Inv'
<1> DEFINE c == w[2]
           rs == With(n, w, verdict)
           U == [db.work EXCEPT ![w].reports = rs]
           noted == [db EXCEPT !.work = U]
           paid == [noted EXCEPT !.paid = @ \cup Rewarded(c, rs)]
<1>1. StoreOK /\ DatabaseOK /\ CountersOK /\ (kills = 0 => NoKills)
  BY DEF V5Inv
<1>2. DOMAIN db = {"work", "paid", "failed"} /\ rounds' = rounds /\ lineages' = lineages
  BY <1>1 DEF DatabaseOK, ReportVerification
<1>3. Answered(w, c, rs, U)
  BY VerificationFacts
<1>4. \/ /\ Consensus(rs) = {} /\ files' = files
         /\ \/ db' = noted /\ kills' = kills
            \/ db' = db /\ kills' = kills + 1
      \/ Rejects(w, c, rs, U)
      \/ Promotes(w, c, rs, U)
      \/ /\ Consensus(rs) # {} /\ Applies(c)
         /\ files' = [files EXCEPT !.checkpoint = Applied(c)]
         /\ db' = db /\ kills' = kills + 1
  BY <1>2, Outcomes
<1>5. /\ DOMAIN noted = DOMAIN db /\ noted.work = U /\ noted.failed = db.failed
      /\ DOMAIN paid = DOMAIN db /\ paid.work = U /\ paid.failed = db.failed
  BY <1>2
<1>6. ASSUME \/ db' = paid /\ kills' = kills
             \/ db' = db /\ kills' = kills + 1
      PROVE  Settled(U)
  BY <1>5, <1>6 DEF Settled
<1>7. CASE Consensus(rs) = {} /\ files' = files
  <2>1. CASE db' = db /\ kills' = kills + 1
    <3>1. StoreOK'
      BY <1>1, <1>2, <1>7 DEF StoreOK
    <3> QED
      BY <1>2, <1>7, <2>1, <3>1, QuietStep
  <2>2. CASE db' = noted /\ kills' = kills
    <3>1. ASSUME kills = 0 PROVE Effective(U, files.candidates, files.active, rounds)
      <4>1. Effective(db.work, files.candidates, files.active, rounds)
        BY <1>1, <3>1 DEF NoKills
      <4>2. /\ w # files.active.work /\ Consensus(U[w].reports) = {}
            /\ TableOK(db.work, rounds, db.failed) /\ Edited(db.work, U, w)
        BY <1>1, <1>3, <1>7, <3>1 DEF Answered, DatabaseOK
      <4> HIDE DEF U
      <4> QED
        BY <4>1, <4>2, EditedEffective
    <3>2. /\ Edited(db.work, U, w) /\ TableOK(U, rounds, db.failed)
          /\ StaysApart(db.work, U, files.candidates, w)
      BY <1>3 DEF Answered
    <3>3. DOMAIN db' = DOMAIN db /\ db'.work = U /\ db'.failed = db.failed
      BY <1>5, <2>2
    <3> HIDE DEF U
    <3> QED
      BY <1>2, <1>7, <2>2, <3>1, <3>2, <3>3, NotedStep
  <2> QED
    BY <1>4, <1>7, <2>1, <2>2 DEF Rejects, Promotes
<1>8. CASE Rejects(w, c, rs, U)
  <2>1. Settled(U) /\ Consensus(rs) # {} /\ files' = RejectRound(c)
    BY <1>6, <1>8 DEF Rejects
  <2> HIDE DEF U, rs, c
  <2> QED
    BY <1>2, <1>3, <2>1, RejectStep
<1>9. CASE Promotes(w, c, rs, U)
  <2>1. Settled(U) /\ Consensus(rs) # {} /\ Applies(c)
    BY <1>6, <1>9 DEF Promotes
  <2>2. PICK f : <<f, files'>> = Promoted(c, NodesOf(Consensus(rs)))
    BY <1>9 DEF Promotes
  <2> HIDE DEF U, rs, c
  <2> QED
    BY <1>2, <1>3, <2>1, <2>2, PromoteStep
<1>10. CASE /\ Consensus(rs) # {} /\ Applies(c)
            /\ files' = [files EXCEPT !.checkpoint = Applied(c)]
            /\ db' = db /\ kills' = kills + 1
  <2> HIDE DEF U, rs, c
  <2> QED
    BY <1>2, <1>3, <1>10, AheadStep
<1> QED
  BY <1>4, <1>7, <1>8, <1>9, <1>10

LEMMA V5Step == V5Inv /\ [Next]_vars => V5Inv'
<1> SUFFICES ASSUME V5Inv, [Next]_vars PROVE V5Inv'
  OBVIOUS
<1>1. ASSUME NEW replace \in BOOLEAN, NEW start \in Starts, Initialize(start, replace)
      PROVE  V5Inv'
  BY <1>1, InitializeStep
<1>2. ASSUME NEW replace \in BOOLEAN, NEW x \in Artifacts, SetGlobalValidation(x, replace)
      PROVE  V5Inv'
  BY <1>2, SetGlobalValidationStep
<1>3. ASSUME NEW job \in Jobs, QueueMutation(job)
      PROVE  V5Inv'
  BY <1>3, QueueMutationStep
<1>4. ASSUME NEW w \in DOMAIN db.work, Lose(w)
      PROVE  V5Inv'
  BY <1>4, LoseStep
<1>5. ASSUME NEW w \in DOMAIN db.work, NEW n \in Nodes, NEW d \in Deltas, ReportMutation(n, w, d)
      PROVE  V5Inv'
  BY <1>5, ReportMutationStep
<1>6. ASSUME NEW w \in DOMAIN db.work, NEW n \in Nodes, NEW v \in {"gain", "loss"},
             ReportVerification(n, w, v)
      PROVE  V5Inv'
  BY <1>6, ReportVerificationStep DEF Verdicts
<1>7. ASSUME UNCHANGED vars PROVE V5Inv'
  <2>1. /\ files' = files /\ db' = db /\ rounds' = rounds /\ lineages' = lineages
        /\ kills' = kills
    BY <1>7 DEF vars
  <2>2. StoreOK'
    BY <2>1 DEF V5Inv, StoreOK
  <2> QED
    BY <2>1, <2>2, QuietStep
<1> QED
  BY <1>1, <1>2, <1>3, <1>4, <1>5, <1>6, <1>7, Zenon DEF Next

THEOREM V5Invariant == Spec => []V5Inv
<1>1. Init => V5Inv
  BY V5Init
<1>2. V5Inv /\ [Next]_vars => V5Inv'
  BY V5Step
<1> QED
  BY <1>1, <1>2, PTL DEF Spec

-----------------------------------------------------------------------------
(* What follows.                                                             *)

(* For every number of nodes, jobs and deltas: while the coordinator is not  *)
(* killed, or has had one lineage only, the contributions form one line from *)
(* a start to the canonical root, each trained and verified by disjoint      *)
(* quorums, and only a kill parts the checkpoint from the root.              *)
THEOREM LineIsOne == Spec => []LineageIsLinear
<1>1. V5Inv => LineageIsLinear
  <2> SUFFICES ASSUME V5Inv, kills = 0 \/ lineages <= 1 PROVE Linear
    BY DEF LineageIsLinear
  <2>1. /\ StoreOK /\ CountersOK /\ Headed(files.contributions, files.root)
        /\ Chained(files.contributions)
        /\ kills = 0 => NoKills
    BY DEF V5Inv
  <2>2. files.contributions # << >> => files.root = Last(files.contributions).after
    BY <2>1 DEF Headed, Last
  <2>3. files.checkpoint # files.root => kills > 0
    BY <2>1 DEF NoKills, CountersOK
  <2> QED
    BY <2>1, <2>2, <2>3 DEF Linear, Chained, Link
<1> QED
  BY <1>1, V5Invariant, PTL

(* While a round is active somebody can still be offered work for it, but    *)
(* for the cases RoundsCanEnd names.                                         *)
THEOREM NoRoundHangs == Spec => []RoundsCanEnd
<1>1. V5Inv => RoundsCanEnd
  <2> DEFINE T == db.work
             C == files.candidates
             a == files.active
             w == a.work
             Values2(v) == {x.value : x \in T[v].reports}
  <2> SUFFICES ASSUME V5Inv, a # Nothing, kills = 0, db.failed = 0, T[w].round = a.id,
                      ~Open(w), ~(Cardinality(Values2(w)) > 1)
               PROVE  \E d \in Values2(w) :
                        LET c == [base |-> w[2], delta |-> d]
                        IN  \/ ~Own(c)
                            \/ T[Verify(c)].round # a.id
                            \/ Open(Verify(c))
                            \/ Cardinality(Values2(Verify(c))) > 1
    BY DEF RoundsCanEnd
  <2>1. Effective(T, C, a, rounds) /\ TableOK(T, rounds, db.failed)
    BY DEF V5Inv, NoKills, DatabaseOK
  <2>2. ASSUME NEW v \in DOMAIN T, ~Open(v), ~(Cardinality(Values2(v)) > 1)
        PROVE  Consensus(T[v].reports) = T[v].reports /\ T[v].reports # {}
    <3>1. RowOK(v, T[v], rounds, db.failed)
      BY <2>1, <2>2 DEF TableOK
    <3>2. /\ Reports(v, T[v].reports) /\ T[v].lost = 0 /\ T[v].slots = 2
          /\ Cardinality(T[v].reports) \in Nat
      BY <3>1, FS_CardinalityType DEF RowOK, Reports, Quorum
    <3>3. Cardinality(T[v].reports) >= Quorum
      BY <2>2, <3>2 DEF Open, Quorum
    <3> QED
      BY <2>2, <3>2, <3>3, AgreementIsConsensus
  <2>3. w \in DOMAIN T
    BY <2>1 DEF Effective
  <2>4. Consensus(T[w].reports) = T[w].reports /\ T[w].reports # {}
    BY <2>2, <2>3
  <2>5. PICK x \in T[w].reports : TRUE
    BY <2>4
  <2> DEFINE c == [base |-> w[2], delta |-> x.value]
  <2>6. x.value \in Values2(w) /\ c \in DOMAIN C /\ Verify(c) \in DOMAIN T
    BY <2>1, <2>4, <2>5 DEF Effective
  <2>7. \/ ~Own(c)
        \/ T[Verify(c)].round # a.id
        \/ Open(Verify(c))
        \/ Cardinality(Values2(Verify(c))) > 1
    <3> SUFFICES ASSUME Own(c), T[Verify(c)].round = a.id, ~Open(Verify(c)),
                        ~(Cardinality(Values2(Verify(c))) > 1)
                 PROVE  FALSE
      OBVIOUS
    <3>1. Consensus(T[Verify(c)].reports) # {}
      BY <2>2, <2>6
    <3> QED
      BY <2>1, <2>6, <3>1 DEF Effective, Own
  <2> QED
    BY <2>6, <2>7
<1> QED
  BY <1>1, V5Invariant, PTL

(* Only a verification ends a round, lengthens the line or pays.             *)
LEMMA OnlyVerificationsDecide ==
  ASSUME V5Inv, [Next]_vars
  PROVE  \/ /\ files.active = Nothing \/ files'.active = files.active
            /\ files'.contributions \in {files.contributions, << >>}
            /\ db'.paid = db.paid
         \/ \E w \in DOMAIN db.work, n \in Nodes, v \in Verdicts : ReportVerification(n, w, v)
<1> DEFINE Nobody == /\ files.active = Nothing \/ files'.active = files.active
                     /\ files'.contributions \in {files.contributions, << >>}
                     /\ db'.paid = db.paid
<1>1. DOMAIN files = FileNames /\ DOMAIN db = {"work", "paid", "failed"}
  BY DEF V5Inv, StoreOK, DatabaseOK
<1>2. ASSUME NEW replace \in BOOLEAN, NEW start \in Starts, Initialize(start, replace)
      PROVE  Nobody
  <2> DEFINE model == [files EXCEPT !.checkpoint = Root(start)]
             bare == [model EXCEPT !.validation = Nothing]
             final == [bare EXCEPT !.root = Root(start), !.hash = Nothing, !.evaluations = 0,
                                   !.candidates = << >>, !.contributions = << >>]
  <2>1. files.active = Nothing /\ Commit(<<model, bare, final>>, db)
    BY <1>2 DEF Initialize, Idle
  <2>2. model.contributions = files.contributions /\ DOMAIN model = FileNames
    BY <1>1 DEF FileNames
  <2> HIDE DEF model
  <2>3. bare.contributions = files.contributions /\ DOMAIN bare = FileNames
    BY <2>2 DEF FileNames
  <2> HIDE DEF bare
  <2>4. final.contributions = << >>
    BY <2>3 DEF FileNames
  <2> HIDE DEF final
  <2>5. files' \in {model, bare, final} /\ db' = db
    BY <2>1, CommitThree
  <2> QED
    BY <2>1, <2>2, <2>3, <2>4, <2>5
<1>3. ASSUME NEW replace \in BOOLEAN, NEW x \in Artifacts, SetGlobalValidation(x, replace)
      PROVE  Nobody
  <2> DEFINE written == [files EXCEPT !.validation = x]
             final == [written EXCEPT !.hash = x, !.evaluations = 0]
  <2>1. files.active = Nothing /\ Commit(<<written, final>>, db)
    BY <1>3 DEF SetGlobalValidation, Idle
  <2>2. written.contributions = files.contributions /\ DOMAIN written = FileNames
    BY <1>1 DEF FileNames
  <2> HIDE DEF written
  <2>3. final.contributions = files.contributions
    BY <2>2 DEF FileNames
  <2> HIDE DEF final
  <2>4. files' \in {written, final} /\ db' = db
    BY <2>1, CommitTwo
  <2> QED
    BY <2>1, <2>2, <2>3, <2>4
<1>4. ASSUME NEW job \in Jobs, QueueMutation(job)
      PROVE  Nobody
  <2> DEFINE w == Search(files.root, job, files.hash)
             written == [files EXCEPT !.evaluations = @ + 1,
                                      !.active = [id |-> rounds + 1, work |-> w]]
             committed == [db EXCEPT !.work = AddWork(@, w, Quorum, {}, rounds + 1, files.hash)]
  <2>1. files.active = Nothing /\ Commit(<<written>>, committed)
    BY <1>4 DEF QueueMutation, Idle
  <2>2. written.contributions = files.contributions /\ committed.paid = db.paid
    BY <1>1 DEF FileNames
  <2> HIDE DEF written, committed
  <2>3. files' = written /\ db' \in {committed, db}
    BY <2>1, CommitOne
  <2> QED
    BY <2>1, <2>2, <2>3
<1>5. ASSUME NEW w \in DOMAIN db.work, Lose(w)
      PROVE  Nobody
  <2>1. /\ files' = files
        /\ db' = [[db EXCEPT !.failed = @ + 1] EXCEPT !.work[w].lost = @ + 1]
    BY <1>5 DEF Lose
  <2> QED
    BY <1>1, <2>1
<1>6. ASSUME NEW w \in DOMAIN db.work, NEW n \in Nodes, NEW d \in Deltas, ReportMutation(n, w, d)
      PROVE  Nobody
  <2> DEFINE rs == With(n, w, d)
             c == [base |-> w[2], delta |-> d]
             work == [db.work EXCEPT ![w].reports = rs]
             candidate == [round |-> db.work[w].round, hash |-> w[4],
                           trainers |-> NodesOf(rs), task |-> w,
                           status |-> "verification-quorum"]
             noted == [db EXCEPT !.work = work]
             written == [files EXCEPT !.candidates = Update(@, c, candidate)]
             queued == [db EXCEPT !.work = Verifications(work, c, candidate)]
  <2>1. Commit(<<files>>, noted) \/ Commit(<<written>>, queued)
    BY <1>6 DEF ReportMutation
  <2>2. /\ written.contributions = files.contributions /\ written.active = files.active
        /\ noted.paid = db.paid /\ queued.paid = db.paid
    BY <1>1 DEF FileNames
  <2> HIDE DEF written, noted, queued
  <2>3. files' \in {files, written} /\ db' \in {noted, queued, db}
    BY <2>1, CommitOne
  <2> QED
    BY <2>2, <2>3
<1>7. ASSUME UNCHANGED vars PROVE Nobody
  BY <1>7 DEF vars
<1> HIDE DEF Nobody
<1>8. Nobody \/ \E w \in DOMAIN db.work, n \in Nodes, v \in Verdicts : ReportVerification(n, w, v)
  BY <1>2, <1>3, <1>4, <1>5, <1>6, <1>7, Zenon DEF Next, Verdicts
<1> QED
  BY <1>8 DEF Nobody

LEMMA RejectedOrPromoted ==
  ASSUME V5Inv, NEW w, NEW c, NEW rs, NEW U, Answered(w, c, rs, U), w[1] = "verification"
  PROVE  /\ Rejects(w, c, rs, U) =>
              /\ files'.contributions = files.contributions /\ db'.paid = db.paid
              /\ c \in DOMAIN files.candidates /\ files'.candidates[c].status = "rejected"
         /\ Promotes(w, c, rs, U) =>
              /\ files'.contributions = Append(files.contributions, Record(c, NodesOf(Consensus(rs))))
              /\ \/ db'.paid = db.paid \cup Rewards(c, NodesOf(Consensus(rs)))
                 \/ db'.paid = db.paid /\ kills' # kills
              /\ c \in DOMAIN files.candidates /\ files'.candidates[c].status = "promoted"
<1> DEFINE noted == [db EXCEPT !.work = U]
           paid == [noted EXCEPT !.paid = @ \cup Rewarded(c, rs)]
<1>1. /\ DOMAIN files = FileNames /\ DOMAIN db = {"work", "paid", "failed"} /\ kills \in Nat
      /\ BookOK(files.candidates, rounds) /\ c \in DOMAIN files.candidates
  BY DEF V5Inv, StoreOK, DatabaseOK, CountersOK, Answered
<1>2. paid.paid = db.paid \cup Rewarded(c, rs)
  BY <1>1
<1>3. DOMAIN files.candidates[c] = {"round", "hash", "trainers", "task", "status"}
  BY <1>1 DEF BookOK, CandidateOK
<1>4. ASSUME Rejects(w, c, rs, U)
      PROVE  /\ files'.contributions = files.contributions /\ db'.paid = db.paid
             /\ files'.candidates[c].status = "rejected"
  <2>1. files' = RejectRound(c) /\ db' \in {paid, db} /\ Decision(rs) = "loss"
    BY <1>4 DEF Rejects
  <2>2. Rewarded(c, rs) = {}
    BY <2>1 DEF Rewarded
  <2> HIDE DEF paid
  <2>3. db'.paid = db.paid
    BY <1>2, <2>1, <2>2
  <2>4. /\ files'.contributions = files.contributions
        /\ files'.candidates = [files.candidates EXCEPT ![c].status = "rejected"]
    BY <1>1, <2>1 DEF RejectRound, FileNames
  <2>5. files'.candidates[c].status = "rejected"
    BY <1>1, <1>3, <2>4
  <2> QED
    BY <2>3, <2>4, <2>5
<1>5. ASSUME Promotes(w, c, rs, U)
      PROVE  /\ files'.contributions = Append(files.contributions, Record(c, NodesOf(Consensus(rs))))
             /\ \/ db'.paid = db.paid \cup Rewards(c, NodesOf(Consensus(rs)))
                \/ db'.paid = db.paid /\ kills' # kills
             /\ files'.candidates[c].status = "promoted"
  <2>1. /\ Consensus(rs) # {} /\ Decision(rs) # "loss"
        /\ \/ db' = paid
           \/ db' = db /\ kills' = kills + 1
    BY <1>5 DEF Promotes
  <2>2. PICK f : <<f, files'>> = Promoted(c, NodesOf(Consensus(rs)))
    BY <1>5 DEF Promotes
  <2>3. /\ files'.contributions = Append(files.contributions, Record(c, NodesOf(Consensus(rs))))
        /\ files'.candidates = [files.candidates EXCEPT ![c].status = "promoted"]
    BY <1>1, <2>2, PromotedFiles
  <2>4. Decision(rs) = "gain"
    <3>1. (CHOOSE x \in Consensus(rs) : TRUE) \in Consensus(rs)
      BY <2>1
    <3>2. \A x \in Consensus(rs) : x.value \in Values(w)
      BY DEF Consensus, Reports, Answered
    <3>3. Decision(rs) \in Verdicts
      BY <3>1, <3>2 DEF Decision, Values
    <3> QED
      BY <2>1, <3>3 DEF Verdicts
  <2>5. Rewarded(c, rs) = Rewards(c, NodesOf(Consensus(rs)))
    BY <2>4 DEF Rewarded
  <2> HIDE DEF paid
  <2>6. \/ db'.paid = db.paid \cup Rewards(c, NodesOf(Consensus(rs)))
        \/ db'.paid = db.paid /\ kills' # kills
    BY <1>1, <1>2, <2>1, <2>5
  <2>7. files'.candidates[c].status = "promoted"
    BY <1>1, <1>3, <2>3
  <2> QED
    BY <2>3, <2>6, <2>7
<1> QED
  BY <1>1, <1>4, <1>5

(* What any verification comes to.                                           *)
LEMMA Verdict ==
  ASSUME V5Inv, NEW w \in DOMAIN db.work, NEW n \in Nodes, NEW v \in Verdicts,
         ReportVerification(n, w, v)
  PROVE  \E c, rs, U :
           /\ Answered(w, c, rs, U) /\ w[1] = "verification"
           /\ \/ files'.active = files.active /\ files'.contributions = files.contributions
                   /\ db'.paid = db.paid
              \/ Rejects(w, c, rs, U)
              \/ Promotes(w, c, rs, U)
<1> DEFINE c == w[2]
           rs == With(n, w, v)
           U == [db.work EXCEPT ![w].reports = rs]
           noted == [db EXCEPT !.work = U]
           model == [files EXCEPT !.checkpoint = Applied(c)]
<1>1. DOMAIN files = FileNames /\ DOMAIN db = {"work", "paid", "failed"}
  BY DEF V5Inv, StoreOK, DatabaseOK
<1>2. Answered(w, c, rs, U) /\ w[1] = "verification"
  BY VerificationFacts DEF ReportVerification
<1>3. \/ files' = files /\ db' \in {noted, db}
      \/ Rejects(w, c, rs, U)
      \/ Promotes(w, c, rs, U)
      \/ files' = model /\ db' = db
  BY <1>1, Outcomes
<1>4. /\ noted.paid = db.paid
      /\ model.active = files.active /\ model.contributions = files.contributions
  BY <1>1 DEF FileNames
<1> HIDE DEF U, rs, c, noted, model
<1>5. \/ files'.active = files.active /\ files'.contributions = files.contributions
           /\ db'.paid = db.paid
      \/ Rejects(w, c, rs, U)
      \/ Promotes(w, c, rs, U)
  BY <1>3, <1>4
<1> QED
  BY <1>2, <1>5, Zenon

(* Without a kill a round ends by the verification of its own candidate,     *)
(* whatever reports arrive late.                                             *)
THEOREM RoundsEndByTheirOwn == Spec => ClosesOwnRound
<1> DEFINE Step ==
      kills = 0 /\ kills' = 0 /\ files.active # Nothing /\ files'.active = Nothing =>
        \E c \in DOMAIN files.candidates :
          /\ files.candidates[c].round = files.active.id
          /\ files.candidates[c].status = "verification-quorum"
          /\ files'.candidates[c].status # "verification-quorum"
<1>1. V5Inv /\ [Next]_vars => Step
  <2> SUFFICES ASSUME V5Inv, [Next]_vars,
                      kills = 0, files.active # Nothing, files'.active = Nothing
               PROVE  \E c \in DOMAIN files.candidates :
                        /\ files.candidates[c].round = files.active.id
                        /\ files.candidates[c].status = "verification-quorum"
                        /\ files'.candidates[c].status # "verification-quorum"
    OBVIOUS
  <2>1. PICK w \in DOMAIN db.work, n \in Nodes, v \in Verdicts : ReportVerification(n, w, v)
    BY OnlyVerificationsDecide
  <2>2. PICK c, rs, U :
           /\ Answered(w, c, rs, U) /\ w[1] = "verification"
           /\ Rejects(w, c, rs, U) \/ Promotes(w, c, rs, U)
    BY <2>1, Verdict
  <2>3. c \in DOMAIN files.candidates /\ files'.candidates[c].status # "verification-quorum"
    BY <2>2, RejectedOrPromoted
  <2>4. /\ files.candidates[c].round = files.active.id
        /\ files.candidates[c].status = "verification-quorum"
    BY <2>2 DEF Answered
  <2> QED
    BY <2>3, <2>4
<1> QED
  BY <1>1, V5Invariant, PTL DEF Spec, ClosesOwnRound

(* Rewards and contributions go together, but for a kill.                    *)
THEOREM PromotionIsPaid == Spec => PaidWithPromotion
<1> DEFINE Step ==
      LET grown == Len(files'.contributions) > Len(files.contributions)
          new == Last(files'.contributions)
          owed == {files.candidates[new.candidate].task} \X new.trainers
                    \cup {Verify(new.candidate)} \X new.verifiers
      IN  /\ db'.paid # db.paid => grown /\ db'.paid = db.paid \cup owed
          /\ grown /\ kills' = kills => owed \subseteq db'.paid
<1>1. V5Inv /\ [Next]_vars => Step
  <2> SUFFICES ASSUME V5Inv, [Next]_vars PROVE Step
    OBVIOUS
  <2>1. files.contributions \in Seq(Contribution) /\ Len(files.contributions) \in Nat
    BY DEF V5Inv, StoreOK
  <2>2. ASSUME files'.contributions \in {files.contributions, << >>}, db'.paid = db.paid
        PROVE  Step
    <3>1. ~(Len(files'.contributions) > Len(files.contributions))
      BY <2>1, <2>2
    <3> QED
      BY <2>2, <3>1
  <2>3. CASE \E w \in DOMAIN db.work, n \in Nodes, v \in Verdicts : ReportVerification(n, w, v)
    <3>1. PICK w \in DOMAIN db.work, n \in Nodes, v \in Verdicts : ReportVerification(n, w, v)
      BY <2>3
    <3>2. PICK c, rs, U :
             /\ Answered(w, c, rs, U) /\ w[1] = "verification"
             /\ \/ files'.active = files.active /\ files'.contributions = files.contributions
                     /\ db'.paid = db.paid
                \/ Rejects(w, c, rs, U)
                \/ Promotes(w, c, rs, U)
      BY <3>1, Verdict
    <3>3. CASE Rejects(w, c, rs, U)
      BY <2>2, <3>2, <3>3, RejectedOrPromoted
    <3>4. CASE Promotes(w, c, rs, U)
      <4> DEFINE new == Record(c, NodesOf(Consensus(rs)))
                 owed == Rewards(c, NodesOf(Consensus(rs)))
      <4>1. /\ files'.contributions = Append(files.contributions, new)
            /\ db'.paid = db.paid \cup owed \/ (db'.paid = db.paid /\ kills' # kills)
        BY <3>2, <3>4, RejectedOrPromoted
      <4>2. /\ new.candidate = c /\ new.trainers = files.candidates[c].trainers
            /\ new.verifiers = NodesOf(Consensus(rs))
        BY DEF Record
      <4>3. owed = {files.candidates[new.candidate].task} \X new.trainers
                     \cup {Verify(new.candidate)} \X new.verifiers
        BY <4>2 DEF Rewards
      <4> HIDE DEF new, owed
      <4>4. /\ Last(files'.contributions) = new
            /\ Len(files'.contributions) > Len(files.contributions)
        BY <2>1, <4>1 DEF Last
      <4> QED
        BY <4>1, <4>3, <4>4
    <3> QED
      BY <2>2, <3>2, <3>3, <3>4
  <2> QED
    BY <2>2, <2>3, OnlyVerificationsDecide
<1> QED
  BY <1>1, V5Invariant, PTL DEF Spec, PaidWithPromotion
=============================================================================
