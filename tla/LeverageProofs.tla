--------------------------- MODULE LeverageProofs ---------------------------
(***************************************************************************)
(* Theorems about Leverage, for any contributors, manifests, batches,      *)
(* policy and number of failed writes and restarts.                        *)
(*                                                                         *)
(* A promotion is made before the canary batches and the replication have  *)
(* spoken, and undone by restoring its parent.  What a restart loads may   *)
(* be an older state: the invariant holds of it as of the memory.          *)
(*                                                                         *)
(* The ledger is a sum of what its candidates are owed, account by account: *)
(* sums first, then one action after the other as a transfer between the   *)
(* balances of one contributor under keys that no entry has yet.           *)
(***************************************************************************)
EXTENDS Leverage, FiniteSetTheorems, WellFoundedInduction, TLAPS

Labels == {m.label : m \in Manifests}

Has(C, s) == {m \in DOMAIN C : C[m].status = s}

(* The line r of canonical candidates: P promoted, Q passed, V vested ones, *)
(* k the one in its window.                                                *)
Line(P, Q, V, r, k) ==
  LET earned == P \cup Q \cup V
  IN  /\ earned \subseteq Manifests
      /\ IsFiniteSet(earned)
      /\ r \in Seq(Labels)
      /\ Cardinality(earned) = Len(r)
      /\ \A i \in 1..Len(r) : \E m \in earned : Root(m) = SubSeq(r, 1, i)
      /\ P = {k} \ {NoCandidate}
      /\ k # NoCandidate => Root(k) = r

StateOK(C, r, k, e) ==
  /\ DOMAIN C \subseteq Manifests
  /\ \A m \in DOMAIN C : "status" \in DOMAIN C[m]
  /\ Line(Has(C, "promoted"), Has(C, "canary-passed"), Has(C, "vested"), r, k)
  /\ "closed" \in DOMAIN e
  /\ ~e.closed => Has(C, "vested") = {}

LineInv == /\ StateOK(candidate, canonical, canary, epoch)
           /\ StateOK(saved[3], saved[4], saved[5], saved[2])

(***************************************************************************)
(* The line grows at its end, and loses its end again.                     *)
(***************************************************************************)
LEMMA RootOfManifest ==
  ASSUME NEW m \in Manifests
  PROVE  /\ m.parent \in Seq(Labels) /\ m.label \in Labels
         /\ Root(m) \in Seq(Labels) /\ Len(Root(m)) = Len(m.parent) + 1
         /\ \A i \in 0..Len(m.parent) : SubSeq(Root(m), 1, i) = SubSeq(m.parent, 1, i)
         /\ SubSeq(Root(m), 1, Len(m.parent) + 1) = Root(m)
<1>1. m.parent \in Seq(Labels) /\ m.label \in Labels
  BY ManifestAssumption DEF Labels
<1>2. Root(m) \in Seq(Labels) /\ Len(Root(m)) = Len(m.parent) + 1
  BY <1>1 DEF Root
<1>3. \A i \in 0..Len(m.parent) : SubSeq(Root(m), 1, i) = SubSeq(m.parent, 1, i)
  BY <1>1 DEF Root
<1>4. SubSeq(Root(m), 1, Len(m.parent) + 1) = Root(m)
  BY <1>1, <1>2 DEF Root
<1> QED
  BY <1>1, <1>2, <1>3, <1>4

LEMMA LineGrows ==
  ASSUME NEW P, NEW Q, NEW V, NEW r, Line(P, Q, V, r, NoCandidate),
         NEW m \in Manifests, m.parent = r, m \notin P \cup Q \cup V
  PROVE  Line({m}, Q, V, Root(m), m)
<1> DEFINE earned == P \cup Q \cup V
           grown == {m} \cup Q \cup V
<1>1. P = {} /\ grown = earned \cup {m} /\ m \notin earned /\ m # NoCandidate
  BY ManifestAssumption DEF Line
<1>2. /\ earned \subseteq Manifests /\ IsFiniteSet(earned) /\ r \in Seq(Labels)
      /\ Cardinality(earned) = Len(r)
      /\ \A i \in 1..Len(r) : \E n \in earned : Root(n) = SubSeq(r, 1, i)
  BY DEF Line
<1>3. IsFiniteSet(grown) /\ Cardinality(grown) = Len(Root(m))
  <2> HIDE DEF earned, grown
  <2>1. IsFiniteSet(earned \cup {m}) /\ Cardinality(earned \cup {m}) = Cardinality(earned) + 1
    BY <1>1, <1>2, FS_AddElement
  <2> QED
    BY <1>1, <1>2, <2>1, RootOfManifest
<1>4. ASSUME NEW i \in 1..Len(Root(m))
      PROVE  \E n \in grown : Root(n) = SubSeq(Root(m), 1, i)
  <2>1. CASE i = Len(r) + 1
    BY <1>1, <2>1, RootOfManifest
  <2>2. CASE i # Len(r) + 1
    <3>1. i \in 1..Len(r)
      BY <1>2, <2>2, RootOfManifest
    <3>2. SubSeq(Root(m), 1, i) = SubSeq(r, 1, i)
      BY <1>2, <3>1, RootOfManifest
    <3> QED
      BY <1>1, <1>2, <3>1, <3>2
  <2> QED
    BY <2>1, <2>2
<1>5. grown \subseteq Manifests /\ {m} = {m} \ {NoCandidate} /\ Root(m) \in Seq(Labels)
  BY <1>1, <1>2, RootOfManifest
<1> QED
  BY <1>3, <1>4, <1>5 DEF Line

LEMMA LineShrinks ==
  ASSUME NEW P, NEW Q, NEW V, NEW r, NEW k, Line(P, Q, V, r, k),
         k # NoCandidate, k \notin Q \cup V
  PROVE  Line({}, Q, V, k.parent, NoCandidate)
<1> DEFINE earned == P \cup Q \cup V
           left == {} \cup Q \cup V
<1>1. P = {k} /\ Root(k) = r /\ k \in Manifests /\ left = earned \ {k} /\ k \in earned
  BY DEF Line
<1>2. /\ earned \subseteq Manifests /\ IsFiniteSet(earned)
      /\ Cardinality(earned) = Len(r)
      /\ \A i \in 1..Len(r) : \E n \in earned : Root(n) = SubSeq(r, 1, i)
  BY DEF Line
<1>3. k.parent \in Seq(Labels) /\ Len(r) = Len(k.parent) + 1
  BY <1>1, RootOfManifest
<1>4. IsFiniteSet(left) /\ Cardinality(left) = Len(k.parent)
  <2> HIDE DEF earned, left
  <2>1. IsFiniteSet(earned \ {k}) /\ Cardinality(earned \ {k}) = Cardinality(earned) - 1
    BY <1>1, <1>2, FS_RemoveElement
  <2> QED
    BY <1>1, <1>2, <1>3, <2>1
<1>5. ASSUME NEW i \in 1..Len(k.parent)
      PROVE  \E n \in left : Root(n) = SubSeq(k.parent, 1, i)
  <2>1. i \in 1..Len(r) /\ i < Len(r)
    BY <1>3
  <2>2. PICK n \in earned : Root(n) = SubSeq(r, 1, i)
    BY <1>2, <2>1
  <2>3. SubSeq(r, 1, i) = SubSeq(k.parent, 1, i)
    BY <1>1, <1>3, RootOfManifest
  <2>4. Len(SubSeq(k.parent, 1, i)) = i
    BY <1>3
  <2>5. n # k
    BY <1>1, <2>1, <2>2, <2>3, <2>4
  <2> QED
    BY <1>1, <2>2, <2>3, <2>5
<1>6. left \subseteq Manifests /\ {} = {NoCandidate} \ {NoCandidate}
  BY <1>1, <1>2
<1> QED
  BY <1>3, <1>4, <1>5, <1>6 DEF Line

LEMMA EmptyLine == Line({}, {}, {}, Genesis, NoCandidate)
<1>1. IsFiniteSet({}) /\ Cardinality({}) = 0
  BY FS_EmptySet
<1>2. {} \cup {} \cup {} = {} /\ {} = {NoCandidate} \ {NoCandidate}
  OBVIOUS
<1>3. Genesis \in Seq(Labels) /\ Len(Genesis) = 0
  BY DEF Genesis
<1> QED
  BY <1>1, <1>2, <1>3 DEF Line

(***************************************************************************)
(* The actions, as changes of the candidates.                              *)
(***************************************************************************)

(* Records of candidates that are not in the line, and other fields.        *)
LEMMA SameStanding ==
  ASSUME NEW C, NEW r, NEW k, NEW e, StateOK(C, r, k, e), NEW D, NEW f,
         DOMAIN D \subseteq Manifests, \A m \in DOMAIN D : "status" \in DOMAIN D[m],
         \A s \in Live \cup {"vested"} : Has(D, s) = Has(C, s),
         "closed" \in DOMAIN f, f.closed = e.closed
  PROVE  StateOK(D, r, k, f)
<1>1. /\ Has(D, "promoted") = Has(C, "promoted")
      /\ Has(D, "canary-passed") = Has(C, "canary-passed")
      /\ Has(D, "vested") = Has(C, "vested")
  BY DEF Live
<1> QED
  BY <1>1 DEF StateOK

(* A record is written, or removed, of a manifest with no standing.         *)
LEMMA RecordWritten ==
  ASSUME LineInv, NEW m \in Manifests, Current(m), NEW r,
         r.status \in {"stale", "rejected"}, "status" \in DOMAIN r
  PROVE  /\ DOMAIN With(m, r) \subseteq Manifests
         /\ \A n \in DOMAIN With(m, r) : "status" \in DOMAIN With(m, r)[n]
         /\ \A s \in Live \cup {"vested"} : Has(With(m, r), s) = Has(candidate, s)
<1>1. /\ DOMAIN candidate \subseteq Manifests
      /\ \A n \in DOMAIN candidate : "status" \in DOMAIN candidate[n]
  BY DEF LineInv, StateOK
<1>2. m \in DOMAIN candidate => candidate[m].status = "stale"
  BY DEF Current
<1> QED
  BY <1>1, <1>2 DEF With, Has, Live

LEMMA RecordRemoved ==
  ASSUME LineInv, NEW m \in Manifests, Current(m)
  PROVE  /\ DOMAIN Without(m) \subseteq Manifests
         /\ \A n \in DOMAIN Without(m) : "status" \in DOMAIN Without(m)[n]
         /\ \A s \in Live \cup {"vested"} : Has(Without(m), s) = Has(candidate, s)
<1>1. /\ DOMAIN candidate \subseteq Manifests
      /\ \A n \in DOMAIN candidate : "status" \in DOMAIN candidate[n]
  BY DEF LineInv, StateOK
<1>2. m \in DOMAIN candidate => candidate[m].status = "stale"
  BY DEF Current
<1> QED
  BY <1>1, <1>2 DEF Without, Has, Live

LEMMA Records ==
  ASSUME NEW s, NEW b, NEW w
  PROVE  CandidateRecord(s, b, w).status = s /\ "status" \in DOMAIN CandidateRecord(s, b, w)
  BY DEF CandidateRecord

LEMMA SubmitLine ==
  ASSUME LineInv, NEW m \in Manifests, Submit(m)
  PROVE  StateOK(candidate', canonical', canary', epoch')
<1>0. StateOK(candidate, canonical, canary, epoch)
  BY DEF LineInv
<1>1. "closed" \in DOMAIN epoch
  BY <1>0 DEF StateOK
<1>2. CASE Defer(m)
  <2>1. /\ Current(m) /\ candidate' = Without(m)
        /\ canonical' = canonical /\ canary' = canary /\ epoch' = epoch
    BY <1>2 DEF Defer
  <2> QED
    BY <1>0, <1>1, <2>1, RecordRemoved, SameStanding
<1>3. CASE SubmitStale(m) \/ SubmitExhausted(m) \/ SubmitRejected(m)
  <2>1. Current(m) /\ canonical' = canonical /\ canary' = canary
    BY <1>3 DEF SubmitStale, SubmitExhausted, SubmitRejected, Evaluable
  <2>2. \E r : /\ candidate' = With(m, r)
              /\ r.status \in {"stale", "rejected"} /\ "status" \in DOMAIN r
    BY <1>3, Records DEF SubmitStale, SubmitExhausted, SubmitRejected
  <2>3. "closed" \in DOMAIN epoch' /\ epoch'.closed = epoch.closed
    BY <1>1, <1>3 DEF SubmitStale, SubmitExhausted, SubmitRejected, Admit
  <2>4. /\ DOMAIN candidate' \subseteq Manifests
        /\ \A n \in DOMAIN candidate' : "status" \in DOMAIN candidate'[n]
        /\ \A s \in Live \cup {"vested"} : Has(candidate', s) = Has(candidate, s)
    BY <2>1, <2>2, RecordWritten
  <2> QED
    BY <1>0, <2>1, <2>3, <2>4, SameStanding
<1>4. CASE SubmitPromoted(m)
  <2>1. /\ Current(m) /\ canary = NoCandidate /\ m.parent = canonical
        /\ candidate' = With(m, CandidateRecord("promoted", BondUnits, RewardUnits))
        /\ canonical' = Root(m) /\ canary' = m
        /\ epoch' = Admit(m)
    BY <1>4 DEF SubmitPromoted, Evaluable
  <2>2. m \in DOMAIN candidate => candidate[m].status = "stale"
    BY <2>1 DEF Current
  <2>3. /\ DOMAIN candidate \subseteq Manifests
        /\ \A n \in DOMAIN candidate : "status" \in DOMAIN candidate[n]
        /\ Line(Has(candidate, "promoted"), Has(candidate, "canary-passed"),
                Has(candidate, "vested"), canonical, NoCandidate)
        /\ ~epoch.closed => Has(candidate, "vested") = {}
    BY <1>0, <2>1 DEF StateOK
  <2>4. /\ DOMAIN candidate' \subseteq Manifests
        /\ \A n \in DOMAIN candidate' : "status" \in DOMAIN candidate'[n]
        /\ Has(candidate', "promoted") = Has(candidate, "promoted") \cup {m}
        /\ Has(candidate', "canary-passed") = Has(candidate, "canary-passed")
        /\ Has(candidate', "vested") = Has(candidate, "vested")
    BY <2>1, <2>2, <2>3, Records DEF With, Has
  <2>5. Has(candidate, "promoted") = {}
    BY <2>3 DEF Line
  <2>6. m \notin Has(candidate, "promoted") \cup Has(candidate, "canary-passed")
                   \cup Has(candidate, "vested")
    BY <2>2 DEF Has
  <2>7. Line(Has(candidate', "promoted"), Has(candidate', "canary-passed"),
             Has(candidate', "vested"), canonical', canary')
    BY <2>1, <2>3, <2>4, <2>5, <2>6, LineGrows
  <2>8. "closed" \in DOMAIN epoch' /\ epoch'.closed = epoch.closed
    BY <1>1, <2>1 DEF Admit
  <2> QED
    BY <2>3, <2>4, <2>7, <2>8 DEF StateOK
<1> QED
  BY <1>2, <1>3, <1>4 DEF Submit

LEMMA CanaryLine ==
  ASSUME LineInv, NEW b, RecordCanaryBatch(b)
  PROVE  StateOK(candidate', canonical', canary', epoch')
<1>1. /\ canary # NoCandidate /\ candidate[canary].status = "promoted"
      /\ epoch' = epoch
  BY DEF RecordCanaryBatch, CanaryPending, CanaryPassed, CanaryRevoked, InWindow
<1>2. /\ StateOK(candidate, canonical, canary, epoch)
      /\ DOMAIN candidate \subseteq Manifests
      /\ \A m \in DOMAIN candidate : "status" \in DOMAIN candidate[m]
      /\ "closed" \in DOMAIN epoch
      /\ ~epoch.closed => Has(candidate, "vested") = {}
      /\ Line(Has(candidate, "promoted"), Has(candidate, "canary-passed"),
              Has(candidate, "vested"), canonical, canary)
  BY DEF LineInv, StateOK
<1>3. Has(candidate, "promoted") = {canary} /\ canary \in DOMAIN candidate
  <2>1. Has(candidate, "promoted") = {canary}
    BY <1>1, <1>2 DEF Line
  <2> QED
    BY <2>1 DEF Has
<1>4. /\ DOMAIN Observed(b) = DOMAIN candidate
      /\ \A m \in DOMAIN candidate : /\ Observed(b)[m].status = candidate[m].status
                                     /\ "status" \in DOMAIN Observed(b)[m]
  BY <1>1, <1>2, <1>3 DEF Observed
<1>5. CASE CanaryPending(b)
  <2>1. candidate' = Observed(b) /\ canonical' = canonical /\ canary' = canary
    BY <1>5 DEF CanaryPending
  <2>2. \A s : Has(candidate', s) = Has(candidate, s)
    BY <1>4, <2>1 DEF Has
  <2> QED
    BY <1>1, <1>2, <1>4, <2>1, <2>2, SameStanding
<1>6. ASSUME NEW s, s \in {"canary-passed", "revoked"},
             candidate' = [Observed(b) EXCEPT ![canary].status = s]
      PROVE  /\ DOMAIN candidate' = DOMAIN candidate
             /\ \A m \in DOMAIN candidate : "status" \in DOMAIN candidate'[m]
             /\ Has(candidate', "promoted") = {}
             /\ Has(candidate', "canary-passed") =
                  IF s = "revoked" THEN Has(candidate, "canary-passed")
                                   ELSE Has(candidate, "canary-passed") \cup {canary}
             /\ Has(candidate', "vested") = Has(candidate, "vested")
  <2>1. /\ DOMAIN candidate' = DOMAIN candidate
        /\ \A m \in DOMAIN candidate \ {canary} : candidate'[m].status = candidate[m].status
        /\ \A m \in DOMAIN candidate : "status" \in DOMAIN candidate'[m]
    BY <1>4, <1>6
  <2>2. candidate'[canary].status = s
    BY <1>3, <1>4, <1>6
  <2> QED
    BY <1>1, <1>3, <1>6, <2>1, <2>2 DEF Has
<1>7. CASE CanaryPassed(b)
  <2>1. /\ candidate' = [Observed(b) EXCEPT ![canary].status = "canary-passed"]
        /\ canonical' = canonical /\ canary' = NoCandidate
    BY <1>7 DEF CanaryPassed
  <2>2. /\ Has(candidate', "promoted") = {}
        /\ Has(candidate', "canary-passed") = Has(candidate, "canary-passed") \cup {canary}
        /\ Has(candidate', "vested") = Has(candidate, "vested")
        /\ DOMAIN candidate' = DOMAIN candidate
        /\ \A m \in DOMAIN candidate : "status" \in DOMAIN candidate'[m]
    BY <1>6, <2>1
  <2>3. Line(Has(candidate', "promoted"), Has(candidate', "canary-passed"),
             Has(candidate', "vested"), canonical', canary')
    <3>1. Has(candidate', "promoted") \cup Has(candidate', "canary-passed") \cup Has(candidate', "vested")
            = Has(candidate, "promoted") \cup Has(candidate, "canary-passed") \cup Has(candidate, "vested")
      BY <1>3, <2>2
    <3> QED
      BY <1>2, <2>1, <2>2, <3>1 DEF Line
  <2> QED
    BY <1>1, <1>2, <2>2, <2>3 DEF StateOK
<1>8. CASE CanaryRevoked(b)
  <2>1. /\ candidate' = [Observed(b) EXCEPT ![canary].status = "revoked"]
        /\ canonical' = canary.parent /\ canary' = NoCandidate
    BY <1>8 DEF CanaryRevoked
  <2>2. /\ Has(candidate', "promoted") = {}
        /\ Has(candidate', "canary-passed") = Has(candidate, "canary-passed")
        /\ Has(candidate', "vested") = Has(candidate, "vested")
        /\ DOMAIN candidate' = DOMAIN candidate
        /\ \A m \in DOMAIN candidate : "status" \in DOMAIN candidate'[m]
    BY <1>6, <2>1
  <2>3. canary \notin Has(candidate, "canary-passed") \cup Has(candidate, "vested")
    BY <1>1 DEF Has
  <2>4. Line({}, Has(candidate, "canary-passed"), Has(candidate, "vested"), canary.parent, NoCandidate)
    BY <1>1, <1>2, <2>3, LineShrinks
  <2> QED
    BY <1>1, <1>2, <2>1, <2>2, <2>4 DEF StateOK
<1> QED
  BY <1>5, <1>7, <1>8 DEF RecordCanaryBatch

LEMMA CloseLine ==
  ASSUME LineInv, NEW passed \in BOOLEAN, CloseEpoch(passed)
  PROVE  StateOK(candidate', canonical', canary', epoch')
<1> DEFINE status == IF passed THEN "vested" ELSE "replication-rejected"
<1>1. /\ ~epoch.closed /\ canary = NoCandidate /\ canary' = canary
      /\ candidate' = Settled(status)
      /\ canonical' = IF passed THEN canonical ELSE Genesis
      /\ epoch' = [epoch EXCEPT !.closed = TRUE]
  BY DEF CloseEpoch, MayClose
<1>2. /\ DOMAIN candidate \subseteq Manifests
      /\ \A m \in DOMAIN candidate : "status" \in DOMAIN candidate[m]
      /\ "closed" \in DOMAIN epoch
      /\ Has(candidate, "vested") = {}
      /\ Line(Has(candidate, "promoted"), Has(candidate, "canary-passed"), {}, canonical, NoCandidate)
  BY <1>1 DEF LineInv, StateOK
<1>3. Has(candidate, "promoted") = {}
  BY <1>2 DEF Line
<1>4. "closed" \in DOMAIN epoch' /\ epoch'.closed = TRUE
  BY <1>1, <1>2
<1>5. /\ DOMAIN candidate' = DOMAIN candidate
      /\ \A m \in DOMAIN candidate :
           /\ "status" \in DOMAIN candidate'[m]
           /\ candidate'[m].status = IF candidate[m].status = "canary-passed"
                                       THEN status ELSE candidate[m].status
  BY <1>1, <1>2 DEF Settled, Eligible
<1>6. CASE passed
  <2>1. /\ Has(candidate', "promoted") = {}
        /\ Has(candidate', "canary-passed") = {}
        /\ Has(candidate', "vested") = Has(candidate, "canary-passed")
    BY <1>2, <1>3, <1>5, <1>6 DEF Has
  <2>2. {} \cup Has(candidate, "canary-passed") \cup {} = {} \cup {} \cup Has(candidate, "canary-passed")
    OBVIOUS
  <2>3. Line({}, {}, Has(candidate, "canary-passed"), canonical, NoCandidate)
    BY <1>2, <1>3, <2>2 DEF Line
  <2> QED
    BY <1>1, <1>2, <1>4, <1>5, <1>6, <2>1, <2>3 DEF StateOK
<1>7. CASE ~passed
  <2>1. /\ Has(candidate', "promoted") = {}
        /\ Has(candidate', "canary-passed") = {}
        /\ Has(candidate', "vested") = {}
    BY <1>2, <1>3, <1>5, <1>7 DEF Has
  <2> QED
    BY <1>1, <1>2, <1>4, <1>5, <1>7, <2>1, EmptyLine DEF StateOK
<1> QED
  BY <1>6, <1>7

(* What ends in a save leaves the file as good as the memory.               *)
LEMMA PersistLine ==
  ASSUME LineInv, StateOK(candidate', canonical', canary', epoch'), Persist
  PROVE  LineInv'
<1>1. CASE saved' = service'
  BY <1>1 DEF service, LineInv
<1>2. CASE saved' = saved
  BY <1>2 DEF LineInv
<1> QED
  BY <1>1, <1>2 DEF Persist

LEMMA LineInit == Init => LineInv
<1> SUFFICES ASSUME Init PROVE LineInv
  OBVIOUS
<1>1. /\ candidate = << >> /\ canonical = Genesis /\ canary = NoCandidate
      /\ "closed" \in DOMAIN epoch
      /\ saved = <<ledger, epoch, candidate, canonical, canary, principal>>
  BY DEF Init, service
<1>2. DOMAIN candidate = {} /\ \A s : Has(candidate, s) = {}
  BY <1>1 DEF Has
<1>3. StateOK(candidate, canonical, canary, epoch)
  BY <1>1, <1>2, EmptyLine DEF StateOK
<1> QED
  BY <1>1, <1>3 DEF LineInv

LEMMA LineStep ==
  ASSUME LineInv, [Next]_vars
  PROVE  LineInv'
<1>0. StateOK(candidate, canonical, canary, epoch)
  BY DEF LineInv
<1>1. CASE RegisterContributor
  BY <1>1 DEF RegisterContributor, service, LineInv
<1>2. CASE Restart
  BY <1>2 DEF Restart, LineInv
<1>3. ASSUME NEW c, NEW p, FundContributor(c, p) PROVE LineInv'
  <2>1. StateOK(candidate', canonical', canary', epoch')
    BY <1>0, <1>3 DEF FundContributor
  <2> QED
    BY <1>3, <2>1, PersistLine DEF FundContributor
<1>4. ASSUME NEW m \in Manifests, Submit(m) PROVE LineInv'
  <2>1. Persist
    BY <1>4 DEF Submit, Defer, SubmitStale, SubmitExhausted, SubmitRejected, SubmitPromoted
  <2> QED
    BY <1>4, <2>1, SubmitLine, PersistLine
<1>5. ASSUME NEW b, RecordCanaryBatch(b) PROVE LineInv'
  <2>1. Persist
    BY <1>5 DEF RecordCanaryBatch, CanaryPending, CanaryPassed, CanaryRevoked
  <2> QED
    BY <1>5, <2>1, CanaryLine, PersistLine
<1>6. ASSUME NEW passed \in BOOLEAN, CloseEpoch(passed) PROVE LineInv'
  BY <1>6, CloseLine, PersistLine DEF CloseEpoch
<1>7. CASE RevealEpoch
  <2>1. "closed" \in DOMAIN epoch' /\ epoch'.closed = epoch.closed
    BY <1>0, <1>7 DEF RevealEpoch, StateOK
  <2>2. StateOK(candidate', canonical', canary', epoch')
    BY <1>0, <1>7, <2>1 DEF RevealEpoch, StateOK
  <2> QED
    BY <1>7, <2>2, PersistLine DEF RevealEpoch
<1>8. CASE UNCHANGED vars
  BY <1>8 DEF vars, service, LineInv
<1> QED
  BY <1>1, <1>2, <1>3, <1>4, <1>5, <1>6, <1>7, <1>8 DEF Next

(* Whatever is submitted, revoked, settled, written or not, and reloaded, the *)
(* canonical model consists of the candidates in good standing, in order.    *)
THEOREM LineageStaysEarned == Spec => []LineageIsEarned
<1>1. LineInv => LineageIsEarned
  <2> SUFFICES ASSUME LineInv PROVE LineageIsEarned
    OBVIOUS
  <2>1. /\ Standing(Live \cup {"vested"}) =
             Has(candidate, "promoted") \cup Has(candidate, "canary-passed")
               \cup Has(candidate, "vested")
        /\ Standing({"promoted"}) = Has(candidate, "promoted")
    BY DEF Standing, Has, Live
  <2>2. Line(Has(candidate, "promoted"), Has(candidate, "canary-passed"),
             Has(candidate, "vested"), canonical, canary)
    BY DEF LineInv, StateOK
  <2>3. DOMAIN canonical = 1..Len(canonical)
    BY <2>2 DEF Line
  <2> QED
    BY <2>1, <2>2, <2>3 DEF Line, LineageIsEarned
<1>2. LineInv /\ [Next]_vars => LineInv'
  BY LineStep
<1> QED
  BY LineInit, <1>1, <1>2, PTL DEF Spec

(***************************************************************************)
(* Verdicts.                                                               *)
(***************************************************************************)

(* As long as no write has failed, a restart loads what memory was.         *)
SavedInv == failures \in Nat /\ (failures = 0 => saved = service)

LEMMA SavedStep ==
  ASSUME SavedInv, [Next]_vars
  PROVE  SavedInv'
<1>1. CASE Persist
  BY <1>1 DEF Persist, SavedInv
<1>2. CASE RegisterContributor \/ UNCHANGED vars
  BY <1>2 DEF RegisterContributor, vars, service, SavedInv
<1>3. CASE Restart
  BY <1>3 DEF Restart, service, SavedInv
<1>4. ASSUME ~RegisterContributor, ~Restart, Next PROVE Persist
  BY <1>4 DEF Next, FundContributor, Submit, Defer, SubmitStale, SubmitExhausted,
     SubmitRejected, SubmitPromoted, RecordCanaryBatch, CanaryPending, CanaryPassed,
     CanaryRevoked, CloseEpoch, RevealEpoch
<1> QED
  BY <1>1, <1>2, <1>3, <1>4

(* The verdicts against a candidate.                                        *)
Against == {"rejected", "revoked", "replication-rejected"}

Stand == \A m \in Standing(Against) :
           m \in DOMAIN candidate' /\ candidate'[m].status = candidate[m].status

LEMMA StandStep ==
  ASSUME LineInv, SavedInv, failures = 0, [Next]_vars
  PROVE  Stand
<1>1. CASE candidate' = candidate
  BY <1>1 DEF Stand, Standing
<1>2. CASE RegisterContributor \/ RevealEpoch \/ UNCHANGED vars
  BY <1>1, <1>2 DEF RegisterContributor, RevealEpoch, vars, service
<1>3. CASE Restart
  BY <1>1, <1>3 DEF Restart, SavedInv, service
<1>4. ASSUME NEW c, NEW p, FundContributor(c, p) PROVE Stand
  BY <1>1, <1>4 DEF FundContributor
<1>5. ASSUME NEW m \in Manifests, Submit(m) PROVE Stand
  <2>1. Current(m) /\ (candidate' = Without(m) \/ \E r : candidate' = With(m, r))
    BY <1>5 DEF Submit, Defer, SubmitStale, SubmitExhausted, SubmitRejected, SubmitPromoted,
       Evaluable
  <2>2. m \notin Standing(Against)
    BY <2>1 DEF Current, Standing, Against
  <2> QED
    BY <2>1, <2>2 DEF Stand, Standing, With, Without
<1>6. ASSUME NEW b, RecordCanaryBatch(b) PROVE Stand
  <2>1. canary \notin Standing(Against)
    BY <1>6 DEF RecordCanaryBatch, CanaryPending, CanaryPassed, CanaryRevoked, InWindow,
       Standing, Against
  <2>2. /\ DOMAIN candidate' = DOMAIN candidate
        /\ \A m \in DOMAIN candidate \ {canary} : candidate'[m] = candidate[m]
    BY <1>6 DEF RecordCanaryBatch, CanaryPending, CanaryPassed, CanaryRevoked, Observed
  <2> QED
    BY <2>1, <2>2 DEF Stand, Standing
<1>7. ASSUME NEW passed, CloseEpoch(passed) PROVE Stand
  BY <1>7 DEF CloseEpoch, Settled, Eligible, Stand, Standing, Against
<1> QED
  BY <1>2, <1>3, <1>4, <1>5, <1>6, <1>7 DEF Next

(* A verdict against a candidate survives every request and every restart   *)
(* until a write of the state file fails.                                  *)
THEOREM VerdictsLast == Spec => VerdictsStand
<1> DEFINE A == failures = 0 =>
                  \A m \in Standing({"rejected", "revoked", "replication-rejected"}) :
                    m \in DOMAIN candidate' /\ candidate'[m].status = candidate[m].status
<1>1. LineInv /\ [Next]_vars => LineInv'
  BY LineStep
<1>2. SavedInv /\ [Next]_vars => SavedInv'
  BY SavedStep
<1>3. Init => SavedInv
  BY DEF Init, SavedInv
<1>4. LineInv /\ SavedInv /\ [Next]_vars => [A]_vars
  BY StandStep DEF Stand, Against
<1> QED
  BY LineInit, <1>1, <1>2, <1>3, <1>4, PTL DEF Spec, VerdictsStand

-----------------------------------------------------------------------------
(***************************************************************************)
(* Folds.  The induction is of a set of numbers, which needs no operator   *)
(* as a parameter: were a number missing, one would be the least.          *)
(***************************************************************************)
LEMMA Numbers ==
  ASSUME NEW A, 0 \in A, \A n \in Nat : n \in A => n + 1 \in A
  PROVE  Nat \subseteq A
<1> SUFFICES ASSUME Nat \ A # {} PROVE FALSE
  OBVIOUS
<1> DEFINE less == OpToRel(<, Nat)
           missing == Nat \ A
<1>1. PICK x \in missing : \A y \in missing : <<y, x>> \notin less
  <2> HIDE DEF less
  <2>1. IsWellFoundedOn(less, Nat)
    BY NatLessThanWellFounded DEF less
  <2> QED
    BY <2>1, WFMin
<1>2. x \in Nat /\ x # 0 /\ x - 1 \in Nat
  OBVIOUS
<1>3. <<x - 1, x>> \in less
  BY <1>2 DEF OpToRel
<1>4. x - 1 \in A
  BY <1>1, <1>2, <1>3
<1> QED
  BY <1>2, <1>4

(* The element a fold takes next.                                           *)
Pick(s) == CHOOSE x \in s : TRUE

(* What is left of a set without its picked element is smaller.             *)
LEMMA Smaller ==
  ASSUME NEW s, IsFiniteSet(s), s # {}
  PROVE  /\ Pick(s) \in s /\ IsFiniteSet(s \ {Pick(s)})
         /\ Cardinality(s) \in Nat /\ Cardinality(s \ {Pick(s)}) \in Nat
         /\ Cardinality(s \ {Pick(s)}) = Cardinality(s) - 1
<1>1. Pick(s) \in s
  BY DEF Pick
<1>2. IsFiniteSet(s \ {Pick(s)}) /\ Cardinality(s \ {Pick(s)}) = Cardinality(s) - 1
  BY <1>1, FS_RemoveElement
<1> QED
  BY <1>1, <1>2, FS_CardinalityType

(* A fold is defined: there is a function of the subsets of a finite set     *)
(* that takes one element after the other.                                   *)
Steps(S, T, base, F) == base \in T /\ F \in [S \X T -> T]

IsFold(g, S, T, base, F) ==
  /\ g \in [SUBSET S -> T]
  /\ \A s \in SUBSET S : g[s] = IF s = {} THEN base ELSE F[<<Pick(s), g[s \ {Pick(s)}]>>]

LEMMA FoldExists ==
  ASSUME NEW S, IsFiniteSet(S), NEW T, NEW base, NEW F, Steps(S, T, base, F)
  PROVE  \E g : IsFold(g, S, T, base, F)
<1>0. base \in T /\ F \in [S \X T -> T]
  BY DEF Steps
<1> DEFINE upto(n) == {s \in SUBSET S : Cardinality(s) <= n}
           next(g, s) == IF s = {} THEN base ELSE F[<<Pick(s), g[s \ {Pick(s)}]>>]
           A == {n \in Nat : \E g \in [upto(n) -> T] : \A s \in upto(n) : g[s] = next(g, s)}
<1>1. \A s \in SUBSET S : IsFiniteSet(s) /\ Cardinality(s) \in Nat
  BY FS_Subset, FS_CardinalityType
<1>2. \A s \in SUBSET S : s # {} => /\ Pick(s) \in S /\ s \ {Pick(s)} \in SUBSET S
                                    /\ Cardinality(s \ {Pick(s)}) = Cardinality(s) - 1
  BY <1>1, Smaller
<1>3. 0 \in A
  <2>1. \A s \in upto(0) : s = {}
    BY <1>1, FS_EmptySet
  <2> DEFINE g == [s \in upto(0) |-> base]
  <2>2. g \in [upto(0) -> T] /\ \A s \in upto(0) : g[s] = next(g, s)
    BY <1>0, <2>1
  <2> QED
    BY <2>2
<1>4. ASSUME NEW n \in Nat, n \in A PROVE n + 1 \in A
  <2>1. PICK g \in [upto(n) -> T] : \A s \in upto(n) : g[s] = next(g, s)
    BY <1>4
  <2> DEFINE h == [s \in upto(n + 1) |-> next(g, s)]
  <2>2. \A s \in upto(n + 1) : s # {} => s \ {Pick(s)} \in upto(n)
    BY <1>1, <1>2
  <2>3. \A s \in upto(n + 1) : next(g, s) \in T
    BY <1>0, <1>2, <2>2
  <2>4. h \in [upto(n + 1) -> T]
    BY <2>3
  <2>5. \A s \in upto(n) : s \in upto(n + 1) /\ h[s] = g[s]
    BY <1>1, <2>1
  <2>6. \A s \in upto(n + 1) : h[s] = next(h, s)
    <3> HIDE DEF upto
    <3> QED
      BY <2>2, <2>5
  <2> HIDE DEF h
  <2>7. \E f \in [upto(n + 1) -> T] : \A s \in upto(n + 1) : f[s] = next(f, s)
    BY <2>4, <2>6
  <2> HIDE DEF upto, next
  <2> QED
    BY <2>7
<1>5. Nat \subseteq A
  <2> HIDE DEF A
  <2> QED
    BY <1>3, <1>4, Numbers
<1>6. Cardinality(S) \in A
  BY <1>1, <1>5
<1>7. PICK g \in [upto(Cardinality(S)) -> T] :
        \A s \in upto(Cardinality(S)) : g[s] = next(g, s)
  BY <1>6
<1>8. upto(Cardinality(S)) = SUBSET S
  BY FS_Subset
<1> QED
  BY <1>7, <1>8 DEF IsFold

(* Induction over the subsets of a finite set.                              *)
LEMMA Subsets ==
  ASSUME NEW S, IsFiniteSet(S), NEW A,
         \A s \in SUBSET S : (\A x \in s : s \ {x} \in A) => s \in A
  PROVE  S \in A
<1> DEFINE N == {n \in Nat : \A s \in SUBSET S : Cardinality(s) = n => s \in A}
<1>1. \A s \in SUBSET S : /\ IsFiniteSet(s) /\ Cardinality(s) \in Nat
                           /\ \A x \in s : /\ s \ {x} \in SUBSET S
                                           /\ Cardinality(s \ {x}) = Cardinality(s) - 1
  BY FS_Subset, FS_CardinalityType, FS_RemoveElement
<1>2. 0 \in N
  BY <1>1, FS_EmptySet
<1>3. ASSUME NEW n \in Nat, n \in N PROVE n + 1 \in N
  BY <1>1, <1>3
<1>4. Nat \subseteq N
  <2> HIDE DEF N
  <2> QED
    BY <1>2, <1>3, Numbers
<1> QED
  BY <1>1, <1>4

-----------------------------------------------------------------------------
(* Sums of a function's values over a set; and the function of the subsets  *)
(* that the fold computes.                                                  *)
SumOver(f, S) == MapThenSumSet(LAMBDA x : f[x], S)

Sums(g, f, S) ==
  \A s \in SUBSET S : g[s] = IF s = {} THEN 0 ELSE f[Pick(s)] + g[s \ {Pick(s)}]

LEMMA SumIsFold ==
  ASSUME NEW S, IsFiniteSet(S), NEW f, \A x \in S : f[x] \in Nat
  PROVE  \E g \in [SUBSET S -> Nat] : Sums(g, f, S) /\ SumOver(f, S) = g[S]
<1> DEFINE next(g, s) == IF s = {} THEN 0 ELSE f[Pick(s)] + g[s \ {Pick(s)}]
           I == CHOOSE g : g = [s \in SUBSET S |-> next(g, s)]
<1>1. PICK g \in [SUBSET S -> Nat] : \A s \in SUBSET S : g[s] = next(g, s)
  <2> DEFINE F == [p \in S \X Nat |-> f[p[1]] + p[2]]
  <2>1. F \in [S \X Nat -> Nat]
    OBVIOUS
  <2>2. \A x \in S, t \in Nat : F[<<x, t>>] = f[x] + t
    OBVIOUS
  <2> HIDE DEF F, I, next
  <2>3. PICK g \in [SUBSET S -> Nat] : \A s \in SUBSET S :
           g[s] = IF s = {} THEN 0 ELSE F[<<Pick(s), g[s \ {Pick(s)}]>>]
    <3> DEFINE T == Nat
               base == 0
    <3>1. Steps(S, T, base, F)
      BY <2>1 DEF Steps
    <3> HIDE DEF T, base
    <3>2. \E g : IsFold(g, S, T, base, F)
      BY <3>1, FoldExists
    <3> QED
      BY <3>2 DEF T, base, IsFold
  <2>4. \A s \in SUBSET S : s # {} => Pick(s) \in S /\ g[s \ {Pick(s)}] \in Nat
    BY DEF Pick
  <2>5. ASSUME NEW s \in SUBSET S PROVE g[s] = next(g, s)
    <3>1. CASE s = {}
      BY <2>3, <3>1 DEF next
    <3>2. CASE s # {}
      BY <2>2, <2>3, <2>4, <3>2 DEF next
    <3> QED
      BY <3>1, <3>2
  <2> QED
    BY <2>5
<1>2. g = [s \in SUBSET S |-> next(g, s)]
  BY <1>1
<1>3. I = [s \in SUBSET S |-> next(I, s)]
  <2> HIDE DEF next
  <2> QED
    BY <1>2
<1>4. SumOver(f, S) = I[S]
  BY DEF SumOver, MapThenSumSet, MapThenFoldSet, Pick
<1>5. \A s \in SUBSET S : I[s] = next(I, s)
  <2> HIDE DEF I, next
  <2> QED
    BY <1>3
<1>6. I[S] = g[S]
  <2> DEFINE A == {s \in SUBSET S : I[s] = g[s]}
  <2>1. ASSUME NEW s \in SUBSET S, \A x \in s : s \ {x} \in A PROVE s \in A
    <3>1. CASE s = {}
      BY <1>1, <1>5, <3>1
    <3>2. CASE s # {}
      <4>1. Pick(s) \in s
        BY <3>2 DEF Pick
      <4>2. I[s \ {Pick(s)}] = g[s \ {Pick(s)}]
        BY <2>1, <4>1
      <4> QED
        BY <1>1, <1>5, <3>2, <4>2
    <3> QED
      BY <3>1, <3>2
  <2>2. S \in A
    <3> HIDE DEF A, I, next
    <3> QED
      BY <2>1, Subsets
  <2> QED
    BY <2>2
<1> QED
  BY <1>1, <1>4, <1>6 DEF Sums

LEMMA SumsAgree ==
  ASSUME NEW S, IsFiniteSet(S), NEW R \in SUBSET S, NEW f, NEW e, NEW g, NEW h,
         Sums(g, f, S), Sums(h, e, R), \A x \in R : f[x] = e[x]
  PROVE  g[R] = h[R]
<1> DEFINE A == {s \in SUBSET R : g[s] = h[s]}
<1>1. ASSUME NEW s \in SUBSET R, \A x \in s : s \ {x} \in A PROVE s \in A
  <2>1. CASE s = {}
    BY <2>1 DEF Sums
  <2>2. CASE s # {}
    <3>1. Pick(s) \in s
      BY <2>2 DEF Pick
    <3>2. g[s \ {Pick(s)}] = h[s \ {Pick(s)}]
      BY <1>1, <3>1
    <3>3. /\ g[s] = f[Pick(s)] + g[s \ {Pick(s)}]
          /\ h[s] = e[Pick(s)] + h[s \ {Pick(s)}]
      BY <2>2 DEF Sums
    <3> QED
      BY <3>1, <3>2, <3>3
  <2> QED
    BY <2>1, <2>2
<1>2. IsFiniteSet(R)
  BY FS_Subset
<1>3. R \in A
  <2> HIDE DEF A
  <2> QED
    BY <1>1, <1>2, Subsets
<1> QED
  BY <1>3

LEMMA SumSame ==
  ASSUME NEW S, IsFiniteSet(S), NEW f, NEW e,
         \A x \in S : f[x] \in Nat /\ f[x] = e[x]
  PROVE  SumOver(f, S) = SumOver(e, S)
<1>1. PICK g \in [SUBSET S -> Nat] : Sums(g, f, S) /\ SumOver(f, S) = g[S]
  BY SumIsFold
<1>2. \A x \in S : e[x] \in Nat
  OBVIOUS
<1>3. PICK h \in [SUBSET S -> Nat] : Sums(h, e, S) /\ SumOver(e, S) = h[S]
  BY <1>2, SumIsFold
<1> QED
  BY <1>1, <1>3, SumsAgree

(* A sum is a number, of nothing it is 0, and it grows by each element.     *)
LEMMA SumEmpty ==
  ASSUME NEW f
  PROVE  SumOver(f, {}) = 0
<1>1. IsFiniteSet({}) /\ \A x \in {} : f[x] \in Nat
  BY FS_EmptySet
<1>2. PICK g \in [SUBSET {} -> Nat] : Sums(g, f, {}) /\ SumOver(f, {}) = g[{}]
  BY <1>1, SumIsFold
<1> QED
  BY <1>2 DEF Sums

LEMMA SumAdds ==
  ASSUME NEW S, IsFiniteSet(S), NEW f, \A x \in S : f[x] \in Nat
  PROVE  /\ SumOver(f, S) \in Nat
         /\ \A x \in S : SumOver(f, S) = f[x] + SumOver(f, S \ {x})
<1>1. PICK g \in [SUBSET S -> Nat] : Sums(g, f, S) /\ SumOver(f, S) = g[S]
  BY SumIsFold
<1>2. ASSUME NEW x \in S PROVE SumOver(f, S \ {x}) = g[S \ {x}]
  <2> DEFINE R == S \ {x}
  <2>1. IsFiniteSet(R) /\ R \in SUBSET S /\ \A y \in R : f[y] \in Nat
    BY FS_Subset
  <2> HIDE DEF R
  <2>2. PICK h \in [SUBSET R -> Nat] : Sums(h, f, R) /\ SumOver(f, R) = h[R]
    BY <2>1, SumIsFold
  <2>3. SumOver(f, R) = g[R]
    BY <1>1, <2>1, <2>2, SumsAgree
  <2> QED
    BY <2>3 DEF R
<1> DEFINE A == {s \in SUBSET S : \A x \in s : g[s] = f[x] + g[s \ {x}]}
<1>3. ASSUME NEW s \in SUBSET S, \A x \in s : s \ {x} \in A PROVE s \in A
  <2> SUFFICES ASSUME NEW x \in s PROVE g[s] = f[x] + g[s \ {x}]
    OBVIOUS
  <2> DEFINE y == Pick(s)
  <2>1. y \in s /\ g[s] = f[y] + g[s \ {y}]
    BY <1>1 DEF Pick, Sums
  <2>2. CASE x = y
    BY <2>1, <2>2
  <2>3. CASE x # y
    <3> HIDE DEF y
    <3>1. x \in s \ {y} /\ y \in s \ {x} /\ (s \ {y}) \ {x} = (s \ {x}) \ {y}
      BY <2>1, <2>3
    <3>2. g[s \ {y}] = f[x] + g[(s \ {y}) \ {x}] /\ g[s \ {x}] = f[y] + g[(s \ {x}) \ {y}]
      BY <1>3, <2>1, <3>1
    <3> DEFINE t == g[(s \ {x}) \ {y}]
    <3>3. f[x] \in Nat /\ f[y] \in Nat /\ t \in Nat
      BY <2>1
    <3>4. g[s \ {y}] = f[x] + t
      BY <3>1, <3>2
    <3>5. g[s \ {x}] = f[y] + t
      BY <3>2
    <3> HIDE DEF t
    <3> QED
      BY <2>1, <3>3, <3>4, <3>5
  <2> QED
    BY <2>2, <2>3
<1>4. S \in A
  <2> HIDE DEF A
  <2> QED
    BY <1>3, Subsets
<1> QED
  BY <1>1, <1>2, <1>4
-----------------------------------------------------------------------------
(***************************************************************************)
(* The ledger.  SquareInv: of each account, what is locked and what is     *)
(* vested is the sum of what its candidates are owed; and a key stands for *)
(* the candidate it was made for, which is why no operation is skipped as  *)
(* a repetition when it is due.                                            *)
(***************************************************************************)
(* The keys of ledger entries: those of a test and those of a settlement.   *)
KeyNames == {"verified-grant", "stale-fee", "fee", "bond", "bond-burn", "reward", "slash",
             "vest-bond", "vest-reward", "refund-bond", "cancel-reward"}
Testing == {"fee", "bond", "bond-burn", "reward", "slash"}
Settling == {"vest-bond", "vest-reward", "refund-bond", "cancel-reward"}

Entries == [key : KeyNames \X (Manifests \cup Principals), contributor : Contributors, units : Nat]
Accounts == [available : Int, locked : Int, vested : Int]
Ledgers == [account : [Contributors -> Accounts], entries : SUBSET Entries]

(* The statuses and records of candidates.                                  *)
Statuses == Live \cup {"vested", "stale", "rejected", "revoked", "replication-rejected"}
RecordForms == [status : Statuses, bond : Nat, reward : Nat, observations : SUBSET Batches]

(* What candidates of a status are worth, and what their author is owed.    *)
Worth(C) == [m \in DOMAIN C |-> C[m].bond + C[m].reward]
Of(C, S, c) == {m \in DOMAIN C : C[m].status \in S /\ m.author = c}

Owed(C, S, c) == SumOver(Worth(C), Of(C, S, c))

(* The ledger L is square with the candidates C in the epoch e.             *)
Square(L, C, e) ==
  /\ L \in Ledgers
  /\ DOMAIN C \subseteq Manifests /\ \A m \in DOMAIN C : C[m] \in RecordForms
  /\ \A c \in Contributors :
       /\ L.account[c].available >= 0
       /\ L.account[c].locked = Owed(C, Live, c)
       /\ L.account[c].vested = Owed(C, {"vested"}, c)
  /\ \A m \in Manifests, k \in Testing :
       HasKey(L, <<k, m>>) => m \in DOMAIN C /\ C[m].status # "stale"
  /\ \A m \in Manifests : HasKey(L, <<"slash", m>>) => C[m].status \notin Live
  /\ \A m \in Manifests, k \in Settling : HasKey(L, <<k, m>>) => e.closed

(* The epoch counts the tests of each contributor, up to the limit.         *)
Counted(e) ==
  /\ e.submissions \in [Contributors -> 0..MaxTestsEach]
  /\ e.closed \in BOOLEAN

SquareInv == /\ Square(ledger, candidate, epoch) /\ Counted(epoch)
             /\ Square(saved[1], saved[3], saved[2]) /\ Counted(saved[2])

(* What one candidate adds to the sum, and the two groups that are summed.  *)
Share(C, S, m) == IF m \in DOMAIN C /\ C[m].status \in S THEN C[m].bond + C[m].reward ELSE 0

Standings == {Live, {"vested"}}

(* D is C but for the record of m, of which only the observations count not. *)
OneChanged(C, D, m) ==
  /\ DOMAIN D \subseteq Manifests
  /\ \A n \in DOMAIN D : D[n] \in RecordForms
  /\ \A n \in Manifests \ {m} : n \in DOMAIN C <=> n \in DOMAIN D
  /\ \A n \in DOMAIN C \ {m} : /\ C[n].status = D[n].status
                               /\ C[n].bond = D[n].bond /\ C[n].reward = D[n].reward

(* Records of candidates that can be summed.                                *)
Kept(C) == /\ DOMAIN C \subseteq Manifests
           /\ \A n \in DOMAIN C : C[n] \in RecordForms
           /\ IsFiniteSet({n \in DOMAIN C : C[n].status \in Live \cup {"vested"}})

LEMMA OwedOne ==
  ASSUME NEW C, Kept(C), NEW D, NEW m \in Manifests, OneChanged(C, D, m),
         NEW S \in Standings, NEW c
  PROVE  /\ Owed(C, S, c) \in Nat /\ Owed(D, S, c) \in Nat
         /\ Share(C, S, m) \in Nat /\ Share(D, S, m) \in Nat
         /\ c = m.author => /\ Owed(D, S, c) = Owed(C, S, c) + Share(D, S, m) - Share(C, S, m)
                            /\ Share(C, S, m) <= Owed(C, S, c)
         /\ c # m.author => Owed(D, S, c) = Owed(C, S, c)
<1> DEFINE P == Of(C, S, c)   Q == Of(D, S, c)
           v == Worth(C)      w == Worth(D)
<1>1. IsFiniteSet(P)
  <2>1. P \subseteq {n \in DOMAIN C : C[n].status \in Live \cup {"vested"}}
    BY DEF Of, Standings
  <2> QED
    BY <2>1, FS_Subset DEF Kept
<1>2. P \ {m} = Q \ {m} /\ \A n \in P \ {m} : v[n] = w[n]
  BY DEF Of, Worth, OneChanged, Kept
<1>3. /\ \A n \in P : v[n] \in Nat
      /\ \A n \in Q : w[n] \in Nat
      /\ m \in P => Share(C, S, m) = v[m]
      /\ m \in Q => Share(D, S, m) = w[m]
      /\ m \notin P /\ c = m.author => Share(C, S, m) = 0
      /\ m \notin Q /\ c = m.author => Share(D, S, m) = 0
      /\ Share(C, S, m) \in Nat /\ Share(D, S, m) \in Nat
      /\ c # m.author => m \notin P /\ m \notin Q
  BY DEF Of, Worth, Share, RecordForms, OneChanged, Kept
<1>4. IsFiniteSet(Q) /\ IsFiniteSet(P \ {m})
  <2> HIDE DEF P, Q
  <2>1. IsFiniteSet(P \ {m}) /\ IsFiniteSet((P \ {m}) \cup {m})
    BY <1>1, FS_RemoveElement, FS_AddElement
  <2>2. Q \in SUBSET ((P \ {m}) \cup {m})
    BY <1>2
  <2> QED
    BY <2>1, <2>2, FS_Subset
<1> HIDE DEF P, Q, v, w
<1> DEFINE R == P \ {m}
           rest == SumOver(v, R)
<1>5. rest \in Nat /\ SumOver(w, Q \ {m}) = rest
  <2> HIDE DEF R
  <2>1. IsFiniteSet(R) /\ R \subseteq P /\ R = Q \ {m} /\ \A n \in R : v[n] \in Nat /\ v[n] = w[n]
    BY <1>2, <1>3, <1>4 DEF R
  <2>2. SumOver(v, R) = SumOver(w, R) /\ SumOver(v, R) \in Nat
    BY <2>1, SumSame, SumAdds
  <2> QED
    BY <2>1, <2>2
<1>6. SumOver(v, P) \in Nat /\ SumOver(v, P) = rest + IF m \in P THEN v[m] ELSE 0
  <2>1. CASE m \in P
    <3>1. SumOver(v, P) \in Nat /\ SumOver(v, P) = v[m] + SumOver(v, P \ {m})
      BY <1>1, <1>3, <2>1, SumAdds
    <3> HIDE DEF rest
    <3> QED
      BY <1>3, <1>5, <2>1, <3>1 DEF rest
  <2>2. CASE m \notin P
    <3>1. P = R
      BY <2>2
    <3> HIDE DEF R
    <3> QED
      BY <1>5, <2>2, <3>1
  <2> QED
    BY <2>1, <2>2
<1>7. SumOver(w, Q) \in Nat /\ SumOver(w, Q) = rest + IF m \in Q THEN w[m] ELSE 0
  <2>1. CASE m \in Q
    <3>1. SumOver(w, Q) \in Nat /\ SumOver(w, Q) = w[m] + SumOver(w, Q \ {m})
      BY <1>3, <1>4, <2>1, SumAdds
    <3> HIDE DEF rest
    <3> QED
      BY <1>3, <1>5, <2>1, <3>1
  <2>2. CASE m \notin Q
    <3>1. Q = Q \ {m}
      BY <2>2
    <3> HIDE DEF rest
    <3> QED
      BY <1>5, <2>2, <3>1
  <2> QED
    BY <2>1, <2>2
<1>8. Owed(C, S, c) = SumOver(v, P) /\ Owed(D, S, c) = SumOver(w, Q)
  BY DEF Owed, P, Q, v, w
<1> HIDE DEF rest, R
<1>9. CASE c = m.author
  BY <1>3, <1>5, <1>6, <1>7, <1>8, <1>9
<1>10. CASE c # m.author
  BY <1>3, <1>5, <1>6, <1>7, <1>8, <1>10
<1> QED
  BY <1>9, <1>10

(* K is L after entries with new keys, which move units of c.               *)
Booked(L, K, keys, c, available, locked, vested) ==
  /\ K \in Ledgers
  /\ K.account[c].available = L.account[c].available + available
  /\ K.account[c].locked = L.account[c].locked + locked
  /\ K.account[c].vested = L.account[c].vested + vested
  /\ \A d \in Contributors \ {c} : K.account[d] = L.account[d]
  /\ \A k : HasKey(K, k) <=> HasKey(L, k) \/ k \in keys

LEMMA ApplyBooks ==
  ASSUME NEW L \in Ledgers, NEW key \in KeyNames \X (Manifests \cup Principals),
         NEW c \in Contributors, NEW units \in Nat,
         NEW available \in Int, NEW locked \in Int, NEW vested \in Int
  PROVE  /\ Apply(L, key, c, units, available, locked, vested) \in Ledgers
         /\ HasKey(L, key) => Apply(L, key, c, units, available, locked, vested) = L
         /\ ~HasKey(L, key) =>
              Booked(L, Apply(L, key, c, units, available, locked, vested), {key},
                     c, available, locked, vested)
<1> DEFINE K == Apply(L, key, c, units, available, locked, vested)
           entry == [key |-> key, contributor |-> c, units |-> units]
           a == L.account[c]
           moved == [available |-> a.available + available, locked |-> a.locked + locked,
                     vested |-> a.vested + vested]
<1>1. L.account \in [Contributors -> Accounts] /\ L.entries \in SUBSET Entries
  BY DEF Ledgers
<1>2. HasKey(L, key) => K = L
  BY DEF Apply
<1>3. CASE ~HasKey(L, key)
  <2>1. K = [account |-> [L.account EXCEPT ![c] = moved], entries |-> L.entries \cup {entry}]
    BY <1>3 DEF Apply
  <2>2. moved \in Accounts /\ entry \in Entries
    BY <1>1 DEF Accounts, Entries
  <2> HIDE DEF moved, entry
  <2>3. K \in Ledgers
    BY <1>1, <2>1, <2>2 DEF Ledgers
  <2>4. K.account[c] = moved /\ \A d \in Contributors \ {c} : K.account[d] = L.account[d]
    BY <1>1, <2>1
  <2>5. K.entries = L.entries \cup {entry} /\ entry.key = key
    BY <2>1 DEF entry
  <2>6. \A k : HasKey(K, k) <=> HasKey(L, k) \/ k \in {key}
    <3> HIDE DEF K
    <3> QED
      BY <2>5 DEF HasKey
  <2>7. /\ moved.available = a.available + available /\ moved.locked = a.locked + locked
        /\ moved.vested = a.vested + vested
    BY DEF moved
  <2> HIDE DEF K
  <2>8. Booked(L, K, {key}, c, available, locked, vested)
    BY <2>3, <2>4, <2>6, <2>7 DEF Booked
  <2> QED
    BY <1>3, <2>3, <2>8 DEF K
<1> QED
  BY <1>2, <1>3

LEMMA BookedTwice ==
  ASSUME NEW L \in Ledgers, NEW K, NEW J, NEW k1, NEW k2, NEW c \in Contributors,
         NEW a1 \in Int, NEW l1 \in Int, NEW v1 \in Int, Booked(L, K, k1, c, a1, l1, v1),
         NEW a2 \in Int, NEW l2 \in Int, NEW v2 \in Int, Booked(K, J, k2, c, a2, l2, v2)
  PROVE  Booked(L, J, k1 \cup k2, c, a1 + a2, l1 + l2, v1 + v2)
<1>1. L.account[c] \in Accounts
  BY DEF Ledgers
<1>2. /\ L.account[c].available \in Int /\ L.account[c].locked \in Int
      /\ L.account[c].vested \in Int
  BY <1>1 DEF Accounts
<1>3. /\ J.account[c].available = L.account[c].available + (a1 + a2)
      /\ J.account[c].locked = L.account[c].locked + (l1 + l2)
      /\ J.account[c].vested = L.account[c].vested + (v1 + v2)
  BY <1>2 DEF Booked
<1>4. \A k : HasKey(J, k) <=> HasKey(L, k) \/ k \in k1 \cup k2
  BY DEF Booked
<1> QED
  BY <1>3, <1>4 DEF Booked

LEMMA BookedNone ==
  ASSUME NEW L \in Ledgers, NEW c \in Contributors
  PROVE  Booked(L, L, {}, c, 0, 0, 0)
<1>1. L.account[c] \in Accounts
  BY DEF Ledgers
<1>2. /\ L.account[c].available \in Int /\ L.account[c].locked \in Int
      /\ L.account[c].vested \in Int
  BY <1>1 DEF Accounts
<1> QED
  BY <1>2 DEF Booked

(* One record changes, from C to D, and its author's account with it, under  *)
(* keys of the candidate's own.                                             *)
Rebalanced(L, K, C, D, m, keys, a, l, v) ==
  /\ OneChanged(C, D, m)
  /\ a \in Int /\ l \in Int /\ v \in Int
  /\ Booked(L, K, keys, m.author, a, l, v)
  /\ L.account[m.author].available + a >= 0
  /\ l = Share(D, Live, m) - Share(C, Live, m)
  /\ v = Share(D, {"vested"}, m) - Share(C, {"vested"}, m)
  /\ keys \subseteq (Testing \cup {"stale-fee"}) \X {m}
  /\ \/ keys \subseteq {"stale-fee"} \X {m}
     \/ m \in DOMAIN D /\ D[m].status # "stale"
  /\ m \in DOMAIN C /\ C[m].status # "stale" => m \in DOMAIN D /\ D[m].status # "stale"
  /\ HasKey(K, <<"slash", m>>) => D[m].status \notin Live

LEMMA SquareStep ==
  ASSUME NEW L, NEW C, NEW e, Square(L, C, e), Kept(C), NEW m \in Manifests,
         NEW K, NEW D, NEW keys, NEW a, NEW l, NEW v,
         Rebalanced(L, K, C, D, m, keys, a, l, v), NEW f, f.closed = e.closed
  PROVE  Square(K, D, f)
<1>0. /\ OneChanged(C, D, m)
      /\ a \in Int /\ l \in Int /\ v \in Int
      /\ Booked(L, K, keys, m.author, a, l, v)
      /\ L.account[m.author].available + a >= 0
      /\ l = Share(D, Live, m) - Share(C, Live, m)
      /\ v = Share(D, {"vested"}, m) - Share(C, {"vested"}, m)
      /\ keys \subseteq (Testing \cup {"stale-fee"}) \X {m}
      /\ \/ keys \subseteq {"stale-fee"} \X {m}
         \/ m \in DOMAIN D /\ D[m].status # "stale"
      /\ m \in DOMAIN C /\ C[m].status # "stale" => m \in DOMAIN D /\ D[m].status # "stale"
      /\ HasKey(K, <<"slash", m>>) => D[m].status \notin Live
  BY DEF Rebalanced
<1>1. m.author \in Contributors
  BY ManifestAssumption
<1>2. L \in Ledgers /\ K \in Ledgers
  BY <1>0 DEF Square, Booked
<1>3. DOMAIN D \subseteq Manifests /\ \A n \in DOMAIN D : D[n] \in RecordForms
  BY <1>0 DEF OneChanged
<1>4. ASSUME NEW c \in Contributors
      PROVE  /\ K.account[c].available >= 0
             /\ K.account[c].locked = Owed(D, Live, c)
             /\ K.account[c].vested = Owed(D, {"vested"}, c)
  <2>0. Live \in Standings /\ {"vested"} \in Standings
    BY DEF Standings
  <2>1. /\ L.account[c].available >= 0
        /\ L.account[c].locked = Owed(C, Live, c)
        /\ L.account[c].vested = Owed(C, {"vested"}, c)
    BY DEF Square
  <2>2. CASE c = m.author
    <3>1. /\ Owed(C, Live, c) \in Nat
          /\ Share(C, Live, m) \in Nat /\ Share(D, Live, m) \in Nat
          /\ Owed(D, Live, c) = Owed(C, Live, c) + Share(D, Live, m) - Share(C, Live, m)
      BY <1>0, <2>0, <2>2, OwedOne
    <3>2. /\ Owed(C, {"vested"}, c) \in Nat
          /\ Share(C, {"vested"}, m) \in Nat /\ Share(D, {"vested"}, m) \in Nat
          /\ Owed(D, {"vested"}, c) =
               Owed(C, {"vested"}, c) + Share(D, {"vested"}, m) - Share(C, {"vested"}, m)
      BY <1>0, <2>0, <2>2, OwedOne
    <3>3. /\ K.account[c].available = L.account[c].available + a
          /\ K.account[c].locked = L.account[c].locked + l
          /\ K.account[c].vested = L.account[c].vested + v
      BY <1>0, <2>2 DEF Booked
    <3> QED
      BY <1>0, <2>1, <2>2, <3>1, <3>2, <3>3
  <2>3. CASE c # m.author
    <3>1. Owed(D, Live, c) = Owed(C, Live, c) /\ Owed(D, {"vested"}, c) = Owed(C, {"vested"}, c)
      BY <1>0, <2>0, <2>3, OwedOne
    <3>2. K.account[c] = L.account[c]
      BY <1>0, <2>3 DEF Booked
    <3> QED
      BY <2>1, <3>1, <3>2
  <2> QED
    BY <2>2, <2>3
<1>5. \A k : HasKey(K, k) => HasKey(L, k) \/ k \in (Testing \cup {"stale-fee"}) \X {m}
  BY <1>0 DEF Booked
<1>6. ASSUME NEW n \in Manifests, NEW k \in Testing, HasKey(K, <<k, n>>)
      PROVE  n \in DOMAIN D /\ D[n].status # "stale"
  <2>1. HasKey(L, <<k, n>>) => n \in DOMAIN C /\ C[n].status # "stale"
    BY DEF Square
  <2>2. HasKey(L, <<k, n>>) \/ n = m
    BY <1>5, <1>6
  <2>3. CASE n = m
    <3>1. <<k, m>> \notin {"stale-fee"} \X {m}
      BY DEF Testing
    <3> QED
      BY <1>0, <1>6, <2>1, <2>3, <3>1 DEF Booked
  <2>4. CASE n # m
    BY <1>0, <2>1, <2>2, <2>4 DEF OneChanged
  <2> QED
    BY <2>3, <2>4
<1>7. ASSUME NEW n \in Manifests, HasKey(K, <<"slash", n>>) PROVE D[n].status \notin Live
  <2>1. CASE n # m
    <3>1. HasKey(L, <<"slash", n>>)
      BY <1>5, <1>7, <2>1
    <3>2. n \in DOMAIN C /\ C[n].status \notin Live
      BY <3>1 DEF Square, Testing
    <3> QED
      BY <1>0, <2>1, <3>2 DEF OneChanged
  <2> QED
    BY <1>0, <1>7, <2>1
<1>8. ASSUME NEW n \in Manifests, NEW k \in Settling, HasKey(K, <<k, n>>) PROVE f.closed
  <2>1. HasKey(L, <<k, n>>)
    BY <1>5, <1>8 DEF Settling, Testing
  <2> QED
    BY <2>1 DEF Square
<1> QED
  BY <1>2, <1>3, <1>4, <1>6, <1>7, <1>8 DEF Square

(* Every fee of the escalation is a number of units.                        *)
LEMMA FeesAreUnits == \A i \in 0..MaxTestsEach : EscalatedFee[i] \in Nat
<1> DEFINE next(f, i) == IF i = 0 THEN SubmissionFee
                         ELSE (f[i - 1] * FeeNumerator) \div FeeDenominator
           A == {n \in Nat : \E f \in [0..n -> Nat] : \A i \in 0..n : f[i] = next(f, i)}
           fee == CHOOSE f : f = [i \in 0..MaxTestsEach |-> next(f, i)]
<1>1. /\ SubmissionFee \in Nat /\ FeeNumerator \in Nat /\ FeeDenominator \in Nat \ {0}
      /\ MaxTestsEach \in Nat
  BY PolicyAssumption
<1>2. 0 \in A
  <2> DEFINE f == [i \in 0..0 |-> SubmissionFee]
  <2>1. f \in [0..0 -> Nat] /\ \A i \in 0..0 : f[i] = next(f, i)
    BY <1>1
  <2> QED
    BY <2>1
<1>3. ASSUME NEW n \in Nat, n \in A PROVE n + 1 \in A
  <2>1. PICK f \in [0..n -> Nat] : \A i \in 0..n : f[i] = next(f, i)
    BY <1>3
  <2>2. \A x \in Nat : (x * FeeNumerator) \div FeeDenominator \in Nat
    <3>1. \A x \in Nat : x * FeeNumerator \in Nat
      BY <1>1
    <3>2. \A y \in Nat : y \div FeeDenominator \in Nat
      BY <1>1
    <3> QED
      BY <3>1, <3>2
  <2> DEFINE g == [i \in 0..(n + 1) |-> next(f, i)]
  <2>3. \A i \in 0..(n + 1) : next(f, i) \in Nat
    <3> SUFFICES ASSUME NEW i \in 0..(n + 1) PROVE next(f, i) \in Nat
      OBVIOUS
    <3>1. CASE i = 0
      BY <1>1, <3>1
    <3>2. CASE i # 0
      <4>1. f[i - 1] \in Nat
        BY <3>2
      <4> QED
        BY <2>2, <3>2, <4>1
    <3> QED
      BY <3>1, <3>2
  <2>4. g \in [0..(n + 1) -> Nat]
    BY <2>3
  <2>5. \A i \in 0..n : g[i] = f[i]
    BY <2>1
  <2>6. ASSUME NEW i \in 0..(n + 1) PROVE g[i] = next(g, i)
    <3>1. g[i] = next(f, i)
      OBVIOUS
    <3> HIDE DEF g
    <3>2. i # 0 => g[i - 1] = f[i - 1]
      <4>1. i # 0 => i - 1 \in 0..n
        OBVIOUS
      <4> HIDE DEF next
      <4> QED
        BY <2>5, <4>1
    <3> QED
      BY <3>1, <3>2
  <2> HIDE DEF g
  <2>7. \E h \in [0..(n + 1) -> Nat] : \A i \in 0..(n + 1) : h[i] = next(h, i)
    BY <2>4, <2>6
  <2> HIDE DEF next
  <2> QED
    BY <2>7
<1>4. Nat \subseteq A
  <2> HIDE DEF A
  <2> QED
    BY <1>2, <1>3, Numbers
<1>5. PICK f \in [0..MaxTestsEach -> Nat] : \A i \in 0..MaxTestsEach : f[i] = next(f, i)
  BY <1>1, <1>4
<1>6. f = [i \in 0..MaxTestsEach |-> next(f, i)]
  BY <1>5
<1>7. fee = [i \in 0..MaxTestsEach |-> next(fee, i)]
  <2> HIDE DEF next
  <2> QED
    BY <1>6
<1>8. EscalatedFee = fee
  BY DEF EscalatedFee
<1>9. \A i \in 0..MaxTestsEach : fee[i] = next(fee, i)
  <2> HIDE DEF fee, next
  <2> QED
    BY <1>7
<1> DEFINE B == {n \in Nat : n <= MaxTestsEach => fee[n] = f[n]}
<1>10. 0 \in B
  <2>1. 0 \in 0..MaxTestsEach
    BY <1>1
  <2> HIDE DEF fee
  <2>2. fee[0] = SubmissionFee /\ f[0] = SubmissionFee
    BY <1>5, <1>9, <2>1
  <2> QED
    BY <2>2
<1>11. ASSUME NEW n \in Nat, n \in B PROVE n + 1 \in B
  <2> HIDE DEF fee
  <2> SUFFICES ASSUME n + 1 <= MaxTestsEach PROVE fee[n + 1] = f[n + 1]
    OBVIOUS
  <2>1. fee[n] = f[n] /\ n + 1 \in 0..MaxTestsEach /\ n + 1 # 0 /\ (n + 1) - 1 = n
    BY <1>1, <1>11
  <2>2. /\ fee[n + 1] = (fee[n] * FeeNumerator) \div FeeDenominator
        /\ f[n + 1] = (f[n] * FeeNumerator) \div FeeDenominator
    BY <1>5, <1>9, <2>1
  <2> QED
    BY <2>1, <2>2
<1>12. Nat \subseteq B
  <2> HIDE DEF B
  <2> QED
    BY <1>10, <1>11, Numbers
<1>13. \A i \in 0..MaxTestsEach : i \in B
  BY <1>1, <1>12
<1> HIDE DEF fee
<1> QED
  BY <1>1, <1>5, <1>8, <1>13

LEMMA KeptOfLine ==
  ASSUME NEW L, NEW C, NEW r, NEW k, NEW e, StateOK(C, r, k, e), Square(L, C, e)
  PROVE  Kept(C)
<1> DEFINE standing == {n \in DOMAIN C : C[n].status \in Live \cup {"vested"}}
<1>1. standing = Has(C, "promoted") \cup Has(C, "canary-passed") \cup Has(C, "vested")
  BY DEF Has, Live
<1>2. IsFiniteSet(standing)
  BY <1>1 DEF StateOK, Line
<1> QED
  BY <1>2 DEF Kept, Square

(* The account of an author, in units.                                      *)
LEMMA Units ==
  ASSUME NEW L, NEW C, NEW e, Square(L, C, e), NEW c \in Contributors
  PROVE  /\ L \in Ledgers
         /\ L.account[c].available \in Nat
         /\ L.account[c].locked \in Int /\ L.account[c].vested \in Int
<1>1. L \in Ledgers /\ L.account[c].available >= 0
  BY DEF Square
<1>2. L.account[c] \in Accounts
  BY <1>1 DEF Ledgers
<1> QED
  BY <1>1, <1>2 DEF Accounts

(* A candidate under test has no record that counts, and no key of a test.  *)
LEMMA Untested ==
  ASSUME Square(ledger, candidate, epoch), NEW m \in Manifests, Current(m)
  PROVE  /\ \A k \in Testing : ~HasKey(ledger, <<k, m>>)
         /\ \A S \in Standings : Share(candidate, S, m) = 0
<1>1. m \in DOMAIN candidate => candidate[m].status = "stale"
  BY DEF Current
<1>2. \A k \in Testing : ~HasKey(ledger, <<k, m>>)
  BY <1>1 DEF Square
<1> QED
  BY <1>1, <1>2 DEF Share, Standings, Live

LEMMA RecordForm ==
  ASSUME NEW s \in Statuses, NEW b \in Nat, NEW w \in Nat
  PROVE  /\ CandidateRecord(s, b, w) \in RecordForms
         /\ CandidateRecord(s, b, w).status = s
         /\ CandidateRecord(s, b, w).bond = b /\ CandidateRecord(s, b, w).reward = w
BY DEF CandidateRecord, RecordForms

LEMMA WithRecord ==
  ASSUME Square(ledger, candidate, epoch), NEW m \in Manifests, NEW r \in RecordForms
  PROVE  /\ OneChanged(candidate, With(m, r), m)
         /\ m \in DOMAIN With(m, r) /\ With(m, r)[m] = r
BY DEF Square, OneChanged, With

LEMMA WithoutRecord ==
  ASSUME Square(ledger, candidate, epoch), NEW m \in Manifests
  PROVE  OneChanged(candidate, Without(m), m) /\ m \notin DOMAIN Without(m)
BY DEF Square, OneChanged, Without

(* The fee and the bond of a test are taken from what its author has.       *)
LEMMA ChargeBooks ==
  ASSUME Square(ledger, candidate, epoch), Counted(epoch), NEW m \in Manifests, Evaluable(m)
  PROVE  \E fee \in Nat :
           /\ ledger.account[m.author].available >= fee + BondUnits
           /\ Booked(ledger, Charge(m), {<<"fee", m>>, <<"bond", m>>}, m.author,
                     -fee - BondUnits, BondUnits, 0)
<1> DEFINE c == m.author
           fee == EscalatedFee[epoch.submissions[c]]
           K == BurnFee(ledger, <<"fee", m>>, c, fee)
           J == LockBond(K, <<"bond", m>>, c, BondUnits)
<1>1. c \in Contributors /\ ledger \in Ledgers /\ BondUnits \in Nat
  BY ManifestAssumption, PolicyAssumption DEF Square
<1>2. fee \in Nat
  BY <1>1, FeesAreUnits DEF Counted
<1>3. Current(m) /\ ledger.account[c].available >= fee + BondUnits
  BY DEF Evaluable
<1>4. J = Charge(m)
  BY DEF Charge
<1>5. ~HasKey(ledger, <<"fee", m>>) /\ ~HasKey(ledger, <<"bond", m>>)
  BY <1>3, Untested DEF Testing
<1>6. <<"fee", m>> \in KeyNames \X (Manifests \cup Principals)
      /\ <<"bond", m>> \in KeyNames \X (Manifests \cup Principals)
  BY DEF KeyNames
<1> HIDE DEF fee, c
<1>7. Booked(ledger, K, {<<"fee", m>>}, c, -fee, 0, 0)
  <2>1. -fee \in Int /\ 0 \in Int
    BY <1>2
  <2> QED
    BY <1>1, <1>2, <1>5, <1>6, <2>1, ApplyBooks DEF BurnFee
<1> HIDE DEF K
<1>8. K \in Ledgers /\ ~HasKey(K, <<"bond", m>>)
  <2>1. <<"bond", m>> \notin {<<"fee", m>>}
    OBVIOUS
  <2> QED
    BY <1>5, <1>7, <2>1 DEF Booked
<1>9. Booked(K, J, {<<"bond", m>>}, c, -BondUnits, BondUnits, 0)
  <2>1. -BondUnits \in Int /\ BondUnits \in Int /\ 0 \in Int
    BY <1>1
  <2> QED
    BY <1>1, <1>6, <1>8, <2>1, ApplyBooks DEF LockBond
<1> HIDE DEF J
<1>10. Booked(ledger, J, {<<"fee", m>>} \cup {<<"bond", m>>}, c,
              -fee + -BondUnits, 0 + BondUnits, 0 + 0)
  <2>1. -fee \in Int /\ -BondUnits \in Int /\ BondUnits \in Int /\ 0 \in Int
    BY <1>1, <1>2
  <2> QED
    BY <1>1, <1>7, <1>9, <2>1, BookedTwice
<1>11. /\ {<<"fee", m>>} \cup {<<"bond", m>>} = {<<"fee", m>>, <<"bond", m>>}
       /\ -fee + -BondUnits = -fee - BondUnits /\ 0 + BondUnits = BondUnits /\ 0 + 0 = 0
  BY <1>1, <1>2
<1>12. Booked(ledger, J, {<<"fee", m>>, <<"bond", m>>}, c, -fee - BondUnits, BondUnits, 0)
  BY <1>10, <1>11
<1> QED
  BY <1>2, <1>3, <1>4, <1>12 DEF c

(* What is square now, without the saved file.                              *)
SquareNow == Square(ledger, candidate, epoch) /\ Counted(epoch)

LEMMA FundSquare ==
  ASSUME SquareNow, NEW c \in Contributors, NEW p \in Principals, FundContributor(c, p)
  PROVE  SquareNow'
<1>1. /\ ledger' = Apply(ledger, <<"verified-grant", p>>, c, GrantUnits, GrantUnits, 0, 0)
      /\ candidate' = candidate /\ epoch' = epoch
  BY DEF FundContributor, Grant
<1>2. /\ Square(ledger, candidate, epoch) /\ ledger \in Ledgers /\ GrantUnits \in Nat
      /\ <<"verified-grant", p>> \in KeyNames \X (Manifests \cup Principals)
  BY PolicyAssumption DEF SquareNow, Square, KeyNames
<1>3. CASE HasKey(ledger, <<"verified-grant", p>>)
  <2>1. ledger' = ledger
    BY <1>1, <1>3 DEF Apply
  <2> QED
    BY <1>1, <2>1 DEF SquareNow
<1>4. CASE ~HasKey(ledger, <<"verified-grant", p>>)
  <2>1. GrantUnits \in Int /\ 0 \in Int
    BY <1>2
  <2>2. Booked(ledger, ledger', {<<"verified-grant", p>>}, c, GrantUnits, 0, 0)
    BY <1>1, <1>2, <1>4, <2>1, ApplyBooks
  <2>3. \A m \in Manifests, k \in Testing \cup Settling :
          HasKey(ledger', <<k, m>>) => HasKey(ledger, <<k, m>>)
    <3>1. \A m \in Manifests, k \in Testing \cup Settling :
            <<k, m>> \notin {<<"verified-grant", p>>}
      BY DEF Testing, Settling
    <3> QED
      BY <2>2, <3>1 DEF Booked
  <2>4. ledger' \in Ledgers
    BY <2>2 DEF Booked
  <2>5. ASSUME NEW d \in Contributors
        PROVE  /\ ledger'.account[d].available >= 0
               /\ ledger'.account[d].locked = ledger.account[d].locked
               /\ ledger'.account[d].vested = ledger.account[d].vested
    <3>1. /\ ledger.account[d].available \in Nat
          /\ ledger.account[d].locked \in Int /\ ledger.account[d].vested \in Int
      BY <1>2, Units
    <3>2. CASE d = c
      BY <1>2, <2>2, <3>1, <3>2 DEF Booked
    <3>3. CASE d # c
      BY <2>2, <3>1, <3>3 DEF Booked
    <3> QED
      BY <3>2, <3>3
  <2>6. Square(ledger', candidate, epoch)
    <3>1. "slash" \in Testing
      BY DEF Testing
    <3> QED
      BY <1>2, <2>3, <2>4, <2>5, <3>1 DEF Square
  <2> QED
    BY <1>1, <2>6 DEF SquareNow
<1> QED
  BY <1>3, <1>4

(* A verdict without standing, under a charge or none.                      *)
LEMMA SubmitSquare ==
  ASSUME SquareNow, Kept(candidate), NEW m \in Manifests, Submit(m)
  PROVE  SquareNow'
<1> DEFINE c == m.author
<1>1. /\ c \in Contributors /\ ledger \in Ledgers
      /\ Square(ledger, candidate, epoch) /\ Counted(epoch)
      /\ ledger.account[c].available \in Nat
      /\ BondUnits \in Nat /\ RewardUnits \in Nat /\ StaleFeeUnits \in Nat
  BY ManifestAssumption, PolicyAssumption, Units DEF SquareNow
<1>2. Current(m)
  BY DEF Submit, Defer, SubmitStale, SubmitExhausted, SubmitRejected, SubmitPromoted, Evaluable
<1>3. /\ ~HasKey(ledger, <<"slash", m>>)
      /\ Share(candidate, Live, m) = 0 /\ Share(candidate, {"vested"}, m) = 0
      /\ ~(m \in DOMAIN candidate /\ candidate[m].status # "stale")
  BY <1>1, <1>2, Untested DEF Testing, Standings, Current
<1>4. CASE Defer(m)
  <2>1. candidate' = Without(m) /\ ledger' = ledger /\ epoch' = epoch
    BY <1>4 DEF Defer
  <2>2. OneChanged(candidate, candidate', m) /\ m \notin DOMAIN candidate'
    BY <1>1, <2>1, WithoutRecord
  <2>3. Share(candidate', Live, m) = 0 /\ Share(candidate', {"vested"}, m) = 0
    BY <2>2 DEF Share
  <2>4. Booked(ledger, ledger', {}, c, 0, 0, 0)
    BY <1>1, <2>1, BookedNone
  <2>5. ~HasKey(ledger', <<"slash", m>>)
    BY <1>3, <2>1
  <2>6. Square(ledger', candidate', epoch')
    <3>1. /\ 0 \in Int /\ ledger.account[c].available + 0 >= 0
          /\ {} \subseteq (Testing \cup {"stale-fee"}) \X {m} /\ {} \subseteq {"stale-fee"} \X {m}
      BY <1>1
    <3>2. Rebalanced(ledger, ledger', candidate, candidate', m, {}, 0, 0, 0)
      BY <1>3, <2>2, <2>3, <2>4, <2>5, <3>1 DEF Rebalanced
    <3> QED
      BY <1>1, <2>1, <3>2, SquareStep
  <2> QED
    BY <1>1, <2>1, <2>6 DEF SquareNow
<1>5. ASSUME NEW keys, NEW fee \in Nat, ledger.account[c].available >= fee,
             keys \subseteq {"stale-fee"} \X {m}, Booked(ledger, ledger', keys, c, -fee, 0, 0),
             candidate' = With(m, CandidateRecord("stale", 0, 0)),
             epoch'.closed = epoch.closed
      PROVE  Square(ledger', candidate', epoch')
  <2>1. CandidateRecord("stale", 0, 0) \in RecordForms /\ CandidateRecord("stale", 0, 0).status = "stale"
    <3>1. "stale" \in Statuses /\ 0 \in Nat
      BY DEF Statuses
    <3> QED
      BY <3>1, RecordForm
  <2>2. OneChanged(candidate, candidate', m) /\ candidate'[m].status = "stale"
    BY <1>1, <1>5, <2>1, WithRecord
  <2>3. Share(candidate', Live, m) = 0 /\ Share(candidate', {"vested"}, m) = 0
    BY <2>2 DEF Share, Live
  <2>4. HasKey(ledger', <<"slash", m>>) => candidate'[m].status \notin Live
    BY <2>2 DEF Live
  <2>5. -fee \in Int /\ 0 \in Int /\ ledger.account[c].available + -fee >= 0
        /\ keys \subseteq (Testing \cup {"stale-fee"}) \X {m}
    BY <1>1, <1>5
  <2>6. Rebalanced(ledger, ledger', candidate, candidate', m, keys, -fee, 0, 0)
    BY <1>3, <1>5, <2>2, <2>3, <2>4, <2>5 DEF Rebalanced
  <2> QED
    BY <1>1, <1>5, <2>6, SquareStep
<1>6. CASE SubmitStale(m)
  <2>1. /\ ledger.account[c].available >= StaleFeeUnits
        /\ candidate' = With(m, CandidateRecord("stale", 0, 0))
        /\ epoch' = [epoch EXCEPT !.stale = @ + 1]
        /\ ledger' \in {ledger, Apply(ledger, <<"stale-fee", m>>, c, StaleFeeUnits, -StaleFeeUnits, 0, 0)}
    BY <1>6 DEF SubmitStale, BurnFee
  <2>2. epoch'.closed = epoch.closed /\ epoch'.submissions = epoch.submissions
    BY <2>1
  <2>3. CASE ledger' = ledger
    <3>1. Booked(ledger, ledger', {}, c, 0, 0, 0)
      BY <1>1, <2>3, BookedNone
    <3>2. ledger.account[c].available >= 0
      BY <1>1
    <3>3. {} \subseteq {"stale-fee"} \X {m}
      OBVIOUS
    <3>4. 0 \in Nat /\ Booked(ledger, ledger', {}, c, -0, 0, 0)
      BY <3>1
    <3>5. Square(ledger', candidate', epoch')
      BY <1>5, <2>1, <2>2, <3>2, <3>3, <3>4
    <3> QED
      BY <1>1, <2>2, <3>5 DEF SquareNow, Counted
  <2>4. CASE ledger' # ledger
    <3>1. <<"stale-fee", m>> \in KeyNames \X (Manifests \cup Principals)
      BY DEF KeyNames
    <3>2. -StaleFeeUnits \in Int /\ 0 \in Int
      BY <1>1
    <3>3. Booked(ledger, ledger', {<<"stale-fee", m>>}, c, -StaleFeeUnits, 0, 0)
      BY <1>1, <2>1, <2>4, <3>1, <3>2, ApplyBooks
    <3>4. {<<"stale-fee", m>>} \subseteq {"stale-fee"} \X {m}
      OBVIOUS
    <3>5. Square(ledger', candidate', epoch')
      BY <1>1, <1>5, <2>1, <2>2, <3>3, <3>4
    <3> QED
      BY <1>1, <2>2, <3>5 DEF SquareNow, Counted
  <2> QED
    BY <2>3, <2>4
<1>7. CASE SubmitExhausted(m)
  <2>1. /\ candidate' = With(m, CandidateRecord("rejected", 0, 0))
        /\ ledger' = ledger /\ epoch' = epoch
    BY <1>7 DEF SubmitExhausted
  <2>2. /\ CandidateRecord("rejected", 0, 0) \in RecordForms
        /\ CandidateRecord("rejected", 0, 0).status = "rejected"
    <3>1. "rejected" \in Statuses /\ 0 \in Nat
      BY DEF Statuses
    <3> QED
      BY <3>1, RecordForm
  <2>3. /\ OneChanged(candidate, candidate', m)
        /\ m \in DOMAIN candidate' /\ candidate'[m].status = "rejected"
    BY <1>1, <2>1, <2>2, WithRecord
  <2>4. Share(candidate', Live, m) = 0 /\ Share(candidate', {"vested"}, m) = 0
    BY <2>3 DEF Share, Live
  <2>5. Booked(ledger, ledger', {}, c, 0, 0, 0)
    BY <1>1, <2>1, BookedNone
  <2>6. ~HasKey(ledger', <<"slash", m>>)
    BY <1>3, <2>1
  <2>7. Square(ledger', candidate', epoch')
    <3>1. /\ 0 \in Int /\ ledger.account[c].available + 0 >= 0
          /\ {} \subseteq (Testing \cup {"stale-fee"}) \X {m} /\ {} \subseteq {"stale-fee"} \X {m}
      BY <1>1
    <3>2. Rebalanced(ledger, ledger', candidate, candidate', m, {}, 0, 0, 0)
      BY <1>3, <2>3, <2>4, <2>5, <2>6, <3>1 DEF Rebalanced
    <3> QED
      BY <1>1, <2>1, <3>2, SquareStep
  <2> QED
    BY <1>1, <2>1, <2>7 DEF SquareNow
<1>8. ASSUME Evaluable(m), ~Exhausted(c), epoch' = Admit(m)
      PROVE  Counted(epoch') /\ epoch'.closed = epoch.closed
  <2>1. epoch.submissions \in [Contributors -> 0..MaxTestsEach] /\ epoch.closed \in BOOLEAN
        /\ MaxTestsEach \in Nat
    BY <1>1, PolicyAssumption DEF Counted
  <2>2. epoch.submissions[c] \in 0..MaxTestsEach /\ ~(epoch.submissions[c] >= MaxTestsEach)
    BY <1>1, <1>8, <2>1 DEF Exhausted
  <2>3. epoch.submissions[c] + 1 \in 0..MaxTestsEach
    BY <2>1, <2>2
  <2>4. /\ epoch'.closed = epoch.closed
        /\ epoch'.submissions = [epoch.submissions EXCEPT ![c] = @ + 1]
    BY <1>8 DEF Admit
  <2> QED
    BY <1>1, <2>1, <2>3, <2>4 DEF Counted
<1>9. CASE SubmitRejected(m)
  <2>1. /\ Evaluable(m) /\ ~Exhausted(c) /\ epoch' = Admit(m)
        /\ ledger' = Apply(Charge(m), <<"bond-burn", m>>, c, BondUnits, 0, -BondUnits, 0)
        /\ candidate' = With(m, CandidateRecord("rejected", 0, 0))
    BY <1>9 DEF SubmitRejected, BurnLocked
  <2>2. /\ CandidateRecord("rejected", 0, 0) \in RecordForms
        /\ CandidateRecord("rejected", 0, 0).status = "rejected"
    <3>1. "rejected" \in Statuses /\ 0 \in Nat
      BY DEF Statuses
    <3> QED
      BY <3>1, RecordForm
  <2>3. /\ OneChanged(candidate, candidate', m)
        /\ m \in DOMAIN candidate' /\ candidate'[m].status = "rejected"
    BY <1>1, <2>1, <2>2, WithRecord
  <2>4. Share(candidate', Live, m) = 0 /\ Share(candidate', {"vested"}, m) = 0
    BY <2>3 DEF Share, Live
  <2>5. PICK fee \in Nat :
          /\ ledger.account[c].available >= fee + BondUnits
          /\ Booked(ledger, Charge(m), {<<"fee", m>>, <<"bond", m>>}, c,
                    -fee - BondUnits, BondUnits, 0)
    BY <1>1, <2>1, ChargeBooks
  <2>6. ~HasKey(Charge(m), <<"bond-burn", m>>) /\ Charge(m) \in Ledgers
    <3>1. ~HasKey(ledger, <<"bond-burn", m>>)
      BY <1>1, <1>2, Untested DEF Testing
    <3>2. <<"bond-burn", m>> \notin {<<"fee", m>>, <<"bond", m>>}
      OBVIOUS
    <3> QED
      BY <2>5, <3>1, <3>2 DEF Booked
  <2>7. -BondUnits \in Int /\ 0 \in Int /\ -fee - BondUnits \in Int /\ BondUnits \in Int
    BY <1>1
  <2>8. Booked(Charge(m), ledger', {<<"bond-burn", m>>}, c, 0, -BondUnits, 0)
    <3>1. <<"bond-burn", m>> \in KeyNames \X (Manifests \cup Principals)
      BY DEF KeyNames
    <3> QED
      BY <1>1, <2>1, <2>6, <2>7, <3>1, ApplyBooks
  <2> DEFINE keys == {<<"fee", m>>, <<"bond", m>>} \cup {<<"bond-burn", m>>}
             a == (-fee - BondUnits) + 0
             l == BondUnits + -BondUnits
             v == 0 + 0
  <2>9. Booked(ledger, ledger', keys, c, a, l, v)
    BY <1>1, <2>5, <2>7, <2>8, BookedTwice
  <2>10. a \in Int /\ l = 0 /\ v = 0 /\ ledger.account[c].available + a >= 0
    BY <1>1, <2>5
  <2>11. /\ keys \subseteq (Testing \cup {"stale-fee"}) \X {m}
         /\ <<"slash", m>> \notin keys
    BY DEF Testing
  <2>12. ~HasKey(ledger', <<"slash", m>>)
    BY <1>3, <2>9, <2>11 DEF Booked
  <2> HIDE DEF keys, a, l, v
  <2>13. Square(ledger', candidate', epoch')
    <3>1. Rebalanced(ledger, ledger', candidate, candidate', m, keys, a, l, v)
      BY <1>3, <2>3, <2>4, <2>9, <2>10, <2>11, <2>12 DEF Rebalanced
    <3> QED
      BY <1>1, <1>8, <2>1, <3>1, SquareStep
  <2> QED
    BY <1>8, <2>1, <2>13 DEF SquareNow
<1>10. CASE SubmitPromoted(m)
  <2>1. /\ Evaluable(m) /\ ~Exhausted(c) /\ epoch' = Admit(m)
        /\ ledger' = Apply(Charge(m), <<"reward", m>>, c, RewardUnits, 0, RewardUnits, 0)
        /\ candidate' = With(m, CandidateRecord("promoted", BondUnits, RewardUnits))
    BY <1>10 DEF SubmitPromoted, LockReward
  <2> DEFINE r == CandidateRecord("promoted", BondUnits, RewardUnits)
  <2>2. r \in RecordForms /\ r.status = "promoted" /\ r.bond = BondUnits /\ r.reward = RewardUnits
    <3>1. "promoted" \in Statuses
      BY DEF Statuses, Live
    <3> QED
      BY <1>1, <3>1, RecordForm
  <2>3. /\ OneChanged(candidate, candidate', m)
        /\ m \in DOMAIN candidate' /\ candidate'[m] = r
    BY <1>1, <2>1, <2>2, WithRecord
  <2> HIDE DEF r
  <2>4. Share(candidate', Live, m) = BondUnits + RewardUnits /\ Share(candidate', {"vested"}, m) = 0
    BY <2>2, <2>3 DEF Share, Live
  <2>5. PICK fee \in Nat :
          /\ ledger.account[c].available >= fee + BondUnits
          /\ Booked(ledger, Charge(m), {<<"fee", m>>, <<"bond", m>>}, c,
                    -fee - BondUnits, BondUnits, 0)
    BY <1>1, <2>1, ChargeBooks
  <2>6. ~HasKey(Charge(m), <<"reward", m>>) /\ Charge(m) \in Ledgers
    <3>1. ~HasKey(ledger, <<"reward", m>>)
      BY <1>1, <1>2, Untested DEF Testing
    <3>2. <<"reward", m>> \notin {<<"fee", m>>, <<"bond", m>>}
      OBVIOUS
    <3> QED
      BY <2>5, <3>1, <3>2 DEF Booked
  <2>7. RewardUnits \in Int /\ 0 \in Int /\ -fee - BondUnits \in Int /\ BondUnits \in Int
    BY <1>1
  <2>8. Booked(Charge(m), ledger', {<<"reward", m>>}, c, 0, RewardUnits, 0)
    <3>1. <<"reward", m>> \in KeyNames \X (Manifests \cup Principals)
      BY DEF KeyNames
    <3> QED
      BY <1>1, <2>1, <2>6, <2>7, <3>1, ApplyBooks
  <2> DEFINE keys == {<<"fee", m>>, <<"bond", m>>} \cup {<<"reward", m>>}
             a == (-fee - BondUnits) + 0
             l == BondUnits + RewardUnits
             v == 0 + 0
  <2>9. Booked(ledger, ledger', keys, c, a, l, v)
    BY <1>1, <2>5, <2>7, <2>8, BookedTwice
  <2>10. /\ a \in Int /\ l \in Int /\ l = BondUnits + RewardUnits - 0 /\ v = 0
         /\ ledger.account[c].available + a >= 0
    BY <1>1, <2>5
  <2>11. /\ keys \subseteq (Testing \cup {"stale-fee"}) \X {m}
         /\ <<"slash", m>> \notin keys
    BY DEF Testing
  <2>12. ~HasKey(ledger', <<"slash", m>>)
    BY <1>3, <2>9, <2>11 DEF Booked
  <2>13. candidate'[m].status # "stale"
    BY <2>2, <2>3
  <2> HIDE DEF keys, a, l, v
  <2>14. Square(ledger', candidate', epoch')
    <3>1. /\ l = Share(candidate', Live, m) - Share(candidate, Live, m)
          /\ v = Share(candidate', {"vested"}, m) - Share(candidate, {"vested"}, m)
      BY <1>1, <1>3, <2>4, <2>10
    <3>2. a \in Int /\ l \in Int /\ v \in Int /\ ledger.account[c].available + a >= 0
      BY <2>10
    <3>3. Rebalanced(ledger, ledger', candidate, candidate', m, keys, a, l, v)
      BY <1>3, <2>3, <2>9, <2>11, <2>12, <2>13, <3>1, <3>2 DEF Rebalanced
    <3> QED
      BY <1>1, <1>8, <2>1, <3>3, SquareStep
  <2> QED
    BY <1>8, <2>1, <2>14 DEF SquareNow
<1> QED
  BY <1>4, <1>6, <1>7, <1>9, <1>10 DEF Submit

(* A batch leaves the bond and reward of a candidate, or slashes both.      *)
LEMMA CanarySquare ==
  ASSUME SquareNow, StateOK(candidate, canonical, canary, epoch),
         NEW b \in Batches, RecordCanaryBatch(b)
  PROVE  SquareNow'
<1> DEFINE m == canary   c == m.author
           r == candidate[m]
           debt == r.bond + r.reward
<1>1. /\ canary # NoCandidate /\ r.status = "promoted" /\ epoch' = epoch
      /\ candidate' \in {Observed(b), [Observed(b) EXCEPT ![m].status = "canary-passed"],
                         [Observed(b) EXCEPT ![m].status = "revoked"]}
  BY DEF RecordCanaryBatch, CanaryPending, CanaryPassed, CanaryRevoked, InWindow
<1>2. m \in DOMAIN candidate /\ m \in Manifests
  <2>1. Has(candidate, "promoted") = {m} /\ DOMAIN candidate \subseteq Manifests
    BY <1>1 DEF StateOK, Line
  <2> QED
    BY <2>1 DEF Has
<1>3. /\ Square(ledger, candidate, epoch) /\ Counted(epoch) /\ Kept(candidate)
  BY KeptOfLine DEF SquareNow
<1>4. c \in Contributors /\ ledger \in Ledgers /\ ledger.account[c].available \in Nat
  BY <1>2, <1>3, ManifestAssumption, Units
<1>5. r \in RecordForms /\ r.bond \in Nat /\ r.reward \in Nat
  BY <1>2, <1>3 DEF Square, RecordForms
<1> HIDE DEF c, r, debt, m
<1>6. /\ Observed(b) = [candidate EXCEPT ![m] = [r EXCEPT !.observations = @ \cup {b}]]
      /\ [r EXCEPT !.observations = @ \cup {b}] \in RecordForms
  BY <1>2, <1>5 DEF Observed, RecordForms, m, r
<1>7. \E s \in {"promoted", "canary-passed", "revoked"} :
        /\ DOMAIN candidate' = DOMAIN candidate
        /\ \A n \in DOMAIN candidate \ {m} : candidate'[n] = candidate[n]
        /\ candidate'[m] \in RecordForms
        /\ candidate'[m].status = s
        /\ candidate'[m].bond = r.bond /\ candidate'[m].reward = r.reward
        /\ s # "revoked" => ledger' = ledger
        /\ s = "revoked" => ledger' = SlashRevoked(m)
  <2> DEFINE o == [r EXCEPT !.observations = @ \cup {b}]
  <2>1. o \in RecordForms /\ o.status = "promoted" /\ o.bond = r.bond /\ o.reward = r.reward
    BY <1>1, <1>5, <1>6 DEF RecordForms
  <2>2. \A s \in Statuses : /\ [o EXCEPT !.status = s] \in RecordForms
                            /\ [o EXCEPT !.status = s].status = s
                            /\ [o EXCEPT !.status = s].bond = r.bond
                            /\ [o EXCEPT !.status = s].reward = r.reward
    <3> HIDE DEF o
    <3> QED
      BY <2>1 DEF RecordForms
  <2>3. Observed(b) = [candidate EXCEPT ![m] = o]
    BY <1>6
  <2> HIDE DEF o
  <2>4. CASE CanaryPending(b)
    <3>1. candidate' = [candidate EXCEPT ![m] = o] /\ ledger' = ledger
      BY <2>3, <2>4 DEF CanaryPending
    <3> QED
      BY <1>2, <2>1, <3>1
  <2>5. CASE CanaryPassed(b)
    <3>1. /\ candidate' = [[candidate EXCEPT ![m] = o] EXCEPT ![m].status = "canary-passed"]
          /\ ledger' = ledger /\ "canary-passed" \in Statuses
      BY <2>3, <2>5 DEF CanaryPassed, Statuses, Live, m
    <3>2. candidate' = [candidate EXCEPT ![m] = [o EXCEPT !.status = "canary-passed"]]
      BY <1>2, <3>1
    <3> QED
      BY <1>2, <2>2, <3>1, <3>2
  <2>6. CASE CanaryRevoked(b)
    <3>1. /\ candidate' = [[candidate EXCEPT ![m] = o] EXCEPT ![m].status = "revoked"]
          /\ ledger' = SlashRevoked(m) /\ "revoked" \in Statuses
      BY <2>3, <2>6 DEF CanaryRevoked, Statuses, m
    <3>2. candidate' = [candidate EXCEPT ![m] = [o EXCEPT !.status = "revoked"]]
      BY <1>2, <3>1
    <3> QED
      BY <1>2, <2>2, <3>1, <3>2
  <2> QED
    BY <2>4, <2>5, <2>6 DEF RecordCanaryBatch
<1>8. PICK s \in {"promoted", "canary-passed", "revoked"} :
        /\ DOMAIN candidate' = DOMAIN candidate
        /\ \A n \in DOMAIN candidate \ {m} : candidate'[n] = candidate[n]
        /\ candidate'[m] \in RecordForms
        /\ candidate'[m].status = s
        /\ candidate'[m].bond = r.bond /\ candidate'[m].reward = r.reward
        /\ s # "revoked" => ledger' = ledger
        /\ s = "revoked" => ledger' = SlashRevoked(m)
  BY <1>7
<1>9. OneChanged(candidate, candidate', m) /\ m \in DOMAIN candidate'
  BY <1>2, <1>3, <1>8 DEF OneChanged, Square
<1>10. ~HasKey(ledger, <<"slash", m>>)
  BY <1>1, <1>2, <1>3 DEF Square, Live, r
<1>11. Share(candidate, Live, m) = debt /\ Share(candidate, {"vested"}, m) = 0 /\ debt \in Nat
  BY <1>1, <1>2, <1>5 DEF Share, Live, debt, r
<1>12. s # "stale" /\ s # "vested" /\ (s \in Live <=> s # "revoked")
  BY DEF Live
<1>13. /\ Share(candidate', {"vested"}, m) = 0
       /\ Share(candidate', Live, m) = IF s = "revoked" THEN 0 ELSE debt
  BY <1>8, <1>9, <1>12 DEF Share, debt
<1>14. CASE s # "revoked"
  <2>1. Booked(ledger, ledger', {}, c, 0, 0, 0) /\ ~HasKey(ledger', <<"slash", m>>)
    BY <1>4, <1>8, <1>10, <1>14, BookedNone
  <2>2. /\ 0 \in Int /\ ledger.account[c].available + 0 >= 0
        /\ 0 = Share(candidate', Live, m) - Share(candidate, Live, m)
        /\ 0 = Share(candidate', {"vested"}, m) - Share(candidate, {"vested"}, m)
    BY <1>4, <1>11, <1>13, <1>14
  <2>3. {} \subseteq (Testing \cup {"stale-fee"}) \X {m} /\ {} \subseteq {"stale-fee"} \X {m}
    OBVIOUS
  <2>4. candidate'[m].status # "stale"
    BY <1>8, <1>12
  <2>5. Rebalanced(ledger, ledger', candidate, candidate', m, {}, 0, 0, 0)
    BY <1>9, <2>1, <2>2, <2>3, <2>4 DEF Rebalanced, c
  <2>6. Square(ledger', candidate', epoch')
    BY <1>1, <1>2, <1>3, <2>5, SquareStep
  <2> QED
    BY <1>1, <1>3, <2>6 DEF SquareNow
<1>15. CASE s = "revoked"
  <2>1. debt <= ledger.account[c].locked /\ ledger.account[c].locked \in Int
    <3>1. Live \in Standings
      BY DEF Standings
    <3>2. Share(candidate, Live, m) <= Owed(candidate, Live, c)
      BY <1>2, <1>3, <1>9, <3>1, OwedOne DEF c
    <3>3. ledger.account[c].locked = Owed(candidate, Live, c)
      BY <1>3, <1>4 DEF Square
    <3> QED
      BY <1>3, <1>4, <1>11, <3>2, <3>3, Units
  <2>2. Min({debt, ledger.account[c].locked}) = debt
    <3> DEFINE x == ledger.account[c].locked
    <3>1. debt \in Int /\ x \in Int /\ debt <= x
      BY <1>11, <2>1
    <3> HIDE DEF x
    <3>2. \A y \in {debt, x} : (\A z \in {debt, x} : y <= z) => y = debt
      BY <3>1
    <3>3. debt \in {debt, x} /\ \A z \in {debt, x} : debt <= z
      BY <3>1
    <3>4. Min({debt, x}) = debt
      BY <3>2, <3>3 DEF Min
    <3> QED
      BY <3>4 DEF x
  <2>3. ledger' = Apply(ledger, <<"slash", m>>, c, debt, 0, -debt, 0)
    BY <1>8, <1>15, <2>2 DEF SlashRevoked, Slash, debt, r, c, m
  <2>4. <<"slash", m>> \in KeyNames \X (Manifests \cup Principals)
        /\ 0 \in Int /\ -debt \in Int
    BY <1>2, <1>11 DEF KeyNames
  <2>5. Booked(ledger, ledger', {<<"slash", m>>}, c, 0, -debt, 0)
    BY <1>4, <1>10, <1>11, <2>3, <2>4, ApplyBooks
  <2>6. /\ ledger.account[c].available + 0 >= 0
        /\ -debt = Share(candidate', Live, m) - Share(candidate, Live, m)
        /\ 0 = Share(candidate', {"vested"}, m) - Share(candidate, {"vested"}, m)
    BY <1>4, <1>11, <1>13, <1>15
  <2>7. {<<"slash", m>>} \subseteq (Testing \cup {"stale-fee"}) \X {m}
    BY DEF Testing
  <2>8. candidate'[m].status # "stale" /\ candidate'[m].status \notin Live
    BY <1>8, <1>12, <1>15
  <2>9. Rebalanced(ledger, ledger', candidate, candidate', m, {<<"slash", m>>}, 0, -debt, 0)
    BY <1>9, <2>4, <2>5, <2>6, <2>7, <2>8 DEF Rebalanced, c
  <2>10. Square(ledger', candidate', epoch')
    BY <1>1, <1>2, <1>3, <2>9, SquareStep
  <2> QED
    BY <1>1, <1>3, <2>10 DEF SquareNow
<1> QED
  BY <1>14, <1>15

(* What settles a candidate moves its bond and its reward, once.            *)
LEMMA SettleBooks ==
  ASSUME Square(ledger, candidate, epoch), NEW m \in Eligible, NEW L \in Ledgers
  PROVE  /\ VestAll(m, L) \in Ledgers /\ CancelAll(m, L) \in Ledgers
         /\ (\A k \in Settling : ~HasKey(L, <<k, m>>)) =>
              LET worth == candidate[m].bond + candidate[m].reward
              IN  /\ Booked(L, VestAll(m, L), {<<"vest-bond", m>>} \cup {<<"vest-reward", m>>},
                            m.author, 0, -worth, worth)
                  /\ Booked(L, CancelAll(m, L),
                            {<<"refund-bond", m>>} \cup {<<"cancel-reward", m>>},
                            m.author, candidate[m].bond, -worth, 0)
<1> DEFINE c == m.author
           bond == candidate[m].bond
           reward == candidate[m].reward
           V == Vest(L, <<"vest-bond", m>>, c, bond)
           W == Vest(V, <<"vest-reward", m>>, c, reward)
           R == RefundBond(L, <<"refund-bond", m>>, c, bond)
           Q == CancelReward(R, <<"cancel-reward", m>>, c, reward)
<1>1. m \in Manifests /\ c \in Contributors
  BY ManifestAssumption DEF Square, Eligible
<1>2. bond \in Nat /\ reward \in Nat
  BY DEF Square, Eligible, RecordForms
<1>3. \A k \in Settling : <<k, m>> \in KeyNames \X (Manifests \cup Principals)
  BY <1>1 DEF Settling, KeyNames
<1>4. {"vest-bond", "vest-reward", "refund-bond", "cancel-reward"} = Settling
  BY DEF Settling
<1>5. VestAll(m, L) = W /\ CancelAll(m, L) = Q
  BY DEF VestAll, CancelAll
<1> HIDE DEF c, bond, reward
<1>6. -bond \in Int /\ -reward \in Int /\ bond \in Int /\ reward \in Int /\ 0 \in Int
  BY <1>2
<1>7. V \in Ledgers /\ (~HasKey(L, <<"vest-bond", m>>) =>
                          Booked(L, V, {<<"vest-bond", m>>}, c, 0, -bond, bond))
  BY <1>1, <1>2, <1>3, <1>4, <1>6, ApplyBooks DEF Vest
<1>8. R \in Ledgers /\ (~HasKey(L, <<"refund-bond", m>>) =>
                          Booked(L, R, {<<"refund-bond", m>>}, c, bond, -bond, 0))
  BY <1>1, <1>2, <1>3, <1>4, <1>6, ApplyBooks DEF RefundBond
<1> HIDE DEF V, R
<1>9. W \in Ledgers /\ (~HasKey(V, <<"vest-reward", m>>) =>
                          Booked(V, W, {<<"vest-reward", m>>}, c, 0, -reward, reward))
  BY <1>1, <1>2, <1>3, <1>4, <1>6, <1>7, ApplyBooks DEF Vest
<1>10. Q \in Ledgers /\ (~HasKey(R, <<"cancel-reward", m>>) =>
                           Booked(R, Q, {<<"cancel-reward", m>>}, c, 0, -reward, 0))
  BY <1>1, <1>2, <1>3, <1>4, <1>6, <1>8, ApplyBooks DEF CancelReward
<1> HIDE DEF W, Q
<1>11. ASSUME \A k \in Settling : ~HasKey(L, <<k, m>>)
       PROVE  /\ Booked(L, W, {<<"vest-bond", m>>} \cup {<<"vest-reward", m>>}, c,
                        0, -(bond + reward), bond + reward)
              /\ Booked(L, Q, {<<"refund-bond", m>>} \cup {<<"cancel-reward", m>>}, c,
                        bond, -(bond + reward), 0)
  <2>1. /\ Booked(L, V, {<<"vest-bond", m>>}, c, 0, -bond, bond)
        /\ Booked(L, R, {<<"refund-bond", m>>}, c, bond, -bond, 0)
    BY <1>4, <1>7, <1>8, <1>11
  <2>2. ~HasKey(V, <<"vest-reward", m>>) /\ ~HasKey(R, <<"cancel-reward", m>>)
    <3>1. <<"vest-reward", m>> \notin {<<"vest-bond", m>>}
          /\ <<"cancel-reward", m>> \notin {<<"refund-bond", m>>}
      OBVIOUS
    <3> QED
      BY <1>4, <1>11, <2>1, <3>1 DEF Booked
  <2>3. /\ Booked(V, W, {<<"vest-reward", m>>}, c, 0, -reward, reward)
        /\ Booked(R, Q, {<<"cancel-reward", m>>}, c, 0, -reward, 0)
    BY <1>9, <1>10, <2>2
  <2>4. Booked(L, W, {<<"vest-bond", m>>} \cup {<<"vest-reward", m>>}, c,
               0 + 0, -bond + -reward, bond + reward)
    BY <1>1, <1>6, <2>1, <2>3, BookedTwice
  <2>5. Booked(L, Q, {<<"refund-bond", m>>} \cup {<<"cancel-reward", m>>}, c,
               bond + 0, -bond + -reward, 0 + 0)
    BY <1>1, <1>6, <2>1, <2>3, BookedTwice
  <2>6. 0 + 0 = 0 /\ bond + 0 = bond /\ -bond + -reward = -(bond + reward)
    BY <1>2
  <2> QED
    BY <2>4, <2>5, <2>6
<1> QED
  BY <1>5, <1>9, <1>10, <1>11 DEF c, bond, reward

(* The ledger after the candidates of s are settled, one after the other.   *)
SettleSteps(J, passed) ==
  \A s \in SUBSET Eligible :
    J[s] = IF s = {} THEN ledger
           ELSE IF passed THEN VestAll(Pick(s), J[s \ {Pick(s)}])
                          ELSE CancelAll(Pick(s), J[s \ {Pick(s)}])

LEMMA EligibleFinite ==
  ASSUME Kept(candidate)
  PROVE  IsFiniteSet(Eligible)
<1>1. Eligible \in SUBSET {n \in DOMAIN candidate : candidate[n].status \in Live \cup {"vested"}}
  BY DEF Eligible, Live
<1> QED
  BY <1>1, FS_Subset DEF Kept

LEMMA VestFold ==
  ASSUME Square(ledger, candidate, epoch), Kept(candidate)
  PROVE  \E J : SettleSteps(J, TRUE) /\ FoldSet(VestAll, ledger, Eligible) = J[Eligible]
<1> DEFINE next(J, s) == IF s = {} THEN ledger ELSE VestAll(Pick(s), J[s \ {Pick(s)}])
           J == CHOOSE J : J = [s \in SUBSET Eligible |-> next(J, s)]
           F == [p \in Eligible \X Ledgers |-> VestAll(p[1], p[2])]
<1>1. IsFiniteSet(Eligible) /\ ledger \in Ledgers
  BY EligibleFinite DEF Square
<1>2. \A m \in Eligible, L \in Ledgers : VestAll(m, L) \in Ledgers
  BY SettleBooks
<1>3. F \in [Eligible \X Ledgers -> Ledgers]
  BY <1>2
<1>4. \A m \in Eligible, L \in Ledgers : F[<<m, L>>] = VestAll(m, L)
  OBVIOUS
<1> HIDE DEF F, J
<1>5. PICK g : IsFold(g, Eligible, Ledgers, ledger, F)
  <2>1. Steps(Eligible, Ledgers, ledger, F)
    BY <1>1, <1>3 DEF Steps
  <2> QED
    BY <1>1, <2>1, FoldExists
<1>6. g = [s \in SUBSET Eligible |-> next(g, s)]
  <2>1. \A s \in SUBSET Eligible : s # {} => Pick(s) \in Eligible /\ g[s \ {Pick(s)}] \in Ledgers
    BY <1>5 DEF IsFold, Pick
  <2>2. \A s \in SUBSET Eligible : g[s] = next(g, s)
    BY <1>4, <1>5, <2>1 DEF IsFold
  <2>3. g \in [SUBSET Eligible -> Ledgers]
    BY <1>5 DEF IsFold
  <2> HIDE DEF next
  <2> QED
    BY <2>2, <2>3
<1>7. J = [s \in SUBSET Eligible |-> next(J, s)]
  <2> HIDE DEF next
  <2> QED
    BY <1>6 DEF J
<1>8. FoldSet(VestAll, ledger, Eligible) = J[Eligible]
  BY DEF FoldSet, MapThenFoldSet, Pick, J
<1>9. \A s \in SUBSET Eligible : J[s] = next(J, s)
  <2> HIDE DEF next
  <2> QED
    BY <1>7
<1> QED
  BY <1>8, <1>9 DEF SettleSteps

LEMMA CancelFold ==
  ASSUME Square(ledger, candidate, epoch), Kept(candidate)
  PROVE  \E J : SettleSteps(J, FALSE) /\ FoldSet(CancelAll, ledger, Eligible) = J[Eligible]
<1> DEFINE next(J, s) == IF s = {} THEN ledger ELSE CancelAll(Pick(s), J[s \ {Pick(s)}])
           J == CHOOSE J : J = [s \in SUBSET Eligible |-> next(J, s)]
           F == [p \in Eligible \X Ledgers |-> CancelAll(p[1], p[2])]
<1>1. IsFiniteSet(Eligible) /\ ledger \in Ledgers
  BY EligibleFinite DEF Square
<1>2. \A m \in Eligible, L \in Ledgers : CancelAll(m, L) \in Ledgers
  BY SettleBooks
<1>3. F \in [Eligible \X Ledgers -> Ledgers]
  BY <1>2
<1>4. \A m \in Eligible, L \in Ledgers : F[<<m, L>>] = CancelAll(m, L)
  OBVIOUS
<1> HIDE DEF F, J
<1>5. PICK g : IsFold(g, Eligible, Ledgers, ledger, F)
  <2>1. Steps(Eligible, Ledgers, ledger, F)
    BY <1>1, <1>3 DEF Steps
  <2> QED
    BY <1>1, <2>1, FoldExists
<1>6. g = [s \in SUBSET Eligible |-> next(g, s)]
  <2>1. \A s \in SUBSET Eligible : s # {} => Pick(s) \in Eligible /\ g[s \ {Pick(s)}] \in Ledgers
    BY <1>5 DEF IsFold, Pick
  <2>2. \A s \in SUBSET Eligible : g[s] = next(g, s)
    BY <1>4, <1>5, <2>1 DEF IsFold
  <2>3. g \in [SUBSET Eligible -> Ledgers]
    BY <1>5 DEF IsFold
  <2> HIDE DEF next
  <2> QED
    BY <2>2, <2>3
<1>7. J = [s \in SUBSET Eligible |-> next(J, s)]
  <2> HIDE DEF next
  <2> QED
    BY <1>6 DEF J
<1>8. FoldSet(CancelAll, ledger, Eligible) = J[Eligible]
  BY DEF FoldSet, MapThenFoldSet, Pick, J
<1>9. \A s \in SUBSET Eligible : J[s] = next(J, s)
  <2> HIDE DEF next
  <2> QED
    BY <1>7
<1> QED
  BY <1>8, <1>9 DEF SettleSteps

(* The candidates of s of one author.                                       *)
ByAuthor(s, c) == {m \in s : m.author = c}

(* K is the ledger once the candidates of s are settled.                    *)
SettledLedger(K, s, passed) ==
  /\ K \in Ledgers
  /\ \A c \in Contributors :
       LET moved == SumOver(Worth(candidate), ByAuthor(s, c))
       IN  /\ moved \in Nat
           /\ K.account[c].available >= ledger.account[c].available
           /\ K.account[c].locked + moved = ledger.account[c].locked
           /\ K.account[c].vested = ledger.account[c].vested + IF passed THEN moved ELSE 0
  /\ \A k : HasKey(K, k) => HasKey(ledger, k) \/ k \in Settling \X s

LEMMA SettleOne ==
  ASSUME Square(ledger, candidate, epoch), Kept(candidate), ~epoch.closed, NEW passed \in BOOLEAN,
         NEW s \in SUBSET Eligible, NEW x \in s, NEW L, SettledLedger(L, s \ {x}, passed)
  PROVE  SettledLedger(IF passed THEN VestAll(x, L) ELSE CancelAll(x, L), s, passed)
<1> DEFINE K == IF passed THEN VestAll(x, L) ELSE CancelAll(x, L)
           t == s \ {x}
           w == Worth(candidate)
           bond == candidate[x].bond
           worth == bond + candidate[x].reward
           keys == IF passed THEN {<<"vest-bond", x>>} \cup {<<"vest-reward", x>>}
                             ELSE {<<"refund-bond", x>>} \cup {<<"cancel-reward", x>>}
           a == IF passed THEN 0 ELSE bond
           v == IF passed THEN worth ELSE 0
<1>1. /\ x \in Eligible /\ x \in Manifests /\ x.author \in Contributors /\ L \in Ledgers
      /\ bond \in Nat /\ candidate[x].reward \in Nat
  BY ManifestAssumption DEF Square, Eligible, SettledLedger, RecordForms
<1>2. \A k \in Settling : ~HasKey(L, <<k, x>>)
  BY <1>1 DEF SettledLedger, Square
<1>3. Booked(L, K, keys, x.author, a, -worth, v)
  BY <1>1, <1>2, SettleBooks
<1>4. worth \in Nat /\ a \in Nat /\ w[x] = worth /\ v = IF passed THEN worth ELSE 0
  BY <1>1 DEF Worth, Eligible
<1>5. keys \subseteq Settling \X {x}
  BY DEF Settling
<1>6. \A m \in s : w[m] \in Nat
  BY DEF Worth, Eligible, Square, RecordForms
<1>7. \A c : IsFiniteSet(ByAuthor(s, c))
  <2>1. IsFiniteSet(s)
    BY EligibleFinite, FS_Subset
  <2>2. \A c : ByAuthor(s, c) \in SUBSET s
    BY DEF ByAuthor
  <2> QED
    BY <2>1, <2>2, FS_Subset
<1> HIDE DEF K, t, w, worth, keys, a, v, bond
<1>8. ASSUME NEW c \in Contributors
      PROVE  LET moved == SumOver(w, ByAuthor(s, c))
             IN  /\ moved \in Nat
                 /\ K.account[c].available >= ledger.account[c].available
                 /\ K.account[c].locked + moved = ledger.account[c].locked
                 /\ K.account[c].vested = ledger.account[c].vested + IF passed THEN moved ELSE 0
  <2> DEFINE before == SumOver(w, ByAuthor(t, c))
             moved == SumOver(w, ByAuthor(s, c))
             was == L.account[c]
             is == K.account[c]
             first == ledger.account[c]
  <2>1. /\ before \in Nat
        /\ was.available >= first.available
        /\ was.locked + before = first.locked
        /\ was.vested = first.vested + IF passed THEN before ELSE 0
    BY DEF SettledLedger, w, t
  <2>2. /\ was.available \in Int /\ was.locked \in Int /\ was.vested \in Int
        /\ first.available \in Int /\ first.locked \in Int /\ first.vested \in Int
    <3>1. L.account[c] \in Accounts /\ ledger.account[c] \in Accounts
      BY <1>1 DEF Ledgers, Square
    <3> QED
      BY <3>1 DEF Accounts
  <2>3. CASE c = x.author
    <3>1. x \in ByAuthor(s, c) /\ ByAuthor(s, c) \ {x} = ByAuthor(t, c)
          /\ \A m \in ByAuthor(s, c) : w[m] \in Nat
      BY <1>6, <2>3 DEF ByAuthor, t
    <3>2. moved \in Nat /\ moved = worth + before
      BY <1>4, <1>7, <3>1, SumAdds
    <3>3. /\ is.available = was.available + a
          /\ is.locked = was.locked + -worth
          /\ is.vested = was.vested + v
      BY <1>3, <2>3 DEF Booked
    <3> HIDE DEF moved, before, was, is, first
    <3>4. /\ is.available >= first.available
          /\ is.locked + moved = first.locked
          /\ is.vested = first.vested + IF passed THEN moved ELSE 0
      BY <1>4, <2>1, <2>2, <3>2, <3>3
    <3> QED
      BY <3>2, <3>4 DEF moved, is, first
  <2>4. CASE c # x.author
    <3>1. ByAuthor(s, c) = ByAuthor(t, c)
      BY <2>4 DEF ByAuthor, t
    <3>2. is = was
      BY <1>3, <2>4 DEF Booked
    <3> QED
      BY <2>1, <3>1, <3>2
  <2> QED
    BY <2>3, <2>4
<1>9. \A k : HasKey(K, k) => HasKey(ledger, k) \/ k \in Settling \X s
  BY <1>3, <1>5 DEF Booked, SettledLedger, t
<1>10. K \in Ledgers
  BY <1>3 DEF Booked
<1>11. SettledLedger(K, s, passed)
  BY <1>8, <1>9, <1>10 DEF SettledLedger, w
<1> QED
  BY <1>11 DEF K

LEMMA SettleEvery ==
  ASSUME Square(ledger, candidate, epoch), Kept(candidate), ~epoch.closed, NEW passed \in BOOLEAN,
         NEW J, SettleSteps(J, passed)
  PROVE  SettledLedger(J[Eligible], Eligible, passed)
<1> DEFINE A == {s \in SUBSET Eligible : SettledLedger(J[s], s, passed)}
<1>1. ASSUME NEW s \in SUBSET Eligible, \A x \in s : s \ {x} \in A PROVE s \in A
  <2>1. CASE s = {}
    <3>1. J[s] = ledger
      BY <2>1 DEF SettleSteps
    <3>2. ledger \in Ledgers
      BY DEF Square
    <3>3. ASSUME NEW c \in Contributors
          PROVE  /\ SumOver(Worth(candidate), ByAuthor({}, c)) = 0
                 /\ ledger.account[c].available \in Int /\ ledger.account[c].locked \in Int
                 /\ ledger.account[c].vested \in Int
      <4>1. ByAuthor({}, c) = {}
        BY DEF ByAuthor
      <4> QED
        BY <4>1, SumEmpty, Units
    <3>4. SettledLedger(ledger, {}, passed)
      BY <3>2, <3>3 DEF SettledLedger
    <3> QED
      BY <2>1, <3>1, <3>4
  <2>2. CASE s # {}
    <3>1. Pick(s) \in s
      BY <2>2 DEF Pick
    <3>2. SettledLedger(J[s \ {Pick(s)}], s \ {Pick(s)}, passed)
      BY <1>1, <3>1
    <3>3. J[s] = IF passed THEN VestAll(Pick(s), J[s \ {Pick(s)}])
                           ELSE CancelAll(Pick(s), J[s \ {Pick(s)}])
      BY <2>2 DEF SettleSteps
    <3>4. SettledLedger(J[s], s, passed)
      BY <3>1, <3>2, <3>3, SettleOne
    <3> QED
      BY <3>4
  <2> QED
    BY <2>1, <2>2
<1>2. Eligible \in A
  <2> HIDE DEF A
  <2> QED
    BY <1>1, EligibleFinite, Subsets
<1> QED
  BY <1>2

LEMMA CloseSquare ==
  ASSUME SquareNow, StateOK(candidate, canonical, canary, epoch),
         NEW passed \in BOOLEAN, CloseEpoch(passed)
  PROVE  SquareNow'
<1> DEFINE status == IF passed THEN "vested" ELSE "replication-rejected"
           w == Worth(candidate)
           e == epoch'
<1>1. /\ ~epoch.closed /\ canary = NoCandidate
      /\ candidate' = Settled(status)
      /\ epoch' = [epoch EXCEPT !.closed = TRUE]
      /\ ledger' = IF passed THEN FoldSet(VestAll, ledger, Eligible)
                             ELSE FoldSet(CancelAll, ledger, Eligible)
  BY DEF CloseEpoch, MayClose
<1>2. Square(ledger, candidate, epoch) /\ Counted(epoch) /\ Kept(candidate)
  BY KeptOfLine DEF SquareNow
<1>3. SettledLedger(ledger', Eligible, passed)
  <2>1. CASE passed
    <3>1. PICK J : SettleSteps(J, TRUE) /\ FoldSet(VestAll, ledger, Eligible) = J[Eligible]
      BY <1>2, VestFold
    <3>2. SettleSteps(J, passed) /\ ledger' = J[Eligible]
      BY <1>1, <2>1, <3>1
    <3> QED
      BY <1>1, <1>2, <3>2, SettleEvery
  <2>2. CASE ~passed
    <3>1. PICK J : SettleSteps(J, FALSE) /\ FoldSet(CancelAll, ledger, Eligible) = J[Eligible]
      BY <1>2, CancelFold
    <3>2. SettleSteps(J, passed) /\ ledger' = J[Eligible]
      BY <1>1, <2>2, <3>1
    <3> QED
      BY <1>1, <1>2, <3>2, SettleEvery
  <2> QED
    BY <2>1, <2>2
<1>4. /\ Has(candidate, "promoted") = {} /\ Has(candidate, "vested") = {}
      /\ DOMAIN candidate \subseteq Manifests
      /\ \A m \in DOMAIN candidate : candidate[m] \in RecordForms
  BY <1>1, <1>2 DEF StateOK, Line, Square
<1>5. status \in Statuses /\ status \notin Live /\ status # "stale"
  BY DEF Statuses, Live
<1>6. /\ DOMAIN candidate' = DOMAIN candidate
      /\ \A m \in DOMAIN candidate :
           /\ candidate'[m] \in RecordForms
           /\ candidate'[m].bond = candidate[m].bond /\ candidate'[m].reward = candidate[m].reward
           /\ candidate'[m].status = IF m \in Eligible THEN status ELSE candidate[m].status
  BY <1>1, <1>4, <1>5 DEF Settled, RecordForms
<1>7. /\ e.closed = TRUE /\ Counted(e)
  BY <1>1, <1>2 DEF Counted
<1> HIDE DEF w, e
<1>8. ASSUME NEW c \in Contributors
      PROVE  /\ Of(candidate, Live, c) = ByAuthor(Eligible, c)
             /\ Of(candidate, {"vested"}, c) = {}
             /\ Of(candidate', Live, c) = {}
             /\ Of(candidate', {"vested"}, c) = IF passed THEN ByAuthor(Eligible, c) ELSE {}
  <2>1. Of(candidate, Live, c) = ByAuthor(Eligible, c) /\ Of(candidate, {"vested"}, c) = {}
    BY <1>4 DEF Of, ByAuthor, Eligible, Has, Live
  <2>2. \A m \in DOMAIN candidate : candidate'[m].status \notin Live
    BY <1>4, <1>5, <1>6 DEF Eligible, Has, Live
  <2>3. \A m \in DOMAIN candidate : candidate'[m].status = "vested" <=> passed /\ m \in Eligible
    BY <1>4, <1>6 DEF Has
  <2>4. Eligible \subseteq DOMAIN candidate
    BY DEF Eligible
  <2> QED
    BY <1>6, <2>1, <2>2, <2>3, <2>4 DEF Of, ByAuthor
<1>9. ASSUME NEW c \in Contributors
      PROVE  /\ ledger'.account[c].available >= 0
             /\ ledger'.account[c].locked = Owed(candidate', Live, c)
             /\ ledger'.account[c].vested = Owed(candidate', {"vested"}, c)
  <2> DEFINE moved == SumOver(w, ByAuthor(Eligible, c))
             first == ledger.account[c]
             is == ledger'.account[c]
  <2>1. /\ moved \in Nat
        /\ is.available >= first.available
        /\ is.locked + moved = first.locked
        /\ is.vested = first.vested + IF passed THEN moved ELSE 0
    BY <1>3 DEF SettledLedger, w
  <2>2. /\ first.available \in Nat
        /\ first.locked = moved /\ first.vested = 0
    <3>1. /\ first.locked = Owed(candidate, Live, c)
          /\ first.vested = Owed(candidate, {"vested"}, c)
      BY <1>2 DEF Square
    <3>2. Owed(candidate, Live, c) = moved /\ Owed(candidate, {"vested"}, c) = 0
      BY <1>8, SumEmpty DEF Owed, w
    <3> QED
      BY <1>2, <3>1, <3>2, Units
  <2>3. Owed(candidate', Live, c) = 0
    BY <1>8, SumEmpty DEF Owed
  <2>4. Owed(candidate', {"vested"}, c) = IF passed THEN moved ELSE 0
    <3>1. CASE passed
      <4> DEFINE s == ByAuthor(Eligible, c)
                 v == Worth(candidate')
      <4>1. IsFiniteSet(s)
        <5>1. s \in SUBSET Eligible
          BY DEF ByAuthor
        <5> QED
          BY <1>2, <5>1, EligibleFinite, FS_Subset
      <4>2. \A m \in s : w[m] \in Nat /\ w[m] = v[m]
        BY <1>4, <1>6 DEF Worth, w, ByAuthor, Eligible, RecordForms
      <4> HIDE DEF s, v
      <4>3. SumOver(w, s) = SumOver(v, s)
        BY <4>1, <4>2, SumSame
      <4> QED
        BY <1>8, <3>1, <4>3 DEF Owed, s, v
    <3>2. CASE ~passed
      BY <1>8, <3>2, SumEmpty DEF Owed
    <3> QED
      BY <3>1, <3>2
  <2>5. is.available \in Int /\ is.locked \in Int
    <3>1. ledger'.account[c] \in Accounts
      BY <1>3 DEF SettledLedger, Ledgers
    <3> QED
      BY <3>1 DEF Accounts
  <2> HIDE DEF moved, is, first
  <2>6. is.available >= 0 /\ is.locked = 0 /\ is.vested = IF passed THEN moved ELSE 0
    BY <2>1, <2>2, <2>5
  <2> QED
    BY <2>3, <2>4, <2>6 DEF is
<1>10. \A m \in Manifests, k \in Testing :
         HasKey(ledger', <<k, m>>) => HasKey(ledger, <<k, m>>)
  BY <1>3 DEF SettledLedger, Testing, Settling
<1>11. \A m \in Manifests, k \in Testing :
         HasKey(ledger', <<k, m>>) => m \in DOMAIN candidate' /\ candidate'[m].status # "stale"
  BY <1>2, <1>5, <1>6, <1>10 DEF Square
<1>12. \A m \in Manifests : HasKey(ledger', <<"slash", m>>) => candidate'[m].status \notin Live
  <2>1. "slash" \in Testing
    BY DEF Testing
  <2> QED
    BY <1>2, <1>5, <1>6, <1>10, <2>1 DEF Square
<1>13. ledger' \in Ledgers
  BY <1>3 DEF SettledLedger
<1>14. Square(ledger', candidate', e)
  BY <1>4, <1>6, <1>7, <1>9, <1>11, <1>12, <1>13 DEF Square
<1> QED
  BY <1>7, <1>14 DEF SquareNow, e

(* What ends in a save leaves the file as square as the memory.             *)
LEMMA PersistSquare ==
  ASSUME SquareInv, SquareNow', Persist
  PROVE  SquareInv'
<1>1. CASE saved' = service'
  BY <1>1 DEF service, SquareInv, SquareNow
<1>2. CASE saved' = saved
  BY <1>2 DEF SquareInv, SquareNow
<1> QED
  BY <1>1, <1>2 DEF Persist

LEMMA SquareInit == Init => SquareInv
<1> SUFFICES ASSUME Init PROVE SquareInv
  OBVIOUS
<1>1. /\ ledger = [account |-> [c \in Contributors |->
                                  [available |-> 0, locked |-> 0, vested |-> 0]],
                   entries |-> {}]
      /\ epoch.submissions = [c \in Contributors |-> 0] /\ epoch.closed = FALSE
      /\ candidate = << >>
      /\ saved = <<ledger, epoch, candidate, canonical, canary, principal>>
  BY DEF Init, service
<1>2. DOMAIN candidate = {}
  BY <1>1
<1>3. ledger \in Ledgers /\ ledger.entries = {}
  BY <1>1 DEF Ledgers, Accounts
<1>4. ASSUME NEW c \in Contributors
      PROVE  /\ ledger.account[c].available >= 0
             /\ ledger.account[c].locked = Owed(candidate, Live, c)
             /\ ledger.account[c].vested = Owed(candidate, {"vested"}, c)
  <2>1. \A S : Of(candidate, S, c) = {}
    BY <1>2 DEF Of
  <2>2. \A S : Owed(candidate, S, c) = 0
    BY <2>1, SumEmpty DEF Owed
  <2> QED
    BY <1>1, <2>2
<1>5. \A k : ~HasKey(ledger, k)
  BY <1>3 DEF HasKey
<1>6. Square(ledger, candidate, epoch)
  BY <1>2, <1>3, <1>4, <1>5 DEF Square
<1>7. Counted(epoch)
  <2>1. 0 \in 0..MaxTestsEach
    BY PolicyAssumption
  <2> QED
    BY <1>1, <2>1 DEF Counted
<1> QED
  BY <1>1, <1>6, <1>7 DEF SquareInv

LEMMA SquareNext ==
  ASSUME LineInv, SquareInv, [Next]_vars
  PROVE  SquareInv'
<1>0. SquareNow /\ StateOK(candidate, canonical, canary, epoch) /\ Kept(candidate)
  BY KeptOfLine DEF LineInv, SquareInv, SquareNow
<1>1. CASE RegisterContributor
  BY <1>1 DEF RegisterContributor, service, SquareInv
<1>2. CASE Restart
  BY <1>2 DEF Restart, SquareInv
<1>3. ASSUME NEW c \in Contributors, NEW p \in Principals, FundContributor(c, p)
      PROVE  SquareInv'
  BY <1>0, <1>3, FundSquare, PersistSquare DEF FundContributor
<1>4. ASSUME NEW m \in Manifests, Submit(m) PROVE SquareInv'
  <2>1. Persist
    BY <1>4 DEF Submit, Defer, SubmitStale, SubmitExhausted, SubmitRejected, SubmitPromoted
  <2> QED
    BY <1>0, <1>4, <2>1, SubmitSquare, PersistSquare
<1>5. ASSUME NEW b \in Batches, RecordCanaryBatch(b) PROVE SquareInv'
  <2>1. Persist
    BY <1>5 DEF RecordCanaryBatch, CanaryPending, CanaryPassed, CanaryRevoked
  <2> QED
    BY <1>0, <1>5, <2>1, CanarySquare, PersistSquare
<1>6. ASSUME NEW passed \in BOOLEAN, CloseEpoch(passed) PROVE SquareInv'
  BY <1>0, <1>6, CloseSquare, PersistSquare DEF CloseEpoch
<1>7. CASE RevealEpoch
  <2>1. /\ ledger' = ledger /\ candidate' = candidate
        /\ epoch' = [epoch EXCEPT !.revealed = TRUE] /\ Persist
    BY <1>7 DEF RevealEpoch
  <2>2. epoch'.closed = epoch.closed /\ epoch'.submissions = epoch.submissions
    BY <2>1
  <2>3. SquareNow'
    BY <1>0, <2>1, <2>2 DEF SquareNow, Square, Counted
  <2> QED
    BY <2>1, <2>3, PersistSquare
<1>8. CASE UNCHANGED vars
  BY <1>8 DEF vars, service, SquareInv
<1> QED
  BY <1>1, <1>2, <1>3, <1>4, <1>5, <1>6, <1>7, <1>8 DEF Next

(* No operation of the ledger overdraws an account.                         *)
NothingOverdrawn ==
  \A c \in Contributors : \A balance \in DOMAIN ledger.account[c] :
    ledger.account[c][balance] >= 0

(* Whatever is funded, submitted, revoked and settled, written or not and    *)
(* reloaded: every unit locked or vested is a bond or a reward of a candidate *)
(* of its contributor that is owed one, and no account is overdrawn.         *)
THEOREM LedgerMatches == Spec => [](LockedMatchesCandidates /\ NothingOverdrawn)
<1>1. LineInv /\ SquareInv => LockedMatchesCandidates
  <2> SUFFICES ASSUME SquareInv, NEW c \in Contributors
               PROVE  /\ ledger.account[c].locked = Owed(candidate, Live, c)
                      /\ ledger.account[c].vested = Owed(candidate, {"vested"}, c)
    BY DEF LockedMatchesCandidates, Owed, SumOver, Worth, Of, Standing
  <2> QED
    BY DEF SquareInv, Square
<1>2. LineInv /\ SquareInv => NothingOverdrawn
  <2> SUFFICES ASSUME LineInv, SquareInv, NEW c \in Contributors,
                      NEW balance \in DOMAIN ledger.account[c]
               PROVE  ledger.account[c][balance] >= 0
    BY DEF NothingOverdrawn
  <2>1. Square(ledger, candidate, epoch) /\ Kept(candidate)
    BY KeptOfLine DEF LineInv, SquareInv
  <2>2. \A S \in Standings : Owed(candidate, S, c) \in Nat
    <3>1. ASSUME NEW S \in Standings PROVE Owed(candidate, S, c) \in Nat
      <4> DEFINE s == Of(candidate, S, c)
                 w == Worth(candidate)
      <4>1. s \in SUBSET {n \in DOMAIN candidate : candidate[n].status \in Live \cup {"vested"}}
        BY DEF Of, Standings
      <4>2. IsFiniteSet(s)
        <5> HIDE DEF s
        <5> QED
          BY <2>1, <4>1, FS_Subset DEF Kept
      <4>3. \A m \in s : w[m] \in Nat
        BY <2>1 DEF Worth, Of, Square, RecordForms
      <4> HIDE DEF s, w
      <4>4. SumOver(w, s) \in Nat
        BY <4>2, <4>3, SumAdds
      <4> QED
        BY <4>4 DEF Owed, s, w
    <3> QED
      BY <3>1
  <2>3. DOMAIN ledger.account[c] = {"available", "locked", "vested"}
    <3>1. ledger.account[c] \in Accounts
      BY <2>1 DEF Square, Ledgers
    <3> QED
      BY <3>1 DEF Accounts
  <2>4. /\ ledger.account[c].available >= 0
        /\ ledger.account[c].locked = Owed(candidate, Live, c)
        /\ ledger.account[c].vested = Owed(candidate, {"vested"}, c)
    BY <2>1 DEF Square
  <2>5. Owed(candidate, Live, c) >= 0 /\ Owed(candidate, {"vested"}, c) >= 0
    BY <2>2 DEF Standings
  <2> QED
    BY <2>3, <2>4, <2>5
<1>3. LineInv /\ [Next]_vars => LineInv'
  BY LineStep
<1>4. LineInv /\ SquareInv /\ [Next]_vars => SquareInv'
  BY SquareNext
<1> QED
  BY LineInit, SquareInit, <1>1, <1>2, <1>3, <1>4, PTL DEF Spec
=============================================================================
