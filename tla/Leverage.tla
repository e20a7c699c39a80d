------------------------------ MODULE Leverage ------------------------------
(***************************************************************************)
(* The Locality Leverage service, leverage/service.py: one challenge epoch *)
(* in which contributors submit candidate deltas against the canonical     *)
(* model, pay an escalating fee and lock a bond for each test, stand a     *)
(* canary window after promotion and are settled by one final replication. *)
(*                                                                         *)
(* Every method runs under one re-entrant lock and, if it raises, the      *)
(* snapshot taken on entry is restored: each is one action, and one that   *)
(* raises changes nothing.  The state file is replaced when the outermost  *)
(* call has ended.  That write may fail, or the process be killed before   *)
(* it: memory is then ahead of the file a restart loads.                   *)
(*                                                                         *)
(* A root is the sequence of the labels of the manifests composed into it  *)
(* (the compositional root hashes the parent root and the manifest), a     *)
(* canary batch is named by its data hash, and what the challenge, canary  *)
(* and replication data say of a model is chosen.                          *)
(***************************************************************************)
EXTENDS Integers, FiniteSets, Sequences, FiniteSetsExt

CONSTANTS
  Contributors,       \* authenticated node ids
  Principals,         \* externally verified identities
  Manifests,          \* [author, label, parent]: the candidates submitted
  Batches,            \* data hashes of canary batches
  GrantUnits, RewardUnits, BondUnits, StaleFeeUnits,
  SubmissionFee, FeeNumerator, FeeDenominator,
  MaxTests,           \* max_submissions_per_epoch
  MaxTestsEach,       \* max_submissions_per_contributor
  CanaryWindow,       \* canary_window_events
  MaxStale,           \* bound: stale submissions
  MaxFailures,        \* bound: writes of the state file that fail
  NoCandidate

ASSUME PolicyAssumption ==
  /\ GrantUnits \in Nat /\ RewardUnits \in Nat /\ BondUnits \in Nat
  /\ StaleFeeUnits \in Nat /\ SubmissionFee \in Nat
  /\ FeeNumerator \in Nat \ {0} /\ FeeDenominator \in Nat \ {0}
  /\ MaxTests \in Nat \ {0} /\ MaxTestsEach \in Nat \ {0} /\ CanaryWindow \in Nat \ {0}
ASSUME ManifestAssumption ==
  /\ \A m \in Manifests : m.author \in Contributors
  /\ \A m, n \in Manifests : m.label = n.label => m = n
  /\ NoCandidate \notin Manifests
  /\ \A m \in Manifests : m.parent \in Seq({n.label : n \in Manifests})

VARIABLES
  ledger,      \* accounts, and the entries by their idempotency keys
  epoch,       \* counters of the ChallengeEpoch, whether it is closed, passed
  candidate,   \* records by manifest
  canonical,   \* canonical_root
  canary,      \* active_canary_id
  principal,   \* contributor_principals
  saved,       \* what the state file holds of all this
  failures     \* writes that failed so far

service == <<ledger, epoch, candidate, canonical, canary, principal>>
vars == <<service, saved, failures>>

Genesis == << >>
Root(m) == Append(m.parent, m.label)

Live == {"promoted", "canary-passed"}
-----------------------------------------------------------------------------
(***************************************************************************)
(* leverage/ledger.py: an operation whose key was used before does nothing.*)
(* One that would overdraw raises; its callers see to it that none does:   *)
(* LeverageProofs shows that no balance becomes negative.                  *)
(***************************************************************************)
HasKey(L, key) == \E e \in L.entries : e.key = key

Apply(L, key, c, units, available, locked, vested) ==
  IF HasKey(L, key) THEN L
  ELSE [account |-> [L.account EXCEPT ![c] =
          [available |-> @.available + available, locked |-> @.locked + locked,
           vested |-> @.vested + vested]],
        entries |-> L.entries \cup {[key |-> key, contributor |-> c, units |-> units]}]

Grant(L, key, c, u)        == Apply(L, key, c, u, u, 0, 0)
BurnFee(L, key, c, u)      == Apply(L, key, c, u, -u, 0, 0)
LockBond(L, key, c, u)     == Apply(L, key, c, u, -u, u, 0)
RefundBond(L, key, c, u)   == Apply(L, key, c, u, u, -u, 0)
BurnLocked(L, key, c, u)   == Apply(L, key, c, u, 0, -u, 0)
LockReward(L, key, c, u)   == Apply(L, key, c, u, 0, u, 0)
CancelReward(L, key, c, u) == Apply(L, key, c, u, 0, -u, 0)
Vest(L, key, c, u)         == Apply(L, key, c, u, 0, -u, u)

Slash(L, key, c, u) ==
  LET slashable == Min({u, L.account[c].locked})
  IN  Apply(L, key, c, slashable, 0, -slashable, 0)

(* GatePolicy.escalated_fee, rounded down at every step.                     *)
EscalatedFee[prior \in 0..MaxTestsEach] ==
  IF prior = 0 THEN SubmissionFee
  ELSE (EscalatedFee[prior - 1] * FeeNumerator) \div FeeDenominator
-----------------------------------------------------------------------------
(***************************************************************************)
(* _persist_now at the end of the outermost call.                          *)
(***************************************************************************)
Persist == \/ /\ saved' = service'
              /\ UNCHANGED failures
           \/ /\ failures < MaxFailures
              /\ failures' = failures + 1
              /\ UNCHANGED saved

(* Of the methods only this one, of those that change nothing modelled here  *)
(* (it opens an empty account), ends in a save.                              *)
RegisterContributor ==
  /\ saved' = service
  /\ UNCHANGED <<service, failures>>

(* The process dies, and from_dict loads the file.                           *)
Restart ==
  /\ ledger' = saved[1] /\ epoch' = saved[2] /\ candidate' = saved[3]
  /\ canonical' = saved[4] /\ canary' = saved[5] /\ principal' = saved[6]
  /\ UNCHANGED <<saved, failures>>
-----------------------------------------------------------------------------
(* fund_contributor: one grant per principal, one principal per contributor. *)
FundContributor(c, p) ==
  /\ \A d \in DOMAIN principal : principal[d] = p => d = c
  /\ c \in DOMAIN principal => principal[c] = p
  /\ ledger' = Grant(ledger, <<"verified-grant", p>>, c, GrantUnits)
  /\ principal' = [d \in DOMAIN principal \cup {c} |-> IF d = c THEN p ELSE principal[d]]
  /\ UNCHANGED <<epoch, candidate, canonical, canary>>
  /\ Persist
-----------------------------------------------------------------------------
(***************************************************************************)
(* submit.  A manifest with a record is answered with its verdict, except  *)
(* that a stale one is taken up again once its parent is canonical.        *)
(***************************************************************************)
With(m, r) == [n \in DOMAIN candidate \cup {m} |-> IF n = m THEN r ELSE candidate[n]]
Without(m) == [n \in DOMAIN candidate \ {m} |-> candidate[n]]

CandidateRecord(status, bond, reward) ==
  [status |-> status, bond |-> bond, reward |-> reward, observations |-> {}]

Current(m) ==
  /\ ~epoch.closed
  /\ m \in DOMAIN candidate => candidate[m].status = "stale" /\ m.parent = canonical

(* A canary window is open: no record, no charge.                            *)
Defer(m) ==
  /\ Current(m)
  /\ canary # NoCandidate
  /\ candidate' = Without(m)
  /\ UNCHANGED <<ledger, epoch, canonical, canary, principal>>
  /\ Persist

SubmitStale(m) ==
  /\ Current(m)
  /\ canary = NoCandidate
  /\ m.parent # canonical
  /\ epoch.stale < MaxStale
  /\ ledger.account[m.author].available >= StaleFeeUnits
  /\ ledger' = IF StaleFeeUnits = 0 THEN ledger
               ELSE BurnFee(ledger, <<"stale-fee", m>>, m.author, StaleFeeUnits)
  /\ epoch' = [epoch EXCEPT !.stale = @ + 1]
  /\ candidate' = With(m, CandidateRecord("stale", 0, 0))
  /\ UNCHANGED <<canonical, canary, principal>>
  /\ Persist

(* Mutant of Evaluable: the canary window is not waited for.                 *)
EvaluableInWindow(m) ==
  /\ Current(m)
  /\ m.parent = canonical
  /\ ledger.account[m.author].available >=
       EscalatedFee[epoch.submissions[m.author]] + BondUnits

(* the checks of submit before admit_submission *)
Evaluable(m) ==
  /\ Current(m)
  /\ canary = NoCandidate
  /\ m.parent = canonical
  /\ ledger.account[m.author].available >=
       EscalatedFee[epoch.submissions[m.author]] + BondUnits

Exhausted(c) == \/ epoch.tests >= MaxTests
                \/ epoch.submissions[c] >= MaxTestsEach

(* admit_submission refuses: a rejected record that costs nothing.           *)
SubmitExhausted(m) ==
  /\ Evaluable(m)
  /\ Exhausted(m.author)
  /\ candidate' = With(m, CandidateRecord("rejected", 0, 0))
  /\ UNCHANGED <<ledger, epoch, canonical, canary, principal>>
  /\ Persist

Admit(m) == [epoch EXCEPT !.submissions[m.author] = @ + 1, !.tests = @ + 1]

Charge(m) ==
  LockBond(BurnFee(ledger, <<"fee", m>>, m.author, EscalatedFee[epoch.submissions[m.author]]),
           <<"bond", m>>, m.author, BondUnits)

SubmitRejected(m) ==
  /\ Evaluable(m)
  /\ ~Exhausted(m.author)
  /\ epoch' = Admit(m)
  /\ ledger' = BurnLocked(Charge(m), <<"bond-burn", m>>, m.author, BondUnits)
  /\ candidate' = With(m, CandidateRecord("rejected", 0, 0))
  /\ UNCHANGED <<canonical, canary, principal>>
  /\ Persist

SubmitPromoted(m) ==
  /\ Evaluable(m)
  /\ ~Exhausted(m.author)
  /\ epoch' = Admit(m)
  /\ ledger' = LockReward(Charge(m), <<"reward", m>>, m.author, RewardUnits)
  /\ candidate' = With(m, CandidateRecord("promoted", BondUnits, RewardUnits))
  /\ canonical' = Root(m)
  /\ canary' = m
  /\ UNCHANGED principal
  /\ Persist
-----------------------------------------------------------------------------
(***************************************************************************)
(* record_canary_batch: each batch of data counts once.                    *)
(***************************************************************************)
Observed(b) == [candidate EXCEPT ![canary].observations = @ \cup {b}]

InWindow(b) ==
  /\ canary # NoCandidate
  /\ candidate[canary].status = "promoted"
  /\ b \notin candidate[canary].observations

CanaryPending(b) ==
  /\ InWindow(b)
  /\ candidate' = Observed(b)
  /\ Cardinality(candidate'[canary].observations) < CanaryWindow
  /\ UNCHANGED <<ledger, epoch, canonical, canary, principal>>
  /\ Persist

CanaryPassed(b) ==
  /\ InWindow(b)
  /\ candidate' = [Observed(b) EXCEPT ![canary].status = "canary-passed"]
  /\ Cardinality(candidate'[canary].observations) >= CanaryWindow
  /\ canary' = NoCandidate
  /\ UNCHANGED <<ledger, epoch, canonical, principal>>
  /\ Persist

(* Mutant of SlashRevoked: the reward stays locked.                          *)
SlashBondOnly(m) == Slash(ledger, <<"slash", m>>, m.author, candidate[m].bond)

SlashRevoked(m) ==
  Slash(ledger, <<"slash", m>>, m.author, candidate[m].bond + candidate[m].reward)

(* Mutant of CanaryRevoked: record_canary_batch returns before it has saved. *)
CanaryRevokedUnsaved(b) ==
  /\ InWindow(b)
  /\ ledger' = SlashRevoked(canary)
  /\ candidate' = [Observed(b) EXCEPT ![canary].status = "revoked"]
  /\ canonical' = canary.parent
  /\ canary' = NoCandidate
  /\ UNCHANGED <<epoch, principal, saved, failures>>

(* _revoke: the batch shows a regression.                                    *)
CanaryRevoked(b) ==
  /\ InWindow(b)
  /\ ledger' = SlashRevoked(canary)
  /\ candidate' = [Observed(b) EXCEPT ![canary].status = "revoked"]
  /\ canonical' = canary.parent
  /\ canary' = NoCandidate
  /\ UNCHANGED <<epoch, principal>>
  /\ Persist
-----------------------------------------------------------------------------
(***************************************************************************)
(* close_epoch settles every candidate that passed its canary; called      *)
(* again it returns the report.                                            *)
(***************************************************************************)
Eligible == {m \in DOMAIN candidate : candidate[m].status = "canary-passed"}

VestAll(m, L) ==
  Vest(Vest(L, <<"vest-bond", m>>, m.author, candidate[m].bond),
       <<"vest-reward", m>>, m.author, candidate[m].reward)
CancelAll(m, L) ==
  CancelReward(RefundBond(L, <<"refund-bond", m>>, m.author, candidate[m].bond),
               <<"cancel-reward", m>>, m.author, candidate[m].reward)

Settled(status) == [m \in DOMAIN candidate |->
  IF m \in Eligible THEN [candidate[m] EXCEPT !.status = status] ELSE candidate[m]]

MayClose == ~epoch.closed /\ canary = NoCandidate

CloseEpoch(passed) ==
  /\ MayClose
  /\ ledger' = IF passed THEN FoldSet(VestAll, ledger, Eligible)
                         ELSE FoldSet(CancelAll, ledger, Eligible)
  /\ candidate' = Settled(IF passed THEN "vested" ELSE "replication-rejected")
  /\ canonical' = IF passed THEN canonical ELSE Genesis
  /\ epoch' = [epoch EXCEPT !.closed = TRUE]
  /\ UNCHANGED <<canary, principal>>
  /\ Persist

RevealEpoch ==
  /\ epoch.closed
  /\ epoch' = [epoch EXCEPT !.revealed = TRUE]
  /\ UNCHANGED <<ledger, candidate, canonical, canary, principal>>
  /\ Persist
-----------------------------------------------------------------------------
Init ==
  /\ ledger = [account |-> [c \in Contributors |->
                              [available |-> 0, locked |-> 0, vested |-> 0]],
               entries |-> {}]
  /\ epoch = [submissions |-> [c \in Contributors |-> 0], tests |-> 0, stale |-> 0,
              closed |-> FALSE, revealed |-> FALSE]
  /\ candidate = << >>
  /\ canonical = Genesis
  /\ canary = NoCandidate
  /\ principal = << >>
  /\ saved = service
  /\ failures = 0

Submit(m) == \/ Defer(m) \/ SubmitStale(m) \/ SubmitExhausted(m)
             \/ SubmitRejected(m) \/ SubmitPromoted(m)

RecordCanaryBatch(b) == CanaryPending(b) \/ CanaryPassed(b) \/ CanaryRevoked(b)

Next == \/ RegisterContributor
        \/ Restart
        \/ \E c \in Contributors, p \in Principals : FundContributor(c, p)
        \/ \E m \in Manifests : Submit(m)
        \/ \E b \in Batches : RecordCanaryBatch(b)
        \/ \E passed \in BOOLEAN : CloseEpoch(passed)
        \/ RevealEpoch

Spec == Init /\ [][Next]_vars
-----------------------------------------------------------------------------
(***************************************************************************)
(* Properties.                                                             *)
(***************************************************************************)
Standing(S) == {m \in DOMAIN candidate : candidate[m].status \in S}

(* The ledger agrees with the records of the candidates: what a contributor  *)
(* has locked is the bonds and rewards of its candidates whose fate is open, *)
(* what it has vested those of its vested ones.  Slashing takes the smaller  *)
(* of a debt and the locked balance and would hide a difference.             *)
LockedMatchesCandidates ==
  \A c \in Contributors :
    LET worth   == [m \in DOMAIN candidate |-> candidate[m].bond + candidate[m].reward]
        owed(S) == MapThenSumSet(LAMBDA m : worth[m], {m \in Standing(S) : m.author = c})
    IN  /\ ledger.account[c].locked = owed(Live)
        /\ ledger.account[c].vested = owed({"vested"})

(* The canonical root is Genesis and, in order, the candidates that are      *)
(* promoted, passed or vested; only its last one may be in a canary window.  *)
LineageIsEarned ==
  LET earned == Standing(Live \cup {"vested"})
  IN  /\ Cardinality(earned) = Len(canonical)
      /\ \A i \in DOMAIN canonical : \E m \in earned : Root(m) = SubSeq(canonical, 1, i)
      /\ Standing({"promoted"}) = {canary} \ {NoCandidate}
      /\ canary # NoCandidate => Root(canary) = canonical

(* A verdict against a candidate stands, across restarts too, as long as no  *)
(* write of the state file has failed: a revoked candidate does not come     *)
(* back, a rejected one is not tested again.                                 *)
VerdictsStand ==
  [][failures = 0 =>
       \A m \in Standing({"rejected", "revoked", "replication-rejected"}) :
         m \in DOMAIN candidate' /\ candidate'[m].status = candidate[m].status]_vars
=============================================================================
