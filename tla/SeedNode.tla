------------------------------ MODULE SeedNode ------------------------------
(***************************************************************************)
(* One volunteer seed, worker/node.py, against the coordinator's queue of  *)
(* TaskQueue: the loop of SeedNode.run, its durable outbox, its renewal    *)
(* thread, its policy file, and the HTTP requests between the two.         *)
(*                                                                         *)
(* A request is answered (the handler's step and the seed's reaction are   *)
(* one step), or lost: the seed sees an exception, and the request may     *)
(* still be on its way and reach the coordinator later (late).  An answer  *)
(* that is lost on its way back is a lost request that arrives.            *)
(*                                                                         *)
(* The seed may be killed at any time; what is on disk is the policy, the  *)
(* outbox and the receipts.  The other nodes are as free as in TaskQueue.  *)
(***************************************************************************)
EXTENDS TaskQueue

CONSTANTS
  Seed,     \* the identity of the modelled seed
  NoJob,    \* no envelope in execution
  MaxLate   \* bound: how many requests may be on their way unattended

ASSUME SeedAssumption == Seed \in Nodes /\ MaxLate \in Nat

VARIABLES
  conf,      \* seed-config.json, which the user may change at any time
  policy,    \* SeedNode.policy: conf as last loaded
  offered,   \* the policy the coordinator has registered for the seed
  pc,        \* where the loop is
  job,       \* the envelope being executed
  until,     \* task["lease_expires_at"] as the seed knows it, relative to now
  renewing,  \* the renewal thread is alive
  outbox,    \* outbox/<task>.json: results not yet answered
  answers,   \* receipts/: the last answer to a result of a task
  late       \* requests the seed gave up on, still on their way

disk == <<conf, outbox, answers>>
seedVars == <<conf, policy, offered, pc, job, until, renewing, outbox, answers, late>>
allVars == <<vars, seedVars>>
-----------------------------------------------------------------------------
(* open: the policy admits the tasks (node_can_run); closed: paused, or its  *)
(* limits and task kinds admit none of them.                                 *)
Policies == {"open", "closed"}

Claim1 == [kind |-> "claim", job |-> NoJob]
Request(k, e) == [kind |-> k, job |-> e]

(* A completed task answers its own result again, without a receipt.         *)
Repeated(e) == /\ task[e.task].status = "completed"
               /\ task[e.task].assigned_to = e.node
               /\ task[e.task].lease_token = e.lease

Accepted(e) == \/ CompleteInference(e)
               \/ \E v \in Values : CompleteReplica(e, v) \/ CompleteSearch(e, v)

(* The claim of a seed whose registered policy admits nothing still sweeps.  *)
SweepOnly == /\ offered # "open"
             /\ task' = RowsAtClaim
             /\ SweepBeforeClaim
             /\ credit' = RefundedCredit(Exhausted(task))
             /\ balance' = RefundedBalance(Exhausted(task))
             /\ ledger' = RefundedLedger(Exhausted(task))
             /\ UNCHANGED <<reports, lastLease, held>>
Granted == offered = "open" /\ ClaimTask(Seed)
NotGranted == (offered = "open" /\ ClaimNothing(Seed)) \/ SweepOnly

(* register_node: the registered policy decides what is offered.             *)
RegisterAs(p) == offered' = p

(* The seed gives up on request r, which may or may not still arrive.        *)
Lost(r) == /\ UNCHANGED vars
           /\ \/ UNCHANGED late
              \/ Cardinality(late) < MaxLate /\ late' = late \cup {r}
-----------------------------------------------------------------------------
SeedInit ==
  /\ Init
  /\ conf = "open" /\ policy = "open" /\ offered = "open"
  /\ pc = "register"
  /\ job = NoJob /\ until = 0 /\ renewing = FALSE
  /\ outbox = {}
  /\ answers = [t \in Tasks |-> "none"]
  /\ late = {}

(***************************************************************************)
(* Registration and the top of the loop.                                   *)
(***************************************************************************)
Launch == /\ pc = "down"
          /\ pc' = "register"
          /\ policy' = conf
          /\ UNCHANGED <<vars, disk, offered, job, until, renewing, late>>

(* register(force=True), repeated until it is answered                       *)
Register == /\ pc = "register"
            /\ RegisterAs(policy)
            /\ pc' \in {"top", "register"}
            /\ UNCHANGED <<vars, disk, policy, job, until, renewing, late>>

(* _reload_policy, then register if the policy changed or a minute has       *)
(* passed.  After a failed registration the new policy is already loaded, so *)
(* only the minute brings the next attempt.                                  *)
Reload == /\ pc = "top"
          /\ policy' = conf
          /\ \/ conf = policy /\ pc' = "flush" /\ UNCHANGED offered
             \/ RegisterAs(conf) /\ pc' \in {"flush", "top"}
             \/ conf # policy /\ pc' = "top" /\ UNCHANGED offered
          /\ UNCHANGED <<vars, disk, job, until, renewing, late>>

(***************************************************************************)
(* The outbox.                                                             *)
(***************************************************************************)
Settle(e, answer) ==
  /\ outbox' = outbox \ {e}
  /\ answers' = [answers EXCEPT ![e.task] = answer]
  /\ UNCHANGED <<conf, policy, offered, pc, job, until, renewing, late>>

(* A handler raised, or the request was too large or malformed: 400, 413 or  *)
(* 422.  Whatever was done is rolled back, and the lease stays alive.        *)
RolledBack(e) == MayReport(e) /\ UNCHANGED vars

(* Mutants of Deliver: an answer without a receipt is not accepted as one;   *)
(* every answered 4xx counts as accepted.                                    *)
DeliverReceiptsOnly(e) ==
  /\ pc \in {"flush", "deliver"}
  /\ \/ Accepted(e) /\ Settle(e, "accepted")
     \/ ~Repeated(e) /\ ~MayReport(e) /\ UNCHANGED vars /\ Settle(e, "rejected")
     \/ Reject(e) /\ Settle(e, "rejected")
     \/ RolledBack(e) /\ Settle(e, "aborted")
DeliverUnchecked(e) ==
  /\ pc \in {"flush", "deliver"}
  /\ \/ Accepted(e) /\ Settle(e, "accepted")
     \/ UNCHANGED vars /\ Settle(e, "accepted")
     \/ Reject(e) /\ Settle(e, "accepted")

(* One file of _flush_outbox, answered: accepted with a receipt, accepted    *)
(* again without one, or refused with a 4xx the seed takes for final.  The   *)
(* receipt of a refusal is the same file in all three cases; "aborted" says  *)
(* that the coordinator recorded nothing and the lease was alive.            *)
Deliver(e) ==
  /\ pc \in {"flush", "deliver"}
  /\ \/ Accepted(e) /\ Settle(e, "accepted")
     \/ Repeated(e) /\ UNCHANGED vars /\ Settle(e, "duplicate")
     \/ ~Repeated(e) /\ ~MayReport(e) /\ UNCHANGED vars /\ Settle(e, "rejected")
     \/ Reject(e) /\ Settle(e, "rejected")
     \/ RolledBack(e) /\ Settle(e, "aborted")

(* Mutant of DeliverFails: a lost answer takes the file along.               *)
DeliverFailsForgetting(e) ==
  /\ pc \in {"flush", "deliver"}
  /\ Lost(Request("result", e))
  /\ pc' = "top"
  /\ outbox' = outbox \ {e}
  /\ UNCHANGED <<conf, answers, policy, offered, job, until, renewing>>

(* Transport errors, 5xx, 408, 409, 425 and 429 leave the file for the next  *)
(* iteration, which starts at the top of the loop: nothing is claimed.       *)
DeliverFails(e) ==
  /\ pc \in {"flush", "deliver"}
  /\ Lost(Request("result", e))
  /\ pc' = "top"
  /\ UNCHANGED <<disk, policy, offered, job, until, renewing>>

(* Mutant of Flushed: the loop goes on with results still in the outbox.     *)
FlushedEarly == /\ pc \in {"flush", "deliver"}
                /\ pc' = IF pc = "flush" THEN "claim" ELSE "top"
                /\ UNCHANGED <<vars, disk, policy, offered, job, until, renewing, late>>

(* The outbox is empty: claim next, unless local_run_condition finds the     *)
(* seed paused, on battery or busy; after its own result it starts over.     *)
Flushed == /\ pc \in {"flush", "deliver"}
           /\ outbox = {}
           /\ pc' = "top" \/ (pc = "flush" /\ pc' = "claim")
           /\ UNCHANGED <<vars, disk, policy, offered, job, until, renewing, late>>

(***************************************************************************)
(* Claiming and executing.                                                 *)
(***************************************************************************)
Claims == /\ pc = "claim"
          /\ Granted
          /\ job' = CHOOSE e \in held' \ held : TRUE
          /\ until' = task'[job'.task].expires
          /\ pc' = "got"
          /\ UNCHANGED <<disk, policy, offered, renewing, late>>

ClaimsNothing == /\ pc = "claim"
                 /\ NotGranted
                 /\ pc' = "top"
                 /\ UNCHANGED <<disk, policy, offered, job, until, renewing, late>>

ClaimFails == /\ pc = "claim"
              /\ Lost(Claim1)
              /\ pc' = "top"
              /\ UNCHANGED <<disk, policy, offered, job, until, renewing>>

(* _execute_signed_task: the envelope is live, the policy admits the task    *)
(* and the contract covers it; the renewal thread starts.                    *)
Begin == /\ pc = "got"
         /\ until >= 0
         /\ policy = "open"
         /\ pc' = "work"
         /\ renewing' = TRUE
         /\ UNCHANGED <<vars, disk, policy, offered, job, until, late>>

Idle == job' = NoJob /\ until' = 0 /\ renewing' = FALSE

(* _lease_renewal_loop: the thread ends at the first refusal or error        *)
RenewJob ==
  /\ pc = "work" /\ renewing
  /\ \/ /\ Renew(job)
        /\ until' = task'[job.task].expires
        /\ UNCHANGED <<renewing, late>>
     \/ /\ ~ENABLED Renew(job)
        /\ renewing' = FALSE
        /\ UNCHANGED <<vars, until, late>>
     \/ /\ Lost(Request("renew", job))
        /\ renewing' = FALSE
        /\ UNCHANGED until
  /\ UNCHANGED <<disk, policy, offered, pc, job>>

(* _abandon: whatever comes of the request is not looked at                  *)
GiveBack == \/ Abandon(job) /\ UNCHANGED late
            \/ Lost(Request("abandon", job))

(* TaskExecutionCancelled: expired, outside the policy, an understated       *)
(* contract, a timeout, too much memory, or a policy changed meanwhile.      *)
Cancel == /\ pc \in {"got", "work"}
          /\ GiveBack
          /\ pc' = "top"
          /\ Idle
          /\ UNCHANGED <<disk, policy, offered>>

(* Any other error while it fetches or executes: the lease is left to expire *)
Fail == /\ pc \in {"got", "work"}
        /\ pc' = "top"
        /\ Idle
        /\ UNCHANGED <<vars, disk, policy, offered, late>>

(* The output is signed and queued; a file of the same task is replaced.     *)
Finish == /\ pc = "work"
          /\ outbox' = {e \in outbox : e.task # job.task} \cup {job}
          /\ pc' = "deliver"
          /\ Idle
          /\ UNCHANGED <<vars, conf, answers, policy, offered, late>>

(***************************************************************************)
(* The user, a kill, the network, and everyone else.                       *)
(***************************************************************************)
SetPolicy == /\ conf' \in Policies
             /\ UNCHANGED <<vars, policy, offered, pc, job, until, renewing,
                            outbox, answers, late>>

Kill == /\ pc # "down"
        /\ pc' = "down"
        /\ Idle
        /\ UNCHANGED <<vars, disk, policy, offered, late>>

(* A late request is handled once (its nonce is consumed) with nobody        *)
(* waiting for the answer, refused, or lost for good.                                                          *)
Arrive(r) ==
  /\ late' = late \ {r}
  /\ \/ UNCHANGED vars
     \/ r.kind = "claim" /\ (Granted \/ NotGranted)
     \/ r.kind = "renew" /\ Renew(r.job)
     \/ r.kind = "abandon" /\ Abandon(r.job)
     \/ r.kind = "result" /\ (Accepted(r.job) \/ Reject(r.job))
  /\ UNCHANGED <<conf, policy, offered, pc, job, until, renewing, outbox, answers>>

Elsewhere ==
  /\ \/ Enqueue
     \/ Stats
     \/ \E n \in Nodes \ {Seed} : Claim(n)
     \/ \E e \in held : e.node # Seed /\ Respond(e)
  /\ UNCHANGED seedVars

TimePasses == /\ Tick
              /\ until' = IF job = NoJob THEN until ELSE Elapsed(until)
              /\ UNCHANGED <<conf, policy, offered, pc, job, renewing, outbox,
                             answers, late>>

SeedNext ==
  \/ Launch \/ Register \/ Reload
  \/ \E e \in outbox : Deliver(e) \/ DeliverFails(e)
  \/ Flushed
  \/ Claims \/ ClaimsNothing \/ ClaimFails
  \/ Begin \/ RenewJob \/ Cancel \/ Fail \/ Finish
  \/ SetPolicy \/ Kill
  \/ \E r \in late : Arrive(r)
  \/ Elsewhere
  \/ TimePasses

SeedSpec == SeedInit /\ [][SeedNext]_allVars

(* The loop runs, and of the requests it repeats for ever some are answered. *)
Registered == Register /\ pc' = "top"
Looped == Reload /\ offered' = conf /\ pc' = "flush"
Delivered == \E e \in outbox : Deliver(e)
SeedFairness == SF_allVars(Registered) /\ SF_allVars(Looped) /\ SF_allVars(Delivered)
SeedFairSpec == SeedSpec /\ SeedFairness
-----------------------------------------------------------------------------
(* A result that could still count is never lost to a kill, a timeout, a     *)
(* lost answer or a change of the policy: once its file is gone, either the  *)
(* coordinator would refuse the lease it belongs to, or the coordinator      *)
(* itself answered with an error and rolled back.  In that case the seed     *)
(* gives up work it could have delivered, and what the coordinator holds is  *)
(* the lease and nothing of the result.                                      *)
GivenUpIsAnswered ==
  [][\A e \in outbox \ outbox' :
       MayReport(e)' => answers'[e.task] = "aborted" /\ UNCHANGED vars]_allVars

(* What the seed keeps on disk agrees with the coordinator's table: a task   *)
(* is completed in its name exactly when its receipt says so, unless the     *)
(* result is still in the outbox; no answer is lost to a kill, a lost        *)
(* response or a repeated delivery, and no refused result was ever accepted. *)
(* (A result answered with an error can have an older copy on its way, which *)
(* the coordinator may accept unnoticed.)                                    *)
RecordsAgree ==
  \A t \in Tasks :
    LET done == task[t].status = "completed" /\ task[t].assigned_to = Seed
        said == answers[t] \in {"accepted", "duplicate"}
    IN  /\ said => done
        /\ done => \/ said \/ answers[t] = "aborted"
                   \/ \E e \in outbox : Repeated(e) /\ e.task = t

(* However deliveries fail and the process is killed, the seed never takes   *)
(* work while a result waits: it has at most one of them undelivered.        *)
OneUndelivered ==
  /\ Cardinality(outbox) <= 1
  /\ job # NoJob => outbox = {}

(* A result does not stay in the outbox for ever, unless the seed stays down *)
ResultsSettle ==
  \A t \in Tasks : (\E e \in outbox : e.task = t)
                     ~> ((\A e \in outbox : e.task # t) \/ pc = "down")
=============================================================================
