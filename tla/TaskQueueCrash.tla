--------------------------- MODULE TaskQueueCrash ---------------------------
(***************************************************************************)
(* TaskQueue with a coordinator that may be killed in the middle of the    *)
(* handlers that run outside a transaction: the connection is opened with  *)
(* isolation_level=None, so each of their statements is durable at once.   *)
(* They are the sweep of stats (claim_task sweeps inside its transaction)  *)
(* and abandon_task.  A restart reads everything back from SQLite, and the *)
(* statements that were not reached are never executed.                    *)
(***************************************************************************)
EXTENDS TaskQueue

CONSTANT MaxCrashes  \* bound: how many crashes a behaviour may contain

ASSUME CrashAssumption == MaxCrashes \in Nat

VARIABLE crashes

crashVars == <<vars, crashes>>

(* Mutant of SweepStatements: the refund comes before the row is released.   *)
RefundFirst == <<"quarantine", "credit", "flag", "ledger", "row">>

(* The statements requeue_expired_leases executes for one expired row, in    *)
(* order; the last three only for a paid inference whose budget is spent.    *)
SweepStatements == <<"quarantine", "row", "credit", "flag", "ledger">>
Executed(s, p) == \E i \in 1..p : SweepStatements[i] = s

(* The sweep was killed: the rows of done are swept, row t only as far as    *)
(* statement p of its own, the others not at all.                            *)
CrashInSweep(done, t, p) ==
  LET rows == done \cup IF Executed("row", p) THEN {t} ELSE {}
      barred == done \cup IF Executed("quarantine", p) THEN {t} ELSE {}
      after(s) == Exhausted(task) \cap (done \cup IF Executed(s, p) THEN {t} ELSE {})
  IN  /\ task' = [u \in Tasks |-> IF u \in rows THEN Faulted(u, task[u]) ELSE task[u]]
      /\ quarantine' = [n \in Nodes |->
                          IF \E u \in barred : task[u].assigned_to = n
                            THEN Later(quarantine[n], ExpiryQuarantine)
                            ELSE quarantine[n]]
      /\ credit' = RefundedCredit(after("credit"))
      /\ refunded' = refunded \cup Refundable(after("flag"))
      /\ balance' = RefundedBalance(after("ledger"))
      /\ ledger' = RefundedLedger(after("ledger"))
      /\ UNCHANGED <<reports, stale, lastLease, held>>

(* Mutant of CrashInAbandon: the ledger is written before the balance.       *)
CrashInAbandonLedgerFirst(e, ledgered) ==
  LET row == task[e.task]
      key == BondRefundKey(e.task, e.lease)
  IN  /\ Holds(e)
      /\ row.bond > 0
      /\ balance' = [balance EXCEPT ![e.node] = @ + ReturnedBond(row, key)]
      /\ ledger' = ledger \cup {key}
      /\ credit' = IF ledgered THEN [credit EXCEPT ![e.node] = @ + row.bond] ELSE credit
      /\ UNCHANGED <<task, quarantine, refunded, reports, stale, lastLease, held>>

(* abandon_task was killed after it returned the bond, before or after the   *)
(* ledger row, and before it released the task.                              *)
CrashInAbandon(e, ledgered) ==
  LET row == task[e.task]
      key == BondRefundKey(e.task, e.lease)
  IN  /\ Holds(e)
      /\ row.bond > 0
      /\ credit' = [credit EXCEPT ![e.node] = @ + row.bond]
      /\ balance' = IF ledgered THEN [balance EXCEPT ![e.node] = @ + ReturnedBond(row, key)]
                                ELSE balance
      /\ ledger' = IF ledgered THEN ledger \cup {key} ELSE ledger
      /\ UNCHANGED <<task, quarantine, refunded, reports, stale, lastLease, held>>

Crash ==
  /\ crashes < MaxCrashes
  /\ crashes' = crashes + 1
  /\ \/ \E t \in Expired(task), p \in 0..4 : \E done \in SUBSET (Expired(task) \ {t}) :
          CrashInSweep(done, t, p)
     \/ \E e \in held, ledgered \in BOOLEAN : CrashInAbandon(e, ledgered)

CrashInit == Init /\ crashes = 0

CrashNext == (Next /\ UNCHANGED crashes) \/ Crash

CrashSpec == CrashInit /\ [][CrashNext]_crashVars
-----------------------------------------------------------------------------
(* The column credit_units is written before the ledger row that explains    *)
(* it: whatever a crash cuts off, the ledger never shows a credit the        *)
(* account did not get.                                                      *)
LedgerNeverAhead == \A n \in Nodes : credit[n] >= balance[n]

(* A requester is refunded for at most one end of its request, even when the *)
(* coordinator dies while it refunds: an inference that was refunded, or     *)
(* whose refund is in the ledger, is failed, and never completed later.      *)
RefundOnlyFailed ==
  [][\A t \in InferenceTasks :
       t \in refunded \/ RefundKey(t) \in ledger =>
         task[t].status = "failed" /\ task'[t].status = "failed"]_crashVars
=============================================================================
