---------------------------- MODULE MCTaskQueue ----------------------------
(***************************************************************************)
(* Small instances of TaskQueue.  The cfg chooses which tasks exist: paid  *)
(* inferences, the three replicas of one job, or a v6 search.              *)
(***************************************************************************)
EXTENDS TaskQueue, TLC

CONSTANTS n1, n2, n3, i1, i2, r0, r1, r2, s0, s1, job, search

MCWork == [t \in Tasks \ InferenceTasks |-> IF t \in {s0, s1} THEN search ELSE job]
MCSlot == [t \in Tasks \ InferenceTasks |->
             CASE t \in {r0, s0} -> 0 [] t \in {r1, s1} -> 1 [] t = r2 -> 2]
MCRequester == [t \in InferenceTasks |-> IF t = i1 THEN n1 ELSE n2]
MCEveryoneCanRun == Nodes \X Tasks
MCPriority == [t \in Tasks |-> IF t \in InferenceTasks THEN 100 ELSE 20]
MCTwoAttempts == [t \in Tasks |-> 2]
MCOneAttempt == [t \in Tasks |-> 1]
MCNoExclusions == {{}}
MCRichNodes == [n \in Nodes |-> 5]
(* n3 can afford two bonds at once, n1 one only if it does not pay for i1. *)
MCUnequalNodes == [n \in Nodes |-> CASE n = n1 -> 4 [] n = n3 -> 8 [] OTHER -> 5]
MCSymmetry == Permutations(Nodes) \cup Permutations(Values)
=============================================================================
