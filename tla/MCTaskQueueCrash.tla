-------------------------- MODULE MCTaskQueueCrash --------------------------
(***************************************************************************)
(* Small instances of TaskQueueCrash: one paid inference and two servers   *)
(* besides its requester.                                                  *)
(***************************************************************************)
EXTENDS TaskQueueCrash

CONSTANTS n1, n2, n3, i1, i2

MCRequester == [t \in InferenceTasks |-> IF t = i1 THEN n1 ELSE n2]
MCEveryoneCanRun == Nodes \X Tasks
MCPriority == [t \in Tasks |-> 100]
MCTwoAttempts == [t \in Tasks |-> 2]
MCEmpty == [t \in {} |-> 0]
MCNoExclusions == {{}}
MCRichNodes == [n \in Nodes |-> 5]
=============================================================================
