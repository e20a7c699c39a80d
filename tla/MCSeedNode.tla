----------------------------- MODULE MCSeedNode -----------------------------
(***************************************************************************)
(* Small instances of SeedNode: paid inferences of one requester, executed *)
(* by the seed and by one other node.                                      *)
(***************************************************************************)
EXTENDS SeedNode

CONSTANTS seed, other, payer, i1

MCRequester == [t \in InferenceTasks |-> payer]
MCCanRun == ({seed} \X Tasks) \cup {<<other, i1>>}
MCPriority == [t \in Tasks |-> 100]
MCTwoAttempts == [t \in Tasks |-> 2]
MCEmpty == [t \in {} |-> 0]
MCNoExclusions == {{}}
MCRichNodes == [n \in Nodes |-> 5]
=============================================================================
