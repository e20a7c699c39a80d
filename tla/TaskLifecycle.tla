--------------------------- MODULE TaskLifecycle ---------------------------
(***************************************************************************)
(* What the coordinator's queue promises about a task, without clocks,     *)
(* tokens, bonds or priorities: a task moves between the queue and one     *)
(* holder at a time until it is completed by its holder, or failed after   *)
(* MaxAttempts different identities were found at fault with it.  A node    *)
(* once at fault with a task never gets it back.  TaskQueue implements     *)
(* this specification (its property Lifecycle).                            *)
(*                                                                         *)
(* One step of the queue may move several tasks: a claim first sweeps every *)
(* expired lease.  So a step of the whole is a step of any of the tasks    *)
(* that leaves no identity with two of them.                               *)
(***************************************************************************)
EXTENDS Naturals, FiniteSets

CONSTANTS Nodes, Tasks, NoNode, MaxAttempts

VARIABLES
  status,  \* status[t]: absent, queued, assigned, completed or failed
  holder,  \* holder[t]: the node it is assigned to, or that completed it
  faulty   \* faulty[t]: the nodes found at fault with it

lifecycle == <<status, holder, faulty>>

Init ==
  /\ status = [t \in Tasks |-> "absent"]
  /\ holder = [t \in Tasks |-> NoNode]
  /\ faulty = [t \in Tasks |-> {}]

Becomes(t, s, h, F) == status'[t] = s /\ holder'[t] = h /\ faulty'[t] = F

Stays(t) == Becomes(t, status[t], holder[t], faulty[t])

Publish(t) == status[t] = "absent" /\ Becomes(t, "queued", NoNode, {})

Grant(t) == /\ status[t] = "queued"
            /\ \E n \in Nodes \ faulty[t] : Becomes(t, "assigned", n, faulty[t])

GiveBack(t) == status[t] = "assigned" /\ Becomes(t, "queued", NoNode, faulty[t])

Finish(t) == status[t] = "assigned" /\ Becomes(t, "completed", holder[t], faulty[t])

Blamed(t) == faulty[t] \cup {holder[t]}

(* The holder is at fault: back to the queue, to another node, or failed.   *)
Blame(t) ==
  /\ status[t] = "assigned"
  /\ holder[t] \notin faulty[t]
  /\ IF Cardinality(Blamed(t)) = MaxAttempts[t]
       THEN Becomes(t, "failed", NoNode, Blamed(t))
       ELSE \/ Becomes(t, "queued", NoNode, Blamed(t))
            \/ \E n \in Nodes \ Blamed(t) : Becomes(t, "assigned", n, Blamed(t))

Step(t) == \/ Publish(t) \/ Grant(t) \/ GiveBack(t) \/ Finish(t) \/ Blame(t)

Exclusive == \A t, u \in Tasks :
  /\ status[t] = "assigned"
  /\ status[u] = "assigned"
  /\ holder[t] = holder[u]
  => t = u

Next == (\A t \in Tasks : Stays(t) \/ Step(t)) /\ Exclusive'

Spec == Init /\ [][Next]_lifecycle
=============================================================================
