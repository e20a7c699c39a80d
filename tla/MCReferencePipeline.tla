------------------------ MODULE MCReferencePipeline ------------------------
(***************************************************************************)
(* A small instance of ReferencePipeline: artifacts a1 and a2 differ in    *)
(* digits the fingerprint rounds away, b1 is another model.                *)
(***************************************************************************)
EXTENDS ReferencePipeline

CONSTANTS a1, a2, b1, n1, n2, n3, n4, n5, c1, c2

MCFingerprint == [a \in Artifacts |-> IF a = b1 THEN b1 ELSE a1]

(* c1 can have a tie-breaker of its training and of its verification, the    *)
(* latter open to a trainer.                                                 *)
MCCanRun ==
  {n4, n5} \X {<<"exploration", c1>>, <<"verification", c2>>}
    \cup {n1, n2, n3} \X {<<"training", c1>>}
    \cup {n1, n4, n5} \X {<<"verification", c1>>}
    \cup {n1, n2} \X {<<"exploration", c2>>, <<"training", c2>>}

(* n2's machine rounds differently; both configurations reach 96.            *)
MCHonest ==
  [n \in Nodes |-> [w \in Works |->
     CASE w[1] = "exploration" -> 90
       [] w[1] = "training" -> IF n = n2 THEN a2 ELSE a1
       [] OTHER -> 96]]
=============================================================================
