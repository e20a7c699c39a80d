-------------------------- MODULE MCNative10Crash --------------------------
(***************************************************************************)
(* Small instances of Native10Crash.                                       *)
(***************************************************************************)
EXTENDS Native10Crash, TLC

CONSTANTS a, b

MCHashOrder == [k \in Kinds |-> IF k = a THEN 1 ELSE 2]
MCSomeTraining == [s \in Slots |-> IF s = 0 THEN {a, b} ELSE {b}]
MCGraded == [stage \in {"verify", "replicate"} |->
               [k \in Kinds |-> IF stage = "replicate" THEN {0, 1}
                                ELSE IF k = a THEN {1} ELSE {0, 2}]]
(* A second round is begun, to look at the budgets, and not worked on.       *)
OneRoundWorked == begun <= 1

(* ... and one lease lost or one kill.                                       *)
OneDisturbance == OneRoundWorked /\ losses + crashes <= 1

MCSymmetry == Permutations(Nodes)
=============================================================================
