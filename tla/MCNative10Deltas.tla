------------------------- MODULE MCNative10Deltas -------------------------
(***************************************************************************)
(* Small topologies of Native10Deltas.                                     *)
(***************************************************************************)
EXTENDS Native10Deltas

Topology(input, blocks, r, p, c, l, s, e, g, b, w) ==
  [input_width |-> input, field_blocks |-> blocks, representation_width |-> r,
   scout_projection_width |-> p, categories |-> c, classes |-> l,
   scouts_per_category |-> s, experts_per_category |-> e,
   active_experts_per_update |-> g, expert_branches |-> b, branch_width |-> w]

(* One expert at a time of three; two at a time of four, and no two          *)
(* dimensions of a category alike.                                           *)
MCConfigs == {Topology(2, 1, 1, 1, 1, 1, 1, 3, 1, 1, 1),
              Topology(4, 2, 4, 1, 2, 6, 2, 4, 2, 1, 2)}

(* Two categories, shorter behaviours: the rotation is looked at mostly in   *)
(* the topology of one category.                                             *)
ShortRuns == config.categories = 1 \/ root <= 1
=============================================================================
