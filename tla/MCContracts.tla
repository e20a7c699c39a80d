---------------------------- MODULE MCContracts ----------------------------
(* The twelve configurations of bootstrap differ for these contracts only  *)
(* in their branches.  The digits of make_digits_dataset have 64 features  *)
(* of at least five characters each.  Four seeds of four threads and 8 GB, *)
(* one with the default policy, one more generous.                         *)
EXTENDS Contracts

CONSTANTS n1, n2, n3, n4

MCMachine == [n \in Nodes |-> [cpus |-> 4, memory |-> 8192, free |-> 6000, disk |-> 20000]]
MCPolicy  == [n \in Nodes |->
    [paused |-> FALSE, cpu |-> IF n = n1 THEN 25 ELSE 50, share |-> 25, memory |-> MB,
     disk |-> 2048, seconds |-> 900, kinds |-> Kinds]]
MCConfigs == {[branches |-> b, iterations |-> 15] : b \in {40, 80, 120, 160, 240, 320}}
MCDataset == [train |-> 1078, validation |-> 359, test |-> 360, features |-> 64, row |-> 330]
=============================================================================
