----------------------------- MODULE MCCampaign -----------------------------
(***************************************************************************)
(* Small instances of Campaign: requests are interchangeable, and so are   *)
(* the seeds a dataset can be split with.  Both properties speak of the    *)
(* states in which no request has acted on a read that was no longer true, *)
(* and none comes after one in which a request has: the search stops there.*)
(***************************************************************************)
EXTENDS Campaign, TLC

MCSymmetry == Permutations(Threads) \cup Permutations(Seeds)

MCFollowed == ~overtaken

(* What a request has read and will not read again makes no difference.      *)
MCLive ==
  LET in(t, labels, what, none) == IF pc[t] \in labels THEN what ELSE none
  IN  [t \in Threads |->
        <<in(t, {"reconcile", "settle", "plan", "select", "replicate", "queue", "append", "count"},
             seen[t], Fresh),
          in(t, {"settle"}, observed[t].contributions, {}),
          in(t, {"reconcile", "settle"}, started[t].status, "queued"),
          in(t, {"replicate", "queue", "enter", "append"}, started[t].fold, NoFold),
          in(t, {"enter", "append"}, <<started[t].native, started[t].base>>, <<0, 0>>)>>]

MCView == <<dataset, file, rounds, pc, MCLive, overtaken, bounded>>
=============================================================================
