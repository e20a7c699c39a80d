----------------------------- MODULE MCLeverage -----------------------------
(***************************************************************************)
(* Small instances of Leverage.                                            *)
(***************************************************************************)
EXTENDS Leverage

CONSTANTS c1, c2

Manifest(c, l, p) == [author |-> c, label |-> l, parent |-> p]

(* Rivals on the genesis, and two generations that build on the first one.   *)
MCManifests == {Manifest(c1, 1, << >>), Manifest(c2, 2, << >>), Manifest(c1, 3, << >>),
                Manifest(c2, 4, <<1>>), Manifest(c2, 5, <<1, 4>>)}
=============================================================================
