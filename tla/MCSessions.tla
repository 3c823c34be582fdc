----------------------------- MODULE MCSessions -----------------------------
(***************************************************************************)
(* Sessions with one or two tabs of one browser.                           *)
(***************************************************************************)
EXTENDS Sessions, TLC

CONSTANTS t1, t2

OneBrowser == [t \in Tabs |-> "home"]
Symmetry == Permutations(Tabs)
=============================================================================
