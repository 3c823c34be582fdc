---------------------------- MODULE MCOnboarding ----------------------------
(***************************************************************************)
(* Onboarding with one or two tabs of the owner.                           *)
(***************************************************************************)
EXTENDS Onboarding, TLC

CONSTANTS t1, t2

Symmetry == Permutations(Tabs)
=============================================================================
