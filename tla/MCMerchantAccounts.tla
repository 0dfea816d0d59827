-------------------------- MODULE MCMerchantAccounts --------------------------
(***************************************************************************)
(* Instances of MerchantAccounts for TLC.                                  *)
(***************************************************************************)
EXTENDS MerchantAccounts, TLC

CONSTANTS m1, m2, alice, bob, carol, right, wrong

MCNameOf == (m1 :> alice) @@ (m2 :> bob)
MCPasswordOf == (m1 :> right) @@ (m2 :> right)
OneNameOf == (m1 :> alice)
OnePasswordOf == (m1 :> right)

Symmetry == Permutations(Calls)
===============================================================================
