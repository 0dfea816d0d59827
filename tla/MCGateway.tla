------------------------------- MODULE MCGateway -------------------------------
(***************************************************************************)
(* The instance of Gateway for TLC: one reference is paid, paid again and  *)
(* refunded while URL and keys change, a user registers and logs in.       *)
(***************************************************************************)
EXTENDS Gateway, TLC

Workload ==
    {[op |-> "payment", ref |-> "a", amount |-> 1], [op |-> "refund", ref |-> "a", amount |-> 1],
     [op |-> "rotate"], [op |-> "url", url |-> None], [op |-> "register", user |-> "alice"],
     [op |-> "login", user |-> "alice", genuine |-> TRUE], [op |-> "invalid"]}

Symmetry == Permutations(Calls)
===============================================================================
