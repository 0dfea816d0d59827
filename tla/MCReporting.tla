------------------------------ MODULE MCReporting ------------------------------
(***************************************************************************)
(* The instance of Reporting for TLC.                                      *)
(***************************************************************************)
EXTENDS Reporting

CONSTANTS m1, m2, vnd

VndWallets == {<<m, vnd>> : m \in Merchants}
Opening3 == [w \in VndWallets |-> 3]
MCRefs == {"a", "b", "REFUND-a", "REFUND-b", "TOPUP-1"}
MCRefundRef == [x \in ClientRefs |-> IF x = "a" THEN "REFUND-a" ELSE "REFUND-b"]
MCTopupRef == [r \in Requests |-> "TOPUP-1"]

CallOf(op, m, ref, amount) ==
    [op |-> op, merchant |-> m, currency |-> vnd, ref |-> ref, amount |-> amount]

\* A payment, its refund in part, top-ups, and another merchant.
Workload == {CallOf("payment", m1, "a", 2), CallOf("refund", m1, "a", 1),
             CallOf("topup", m1, "a", 2), CallOf("topup", m2, "a", 1)}

\* Everything, and what is SUCCESS of a period.
MCFilters == {[status |-> None, type |-> None, from |-> None, to |-> None],
              [status |-> "SUCCESS", type |-> None, from |-> 1, to |-> 2]}

Symmetry == Permutations(Requests)
===============================================================================
