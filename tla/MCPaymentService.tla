--------------------------- MODULE MCPaymentService ---------------------------
(***************************************************************************)
(* Instances of PaymentService for TLC: the workloads of its runs.         *)
(***************************************************************************)
EXTENDS PaymentService, TLC

CONSTANTS m1, m2, vnd, usd

\* Register gives every merchant one VND wallet and no other.
VndWallets == {<<m, vnd>> : m \in Merchants}

MCRefs == {"a", "b", "REFUND-a", "REFUND-b", "REFUND-REFUND-a", "TOPUP-1"}
MCRefundRef == [x \in ClientRefs |->
    CASE x = "a" -> "REFUND-a" [] x = "b" -> "REFUND-b" [] x = "REFUND-a" -> "REFUND-REFUND-a"]
\* Top-ups of one merchant in one millisecond share their reference.
MCTopupRef == [r \in Requests |-> "TOPUP-1"]

CallOf(op, m, c, ref, amount) ==
    [op |-> op, merchant |-> m, currency |-> c, ref |-> ref, amount |-> amount]
Pay(ref, amount) == CallOf("payment", m1, vnd, ref, amount)
Refund(ref, amount) == CallOf("refund", m1, vnd, ref, amount)
Topup(amount) == CallOf("topup", m1, vnd, "a", amount)

\* Opening balances.
Opening3 == [w \in VndWallets |-> 3]
Opening9 == [w \in VndWallets |-> 9]

\* One reference paid, refunded in full or in part, and a top-up that overflows
\* when nothing was paid before (Half = 4).
OneReference == {Pay("a", 2), Refund("a", None), Refund("a", 1), Topup(1)}

\* Two merchants that use the same reference, and what must be refused: a refund
\* of too much, of a refund by its generated reference, an unknown wallet, an
\* amount out of range.
TwoMerchants == {Pay("a", 2), CallOf("payment", m2, vnd, "a", 2), Refund("a", None),
                 Topup(1), Refund("a", 3), CallOf("payment", m1, usd, "a", 1),
                 Pay("a", 0), Refund("REFUND-a", None)}

DuplicatePayments == {Pay("a", 2)}

Symmetry == Permutations(Requests)
===============================================================================
