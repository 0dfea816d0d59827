---------------------------- MODULE MCRequestGuard ----------------------------
(***************************************************************************)
(* The instance of RequestGuard for TLC.                                   *)
(***************************************************************************)
EXTENDS RequestGuard, TLC

CONSTANTS m1, m2, n1, k1, k2, k3, ip

Request(auth, s, caller, n, stamp, account, genuine) ==
    [auth |-> auth, sender |-> s, caller |-> caller, group |-> "payments", nonce |-> n,
     stamp |-> stamp, account |-> account, genuine |-> genuine]

\* A request that may be delivered several times, the same merchant's under keys
\* that it has rotated since, another merchant's that drew the same nonce, ones
\* that a check refuses, a token that expires and a login, with and without an
\* access key in its header.
MCMessages == {Request("hmac", m1, k1, n1, 1, "ACTIVE", TRUE),
               Request("hmac", m2, k2, n1, 2, "ACTIVE", TRUE),
               Request("hmac", m1, k3, n1, 2, "ACTIVE", FALSE),
               Request("hmac", m2, k2, n1, 1, "SUSPENDED", TRUE),
               Request("hmac", m2, k2, n1, 1, "absent", TRUE),
               Request("hmac", m2, k2, None, None, "ACTIVE", TRUE),
               Request("hmac", m2, k2, n1, None, "ACTIVE", TRUE),
               Request("jwt", m1, m1, None, 1, "ACTIVE", TRUE),
               Request("open", m2, ip, None, None, "absent", TRUE),
               Request("open", m2, k1, None, None, "absent", TRUE)}

\* One request, delivered again.
OneMessage == {Request("hmac", m1, k1, n1, 1, "ACTIVE", TRUE)}

MCLimit == [g \in Groups |-> 1]
Symmetry == Permutations(Attempts)
===============================================================================
