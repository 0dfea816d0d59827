-------------------------------- MODULE Ledger --------------------------------
(***************************************************************************)
(* What the payment service promises its callers, without locks, caches,   *)
(* logs or failures: a ledger of wallets in which every operation happens  *)
(* at one instant, a reference is charged once, a payment is refunded at   *)
(* most once, and whatever a caller is told has happened.                  *)
(***************************************************************************)
EXTENDS Integers

CONSTANTS
    Ids,       \* operation ids; a caller is named by the id of its operation
    Wallets,
    Rows,      \* the possible entries of the ledger
    Opening,   \* the wallets' opening balances
    Half,      \* 2^63
    None

VARIABLES balance, entries, answer

lvars == <<balance, entries, answer>>

WrapAround(x) == ((x + Half) % (2 * Half)) - Half

LInit ==
    /\ balance = Opening
    /\ entries = [id \in Ids |-> None]
    /\ answer = [id \in Ids |-> None]

Booked == {id \in Ids : entries[id] # None}

\* A payment takes funds that are there, once per merchant and reference.
BookPayment(id, e) ==
    /\ e.type = "PAYMENT"
    /\ \A o \in Booked : ~ /\ entries[o].type = "PAYMENT"
                           /\ entries[o].merchant = e.merchant
                           /\ entries[o].ref = e.ref
    /\ e.amount \in 1 .. balance[e.wallet]
    /\ balance' = [balance EXCEPT ![e.wallet] = @ - e.amount]
    /\ entries' = [entries EXCEPT ![id] = e]

\* A refund gives back at most what its payment took, to the same wallet, and
\* turns the payment from SUCCESS to REVERSED.
BookRefund(id, e) ==
    /\ e.type = "REFUND"
    /\ e.orig \in Booked
    /\ LET p == entries[e.orig]
       IN  /\ p.type = "PAYMENT"
           /\ p.status = "SUCCESS"
           /\ p.merchant = e.merchant
           /\ p.wallet = e.wallet
           /\ e.amount \in 1 .. p.amount
    /\ balance' = [balance EXCEPT ![e.wallet] = WrapAround(@ + e.amount)]
    /\ entries' = [entries EXCEPT ![id] = e, ![e.orig].status = "REVERSED"]

\* A top-up adds funds.
BookTopup(id, e) ==
    /\ e.type = "TOPUP"
    /\ e.amount > 0
    /\ balance' = [balance EXCEPT ![e.wallet] = WrapAround(@ + e.amount)]
    /\ entries' = [entries EXCEPT ![id] = e]

\* The step that books an entry; the entry is the one it leaves behind.
Book(id) ==
    /\ entries[id] = None
    /\ answer[id] = None
    /\ entries'[id] \in Rows
    /\ LET e == entries'[id]
       IN  /\ e.id = id
           /\ e.status = "SUCCESS"
           /\ BookPayment(id, e) \/ BookRefund(id, e) \/ BookTopup(id, e)
    /\ UNCHANGED answer

\* A caller is told of an entry that is booked, as it was booked.
Confirm(id) ==
    /\ answer[id] = None
    /\ \E o \in Booked :
         answer' = [answer EXCEPT ![id] =
                      [code |-> "OK", txn |-> [entries[o] EXCEPT !.status = "SUCCESS"]]]
    /\ UNCHANGED <<balance, entries>>

\* A caller is told of an error and of no entry.
Reject(id) ==
    /\ answer[id] = None
    /\ \E code \in {"PAY_001", "PAY_002", "PAY_003", "PAY_004", "PAY_006",
                    "PAY_007", "SYS_001", "SYS_003"} :
         answer' = [answer EXCEPT ![id] = [code |-> code, txn |-> None]]
    /\ UNCHANGED <<balance, entries>>

LNext == \E id \in Ids : Book(id) \/ Confirm(id) \/ Reject(id)

LSpec == LInit /\ [][LNext]_lvars

===============================================================================
