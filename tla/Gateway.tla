-------------------------------- MODULE Gateway --------------------------------
(***************************************************************************)
(* A write request from its handler to its last trace: the handlers of     *)
(* payments, wallets, merchants and authentication call a service,         *)
(* announce a transaction to the merchant (EnqueueWebhook) and answer; the *)
(* AuditLog middleware then records the request.  Deliveries and audit     *)
(* entries are goroutines that outlive the request, while the merchant     *)
(* changes its webhook URL and rotates its keys.                           *)
(*                                                                         *)
(* The payment service is the abstract Ledger, which PaymentService        *)
(* implements; the deliveries are those of WebhookDelivery.  One merchant  *)
(* with one wallet moves money and has a webhook; the users that register  *)
(* and log in are others.                                                  *)
(***************************************************************************)
EXTENDS Integers

CONSTANTS
    Calls,      \* requests that reached their handler
    Inputs,     \* their arguments, a subset of Args
    Refs,
    URLs,
    Users,      \* usernames
    Opening,    \* the wallet's opening balance
    Half,       \* 2^63
    Retries,    \* len(webhookRetryIntervals)
    Faults,     \* failures of handlers and audit in this instance
    DeliveryFaults,  \* failures of the deliveries, as in WebhookDelivery
    None        \* nil

Money == {"payment", "refund", "topup"}

\* "invalid" is a body that does not bind.
Args == [op : Money, ref : Refs, amount : 1 .. (Half - 1)]
        \cup [op : {"url"}, url : URLs \cup {None}]
        \cup [op : {"register"}, user : Users]
        \cup [op : {"login"}, user : Users, genuine : BOOLEAN]
        \cup [op : {"rotate", "invalid"}]

\* The columns of the merchant's row that its calls change.  A secret is named by
\* the call that drew it, None is the one of the merchant's registration.
Row == [hook : URLs \cup {None}, secret : Calls \cup {None}]

\* A transaction; the name of its merchant is left out.
Entry == [id : Calls, type : {"PAYMENT", "REFUND", "TOPUP"}, merchant : {"m"},
          wallet : {"w"}, ref : Refs, amount : 1 .. (Half - 1),
          status : {"SUCCESS", "REVERSED"}, orig : Calls \cup {None}]

\* What a delivery is started with.
Event == [txn : Entry, url : URLs \cup {None}, secret : Calls \cup {None}]

ASSUME GatewayAssumption ==
    /\ Half \in Nat \ {0}
    /\ Opening \in 0 .. (Half - 1)
    /\ Inputs \subseteq Args
    /\ Faults \subseteq {"db", "crypto", "crash"}
    /\ None \notin Calls \cup URLs \cup {"2xx", "error"}
    /\ None \notin Inputs
    /\ None \notin Entry
    /\ None \notin Event
    /\ None \notin Row
    /\ None \notin [code : {"OK"}, txn : Entry]

VARIABLES
    balance, entries, answer,      \* the ledger
    hook, secret,                  \* the merchant's row
    copy,                          \* call -> the merchant's row as GetByID returned it
    accounts, wallets,             \* registrations that stored their merchant, their wallet
    args, pc, status,              \* call -> arguments, handler's next step, HTTP status
    event,                         \* call -> what EnqueueWebhook read and signed
    dpc, mem, row, posts, acked,   \* the deliveries
    sent,                          \* POSTs that the merchant's endpoints have seen
    apc, audit,                    \* call -> audit goroutine; table audit_logs
    inForce                        \* history: call -> merchant rows since it began

ledgerVars == <<balance, entries, answer>>
merchantVars == <<hook, secret, copy, accounts, wallets>>
handlerVars == <<args, pc, status>>
deliveryVars == <<dpc, mem, row, posts, acked>>
auditVars == <<apc, audit>>
vars == <<ledgerVars, merchantVars, handlerVars, event, deliveryVars, sent, auditVars, inForce>>

ledger == INSTANCE Ledger WITH Ids <- Calls, Wallets <- {"w"}, Rows <- Entry,
                               Opening <- [w \in {"w"} |-> Opening]
\* A crash ends handlers and deliveries together.
delivery == INSTANCE WebhookDelivery WITH Deliveries <- Calls,
                                          Faults <- DeliveryFaults \cup (Faults \cap {"crash"}),
                                          url <- (hook # None), pc <- dpc

ASSUME DeliveryAssumption ==
    /\ Retries \in Nat
    /\ DeliveryFaults \subseteq {"db", "crypto", "network"}
    /\ None \notin delivery!DeliveryLog

Init ==
    /\ ledger!LInit
    /\ hook \in URLs \cup {None} /\ secret = None
    /\ copy = [c \in Calls |-> None]
    /\ accounts = {} /\ wallets = {}
    /\ args = [c \in Calls |-> None]
    /\ pc = [c \in Calls |-> "idle"]
    /\ status = [c \in Calls |-> None]
    /\ event = [c \in Calls |-> None]
    /\ dpc = [c \in Calls |-> "idle"]
    /\ mem = [c \in Calls |-> delivery!NewLog]
    /\ row = [c \in Calls |-> None]
    /\ posts = [c \in Calls |-> 0]
    /\ acked = [c \in Calls |-> FALSE]
    /\ sent = {}
    /\ apc = [c \in Calls |-> "idle"]
    /\ audit = {}
    /\ inForce = [c \in Calls |-> {}]

-----------------------------------------------------------------------------
Working == {"service", "update", "wallet", "enqueue", "respond"}

Goto(c, label) == pc' = [pc EXCEPT ![c] = label]

\* AuditLog, after the handler: only a 2xx starts the goroutine of Log; every
\* operation of Args is a path that mapPathToAction knows.
AuditStep(c, st) == IF st = "2xx" THEN "insert" ELSE "none"

\* response.Created, response.OK or response.Error, and the middleware after it.
Respond(c, st) ==
    /\ Goto(c, "answered")
    /\ status' = [status EXCEPT ![c] = st]
    /\ apc' = [apc EXCEPT ![c] = AuditStep(c, st)]

\* ShouldBindJSON; a body that does not bind is refused.
Receive(c, a) ==
    /\ pc[c] = "idle"
    /\ args' = [args EXCEPT ![c] = a]
    /\ inForce' = [inForce EXCEPT ![c] = {<<hook, secret>>}]
    /\ \/ a.op = "invalid" /\ Respond(c, "error")
       \/ a.op # "invalid" /\ Goto(c, "service") /\ UNCHANGED <<status, apc>>
    /\ UNCHANGED <<ledgerVars, merchantVars, event, deliveryVars, sent, audit>>

TypeOf(c) == CASE args[c].op = "payment" -> "PAYMENT"
               [] args[c].op = "refund" -> "REFUND"
               [] args[c].op = "topup" -> "TOPUP"

\* The transaction that a call asks for; orig is the payment of a refund.
EntryOf(c, orig) ==
    [id |-> c, type |-> TypeOf(c), merchant |-> "m", wallet |-> "w", ref |-> args[c].ref,
     amount |-> args[c].amount, status |-> "SUCCESS", orig |-> orig]

PaymentsOf(ref) == {o \in Calls : entries[o] # None /\ entries[o].type = "PAYMENT"
                                  /\ entries[o].ref = ref}

\* The service commits the transaction of a call.
Book(c) ==
    /\ pc[c] = "service" /\ args[c].op \in Money
    /\ \/ /\ args[c].op # "refund"
          /\ entries' = [entries EXCEPT ![c] = EntryOf(c, None)]
       \/ /\ args[c].op = "refund"
          /\ \E o \in PaymentsOf(args[c].ref) :
               entries' = [entries EXCEPT ![c] = EntryOf(c, o), ![o].status = "REVERSED"]
    /\ ledger!Book(c)
    /\ UNCHANGED <<merchantVars, handlerVars, event, deliveryVars, sent, auditVars, inForce>>

\* The service returns a transaction: the one of this call, or the one that an
\* earlier call of the same operation and reference has booked.
Confirm(c) ==
    /\ pc[c] = "service" /\ args[c].op \in Money
    /\ ledger!Confirm(c)
    /\ LET t == answer'[c].txn
       IN  /\ t.type = TypeOf(c)
           /\ t.id = c \/ (entries[c] = None /\ t.type # "TOPUP" /\ t.ref = args[c].ref)
    /\ Goto(c, "enqueue")
    /\ UNCHANGED <<merchantVars, args, status, event, deliveryVars, sent, auditVars, inForce>>

\* The service returns an error, of a call that booked nothing or whose commit
\* was not answered.  One business error stands for all.
Reject(c) ==
    /\ pc[c] = "service" /\ args[c].op \in Money
    /\ ledger!Reject(c)
    /\ answer'[c].code \in IF entries[c] = None THEN {"PAY_001", "SYS_001"} ELSE {"SYS_001"}
    /\ Respond(c, "error")
    /\ UNCHANGED <<merchantVars, args, event, deliveryVars, sent, audit, inForce>>

\* Slip: the transaction is read again for the payload.
EventReadAgain(c) == [txn |-> entries[answer[c].txn.id], url |-> hook, secret |-> secret]
\* One read of the merchant gives URL and secret; the payload is the result of
\* the service call.
EventOf(c) == [txn |-> answer[c].txn, url |-> hook, secret |-> secret]

\* EnqueueWebhook, whose error the handler ignores: without a URL, or when the
\* lookup fails (the client that has gone cancels it), nobody is told.
Enqueue(c) ==
    /\ pc[c] = "enqueue"
    /\ UNCHANGED <<ledgerVars, merchantVars, args, status, sent, auditVars, inForce>>
    /\ delivery!EnqueueWebhook(c)
    /\ event' = [event EXCEPT ![c] = IF dpc'[c] = "create" THEN EventOf(c) ELSE None]
    /\ Goto(c, "respond")

\* response.Created; the merchant may have had the event before.
Created(c) ==
    /\ pc[c] = "respond"
    /\ Respond(c, "2xx")
    /\ UNCHANGED <<ledgerVars, merchantVars, args, event, deliveryVars, sent, audit, inForce>>

\* UpdateWebhookURL and RotateKeys: GetByID.  Merchants are never deleted, so
\* the merchant of a token is found.
ReadMerchant(c) ==
    /\ pc[c] = "service" /\ args[c].op \in {"url", "rotate"}
    /\ copy' = [copy EXCEPT ![c] = [hook |-> hook, secret |-> secret]]
    /\ Goto(c, "update")
    /\ UNCHANGED <<ledgerVars, hook, secret, accounts, wallets, args, status, event, deliveryVars,
                   sent, auditVars, inForce>>

\* Slip: the row is written back as it was read.
CopyUnchanged(c) == copy[c]
\* The row as it was read, with what the call is about replaced.
RowToWrite(c) == IF args[c].op = "url" THEN [copy[c] EXCEPT !.hook = args[c].url]
                                       ELSE [copy[c] EXCEPT !.secret = c]

\* UpdateWebhookURL and RotateKeys: Update writes both columns, whatever others
\* have written since the read.  The error is that of an answer that was lost.
UpdateMerchant(c) ==
    /\ pc[c] = "update"
    /\ hook' = RowToWrite(c).hook /\ secret' = RowToWrite(c).secret
    /\ copy' = [copy EXCEPT ![c] = None]
    /\ inForce' = [d \in Calls |-> IF args[d] = None THEN {}
                                   ELSE inForce[d] \cup {<<hook', secret'>>}]
    /\ \/ Respond(c, "2xx")
       \/ "db" \in Faults /\ Respond(c, "error")
    /\ UNCHANGED <<ledgerVars, accounts, wallets, args, event, deliveryVars, sent, audit>>

AccountsOf(user) == {d \in accounts : args[d].user = user}

\* Register: merchantRepo.Create.  A name that the lookup before it finds is still
\* taken here, so the UNIQUE constraint decides; its answer may be lost.
InsertMerchant(c) ==
    /\ pc[c] = "service" /\ args[c].op = "register"
    /\ \/ /\ AccountsOf(args[c].user) # {}
          /\ Respond(c, "error")
          /\ UNCHANGED accounts
       \/ /\ AccountsOf(args[c].user) = {}
          /\ accounts' = accounts \cup {c}
          /\ \/ Goto(c, "wallet") /\ UNCHANGED <<status, apc>>
             \/ "db" \in Faults /\ Respond(c, "error")
    /\ UNCHANGED <<ledgerVars, hook, secret, copy, wallets, args, event, deliveryVars, sent,
                   audit, inForce>>

\* Register: walletRepo.Create.
InsertWallet(c) ==
    /\ pc[c] = "wallet"
    /\ wallets' = wallets \cup {c}
    /\ \/ Respond(c, "2xx")
       \/ "db" \in Faults /\ Respond(c, "error")
    /\ UNCHANGED <<ledgerVars, hook, secret, copy, accounts, args, event, deliveryVars, sent,
                   audit, inForce>>

\* Login: a merchant of that name and its password.  Nothing suspends a merchant
\* that has registered.
Login(c) ==
    /\ pc[c] = "service" /\ args[c].op = "login"
    /\ Respond(c, IF AccountsOf(args[c].user) # {} /\ args[c].genuine THEN "2xx" ELSE "error")
    /\ UNCHANGED <<ledgerVars, merchantVars, args, event, deliveryVars, sent, audit, inForce>>

\* A statement of these services fails without effect, or drawing keys, hashing,
\* encrypting or signing a token does.
ServiceError(c) ==
    /\ pc[c] \in {"service", "update", "wallet"} /\ args[c].op \notin Money
    /\ \/ "db" \in Faults
       \/ "crypto" \in Faults /\ args[c].op # "url" /\ (args[c].op = "rotate" => pc[c] = "update")
    /\ copy' = [copy EXCEPT ![c] = None]
    /\ Respond(c, "error")
    /\ UNCHANGED <<ledgerVars, hook, secret, accounts, wallets, args, event, deliveryVars, sent,
                   audit, inForce>>

\* Slip: the URL is read when the event is sent.
CurrentURL(c) == hook
\* The goroutine keeps the URL it was started with.
TargetOf(c) == event[c].url

\* A step of the goroutine; the merchant sees the POSTs.
Deliver(c) ==
    /\ UNCHANGED <<ledgerVars, merchantVars, handlerVars, event, auditVars, inForce>>
    /\ delivery!Step(c)
    /\ sent' = IF posts'[c] = posts[c] THEN sent
               ELSE sent \cup {[call |-> c, txn |-> event[c].txn, url |-> TargetOf(c),
                                secret |-> event[c].secret]}

\* auditRepo.Create; a failure is only logged.
InsertAudit(c) ==
    /\ apc[c] = "insert"
    /\ \/ audit' = audit \cup {c}
       \/ "db" \in Faults /\ UNCHANGED audit
    /\ apc' = [apc EXCEPT ![c] = "ended"]
    /\ UNCHANGED <<ledgerVars, merchantVars, handlerVars, event, deliveryVars, sent, inForce>>

\* The process ends: no handler, no delivery and no audit goroutine goes on.
Crash ==
    /\ "crash" \in Faults
    /\ \/ \E c \in Calls : pc[c] \in Working \/ apc[c] = "insert"
       \/ \E c \in Calls : dpc[c] \in delivery!Running
    /\ pc' = [c \in Calls |-> IF pc[c] \in Working THEN "dead" ELSE pc[c]]
    /\ dpc' = [c \in Calls |-> IF dpc[c] \in delivery!Running THEN "dead" ELSE dpc[c]]
    /\ apc' = [c \in Calls |-> IF apc[c] = "insert" THEN "dead" ELSE apc[c]]
    /\ copy' = [c \in Calls |-> None]
    /\ UNCHANGED <<ledgerVars, hook, secret, accounts, wallets, args, status, event, mem, row,
                   posts, acked, sent, audit, inForce>>

Settled(c) ==
    /\ pc[c] \in {"answered", "dead"}
    /\ dpc[c] \in {"idle", "skipped", "ended", "dead"}
    /\ apc[c] \in {"idle", "none", "ended", "dead"}

\* Every call of the instance has ended, with all that it started.
Quiescent == (\A c \in Calls : Settled(c)) /\ UNCHANGED vars

Handle(c) ==
    \/ Confirm(c)
    \/ Reject(c)
    \/ Enqueue(c)
    \/ Created(c)
    \/ ReadMerchant(c)
    \/ UpdateMerchant(c)
    \/ InsertMerchant(c)
    \/ InsertWallet(c)
    \/ Login(c)
    \/ ServiceError(c)

Next ==
    \/ \E c \in Calls :
          \/ \E a \in Inputs : Receive(c, a)
          \/ Book(c)
          \/ Handle(c)
          \/ Deliver(c)
          \/ InsertAudit(c)
    \/ Crash
    \/ Quiescent

Spec == Init /\ [][Next]_vars

-----------------------------------------------------------------------------
\* A merchant is told only of what is booked, as the call that announces it
\* answered it: no event of a call that was refused, and the announced status is
\* the one at booking, although a replayed call may announce a payment again
\* that has been reversed, and deliveries arrive in any order.
PostsAreBooked ==
    \A p \in sent :
        /\ entries[p.txn.id] # None
        /\ p.txn = [entries[p.txn.id] EXCEPT !.status = "SUCCESS"]
        /\ status[p.call] # "error"
        /\ p.txn = answer[p.call].txn

\* Every POST, a later attempt too, goes to a URL and is signed with a secret that
\* the merchant's row held at one and the same time since the announcing call
\* began: the two are never mixed, although updates of the URL and rotations
\* overlap and write each other's old values back.
URLAndSecretBelongTogether == \A p \in sent : <<p.url, p.secret>> \in inForce[p.call]

\* The audit log names only requests that had their effect: a transaction that is
\* booked, a URL or keys that were in force, a merchant that is stored with its
\* wallet, a login with the password of a stored merchant.
AuditTellsTheTruth ==
    \A c \in audit :
        /\ args[c].op \in Money => /\ answer[c] # None
                                   /\ answer[c].code = "OK"
                                   /\ entries[answer[c].txn.id] # None
        /\ args[c].op = "url" => \E f \in inForce[c] : f[1] = args[c].url
        /\ args[c].op = "rotate" => \E f \in inForce[c] : f[2] = c
        /\ args[c].op = "register" => c \in accounts \cap wallets
        /\ args[c].op = "login" => AccountsOf(args[c].user) # {} /\ args[c].genuine
        /\ args[c].op # "invalid"

===============================================================================
