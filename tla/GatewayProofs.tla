----------------------------- MODULE GatewayProofs -----------------------------
(***************************************************************************)
(* Proofs about Gateway, for any number of calls, references and URLs and  *)
(* any faults.  A POST copies the event of its call, an event copies the   *)
(* answer of the service and the merchant's row, and an answer names an    *)
(* entry of the ledger; each copy stays true because what it was copied    *)
(* from only ever grows: an entry changes nothing but its status, what was *)
(* once in force for a call stays in its history, and no merchant and no   *)
(* wallet is deleted.                                                      *)
(***************************************************************************)
EXTENDS Gateway, TLAPS

\* An entry as it was booked.
AsBooked(e) == [e EXCEPT !.status = "SUCCESS"]

\* The types of the variables that a step reads.
Typed ==
    /\ entries \in [Calls -> Entry \cup {None}]
    /\ DOMAIN answer = Calls /\ answer = [c \in Calls |-> answer[c]]
    /\ hook \in URLs \cup {None} /\ secret \in Calls \cup {None}
    /\ copy \in [Calls -> Row \cup {None}]
    /\ accounts \subseteq Calls /\ wallets \subseteq Calls
    /\ args \in [Calls -> Inputs \cup {None}]
    /\ pc \in [Calls -> {"idle", "answered", "dead"} \cup Working]
    /\ status \in [Calls -> {"2xx", "error", None}]
    /\ event \in [Calls -> Event \cup {None}]
    /\ dpc \in [Calls -> delivery!PCs]
    /\ sent \subseteq [call : Calls, txn : Entry, url : URLs \cup {None}, secret : Calls \cup {None}]
    /\ apc \in [Calls -> {"idle", "none", "insert", "ended", "dead"}]
    /\ audit \subseteq Calls
    /\ inForce \in [Calls -> SUBSET ((URLs \cup {None}) \X (Calls \cup {None}))]
    /\ \A c \in Calls : entries[c] # None => entries[c].id = c

\* The service has answered with a transaction that is booked.
Told(c) ==
    /\ answer[c] # None /\ answer[c].code = "OK"
    /\ answer[c].txn.id \in Calls
    /\ entries[answer[c].txn.id] # None
    /\ answer[c].txn = AsBooked(entries[answer[c].txn.id])

\* The request had its effect.
Effective(c) ==
    /\ args[c].op \in Money => Told(c)
    /\ args[c].op = "url" => \E f \in inForce[c] : f[1] = args[c].url
    /\ args[c].op = "rotate" => \E f \in inForce[c] : f[2] = c
    /\ args[c].op = "register" => c \in accounts \cap wallets
    /\ args[c].op = "login" => AccountsOf(args[c].user) # {} /\ args[c].genuine
    /\ args[c].op # "invalid"

\* What a call has left behind at each of its steps.
CallOK(c) ==
    /\ pc[c] # "idle" => args[c] \in Inputs /\ <<hook, secret>> \in inForce[c]
    /\ pc[c] \in {"idle"} \cup Working => status[c] = None /\ apc[c] = "idle" /\ c \notin audit
    /\ pc[c] \in {"enqueue", "respond"} => args[c].op \in Money /\ Told(c)
    /\ pc[c] = "update" => args[c].op \in {"url", "rotate"} /\ copy[c] \in Row
    /\ pc[c] = "wallet" => args[c].op = "register" /\ c \in accounts
    /\ c \in accounts => pc[c] # "idle"
    /\ pc[c] \notin {"respond", "answered", "dead"} => event[c] = None
    /\ dpc[c] \in delivery!Running => event[c] # None
    /\ event[c] # None => /\ Told(c) /\ status[c] # "error"
                          /\ event[c].txn = answer[c].txn
                          /\ <<event[c].url, event[c].secret>> \in inForce[c]
    /\ apc[c] = "insert" \/ c \in audit => Effective(c)

\* A POST carries the event of its call.
SentOK ==
    \A p \in sent : /\ event[p.call] # None
                    /\ p.txn = event[p.call].txn
                    /\ p.url = event[p.call].url
                    /\ p.secret = event[p.call].secret

IInv == Typed /\ SentOK /\ \A c \in Calls : CallOK(c)

-----------------------------------------------------------------------------
\* The initial state satisfies the invariant.
LEMMA InitInv == Init => IInv
  <1> SUFFICES ASSUME Init PROVE IInv
    OBVIOUS
  <1>1. Typed
    BY DEF Init, ledger!LInit, Typed, delivery!PCs
  <1>2. SentOK
    BY DEF Init, SentOK
  <1>3. \A c \in Calls : CallOK(c)
    BY DEF Init, CallOK, delivery!Running
  <1> QED
    BY <1>1, <1>2, <1>3 DEF IInv

\* Nothing of an entry but its status changes.
EntriesKept ==
    \A o \in Calls : entries[o] # None => /\ entries'[o] # None
                                          /\ AsBooked(entries'[o]) = AsBooked(entries[o])

\* Entries, merchants and wallets that are there stay.
TablesKept ==
    /\ EntriesKept
    /\ \A d \in accounts : d \in accounts' /\ args'[d] = args[d]
    /\ wallets \subseteq wallets'

\* A transaction that was told stays booked.
LEMMA ToldStays ==
  ASSUME EntriesKept, NEW c \in Calls, answer'[c] = answer[c], Told(c)
  PROVE  Told(c)'
  BY DEF EntriesKept, Told

\* What belongs to a call, apart from the tables it shares.
Same(c) ==
    /\ pc'[c] = pc[c] /\ args'[c] = args[c] /\ status'[c] = status[c] /\ event'[c] = event[c]
    /\ answer'[c] = answer[c] /\ apc'[c] = apc[c] /\ (c \in audit' <=> c \in audit)
    /\ copy'[c] = copy[c] /\ (c \in accounts' <=> c \in accounts)

\* A call that a step does not touch stays as it should be, whatever the others
\* book, and however far its own delivery gets.
LEMMA Untouched ==
  ASSUME IInv, NEW c \in Calls, Same(c), TablesKept,
         dpc'[c] \in delivery!Running => dpc[c] \in delivery!Running,
         inForce[c] \subseteq inForce'[c], pc[c] # "idle" => <<hook', secret'>> \in inForce'[c]
  PROVE  CallOK(c)'
  <1>1. CallOK(c)
    BY DEF IInv
  <1>2. Told(c) => Told(c)'
    BY ToldStays DEF Same, TablesKept
  <1>3. Effective(c) => Effective(c)'
    <2>1. args'[c] = args[c] /\ (c \in accounts => c \in accounts') /\ (c \in wallets => c \in wallets')
      BY DEF Same, TablesKept
    <2>2. AccountsOf(args[c].user) # {} => (AccountsOf(args[c].user) # {})'
      BY <2>1 DEF AccountsOf, TablesKept
    <2> QED
      BY <1>2, <2>1, <2>2 DEF Effective
  <1>4. (pc[c] # "idle" => args[c] \in Inputs /\ <<hook, secret>> \in inForce[c])'
    BY <1>1 DEF CallOK, Same
  <1>5. (/\ pc[c] \in {"idle"} \cup Working => status[c] = None /\ apc[c] = "idle" /\ c \notin audit
         /\ pc[c] \in {"enqueue", "respond"} => args[c].op \in Money /\ Told(c)
         /\ pc[c] = "update" => args[c].op \in {"url", "rotate"} /\ copy[c] \in Row
         /\ pc[c] = "wallet" => args[c].op = "register" /\ c \in accounts
         /\ c \in accounts => pc[c] # "idle"
         /\ pc[c] \notin {"respond", "answered", "dead"} => event[c] = None
         /\ dpc[c] \in delivery!Running => event[c] # None)'
    BY <1>1, <1>2 DEF CallOK, Same, Working, delivery!Running
  <1>6. (event[c] # None => /\ Told(c) /\ status[c] # "error"
                            /\ event[c].txn = answer[c].txn
                            /\ <<event[c].url, event[c].secret>> \in inForce[c])'
    BY <1>1, <1>2 DEF CallOK, Same
  <1>7. (apc[c] = "insert" \/ c \in audit => Effective(c))'
    BY <1>1, <1>3 DEF CallOK, Same
  <1> QED
    BY <1>4, <1>5, <1>6, <1>7 DEF CallOK

\* Events that are there stay, and so do the POSTs that carry them.
LEMMA SentStays ==
  ASSUME IInv, sent' = sent, \A c \in Calls : event[c] # None => event'[c] = event[c]
  PROVE  SentOK'
  <1> SUFFICES ASSUME NEW p \in sent
               PROVE  /\ event'[p.call] # None
                      /\ p.txn = event'[p.call].txn
                      /\ p.url = event'[p.call].url
                      /\ p.secret = event'[p.call].secret
    BY DEF SentOK
  <1>1. p.call \in Calls
    BY DEF IInv, Typed
  <1> QED
    BY <1>1 DEF IInv, SentOK

-----------------------------------------------------------------------------
(* One lemma per action. *)

\* A request arrives.
LEMMA ReceiveInv ==
  ASSUME IInv, NEW c \in Calls, NEW a \in Inputs, Receive(c, a)
  PROVE  IInv'
  <1> USE DEF IInv
  <1>0. /\ CallOK(c) /\ pc[c] = "idle" /\ event[c] = None /\ hook' = hook /\ secret' = secret
        /\ entries' = entries /\ answer' = answer /\ event' = event /\ dpc' = dpc
        /\ sent' = sent /\ audit' = audit /\ copy' = copy /\ accounts' = accounts /\ wallets' = wallets
        /\ args' = [args EXCEPT ![c] = a]
        /\ inForce' = [inForce EXCEPT ![c] = {<<hook, secret>>}]
    BY DEF Receive, CallOK, ledgerVars, merchantVars, deliveryVars
  <1>1. /\ pc' \in [Calls -> {"idle", "answered", "dead"} \cup Working]
        /\ status' \in [Calls -> {"2xx", "error", None}]
        /\ apc' \in [Calls -> {"idle", "none", "insert", "ended", "dead"}]
        /\ \A d \in Calls \ {c} : pc'[d] = pc[d] /\ status'[d] = status[d] /\ apc'[d] = apc[d]
        /\ \/ pc'[c] = "answered" /\ status'[c] = "error" /\ apc'[c] = "none"
           \/ pc'[c] = "service" /\ status'[c] = status[c] /\ apc'[c] = apc[c]
    BY DEF Receive, Respond, AuditStep, Goto, Typed, Working
  <1>2. Typed'
    <2>1. args' \in [Calls -> Inputs \cup {None}]
      BY <1>0 DEF Typed
    <2>2. inForce' \in [Calls -> SUBSET ((URLs \cup {None}) \X (Calls \cup {None}))]
      <3>1. {<<hook, secret>>} \in SUBSET ((URLs \cup {None}) \X (Calls \cup {None}))
        BY DEF Typed
      <3> QED
        BY <1>0, <3>1 DEF Typed
    <2> QED
      BY <1>0, <1>1, <2>1, <2>2 DEF Typed
  <1>3. SentOK'
    BY <1>0, SentStays
  <1>4. ASSUME NEW d \in Calls \ {c} PROVE CallOK(d)'
    <2>1. inForce'[d] = inForce[d] /\ args'[d] = args[d]
      BY <1>0 DEF Typed
    <2>2. pc[d] # "idle" => <<hook, secret>> \in inForce[d]
      BY DEF CallOK
    <2>3. Same(d) /\ TablesKept
      <3>1. \A e \in accounts : e \in Calls \ {c}
        BY <1>0 DEF CallOK, Typed
      <3> QED
        BY <1>0, <1>1, <2>1, <3>1 DEF Same, TablesKept, EntriesKept, Typed
    <2> QED
      BY <1>0, <2>1, <2>2, <2>3, Untouched
  <1>5. CallOK(c)'
    <2>1. args'[c] = a /\ <<hook', secret'>> \in inForce'[c]
      BY <1>0 DEF Typed
    <2>2. /\ dpc'[c] \notin delivery!Running /\ c \notin audit' /\ status[c] = None
          /\ apc[c] = "idle" /\ c \notin accounts'
      BY <1>0 DEF CallOK
    <2> QED
      BY <1>0, <1>1, <2>1, <2>2 DEF CallOK, Working
  <1> QED
    BY <1>2, <1>3, <1>4, <1>5

\* The service books the transaction of a call.
LEMMA BookInv ==
  ASSUME IInv, NEW c \in Calls, Book(c)
  PROVE  IInv'
  <1> USE DEF IInv
  <1>0. /\ hook' = hook /\ secret' = secret /\ args' = args /\ pc' = pc /\ status' = status
        /\ event' = event /\ dpc' = dpc /\ sent' = sent /\ apc' = apc /\ audit' = audit
        /\ inForce' = inForce /\ answer' = answer /\ copy' = copy /\ accounts' = accounts /\ wallets' = wallets
    BY DEF Book, ledger!Book, merchantVars, handlerVars, deliveryVars, auditVars
  <1>1. /\ entries[c] = None /\ entries'[c] \in Entry /\ entries'[c].id = c
        /\ \/ entries' = [entries EXCEPT ![c] = entries'[c]]
           \/ /\ entries'[c].orig \in Calls /\ entries[entries'[c].orig] # None
              /\ entries' = [entries EXCEPT ![c] = entries'[c],
                                            ![entries'[c].orig].status = "REVERSED"]
    BY DEF Book, ledger!Book, ledger!BookPayment, ledger!BookRefund, ledger!BookTopup,
       ledger!Booked
  <1>2. ASSUME NEW o \in Calls \ {c}
        PROVE  \/ entries'[o] = entries[o]
               \/ /\ entries[o] # None
                  /\ entries'[o] = [entries[o] EXCEPT !.status = "REVERSED"]
    BY <1>1 DEF Typed
  <1>3. ASSUME NEW o \in Calls, entries[o] # None
        PROVE  /\ entries'[o] \in Entry /\ entries'[o].id = o
               /\ AsBooked(entries'[o]) = AsBooked(entries[o])
    <2>1. entries[o] \in Entry /\ entries[o].id = o /\ o # c
      BY <1>1, <1>3 DEF Typed
    <2> DEFINE e == [entries[o] EXCEPT !.status = "REVERSED"]
    <2>2. e \in Entry /\ e.id = o /\ AsBooked(e) = AsBooked(entries[o])
      BY <2>1 DEF Entry, AsBooked
    <2> QED
      BY <1>2, <2>1, <2>2
  <1>4. EntriesKept
    BY <1>3, GatewayAssumption DEF EntriesKept
  <1>5. /\ entries' \in [Calls -> Entry \cup {None}]
        /\ \A o \in Calls : entries'[o] # None => entries'[o].id = o
    <2>1. DOMAIN entries' = Calls /\ entries' = [o \in Calls |-> entries'[o]]
      BY <1>1 DEF Typed
    <2>2. \A o \in Calls : entries'[o] \in Entry \cup {None}
      BY <1>1, <1>2, <1>3
    <2>3. \A o \in Calls : entries'[o] # None => entries'[o].id = o
      BY <1>1, <1>2, <1>3
    <2> QED
      BY <2>1, <2>2, <2>3
  <1>6. Typed'
    BY <1>0, <1>5 DEF Typed
  <1>7. SentOK'
    BY <1>0, SentStays
  <1>8. ASSUME NEW d \in Calls PROVE CallOK(d)'
    <2>1. Same(d) /\ TablesKept
      BY <1>0, <1>4 DEF Same, TablesKept
    <2>2. pc[d] # "idle" => <<hook, secret>> \in inForce[d]
      BY DEF CallOK
    <2> QED
      BY <1>0, <2>1, <2>2, Untouched
  <1> QED
    BY <1>6, <1>7, <1>8

\* The service returns a transaction.
LEMMA ConfirmInv ==
  ASSUME IInv, NEW c \in Calls, Confirm(c)
  PROVE  IInv'
  <1> USE DEF IInv
  <1>0. /\ CallOK(c) /\ pc[c] = "service" /\ args[c].op \in Money /\ answer[c] = None
        /\ hook' = hook /\ secret' = secret /\ args' = args /\ status' = status
        /\ event' = event /\ dpc' = dpc /\ sent' = sent /\ apc' = apc /\ audit' = audit
        /\ inForce' = inForce /\ entries' = entries /\ pc' = [pc EXCEPT ![c] = "enqueue"]
        /\ copy' = copy /\ accounts' = accounts /\ wallets' = wallets
    BY DEF Confirm, ledger!Confirm, merchantVars, handlerVars, deliveryVars, auditVars, Goto
  <1>1. PICK o \in Calls :
           /\ entries[o] # None
           /\ answer' = [answer EXCEPT ![c] = [code |-> "OK", txn |-> AsBooked(entries[o])]]
    BY DEF Confirm, ledger!Confirm, ledger!Booked, AsBooked
  <1>2. entries[o] \in Entry /\ entries[o].id = o
    BY <1>1 DEF Typed
  <1>3. AsBooked(entries[o]).id = o
    BY <1>2 DEF AsBooked, Entry
  <1>4. /\ answer'[c] = [code |-> "OK", txn |-> AsBooked(entries[o])]
        /\ \A d \in Calls \ {c} : answer'[d] = answer[d]
        /\ DOMAIN answer' = Calls /\ answer' = [d \in Calls |-> answer'[d]]
    BY <1>1 DEF Typed
  <1>5. Told(c)'
    <2>1. [code |-> "OK", txn |-> AsBooked(entries[o])] \in [code : {"OK"}, txn : Entry]
      BY <1>2 DEF AsBooked, Entry
    <2> QED
      BY <1>0, <1>1, <1>3, <1>4, <2>1, GatewayAssumption DEF Told
  <1>6. Typed'
    BY <1>0, <1>4 DEF Typed, Working
  <1>7. SentOK'
    BY <1>0, SentStays
  <1>8. ASSUME NEW d \in Calls \ {c} PROVE CallOK(d)'
    <2>1. Same(d) /\ TablesKept
      BY <1>0, <1>4 DEF Same, TablesKept, EntriesKept, Typed
    <2>2. pc[d] # "idle" => <<hook, secret>> \in inForce[d]
      BY DEF CallOK
    <2> QED
      BY <1>0, <2>1, <2>2, Untouched
  <1>9. CallOK(c)'
    <2>1. pc'[c] = "enqueue" /\ event'[c] = None /\ dpc'[c] \notin delivery!Running
      BY <1>0 DEF CallOK, Typed
    <2> QED
      BY <1>0, <1>5, <2>1 DEF CallOK, Working
  <1> QED
    BY <1>6, <1>7, <1>8, <1>9

\* What a call may change in the tables of merchants and wallets, and of the
\* services' answers, when it returns.
OwnTraces(c) ==
    /\ DOMAIN answer' = Calls /\ answer' = [d \in Calls |-> answer'[d]]
    /\ \A d \in Calls \ {c} : answer'[d] = answer[d] /\ copy'[d] = copy[d]
    /\ copy' \in [Calls -> Row \cup {None}]
    /\ accounts' \in {accounts, accounts \cup {c}}
    /\ wallets' \in {wallets, wallets \cup {c}}

\* A handler that answers after its service call leaves behind what it did: after
\* an error nothing is claimed, after a 2xx the request had its effect.
LEMMA RespondInv ==
  ASSUME IInv, NEW c \in Calls, pc[c] \in {"service", "update", "wallet"},
         NEW st \in {"2xx", "error"}, Respond(c, st), OwnTraces(c),
         UNCHANGED <<args, event, deliveryVars, sent, audit, entries, hook, secret, inForce>>,
         st = "2xx" => Effective(c)'
  PROVE  IInv'
  <1> USE DEF IInv
  <1>0. /\ CallOK(c) /\ args' = args /\ event' = event /\ dpc' = dpc /\ sent' = sent
        /\ audit' = audit /\ entries' = entries /\ inForce' = inForce
        /\ hook' = hook /\ secret' = secret
    BY DEF deliveryVars
  <1>1. /\ pc' = [pc EXCEPT ![c] = "answered"]
        /\ status' = [status EXCEPT ![c] = st]
        /\ apc' = [apc EXCEPT ![c] = IF st = "2xx" THEN "insert" ELSE "none"]
    BY DEF Respond, Goto, AuditStep
  <1>2. Typed'
    BY <1>0, <1>1 DEF Typed, OwnTraces
  <1>3. SentOK'
    BY <1>0, SentStays
  <1>4. ASSUME NEW d \in Calls \ {c} PROVE CallOK(d)'
    <2>1. Same(d)
      BY <1>0, <1>1 DEF Same, Typed, OwnTraces
    <2>2. TablesKept
      BY <1>0 DEF TablesKept, EntriesKept, OwnTraces
    <2>3. pc[d] # "idle" => <<hook, secret>> \in inForce[d]
      BY DEF CallOK
    <2> QED
      BY <1>0, <2>1, <2>2, <2>3, Untouched
  <1>5. CallOK(c)'
    <2>1. /\ pc'[c] = "answered" /\ status'[c] = st /\ event'[c] = None /\ c \notin audit'
          /\ dpc'[c] \notin delivery!Running /\ (apc'[c] = "insert" => st = "2xx")
      BY <1>0, <1>1 DEF CallOK, Typed, Working
    <2> QED
      BY <1>0, <2>1 DEF CallOK, Working
  <1> QED
    BY <1>2, <1>3, <1>4, <1>5

\* The service returns an error.
LEMMA RejectInv ==
  ASSUME IInv, NEW c \in Calls, Reject(c)
  PROVE  IInv'
  <1>1. /\ pc[c] = "service" /\ Respond(c, "error") /\ UNCHANGED <<copy, accounts, wallets>>
        /\ UNCHANGED <<args, event, deliveryVars, sent, audit, entries, hook, secret, inForce>>
    BY DEF Reject, ledger!Reject, merchantVars
  <1>2. PICK v : answer' = [answer EXCEPT ![c] = v]
    BY DEF Reject, ledger!Reject
  <1>3. OwnTraces(c)
    BY <1>1, <1>2 DEF IInv, Typed, OwnTraces
  <1> QED
    BY <1>1, <1>3, RespondInv

\* A service other than that of payments fails.
LEMMA ServiceErrorInv ==
  ASSUME IInv, NEW c \in Calls, ServiceError(c)
  PROVE  IInv'
  <1>1. /\ pc[c] \in {"service", "update", "wallet"} /\ Respond(c, "error")
        /\ answer' = answer /\ UNCHANGED <<accounts, wallets>>
        /\ copy' = [copy EXCEPT ![c] = None]
        /\ UNCHANGED <<args, event, deliveryVars, sent, audit, entries, hook, secret, inForce>>
    BY DEF ServiceError, ledgerVars
  <1>2. OwnTraces(c)
    BY <1>1 DEF IInv, Typed, OwnTraces
  <1> QED
    BY <1>1, <1>2, RespondInv

\* A login is answered.
LEMMA LoginInv ==
  ASSUME IInv, NEW c \in Calls, Login(c)
  PROVE  IInv'
  <1> DEFINE st == IF AccountsOf(args[c].user) # {} /\ args[c].genuine THEN "2xx" ELSE "error"
  <1>1. /\ pc[c] = "service" /\ Respond(c, st) /\ args[c].op = "login"
        /\ answer' = answer /\ UNCHANGED <<copy, accounts, wallets>>
        /\ UNCHANGED <<args, event, deliveryVars, sent, audit, entries, hook, secret, inForce>>
    BY DEF Login, ledgerVars, merchantVars
  <1>2. OwnTraces(c)
    BY <1>1 DEF IInv, Typed, OwnTraces
  <1>3. st = "2xx" => Effective(c)'
    BY <1>1 DEF Effective, AccountsOf, Money
  <1>4. st \in {"2xx", "error"}
    OBVIOUS
  <1> HIDE DEF st
  <1> QED
    BY <1>1, <1>2, <1>3, <1>4, RespondInv

\* The merchant of a registration is stored, or not.
LEMMA InsertMerchantInv ==
  ASSUME IInv, NEW c \in Calls, InsertMerchant(c)
  PROVE  IInv'
  <1>1. /\ pc[c] = "service" /\ args[c].op = "register"
        /\ answer' = answer /\ UNCHANGED <<copy, wallets>>
        /\ accounts' \in {accounts, accounts \cup {c}}
        /\ UNCHANGED <<args, event, deliveryVars, sent, audit, entries, hook, secret, inForce>>
    BY DEF InsertMerchant, ledgerVars
  <1>2. OwnTraces(c)
    BY <1>1 DEF IInv, Typed, OwnTraces
  <1>3. CASE Respond(c, "error")
    BY <1>1, <1>2, <1>3, RespondInv
  <1>4. CASE Goto(c, "wallet") /\ UNCHANGED <<status, apc>> /\ c \in accounts'
    <2> USE DEF IInv
    <2>1. Typed' /\ SentOK'
      BY <1>1, <1>2, <1>4, SentStays DEF Goto, Typed, OwnTraces, Working, deliveryVars
    <2>2. ASSUME NEW d \in Calls \ {c} PROVE CallOK(d)'
      <3>1. Same(d)
        BY <1>1, <1>2, <1>4 DEF Same, Typed, OwnTraces, Goto
      <3>2. TablesKept
        BY <1>1 DEF TablesKept, EntriesKept
      <3>3. pc[d] # "idle" => <<hook, secret>> \in inForce[d]
        BY DEF CallOK
      <3> QED
        BY <1>1, <3>1, <3>2, <3>3, Untouched DEF deliveryVars
    <2>3. CallOK(c)'
      <3>1. pc'[c] = "wallet" /\ CallOK(c)
        BY <1>4 DEF Goto, Typed
      <3> QED
        BY <1>1, <1>4, <3>1 DEF CallOK, Working, deliveryVars
    <2> QED
      BY <2>1, <2>2, <2>3
  <1> QED
    BY <1>3, <1>4 DEF InsertMerchant

\* The wallet of a registration is stored.
LEMMA InsertWalletInv ==
  ASSUME IInv, NEW c \in Calls, InsertWallet(c)
  PROVE  IInv'
  <1>1. /\ pc[c] = "wallet" /\ answer' = answer /\ UNCHANGED <<copy, accounts>>
        /\ wallets' = wallets \cup {c}
        /\ UNCHANGED <<args, event, deliveryVars, sent, audit, entries, hook, secret, inForce>>
    BY DEF InsertWallet, ledgerVars
  <1>2. OwnTraces(c)
    BY <1>1 DEF IInv, Typed, OwnTraces
  <1>3. Effective(c)'
    <2>1. args[c].op = "register" /\ c \in accounts
      BY <1>1 DEF IInv, CallOK
    <2> QED
      BY <1>1, <2>1 DEF Effective, Money
  <1>4. PICK st \in {"2xx", "error"} : Respond(c, st)
    BY DEF InsertWallet
  <1> QED
    BY <1>1, <1>2, <1>3, <1>4, RespondInv

\* A call that is to change the merchant's row reads it.
LEMMA ReadMerchantInv ==
  ASSUME IInv, NEW c \in Calls, ReadMerchant(c)
  PROVE  IInv'
  <1> USE DEF IInv
  <1>0. /\ CallOK(c) /\ pc[c] = "service" /\ args[c].op \in {"url", "rotate"}
        /\ hook' = hook /\ secret' = secret /\ args' = args /\ status' = status
        /\ event' = event /\ dpc' = dpc /\ sent' = sent /\ apc' = apc /\ audit' = audit
        /\ inForce' = inForce /\ entries' = entries /\ answer' = answer
        /\ accounts' = accounts /\ wallets' = wallets
        /\ pc' = [pc EXCEPT ![c] = "update"]
        /\ copy' = [copy EXCEPT ![c] = [hook |-> hook, secret |-> secret]]
    BY DEF ReadMerchant, ledgerVars, deliveryVars, auditVars, Goto
  <1>1. [hook |-> hook, secret |-> secret] \in Row
    BY DEF Typed, Row
  <1>2. Typed'
    <2>1. copy' \in [Calls -> Row \cup {None}]
      BY <1>0, <1>1 DEF Typed
    <2> QED
      BY <1>0, <2>1 DEF Typed, Working
  <1>3. SentOK'
    BY <1>0, SentStays
  <1>4. ASSUME NEW d \in Calls \ {c} PROVE CallOK(d)'
    <2>1. Same(d) /\ TablesKept
      BY <1>0 DEF Same, TablesKept, EntriesKept, Typed
    <2>2. pc[d] # "idle" => <<hook, secret>> \in inForce[d]
      BY DEF CallOK
    <2> QED
      BY <1>0, <2>1, <2>2, Untouched
  <1>5. CallOK(c)'
    <2>1. pc'[c] = "update" /\ copy'[c] \in Row
      BY <1>0, <1>1 DEF Typed
    <2> QED
      BY <1>0, <2>1 DEF CallOK, Working
  <1> QED
    BY <1>2, <1>3, <1>4, <1>5

\* The event is announced, or not.
LEMMA EnqueueInv ==
  ASSUME IInv, NEW c \in Calls, Enqueue(c)
  PROVE  IInv'
  <1> USE DEF IInv
  <1>0. /\ CallOK(c) /\ pc[c] = "enqueue" /\ hook' = hook /\ secret' = secret
        /\ args' = args /\ status' = status /\ sent' = sent /\ apc' = apc /\ audit' = audit
        /\ inForce' = inForce /\ entries' = entries /\ answer' = answer
        /\ pc' = [pc EXCEPT ![c] = "respond"] /\ copy' = copy /\ accounts' = accounts /\ wallets' = wallets
        /\ event' = [event EXCEPT ![c] = IF dpc'[c] = "create" THEN EventOf(c) ELSE None]
    BY DEF Enqueue, ledgerVars, merchantVars, auditVars, Goto
  <1>1. dpc' = [dpc EXCEPT ![c] = "create"] \/ dpc' = [dpc EXCEPT ![c] = "skipped"]
    BY DEF Enqueue, delivery!EnqueueWebhook, delivery!Goto
  <1>2. Told(c) /\ event[c] = None /\ status[c] = None /\ <<hook, secret>> \in inForce[c]
        /\ args[c].op \in Money /\ args[c] \in Inputs /\ apc[c] = "idle" /\ c \notin audit
    BY <1>0 DEF CallOK, Working
  <1>3. EventOf(c) \in Event /\ EventOf(c) # None
    <2>1. answer[c].txn \in Entry
      <3>1. entries[answer[c].txn.id] \in Entry
        BY <1>2 DEF Told, Typed
      <3> QED
        BY <1>2, <3>1 DEF Told, AsBooked, Entry
    <2> QED
      BY <2>1, GatewayAssumption DEF EventOf, Event, Typed
  <1>4. Typed'
    <2>1. event' \in [Calls -> Event \cup {None}]
      BY <1>0, <1>3 DEF Typed
    <2>2. dpc' \in [Calls -> delivery!PCs]
      BY <1>1 DEF Typed, delivery!PCs, delivery!Running
    <2> QED
      BY <1>0, <2>1, <2>2 DEF Typed, Working
  <1>5. \A d \in Calls \ {c} : event'[d] = event[d] /\ dpc'[d] = dpc[d] /\ pc'[d] = pc[d]
    BY <1>0, <1>1 DEF Typed
  <1>6. SentOK'
    BY <1>0, <1>2, <1>5, SentStays
  <1>7. ASSUME NEW d \in Calls \ {c} PROVE CallOK(d)'
    <2>1. Same(d) /\ TablesKept
      BY <1>0, <1>5 DEF Same, TablesKept, EntriesKept
    <2>2. pc[d] # "idle" => <<hook, secret>> \in inForce[d]
      BY DEF CallOK
    <2> QED
      BY <1>0, <1>5, <2>1, <2>2, Untouched
  <1>8. CallOK(c)'
    <2>1. pc'[c] = "respond" /\ Told(c)'
      BY <1>0, <1>2 DEF Told, Typed
    <2>2. \/ event'[c] = EventOf(c)
          \/ event'[c] = None /\ dpc'[c] = "skipped"
      BY <1>0, <1>1 DEF Typed
    <2>3. event'[c] # None => /\ event'[c].txn = answer[c].txn
                              /\ event'[c].url = hook /\ event'[c].secret = secret
      BY <2>2 DEF EventOf
    <2>4. dpc'[c] \in delivery!Running => event'[c] # None
      BY <1>3, <2>2 DEF delivery!Running
    <2> QED
      BY <1>0, <1>2, <2>1, <2>3, <2>4, GatewayAssumption DEF CallOK, Working
  <1> QED
    BY <1>4, <1>6, <1>7, <1>8

\* The handler answers 2xx.
LEMMA CreatedInv ==
  ASSUME IInv, NEW c \in Calls, Created(c)
  PROVE  IInv'
  <1> USE DEF IInv
  <1>0. /\ CallOK(c) /\ pc[c] = "respond" /\ hook' = hook /\ secret' = secret
        /\ args' = args /\ event' = event /\ dpc' = dpc /\ sent' = sent /\ audit' = audit
        /\ inForce' = inForce /\ entries' = entries /\ answer' = answer
        /\ copy' = copy /\ accounts' = accounts /\ wallets' = wallets
        /\ pc' = [pc EXCEPT ![c] = "answered"]
        /\ status' = [status EXCEPT ![c] = "2xx"]
        /\ apc' = [apc EXCEPT ![c] = "insert"]
    BY DEF Created, Respond, AuditStep, ledgerVars, merchantVars, deliveryVars, Goto
  <1>1. Typed'
    BY <1>0 DEF Typed
  <1>2. SentOK'
    BY <1>0, SentStays
  <1>3. ASSUME NEW d \in Calls \ {c} PROVE CallOK(d)'
    <2>1. Same(d) /\ TablesKept
      BY <1>0 DEF Same, TablesKept, EntriesKept, Typed
    <2>2. pc[d] # "idle" => <<hook, secret>> \in inForce[d]
      BY DEF CallOK
    <2> QED
      BY <1>0, <2>1, <2>2, Untouched
  <1>4. CallOK(c)'
    <2>1. pc'[c] = "answered" /\ status'[c] = "2xx"
      BY <1>0 DEF Typed
    <2>2. Told(c) /\ args[c].op \in Money
      BY <1>0 DEF CallOK
    <2>3. Told(c)'
      BY <1>0, <2>2 DEF Told
    <2>4. Effective(c)'
      BY <1>0, <2>2, <2>3 DEF Effective, Money
    <2> QED
      BY <1>0, <2>1, <2>3, <2>4 DEF CallOK, Working
  <1> QED
    BY <1>1, <1>2, <1>3, <1>4

\* The merchant's row changes: for every call that has begun, the new row is in
\* force from now on.
LEMMA UpdateMerchantInv ==
  ASSUME IInv, NEW c \in Calls, UpdateMerchant(c)
  PROVE  IInv'
  <1> USE DEF IInv
  <1>0. /\ CallOK(c) /\ pc[c] = "update" /\ args[c].op \in {"url", "rotate"} /\ copy[c] \in Row
        /\ args' = args /\ event' = event /\ dpc' = dpc /\ sent' = sent /\ audit' = audit
        /\ entries' = entries /\ answer' = answer /\ accounts' = accounts /\ wallets' = wallets
        /\ copy' = [copy EXCEPT ![c] = None]
        /\ inForce' = [d \in Calls |-> IF args[d] = None THEN {}
                                       ELSE inForce[d] \cup {<<hook', secret'>>}]
        /\ pc' = [pc EXCEPT ![c] = "answered"]
        /\ \/ status' = [status EXCEPT ![c] = "2xx"] /\ apc' = [apc EXCEPT ![c] = "insert"]
           \/ status' = [status EXCEPT ![c] = "error"] /\ apc' = [apc EXCEPT ![c] = "none"]
    BY DEF UpdateMerchant, Respond, AuditStep, ledgerVars, deliveryVars, Goto, CallOK
  <1>1. /\ args[c].op = "url" => hook' = args[c].url /\ secret' = copy[c].secret
        /\ args[c].op = "rotate" => hook' = copy[c].hook /\ secret' = c
    BY <1>0 DEF UpdateMerchant, RowToWrite, Row
  <1>2. hook' \in URLs \cup {None} /\ secret' \in Calls \cup {None}
    <2>1. args[c] \in Args
      BY <1>0, GatewayAssumption DEF CallOK
    <2>2. args[c].op = "url" => args[c].url \in URLs \cup {None}
      BY <2>1 DEF Args, Money
    <2> QED
      BY <1>0, <1>1, <2>2 DEF Row
  <1>3. Typed'
    <2>1. inForce' \in [Calls -> SUBSET ((URLs \cup {None}) \X (Calls \cup {None}))]
      <3>1. ASSUME NEW d \in Calls
            PROVE  inForce[d] \cup {<<hook', secret'>>} \in SUBSET ((URLs \cup {None}) \X (Calls \cup {None}))
        BY <1>2 DEF Typed
      <3> QED
        BY <1>0, <3>1
    <2>2. /\ status' \in [Calls -> {"2xx", "error", None}]
          /\ apc' \in [Calls -> {"idle", "none", "insert", "ended", "dead"}]
          /\ pc' \in [Calls -> {"idle", "answered", "dead"} \cup Working]
          /\ copy' \in [Calls -> Row \cup {None}]
      BY <1>0 DEF Typed
    <2> QED
      BY <1>0, <1>2, <2>1, <2>2 DEF Typed
  <1>4. SentOK'
    BY <1>0, SentStays
  <1>5. ASSUME NEW d \in Calls, pc[d] # "idle"
        PROVE  inForce'[d] = inForce[d] \cup {<<hook', secret'>>}
    <2>1. args[d] # None
      BY <1>5, GatewayAssumption DEF CallOK
    <2> QED
      BY <1>0, <2>1
  <1>6. ASSUME NEW d \in Calls \ {c} PROVE CallOK(d)'
    <2>1. Same(d) /\ TablesKept
      BY <1>0 DEF Same, TablesKept, EntriesKept, Typed
    <2>2. CASE pc[d] # "idle"
      BY <1>0, <1>5, <2>1, <2>2, Untouched
    <2>3. CASE pc[d] = "idle"
      BY <1>0, <2>1, <2>3 DEF CallOK, Same, Working
    <2> QED
      BY <2>2, <2>3
  <1>7. CallOK(c)'
    <2>1. /\ pc'[c] = "answered" /\ event'[c] = None /\ dpc'[c] \notin delivery!Running
          /\ c \notin audit' /\ args[c] \in Inputs
      BY <1>0 DEF CallOK, Typed, Working
    <2>2. <<hook', secret'>> \in inForce'[c]
      BY <1>0, <1>5
    <2>3. Effective(c)'
      <3>1. CASE args[c].op = "url"
        BY <1>0, <1>1, <2>2, <3>1 DEF Effective, Money
      <3>2. CASE args[c].op = "rotate"
        <4>1. \E f \in inForce'[c] : f[2] = c
          BY <1>1, <2>2, <3>2
        <4> QED
          BY <1>0, <3>2, <4>1 DEF Effective, Money
      <3> QED
        BY <1>0, <3>1, <3>2
    <2> QED
      BY <1>0, <2>1, <2>2, <2>3 DEF CallOK, Working
  <1> QED
    BY <1>3, <1>4, <1>6, <1>7

\* A goroutine that takes a step was running, and only its own step changes.
LEMMA DeliveryStep ==
  ASSUME Typed, NEW c \in Calls, delivery!Step(c)
  PROVE  /\ dpc[c] \in delivery!Running
         /\ dpc' \in [Calls -> delivery!PCs]
         /\ \A d \in Calls \ {c} : dpc'[d] = dpc[d]
  <1>1. dpc[c] \in delivery!Running /\ \E l \in delivery!PCs : delivery!Goto(c, l)
    <2>1. CASE delivery!CreateLog(c)
      BY <2>1 DEF delivery!CreateLog, delivery!PCs, delivery!Running
    <2>2. ASSUME NEW http \in {"2xx", "other"}, delivery!PostAnswered(c, http)
          PROVE  dpc[c] \in delivery!Running /\ \E l \in delivery!PCs : delivery!Goto(c, l)
      BY <2>2 DEF delivery!PostAnswered, delivery!AfterAck, delivery!PCs, delivery!Running
    <2>3. CASE delivery!PostFailed(c)
      BY <2>3 DEF delivery!PostFailed, delivery!PCs, delivery!Running
    <2>4. CASE delivery!PostImpossible(c)
      BY <2>4 DEF delivery!PostImpossible, delivery!PCs, delivery!Running
    <2>5. CASE delivery!SaveRetry(c)
      BY <2>5 DEF delivery!SaveRetry, delivery!PCs, delivery!Running
    <2>6. CASE delivery!SaveFinal(c)
      BY <2>6 DEF delivery!SaveFinal, delivery!PCs, delivery!Running
    <2> QED
      BY <2>1, <2>2, <2>3, <2>4, <2>5, <2>6 DEF delivery!Step
  <1> QED
    BY <1>1 DEF delivery!Goto, Typed

\* A delivery goes on, and may have posted its event.
LEMMA DeliverInv ==
  ASSUME IInv, NEW c \in Calls, Deliver(c)
  PROVE  IInv'
  <1> USE DEF IInv
  <1>0. /\ CallOK(c) /\ delivery!Step(c) /\ hook' = hook /\ secret' = secret
        /\ args' = args /\ pc' = pc /\ status' = status /\ event' = event /\ apc' = apc
        /\ audit' = audit /\ inForce' = inForce /\ entries' = entries /\ answer' = answer
        /\ copy' = copy /\ accounts' = accounts /\ wallets' = wallets
    BY DEF Deliver, ledgerVars, merchantVars, handlerVars, auditVars
  <1> DEFINE post == [call |-> c, txn |-> event[c].txn, url |-> event[c].url,
                      secret |-> event[c].secret]
  <1>1. sent' = sent \/ sent' = sent \cup {post}
    BY DEF Deliver, TargetOf
  <1>2. /\ dpc[c] \in delivery!Running
        /\ dpc' \in [Calls -> delivery!PCs]
        /\ \A d \in Calls \ {c} : dpc'[d] = dpc[d]
    BY <1>0, DeliveryStep
  <1>3. event[c] # None /\ event[c] \in Event
    BY <1>0, <1>2 DEF CallOK, Typed
  <1>4. post \in [call : Calls, txn : Entry, url : URLs \cup {None}, secret : Calls \cup {None}]
    BY <1>3 DEF Event
  <1>5. Typed'
    BY <1>0, <1>1, <1>2, <1>4 DEF Typed
  <1>6. SentOK'
    <2>1. CASE sent' = sent
      BY <1>0, <2>1, SentStays
    <2>2. CASE sent' = sent \cup {post}
      BY <1>0, <1>3, <2>2 DEF SentOK
    <2> QED
      BY <1>1, <2>1, <2>2
  <1>7. ASSUME NEW d \in Calls PROVE CallOK(d)'
    <2>1. Same(d) /\ TablesKept
      BY <1>0 DEF Same, TablesKept, EntriesKept
    <2>2. pc[d] # "idle" => <<hook, secret>> \in inForce[d]
      BY DEF CallOK
    <2>3. dpc'[d] \in delivery!Running => dpc[d] \in delivery!Running
      BY <1>2
    <2> QED
      BY <1>0, <2>1, <2>2, <2>3, Untouched
  <1> QED
    BY <1>5, <1>6, <1>7

\* The audit goroutine inserts its entry, or fails to.
LEMMA InsertAuditInv ==
  ASSUME IInv, NEW c \in Calls, InsertAudit(c)
  PROVE  IInv'
  <1> USE DEF IInv
  <1>0. /\ CallOK(c) /\ apc[c] = "insert" /\ hook' = hook /\ secret' = secret
        /\ args' = args /\ pc' = pc /\ status' = status /\ event' = event /\ dpc' = dpc
        /\ sent' = sent /\ inForce' = inForce /\ entries' = entries /\ answer' = answer
        /\ apc' = [apc EXCEPT ![c] = "ended"] /\ copy' = copy /\ accounts' = accounts /\ wallets' = wallets
        /\ audit' = audit \/ audit' = audit \cup {c}
    BY DEF InsertAudit, ledgerVars, merchantVars, handlerVars, deliveryVars
  <1>1. Typed'
    BY <1>0 DEF Typed
  <1>2. SentOK'
    BY <1>0, SentStays
  <1>3. ASSUME NEW d \in Calls \ {c} PROVE CallOK(d)'
    <2>1. Same(d) /\ TablesKept
      BY <1>0 DEF Same, TablesKept, EntriesKept, Typed
    <2>2. pc[d] # "idle" => <<hook, secret>> \in inForce[d]
      BY DEF CallOK
    <2> QED
      BY <1>0, <2>1, <2>2, Untouched
  <1>4. CallOK(c)'
    <2>1. Effective(c) /\ pc[c] \notin {"idle"} \cup Working
      BY <1>0 DEF CallOK
    <2>2. (Told(c) <=> Told(c)') /\ Effective(c)'
      BY <1>0, <2>1 DEF Effective, Told, AccountsOf
    <2> QED
      BY <1>0, <2>1, <2>2 DEF CallOK, Working
  <1> QED
    BY <1>1, <1>2, <1>3, <1>4

\* The process ends.
LEMMA CrashInv ==
  ASSUME IInv, Crash
  PROVE  IInv'
  <1> USE DEF IInv
  <1>0. /\ hook' = hook /\ secret' = secret /\ args' = args /\ status' = status
        /\ event' = event /\ sent' = sent /\ audit' = audit /\ inForce' = inForce
        /\ entries' = entries /\ answer' = answer /\ accounts' = accounts /\ wallets' = wallets
        /\ copy' = [c \in Calls |-> None]
        /\ pc' = [c \in Calls |-> IF pc[c] \in Working THEN "dead" ELSE pc[c]]
        /\ dpc' = [c \in Calls |-> IF dpc[c] \in delivery!Running THEN "dead" ELSE dpc[c]]
        /\ apc' = [c \in Calls |-> IF apc[c] = "insert" THEN "dead" ELSE apc[c]]
    BY DEF Crash, ledgerVars
  <1>1. Typed'
    BY <1>0 DEF Typed, delivery!PCs
  <1>2. SentOK'
    BY <1>0, SentStays
  <1>3. ASSUME NEW c \in Calls PROVE CallOK(c)'
    <2>1. CallOK(c) /\ (Told(c) <=> Told(c)') /\ (Effective(c) <=> Effective(c)')
      BY <1>0 DEF Effective, Told, AccountsOf
    <2>2. /\ (pc'[c] = "dead" \/ (pc'[c] = pc[c] /\ pc[c] \notin Working))
          /\ pc[c] = "idle" => pc'[c] = "idle"
          /\ pc'[c] = "idle" => pc[c] = "idle"
          /\ dpc'[c] \notin delivery!Running
          /\ apc'[c] # "insert" /\ (apc'[c] = apc[c] \/ apc'[c] = "dead")
          /\ apc[c] = "idle" => apc'[c] = "idle"
      BY <1>0 DEF Working, delivery!Running
    <2> QED
      BY <1>0, <2>1, <2>2 DEF CallOK, Working
  <1> QED
    BY <1>1, <1>2, <1>3

\* Nothing happens.
LEMMA StutterInv ==
  ASSUME IInv, UNCHANGED vars
  PROVE  IInv'
  <1>0. /\ UNCHANGED <<hook, secret, args, pc, status, event, dpc, sent, apc, audit>>
        /\ UNCHANGED <<inForce, entries, answer, copy, accounts, wallets>>
    BY DEF vars, ledgerVars, merchantVars, handlerVars, deliveryVars, auditVars
  <1>1. Typed' /\ SentOK'
    BY <1>0 DEF IInv, Typed, SentOK
  <1>2. ASSUME NEW c \in Calls PROVE CallOK(c)'
    BY <1>0 DEF IInv, CallOK, Told, Effective, AccountsOf
  <1> QED
    BY <1>1, <1>2 DEF IInv

\* Every step keeps the invariant.
LEMMA NextInv == IInv /\ [Next]_vars => IInv'
  BY ReceiveInv, BookInv, ConfirmInv, RejectInv, EnqueueInv, CreatedInv, ReadMerchantInv,
     UpdateMerchantInv, InsertMerchantInv, InsertWalletInv, LoginInv, ServiceErrorInv, DeliverInv,
     InsertAuditInv, CrashInv, StutterInv
  DEF Next, Handle, Quiescent

-----------------------------------------------------------------------------
\* What a call, its delivery and its audit entry have left behind is true in
\* every reachable state.
THEOREM GatewayInvariance == Spec => []IInv
  BY InitInv, NextInv, PTL DEF Spec

\* Every POST announces a booked transaction, as it was booked and as its call
\* answered it, and none belongs to a call that was refused.
THEOREM PostsTellOfBookings == Spec => []PostsAreBooked
  <1>1. IInv => PostsAreBooked
    <2> SUFFICES ASSUME IInv, NEW p \in sent
                 PROVE  /\ entries[p.txn.id] # None
                        /\ p.txn = [entries[p.txn.id] EXCEPT !.status = "SUCCESS"]
                        /\ status[p.call] # "error"
                        /\ p.txn = answer[p.call].txn
      BY DEF PostsAreBooked
    <2>1. p.call \in Calls /\ event[p.call] # None /\ p.txn = event[p.call].txn
      BY DEF IInv, Typed, SentOK
    <2>2. /\ Told(p.call) /\ status[p.call] # "error"
          /\ event[p.call].txn = answer[p.call].txn
      BY <2>1 DEF IInv, CallOK
    <2> QED
      BY <2>1, <2>2 DEF Told, AsBooked
  <1> QED
    BY <1>1, GatewayInvariance, PTL

\* Every POST goes to a URL and is signed with a secret that were in force
\* together since its call began.
THEOREM URLMatchesSecret == Spec => []URLAndSecretBelongTogether
  <1>1. IInv => URLAndSecretBelongTogether
    <2> SUFFICES ASSUME IInv, NEW p \in sent
                 PROVE  <<p.url, p.secret>> \in inForce[p.call]
      BY DEF URLAndSecretBelongTogether
    <2>1. /\ p.call \in Calls /\ event[p.call] # None
          /\ p.url = event[p.call].url /\ p.secret = event[p.call].secret
      BY DEF IInv, Typed, SentOK
    <2> QED
      BY <2>1 DEF IInv, CallOK
  <1> QED
    BY <1>1, GatewayInvariance, PTL

\* The audit log names only requests that had their effect.
THEOREM AuditIsTrue == Spec => []AuditTellsTheTruth
  <1>1. IInv => AuditTellsTheTruth
    <2> SUFFICES ASSUME IInv, NEW c \in audit
                 PROVE  /\ args[c].op \in Money => /\ answer[c] # None
                                                   /\ answer[c].code = "OK"
                                                   /\ entries[answer[c].txn.id] # None
                        /\ args[c].op = "url" => \E f \in inForce[c] : f[1] = args[c].url
                        /\ args[c].op = "rotate" => \E f \in inForce[c] : f[2] = c
                        /\ args[c].op = "register" => c \in accounts \cap wallets
                        /\ args[c].op = "login" => /\ AccountsOf(args[c].user) # {}
                                                   /\ args[c].genuine
                        /\ args[c].op # "invalid"
      BY DEF AuditTellsTheTruth
    <2>1. c \in Calls /\ Effective(c)
      BY DEF IInv, Typed, CallOK
    <2> QED
      BY <2>1 DEF Effective, Told
  <1> QED
    BY <1>1, GatewayInvariance, PTL

-----------------------------------------------------------------------------
(* The composition implements its two parts. *)

\* A handler that asks for a transaction, or gets none, moves the ledger by one
\* of its own operations, and nothing else moves it.
LEMMA LedgerStep == [Next]_vars => [ledger!LNext]_(ledger!lvars)
  <1> SUFFICES ASSUME [Next]_vars PROVE ledger!LNext \/ UNCHANGED ledgerVars
    BY DEF ledger!lvars, ledgerVars
  <1>1. ASSUME NEW c \in Calls, Book(c) \/ Confirm(c) \/ Reject(c) PROVE ledger!LNext
    BY <1>1 DEF Book, Confirm, Reject, ledger!LNext
  <1>2. ASSUME NEW c \in Calls, NEW a \in Inputs, Receive(c, a) PROVE UNCHANGED ledgerVars
    BY <1>2 DEF Receive
  <1>3. ASSUME NEW c \in Calls, Enqueue(c) \/ Created(c) \/ ReadMerchant(c) \/ UpdateMerchant(c)
                                \/ InsertMerchant(c) \/ InsertWallet(c) \/ Login(c)
                                \/ ServiceError(c) \/ Deliver(c) \/ InsertAudit(c)
        PROVE  UNCHANGED ledgerVars
    BY <1>3 DEF Enqueue, Created, ReadMerchant, UpdateMerchant, InsertMerchant, InsertWallet,
       Login, ServiceError, Deliver, InsertAudit
  <1>4. ASSUME Crash PROVE UNCHANGED ledgerVars
    BY <1>4 DEF Crash
  <1>5. ASSUME UNCHANGED vars PROVE UNCHANGED ledgerVars
    BY <1>5 DEF vars
  <1> QED
    BY <1>1, <1>2, <1>3, <1>4, <1>5 DEF Next, Handle, Quiescent

\* Handlers, deliveries and crashes around it leave the ledger the ledger that
\* the payment service implements.
THEOREM GatewayImplementsLedger == Spec => ledger!LSpec
  <1>1. Init => ledger!LInit
    BY DEF Init
  <1> QED
    BY <1>1, LedgerStep, PTL DEF Spec, ledger!LSpec

\* A crash of the process is a crash of the deliveries under way, if there are any.
LEMMA CrashOfDeliveries ==
  ASSUME Typed, Crash
  PROVE  delivery!Crash \/ UNCHANGED delivery!vars
  <1>0. /\ hook' = hook /\ mem' = mem /\ row' = row /\ posts' = posts /\ acked' = acked
        /\ "crash" \in DeliveryFaults \cup (Faults \cap {"crash"})
        /\ dpc' = [c \in Calls |-> IF dpc[c] \in delivery!Running THEN "dead" ELSE dpc[c]]
    BY DEF Crash
  <1>1. CASE \E c \in Calls : dpc[c] \in delivery!Running
    BY <1>0, <1>1 DEF delivery!Crash
  <1>2. CASE ~ \E c \in Calls : dpc[c] \in delivery!Running
    <2>1. dpc' = dpc
      BY <1>0, <1>2 DEF Typed
    <2> QED
      BY <1>0, <2>1 DEF delivery!vars
  <1> QED
    BY <1>1, <1>2

\* Every step of the gateway is a step of the deliveries or leaves them alone.
LEMMA DeliveriesStep == IInv /\ [Next]_vars => [delivery!Next]_(delivery!vars)
  <1> SUFFICES ASSUME IInv, [Next]_vars PROVE delivery!Next \/ UNCHANGED delivery!vars
    OBVIOUS
  <1>1. ASSUME NEW c \in Calls, Enqueue(c) PROVE delivery!Next
    BY <1>1 DEF Enqueue, delivery!Next
  <1>2. ASSUME NEW c \in Calls, Deliver(c) PROVE delivery!Next
    BY <1>2 DEF Deliver, delivery!Next
  <1>3. ASSUME NEW c \in Calls, UpdateMerchant(c)
        PROVE  delivery!UpdateWebhookURL \/ UNCHANGED delivery!vars
    <2>1. UNCHANGED <<dpc, mem, row, posts, acked>>
      BY <1>3 DEF UpdateMerchant, deliveryVars
    <2>2. CASE (hook' # None) = (hook # None)
      BY <2>1, <2>2 DEF delivery!vars
    <2>3. CASE (hook' # None) # (hook # None)
      BY <2>1, <2>3 DEF delivery!UpdateWebhookURL
    <2> QED
      BY <2>2, <2>3
  <1>4. ASSUME Crash PROVE delivery!Crash \/ UNCHANGED delivery!vars
    BY <1>4, CrashOfDeliveries DEF IInv
  <1>5. ASSUME UNCHANGED <<hook, deliveryVars>> PROVE UNCHANGED delivery!vars
    BY <1>5 DEF deliveryVars, delivery!vars
  <1>6. ASSUME NEW c \in Calls, NEW a \in Inputs, Receive(c, a)
        PROVE  UNCHANGED <<hook, deliveryVars>>
    BY <1>6 DEF Receive, merchantVars
  <1>7. ASSUME NEW c \in Calls, Book(c) \/ Confirm(c) \/ Reject(c) \/ Created(c)
                                \/ ReadMerchant(c) \/ InsertMerchant(c) \/ InsertWallet(c)
                                \/ Login(c) \/ ServiceError(c) \/ InsertAudit(c)
        PROVE  UNCHANGED <<hook, deliveryVars>>
    BY <1>7 DEF Book, Confirm, Reject, Created, ReadMerchant, InsertMerchant, InsertWallet, Login,
       ServiceError, InsertAudit, merchantVars
  <1>8. ASSUME UNCHANGED vars PROVE UNCHANGED <<hook, deliveryVars>>
    BY <1>8 DEF vars, merchantVars
  <1> QED
    BY <1>1, <1>2, <1>3, <1>4, <1>5, <1>6, <1>7, <1>8
    DEF Next, Handle, Quiescent, delivery!Next

\* The deliveries of the gateway, started by handlers and read against a
\* merchant's row that other requests change, are those of WebhookDelivery.
THEOREM GatewayImplementsDelivery == Spec => delivery!Spec
  <1>1. Init => delivery!Init
    BY DEF Init, delivery!Init
  <1> QED
    BY <1>1, GatewayInvariance, DeliveriesStep, PTL DEF Spec, delivery!Spec

-----------------------------------------------------------------------------
(* What WebhookDeliveryProofs shows of the deliveries alone holds of them here. *)

alone == INSTANCE WebhookDeliveryProofs WITH Deliveries <- Calls,
                                             Faults <- DeliveryFaults \cup (Faults \cap {"crash"}),
                                             url <- (hook # None), pc <- dpc

\* The constants of the deliveries are what their proofs assume them to be.
LEMMA AssumptionsOfDelivery ==
    /\ Retries \in Nat
    /\ DeliveryFaults \cup (Faults \cap {"crash"}) \subseteq {"db", "crypto", "network", "crash"}
    /\ None \notin alone!DeliveryLog
  BY DeliveryAssumption DEF delivery!DeliveryLog, alone!DeliveryLog

\* The deliveries that the proofs are about start like those of the gateway and
\* take the same steps.
LEMMA SameDeliveries ==
    /\ delivery!Init => alone!Init
    /\ [delivery!Next]_(delivery!vars) => [alone!Next]_(alone!vars)
  <1>1. delivery!Init => alone!Init
    BY DEF delivery!Init, alone!Init, delivery!NewLog, alone!NewLog
  <1>2. UNCHANGED delivery!vars => UNCHANGED alone!vars
    BY DEF delivery!vars, alone!vars
  <1>3. ASSUME NEW d \in Calls, delivery!EnqueueWebhook(d) PROVE alone!EnqueueWebhook(d)
    BY <1>3 DEF delivery!EnqueueWebhook, alone!EnqueueWebhook, delivery!Goto, alone!Goto
  <1>4. ASSUME NEW d \in Calls, delivery!CreateLog(d) PROVE alone!CreateLog(d)
    BY <1>4 DEF delivery!CreateLog, alone!CreateLog, delivery!Goto, alone!Goto
  <1>5. ASSUME NEW d \in Calls, NEW http \in {"2xx", "other"}, delivery!PostAnswered(d, http)
        PROVE  alone!PostAnswered(d, http)
    BY <1>5, Zenon DEF delivery!PostAnswered, alone!PostAnswered, delivery!Goto, alone!Goto,
       delivery!NextAttempt, alone!NextAttempt, delivery!IsLast, alone!IsLast,
       delivery!AfterAck, alone!AfterAck, delivery!Success, alone!Success
  <1>6. ASSUME NEW d \in Calls, delivery!PostFailed(d) PROVE alone!PostFailed(d)
    BY <1>6, Zenon DEF delivery!PostFailed, alone!PostFailed, delivery!Goto, alone!Goto,
       delivery!NextAttempt, alone!NextAttempt, delivery!IsLast, alone!IsLast
  <1>7. ASSUME NEW d \in Calls, delivery!PostImpossible(d) PROVE alone!PostImpossible(d)
    BY <1>7, Zenon DEF delivery!PostImpossible, alone!PostImpossible, delivery!Goto, alone!Goto,
       delivery!NextAttempt, alone!NextAttempt
  <1>8. ASSUME NEW d \in Calls, delivery!SaveRetry(d) PROVE alone!SaveRetry(d)
    BY <1>8, Zenon DEF delivery!SaveRetry, alone!SaveRetry, delivery!Goto, alone!Goto,
       delivery!PersistLog, alone!PersistLog, delivery!IsLast, alone!IsLast
  <1>9. ASSUME NEW d \in Calls, delivery!SaveFinal(d) PROVE alone!SaveFinal(d)
    BY <1>9 DEF delivery!SaveFinal, alone!SaveFinal, delivery!Goto, alone!Goto,
       delivery!PersistLog, alone!PersistLog
  <1>10. delivery!UpdateWebhookURL => alone!UpdateWebhookURL
    BY DEF delivery!UpdateWebhookURL, alone!UpdateWebhookURL
  <1>11. delivery!Crash => alone!Crash
    BY DEF delivery!Crash, alone!Crash, delivery!Running, alone!Running
  <1>12. delivery!Next => alone!Next
    BY <1>3, <1>4, <1>5, <1>6, <1>7, <1>8, <1>9, <1>10, <1>11
    DEF delivery!Next, alone!Next, delivery!Step, alone!Step
  <1> QED
    BY <1>1, <1>2, <1>12

\* The delivery logs that the gateway leaves behind never claim more than
\* happened, although requests change the URL and crashes end the deliveries.
THEOREM GatewayLogIsTruthful == Spec => []delivery!LogTellsTheTruth
  <1>1. alone!Spec => []alone!LogTellsTheTruth
    BY AssumptionsOfDelivery, alone!LogIsTruthful DEF alone!DeliveryLog
  <1>2. alone!LogTellsTheTruth <=> delivery!LogTellsTheTruth
    BY DEF delivery!LogTellsTheTruth, alone!LogTellsTheTruth
  <1> QED
    BY <1>1, <1>2, SameDeliveries, GatewayImplementsDelivery, PTL DEF delivery!Spec, alone!Spec

\* No delivery of the gateway posts again what the merchant has acknowledged, and
\* its row only moves forward to one final status.
THEOREM GatewayDeliveriesMoveForward == Spec => delivery!DeliveryMovesForward
  <1>1. alone!Spec => alone!DeliveryMovesForward
    BY AssumptionsOfDelivery, alone!DeliveriesMoveForward DEF alone!DeliveryLog
  <1>2. [alone!ForwardOnly]_(alone!vars) => [delivery!ForwardOnly]_(delivery!vars)
    BY DEF delivery!ForwardOnly, alone!ForwardOnly, delivery!vars, alone!vars
  <1> QED
    BY <1>1, <1>2, SameDeliveries, GatewayImplementsDelivery, PTL
    DEF delivery!Spec, alone!Spec, delivery!DeliveryMovesForward, alone!DeliveryMovesForward

===============================================================================
