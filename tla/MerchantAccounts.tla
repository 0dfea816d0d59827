--------------------------- MODULE MerchantAccounts ---------------------------
(***************************************************************************)
(* Merchant accounts: Register and Login of                                *)
(* internal/service/auth_service.go, UpdateWebhookURL and RotateKeys of    *)
(* internal/service/merchant_service.go, and the tables merchants and      *)
(* wallets.  None of them opens a database transaction: every statement    *)
(* commits by itself, and other calls run between two statements.          *)
(***************************************************************************)
EXTENDS FiniteSets

CONSTANTS
    Calls,      \* service calls; a registration's id also names its merchant
    Existing,   \* merchants registered before the modelled window
    Usernames,
    Passwords,
    URLs,       \* webhook URLs
    NameOf,     \* Existing -> Usernames
    PasswordOf, \* Existing -> Passwords
    Faults,     \* which failures may happen in this instance
    None        \* nil

ASSUME AccountsAssumption ==
    /\ NameOf \in [Existing -> Usernames]
    /\ PasswordOf \in [Existing -> Passwords]
    /\ \A m, n \in Existing : NameOf[m] = NameOf[n] => m = n
    /\ Existing \cap Calls = {}
    /\ None \notin Existing \cup Calls \cup URLs \cup Usernames \cup Passwords
    /\ Faults \subseteq {"db", "answer", "crypto", "crash"}

Ids == Existing \cup Calls
MerchantStatus == {"ACTIVE", "SUSPENDED"}

\* The access key and the secret key are drawn and stored together; the pair is
\* named after the call that drew it, or the merchant that came with it.
Merchant == [username : Usernames, password : Passwords, keys : Ids,
             url : URLs \cup {None}, status : MerchantStatus]

Call == [op : {"register"}, username : Usernames, password : Passwords,
         url : URLs \cup {None}]
        \cup [op : {"login"}, username : Usernames, password : Passwords]
        \cup [op : {"url"}, merchant : Ids, url : URLs \cup {None}]
        \cup [op : {"rotate"}, merchant : Ids]

Codes == {"OK", "PAY_002", "PAY_004", "SYS_001", "AUTH_001", "AUTH_004"}

\* What a caller is told: the merchant it is now authenticated as, if any, and
\* the keys that are shown this once, if any.
Reply == [code : Codes, merchant : Ids \cup {None}, keys : Ids \cup {None}]

\* nil is no row, no call and no answer.
ASSUME NoneAssumption ==
    /\ None \notin Merchant
    /\ None \notin Call
    /\ None \notin Reply

VARIABLES
    merchants,  \* table merchants: id -> row
    wallets,    \* table wallets: the merchants that have one
    pc,         \* call -> its next statement
    req,        \* call -> its arguments
    read,       \* call -> the row that GetByID returned
    reply       \* call -> what it returned

vars == <<merchants, wallets, pc, req, read, reply>>

Working == {"byUsername", "insert", "wallet", "login", "getByID", "update"}
PCs == {"idle", "done", "dead"} \cup Working

Init ==
    /\ \E status \in [Existing -> MerchantStatus] :
         merchants = [m \in Ids |->
            IF m \in Existing
              THEN [username |-> NameOf[m], password |-> PasswordOf[m], keys |-> m,
                    url |-> None, status |-> status[m]]
              ELSE None]
    /\ wallets = Existing
    /\ pc = [c \in Calls |-> "idle"]
    /\ req = [c \in Calls |-> None]
    /\ read = [c \in Calls |-> None]
    /\ reply = [c \in Calls |-> None]

Registered == {m \in Ids : merchants[m] # None}
Named(username) == {m \in Registered : merchants[m].username = username}

\* Merchants for which somebody holds a token.
LoggedIn == Existing \cup {m \in Ids : \E c \in Calls :
                /\ reply[c] # None
                /\ reply[c].code = "OK"
                /\ req[c].op = "login"
                /\ reply[c].merchant = m}

-----------------------------------------------------------------------------
Goto(c, label) == pc' = [pc EXCEPT ![c] = label]

Return(c, code, merchant, keys) ==
    /\ Goto(c, "done")
    /\ reply' = [reply EXCEPT ![c] = [code |-> code, merchant |-> merchant, keys |-> keys]]
    /\ read' = [read EXCEPT ![c] = None]

Fail(c, code) == Return(c, code, None, None)

\* A statement commits by itself, so its effect stays when its answer is lost.
Answered(c, merchant, keys) ==
    \/ Return(c, "OK", merchant, keys)
    \/ "answer" \in Faults /\ Fail(c, "SYS_001")

FirstStatement(op) == CASE op = "register" -> "byUsername"
                        [] op = "login" -> "login"
                        [] OTHER -> "getByID"

\* The dashboard's calls carry the merchant of a token.
Receive(c, args) ==
    /\ pc[c] = "idle"
    /\ args.op \in {"url", "rotate"} => args.merchant \in LoggedIn
    /\ req' = [req EXCEPT ![c] = args]
    /\ Goto(c, FirstStatement(args.op))
    /\ UNCHANGED <<merchants, wallets, read, reply>>

\* Register: GetByUsername, then keys, hash and encryption in memory.
CheckUsername(c) ==
    /\ pc[c] = "byUsername"
    /\ IF Named(req[c].username) # {}
         THEN Fail(c, "PAY_002")
         ELSE Goto(c, "insert") /\ UNCHANGED <<read, reply>>
    /\ UNCHANGED <<merchants, wallets, req>>

\* Slip: merchants.username without its UNIQUE constraint.
UsernameNeverTaken(username) == FALSE
UsernameTaken(username) == Named(username) # {}

NewMerchant(c) == [username |-> req[c].username, password |-> req[c].password,
                   keys |-> c, url |-> req[c].url, status |-> "ACTIVE"]

\* Register: merchantRepo.Create.
InsertMerchant(c) ==
    /\ pc[c] = "insert"
    /\ IF UsernameTaken(req[c].username)
         THEN Fail(c, "SYS_001") /\ UNCHANGED merchants
         ELSE /\ merchants' = [merchants EXCEPT ![c] = NewMerchant(c)]
              /\ \/ Goto(c, "wallet") /\ UNCHANGED <<read, reply>>
                 \/ "answer" \in Faults /\ Fail(c, "SYS_001")
    /\ UNCHANGED <<wallets, req>>

\* Slip: the wallet is never stored.
NoWallet(c) == wallets
WithWallet(c) == wallets \cup {c}

\* Register: walletRepo.Create, and the answer that shows the keys.
InsertWallet(c) ==
    /\ pc[c] = "wallet"
    /\ wallets' = WithWallet(c)
    /\ Answered(c, c, c)
    /\ UNCHANGED <<merchants, req>>

\* Slip: the password is not compared.
AnyPassword(c, m) == TRUE
Verify(c, m) == req[c].password = merchants[m].password

\* Slip: the status is not looked at.
AlwaysActive(m) == TRUE
IsActive(m) == merchants[m].status = "ACTIVE"

\* Login: one read; the token names the merchant.
Login(c) ==
    /\ pc[c] = "login"
    /\ \/ /\ Named(req[c].username) = {}
          /\ Fail(c, "AUTH_001")
       \/ \E m \in Named(req[c].username) :
             CASE ~Verify(c, m) -> Fail(c, "AUTH_001")
               [] Verify(c, m) /\ ~IsActive(m) -> Fail(c, "AUTH_004")
               [] OTHER -> Return(c, "OK", m, None)
    /\ UNCHANGED <<merchants, wallets, req>>

\* Slip: the query has lost its WHERE.
AnyRow(m) == merchants[CHOOSE n \in Registered : TRUE]
RowOf(m) == merchants[m]

\* UpdateWebhookURL and RotateKeys: GetByID.
GetByID(c) ==
    /\ pc[c] = "getByID"
    /\ LET row == RowOf(req[c].merchant)
       IN  IF row = None
             THEN Fail(c, "PAY_004")
             ELSE read' = [read EXCEPT ![c] = row] /\ Goto(c, "update") /\ UNCHANGED reply
    /\ UNCHANGED <<merchants, wallets, req>>

\* Slip: the keys are stored before they are drawn.
UndrawnKeys(c) == IF req[c].op = "url" THEN [read[c] EXCEPT !.url = req[c].url]
                                       ELSE [read[c] EXCEPT !.keys = None]
\* The row as it was read, with what the call is about replaced.
Changed(c) == IF req[c].op = "url" THEN [read[c] EXCEPT !.url = req[c].url]
                                   ELSE [read[c] EXCEPT !.keys = c]

\* merchantRepo.Update writes every column, whatever the call changed.
Update(c) ==
    /\ pc[c] = "update"
    /\ merchants' = [merchants EXCEPT ![req[c].merchant] =
                       [@ EXCEPT !.url = Changed(c).url, !.keys = Changed(c).keys,
                                 !.status = Changed(c).status]]
    /\ Answered(c, None, IF req[c].op = "rotate" THEN c ELSE None)
    /\ UNCHANGED <<wallets, req>>

\* A statement fails without effect, or keys, hash or encryption do.
Error(c) ==
    /\ \/ "db" \in Faults /\ pc[c] \in Working
       \/ "crypto" \in Faults /\ \/ pc[c] \in {"insert", "wallet", "login"}
                                 \/ pc[c] = "update" /\ req[c].op = "rotate"
    /\ Fail(c, "SYS_001")
    /\ UNCHANGED <<merchants, wallets, req>>

\* The process dies between two statements.
Crash ==
    /\ "crash" \in Faults
    /\ \E c \in Calls : pc[c] \in Working
    /\ LET gone == {c \in Calls : pc[c] \in Working}
       IN  /\ pc' = [c \in Calls |-> IF c \in gone THEN "dead" ELSE pc[c]]
           /\ read' = [c \in Calls |-> IF c \in gone THEN None ELSE read[c]]
    /\ UNCHANGED <<merchants, wallets, req, reply>>

\* Every call of the instance has ended.
Quiescent ==
    /\ \A c \in Calls : pc[c] \in {"done", "dead"}
    /\ UNCHANGED vars

Step(c) ==
    \/ CheckUsername(c)
    \/ InsertMerchant(c)
    \/ InsertWallet(c)
    \/ Login(c)
    \/ GetByID(c)
    \/ Update(c)
    \/ Error(c)

Next ==
    \/ \E c \in Calls, args \in Call : Receive(c, args)
    \/ \E c \in Calls : Step(c)
    \/ Crash
    \/ Quiescent

Spec == Init /\ [][Next]_vars

-----------------------------------------------------------------------------
TypeOK ==
    /\ merchants \in [Ids -> Merchant \cup {None}]
    /\ wallets \subseteq Ids
    /\ pc \in [Calls -> PCs]
    /\ req \in [Calls -> Call \cup {None}]
    /\ read \in [Calls -> Merchant \cup {None}]
    /\ reply \in [Calls -> Reply \cup {None}]

\* Two registrations of one username may both pass the lookup, but only one
\* stores a merchant.
UsernamesUnique == \A m, n \in Registered : merchants[m].username = merchants[n].username => m = n

\* A registration that answers has stored the merchant, its wallet and the keys
\* it shows; a wallet always has its merchant; and a merchant lacks its wallet
\* only while its registration runs or after it failed or died half-way.
RegistrationComplete ==
    /\ wallets \subseteq Registered
    /\ \A c \in Calls :
          /\ reply[c] # None /\ reply[c].code = "OK" /\ req[c].op = "register" =>
                /\ reply[c].merchant = c /\ reply[c].keys = c
                /\ c \in wallets
          /\ c \in Registered \ wallets =>
                \/ pc[c] \in {"wallet", "dead"}
                \/ pc[c] = "done" /\ reply[c].code = "SYS_001"

\* The merchant that a pair of keys was drawn for.
DrawnFor(keys) == IF keys \in Existing \/ req[keys].op = "register"
                    THEN keys ELSE req[keys].merchant

\* However lookups and whole-row updates interleave, a merchant's row, and the
\* copy a call works on, hold keys that were drawn for that merchant: keys never
\* authenticate somebody else.
KeysBelongToMerchant ==
    /\ \A m \in Registered : DrawnFor(merchants[m].keys) = m
    /\ \A c \in Calls : read[c] # None => DrawnFor(read[c].keys) = req[c].merchant

\* A token was issued only to the password of an active merchant of that name.
TokensAreEarned ==
    \A c \in Calls :
        reply[c] # None /\ reply[c].code = "OK" /\ req[c].op = "login" =>
            LET m == reply[c].merchant
            IN  /\ m \in Registered
                /\ merchants[m].username = req[c].username
                /\ merchants[m].password = req[c].password
                /\ merchants[m].status = "ACTIVE"

\* "UpdateWebhookURL updates the merchant's webhook URL": the keys stay.
OnlyTheURLChanges ==
    [][\A c \in Calls :
         pc[c] = "update" /\ pc'[c] = "done" /\ req[c].op = "url" =>
            \A m \in Registered : merchants'[m].keys = merchants[m].keys]_vars

===============================================================================
