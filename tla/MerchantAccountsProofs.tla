------------------------ MODULE MerchantAccountsProofs ------------------------
(***************************************************************************)
(* Proofs about MerchantAccounts, for any number of calls and merchants    *)
(* and any faults.  No transaction protects a call between its lookup and  *)
(* its write, so the argument rests on what no call ever does: change a    *)
(* name, a password or a status, remove a row, or write keys that were     *)
(* drawn for another merchant, even when it writes back an old row.        *)
(***************************************************************************)
EXTENDS MerchantAccounts, TLAPS

\* Where a call stands says what it was asked for and what it holds.
CallFollowsStep ==
    \A c \in Calls :
        /\ pc[c] = "idle" <=> req[c] = None
        /\ pc[c] \in {"byUsername", "insert", "wallet"} => req[c].op = "register"
        /\ pc[c] = "login" => req[c].op = "login"
        /\ pc[c] \in {"getByID", "update"} => req[c].op \in {"url", "rotate"}
        /\ pc[c] = "update" <=> read[c] # None
        /\ pc[c] = "done" <=> reply[c] # None

\* The row of a registration is there from its insertion on.
RowFollowsCall ==
    \A c \in Calls :
        /\ c \in Registered => pc[c] \in {"wallet", "done", "dead"} /\ req[c].op = "register"
        /\ pc[c] = "wallet" => c \in Registered

\* The copy of a row that a call works on is that of a stored merchant, and
\* agrees with it in the status.
CopyIsOfRow ==
    \A c \in Calls :
        read[c] # None => /\ req[c].merchant \in Registered
                          /\ read[c].status = merchants[req[c].merchant].status

\* Keys that are stored or about to be written back were drawn by a call that
\* has been received.
KeysAreDrawn ==
    /\ \A m \in Registered : merchants[m].keys \in Calls => req[merchants[m].keys] # None
    /\ \A c \in Calls : read[c] # None =>
          (read[c].keys \in Calls => req[read[c].keys] # None)

IInv == /\ TypeOK
        /\ CallFollowsStep
        /\ RowFollowsCall
        /\ CopyIsOfRow
        /\ KeysAreDrawn
        /\ UsernamesUnique
        /\ RegistrationComplete
        /\ KeysBelongToMerchant
        /\ TokensAreEarned

-----------------------------------------------------------------------------
\* The arguments of a call.
LEMMA CallFields ==
  ASSUME NEW a \in Call
  PROVE  /\ a # None
         /\ a.op \in {"register", "login", "url", "rotate"}
         /\ a.op = "register" => /\ a.username \in Usernames /\ a.password \in Passwords
                                /\ a.url \in URLs \cup {None}
         /\ a.op = "login" => a.username \in Usernames /\ a.password \in Passwords
         /\ a.op \in {"url", "rotate"} => a.merchant \in Ids
         /\ a.op = "url" => a.url \in URLs \cup {None}
  BY NoneAssumption DEF Call

\* The columns of a merchant.
LEMMA RowFields ==
  ASSUME NEW t \in Merchant
  PROVE  /\ t # None
         /\ t.username \in Usernames /\ t.password \in Passwords
         /\ t.keys \in Ids /\ t.url \in URLs \cup {None} /\ t.status \in MerchantStatus
  BY NoneAssumption DEF Merchant

\* What a call returns is an answer.
LEMMA ReplyFields ==
  ASSUME NEW code \in Codes, NEW m \in Ids \cup {None}, NEW k \in Ids \cup {None}
  PROVE  /\ [code |-> code, merchant |-> m, keys |-> k] \in Reply
         /\ [code |-> code, merchant |-> m, keys |-> k] # None
  BY NoneAssumption DEF Reply

\* The names are disjoint: a call is no merchant of before, and neither is nil.
LEMMA Disjoint ==
  /\ \A c \in Calls : c \notin Existing /\ c # None /\ c \in Ids
  /\ \A m \in Existing : m # None /\ m \in Ids
  BY AccountsAssumption DEF Ids

\* A step of a call that returns.
LEMMA Returns ==
  ASSUME TypeOK, NEW c \in Calls, NEW code \in Codes,
         NEW m \in Ids \cup {None}, NEW k \in Ids \cup {None}, Return(c, code, m, k)
  PROVE  /\ pc' = [pc EXCEPT ![c] = "done"]
         /\ read' = [read EXCEPT ![c] = None]
         /\ reply' = [reply EXCEPT ![c] = [code |-> code, merchant |-> m, keys |-> k]]
         /\ pc' \in [Calls -> PCs]
         /\ read' \in [Calls -> Merchant \cup {None}]
         /\ reply' \in [Calls -> Reply \cup {None}]
         /\ reply'[c] # None /\ reply'[c].code = code
         /\ reply'[c].merchant = m /\ reply'[c].keys = k
  BY ReplyFields DEF Return, Goto, TypeOK, PCs

\* The initial state satisfies the invariant.
LEMMA InitInv == Init => IInv
  <1> SUFFICES ASSUME Init PROVE IInv
    OBVIOUS
  <1> USE AccountsAssumption, Disjoint
  <1>1. PICK status \in [Existing -> MerchantStatus] :
           merchants = [m \in Ids |->
              IF m \in Existing
                THEN [username |-> NameOf[m], password |-> PasswordOf[m], keys |-> m,
                      url |-> None, status |-> status[m]]
                ELSE None]
    BY DEF Init
  <1>2. \A m \in Existing : /\ merchants[m] \in Merchant /\ merchants[m].keys = m
                            /\ merchants[m].username = NameOf[m] /\ merchants[m] # None
    BY <1>1, NoneAssumption DEF Merchant
  <1>3. \A c \in Calls : merchants[c] = None
    BY <1>1
  <1>4. merchants \in [Ids -> Merchant \cup {None}]
    BY <1>1, <1>2, <1>3 DEF Ids
  <1>5. TypeOK
    BY <1>4 DEF Init, TypeOK, PCs, Ids
  <1>6. Registered = Existing
    BY <1>2, <1>3 DEF Registered, Ids
  <1>7. CallFollowsStep /\ RowFollowsCall /\ CopyIsOfRow /\ KeysAreDrawn
    BY <1>2, <1>6 DEF Init, CallFollowsStep, RowFollowsCall, CopyIsOfRow, KeysAreDrawn
  <1>8. UsernamesUnique /\ RegistrationComplete /\ TokensAreEarned
    BY <1>2, <1>6 DEF Init, UsernamesUnique, RegistrationComplete, TokensAreEarned
  <1>9. KeysBelongToMerchant
    BY <1>2, <1>6 DEF Init, KeysBelongToMerchant, DrawnFor
  <1> QED
    BY <1>5, <1>7, <1>8, <1>9 DEF IInv

-----------------------------------------------------------------------------
\* The types of what belongs to a call, and of the rows.
LEMMA Typed ==
  ASSUME IInv
  PROVE  /\ \A c \in Calls : /\ pc[c] \in PCs
                             /\ req[c] \in Call \cup {None} /\ (pc[c] # "idle" => req[c] \in Call)
                             /\ read[c] \in Merchant \cup {None}
                             /\ (pc[c] = "update" => read[c] \in Merchant)
                             /\ reply[c] \in Reply \cup {None}
         /\ \A m \in Ids : merchants[m] \in Merchant \cup {None}
         /\ \A m \in Registered : m \in Ids /\ merchants[m] \in Merchant
  BY DEF IInv, TypeOK, CallFollowsStep, Registered

\* A statement of a call makes it return, or takes it to its next statement.
LEMMA Outcome ==
  ASSUME IInv, NEW c \in Calls, Step(c)
  PROVE  /\ UNCHANGED req
         /\ pc[c] \in Working
         /\ \/ \E code \in Codes, m \in Ids \cup {None}, k \in Ids \cup {None} : Return(c, code, m, k)
            \/ /\ pc[c] = "byUsername" /\ pc' = [pc EXCEPT ![c] = "insert"]
               /\ UNCHANGED <<read, reply>>
            \/ /\ pc[c] = "insert" /\ pc' = [pc EXCEPT ![c] = "wallet"]
               /\ UNCHANGED <<read, reply>>
            \/ /\ pc[c] = "getByID" /\ pc' = [pc EXCEPT ![c] = "update"]
               /\ merchants[req[c].merchant] \in Merchant
               /\ read' = [read EXCEPT ![c] = merchants[req[c].merchant]]
               /\ UNCHANGED reply
  <1> USE Disjoint, Typed
  <1> DEFINE Returned == \E code \in Codes, m \in Ids \cup {None}, k \in Ids \cup {None} :
                            Return(c, code, m, k)
  <1>1. ASSUME NEW code \in Codes, Fail(c, code) PROVE Returned
    BY <1>1 DEF Fail
  <1>2. ASSUME NEW m \in Ids \cup {None}, NEW k \in Ids \cup {None}, Answered(c, m, k)
        PROVE  Returned
    <2>1. "OK" \in Codes /\ "SYS_001" \in Codes
      BY DEF Codes
    <2> QED
      BY <1>1, <1>2, <2>1 DEF Answered
  <1> HIDE DEF Returned
  <1>3. CASE CheckUsername(c)
    BY <1>1, <1>3 DEF CheckUsername, Working, Codes, Goto, Returned
  <1>4. CASE InsertMerchant(c)
    BY <1>1, <1>4 DEF InsertMerchant, Working, Codes, Goto, Returned
  <1>5. CASE InsertWallet(c)
    BY <1>2, <1>5 DEF InsertWallet, Working, Returned
  <1>6. CASE Login(c)
    <2>1. Returned
      <3>1. "OK" \in Codes /\ "AUTH_001" \in Codes /\ "AUTH_004" \in Codes
        BY DEF Codes
      <3>2. CASE Fail(c, "AUTH_001") \/ Fail(c, "AUTH_004")
        BY <1>1, <3>1, <3>2
      <3>3. ASSUME NEW m \in Named(req[c].username), Return(c, "OK", m, None) PROVE Returned
        BY <3>1, <3>3 DEF Returned, Named, Registered
      <3> QED
        BY <1>6, <3>2, <3>3 DEF Login
    <2> QED
      BY <1>6, <2>1 DEF Login, Working, Returned
  <1>7. CASE GetByID(c)
    <2>1. req[c].merchant \in Ids
      BY <1>7, CallFields DEF GetByID, IInv, CallFollowsStep, PCs
    <2> QED
      BY <1>1, <1>7, <2>1 DEF GetByID, Working, Codes, Goto, RowOf, Returned
  <1>8. CASE Update(c)
    BY <1>2, <1>8 DEF Update, Working, Returned
  <1>9. CASE Error(c)
    BY <1>1, <1>9 DEF Error, Working, Codes, Returned
  <1> QED
    BY <1>3, <1>4, <1>5, <1>6, <1>7, <1>8, <1>9 DEF Step

\* The tables keep their types.
LEMMA TablesTyped ==
  ASSUME IInv, NEW c \in Calls, Step(c)
  PROVE  /\ merchants' \in [Ids -> Merchant \cup {None}]
         /\ wallets' \subseteq Ids
  <1> USE Disjoint, Typed
  <1>0. merchants \in [Ids -> Merchant \cup {None}] /\ wallets \subseteq Ids
    BY DEF IInv, TypeOK
  <1>1. CASE InsertMerchant(c)
    <2>1. NewMerchant(c) \in Merchant
      BY <1>1, CallFields DEF InsertMerchant, IInv, CallFollowsStep, NewMerchant, Merchant,
                              MerchantStatus
    <2> QED
      BY <1>0, <1>1, <2>1 DEF InsertMerchant
  <1>2. CASE Update(c)
    <2>1. /\ read[c] \in Merchant /\ req[c] \in Call /\ req[c].op \in {"url", "rotate"}
          /\ req[c].merchant \in Registered
      BY <1>2 DEF Update, IInv, CallFollowsStep, CopyIsOfRow
    <2>2. /\ Changed(c).url \in URLs \cup {None} /\ Changed(c).keys \in Ids
          /\ Changed(c).status \in MerchantStatus
      BY <2>1, RowFields, CallFields DEF Changed, Merchant
    <2>3. [merchants[req[c].merchant] EXCEPT !.url = Changed(c).url, !.keys = Changed(c).keys,
                                            !.status = Changed(c).status] \in Merchant
      BY <2>1, <2>2 DEF Merchant
    <2> QED
      BY <1>0, <1>2, <2>1, <2>3 DEF Update
  <1>3. CASE InsertWallet(c)
    BY <1>0, <1>3 DEF InsertWallet, WithWallet
  <1> QED
    BY <1>0, <1>1, <1>2, <1>3 DEF Step, CheckUsername, Login, GetByID, Error

\* Every variable keeps its type.
LEMMA TypeStep == IInv /\ [Next]_vars => TypeOK'
  <1> SUFFICES ASSUME IInv, [Next]_vars PROVE TypeOK'
    OBVIOUS
  <1>0. TypeOK
    BY DEF IInv
  <1>1. CASE UNCHANGED vars
    BY <1>0, <1>1 DEF vars, TypeOK
  <1>2. ASSUME NEW c \in Calls, NEW args \in Call, Receive(c, args) PROVE TypeOK'
    <2>1. FirstStatement(args.op) \in PCs
      BY DEF FirstStatement, PCs, Working
    <2> QED
      BY <1>0, <1>2, <2>1 DEF Receive, Goto, TypeOK
  <1>3. ASSUME NEW c \in Calls, Step(c) PROVE TypeOK'
    <2>1. req' \in [Calls -> Call \cup {None}]
      BY <1>0, <1>3, Outcome DEF TypeOK
    <2>2. pc' \in [Calls -> PCs] /\ read' \in [Calls -> Merchant \cup {None}]
          /\ reply' \in [Calls -> Reply \cup {None}]
      <3>1. ASSUME NEW code \in Codes, NEW m \in Ids \cup {None}, NEW k \in Ids \cup {None},
                   Return(c, code, m, k)
            PROVE  pc' \in [Calls -> PCs] /\ read' \in [Calls -> Merchant \cup {None}]
                   /\ reply' \in [Calls -> Reply \cup {None}]
        BY <1>0, <3>1, Returns
      <3> QED
        BY <1>0, <1>3, <3>1, Outcome DEF TypeOK, PCs, Working
    <2> QED
      BY <1>3, <2>1, <2>2, TablesTyped DEF TypeOK
  <1>4. CASE Crash
    BY <1>0, <1>4 DEF Crash, TypeOK, PCs
  <1>5. CASE Quiescent
    BY <1>1, <1>5 DEF Quiescent
  <1> QED
    BY <1>1, <1>2, <1>3, <1>4, <1>5 DEF Next

\* Where a call stands keeps saying what it holds.
LEMMA CallStep == IInv /\ [Next]_vars => CallFollowsStep'
  <1> SUFFICES ASSUME IInv, [Next]_vars PROVE CallFollowsStep'
    OBVIOUS
  <1> USE Disjoint, Typed
  <1>0. TypeOK
    BY DEF IInv
  <1>1. CASE UNCHANGED vars
    BY <1>1 DEF vars, IInv, CallFollowsStep
  <1>2. ASSUME NEW c \in Calls, NEW args \in Call, Receive(c, args) PROVE CallFollowsStep'
    BY <1>0, <1>2, CallFields DEF IInv, Receive, Goto, FirstStatement, TypeOK, CallFollowsStep
  <1>3. ASSUME NEW c \in Calls, Step(c) PROVE CallFollowsStep'
    <2>1. UNCHANGED req /\ pc[c] \in Working
      BY <1>3, Outcome
    <2>2. ASSUME NEW code \in Codes, NEW m \in Ids \cup {None}, NEW k \in Ids \cup {None},
                 Return(c, code, m, k)
          PROVE  CallFollowsStep'
      <3>1. /\ pc'[c] = "done" /\ read'[c] = None /\ reply'[c] # None
            /\ \A e \in Calls \ {c} : /\ pc'[e] = pc[e] /\ read'[e] = read[e]
                                       /\ reply'[e] = reply[e]
        BY <1>0, <2>2, Returns DEF TypeOK
      <3> QED
        BY <2>1, <3>1 DEF IInv, CallFollowsStep, Working
    <2> QED
      BY <1>0, <1>3, <2>1, <2>2, Outcome, RowFields DEF IInv, CallFollowsStep, TypeOK, Working
  <1>4. CASE Crash
    BY <1>4 DEF IInv, Crash, TypeOK, Working, CallFollowsStep
  <1>5. CASE Quiescent
    BY <1>1, <1>5 DEF Quiescent
  <1> QED
    BY <1>1, <1>2, <1>3, <1>4, <1>5 DEF Next

\* A statement of a call changes nothing of the other calls.
LEMMA OthersKept ==
  ASSUME IInv, NEW c \in Calls, Step(c), NEW e \in Calls \ {c}
  PROVE  pc'[e] = pc[e] /\ read'[e] = read[e] /\ reply'[e] = reply[e] /\ req'[e] = req[e]
  <1>1. ASSUME NEW code \in Codes, NEW m \in Ids \cup {None}, NEW k \in Ids \cup {None},
               Return(c, code, m, k)
        PROVE  pc'[e] = pc[e] /\ read'[e] = read[e] /\ reply'[e] = reply[e]
    BY <1>1 DEF IInv, TypeOK, Return, Goto
  <1> QED
    BY <1>1, Outcome DEF IInv, TypeOK

\* Rows stay, with their name, password and status; only an insertion adds one.
LEMMA RowsKept ==
  ASSUME IInv, NEW c \in Calls, Step(c)
  PROVE  /\ \A m \in Registered : /\ m \in Registered'
                                  /\ merchants'[m].username = merchants[m].username
                                  /\ merchants'[m].password = merchants[m].password
                                  /\ merchants'[m].status = merchants[m].status
         /\ \A m \in Registered' : m \in Registered \/ (m = c /\ InsertMerchant(c))
  <1> USE Disjoint, Typed
  <1>0. merchants \in [Ids -> Merchant \cup {None}]
    BY DEF IInv, TypeOK
  <1>1. CASE InsertMerchant(c)
    <2>1. c \notin Registered
      BY <1>1 DEF InsertMerchant, IInv, RowFollowsCall
    <2>2. \A m \in Ids \ {c} : merchants'[m] = merchants[m]
      BY <1>0, <1>1 DEF InsertMerchant
    <2> QED
      BY <1>1, <2>1, <2>2 DEF Registered
  <1>2. CASE Update(c)
    <2>1. /\ read[c] \in Merchant /\ req[c] \in Call /\ req[c].op \in {"url", "rotate"}
          /\ req[c].merchant \in Registered
          /\ read[c].status = merchants[req[c].merchant].status
      BY <1>2 DEF Update, IInv, CallFollowsStep, CopyIsOfRow
    <2>2. Changed(c).status = read[c].status
      BY <2>1 DEF Changed, Merchant
    <2> DEFINE t == merchants[req[c].merchant]
               u == [t EXCEPT !.url = Changed(c).url, !.keys = Changed(c).keys,
                              !.status = Changed(c).status]
    <2>3. /\ u.username = t.username /\ u.password = t.password /\ u.status = t.status
      BY <2>1, <2>2 DEF Merchant
    <2>4. merchants' = [merchants EXCEPT ![req[c].merchant] = u]
      BY <1>2 DEF Update
    <2>5. merchants'[req[c].merchant] \in Merchant \cup {None} /\ t \in Merchant
      BY <1>2, <2>1, TablesTyped
    <2>6. u # None
      <3>1. /\ Changed(c).url \in URLs \cup {None} /\ Changed(c).keys \in Ids
            /\ Changed(c).status \in MerchantStatus
        BY <2>1, RowFields, CallFields DEF Changed, Merchant
      <3>2. u \in Merchant
        BY <2>5, <3>1 DEF Merchant
      <3> QED
        BY <3>2, RowFields
    <2> HIDE DEF u
    <2> QED
      BY <1>0, <2>1, <2>3, <2>4, <2>6 DEF Registered
  <1>3. CASE UNCHANGED merchants
    BY <1>3 DEF Registered
  <1> QED
    BY <1>1, <1>2, <1>3 DEF Step, CheckUsername, InsertWallet, Login, GetByID, Error

\* Rows of registrations are inserted at their time and stay.
LEMMA RowStep == IInv /\ [Next]_vars => RowFollowsCall'
  <1> SUFFICES ASSUME IInv, [Next]_vars PROVE RowFollowsCall'
    OBVIOUS
  <1> USE Disjoint, Typed
  <1>1. CASE UNCHANGED vars
    BY <1>1 DEF vars, IInv, TypeOK, CallFollowsStep, RowFollowsCall, Registered
  <1>2. ASSUME NEW c \in Calls, NEW args \in Call, Receive(c, args) PROVE RowFollowsCall'
    BY <1>2, CallFields DEF IInv, Receive, Goto, FirstStatement, TypeOK, CallFollowsStep,
           RowFollowsCall, Registered
  <1>3. ASSUME NEW c \in Calls, CheckUsername(c) PROVE RowFollowsCall'
    BY <1>3 DEF IInv, CheckUsername, Fail, Return, Goto, TypeOK, CallFollowsStep,
           RowFollowsCall, Registered
  <1>4. ASSUME NEW c \in Calls, InsertMerchant(c) PROVE RowFollowsCall'
    <2>1. /\ UNCHANGED req /\ req[c].op = "register" /\ c \notin Registered /\ pc[c] = "insert"
      BY <1>4 DEF InsertMerchant, IInv, CallFollowsStep, RowFollowsCall
    <2>2. pc'[c] \in {"done", "wallet"} /\ (pc'[c] = "wallet" => c \in Registered')
      <3>1. NewMerchant(c) # None
        BY <1>4, CallFields, RowFields DEF InsertMerchant, IInv, CallFollowsStep, NewMerchant,
                                         Merchant, MerchantStatus
      <3> QED
        BY <1>4, <3>1 DEF InsertMerchant, Goto, Fail, Return, IInv, TypeOK, Registered
    <2> QED
      BY <1>4, <2>1, <2>2, RowsKept, OthersKept DEF Step, IInv, RowFollowsCall
  <1>5. ASSUME NEW c \in Calls, InsertWallet(c) PROVE RowFollowsCall'
    BY <1>5 DEF IInv, InsertWallet, Answered, Fail, Return, Goto, TypeOK, CallFollowsStep,
           RowFollowsCall, Registered
  <1>6. ASSUME NEW c \in Calls, Login(c) PROVE RowFollowsCall'
    BY <1>6 DEF IInv, Login, Fail, Return, Goto, TypeOK, CallFollowsStep, RowFollowsCall,
           Registered
  <1>7. ASSUME NEW c \in Calls, GetByID(c) PROVE RowFollowsCall'
    BY <1>7, CallFields, RowFields DEF IInv, GetByID, Fail, Return, Goto, TypeOK,
           CallFollowsStep, RowFollowsCall, Registered
  <1>8. ASSUME NEW c \in Calls, Update(c) PROVE RowFollowsCall'
    <2>1. UNCHANGED req /\ pc[c] = "update" /\ pc'[c] = "done" /\ ~InsertMerchant(c)
      BY <1>8 DEF Update, InsertMerchant, Answered, Fail, Return, Goto, IInv, TypeOK
    <2> QED
      BY <1>8, <2>1, RowsKept, OthersKept DEF Step, IInv, RowFollowsCall
  <1>9. ASSUME NEW c \in Calls, Error(c) PROVE RowFollowsCall'
    BY <1>9 DEF IInv, Error, Fail, Return, Goto, TypeOK, Working, CallFollowsStep,
           RowFollowsCall, Registered
  <1>10. CASE Crash
    BY <1>10 DEF IInv, Crash, TypeOK, Working, CallFollowsStep, RowFollowsCall, Registered
  <1>11. CASE Quiescent
    BY <1>1, <1>11 DEF Quiescent
  <1> QED
    BY <1>1, <1>2, <1>3, <1>4, <1>5, <1>6, <1>7, <1>8, <1>9, <1>10, <1>11 DEF Next, Step

\* Copies keep the status of their rows.
LEMMA CopyStep == IInv /\ [Next]_vars => CopyIsOfRow'
  <1> SUFFICES ASSUME IInv, [Next]_vars PROVE CopyIsOfRow'
    OBVIOUS
  <1> USE Disjoint, Typed
  <1>1. CASE UNCHANGED vars
    BY <1>1 DEF vars, IInv, TypeOK, CallFollowsStep, CopyIsOfRow, Registered
  <1>2. ASSUME NEW c \in Calls, NEW args \in Call, Receive(c, args) PROVE CopyIsOfRow'
    BY <1>2, CallFields DEF IInv, Receive, Goto, FirstStatement, TypeOK, CallFollowsStep,
           CopyIsOfRow, Registered
  <1>3. ASSUME NEW c \in Calls, CheckUsername(c) PROVE CopyIsOfRow'
    BY <1>3 DEF IInv, CheckUsername, Fail, Return, Goto, TypeOK, CallFollowsStep,
           CopyIsOfRow, Registered
  <1>4. ASSUME NEW c \in Calls, InsertMerchant(c) PROVE CopyIsOfRow'
    <2>1. read[c] = None /\ read'[c] = None /\ UNCHANGED req
      BY <1>4 DEF InsertMerchant, Fail, Return, Goto, IInv, TypeOK, CallFollowsStep
    <2> QED
      BY <1>4, <2>1, RowsKept, OthersKept DEF Step, IInv, CopyIsOfRow
  <1>5. ASSUME NEW c \in Calls, InsertWallet(c) PROVE CopyIsOfRow'
    BY <1>5 DEF IInv, InsertWallet, Answered, Fail, Return, Goto, TypeOK, CallFollowsStep,
           CopyIsOfRow, Registered
  <1>6. ASSUME NEW c \in Calls, Login(c) PROVE CopyIsOfRow'
    BY <1>6 DEF IInv, Login, Fail, Return, Goto, TypeOK, CallFollowsStep, CopyIsOfRow,
           Registered
  <1>7. ASSUME NEW c \in Calls, GetByID(c) PROVE CopyIsOfRow'
    <2>1. /\ req[c].merchant \in Ids /\ UNCHANGED <<req, merchants>>
          /\ read'[c] \in {None, merchants[req[c].merchant]}
      BY <1>7, CallFields DEF GetByID, RowOf, Fail, Return, Goto, IInv, TypeOK, CallFollowsStep
    <2> QED
      BY <1>7, <2>1, OthersKept DEF Step, IInv, CopyIsOfRow, Registered
  <1>8. ASSUME NEW c \in Calls, Update(c) PROVE CopyIsOfRow'
    <2>1. read'[c] = None /\ UNCHANGED req
      BY <1>8 DEF Update, Answered, Fail, Return, Goto, IInv, TypeOK
    <2> QED
      BY <1>8, <2>1, RowsKept, OthersKept DEF Step, IInv, CopyIsOfRow
  <1>9. ASSUME NEW c \in Calls, Error(c) PROVE CopyIsOfRow'
    BY <1>9 DEF IInv, Error, Fail, Return, Goto, TypeOK, Working, CallFollowsStep,
           CopyIsOfRow, Registered
  <1>10. CASE Crash
    BY <1>10 DEF IInv, Crash, TypeOK, Working, CallFollowsStep, CopyIsOfRow, Registered
  <1>11. CASE Quiescent
    BY <1>1, <1>11 DEF Quiescent
  <1> QED
    BY <1>1, <1>2, <1>3, <1>4, <1>5, <1>6, <1>7, <1>8, <1>9, <1>10, <1>11 DEF Next, Step

\* Keys are drawn before they are stored.
LEMMA DrawnStep == IInv /\ [Next]_vars => KeysAreDrawn'
  <1> SUFFICES ASSUME IInv, [Next]_vars PROVE KeysAreDrawn'
    OBVIOUS
  <1> USE Disjoint, Typed
  <1>1. CASE UNCHANGED vars
    BY <1>1 DEF vars, IInv, TypeOK, CallFollowsStep, KeysAreDrawn, CopyIsOfRow, Registered
  <1>2. ASSUME NEW c \in Calls, NEW args \in Call, Receive(c, args) PROVE KeysAreDrawn'
    BY <1>2, CallFields DEF IInv, Receive, Goto, FirstStatement, TypeOK, CallFollowsStep,
           KeysAreDrawn, CopyIsOfRow, Registered
  <1>3. ASSUME NEW c \in Calls, CheckUsername(c) PROVE KeysAreDrawn'
    BY <1>3 DEF IInv, CheckUsername, Fail, Return, Goto, TypeOK, CallFollowsStep,
           KeysAreDrawn, CopyIsOfRow, Registered
  <1>4. ASSUME NEW c \in Calls, InsertMerchant(c) PROVE KeysAreDrawn'
    BY <1>4, CallFields, RowFields DEF IInv, InsertMerchant, Fail, Return, Goto, TypeOK,
           CallFollowsStep, KeysAreDrawn, CopyIsOfRow, Registered, NewMerchant
  <1>5. ASSUME NEW c \in Calls, InsertWallet(c) PROVE KeysAreDrawn'
    BY <1>5 DEF IInv, InsertWallet, Answered, Fail, Return, Goto, TypeOK, CallFollowsStep,
           KeysAreDrawn, CopyIsOfRow, Registered
  <1>6. ASSUME NEW c \in Calls, Login(c) PROVE KeysAreDrawn'
    BY <1>6 DEF IInv, Login, Fail, Return, Goto, TypeOK, CallFollowsStep, KeysAreDrawn,
           CopyIsOfRow, Registered
  <1>7. ASSUME NEW c \in Calls, GetByID(c) PROVE KeysAreDrawn'
    BY <1>7, CallFields, RowFields DEF IInv, GetByID, Fail, Return, Goto, TypeOK,
           CallFollowsStep, KeysAreDrawn, CopyIsOfRow, Registered, RowOf
  <1>8. ASSUME NEW c \in Calls, Update(c) PROVE KeysAreDrawn'
    BY <1>8, CallFields, RowFields DEF IInv, Update, Answered, Fail, Return, Goto, TypeOK,
           CallFollowsStep, KeysAreDrawn, CopyIsOfRow, Registered, Changed
  <1>9. ASSUME NEW c \in Calls, Error(c) PROVE KeysAreDrawn'
    BY <1>9 DEF IInv, Error, Fail, Return, Goto, TypeOK, Working, CallFollowsStep,
           KeysAreDrawn, CopyIsOfRow, Registered
  <1>10. CASE Crash
    BY <1>10 DEF IInv, Crash, TypeOK, Working, CallFollowsStep, KeysAreDrawn, CopyIsOfRow,
           Registered
  <1>11. CASE Quiescent
    BY <1>1, <1>11 DEF Quiescent
  <1> QED
    BY <1>1, <1>2, <1>3, <1>4, <1>5, <1>6, <1>7, <1>8, <1>9, <1>10, <1>11 DEF Next, Step

\* Names stay unique.
LEMMA NamesStep == IInv /\ [Next]_vars => UsernamesUnique'
  <1> SUFFICES ASSUME IInv, [Next]_vars PROVE UsernamesUnique'
    OBVIOUS
  <1> USE Disjoint, Typed
  <1>1. CASE UNCHANGED vars
    BY <1>1 DEF vars, IInv, TypeOK, UsernamesUnique, CopyIsOfRow, Registered
  <1>2. ASSUME NEW c \in Calls, NEW args \in Call, Receive(c, args) PROVE UsernamesUnique'
    BY <1>2, CallFields DEF IInv, Receive, Goto, FirstStatement, TypeOK, UsernamesUnique,
           CopyIsOfRow, Registered
  <1>3. ASSUME NEW c \in Calls, CheckUsername(c) PROVE UsernamesUnique'
    BY <1>3 DEF IInv, CheckUsername, Fail, Return, Goto, TypeOK, UsernamesUnique,
           CopyIsOfRow, Registered
  <1>4. ASSUME NEW c \in Calls, InsertMerchant(c) PROVE UsernamesUnique'
    BY <1>4, CallFields, RowFields DEF IInv, InsertMerchant, Fail, Return, Goto, TypeOK,
           UsernamesUnique, CopyIsOfRow, Registered, NewMerchant, UsernameTaken, Named
  <1>5. ASSUME NEW c \in Calls, InsertWallet(c) PROVE UsernamesUnique'
    BY <1>5 DEF IInv, InsertWallet, Answered, Fail, Return, Goto, TypeOK, UsernamesUnique,
           CopyIsOfRow, Registered
  <1>6. ASSUME NEW c \in Calls, Login(c) PROVE UsernamesUnique'
    BY <1>6 DEF IInv, Login, Fail, Return, Goto, TypeOK, UsernamesUnique, CopyIsOfRow,
           Registered, Named
  <1>7. ASSUME NEW c \in Calls, GetByID(c) PROVE UsernamesUnique'
    BY <1>7, CallFields, RowFields DEF IInv, GetByID, Fail, Return, Goto, TypeOK,
           UsernamesUnique, CopyIsOfRow, Registered
  <1>8. ASSUME NEW c \in Calls, Update(c) PROVE UsernamesUnique'
    BY <1>8, CallFields, RowFields DEF IInv, Update, Answered, Fail, Return, Goto, TypeOK,
           UsernamesUnique, CopyIsOfRow, Registered
  <1>9. ASSUME NEW c \in Calls, Error(c) PROVE UsernamesUnique'
    BY <1>9 DEF IInv, Error, Fail, Return, Goto, TypeOK, Working, UsernamesUnique,
           CopyIsOfRow, Registered
  <1>10. CASE Crash
    BY <1>10 DEF IInv, Crash, TypeOK, Working, UsernamesUnique, CopyIsOfRow, Registered
  <1>11. CASE Quiescent
    BY <1>1, <1>11 DEF Quiescent
  <1> QED
    BY <1>1, <1>2, <1>3, <1>4, <1>5, <1>6, <1>7, <1>8, <1>9, <1>10, <1>11 DEF Next, Step

\* Registrations stay complete.
LEMMA RegistrationStep == IInv /\ [Next]_vars => RegistrationComplete'
  <1> SUFFICES ASSUME IInv, [Next]_vars PROVE RegistrationComplete'
    OBVIOUS
  <1> USE Disjoint, Typed
  <1>1. CASE UNCHANGED vars
    BY <1>1 DEF vars, IInv, TypeOK, CallFollowsStep, RowFollowsCall, RegistrationComplete,
           CopyIsOfRow, Registered
  <1>2. ASSUME NEW c \in Calls, NEW args \in Call, Receive(c, args) PROVE RegistrationComplete'
    BY <1>2, CallFields DEF IInv, Receive, Goto, FirstStatement, TypeOK, CallFollowsStep,
           RowFollowsCall, RegistrationComplete, CopyIsOfRow, Registered
  <1>3. ASSUME NEW c \in Calls, CheckUsername(c) PROVE RegistrationComplete'
    BY <1>3 DEF IInv, CheckUsername, Fail, Return, Goto, TypeOK, CallFollowsStep,
           RowFollowsCall, RegistrationComplete, CopyIsOfRow, Registered
  <1>4. ASSUME NEW c \in Calls, InsertMerchant(c) PROVE RegistrationComplete'
    BY <1>4, CallFields, RowFields DEF IInv, InsertMerchant, Fail, Return, Goto, TypeOK,
           CallFollowsStep, RowFollowsCall, RegistrationComplete, CopyIsOfRow, Registered
  <1>5. ASSUME NEW c \in Calls, InsertWallet(c) PROVE RegistrationComplete'
    BY <1>5 DEF IInv, InsertWallet, Answered, Fail, Return, Goto, TypeOK, CallFollowsStep,
           RowFollowsCall, RegistrationComplete, CopyIsOfRow, Registered, WithWallet
  <1>6. ASSUME NEW c \in Calls, Login(c) PROVE RegistrationComplete'
    BY <1>6 DEF IInv, Login, Fail, Return, Goto, TypeOK, CallFollowsStep, RowFollowsCall,
           RegistrationComplete, CopyIsOfRow, Registered
  <1>7. ASSUME NEW c \in Calls, GetByID(c) PROVE RegistrationComplete'
    BY <1>7, CallFields, RowFields DEF IInv, GetByID, Fail, Return, Goto, TypeOK,
           CallFollowsStep, RowFollowsCall, RegistrationComplete, CopyIsOfRow, Registered
  <1>8. ASSUME NEW c \in Calls, Update(c) PROVE RegistrationComplete'
    <2>1. /\ UNCHANGED <<wallets, req>> /\ pc[c] = "update" /\ pc'[c] = "done"
          /\ ~InsertMerchant(c) /\ req[c].op # "register" /\ c \notin Registered
      BY <1>8 DEF Update, InsertMerchant, Answered, Fail, Return, Goto, IInv, TypeOK,
                CallFollowsStep, RowFollowsCall
    <2>2. wallets' \subseteq Registered'
      BY <1>8, <2>1, RowsKept DEF Step, IInv, RegistrationComplete
    <2> QED
      BY <1>8, <2>1, <2>2, RowsKept, OthersKept DEF Step, IInv, RegistrationComplete
  <1>9. ASSUME NEW c \in Calls, Error(c) PROVE RegistrationComplete'
    BY <1>9 DEF IInv, Error, Fail, Return, Goto, TypeOK, Working, CallFollowsStep,
           RowFollowsCall, RegistrationComplete, CopyIsOfRow, Registered
  <1>10. CASE Crash
    BY <1>10 DEF IInv, Crash, TypeOK, Working, CallFollowsStep, RowFollowsCall,
           RegistrationComplete, CopyIsOfRow, Registered
  <1>11. CASE Quiescent
    BY <1>1, <1>11 DEF Quiescent
  <1> QED
    BY <1>1, <1>2, <1>3, <1>4, <1>5, <1>6, <1>7, <1>8, <1>9, <1>10, <1>11 DEF Next, Step

\* Keys stay with their merchant.
LEMMA KeysStep == IInv /\ [Next]_vars => KeysBelongToMerchant'
  <1> SUFFICES ASSUME IInv, [Next]_vars PROVE KeysBelongToMerchant'
    OBVIOUS
  <1> USE Disjoint, Typed
  <1>1. CASE UNCHANGED vars
    BY <1>1 DEF vars, IInv, TypeOK, CallFollowsStep, RowFollowsCall, CopyIsOfRow,
           KeysAreDrawn, KeysBelongToMerchant, Registered, DrawnFor
  <1>2. ASSUME NEW c \in Calls, NEW args \in Call, Receive(c, args) PROVE KeysBelongToMerchant'
    BY <1>2, CallFields DEF IInv, Receive, Goto, FirstStatement, TypeOK, CallFollowsStep,
           RowFollowsCall, CopyIsOfRow, KeysAreDrawn, KeysBelongToMerchant, Registered,
           DrawnFor
  <1>3. ASSUME NEW c \in Calls, CheckUsername(c) PROVE KeysBelongToMerchant'
    BY <1>3 DEF IInv, CheckUsername, Fail, Return, Goto, TypeOK, CallFollowsStep,
           RowFollowsCall, CopyIsOfRow, KeysAreDrawn, KeysBelongToMerchant, Registered,
           DrawnFor
  <1>4. ASSUME NEW c \in Calls, InsertMerchant(c) PROVE KeysBelongToMerchant'
    BY <1>4, CallFields, RowFields DEF IInv, InsertMerchant, Fail, Return, Goto, TypeOK,
           CallFollowsStep, RowFollowsCall, CopyIsOfRow, KeysAreDrawn,
           KeysBelongToMerchant, Registered, DrawnFor, NewMerchant
  <1>5. ASSUME NEW c \in Calls, InsertWallet(c) PROVE KeysBelongToMerchant'
    BY <1>5 DEF IInv, InsertWallet, Answered, Fail, Return, Goto, TypeOK, CallFollowsStep,
           RowFollowsCall, CopyIsOfRow, KeysAreDrawn, KeysBelongToMerchant, Registered,
           DrawnFor
  <1>6. ASSUME NEW c \in Calls, Login(c) PROVE KeysBelongToMerchant'
    BY <1>6 DEF IInv, Login, Fail, Return, Goto, TypeOK, CallFollowsStep, RowFollowsCall,
           CopyIsOfRow, KeysAreDrawn, KeysBelongToMerchant, Registered, DrawnFor
  <1>7. ASSUME NEW c \in Calls, GetByID(c) PROVE KeysBelongToMerchant'
    BY <1>7, CallFields, RowFields DEF IInv, GetByID, Fail, Return, Goto, TypeOK,
           CallFollowsStep, RowFollowsCall, CopyIsOfRow, KeysAreDrawn,
           KeysBelongToMerchant, Registered, DrawnFor, RowOf
  <1>8. ASSUME NEW c \in Calls, Update(c) PROVE KeysBelongToMerchant'
    BY <1>8, CallFields, RowFields DEF IInv, Update, Answered, Fail, Return, Goto, TypeOK,
           CallFollowsStep, RowFollowsCall, CopyIsOfRow, KeysAreDrawn,
           KeysBelongToMerchant, Registered, DrawnFor, Changed
  <1>9. ASSUME NEW c \in Calls, Error(c) PROVE KeysBelongToMerchant'
    BY <1>9 DEF IInv, Error, Fail, Return, Goto, TypeOK, Working, CallFollowsStep,
           RowFollowsCall, CopyIsOfRow, KeysAreDrawn, KeysBelongToMerchant, Registered,
           DrawnFor
  <1>10. CASE Crash
    BY <1>10 DEF IInv, Crash, TypeOK, Working, CallFollowsStep, RowFollowsCall,
           CopyIsOfRow, KeysAreDrawn, KeysBelongToMerchant, Registered, DrawnFor
  <1>11. CASE Quiescent
    BY <1>1, <1>11 DEF Quiescent
  <1> QED
    BY <1>1, <1>2, <1>3, <1>4, <1>5, <1>6, <1>7, <1>8, <1>9, <1>10, <1>11 DEF Next, Step

\* Tokens stay earned.
LEMMA TokensStep == IInv /\ [Next]_vars => TokensAreEarned'
  <1> SUFFICES ASSUME IInv, [Next]_vars PROVE TokensAreEarned'
    OBVIOUS
  <1> USE Disjoint, Typed
  <1>1. CASE UNCHANGED vars
    BY <1>1 DEF vars, IInv, TypeOK, CallFollowsStep, RowFollowsCall, CopyIsOfRow,
           TokensAreEarned, Registered
  <1>2. ASSUME NEW c \in Calls, NEW args \in Call, Receive(c, args) PROVE TokensAreEarned'
    BY <1>2, CallFields DEF IInv, Receive, Goto, FirstStatement, TypeOK, CallFollowsStep,
           RowFollowsCall, CopyIsOfRow, TokensAreEarned, Registered
  <1>3. ASSUME NEW c \in Calls, CheckUsername(c) PROVE TokensAreEarned'
    BY <1>3 DEF IInv, CheckUsername, Fail, Return, Goto, TypeOK, CallFollowsStep,
           RowFollowsCall, CopyIsOfRow, TokensAreEarned, Registered
  <1>4. ASSUME NEW c \in Calls, InsertMerchant(c) PROVE TokensAreEarned'
    BY <1>4, CallFields, RowFields DEF IInv, InsertMerchant, Fail, Return, Goto, TypeOK,
           CallFollowsStep, RowFollowsCall, CopyIsOfRow, TokensAreEarned, Registered,
           Named, NewMerchant
  <1>5. ASSUME NEW c \in Calls, InsertWallet(c) PROVE TokensAreEarned'
    BY <1>5 DEF IInv, InsertWallet, Answered, Fail, Return, Goto, TypeOK, CallFollowsStep,
           RowFollowsCall, CopyIsOfRow, TokensAreEarned, Registered
  <1>6. ASSUME NEW c \in Calls, Login(c) PROVE TokensAreEarned'
    BY <1>6 DEF IInv, Login, Fail, Return, Goto, TypeOK, CallFollowsStep, RowFollowsCall,
           CopyIsOfRow, TokensAreEarned, Registered, Named, Verify, IsActive
  <1>7. ASSUME NEW c \in Calls, GetByID(c) PROVE TokensAreEarned'
    BY <1>7, CallFields, RowFields DEF IInv, GetByID, Fail, Return, Goto, TypeOK,
           CallFollowsStep, RowFollowsCall, CopyIsOfRow, TokensAreEarned, Registered
  <1>8. ASSUME NEW c \in Calls, Update(c) PROVE TokensAreEarned'
    <2>1. UNCHANGED req /\ req[c].op # "login"
      BY <1>8 DEF Update, IInv, CallFollowsStep
    <2> QED
      BY <1>8, <2>1, RowsKept, OthersKept DEF Step, IInv, TokensAreEarned
  <1>9. ASSUME NEW c \in Calls, Error(c) PROVE TokensAreEarned'
    BY <1>9 DEF IInv, Error, Fail, Return, Goto, TypeOK, Working, CallFollowsStep,
           RowFollowsCall, CopyIsOfRow, TokensAreEarned, Registered
  <1>10. CASE Crash
    BY <1>10 DEF IInv, Crash, TypeOK, Working, CallFollowsStep, RowFollowsCall,
           CopyIsOfRow, TokensAreEarned, Registered
  <1>11. CASE Quiescent
    BY <1>1, <1>11 DEF Quiescent
  <1> QED
    BY <1>1, <1>2, <1>3, <1>4, <1>5, <1>6, <1>7, <1>8, <1>9, <1>10, <1>11 DEF Next, Step

-----------------------------------------------------------------------------
\* The invariant holds in every reachable state.
THEOREM AccountsInvariance == Spec => []IInv
  <1>1. IInv /\ [Next]_vars => IInv'
    BY TypeStep, CallStep, RowStep, CopyStep, DrawnStep, NamesStep, RegistrationStep,
       KeysStep, TokensStep DEF IInv
  <1> QED
    BY InitInv, <1>1, PTL DEF Spec

\* Every variable of the accounts keeps its type.
THEOREM AccountsTypeCorrect == Spec => []TypeOK
  <1>1. IInv => TypeOK
    BY DEF IInv
  <1> QED
    BY <1>1, AccountsInvariance, PTL

\* Registrations that race for one username never both store a merchant.
THEOREM NamesAreUnique == Spec => []UsernamesUnique
  <1>1. IInv => UsernamesUnique
    BY DEF IInv
  <1> QED
    BY <1>1, AccountsInvariance, PTL

\* A registration that answers is complete, and a merchant lacks its wallet only
\* when its registration has not answered.
THEOREM RegistrationsComplete == Spec => []RegistrationComplete
  <1>1. IInv => RegistrationComplete
    BY DEF IInv
  <1> QED
    BY <1>1, AccountsInvariance, PTL

\* However lookups and whole-row updates interleave, keys stay with the merchant
\* they were drawn for.
THEOREM KeysStayWithMerchant == Spec => []KeysBelongToMerchant
  <1>1. IInv => KeysBelongToMerchant
    BY DEF IInv
  <1> QED
    BY <1>1, AccountsInvariance, PTL

\* A token is issued only for the password of an active merchant.
THEOREM TokensEarned == Spec => []TokensAreEarned
  <1>1. IInv => TokensAreEarned
    BY DEF IInv
  <1> QED
    BY <1>1, AccountsInvariance, PTL

===============================================================================
