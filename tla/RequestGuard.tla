----------------------------- MODULE RequestGuard -----------------------------
(***************************************************************************)
(* What a request passes before its handler runs: HMACAuth or JWTAuth of   *)
(* middleware.go, then the RateLimiter of its endpoint group, with the     *)
(* nonces and counters they keep in Redis.  An attempt is one delivery of  *)
(* a request; a client or a proxy may deliver the same request again, with *)
(* the same timestamp, nonce and signature.  Time is counted in ticks,     *)
(* several to the second, because the code compares whole seconds and      *)
(* Redis does not.                                                         *)
(***************************************************************************)
EXTENDS Integers

CONSTANTS
    Attempts,   \* deliveries of requests to the gateway
    Messages,   \* the requests, a subset of Message
    Senders,    \* merchants
    Callers,    \* whom the limiter counts: access keys, merchants, addresses
    Nonces,
    Groups,     \* endpoint groups with a rate limit
    Limit,      \* group -> requests per window
    Window,     \* length of a rate limit window in seconds
    Drift,      \* maxTimestampDrift in seconds
    NonceTTL,   \* nonceTTL in seconds
    Second,     \* ticks in a second
    MaxTime,    \* bound: the tick at which the modelled time ends
    Faults,     \* which failures may happen in this instance
    None        \* nil

\* auth is the middleware of the route; a nonce of None stands for a missing
\* header, a stamp of None for one that is not a number.  For a token, stamp is
\* the second in which it expires.  account is what GetByAccessKey finds, and
\* genuine whether signature or token is right.  caller is what
\* extractIdentifier returns: the access key of the header, which no route but
\* the signed ones checks, else the merchant of the token, else the address.
Message == [auth : {"hmac", "jwt", "open"}, sender : Senders, caller : Callers, group : Groups,
            nonce : Nonces \cup {None}, stamp : Nat \cup {None},
            account : {"ACTIVE", "SUSPENDED", "absent"}, genuine : BOOLEAN]

ASSUME TimeAssumption ==
    /\ Second \in Nat \ {0}
    /\ Window \in Nat \ {0}
    /\ Drift \in Nat
    /\ NonceTTL = 2 * Drift
    /\ MaxTime \in Nat

ASSUME MessagesAssumption ==
    /\ Messages \subseteq Message
    /\ \A m \in Messages : m.auth = "jwt" => m.stamp # None
    /\ Limit \in [Groups -> Nat \ {0}]
    /\ Faults \subseteq {"db", "redis", "crypto", "body", "crash"}
    /\ None \notin Int
    /\ None \notin Messages
    /\ None \notin Nonces
    /\ None \notin {"new", "used", "error", "SEC_004"}

VARIABLES
    clock,      \* ticks since the start
    nonces,     \* Redis: <<sender, nonce>> -> tick at which the key expires
    counters,   \* Redis: <<caller, group, window>> -> counter and its expiry
    pc,         \* attempt -> its next step
    msg,        \* attempt -> the request it delivers
    code,       \* attempt -> the error it was refused with, "OK" if admitted
    checkedAt,  \* attempt -> tick at which its timestamp was accepted
    nonceRes,   \* attempt -> what CheckAndSet returned
    window,     \* attempt -> windowID
    count,      \* attempt -> what INCR returned
    stored,     \* history: request -> tick at which its SET NX last took effect
    granted     \* history: counter -> INCRs within the limit and in time

vars == <<clock, nonces, counters, pc, msg, code, checkedAt, nonceRes,
          window, count, stored, granted>>

Working == {"lookup", "nonce", "verify", "incr", "expire"}
PCs == {"idle", "admitted", "refused", "dead"} \cup Working
Codes == {"OK", "SEC_001", "SEC_002", "SEC_003", "SEC_004", "AUTH_003",
          "AUTH_004", "PAY_002", "SYS_001", "RATE_001"}

NonceKeys == Senders \X Nonces
CounterKeys == Callers \X Groups \X (0 .. MaxTime)

Init ==
    /\ clock = 0
    /\ nonces = [k \in NonceKeys |-> 0]
    /\ counters = [k \in CounterKeys |-> [count |-> 0, expires |-> None]]
    /\ pc = [a \in Attempts |-> "idle"]
    /\ msg = [a \in Attempts |-> None]
    /\ code = [a \in Attempts |-> None]
    /\ checkedAt = [a \in Attempts |-> 0]
    /\ nonceRes = [a \in Attempts |-> None]
    /\ window = [a \in Attempts |-> 0]
    /\ count = [a \in Attempts |-> 0]
    /\ stored = [m \in Messages |-> None]
    /\ granted = [k \in CounterKeys |-> 0]

-----------------------------------------------------------------------------
(* Time and keys. *)

\* time.Now().Unix() drops the fraction of the second.
Unix(t) == t \div Second

\* The header is a number with |now - timestamp| <= maxTimestampDrift.
TimestampOK(stamp) ==
    stamp # None /\ Unix(clock) - stamp <= Drift /\ stamp - Unix(clock) <= Drift

\* Slip: the nonce is kept for the drift on one side only.
NonceExpiryOneSide(t) == t + Drift * Second
NonceExpiry(t) == t + NonceTTL * Second

\* Slip: the key leaves out the merchant.
NonceOnly(m) == <<CHOOSE s \in Senders : TRUE, m.nonce>>
NonceKey(m) == <<m.sender, m.nonce>>

NonceLive(k) == clock < nonces[k]

\* Slip: the window is computed from the time in milliseconds.
WindowOfMillis == (clock * 1000) \div (Second * Window)
WindowID == Unix(clock) \div Window

\* identifier:group:windowID
CounterKey(a) == <<msg[a].caller, msg[a].group, window[a]>>

CounterLive(k) ==
    /\ counters[k].count > 0
    /\ counters[k].expires = None \/ clock < counters[k].expires

\* Slip: EXPIRE without the safety margin.
NoMargin(t) == t + Window * Second
\* EXPIRE: the length of the window and a second.
CounterExpiry(t) == t + (Window + 1) * Second

\* A second after the end of a window: its counter cannot expire before that.
Deadline(w) == ((w + 1) * Window + 1) * Second

\* Validate: signature and expiry of a token.
TokenOK(m) == m.genuine /\ clock < m.stamp * Second

-----------------------------------------------------------------------------
(* Control. *)

Goto(a, label) == pc' = [pc EXCEPT ![a] = label]

\* The middleware returns, and its locals go.
Finish(a, label, c) ==
    /\ Goto(a, label)
    /\ code' = [code EXCEPT ![a] = c]
    /\ checkedAt' = [checkedAt EXCEPT ![a] = 0]
    /\ window' = [window EXCEPT ![a] = 0]
    /\ count' = [count EXCEPT ![a] = 0]

Refuse(a, c) == Finish(a, "refused", c)

\* c.Next(): the handler runs.
Admit(a) == Finish(a, "admitted", "OK")

\* The route's middleware is done: Allow reads the clock and names its counter.
EnterLimiter(a) ==
    /\ Goto(a, "incr")
    /\ window' = [window EXCEPT ![a] = WindowID]
    /\ UNCHANGED <<code, checkedAt, count>>

\* Headers and timestamp of a signed request, or the token of a dashboard
\* request; login and registration have neither.
Receive(a, m) ==
    /\ pc[a] = "idle"
    /\ msg' = [msg EXCEPT ![a] = m]
    /\ \/ m.auth = "hmac" /\ m.nonce = None /\ Refuse(a, "SEC_001")
       \/ /\ m.auth = "hmac" /\ m.nonce # None /\ ~TimestampOK(m.stamp)
          /\ Refuse(a, "SEC_003")
       \/ /\ m.auth = "hmac" /\ m.nonce # None /\ TimestampOK(m.stamp)
          /\ Goto(a, "lookup")
          /\ checkedAt' = [checkedAt EXCEPT ![a] = clock]
          /\ UNCHANGED <<code, window, count>>
       \/ m.auth = "jwt" /\ ~TokenOK(m) /\ Refuse(a, "AUTH_003")
       \/ m.auth = "jwt" /\ TokenOK(m) /\ EnterLimiter(a)
       \/ m.auth = "open" /\ EnterLimiter(a)
    /\ UNCHANGED <<clock, nonces, counters, nonceRes, stored, granted>>

\* GetByAccessKey and IsActive.
Lookup(a) ==
    /\ pc[a] = "lookup"
    /\ \/ "db" \in Faults /\ Refuse(a, "SYS_001")
       \/ msg[a].account = "absent" /\ Refuse(a, "SEC_001")
       \/ msg[a].account = "SUSPENDED" /\ Refuse(a, "AUTH_004")
       \/ /\ msg[a].account = "ACTIVE"
          /\ Goto(a, "nonce")
          /\ UNCHANGED <<code, checkedAt, window, count>>
    /\ UNCHANGED <<clock, nonces, counters, msg, nonceRes, stored, granted>>

\* SET NX with the TTL, on a key that is not there.
SetNonce(m) ==
    /\ ~NonceLive(NonceKey(m))
    /\ nonces' = [nonces EXCEPT ![NonceKey(m)] = NonceExpiry(clock)]
    /\ stored' = [stored EXCEPT ![m] = clock]

\* CheckAndSet returned res and the signature is next.
GoOn(a, res) ==
    /\ nonceRes' = [nonceRes EXCEPT ![a] = res]
    /\ Goto(a, "verify")
    /\ checkedAt' = [checkedAt EXCEPT ![a] = 0]
    /\ UNCHANGED <<code, window, count>>

\* A Redis error lets the request pass, whether or not the key was set.
CheckNonce(a) ==
    /\ pc[a] = "nonce"
    /\ \/ /\ NonceLive(NonceKey(msg[a]))
          /\ nonceRes' = [nonceRes EXCEPT ![a] = "used"]
          /\ Refuse(a, "SEC_004")
          /\ UNCHANGED <<nonces, stored>>
       \/ SetNonce(msg[a]) /\ GoOn(a, "new")
       \/ /\ "redis" \in Faults
          /\ UNCHANGED <<nonces, stored>> \/ SetNonce(msg[a])
          /\ GoOn(a, "error")
    /\ UNCHANGED <<clock, counters, msg, granted>>

\* Decrypt the secret, read the body, compare the signature.
Verify(a) ==
    /\ pc[a] = "verify"
    /\ \/ "crypto" \in Faults /\ Refuse(a, "SYS_001")
       \/ "body" \in Faults /\ Refuse(a, "PAY_002")
       \/ ~msg[a].genuine /\ Refuse(a, "SEC_002")
       \/ msg[a].genuine /\ EnterLimiter(a)
    /\ UNCHANGED <<clock, nonces, counters, msg, nonceRes, stored, granted>>

Allowed(a, n) == n <= Limit[msg[a].group]

\* INCR creates a missing key without expiry.
Increment(k) ==
    counters' = [counters EXCEPT ![k] =
        IF CounterLive(k) THEN [count |-> @.count + 1, expires |-> @.expires]
                          ELSE [count |-> 1, expires |-> None]]

\* A Redis error admits the request, whether or not INCR took effect.
Incr(a) ==
    /\ pc[a] = "incr"
    /\ LET k == CounterKey(a)
           n == IF CounterLive(k) THEN counters[k].count + 1 ELSE 1
       IN  \/ /\ Increment(k)
              /\ granted' = [granted EXCEPT ![k] =
                                IF Allowed(a, n) /\ clock < Deadline(k[3]) THEN @ + 1 ELSE @]
              /\ \/ /\ n = 1
                    /\ Goto(a, "expire")
                    /\ count' = [count EXCEPT ![a] = n]
                    /\ UNCHANGED <<code, checkedAt, window>>
                 \/ n # 1 /\ Allowed(a, n) /\ Admit(a)
                 \/ n # 1 /\ ~Allowed(a, n) /\ Refuse(a, "RATE_001")
           \/ /\ "redis" \in Faults
              /\ UNCHANGED counters \/ Increment(k)
              /\ Admit(a)
              /\ UNCHANGED granted
    /\ UNCHANGED <<clock, nonces, msg, nonceRes, stored>>

\* The result of EXPIRE is not looked at.
Expire(a) ==
    /\ pc[a] = "expire"
    /\ \/ counters' = [counters EXCEPT ![CounterKey(a)].expires = CounterExpiry(clock)]
       \/ "redis" \in Faults /\ UNCHANGED counters
    /\ IF Allowed(a, count[a]) THEN Admit(a) ELSE Refuse(a, "RATE_001")
    /\ UNCHANGED <<clock, nonces, msg, nonceRes, stored, granted>>

\* The process ends; Redis keeps its keys.
Crash ==
    /\ "crash" \in Faults
    /\ \E a \in Attempts : pc[a] \in Working
    /\ LET gone == {a \in Attempts : pc[a] \in Working}
       IN  /\ pc' = [a \in Attempts |-> IF a \in gone THEN "dead" ELSE pc[a]]
           /\ checkedAt' = [a \in Attempts |-> IF a \in gone THEN 0 ELSE checkedAt[a]]
           /\ window' = [a \in Attempts |-> IF a \in gone THEN 0 ELSE window[a]]
           /\ count' = [a \in Attempts |-> IF a \in gone THEN 0 ELSE count[a]]
    /\ UNCHANGED <<clock, nonces, counters, msg, code, nonceRes, stored, granted>>

Tick ==
    /\ clock < MaxTime
    /\ clock' = clock + 1
    /\ UNCHANGED <<nonces, counters, pc, msg, code, checkedAt, nonceRes,
                   window, count, stored, granted>>

Next ==
    \/ \E a \in Attempts :
          \/ \E m \in Messages : Receive(a, m)
          \/ Lookup(a)
          \/ CheckNonce(a)
          \/ Verify(a)
          \/ Incr(a)
          \/ Expire(a)
    \/ Crash
    \/ Tick

Spec == Init /\ [][Next]_vars

-----------------------------------------------------------------------------
Counter == [count : Nat, expires : Nat \cup {None}]

TypeOK ==
    /\ clock \in 0 .. MaxTime
    /\ nonces \in [NonceKeys -> Nat]
    /\ counters \in [CounterKeys -> Counter]
    /\ pc \in [Attempts -> PCs]
    /\ msg \in [Attempts -> Messages \cup {None}]
    /\ code \in [Attempts -> Codes \cup {None}]
    /\ checkedAt \in [Attempts -> 0 .. MaxTime]
    /\ nonceRes \in [Attempts -> {None, "new", "used", "error"}]
    /\ window \in [Attempts -> 0 .. MaxTime]
    /\ count \in [Attempts -> Nat]
    /\ stored \in [Messages -> Nat \cup {None}]
    /\ granted \in [CounterKeys -> Nat]

AgainOnlyIfExplained ==
    \A a \in Attempts :
        LET before == stored[msg[a]]
        IN  pc[a] = "nonce" /\ pc'[a] = "verify" /\ before # None =>
              \/ nonceRes'[a] = "error"
              \/ before < (msg[a].stamp - Drift + 1) * Second + (clock - checkedAt[a])

\* A request whose nonce has been stored, by an attempt that was answered or by
\* one that was not, is let past the nonce check again for two reasons only:
\* Redis fails the later attempt, which the code lets pass at any time, or the nonce
\* was stored while the timestamp lay further in the future than the drift less
\* one second and less the time that the later attempt spent between its timestamp and its
\* nonce check.  120 s of memory do not cover the 121 seconds in which a
\* timestamp is accepted.
SecondPassExplained == [][AgainOnlyIfExplained]_vars

\* In one window no more requests of a caller are admitted by a working limiter
\* than the group's limit, not counting INCRs that come later than a second
\* after the window ended: the counter may expire under those.  EXPIRE may fail,
\* and the process may die between the two commands.
WindowLimit == \A k \in CounterKeys : granted[k] <= Limit[k[2]]

\* A nonce is refused as used only if another attempt of the same merchant
\* brought it to the nonce check, whatever became of that attempt later.
NonceRefusalIsTrue ==
    \A a \in Attempts :
        code[a] = "SEC_004" =>
            \E b \in Attempts \ {a} : /\ nonceRes[b] \in {"new", "error"}
                                      /\ msg[b].sender = msg[a].sender
                                      /\ msg[b].nonce = msg[a].nonce

\* src/README.md: "Redis-backed nonce store prevents request replay attacks": no
\* signed request reaches its handler twice.
RequestAdmittedOnce ==
    \A a, b \in Attempts :
        code[a] = "OK" /\ code[b] = "OK" /\ msg[a] = msg[b] /\ msg[a].auth = "hmac" => a = b

===============================================================================
