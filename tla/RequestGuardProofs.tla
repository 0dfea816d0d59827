-------------------------- MODULE RequestGuardProofs --------------------------
(***************************************************************************)
(* Proofs about RequestGuard, for any number of attempts, requests,   *)
(* senders and callers, any limits, windows and drift, and any faults.  Acceptance is  *)
(* about two clocks: whole seconds for the timestamp, Redis' own for the   *)
(* nonce.  The limit of a window rests on the margin of EXPIRE: a counter  *)
(* cannot expire before its window is over by a second, however late the   *)
(* EXPIRE is sent (CountersOutlastWindow).                                 *)
(***************************************************************************)
EXTENDS RequestGuard, TLAPS

\* What an attempt carries from step to step.
FollowsStep(a) ==
    /\ pc[a] = "idle" => nonceRes[a] = None /\ code[a] = None
    /\ pc[a] # "idle" => msg[a] \in Messages
    /\ pc[a] \in {"lookup", "nonce"} =>
          /\ nonceRes[a] = None /\ code[a] = None
          /\ msg[a].nonce \in Nonces
          /\ msg[a].stamp \in Nat
          /\ checkedAt[a] <= clock
          /\ Unix(checkedAt[a]) - msg[a].stamp <= Drift
    /\ pc[a] \in {"verify", "incr", "expire"} => code[a] = None
    /\ pc[a] \in {"incr", "expire"} => (window[a] * Window) * Second <= clock

AttemptFollowsStep == \A a \in Attempts : FollowsStep(a)

\* A nonce that is stored was brought by an attempt that went on.
NoncesAreBrought ==
    \A k \in NonceKeys :
        nonces[k] > 0 => \E b \in Attempts : /\ nonceRes[b] \in {"new", "error"}
                                             /\ pc[b] # "idle"
                                             /\ NonceKey(msg[b]) = k

\* A request whose nonce was stored is remembered for the TTL from then on.
NoncesAreKept ==
    \A m \in Messages :
        stored[m] # None => /\ m.nonce \in Nonces
                            /\ nonces[NonceKey(m)] >= stored[m] + NonceTTL * Second

\* A counter that expires does so no earlier than a second after its window.
CountersOutlastWindow ==
    \A k \in CounterKeys :
        counters[k].expires # None => counters[k].expires >= Deadline(k[3])

\* Until then it has counted every request that was granted.
GrantsAreCounted ==
    \A k \in CounterKeys :
        /\ granted[k] <= Limit[k[2]]
        /\ clock < Deadline(k[3]) => granted[k] <= counters[k].count

IInv == /\ TypeOK
        /\ AttemptFollowsStep
        /\ NoncesAreBrought
        /\ NoncesAreKept
        /\ CountersOutlastWindow
        /\ GrantsAreCounted
        /\ NonceRefusalIsTrue

-----------------------------------------------------------------------------
\* The fields of a request.
LEMMA MessageFields ==
  ASSUME NEW m \in Messages
  PROVE  /\ m # None
         /\ m.sender \in Senders /\ m.caller \in Callers /\ m.group \in Groups
         /\ m.nonce \in Nonces \cup {None} /\ m.stamp \in Nat \cup {None}
  BY MessagesAssumption DEF Message

\* Whole seconds: a tick lies in its second.
LEMMA InSecond ==
  ASSUME NEW t \in Nat
  PROVE  /\ Unix(t) \in Nat
         /\ Unix(t) * Second <= t
         /\ t < (Unix(t) + 1) * Second
  BY TimeAssumption DEF Unix

\* A second lies in its window, and the window began before the second.
LEMMA InWindow ==
  ASSUME NEW u \in Nat
  PROVE  /\ u \div Window \in Nat
         /\ (u \div Window) * Window <= u
         /\ u \div Window <= u
  BY TimeAssumption

\* The window of an instant has a number no larger than the instant, and began
\* no later.
LEMMA WindowBegan ==
  ASSUME clock \in 0 .. MaxTime
  PROVE  /\ WindowID \in 0 .. MaxTime
         /\ (WindowID * Window) * Second <= clock
  <1>1. clock \in Nat /\ MaxTime \in Nat /\ Second \in Nat \ {0} /\ Window \in Nat \ {0}
    BY TimeAssumption
  <1> DEFINE u == Unix(clock)
  <1>2. u \in Nat /\ u * Second <= clock
    BY <1>1, InSecond
  <1> HIDE DEF u
  <1>3. /\ u \div Window \in Nat /\ (u \div Window) * Window <= u /\ u \div Window <= u
    BY <1>2, InWindow
  <1>4. u <= clock
    BY <1>1, <1>2
  <1> DEFINE v == (u \div Window) * Window
  <1>5. v \in Nat /\ v <= u
    BY <1>1, <1>3
  <1> HIDE DEF v
  <1>6. v * Second <= u * Second
    BY <1>1, <1>2, <1>5
  <1>7. v * Second \in Nat /\ u * Second \in Nat
    BY <1>1, <1>2, <1>5
  <1>8. WindowID = u \div Window
    BY DEF WindowID, u
  <1> QED
    BY <1>1, <1>2, <1>3, <1>4, <1>6, <1>7, <1>8 DEF v

\* EXPIRE after the window began lets the counter live beyond the window's end.
LEMMA ExpiryBeyondWindow ==
  ASSUME NEW t \in Nat, NEW w \in Nat, (w * Window) * Second <= t
  PROVE  /\ CounterExpiry(t) \in Nat
         /\ CounterExpiry(t) >= Deadline(w)
  <1>1. Second \in Nat \ {0} /\ Window \in Nat \ {0}
    BY TimeAssumption
  <1> DEFINE x == w * Window
             y == (Window + 1) * Second
  <1>2. x \in Nat /\ y \in Nat
    BY <1>1
  <1>3. (w + 1) * Window + 1 = x + (Window + 1)
    BY <1>1
  <1>4. (x + (Window + 1)) * Second = x * Second + y
    BY <1>1, <1>2
  <1>5. x * Second \in Nat
    BY <1>1, <1>2
  <1>6. Deadline(w) = x * Second + y
    BY <1>3, <1>4 DEF Deadline
  <1>7. x * Second <= t
    OBVIOUS
  <1> HIDE DEF x, y
  <1>8. t + y >= x * Second + y
    BY <1>2, <1>5, <1>7
  <1> QED
    BY <1>2, <1>6, <1>8 DEF CounterExpiry, y

\* A deadline is a tick.
LEMMA DeadlineTyped == \A w \in Nat : Deadline(w) \in Nat
  BY TimeAssumption DEF Deadline

\* A nonce expires after the tick at which it is stored, or at it.
LEMMA NonceExpiryTyped ==
  ASSUME NEW t \in Nat
  PROVE  NonceExpiry(t) \in Nat /\ NonceExpiry(t) >= t /\ NonceTTL * Second \in Nat
  BY TimeAssumption DEF NonceExpiry

-----------------------------------------------------------------------------
\* A step of one attempt.
AttemptStep(a) ==
    \/ \E m \in Messages : Receive(a, m)
    \/ Lookup(a)
    \/ CheckNonce(a)
    \/ Verify(a)
    \/ Incr(a)
    \/ Expire(a)

\* The initial state satisfies the invariant.
LEMMA InitInv == Init => IInv
  <1> SUFFICES ASSUME Init PROVE IInv
    OBVIOUS
  <1>1. TypeOK
    <2>1. 0 \in 0 .. MaxTime
      BY TimeAssumption
    <2> QED
      BY <2>1 DEF Init, TypeOK, PCs, Counter
  <1>2. AttemptFollowsStep
    BY DEF Init, AttemptFollowsStep, FollowsStep
  <1>3. NoncesAreBrought
    BY DEF Init, NoncesAreBrought
  <1>4. NoncesAreKept
    BY DEF Init, NoncesAreKept
  <1>5. CountersOutlastWindow
    BY DEF Init, CountersOutlastWindow
  <1>6. GrantsAreCounted
    <2> SUFFICES ASSUME NEW k \in CounterKeys
                 PROVE  granted[k] <= Limit[k[2]] /\ granted[k] <= counters[k].count
      BY DEF GrantsAreCounted
    <2>1. granted[k] = 0 /\ counters[k].count = 0
      BY DEF Init
    <2>2. k[2] \in Groups
      BY DEF CounterKeys
    <2> QED
      BY <2>1, <2>2, MessagesAssumption
  <1>7. NonceRefusalIsTrue
    <2>1. \A a \in Attempts : code[a] = None
      BY DEF Init
    <2> QED
      BY <2>1, MessagesAssumption DEF NonceRefusalIsTrue
  <1> QED
    BY <1>1, <1>2, <1>3, <1>4, <1>5, <1>6, <1>7 DEF IInv

\* The keys that an attempt uses.
LEMMA AttemptKeys ==
  ASSUME IInv, NEW a \in Attempts
  PROVE  /\ pc[a] \in {"lookup", "nonce"} => NonceKey(msg[a]) \in NonceKeys
         /\ pc[a] \in {"incr", "expire"} => CounterKey(a) \in CounterKeys
  <1>1. pc[a] # "idle" => /\ msg[a].sender \in Senders /\ msg[a].caller \in Callers
                          /\ msg[a].group \in Groups
    BY MessageFields DEF IInv, AttemptFollowsStep, FollowsStep
  <1>2. pc[a] \in {"lookup", "nonce"} => msg[a].nonce \in Nonces
    BY DEF IInv, AttemptFollowsStep, FollowsStep
  <1>3. window[a] \in 0 .. MaxTime
    BY DEF IInv, TypeOK
  <1> QED
    BY <1>1, <1>2, <1>3 DEF NonceKey, NonceKeys, CounterKey, CounterKeys

\* A step of one attempt leaves the other attempts and the clock alone.
LEMMA OthersKept ==
  ASSUME IInv, NEW a \in Attempts, AttemptStep(a)
  PROVE  /\ clock' = clock
         /\ \A b \in Attempts \ {a} :
               /\ pc'[b] = pc[b] /\ msg'[b] = msg[b] /\ code'[b] = code[b]
               /\ checkedAt'[b] = checkedAt[b] /\ nonceRes'[b] = nonceRes[b]
               /\ window'[b] = window[b] /\ count'[b] = count[b]
  <1>1. CASE \E m \in Messages : Receive(a, m)
    BY <1>1 DEF Receive, Refuse, EnterLimiter, Finish, Goto, IInv, TypeOK
  <1>2. CASE Lookup(a)
    BY <1>2 DEF Lookup, Refuse, Finish, Goto, IInv, TypeOK
  <1>3. CASE CheckNonce(a)
    BY <1>3 DEF CheckNonce, GoOn, Refuse, Finish, Goto, IInv, TypeOK
  <1>4. CASE Verify(a)
    BY <1>4 DEF Verify, Refuse, EnterLimiter, Finish, Goto, IInv, TypeOK
  <1>5. CASE Incr(a)
    BY <1>5 DEF Incr, Admit, Refuse, Finish, Goto, IInv, TypeOK
  <1>6. CASE Expire(a)
    BY <1>6 DEF Expire, Admit, Refuse, Finish, Goto, IInv, TypeOK
  <1> QED
    BY <1>1, <1>2, <1>3, <1>4, <1>5, <1>6 DEF AttemptStep

\* The control of an attempt, which every step of it assigns.
ControlTyped ==
    /\ pc \in [Attempts -> PCs]
    /\ code \in [Attempts -> Codes \cup {None}]
    /\ checkedAt \in [Attempts -> 0 .. MaxTime]
    /\ window \in [Attempts -> 0 .. MaxTime]
    /\ count \in [Attempts -> Nat]

\* Returning and going on to the limiter keep the types.
LEMMA FinishTyped ==
  ASSUME TypeOK, NEW a \in Attempts, NEW label \in {"admitted", "refused"}, NEW c \in Codes,
         Finish(a, label, c)
  PROVE  ControlTyped'
  <1>1. label \in PCs /\ 0 \in 0 .. MaxTime
    BY TimeAssumption DEF PCs
  <1> QED
    BY <1>1 DEF Finish, Goto, ControlTyped, TypeOK

LEMMA RefuseTyped ==
  ASSUME TypeOK, NEW a \in Attempts, NEW c \in Codes, Refuse(a, c)
  PROVE  ControlTyped'
  BY FinishTyped DEF Refuse

LEMMA AdmitTyped ==
  ASSUME TypeOK, NEW a \in Attempts, Admit(a)
  PROVE  ControlTyped'
  BY FinishTyped DEF Admit, Codes

LEMMA EnterTyped ==
  ASSUME TypeOK, NEW a \in Attempts, EnterLimiter(a)
  PROVE  ControlTyped'
  <1>1. "incr" \in PCs /\ WindowID \in 0 .. MaxTime
    BY WindowBegan DEF PCs, Working, TypeOK
  <1> QED
    BY <1>1 DEF EnterLimiter, Goto, ControlTyped, TypeOK

\* Storing a nonce and counting a request keep the types.
LEMMA SetNonceTyped ==
  ASSUME TypeOK, NEW m \in Messages, SetNonce(m)
  PROVE  /\ nonces' \in [NonceKeys -> Nat]
         /\ stored' \in [Messages -> Nat \cup {None}]
  <1>1. NonceExpiry(clock) \in Nat /\ clock \in Nat
    BY NonceExpiryTyped DEF TypeOK
  <1>2. nonces' \in [NonceKeys -> Nat]
    BY <1>1 DEF SetNonce, TypeOK
  <1>3. stored' \in [Messages -> Nat \cup {None}]
    BY <1>1 DEF SetNonce, TypeOK
  <1> QED
    BY <1>2, <1>3

LEMMA IncrementTyped ==
  ASSUME TypeOK, NEW k \in CounterKeys, Increment(k)
  PROVE  counters' \in [CounterKeys -> Counter]
  <1>1. counters[k] \in Counter
    BY DEF TypeOK
  <1>2. /\ [count |-> counters[k].count + 1, expires |-> counters[k].expires] \in Counter
        /\ [count |-> 1, expires |-> None] \in Counter
    BY <1>1 DEF Counter
  <1> QED
    BY <1>1, <1>2 DEF Increment, TypeOK

\* A step of an attempt keeps the types.
LEMMA AttemptTyped ==
  ASSUME IInv, NEW a \in Attempts, AttemptStep(a)
  PROVE  TypeOK'
  <1> USE DEF IInv
  <1>1. CASE \E m \in Messages : Receive(a, m)
    <2> PICK m \in Messages : Receive(a, m)
      BY <1>1
    <2>1. ControlTyped'
      <3>1. CASE \E c \in Codes : Refuse(a, c)
        BY <3>1, RefuseTyped
      <3>2. CASE EnterLimiter(a)
        BY <3>2, EnterTyped
      <3>3. CASE /\ Goto(a, "lookup")
                 /\ checkedAt' = [checkedAt EXCEPT ![a] = clock]
                 /\ UNCHANGED <<code, window, count>>
        BY <3>3 DEF Goto, ControlTyped, TypeOK, PCs, Working
      <3> QED
        BY <3>1, <3>2, <3>3 DEF Receive, Codes
    <2> QED
      BY <2>1 DEF Receive, ControlTyped, TypeOK
  <1>2. CASE Lookup(a)
    <2>1. ControlTyped'
      <3>1. CASE \E c \in Codes : Refuse(a, c)
        BY <3>1, RefuseTyped
      <3>2. CASE Goto(a, "nonce") /\ UNCHANGED <<code, checkedAt, window, count>>
        BY <3>2 DEF Goto, ControlTyped, TypeOK, PCs, Working
      <3> QED
        BY <1>2, <3>1, <3>2 DEF Lookup, Codes
    <2> QED
      BY <1>2, <2>1 DEF Lookup, ControlTyped, TypeOK
  <1>3. CASE CheckNonce(a)
    <2>1. msg[a] \in Messages /\ NonceKey(msg[a]) \in NonceKeys
      BY <1>3, AttemptKeys DEF CheckNonce, AttemptFollowsStep, FollowsStep
    <2>2. ControlTyped'
      <3>1. CASE Refuse(a, "SEC_004")
        BY <3>1, RefuseTyped DEF Codes
      <3>2. CASE \E res : GoOn(a, res)
        BY <3>2, TimeAssumption DEF GoOn, Goto, ControlTyped, TypeOK, PCs, Working
      <3> QED
        BY <1>3, <3>1, <3>2 DEF CheckNonce
    <2>3. nonces' \in [NonceKeys -> Nat] /\ stored' \in [Messages -> Nat \cup {None}]
      <3>1. SetNonce(msg[a]) \/ UNCHANGED <<nonces, stored>>
        BY <1>3 DEF CheckNonce
      <3> QED
        BY <2>1, <3>1, SetNonceTyped DEF TypeOK
    <2>4. nonceRes' \in [Attempts -> {None, "new", "used", "error"}]
      BY <1>3, <2>1 DEF CheckNonce, GoOn, TypeOK
    <2> QED
      BY <1>3, <2>2, <2>3, <2>4 DEF CheckNonce, ControlTyped, TypeOK
  <1>4. CASE Verify(a)
    <2>1. ControlTyped'
      <3>1. CASE \E c \in Codes : Refuse(a, c)
        BY <3>1, RefuseTyped
      <3>2. CASE EnterLimiter(a)
        BY <3>2, EnterTyped
      <3> QED
        BY <1>4, <3>1, <3>2 DEF Verify, Codes
    <2> QED
      BY <1>4, <2>1 DEF Verify, ControlTyped, TypeOK
  <1>5. CASE Incr(a)
    <2>1. CounterKey(a) \in CounterKeys
      BY <1>5, AttemptKeys DEF Incr
    <2>2. ControlTyped'
      <3>1. CASE Refuse(a, "RATE_001")
        BY <3>1, RefuseTyped DEF Codes
      <3>2. CASE Admit(a)
        BY <3>2, AdmitTyped
      <3>3. CASE /\ Goto(a, "expire")
                 /\ count' = [count EXCEPT ![a] = 1]
                 /\ UNCHANGED <<code, checkedAt, window>>
        BY <3>3 DEF Goto, ControlTyped, TypeOK, PCs, Working
      <3> QED
        BY <1>5, <3>1, <3>2, <3>3 DEF Incr
    <2>3. counters' \in [CounterKeys -> Counter]
      BY <1>5, <2>1, IncrementTyped DEF Incr, TypeOK
    <2>4. granted' \in [CounterKeys -> Nat]
      BY <1>5, <2>1 DEF Incr, TypeOK
    <2> QED
      BY <1>5, <2>2, <2>3, <2>4 DEF Incr, ControlTyped, TypeOK
  <1>6. CASE Expire(a)
    <2>1. CounterKey(a) \in CounterKeys
      BY <1>6, AttemptKeys DEF Expire
    <2>2. ControlTyped'
      <3>1. CASE Refuse(a, "RATE_001")
        BY <3>1, RefuseTyped DEF Codes
      <3> QED
        BY <1>6, <3>1, AdmitTyped DEF Expire
    <2>3. counters' \in [CounterKeys -> Counter]
      <3>1. CounterExpiry(clock) \in Nat
        BY TimeAssumption DEF CounterExpiry, TypeOK
      <3> QED
        BY <1>6, <2>1, <3>1 DEF Expire, Counter, TypeOK
    <2> QED
      BY <1>6, <2>2, <2>3 DEF Expire, ControlTyped, TypeOK
  <1> QED
    BY <1>1, <1>2, <1>3, <1>4, <1>5, <1>6 DEF AttemptStep

\* Every step keeps the types.
LEMMA NextTyped ==
  ASSUME IInv, [Next]_vars
  PROVE  TypeOK'
  <1>1. CASE \E a \in Attempts : AttemptStep(a)
    BY <1>1, AttemptTyped
  <1>2. CASE Crash
    BY <1>2, TimeAssumption DEF Crash, IInv, TypeOK, PCs
  <1>3. CASE Tick
    BY <1>3, TimeAssumption DEF Tick, IInv, TypeOK
  <1>4. CASE UNCHANGED vars
    BY <1>4 DEF vars, IInv, TypeOK
  <1> QED
    BY <1>1, <1>2, <1>3, <1>4 DEF Next, AttemptStep

-----------------------------------------------------------------------------
\* An attempt that has begun keeps its request, and what CheckAndSet answered
\* stays.
LEMMA AttemptsLast ==
  ASSUME IInv, [Next]_vars, NEW b \in Attempts
  PROVE  /\ pc[b] # "idle" => pc'[b] # "idle" /\ msg'[b] = msg[b]
         /\ nonceRes[b] # None => nonceRes'[b] = nonceRes[b] /\ pc[b] # "idle"
  <1>1. ASSUME NEW a \in Attempts, AttemptStep(a)
        PROVE  /\ pc[b] # "idle" => pc'[b] # "idle" /\ msg'[b] = msg[b]
               /\ nonceRes[b] # None => nonceRes'[b] = nonceRes[b] /\ pc[b] # "idle"
    <2>1. CASE a # b
      BY <1>1, <2>1, OthersKept DEF IInv, AttemptFollowsStep, FollowsStep
    <2>2. CASE a = b
      <3>1. CASE \E m \in Messages : Receive(b, m)
        BY <3>1 DEF Receive, IInv, AttemptFollowsStep, FollowsStep
      <3>2. CASE Lookup(b)
        BY <3>2 DEF Lookup, Refuse, Finish, Goto, IInv, TypeOK
      <3>3. CASE CheckNonce(b)
        BY <3>3 DEF CheckNonce, GoOn, Refuse, Finish, Goto, IInv, TypeOK, AttemptFollowsStep, FollowsStep
      <3>4. CASE Verify(b)
        BY <3>4 DEF Verify, Refuse, EnterLimiter, Finish, Goto, IInv, TypeOK
      <3>5. CASE Incr(b)
        BY <3>5 DEF Incr, Admit, Refuse, Finish, Goto, IInv, TypeOK
      <3>6. CASE Expire(b)
        BY <3>6 DEF Expire, Admit, Refuse, Finish, Goto, IInv, TypeOK
      <3> QED
        BY <1>1, <2>2, <3>1, <3>2, <3>3, <3>4, <3>5, <3>6 DEF AttemptStep
    <2> QED
      BY <2>1, <2>2
  <1>2. CASE Crash
    BY <1>2 DEF Crash, IInv, TypeOK, AttemptFollowsStep, FollowsStep
  <1>3. CASE Tick
    BY <1>3 DEF Tick, IInv, AttemptFollowsStep, FollowsStep
  <1>4. CASE UNCHANGED vars
    BY <1>4 DEF vars, IInv, AttemptFollowsStep, FollowsStep
  <1> QED
    BY <1>1, <1>2, <1>3, <1>4 DEF Next, AttemptStep

\* A step of an attempt keeps what the attempt carries.
LEMMA AttemptCarries ==
  ASSUME IInv, NEW a \in Attempts, AttemptStep(a)
  PROVE  FollowsStep(a)'
  <1> USE DEF IInv, TypeOK
  <1>0. FollowsStep(a) /\ clock \in 0 .. MaxTime
    BY DEF AttemptFollowsStep, FollowsStep
  <1>1. CASE \E m \in Messages : Receive(a, m)
    <2> PICK m \in Messages : Receive(a, m)
      BY <1>1
    <2>1. /\ pc[a] = "idle" /\ nonceRes[a] = None /\ code[a] = None
          /\ msg'[a] = m /\ nonceRes'[a] = None /\ clock' = clock
      BY <1>0 DEF Receive, FollowsStep
    <2>2. CASE \E c \in Codes : Refuse(a, c)
      BY <2>1, <2>2 DEF Refuse, Finish, Goto, FollowsStep
    <2>3. CASE EnterLimiter(a)
      BY <1>0, <2>1, <2>3, WindowBegan DEF EnterLimiter, Goto, FollowsStep
    <2>4. CASE /\ m.nonce # None /\ TimestampOK(m.stamp)
               /\ Goto(a, "lookup")
               /\ checkedAt' = [checkedAt EXCEPT ![a] = clock]
               /\ UNCHANGED <<code, window, count>>
      <3>1. m.nonce \in Nonces /\ m.stamp \in Nat
        BY <2>4, MessageFields DEF TimestampOK
      <3>2. pc'[a] = "lookup" /\ code'[a] = None /\ checkedAt'[a] = clock
        BY <2>1, <2>4 DEF Goto
      <3>3. Unix(clock) - m.stamp <= Drift
        BY <2>4 DEF TimestampOK
      <3> QED
        BY <1>0, <2>1, <3>1, <3>2, <3>3 DEF FollowsStep
    <2> QED
      BY <2>2, <2>3, <2>4 DEF Receive, Codes
  <1>2. CASE Lookup(a)
    BY <1>0, <1>2 DEF Lookup, Refuse, Finish, Goto, FollowsStep
  <1>3. CASE CheckNonce(a)
    BY <1>0, <1>3 DEF CheckNonce, GoOn, Refuse, Finish, Goto, FollowsStep
  <1>4. CASE Verify(a)
    <2>1. CASE EnterLimiter(a)
      BY <1>0, <1>4, <2>1, WindowBegan DEF Verify, EnterLimiter, Goto, FollowsStep
    <2>2. CASE \E c \in Codes : Refuse(a, c)
      BY <1>0, <1>4, <2>2 DEF Verify, Refuse, Finish, Goto, FollowsStep
    <2> QED
      BY <1>4, <2>1, <2>2 DEF Verify, Codes
  <1>5. CASE Incr(a)
    BY <1>0, <1>5 DEF Incr, Admit, Refuse, Finish, Goto, FollowsStep
  <1>6. CASE Expire(a)
    BY <1>0, <1>6 DEF Expire, Admit, Refuse, Finish, Goto, FollowsStep
  <1> QED
    BY <1>1, <1>2, <1>3, <1>4, <1>5, <1>6 DEF AttemptStep

\* AttemptFollowsStep is preserved.
LEMMA FollowsStepKept ==
  ASSUME IInv, [Next]_vars
  PROVE  AttemptFollowsStep'
  <1> SUFFICES ASSUME NEW b \in Attempts PROVE FollowsStep(b)'
    BY DEF AttemptFollowsStep, FollowsStep
  <1>0. FollowsStep(b) /\ clock \in 0 .. MaxTime
    BY DEF IInv, TypeOK, AttemptFollowsStep, FollowsStep
  <1>1. ASSUME NEW a \in Attempts, AttemptStep(a)
        PROVE  FollowsStep(b)'
    <2>1. CASE a = b
      BY <1>1, <2>1, AttemptCarries
    <2>2. CASE a # b
      BY <1>0, <1>1, <2>2, OthersKept DEF FollowsStep
    <2> QED
      BY <2>1, <2>2
  <1>2. CASE Crash
    BY <1>0, <1>2 DEF Crash, FollowsStep, Working
  <1>3. CASE Tick
    <2> DEFINE x == (window[b] * Window) * Second
               y == Unix(checkedAt[b]) - msg[b].stamp
    <2>1. x \in Nat /\ checkedAt[b] \in Nat
      BY TimeAssumption DEF IInv, TypeOK
    <2>2. x' = x /\ y' = y
      BY <1>3 DEF Tick, Unix
    <2> HIDE DEF x, y
    <2>3. (x <= clock => x <= clock') /\ (checkedAt[b] <= clock => checkedAt[b] <= clock')
      BY <1>0, <1>3, <2>1, TimeAssumption DEF Tick
    <2> QED
      BY <1>0, <1>3, <2>2, <2>3 DEF Tick, FollowsStep, x, y
  <1>4. CASE UNCHANGED vars
    BY <1>0, <1>4 DEF vars, FollowsStep, Unix
  <1> QED
    BY <1>1, <1>2, <1>3, <1>4 DEF Next, AttemptStep

-----------------------------------------------------------------------------
\* A nonce is stored again only when it has expired, so its expiry grows; it is
\* stored by an attempt that brought it and goes on.
LEMMA NoncesGrow ==
  ASSUME IInv, [Next]_vars, NEW k \in NonceKeys
  PROVE  /\ nonces'[k] >= nonces[k]
         /\ nonces'[k] # nonces[k] =>
               \E a \in Attempts : /\ pc[a] = "nonce" /\ NonceKey(msg[a]) = k
                                   /\ nonceRes'[a] \in {"new", "error"}
  <1>0. nonces[k] \in Nat /\ clock \in Nat
    BY DEF IInv, TypeOK
  <1>1. CASE nonces' = nonces
    BY <1>0, <1>1
  <1>2. ASSUME NEW a \in Attempts, CheckNonce(a), nonces' # nonces
        PROVE  /\ nonces'[k] >= nonces[k]
               /\ nonces'[k] # nonces[k] => /\ pc[a] = "nonce" /\ NonceKey(msg[a]) = k
                                            /\ nonceRes'[a] \in {"new", "error"}
    <2>1. SetNonce(msg[a]) /\ (GoOn(a, "new") \/ GoOn(a, "error")) /\ pc[a] = "nonce"
      BY <1>2 DEF CheckNonce
    <2>2. nonceRes'[a] \in {"new", "error"}
      BY <2>1 DEF GoOn, IInv, TypeOK
    <2>3. CASE NonceKey(msg[a]) = k
      <3>1. nonces'[k] = NonceExpiry(clock) /\ nonces[k] <= clock
        BY <1>0, <2>1, <2>3 DEF SetNonce, NonceLive, IInv, TypeOK
      <3>2. NonceExpiry(clock) \in Nat /\ NonceExpiry(clock) >= clock
        BY <1>0, NonceExpiryTyped
      <3> QED
        BY <1>0, <2>1, <2>2, <2>3, <3>1, <3>2
    <2>4. CASE NonceKey(msg[a]) # k
      <3>1. nonces'[k] = nonces[k]
        BY <2>1, <2>4 DEF SetNonce, IInv, TypeOK
      <3> QED
        BY <1>0, <3>1
    <2> QED
      BY <2>3, <2>4
  <1>3. nonces' = nonces \/ \E a \in Attempts : CheckNonce(a)
    BY DEF Next, vars, Receive, Lookup, Verify, Incr, Expire, Crash, Tick
  <1> QED
    BY <1>1, <1>2, <1>3

\* NoncesAreBrought is preserved.
LEMMA NoncesBroughtKept ==
  ASSUME IInv, [Next]_vars
  PROVE  NoncesAreBrought'
  <1> SUFFICES ASSUME NEW k \in NonceKeys, nonces'[k] > 0
               PROVE  \E b \in Attempts : /\ nonceRes'[b] \in {"new", "error"}
                                          /\ pc'[b] # "idle"
                                          /\ NonceKey(msg'[b]) = k
    BY DEF NoncesAreBrought, NonceKey
  <1>1. CASE nonces'[k] = nonces[k]
    <2>1. PICK b \in Attempts : /\ nonceRes[b] \in {"new", "error"} /\ pc[b] # "idle"
                                /\ NonceKey(msg[b]) = k
      BY <1>1 DEF IInv, NoncesAreBrought
    <2>2. nonceRes[b] # None
      BY <2>1, MessagesAssumption
    <2> QED
      BY <2>1, <2>2, AttemptsLast
  <1>2. CASE nonces'[k] # nonces[k]
    <2>1. PICK a \in Attempts : /\ pc[a] = "nonce" /\ NonceKey(msg[a]) = k
                                /\ nonceRes'[a] \in {"new", "error"}
      BY <1>2, NoncesGrow
    <2> QED
      BY <2>1, AttemptsLast
  <1> QED
    BY <1>1, <1>2

\* A request's SET NX took effect: its nonce is stored at that instant.
LEMMA StoredNow ==
  ASSUME IInv, [Next]_vars, NEW m \in Messages, stored'[m] # stored[m]
  PROVE  /\ stored'[m] = clock
         /\ m.nonce \in Nonces
         /\ nonces'[NonceKey(m)] = NonceExpiry(clock)
  <1>1. PICK a \in Attempts : CheckNonce(a)
    BY DEF Next, vars, Receive, Lookup, Verify, Incr, Expire, Crash, Tick
  <1>2. pc[a] = "nonce" /\ SetNonce(msg[a])
    BY <1>1 DEF CheckNonce
  <1>3. m = msg[a] /\ stored'[m] = clock
    BY <1>2 DEF SetNonce, IInv, TypeOK
  <1>4. m.nonce \in Nonces
    BY <1>2, <1>3 DEF IInv, AttemptFollowsStep, FollowsStep
  <1>5. NonceKey(m) \in NonceKeys
    BY <1>2, <1>3, AttemptKeys
  <1> QED
    BY <1>2, <1>3, <1>4, <1>5 DEF SetNonce, IInv, TypeOK

\* NoncesAreKept is preserved.
LEMMA NoncesKeptKept ==
  ASSUME IInv, [Next]_vars
  PROVE  NoncesAreKept'
  <1> DEFINE ttl == NonceTTL * Second
  <1> SUFFICES ASSUME NEW m \in Messages, stored'[m] # None
               PROVE  m.nonce \in Nonces /\ nonces'[NonceKey(m)] >= stored'[m] + ttl
    BY DEF NoncesAreKept, NonceKey
  <1>1. ttl \in Nat /\ clock \in Nat
    BY NonceExpiryTyped DEF IInv, TypeOK
  <1>2. CASE stored'[m] = stored[m]
    <2>1. m.nonce \in Nonces /\ nonces[NonceKey(m)] >= stored[m] + ttl
      BY <1>2 DEF IInv, NoncesAreKept
    <2>2. NonceKey(m) \in NonceKeys
      BY <2>1, MessageFields DEF NonceKey, NonceKeys
    <2>3. nonces'[NonceKey(m)] >= nonces[NonceKey(m)]
      BY <2>2, NoncesGrow
    <2>4. nonces'[NonceKey(m)] \in Nat \/ nonces'[NonceKey(m)] = nonces[NonceKey(m)]
      BY <2>2, NextTyped DEF TypeOK
    <2>5. nonces[NonceKey(m)] \in Nat /\ stored[m] \in Nat
      BY <1>2, <2>2 DEF IInv, TypeOK
    <2> HIDE DEF ttl
    <2> QED
      BY <1>1, <1>2, <2>1, <2>3, <2>4, <2>5
  <1>3. CASE stored'[m] # stored[m]
    BY <1>1, <1>3, StoredNow DEF NonceExpiry
  <1> QED
    BY <1>2, <1>3

\* NonceRefusalIsTrue is preserved: the key is live, so somebody brought it.
LEMMA RefusalTrueKept ==
  ASSUME IInv, [Next]_vars
  PROVE  NonceRefusalIsTrue'
  <1> SUFFICES ASSUME NEW a \in Attempts, code'[a] = "SEC_004"
               PROVE  \E b \in Attempts \ {a} : /\ nonceRes'[b] \in {"new", "error"}
                                                /\ msg'[b].sender = msg'[a].sender
                                                /\ msg'[b].nonce = msg'[a].nonce
    BY DEF NonceRefusalIsTrue
  <1>1. ASSUME NEW b \in Attempts \ {a}, pc[a] # "idle", nonceRes[b] \in {"new", "error"},
               msg[b].sender = msg[a].sender, msg[b].nonce = msg[a].nonce
        PROVE  /\ nonceRes'[b] \in {"new", "error"}
               /\ msg'[b].sender = msg'[a].sender
               /\ msg'[b].nonce = msg'[a].nonce
    <2>1. nonceRes[b] # None
      BY <1>1, MessagesAssumption
    <2>2. nonceRes'[b] = nonceRes[b] /\ pc[b] # "idle" /\ msg'[b] = msg[b]
      BY <2>1, AttemptsLast
    <2>3. msg'[a] = msg[a]
      BY <1>1, AttemptsLast
    <2> QED
      BY <1>1, <2>2, <2>3
  <1>2. CASE code[a] = "SEC_004"
    <2>1. pc[a] # "idle"
      BY <1>2, MessagesAssumption DEF IInv, AttemptFollowsStep, FollowsStep
    <2> QED
      BY <1>1, <1>2, <2>1 DEF IInv, NonceRefusalIsTrue
  <1>3. CASE code[a] # "SEC_004"
    <2>1. CheckNonce(a)
      <3>1. PICK c \in Attempts : AttemptStep(c)
        BY <1>3 DEF Next, vars, AttemptStep, Crash, Tick
      <3>2. c = a
        BY <1>3, <3>1, OthersKept
      <3> QED
        BY <1>3, <3>1, <3>2 DEF AttemptStep, Receive, Lookup, Verify, Incr, Expire, Admit,
           EnterLimiter, Refuse, Finish, IInv, TypeOK
    <2>2. pc[a] = "nonce" /\ NonceLive(NonceKey(msg[a]))
      BY <1>3, <2>1 DEF CheckNonce, GoOn
    <2>3. nonceRes[a] = None /\ NonceKey(msg[a]) \in NonceKeys
      BY <2>2, AttemptKeys DEF IInv, AttemptFollowsStep, FollowsStep
    <2>4. nonces[NonceKey(msg[a])] > 0
      BY <2>2, <2>3 DEF NonceLive, IInv, TypeOK
    <2>5. PICK b \in Attempts : /\ nonceRes[b] \in {"new", "error"}
                                /\ NonceKey(msg[b]) = NonceKey(msg[a])
      BY <2>3, <2>4 DEF IInv, NoncesAreBrought
    <2>6. b # a /\ msg[b].sender = msg[a].sender /\ msg[b].nonce = msg[a].nonce
      BY <2>3, <2>5, MessagesAssumption DEF NonceKey
    <2> QED
      BY <1>1, <2>2, <2>5, <2>6
  <1> QED
    BY <1>2, <1>3

-----------------------------------------------------------------------------
\* The fields of a counter, and of its key.
LEMMA CounterFields ==
  ASSUME IInv, NEW k \in CounterKeys
  PROVE  /\ counters[k].count \in Nat
         /\ counters[k].expires \in Nat \cup {None}
         /\ granted[k] \in Nat /\ clock \in Nat
         /\ k[2] \in Groups /\ k[3] \in Nat /\ Limit[k[2]] \in Nat \ {0}
         /\ Deadline(k[3]) \in Nat
  <1>1. counters[k] \in Counter /\ granted[k] \in Nat /\ clock \in Nat
    BY DEF IInv, TypeOK
  <1>2. k[2] \in Groups /\ k[3] \in Nat
    BY DEF CounterKeys
  <1> QED
    BY <1>1, <1>2, DeadlineTyped, MessagesAssumption DEF Counter

\* INCR and EXPIRE change the attempt's own counter and no other.
LEMMA CounterSteps ==
  ASSUME IInv, [Next]_vars, NEW k \in CounterKeys
  PROVE  \/ counters'[k] = counters[k] /\ granted'[k] = granted[k]
         \/ \E a \in Attempts : Incr(a) /\ CounterKey(a) = k
         \/ \E a \in Attempts : Expire(a) /\ CounterKey(a) = k
  <1>1. ASSUME NEW a \in Attempts, Incr(a), CounterKey(a) # k
        PROVE  counters'[k] = counters[k] /\ granted'[k] = granted[k]
    BY <1>1 DEF Incr, Increment, IInv, TypeOK
  <1>2. ASSUME NEW a \in Attempts, Expire(a), CounterKey(a) # k
        PROVE  counters'[k] = counters[k] /\ granted'[k] = granted[k]
    <2>1. granted' = granted
      BY <1>2 DEF Expire
    <2>2. \/ counters' = counters
          \/ counters' = [counters EXCEPT ![CounterKey(a)].expires = CounterExpiry(clock)]
      BY <1>2 DEF Expire
    <2> QED
      BY <1>2, <2>1, <2>2 DEF IInv, TypeOK
  <1>3. \/ counters' = counters /\ granted' = granted
        \/ \E a \in Attempts : Incr(a) \/ Expire(a)
    BY DEF Next, vars, Receive, Lookup, CheckNonce, Verify, Crash, Tick
  <1> QED
    BY <1>1, <1>2, <1>3

\* What INCR and EXPIRE do to it.
LEMMA IncrOutcome ==
  ASSUME IInv, NEW a \in Attempts, Incr(a), NEW k, k = CounterKey(a),
         NEW n, n = IF CounterLive(k) THEN counters[k].count + 1 ELSE 1
  PROVE  /\ k \in CounterKeys /\ clock' = clock
         /\ \/ counters'[k] = counters[k] /\ granted'[k] = granted[k]
            \/ /\ counters'[k].count = n
               /\ counters'[k].expires \in {counters[k].expires, None}
               /\ \/ granted'[k] = granted[k]
                  \/ /\ n <= Limit[k[2]] /\ clock < Deadline(k[3])
                     /\ granted'[k] = granted[k] + 1
  <1>1. k \in CounterKeys
    BY AttemptKeys DEF Incr
  <1>2. k[2] = msg[a].group
    BY DEF CounterKey
  <1>3. Increment(k) => /\ counters'[k].count = n
                        /\ counters'[k].expires \in {counters[k].expires, None}
    BY <1>1 DEF Increment, IInv, TypeOK
  <1>4. \/ /\ Increment(k)
           /\ granted' = [granted EXCEPT ![k] =
                             IF Allowed(a, n) /\ clock < Deadline(k[3]) THEN @ + 1 ELSE @]
        \/ (counters' = counters \/ Increment(k)) /\ granted' = granted
    BY DEF Incr
  <1>5. Increment(k) \/ (counters' = counters /\ granted' = granted)
    BY DEF Incr
  <1>6. \/ granted'[k] = granted[k]
        \/ Allowed(a, n) /\ clock < Deadline(k[3]) /\ granted'[k] = granted[k] + 1
    BY <1>1, <1>4 DEF IInv, TypeOK
  <1>7. clock' = clock
    BY DEF Incr
  <1> QED
    BY <1>1, <1>2, <1>3, <1>5, <1>6, <1>7 DEF Allowed

LEMMA ExpireOutcome ==
  ASSUME IInv, NEW a \in Attempts, Expire(a), NEW k, k = CounterKey(a)
  PROVE  /\ k \in CounterKeys /\ clock' = clock
         /\ granted'[k] = granted[k] /\ counters'[k].count = counters[k].count
         /\ \/ counters'[k].expires = counters[k].expires
            \/ counters'[k].expires = CounterExpiry(clock)
  <1>1. k \in CounterKeys
    BY AttemptKeys DEF Expire
  <1>2. counters[k] \in Counter
    BY <1>1 DEF IInv, TypeOK
  <1>3. \/ counters' = counters
        \/ counters' = [counters EXCEPT ![k].expires = CounterExpiry(clock)]
    BY DEF Expire
  <1>4. counters'[k] = counters[k]
            \/ counters'[k] = [counters[k] EXCEPT !.expires = CounterExpiry(clock)]
    BY <1>1, <1>3 DEF IInv, TypeOK
  <1> QED
    BY <1>1, <1>2, <1>4 DEF Counter, Expire

\* CountersOutlastWindow is preserved: EXPIRE is sent after the window began.
LEMMA OutlastKept ==
  ASSUME IInv, [Next]_vars
  PROVE  CountersOutlastWindow'
  <1> SUFFICES ASSUME NEW k \in CounterKeys, counters'[k].expires # None
               PROVE  counters'[k].expires >= Deadline(k[3])
    BY DEF CountersOutlastWindow, Deadline
  <1>1. counters[k].expires # None => counters[k].expires >= Deadline(k[3])
    BY DEF IInv, CountersOutlastWindow
  <1>2. CASE counters'[k] = counters[k]
    BY <1>1, <1>2
  <1>3. ASSUME NEW a \in Attempts, Incr(a), CounterKey(a) = k
        PROVE  counters'[k].expires >= Deadline(k[3])
    BY <1>1, <1>3, IncrOutcome
  <1>4. ASSUME NEW a \in Attempts, Expire(a), CounterKey(a) = k
        PROVE  counters'[k].expires >= Deadline(k[3])
    <2>1. pc[a] = "expire"
      BY <1>4 DEF Expire
    <2>2. window[a] \in Nat /\ clock \in Nat /\ (window[a] * Window) * Second <= clock
      BY <2>1 DEF IInv, TypeOK, AttemptFollowsStep, FollowsStep
    <2>3. CounterExpiry(clock) >= Deadline(window[a])
      BY <2>2, ExpiryBeyondWindow
    <2>4. k[3] = window[a]
      BY <1>4 DEF CounterKey
    <2> QED
      BY <1>1, <1>4, <2>3, <2>4, ExpireOutcome
  <1> QED
    BY <1>2, <1>3, <1>4, CounterSteps

\* GrantsAreCounted is preserved: until its deadline a counter that has counted
\* is live, so INCR goes on from what it has counted.
LEMMA GrantsKept ==
  ASSUME IInv, [Next]_vars
  PROVE  GrantsAreCounted'
  <1> SUFFICES ASSUME NEW k \in CounterKeys
               PROVE  /\ granted'[k] <= Limit[k[2]]
                      /\ clock' < Deadline(k[3]) => granted'[k] <= counters'[k].count
    BY DEF GrantsAreCounted, Deadline
  <1>1. /\ granted[k] <= Limit[k[2]]
        /\ clock < Deadline(k[3]) => granted[k] <= counters[k].count
    BY DEF IInv, GrantsAreCounted
  <1>2. CASE counters'[k] = counters[k] /\ granted'[k] = granted[k]
    <2>1. clock' \in Nat /\ clock <= clock'
      <3>1. clock \in Nat
        BY DEF IInv, TypeOK
      <3>2. clock' = clock \/ clock' = clock + 1
        BY DEF Next, vars, Receive, Lookup, CheckNonce, Verify, Incr, Expire, Crash, Tick
      <3> QED
        BY <3>1, <3>2
    <2> QED
      BY <1>1, <1>2, <2>1, CounterFields
  <1>3. ASSUME NEW a \in Attempts, Incr(a), CounterKey(a) = k
        PROVE  /\ granted'[k] <= Limit[k[2]]
               /\ clock' < Deadline(k[3]) => granted'[k] <= counters'[k].count
    <2> DEFINE n == IF CounterLive(k) THEN counters[k].count + 1 ELSE 1
    <2>1. CASE counters'[k] = counters[k] /\ granted'[k] = granted[k]
      BY <1>1, <1>3, <2>1, IncrOutcome
    <2>2. clock < Deadline(k[3]) => n = counters[k].count + 1
      <3>1. counters[k].expires # None => counters[k].expires >= Deadline(k[3])
        BY DEF IInv, CountersOutlastWindow
      <3> QED
        BY <3>1, CounterFields DEF CounterLive
    <2>3. n \in Nat
      BY CounterFields
    <2> HIDE DEF n
    <2>4. CASE /\ counters'[k].count = n /\ clock' = clock
               /\ \/ granted'[k] = granted[k]
                  \/ /\ n <= Limit[k[2]] /\ clock < Deadline(k[3])
                     /\ granted'[k] = granted[k] + 1
      BY <1>1, <2>2, <2>3, <2>4, CounterFields
    <2> QED
      BY <1>3, <2>1, <2>4, IncrOutcome DEF n
  <1>4. ASSUME NEW a \in Attempts, Expire(a), CounterKey(a) = k
        PROVE  /\ granted'[k] <= Limit[k[2]]
               /\ clock' < Deadline(k[3]) => granted'[k] <= counters'[k].count
    BY <1>1, <1>4, ExpireOutcome
  <1> QED
    BY <1>2, <1>3, <1>4, CounterSteps

\* Every step keeps the invariant.
LEMMA NextInv == IInv /\ [Next]_vars => IInv'
  BY NextTyped, FollowsStepKept, NoncesBroughtKept, NoncesKeptKept, OutlastKept, GrantsKept,
     RefusalTrueKept DEF IInv

-----------------------------------------------------------------------------
\* The guards keep the invariant: what an attempt knows of its timestamp and
\* window, who brought a nonce, how long nonces and counters live, and that a
\* counter has counted every grant.
THEOREM GuardInvariance == Spec => []IInv
  BY InitInv, NextInv, PTL DEF Spec

\* Every variable keeps its type.
THEOREM GuardTypeCorrect == Spec => []TypeOK
  <1>1. IInv => TypeOK
    BY DEF IInv
  <1> QED
    BY <1>1, GuardInvariance, PTL

\* A working limiter admits no more requests of a caller in a window than the
\* limit, whatever fails between INCR and EXPIRE and however late EXPIRE comes.
THEOREM LimitHolds == Spec => []WindowLimit
  <1>1. IInv => WindowLimit
    BY DEF IInv, GrantsAreCounted, WindowLimit
  <1> QED
    BY <1>1, GuardInvariance, PTL

\* A nonce is refused as used only if another attempt brought it.
THEOREM RefusedNonceWasUsed == Spec => []NonceRefusalIsTrue
  <1>1. IInv => NonceRefusalIsTrue
    BY DEF IInv
  <1> QED
    BY <1>1, GuardInvariance, PTL

\* A tick before the end of a second that lies at most Drift seconds after the
\* timestamp, and one that lies the TTL before another: the arithmetic of the
\* edge, with the products of the seconds named.
LEMMA EdgeArithmetic ==
  ASSUME NEW first \in Nat, NEW now \in Nat, NEW at \in Nat, NEW stamp \in Nat,
         first + NonceTTL * Second <= now, Unix(at) - stamp <= Drift
  PROVE  first < (stamp - Drift + 1) * Second + (now - at)
  <1>1. Second \in Nat \ {0} /\ Drift \in Nat /\ NonceTTL = 2 * Drift
    BY TimeAssumption
  <1> DEFINE u == Unix(at)
             x == stamp * Second
             y == Drift * Second
  <1>2. u \in Nat /\ at < (u + 1) * Second
    BY InSecond
  <1>3. u <= stamp + Drift
    BY <1>1, <1>2
  <1> HIDE DEF u
  <1>4. (u + 1) * Second <= (stamp + Drift + 1) * Second
    BY <1>1, <1>2, <1>3
  <1>5. /\ (stamp + Drift + 1) * Second = x + y + Second
        /\ (stamp - Drift + 1) * Second = x - y + Second
        /\ NonceTTL * Second = 2 * y
        /\ x \in Nat /\ y \in Nat /\ (u + 1) * Second \in Nat
    BY <1>1, <1>2
  <1> HIDE DEF x, y
  <1>6. at < x + y + Second
    BY <1>1, <1>2, <1>4, <1>5
  <1>7. first + 2 * y <= now
    BY <1>5
  <1> QED
    BY <1>1, <1>5, <1>6, <1>7

\* A request passes the nonce check a second time because Redis failed the later
\* attempt or at the edge of the drift: the nonce was kept for twice the drift,
\* and the later attempt's timestamp was still accepted.
THEOREM SecondPassHasAReason == Spec => SecondPassExplained
  <1>1. IInv /\ [Next]_vars => [AgainOnlyIfExplained]_vars
    <2> SUFFICES ASSUME IInv, Next, NEW a \in Attempts,
                        pc[a] = "nonce", pc'[a] = "verify", stored[msg[a]] # None,
                        nonceRes'[a] # "error"
                 PROVE  stored[msg[a]] <
                          (msg[a].stamp - Drift + 1) * Second + (clock - checkedAt[a])
      BY DEF AgainOnlyIfExplained
    <2>1. CheckNonce(a)
      <3>1. PICK b \in Attempts : AttemptStep(b)
        BY DEF Next, AttemptStep, Crash, Tick
      <3>2. b = a
        BY <3>1, OthersKept
      <3> QED
        BY <3>1, <3>2 DEF AttemptStep, Receive, Lookup, Verify, Incr, Expire
    <2>2. SetNonce(msg[a])
      BY <2>1 DEF CheckNonce, GoOn, Refuse, Finish, Goto, IInv, TypeOK
    <2>3. /\ msg[a] \in Messages /\ msg[a].stamp \in Nat
          /\ Unix(checkedAt[a]) - msg[a].stamp <= Drift
          /\ checkedAt[a] \in Nat /\ clock \in Nat
      BY DEF IInv, TypeOK, AttemptFollowsStep, FollowsStep
    <2>4. stored[msg[a]] \in Nat
      BY <2>3 DEF IInv, TypeOK
    <2>5. nonces[NonceKey(msg[a])] >= stored[msg[a]] + NonceTTL * Second
      BY <2>3 DEF IInv, NoncesAreKept
    <2>6. nonces[NonceKey(msg[a])] <= clock
      BY <2>2, <2>3, AttemptKeys DEF SetNonce, NonceLive, IInv, TypeOK
    <2>7. nonces[NonceKey(msg[a])] \in Nat /\ NonceTTL * Second \in Nat
      BY <2>3, AttemptKeys, NonceExpiryTyped DEF IInv, TypeOK
    <2> DEFINE ttl == NonceTTL * Second
    <2>8. stored[msg[a]] + ttl <= clock
      <3> HIDE DEF ttl
      <3>1. nonces[NonceKey(msg[a])] >= stored[msg[a]] + ttl /\ ttl \in Nat
        BY <2>5, <2>7 DEF ttl
      <3> QED
        BY <2>3, <2>4, <2>6, <2>7, <3>1
    <2> QED
      BY <2>3, <2>4, <2>8, EdgeArithmetic
  <1> QED
    BY <1>1, GuardInvariance, PTL DEF Spec, SecondPassExplained

===============================================================================
