------------------------- MODULE WebhookDeliveryProofs -------------------------
(***************************************************************************)
(* Proofs about WebhookDelivery, for any number of deliveries, retries and *)
(* any faults.  A row of the log is a copy of the goroutine's record from  *)
(* some earlier step, or nothing at all, so the argument is about the      *)
(* record: what it says at each step of the goroutine (RecordFollowsStep), *)
(* and that a row leaves PENDING only with the last write of a delivery.   *)
(***************************************************************************)
EXTENDS WebhookDelivery, TLAPS

\* What the goroutine's record says at each of its steps.
RecordFollowsStep ==
    \A d \in Deliveries :
        /\ posts[d] <= mem[d].attempt
        /\ pc[d] \in {"idle", "skipped", "create"} => mem[d] = NewLog /\ row[d] = None
        /\ pc[d] = "post" => mem[d].attempt <= Retries
        /\ pc[d] \in {"idle", "skipped", "create", "post", "saveRetry"} =>
              mem[d].status = "PENDING" /\ acked[d] = FALSE
        /\ pc[d] = "saveDone" =>
              /\ mem[d].status = "DELIVERED" /\ mem[d].error = FALSE
              /\ mem[d].nextRetry = FALSE /\ acked[d] = TRUE
        /\ pc[d] = "saveFailed" =>
              /\ mem[d].status = "FAILED" /\ mem[d].attempt = Retries + 1
              /\ mem[d].nextRetry = FALSE /\ acked[d] = FALSE

\* What a row says, and that it is final only when the delivery has ended.
RowIsEarlierRecord ==
    \A d \in Deliveries :
        row[d] # None =>
            /\ row[d].attempt <= mem[d].attempt
            /\ row[d].status # "PENDING" => pc[d] = "ended"
            /\ row[d].status = "DELIVERED" =>
                  acked[d] = TRUE /\ row[d].error = FALSE /\ row[d].nextRetry = FALSE
            /\ row[d].status = "FAILED" =>
                  /\ acked[d] = FALSE /\ row[d].attempt = Retries + 1
                  /\ row[d].nextRetry = FALSE

IInv == TypeOK /\ RecordFollowsStep /\ RowIsEarlierRecord

-----------------------------------------------------------------------------
\* The fields of a record.
LEMMA LogFields ==
  ASSUME NEW l \in DeliveryLog
  PROVE  /\ l.attempt \in 0 .. (Retries + 1)
         /\ l.status \in {"PENDING", "DELIVERED", "FAILED"}
         /\ l.http \in {None, "2xx", "other"}
         /\ l.error \in BOOLEAN
         /\ l.nextRetry \in BOOLEAN
         /\ l # None
  BY NoneAssumption DEF DeliveryLog

\* A new record is one.
LEMMA NewLogTyped == NewLog \in DeliveryLog
  BY WebhookAssumption DEF NewLog, DeliveryLog

\* An attempt is counted while the loop has not run out of them.
LEMMA AttemptTyped ==
  ASSUME NEW l \in DeliveryLog, l.attempt <= Retries
  PROVE  /\ NextAttempt(l) \in DeliveryLog
         /\ NextAttempt(l).attempt = l.attempt + 1
         /\ NextAttempt(l).status = l.status
  BY LogFields, WebhookAssumption DEF NextAttempt, DeliveryLog

\* The initial state satisfies the invariant.
LEMMA InitInv == Init => IInv
  <1> SUFFICES ASSUME Init PROVE IInv
    OBVIOUS
  <1>1. TypeOK
    BY NewLogTyped, WebhookAssumption DEF Init, TypeOK, PCs
  <1>2. RecordFollowsStep
    <2>1. NewLog.attempt = 0 /\ NewLog.status = "PENDING"
      BY DEF NewLog
    <2>2. \A d \in Deliveries : /\ posts[d] = 0 /\ mem[d] = NewLog /\ row[d] = None
                                /\ pc[d] = "idle" /\ acked[d] = FALSE
      BY DEF Init
    <2>3. 0 <= Retries /\ 0 <= 0
      BY WebhookAssumption
    <2> QED
      BY <2>1, <2>2, <2>3, Zenon DEF RecordFollowsStep
  <1>3. RowIsEarlierRecord
    BY DEF Init, RowIsEarlierRecord
  <1> QED
    BY <1>1, <1>2, <1>3 DEF IInv

-----------------------------------------------------------------------------
\* A step of one delivery changes its own entries only, and keeps the invariant
\* if it keeps it for that delivery.
LEMMA Frame ==
  ASSUME IInv, NEW d \in Deliveries,
         NEW p \in PCs, NEW l \in DeliveryLog, NEW w \in DeliveryLog \cup {None},
         NEW n \in 0 .. (Retries + 1), NEW a \in BOOLEAN,
         url' \in BOOLEAN,
         pc' = [pc EXCEPT ![d] = p], mem' = [mem EXCEPT ![d] = l],
         row' = [row EXCEPT ![d] = w], posts' = [posts EXCEPT ![d] = n],
         acked' = [acked EXCEPT ![d] = a],
         n <= l.attempt,
         p \in {"idle", "skipped", "create"} => l = NewLog /\ w = None,
         p = "post" => l.attempt <= Retries,
         p \in {"idle", "skipped", "create", "post", "saveRetry"} =>
            l.status = "PENDING" /\ a = FALSE,
         p = "saveDone" => /\ l.status = "DELIVERED" /\ l.error = FALSE
                           /\ l.nextRetry = FALSE /\ a = TRUE,
         p = "saveFailed" => /\ l.status = "FAILED" /\ l.attempt = Retries + 1
                             /\ l.nextRetry = FALSE /\ a = FALSE,
         w # None => /\ w.attempt <= l.attempt
                     /\ w.status # "PENDING" => p = "ended"
                     /\ w.status = "DELIVERED" =>
                           a = TRUE /\ w.error = FALSE /\ w.nextRetry = FALSE
                     /\ w.status = "FAILED" =>
                           a = FALSE /\ w.attempt = Retries + 1 /\ w.nextRetry = FALSE
  PROVE  IInv'
  <1>1. TypeOK'
    BY DEF IInv, TypeOK
  <1>2. /\ pc'[d] = p /\ mem'[d] = l /\ row'[d] = w /\ posts'[d] = n /\ acked'[d] = a
        /\ \A e \in Deliveries \ {d} : /\ pc'[e] = pc[e] /\ mem'[e] = mem[e] /\ row'[e] = row[e]
                                       /\ posts'[e] = posts[e] /\ acked'[e] = acked[e]
    BY DEF IInv, TypeOK
  <1>3. RecordFollowsStep'
    BY <1>2 DEF IInv, RecordFollowsStep
  <1>4. RowIsEarlierRecord'
    BY <1>2 DEF IInv, RowIsEarlierRecord
  <1> QED
    BY <1>1, <1>3, <1>4 DEF IInv

-----------------------------------------------------------------------------
\* Every step keeps the invariant.
LEMMA NextInv == IInv /\ [Next]_vars => IInv'
  <1> SUFFICES ASSUME IInv, [Next]_vars PROVE IInv'
    OBVIOUS
  <1> USE WebhookAssumption
  <1>t. ASSUME NEW d \in Deliveries
        PROVE  /\ pc[d] \in PCs /\ mem[d] \in DeliveryLog /\ row[d] \in DeliveryLog \cup {None}
               /\ posts[d] \in 0 .. (Retries + 1) /\ acked[d] \in BOOLEAN
               /\ mem[d].attempt \in 0 .. (Retries + 1)
    BY LogFields DEF IInv, TypeOK
  <1>f. /\ pc = [d \in Deliveries |-> pc[d]] /\ mem = [d \in Deliveries |-> mem[d]]
        /\ row = [d \in Deliveries |-> row[d]] /\ posts = [d \in Deliveries |-> posts[d]]
        /\ acked = [d \in Deliveries |-> acked[d]]
    BY DEF IInv, TypeOK
  <1>u. url \in BOOLEAN
    BY DEF IInv, TypeOK
  <1>1. CASE UNCHANGED vars
    BY <1>1 DEF vars, IInv, TypeOK, RecordFollowsStep, RowIsEarlierRecord
  <1>2. CASE UpdateWebhookURL
    BY <1>2 DEF UpdateWebhookURL, IInv, TypeOK, RecordFollowsStep, RowIsEarlierRecord
  <1>3. ASSUME NEW d \in Deliveries, EnqueueWebhook(d) PROVE IInv'
    <2>1. PICK p \in {"create", "skipped"} : pc' = [pc EXCEPT ![d] = p]
      BY <1>3 DEF EnqueueWebhook, Goto
    <2>2. /\ mem' = [mem EXCEPT ![d] = mem[d]] /\ row' = [row EXCEPT ![d] = row[d]]
          /\ posts' = [posts EXCEPT ![d] = posts[d]] /\ acked' = [acked EXCEPT ![d] = acked[d]]
      BY <1>3, <1>f DEF EnqueueWebhook
    <2>3. /\ mem[d] = NewLog /\ row[d] = None /\ posts[d] <= mem[d].attempt
          /\ mem[d].status = "PENDING" /\ acked[d] = FALSE
      BY <1>3 DEF EnqueueWebhook, IInv, RecordFollowsStep
    <2>4. p \in PCs /\ url' \in BOOLEAN
      BY <1>3, <1>u DEF EnqueueWebhook, PCs, Running
    <2> QED
      BY <1>t, <2>1, <2>2, <2>3, <2>4, Frame
  <1>4. ASSUME NEW d \in Deliveries, CreateLog(d) PROVE IInv'
    <2>1. PICK w \in DeliveryLog \cup {None} :
             row' = [row EXCEPT ![d] = w] /\ w \in {None, mem[d]}
      BY <1>4, <1>t, <1>f DEF CreateLog, IInv, RecordFollowsStep
    <2>2. /\ mem' = [mem EXCEPT ![d] = mem[d]] /\ pc' = [pc EXCEPT ![d] = "post"]
          /\ posts' = [posts EXCEPT ![d] = posts[d]] /\ acked' = [acked EXCEPT ![d] = acked[d]]
      BY <1>4, <1>f DEF CreateLog, Goto
    <2>3. /\ posts[d] <= mem[d].attempt /\ mem[d].attempt = 0
          /\ mem[d].status = "PENDING" /\ acked[d] = FALSE
      BY <1>4 DEF CreateLog, IInv, RecordFollowsStep, NewLog
    <2>4. "post" \in PCs /\ url' \in BOOLEAN
      BY <1>4, <1>u DEF CreateLog, PCs, Running
    <2>5. w # None => w.attempt <= mem[d].attempt /\ w.status = "PENDING"
      BY <1>t, <2>1, <2>3
    <2>6. mem[d].attempt <= Retries
      BY <2>3
    <2> QED
      BY <1>t, <2>1, <2>2, <2>3, <2>4, <2>5, <2>6, Frame
  <1>5. ASSUME NEW d \in Deliveries, NEW http \in {"2xx", "other"}, PostAnswered(d, http)
        PROVE  IInv'
    <2> DEFINE l == [NextAttempt(mem[d]) EXCEPT !.http = http]
    <2>1. /\ row' = [row EXCEPT ![d] = row[d]]
          /\ posts' = [posts EXCEPT ![d] = posts[d] + 1]
          /\ url' \in BOOLEAN
          /\ pc[d] = "post"
      BY <1>5, <1>f, <1>u DEF PostAnswered
    <2>2. /\ posts[d] <= mem[d].attempt /\ mem[d].attempt <= Retries
          /\ mem[d].status = "PENDING" /\ acked[d] = FALSE
          /\ row[d] # None => row[d].attempt <= mem[d].attempt /\ row[d].status = "PENDING"
      BY <2>1 DEF IInv, RecordFollowsStep, RowIsEarlierRecord
    <2>3. /\ l \in DeliveryLog /\ l.attempt = mem[d].attempt + 1 /\ l.status = "PENDING"
      BY <1>t, <2>2, AttemptTyped DEF DeliveryLog
    <2>4. posts[d] + 1 \in 0 .. (Retries + 1)
      BY <1>t, <2>2
    <2>5. row[d] # None => row[d].attempt <= l.attempt
      BY <1>t, <2>2, <2>3, LogFields
    <2> HIDE DEF l
    <2>6. CASE http = "2xx"
      <3> DEFINE k == [l EXCEPT !.status = "DELIVERED", !.error = FALSE, !.nextRetry = FALSE]
      <3>1. /\ mem' = [mem EXCEPT ![d] = k] /\ pc' = [pc EXCEPT ![d] = "saveDone"]
            /\ acked' = [acked EXCEPT ![d] = TRUE]
        BY <1>5, <2>6, <1>t DEF PostAnswered, Success, AfterAck, Goto, l
      <3>2. /\ k \in DeliveryLog /\ k.attempt = l.attempt /\ k.status = "DELIVERED"
            /\ k.error = FALSE /\ k.nextRetry = FALSE
        BY <2>3 DEF DeliveryLog
      <3> HIDE DEF k
      <3>3. "saveDone" \in PCs /\ posts[d] + 1 <= k.attempt
        BY <1>t, <2>2, <2>3, <3>2 DEF PCs, Running
      <3> QED
        BY <1>t, <2>1, <2>2, <2>3, <2>4, <2>5, <3>1, <3>2, <3>3, Frame
    <2>7. CASE http = "other"
      <3> DEFINE k == [l EXCEPT !.error = TRUE, !.nextRetry = IF IsLast(l) THEN @ ELSE TRUE]
      <3>1. /\ mem' = [mem EXCEPT ![d] = k] /\ pc' = [pc EXCEPT ![d] = "saveRetry"]
            /\ acked' = [acked EXCEPT ![d] = FALSE]
        BY <1>5, <2>7, <2>2, <1>t DEF PostAnswered, Success, Goto, l
      <3>2. /\ k \in DeliveryLog /\ k.attempt = l.attempt /\ k.status = "PENDING"
        BY <2>3 DEF DeliveryLog
      <3> HIDE DEF k
      <3>3. "saveRetry" \in PCs /\ posts[d] + 1 <= k.attempt
        BY <1>t, <2>2, <2>3, <3>2 DEF PCs, Running
      <3> QED
        BY <1>t, <2>1, <2>2, <2>3, <2>4, <2>5, <3>1, <3>2, <3>3, Frame
    <2> QED
      BY <2>6, <2>7
  <1>6. ASSUME NEW d \in Deliveries, PostFailed(d) \/ PostImpossible(d) PROVE IInv'
    <2> DEFINE l == NextAttempt(mem[d])
    <2>1. /\ row' = [row EXCEPT ![d] = row[d]] /\ acked' = [acked EXCEPT ![d] = acked[d]]
          /\ pc' = [pc EXCEPT ![d] = "saveRetry"]
          /\ url' \in BOOLEAN
          /\ pc[d] = "post"
      BY <1>6, <1>f, <1>u DEF PostFailed, PostImpossible, Goto
    <2>2. PICK n \in {posts[d], posts[d] + 1} : posts' = [posts EXCEPT ![d] = n]
      BY <1>6, <1>f, <1>t DEF PostFailed, PostImpossible
    <2>3. /\ posts[d] <= mem[d].attempt /\ mem[d].attempt <= Retries
          /\ mem[d].status = "PENDING" /\ acked[d] = FALSE
          /\ row[d] # None => row[d].attempt <= mem[d].attempt /\ row[d].status = "PENDING"
      BY <2>1 DEF IInv, RecordFollowsStep, RowIsEarlierRecord
    <2>4. /\ l \in DeliveryLog /\ l.attempt = mem[d].attempt + 1 /\ l.status = "PENDING"
      BY <1>t, <2>3, AttemptTyped
    <2> HIDE DEF l
    <2>5. PICK b \in BOOLEAN :
             mem' = [mem EXCEPT ![d] = [l EXCEPT !.error = TRUE, !.nextRetry = b]]
      <3>1. CASE PostFailed(d)
        <4>1. CASE IsLast(l)
          BY <3>1, <4>1, <2>4, LogFields DEF PostFailed, l
        <4>2. CASE ~IsLast(l)
          BY <3>1, <4>2 DEF PostFailed, l
        <4> QED
          BY <4>1, <4>2
      <3>2. CASE PostImpossible(d)
        <4>1. mem' = [mem EXCEPT ![d] = [l EXCEPT !.error = TRUE]]
          BY <3>2 DEF PostImpossible, l
        <4>2. [l EXCEPT !.error = TRUE] = [l EXCEPT !.error = TRUE, !.nextRetry = l.nextRetry]
          BY <2>4 DEF DeliveryLog
        <4> QED
          BY <4>1, <4>2, <2>4, LogFields
      <3> QED
        BY <1>6, <3>1, <3>2
    <2> DEFINE k == [l EXCEPT !.error = TRUE, !.nextRetry = b]
    <2>6. k \in DeliveryLog /\ k.attempt = l.attempt /\ k.status = "PENDING"
      BY <2>4 DEF DeliveryLog
    <2>7. mem' = [mem EXCEPT ![d] = k]
      BY <2>5
    <2> HIDE DEF k
    <2>8. /\ n \in 0 .. (Retries + 1) /\ n <= k.attempt /\ "saveRetry" \in PCs
          /\ row[d] # None => row[d].attempt <= k.attempt
      BY <1>t, <2>2, <2>3, <2>4, <2>6, LogFields DEF PCs, Running
    <2> QED
      BY <1>t, <2>1, <2>2, <2>3, <2>6, <2>7, <2>8, Frame
  <1>7. ASSUME NEW d \in Deliveries, SaveRetry(d) PROVE IInv'
    <2>1. /\ posts' = [posts EXCEPT ![d] = posts[d]] /\ acked' = [acked EXCEPT ![d] = acked[d]]
          /\ url' \in BOOLEAN
          /\ pc[d] = "saveRetry"
      BY <1>7, <1>f, <1>u DEF SaveRetry
    <2>2. PICK w \in {row[d], mem[d]} : row' = [row EXCEPT ![d] = w]
      BY <1>7, <1>f DEF SaveRetry, PersistLog
    <2>3. /\ posts[d] <= mem[d].attempt /\ mem[d].status = "PENDING" /\ acked[d] = FALSE
          /\ row[d] # None => row[d].attempt <= mem[d].attempt /\ row[d].status = "PENDING"
      BY <2>1 DEF IInv, RecordFollowsStep, RowIsEarlierRecord
    <2>4. /\ w \in DeliveryLog \cup {None}
          /\ w # None => w.attempt <= mem[d].attempt /\ w.status = "PENDING"
      BY <1>t, <2>2, <2>3
    <2>5. CASE IsLast(mem[d])
      <3> DEFINE k == [mem[d] EXCEPT !.status = "FAILED", !.nextRetry = FALSE]
      <3>1. mem' = [mem EXCEPT ![d] = k] /\ pc' = [pc EXCEPT ![d] = "saveFailed"]
        BY <1>7, <2>5 DEF SaveRetry, Goto
      <3>2. /\ k \in DeliveryLog /\ k.attempt = mem[d].attempt /\ k.status = "FAILED"
            /\ k.nextRetry = FALSE
        BY <1>t DEF DeliveryLog
      <3> HIDE DEF k
      <3>3. "saveFailed" \in PCs /\ k.attempt = Retries + 1
        BY <2>5, <3>2 DEF PCs, Running, IsLast
      <3> QED
        BY <1>t, <2>1, <2>2, <2>3, <2>4, <3>1, <3>2, <3>3, Frame
    <2>6. CASE ~IsLast(mem[d])
      <3>1. mem' = [mem EXCEPT ![d] = mem[d]] /\ pc' = [pc EXCEPT ![d] = "post"]
        BY <1>7, <2>6, <1>f DEF SaveRetry, Goto
      <3>2. "post" \in PCs /\ mem[d].attempt <= Retries
        BY <1>t, <2>6 DEF PCs, Running, IsLast
      <3> QED
        BY <1>t, <2>1, <2>2, <2>3, <2>4, <3>1, <3>2, Frame
    <2> QED
      BY <2>5, <2>6
  <1>8. ASSUME NEW d \in Deliveries, SaveFinal(d) PROVE IInv'
    <2>1. /\ posts' = [posts EXCEPT ![d] = posts[d]] /\ acked' = [acked EXCEPT ![d] = acked[d]]
          /\ mem' = [mem EXCEPT ![d] = mem[d]] /\ pc' = [pc EXCEPT ![d] = "ended"]
          /\ url' \in BOOLEAN
          /\ pc[d] \in {"saveDone", "saveFailed"}
      BY <1>8, <1>f, <1>u DEF SaveFinal, Goto
    <2>2. PICK w \in {row[d], mem[d]} : row' = [row EXCEPT ![d] = w]
      BY <1>8, <1>f DEF SaveFinal, PersistLog
    <2>3. /\ posts[d] <= mem[d].attempt
          /\ \/ /\ mem[d].status = "DELIVERED" /\ mem[d].error = FALSE
                /\ mem[d].nextRetry = FALSE /\ acked[d] = TRUE
             \/ /\ mem[d].status = "FAILED" /\ mem[d].attempt = Retries + 1
                /\ mem[d].nextRetry = FALSE /\ acked[d] = FALSE
          /\ row[d] # None => row[d].attempt <= mem[d].attempt /\ row[d].status = "PENDING"
      BY <2>1 DEF IInv, RecordFollowsStep, RowIsEarlierRecord
    <2>4. /\ w \in DeliveryLog \cup {None} /\ "ended" \in PCs
          /\ w # None => w.attempt <= mem[d].attempt
      BY <1>t, <2>2, <2>3 DEF PCs
    <2>5. w # None =>
             /\ w.status = "DELIVERED" =>
                   acked[d] = TRUE /\ w.error = FALSE /\ w.nextRetry = FALSE
             /\ w.status = "FAILED" =>
                   acked[d] = FALSE /\ w.attempt = Retries + 1 /\ w.nextRetry = FALSE
      BY <2>2, <2>3
    <2> QED
      BY <1>t, <2>1, <2>2, <2>3, <2>4, <2>5, Frame
  <1>9. CASE Crash
    <2>1. \A d \in Deliveries : pc'[d] \in {pc[d], "dead"} /\ (pc[d] = "ended" => pc'[d] = "ended")
      BY <1>9 DEF Crash, Running
    <2>2. UNCHANGED <<url, mem, row, posts, acked>>
      BY <1>9 DEF Crash
    <2>3. TypeOK'
      BY <1>9, <1>t, <2>1, <2>2 DEF Crash, IInv, TypeOK, PCs
    <2>4. RecordFollowsStep' /\ RowIsEarlierRecord'
      BY <2>1, <2>2 DEF IInv, RecordFollowsStep, RowIsEarlierRecord
    <2> QED
      BY <2>3, <2>4 DEF IInv
  <1> QED
    BY <1>1, <1>2, <1>3, <1>4, <1>5, <1>6, <1>7, <1>8, <1>9 DEF Next, Step

-----------------------------------------------------------------------------
\* The invariant holds in every reachable state.
THEOREM DeliveryInvariance == Spec => []IInv
  BY InitInv, NextInv, PTL DEF Spec

\* Every variable of the deliveries keeps its type: no attempt beyond the last
\* interval, no row that is not a record.
THEOREM DeliveryTypeCorrect == Spec => []TypeOK
  <1>1. IInv => TypeOK
    BY DEF IInv
  <1> QED
    BY <1>1, DeliveryInvariance, PTL

\* The log of deliveries never claims more than happened.
THEOREM LogIsTruthful == Spec => []LogTellsTheTruth
  <1>1. IInv => LogTellsTheTruth
    BY DEF IInv, RecordFollowsStep, RowIsEarlierRecord, LogTellsTheTruth
  <1> QED
    BY <1>1, DeliveryInvariance, PTL

-----------------------------------------------------------------------------
\* A row is final once it has left PENDING, rows never go back to fewer attempts,
\* and an acknowledged delivery posts nothing more.
LEMMA ForwardStep == IInv /\ [Next]_vars => ForwardOnly \/ UNCHANGED vars
  <1> SUFFICES ASSUME IInv, Next, NEW e \in Deliveries
               PROVE  /\ acked[e] => posts'[e] = posts[e]
                      /\ row[e] # None => /\ row'[e] # None
                                          /\ row'[e].attempt >= row[e].attempt
                                          /\ row[e].status # "PENDING" => row'[e] = row[e]
    BY DEF ForwardOnly
  <1>t. /\ mem[e] \in DeliveryLog /\ mem[e] # None
        /\ row[e] # None => row[e] \in DeliveryLog /\ row[e].attempt \in Int
        /\ posts \in [Deliveries -> 0 .. (Retries + 1)]
        /\ row \in [Deliveries -> DeliveryLog \cup {None}]
    BY LogFields DEF IInv, TypeOK
  <1>1. /\ row[e] # None => row[e].attempt <= mem[e].attempt
        /\ row[e] # None /\ row[e].status # "PENDING" => pc[e] = "ended"
        /\ pc[e] = "create" => row[e] = None
        /\ pc[e] = "post" => ~acked[e]
    BY DEF IInv, RecordFollowsStep, RowIsEarlierRecord
  <1>2. posts'[e] # posts[e] => pc[e] = "post"
    <2>1. ASSUME NEW d \in Deliveries, NEW n, pc[d] = "post", posts' = [posts EXCEPT ![d] = n]
          PROVE  posts'[e] # posts[e] => pc[e] = "post"
      BY <2>1, <1>t
    <2>2. ASSUME NEW d \in Deliveries, NEW http, PostAnswered(d, http)
          PROVE  posts'[e] # posts[e] => pc[e] = "post"
      BY <2>1, <2>2 DEF PostAnswered
    <2>3. ASSUME NEW d \in Deliveries, PostFailed(d)
          PROVE  posts'[e] # posts[e] => pc[e] = "post"
      BY <2>1, <2>3 DEF PostFailed
    <2> QED
      BY <2>2, <2>3 DEF Next, UpdateWebhookURL, EnqueueWebhook, Step, CreateLog,
                        PostImpossible, SaveRetry, SaveFinal, Crash
  <1>3. \/ row'[e] = row[e]
        \/ pc[e] = "create"
        \/ pc[e] # "ended" /\ row'[e] = mem[e]
    <2>1. ASSUME NEW d \in Deliveries, CreateLog(d)
          PROVE  row'[e] = row[e] \/ pc[e] = "create"
      BY <2>1, <1>t DEF CreateLog
    <2>2. ASSUME NEW d \in Deliveries, SaveRetry(d) \/ SaveFinal(d)
          PROVE  row'[e] = row[e] \/ (pc[e] # "ended" /\ row'[e] = mem[e])
      BY <2>2, <1>t DEF SaveRetry, SaveFinal, PersistLog
    <2> QED
      BY <2>1, <2>2 DEF Next, UpdateWebhookURL, EnqueueWebhook, Step, PostAnswered,
                        PostFailed, PostImpossible, Crash
  <1>4. acked[e] => posts'[e] = posts[e]
    BY <1>1, <1>2
  <1>5. row[e] # None => /\ row'[e] # None
                         /\ row'[e].attempt >= row[e].attempt
                         /\ row[e].status # "PENDING" => row'[e] = row[e]
    BY <1>t, <1>1, <1>3
  <1> QED
    BY <1>4, <1>5

\* An acknowledged event is not sent again by its delivery, and the row of a
\* delivery only moves forward to one final status.
THEOREM DeliveriesMoveForward == Spec => DeliveryMovesForward
  <1>1. IInv /\ [Next]_vars => [ForwardOnly]_vars
    BY ForwardStep
  <1> QED
    BY <1>1, DeliveryInvariance, PTL DEF Spec, DeliveryMovesForward

=============================================================================
