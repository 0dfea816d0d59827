--------------------------- MODULE WebhookDelivery ---------------------------
(***************************************************************************)
(* internal/service/webhook_service.go: a handler whose payment, refund    *)
(* or top-up succeeded calls EnqueueWebhook, which starts a goroutine of   *)
(* its own that posts the event to the merchant and retries.  Only the     *)
(* goroutine knows that a delivery is under way; webhook_delivery_logs is  *)
(* what an operator sees of it.                                            *)
(***************************************************************************)
EXTENDS Integers

CONSTANTS
    Deliveries,  \* calls of EnqueueWebhook, and the goroutines they start
    Retries,     \* len(webhookRetryIntervals), 5 in the code
    Faults,      \* which failures may happen in this instance
    None         \* nil

ASSUME WebhookAssumption ==
    /\ Retries \in Nat
    /\ Faults \subseteq {"db", "crypto", "network", "crash"}

VARIABLES
    url,     \* whether the merchant has a webhook URL
    pc,      \* delivery -> the next step of its goroutine
    mem,     \* delivery -> the goroutine's deliveryLog
    row,     \* delivery -> its row of webhook_delivery_logs, None if absent
    posts,   \* delivery -> POSTs that reached the merchant's endpoint
    acked    \* delivery -> the goroutine has read a 2xx answer

vars == <<url, pc, mem, row, posts, acked>>

DeliveryLog == [attempt : 0 .. (Retries + 1), status : {"PENDING", "DELIVERED", "FAILED"},
                http : {None, "2xx", "other"}, error : BOOLEAN, nextRetry : BOOLEAN]

\* nil is no record.
ASSUME NoneAssumption == None \notin DeliveryLog

NewLog == [attempt |-> 0, status |-> "PENDING", http |-> None,
           error |-> FALSE, nextRetry |-> FALSE]

Running == {"create", "post", "saveRetry", "saveDone", "saveFailed"}
PCs == {"idle", "skipped", "ended", "dead"} \cup Running

Init ==
    /\ url \in BOOLEAN
    /\ pc = [d \in Deliveries |-> "idle"]
    /\ mem = [d \in Deliveries |-> NewLog]
    /\ row = [d \in Deliveries |-> None]
    /\ posts = [d \in Deliveries |-> 0]
    /\ acked = [d \in Deliveries |-> FALSE]

Goto(d, label) == pc' = [pc EXCEPT ![d] = label]

\* MerchantService.UpdateWebhookURL, at any time.
UpdateWebhookURL ==
    /\ url' = ~url
    /\ UNCHANGED <<pc, mem, row, posts, acked>>

\* The merchant lookup (which a client that has gone cancels) or the decryption
\* of its key may fail, and without a URL there is nothing to do; the handler
\* ignores the error.
EnqueueWebhook(d) ==
    /\ pc[d] = "idle"
    /\ \/ url /\ Goto(d, "create")
       \/ (~url \/ Faults \cap {"db", "crypto"} # {}) /\ Goto(d, "skipped")
    /\ UNCHANGED <<url, mem, row, posts, acked>>

\* A failed insert is only logged.
CreateLog(d) ==
    /\ pc[d] = "create"
    /\ \/ row' = [row EXCEPT ![d] = mem[d]]
       \/ "db" \in Faults /\ UNCHANGED row
    /\ Goto(d, "post")
    /\ UNCHANGED <<url, mem, posts, acked>>

\* Slip: the retry loop starts the attempt counter over.
NoAttemptCount(l) == [l EXCEPT !.attempt = 1]
NextAttempt(l) == [l EXCEPT !.attempt = @ + 1]

\* Slip: the loop forgets that it has run out of intervals.
NeverLast(l) == FALSE
\* attempt == len(webhookRetryIntervals): no interval is left to wait for.
IsLast(l) == l.attempt = Retries + 1

\* Slip: a 2xx is taken for a failure to be retried.
AckRetried(l) == "saveRetry"
AfterAck(l) == "saveDone"

\* Slip: redirects and client errors count as delivered.
AnyAnswer == {"2xx", "other"}
\* 200 <= StatusCode < 300
Success == {"2xx"}

\* The endpoint answered: with a 2xx, or with anything else.
PostAnswered(d, http) ==
    /\ pc[d] = "post"
    /\ posts' = [posts EXCEPT ![d] = @ + 1]
    /\ LET l == [NextAttempt(mem[d]) EXCEPT !.http = http]
       IN  IF http \in Success
             THEN /\ mem' = [mem EXCEPT ![d] = [l EXCEPT !.status = "DELIVERED",
                                               !.error = FALSE, !.nextRetry = FALSE]]
                  /\ Goto(d, AfterAck(l))
             ELSE /\ mem' = [mem EXCEPT ![d] = [l EXCEPT !.error = TRUE,
                                               !.nextRetry = IF IsLast(l) THEN @ ELSE TRUE]]
                  /\ Goto(d, "saveRetry")
    /\ acked' = [acked EXCEPT ![d] = @ \/ http = "2xx"]
    /\ UNCHANGED <<url, row>>

\* Do failed: the request was lost, or its answer was (a timeout), in which case
\* the endpoint has seen the POST.
PostFailed(d) ==
    /\ "network" \in Faults
    /\ pc[d] = "post"
    /\ \E arrived \in {0, 1} : posts' = [posts EXCEPT ![d] = @ + arrived]
    /\ LET l == NextAttempt(mem[d])
       IN  mem' = [mem EXCEPT ![d] = [l EXCEPT !.error = TRUE,
                                     !.nextRetry = IF IsLast(l) THEN @ ELSE TRUE]]
    /\ Goto(d, "saveRetry")
    /\ UNCHANGED <<url, row, acked>>

\* http.NewRequest rejects the URL: no POST, and no retry time is recorded.
PostImpossible(d) ==
    /\ "network" \in Faults
    /\ pc[d] = "post"
    /\ mem' = [mem EXCEPT ![d] = [NextAttempt(mem[d]) EXCEPT !.error = TRUE]]
    /\ Goto(d, "saveRetry")
    /\ UNCHANGED <<url, row, posts, acked>>

\* persistLog: an UPDATE, which touches no row if the insert had failed, and
\* whose own failure is only logged.
PersistLog(d) ==
    \/ row' = [row EXCEPT ![d] = IF row[d] = None THEN None ELSE mem[d]]
    \/ "db" \in Faults /\ UNCHANGED row

\* After a failed attempt: sleep and post again, or give up.
SaveRetry(d) ==
    /\ pc[d] = "saveRetry"
    /\ PersistLog(d)
    /\ IF IsLast(mem[d])
         THEN /\ mem' = [mem EXCEPT ![d] = [@ EXCEPT !.status = "FAILED", !.nextRetry = FALSE]]
              /\ Goto(d, "saveFailed")
         ELSE /\ Goto(d, "post")
              /\ UNCHANGED mem
    /\ UNCHANGED <<url, posts, acked>>

SaveFinal(d) ==
    /\ pc[d] \in {"saveDone", "saveFailed"}
    /\ PersistLog(d)
    /\ Goto(d, "ended")
    /\ UNCHANGED <<url, mem, posts, acked>>

\* The process ends, by a crash or by a shutdown, which does not wait for these
\* goroutines.  Nothing starts them again.
Crash ==
    /\ "crash" \in Faults
    /\ \E d \in Deliveries : pc[d] \in Running
    /\ pc' = [d \in Deliveries |-> IF pc[d] \in Running THEN "dead" ELSE pc[d]]
    /\ UNCHANGED <<url, mem, row, posts, acked>>

Step(d) ==
    \/ CreateLog(d)
    \/ \E http \in {"2xx", "other"} : PostAnswered(d, http)
    \/ PostFailed(d)
    \/ PostImpossible(d)
    \/ SaveRetry(d)
    \/ SaveFinal(d)

Next ==
    \/ UpdateWebhookURL
    \/ \E d \in Deliveries : EnqueueWebhook(d) \/ Step(d)
    \/ Crash

Spec == Init /\ [][Next]_vars

\* A goroutine that can go on does: sleeps end, and the HTTP client gives up
\* after its timeout.
FairSpec == Spec /\ \A d \in Deliveries : WF_vars(Step(d))

-----------------------------------------------------------------------------
TypeOK ==
    /\ url \in BOOLEAN
    /\ pc \in [Deliveries -> PCs]
    /\ mem \in [Deliveries -> DeliveryLog]
    /\ row \in [Deliveries -> DeliveryLog \cup {None}]
    /\ posts \in [Deliveries -> 0 .. (Retries + 1)]
    /\ acked \in [Deliveries -> BOOLEAN]

\* The log never claims more than happened: DELIVERED only if the merchant
\* answered 2xx, FAILED only if every attempt was made and none was answered
\* so, and PENDING never counts an attempt that was not made, whatever inserts
\* and updates were lost.  "Every attempt" is Retries + 1 of them, the number that
\* the loop makes; AttemptsAtMostFive is what the documents say.
LogTellsTheTruth ==
    \A d \in Deliveries :
        row[d] # None =>
            /\ row[d].attempt <= mem[d].attempt
            /\ row[d].status = "DELIVERED" => acked[d] /\ ~row[d].error /\ ~row[d].nextRetry
            /\ row[d].status = "FAILED" =>
                  ~acked[d] /\ row[d].attempt = Retries + 1 /\ ~row[d].nextRetry
            /\ posts[d] <= mem[d].attempt

ForwardOnly ==
    \A d \in Deliveries :
        /\ acked[d] => posts'[d] = posts[d]
        /\ row[d] # None => /\ row'[d] # None
                            /\ row'[d].attempt >= row[d].attempt
                            /\ row[d].status # "PENDING" => row'[d] = row[d]

\* A merchant that acknowledged an event is not sent it again by the same
\* delivery, and the row of a delivery only moves forward to one final status.
DeliveryMovesForward == [][ForwardOnly]_vars

\* A started delivery comes to an end: acknowledged or given up after the last
\* interval, unless the process dies.
DeliverySettles ==
    \A d \in Deliveries : (pc[d] = "create") ~> (pc[d] \in {"ended", "dead"})

\* WEBHOOK_SPEC.md: "the system MUST send a POST request to the Merchant's
\* registered webhook_url".
EventIsPosted == \A d \in Deliveries : (pc[d] = "create") ~> (posts[d] > 0)

\* WEBHOOK_SPEC.md: "Attempts: Max 5 times."; schema.sql of the column that
\* NextAttempt counts up: "Current attempt number (max 5)".
AttemptsAtMostFive == \A d \in Deliveries : row[d] # None => row[d].attempt <= 5

=============================================================================
