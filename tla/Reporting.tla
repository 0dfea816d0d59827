------------------------------- MODULE Reporting -------------------------------
(***************************************************************************)
(* The dashboard's view of the payment tables, read while payments,        *)
(* refunds and top-ups commit: the statistics and the balance of           *)
(* internal/service/reporting_service.go, and the paged list of            *)
(* transactions, which a client walks page by page.  A page takes two      *)
(* queries, a count and a SELECT with LIMIT and OFFSET, in no transaction. *)
(***************************************************************************)
EXTENDS PaymentService, Sequences, SequencesExt

CONSTANTS
    Vnd,           \* the currency of GetWalletBalance
    Filters,       \* query parameters of the list, a subset of Filter
    Sizes,         \* values of page_size that a client asks for
    MaxSize,       \* 100 in the code
    DefaultSize,   \* 20 in the code
    ListMayFail    \* whether the queries of the list may fail in this instance

Filter == [status : TransactionStatus \cup {None}, type : TransactionType \cup {None},
           from : Nat \cup {None}, to : Nat \cup {None}]

\* Register opens a wallet in VND, and nothing opens another.
ASSUME ReportingAssumption ==
    /\ Vnd \in Currencies
    /\ Wallets \subseteq Merchants \X {Vnd}
    /\ Filters \subseteq Filter
    /\ Sizes \subseteq Int
    /\ DefaultSize \in 1 .. MaxSize
    /\ ListMayFail \in BOOLEAN

VARIABLES
    created,  \* transactions.created_at: id -> time
    walk      \* the client that reads the list, and what it has read

rvars == <<vars, created, walk>>

\* before: the rows that matched when the walk began.  seen: the rows it was
\* shown.  raced: rows came or went between the last count and its page.
\* left: a row has stopped to match since the walk began.  stop: what made the
\* client stop, a page that was not full, or the number of pages it was told.
NoWalk == [pc |-> "idle", merchant |-> None, filter |-> None, page |-> 0, size |-> 0,
           total |-> 0, before |-> {}, seen |-> {}, raced |-> FALSE, left |-> FALSE,
           stop |-> None]

RInit == Init /\ created = [id \in Requests |-> 0] /\ walk = NoWalk

-----------------------------------------------------------------------------
(* Queries. *)

\* The WHERE clause of List.
Matches(t, at, m, f) ==
    /\ t.merchant = m
    /\ f.status \in {None, t.status}
    /\ f.type \in {None, t.type}
    /\ f.from = None \/ at >= f.from
    /\ f.to = None \/ at <= f.to

Matching(m, f) == {id \in Requests : txns[id] # None /\ Matches(txns[id], created[id], m, f)}

\* ORDER BY created_at DESC, rows of one instant in any order.
Ordered(ids) == {q \in SetToSeqs(ids) : \A i, j \in DOMAIN q :
                    i < j => created[q[i]] >= created[q[j]]}

\* Slip: pages are counted from zero.
OffsetFromZero(page, size) == page * size
Offset(page, size) == (page - 1) * size

\* LIMIT and OFFSET.
PageOf(q, page, size) ==
    SubSeq(q, Offset(page, size) + 1, Min({Offset(page, size) + size, Len(q)}))

TotalPages(total, size) == (total + size - 1) \div size

\* What the handler makes of page_size.
NormalSize(size) == IF size < 1 \/ size > MaxSize THEN DefaultSize ELSE size

SumOf(ids) == SumFunctionOnSet(Amounts, ids)

\* Slip: refunded payments still count as revenue.
RevenueWithReversed(ids) == SumOf({id \in ids : txns[id].type = "PAYMENT"})
Revenue(ids) ==
    SumOf({id \in ids : txns[id].type = "PAYMENT" /\ txns[id].status = "SUCCESS"})

\* The query of GetStats, since the start of the period.
Figures(m, since) ==
    LET ids == {id \in Requests : /\ txns[id] # None
                                  /\ txns[id].merchant = m
                                  /\ created[id] >= since}
        Of(status) == {id \in ids : txns[id].status = status}
    IN  [total |-> Cardinality(ids), successful |-> Cardinality(Of("SUCCESS")),
         failed |-> Cardinality(Of("FAILED")), reversed |-> Cardinality(Of("REVERSED")),
         revenue |-> Revenue(ids),
         refunded |-> SumOf({id \in Of("SUCCESS") : txns[id].type = "REFUND"}),
         topup |-> SumOf({id \in Of("SUCCESS") : txns[id].type = "TOPUP"})]

\* GetStats: the sums are scanned into int64, and one that does not fit is an
\* error (None).
Stats(m, since) ==
    LET f == Figures(m, since)
    IN  IF {f.revenue, f.refunded, f.topup} \subseteq Int64 THEN f ELSE None

\* GetWalletBalance: the VND wallet, or PAY_004 (None).
WalletBalance(m) == IF <<m, Vnd>> \in Wallets THEN balance[<<m, Vnd>>] ELSE None

-----------------------------------------------------------------------------
(* Actions. *)

Latest == Max({created[id] : id \in Requests})

\* A step of the payment service.  created_at is read under the wallet's row
\* lock, so the rows of a merchant commit in its order; two of them may share
\* an instant.
ServiceStep ==
    /\ Next
    /\ \E tick \in {0, 1} :
         created' = [id \in Requests |->
            IF txns[id] = None /\ txns'[id] # None THEN Latest + tick ELSE created[id]]
    /\ LET now == IF walk.pc = "idle" THEN {} ELSE Matching(walk.merchant, walk.filter)
           next == IF walk.pc = "idle" THEN {}
                   ELSE {id \in Requests : txns'[id] # None /\
                           Matches(txns'[id], created'[id], walk.merchant, walk.filter)}
       IN  walk' = [walk EXCEPT !.raced = @ \/ (walk.pc = "page" /\ now # next),
                                !.left = @ \/ ~(now \subseteq next)]

\* The client asks for the first page.
StartWalk(m, f, size) ==
    /\ walk.pc = "idle"
    /\ walk' = [NoWalk EXCEPT !.pc = "count", !.merchant = m, !.filter = f, !.page = 1,
                              !.size = NormalSize(size), !.before = Matching(m, f)]
    /\ UNCHANGED <<vars, created>>

\* SELECT COUNT(*)
Count ==
    /\ walk.pc = "count"
    /\ walk' = [walk EXCEPT !.pc = "page", !.raced = FALSE,
                            !.total = Cardinality(Matching(walk.merchant, walk.filter))]
    /\ UNCHANGED <<vars, created>>

\* SELECT ... LIMIT OFFSET, and the answer.  The client goes on after a full
\* page, and may stop at the number of pages it was told.
FetchPage ==
    /\ walk.pc = "page"
    /\ \E q \in Ordered(Matching(walk.merchant, walk.filter)) :
         LET items == PageOf(q, walk.page, walk.size)
             read == [walk EXCEPT !.seen = @ \cup ToSet(items)]
         IN  \/ /\ Len(items) < walk.size
                /\ walk' = [read EXCEPT !.pc = "done", !.stop = "short"]
             \/ /\ walk.page >= TotalPages(walk.total, walk.size)
                /\ walk' = [read EXCEPT !.pc = "done", !.stop = "total"]
             \/ /\ Len(items) = walk.size
                /\ walk' = [read EXCEPT !.pc = "count", !.page = @ + 1]
    /\ UNCHANGED <<vars, created>>

\* Either query fails: the client gets SYS_001 and gives up.
ListFails ==
    /\ ListMayFail
    /\ walk.pc \in {"count", "page"}
    /\ walk' = NoWalk
    /\ UNCHANGED <<vars, created>>

RNext ==
    \/ ServiceStep
    \/ \E m \in Merchants, f \in Filters, size \in Sizes : StartWalk(m, f, size)
    \/ Count
    \/ FetchPage
    \/ ListFails

RSpec == RInit /\ [][RNext]_rvars

-----------------------------------------------------------------------------
\* The dashboard's figures explain the balance it shows: opening balance plus
\* top-ups and refunds, less revenue, less the refunded payments, which have left
\* the revenue and are in no figure but the count of reversed ones; and no more
\* was refunded than those payments took.  There are no figures when a sum does
\* not fit int64.
StatsReconcile ==
    \A m \in Merchants :
        LET s == Stats(m, 0)
            reversed == SumOf({id \in Rows : txns[id].merchant = m /\ txns[id].status = "REVERSED"})
        IN  s # None =>
            /\ s.total = s.successful + s.failed + s.reversed
            /\ s.refunded <= reversed
            /\ WalletBalance(m) # None =>
                 WalletBalance(m) = Wrap(OpeningBalance[<<m, Vnd>>] + s.topup + s.refunded
                                           - s.revenue - reversed)

\* A client that walks the list to its end has been shown every row that matched
\* all the time since it began, however many rows commit meanwhile; unless two
\* rows share an instant, a row of the filtered list dropped out (a payment was
\* reversed), or it trusted a number of pages that was out of date when its last
\* page was read.
NothingMissed ==
    walk.pc = "done" =>
        \A id \in walk.before \ walk.seen :
            \/ walk.left
            \/ walk.stop = "total" /\ walk.raced
            \/ \E o \in Rows \ {id} : created[o] = created[id]

===============================================================================
