---------------------------- MODULE ReportingProofs ----------------------------
(***************************************************************************)
(* Proofs about Reporting, for any number of rows, merchants, pages and    *)
(* filters.  The statistics split a merchant's rows into top-ups, refunds, *)
(* payments that stand and payments that were refunded; the sums over the  *)
(* four parts add up to the balance.  A walk of the list cannot pass a row *)
(* it has not shown: rows that commit meanwhile only push it further down  *)
(* the list (NotPassed), and its place there is the number of newer rows   *)
(* (Rank), so it is on the next page or on a later one.                    *)
(***************************************************************************)
EXTENDS Reporting, PaymentServiceProofs

-----------------------------------------------------------------------------
(* Statistics. *)

\* A row is booked on a wallet of its merchant.
RowsOwned == \A id \in Rows : txns[id].wallet[1] = txns[id].merchant

\* A payment and a top-up name the merchant's wallet, a refund that of a payment of
\* the same merchant.
LEMMA OwnedStep ==
  ASSUME IInv, RowsOwned, [Next]_vars
  PROVE  RowsOwned'
  <1> SUFFICES ASSUME NEW id \in Rows' PROVE txns'[id].wallet[1] = txns'[id].merchant
    BY DEF RowsOwned
  <1>1. CASE id \in Rows
    BY <1>1, RowsKept DEF RowsOwned
  <1>2. CASE id \notin Rows
    <2>1. PICK r \in Requests : Commit(r)
      BY <1>2, TablesStep DEF TablesKept, Rows
    <2>2. id = r /\ txns'[id] = NewTransaction(r)
      BY <1>2, <2>1, CommitFacts DEF Rows, OfType
    <2>3. WalletOf(r)[1] = req[r].merchant
      <3>1. CASE Op(r) = "refund"
        BY <2>1, <3>1, CommitFacts DEF RowsOwned, WalletOf, OfType
      <3>2. CASE Op(r) # "refund"
        BY <3>2 DEF WalletOf
      <3> QED
        BY <3>1, <3>2
    <2> QED
      BY <2>2, <2>3 DEF NewTransaction
  <1> QED
    BY <1>1, <1>2

LEMMA OwnedInvariance == Spec => []RowsOwned
  <1>1. Init => RowsOwned
    BY DEF Init, RowsOwned, Rows
  <1>2. IInv /\ RowsOwned /\ [Next]_vars => RowsOwned'
    BY OwnedStep
  <1> QED
    BY <1>1, <1>2, Invariance, PTL DEF Spec

\* The rows of a merchant are those of its VND wallet.
LEMMA MerchantRows ==
  ASSUME IInv, RowsOwned, NEW m
  PROVE  {id \in Rows : txns[id].merchant = m} = BookedOn(<<m, Vnd>>)
  <1>1. \A id \in Rows : txns[id].wallet \in Wallets
    BY DEF IInv, TypeOK, Rows, Transaction
  <1>2. \A id \in Rows : txns[id].wallet = <<txns[id].merchant, Vnd>>
    BY <1>1, ReportingAssumption DEF RowsOwned
  <1> QED
    BY <1>2 DEF BookedOn

\* The figures of the statistics are sums and counts of the parts of the wallet's rows.
LEMMA StatsFigures ==
  ASSUME IInv, RowsOwned, created \in [Requests -> Nat], NEW m, NEW w, w = <<m, Vnd>>
  PROVE  /\ Figures(m, 0).revenue = SumOf(Paid(w))
         /\ Figures(m, 0).refunded = SumOf(Refunds(w))
         /\ Figures(m, 0).topup = SumOf(ToppedUp(w))
         /\ Figures(m, 0).total = Cardinality(BookedOn(w))
         /\ Figures(m, 0).reversed = Cardinality(PaidBack(w))
         /\ Figures(m, 0).successful = Cardinality(BookedOn(w) \ PaidBack(w))
         /\ Figures(m, 0).failed = 0
         /\ {id \in Rows : txns[id].merchant = m /\ txns[id].status = "REVERSED"} = PaidBack(w)
  <1> DEFINE ids == {id \in Requests : /\ txns[id] # None
                                       /\ txns[id].merchant = m
                                       /\ created[id] >= 0}
  <1>1. ids = BookedOn(w)
    <2>1. ids = {id \in Rows : txns[id].merchant = m}
      BY DEF Rows
    <2> QED
      BY <2>1, MerchantRows
  <1>2. \A id \in BookedOn(w) : /\ txns[id].status \in {"SUCCESS", "REVERSED"}
                                /\ txns[id].status = "REVERSED" => txns[id].type = "PAYMENT"
    BY DEF IInv, RowsWellFormed, BookedOn
  <1> DEFINE With(status) == {id \in ids : txns[id].status = status}
             paid == {id \in ids : txns[id].type = "PAYMENT" /\ txns[id].status = "SUCCESS"}
             refunds == {id \in With("SUCCESS") : txns[id].type = "REFUND"}
             topups == {id \in With("SUCCESS") : txns[id].type = "TOPUP"}
  <1>3. Figures(m, 0) =
          [total |-> Cardinality(ids), successful |-> Cardinality(With("SUCCESS")),
           failed |-> Cardinality(With("FAILED")), reversed |-> Cardinality(With("REVERSED")),
           revenue |-> SumOf(paid), refunded |-> SumOf(refunds), topup |-> SumOf(topups)]
    BY DEF Figures, Revenue
  <1> HIDE DEF ids
  <1>4. paid = Paid(w)
    BY <1>1 DEF Paid
  <1>5. refunds = Refunds(w)
    BY <1>1, <1>2 DEF Refunds
  <1>6. topups = ToppedUp(w)
    BY <1>1, <1>2 DEF ToppedUp
  <1>7. With("SUCCESS") = BookedOn(w) \ PaidBack(w)
    BY <1>1, <1>2 DEF PaidBack
  <1>8. With("FAILED") = {}
    BY <1>1, <1>2
  <1>9. With("REVERSED") = PaidBack(w)
    BY <1>1 DEF PaidBack
  <1>10. {id \in Rows : txns[id].merchant = m /\ txns[id].status = "REVERSED"} = PaidBack(w)
    BY MerchantRows DEF PaidBack
  <1> HIDE DEF With, paid, refunds, topups
  <1>11. /\ Figures(m, 0).total = Cardinality(ids) /\ Figures(m, 0).revenue = SumOf(paid)
         /\ Figures(m, 0).refunded = SumOf(refunds) /\ Figures(m, 0).topup = SumOf(topups)
         /\ Figures(m, 0).successful = Cardinality(With("SUCCESS"))
         /\ Figures(m, 0).failed = Cardinality(With("FAILED"))
         /\ Figures(m, 0).reversed = Cardinality(With("REVERSED"))
    BY <1>3
  <1>12. Cardinality(With("FAILED")) = 0
    BY <1>8, FS_EmptySet
  <1> QED
    BY <1>1, <1>4, <1>5, <1>6, <1>7, <1>9, <1>10, <1>11, <1>12

LEMMA StatsHold ==
  ASSUME IInv, FinitelyMany, BalanceIsLedgerSum, RowsOwned, created \in [Requests -> Nat]
  PROVE  StatsReconcile
  <1> SUFFICES ASSUME NEW m \in Merchants, Stats(m, 0) # None
               PROVE  LET s == Stats(m, 0)
                          reversed == SumOf({id \in Rows : txns[id].merchant = m
                                                           /\ txns[id].status = "REVERSED"})
                      IN  /\ s.total = s.successful + s.failed + s.reversed
                          /\ s.refunded <= reversed
                          /\ WalletBalance(m) # None =>
                               WalletBalance(m) = Wrap(OpeningBalance[<<m, Vnd>>] + s.topup
                                                         + s.refunded - s.revenue - reversed)
    BY DEF StatsReconcile
  <1> DEFINE s == Stats(m, 0)
             gone == {id \in Rows : txns[id].merchant = m /\ txns[id].status = "REVERSED"}
  <1>1. PICK w : w = <<m, Vnd>>
    OBVIOUS
  <1>2. /\ s.revenue = SumOf(Paid(w)) /\ s.refunded = SumOf(Refunds(w))
        /\ s.topup = SumOf(ToppedUp(w)) /\ s.total = Cardinality(BookedOn(w))
        /\ s.reversed = Cardinality(PaidBack(w)) /\ s.failed = 0
        /\ s.successful = Cardinality(BookedOn(w) \ PaidBack(w))
        /\ gone = PaidBack(w)
    <2>1. Stats(m, 0) = Figures(m, 0)
      BY DEF Stats
    <2> QED
      BY <1>1, <2>1, StatsFigures
  <1> HIDE DEF s, gone
  <1>3. s.total = s.successful + s.failed + s.reversed
    <2>1. /\ IsFiniteSet(BookedOn(w)) /\ IsFiniteSet(PaidBack(w))
          /\ PaidBack(w) \subseteq BookedOn(w)
      BY WalletRows DEF PaidBack
    <2>2. /\ Cardinality(BookedOn(w) \ PaidBack(w)) =
               Cardinality(BookedOn(w)) - Cardinality(BookedOn(w) \cap PaidBack(w))
          /\ Cardinality(BookedOn(w)) \in Nat /\ Cardinality(PaidBack(w)) \in Nat
          /\ BookedOn(w) \cap PaidBack(w) = PaidBack(w)
      BY <2>1, FS_Difference, FS_CardinalityType
    <2>3. Cardinality(BookedOn(w)) =
            Cardinality(BookedOn(w) \ PaidBack(w)) + 0 + Cardinality(PaidBack(w))
      BY <2>2
    <2> QED
      BY <1>2, <2>3
  <1>4. s.refunded <= SumOf(PaidBack(w))
    BY <1>2, RefundsCovered DEF SumOf
  <1>5. ASSUME WalletBalance(m) # None
        PROVE  WalletBalance(m) = Wrap(OpeningBalance[w] + s.topup + s.refunded
                                         - s.revenue - SumOf(PaidBack(w)))
    <2>1. w \in Wallets /\ WalletBalance(m) = balance[w]
      BY <1>1, <1>5 DEF WalletBalance
    <2>2. /\ SumOf(ToppedUp(w)) \in Int /\ SumOf(Refunds(w)) \in Int
          /\ SumOf(Paid(w)) \in Int /\ SumOf(PaidBack(w)) \in Int
          /\ SumFunctionOnSet(Effects, BookedOn(w)) =
               SumOf(ToppedUp(w)) + SumOf(Refunds(w)) - SumOf(Paid(w)) - SumOf(PaidBack(w))
      BY SumOfParts DEF SumOf
    <2>3. OpeningBalance[w] \in Int
      BY <2>1, ConstantsAssumption
    <2>4. OpeningBalance[w] + SumFunctionOnSet(Effects, BookedOn(w)) =
            OpeningBalance[w] + s.topup + s.refunded - s.revenue - SumOf(PaidBack(w))
      BY <1>2, <2>2, <2>3
    <2>5. balance[w] = Wrap(OpeningBalance[w] + SumFunctionOnSet(Effects, BookedOn(w)))
      BY <2>1 DEF BalanceIsLedgerSum
    <2> QED
      BY <2>1, <2>4, <2>5
  <1> QED
    <2>1. /\ s.refunded <= SumOf(gone)
          /\ WalletBalance(m) # None =>
               WalletBalance(m) = Wrap(OpeningBalance[<<m, Vnd>>] + s.topup + s.refunded
                                         - s.revenue - SumOf(gone))
      BY <1>1, <1>2, <1>4, <1>5
    <2> QED
      BY <1>3, <2>1 DEF s, gone

-----------------------------------------------------------------------------
(* The list of transactions. *)

\* An ordering of a finite set names each of its elements at one place.
LEMMA OrderingFacts ==
  ASSUME NEW S, IsFiniteSet(S), NEW q \in SetToSeqs(S)
  PROVE  /\ q \in Seq(S) /\ Len(q) = Cardinality(S) /\ Len(q) \in Nat
         /\ \A i, j \in 1 .. Len(q) : q[i] = q[j] => i = j
         /\ \A x \in S : \E j \in 1 .. Len(q) : q[j] = x
  <1> DEFINE D == 1 .. Cardinality(S)
  <1>1. Cardinality(S) \in Nat
    BY FS_CardinalityType
  <1>2. q \in [D -> S] /\ \A i, j \in D : i # j => q[i] # q[j]
    BY DEF SetToSeqs
  <1>3. q \in Seq(S) /\ Len(q) = Cardinality(S)
    BY <1>1, <1>2
  <1>4. q \in Injection(D, S)
    BY <1>2 DEF Injection, IsInjective
  <1>5. Cardinality(D) = Cardinality(S)
    BY <1>1, FS_Interval
  <1>6. q \in Surjection(D, S)
    BY <1>4, <1>5, FS_Injection
  <1>7. \A x \in S : \E j \in D : q[j] = x
    BY <1>6 DEF Surjection
  <1> QED
    BY <1>1, <1>2, <1>3, <1>7

\* The rows of a set that are newer than a row.
Above(S, id) == {o \in S : created[o] > created[id]}

\* The place of a row with an instant of its own is the number of newer rows, plus 1.
LEMMA Rank ==
  ASSUME NEW S, IsFiniteSet(S), \A o \in S : created[o] \in Nat,
         NEW q \in Ordered(S), NEW id \in S,
         \A o \in S \ {id} : created[o] # created[id]
  PROVE  \E j \in 1 .. Len(q) : /\ q[j] = id
                                /\ Cardinality(Above(S, id)) = j - 1
  <1> DEFINE Newer == {o \in S : created[o] > created[id]}
  <1>1. q \in SetToSeqs(S)
    BY DEF Ordered
  <1>2. /\ q \in Seq(S) /\ Len(q) \in Nat
        /\ \A i, j \in 1 .. Len(q) : q[i] = q[j] => i = j
        /\ \A x \in S : \E j \in 1 .. Len(q) : q[j] = x
    BY <1>1, OrderingFacts
  <1>3. DOMAIN q = 1 .. Len(q) /\ \A i \in 1 .. Len(q) : q[i] \in S
    BY <1>2
  <1>4. \A i, j \in 1 .. Len(q) : i < j => created[q[i]] >= created[q[j]]
    BY <1>3 DEF Ordered
  <1>5. PICK j \in 1 .. Len(q) : q[j] = id
    BY <1>2
  <1>6. j - 1 \in Nat /\ Len(q) \in Nat
    BY <1>2
  <1>7. \A i \in 1 .. (j - 1) : i \in 1 .. Len(q) /\ q[i] \in Newer
    <2> SUFFICES ASSUME NEW i \in 1 .. (j - 1) PROVE i \in 1 .. Len(q) /\ q[i] \in Newer
      OBVIOUS
    <2>1. i \in 1 .. Len(q) /\ i < j /\ i # j
      BY <1>2
    <2>2. created[q[i]] >= created[id] /\ q[i] # id /\ q[i] \in S
      BY <1>2, <1>3, <1>4, <1>5, <2>1
    <2>3. created[q[i]] # created[id] /\ created[q[i]] \in Nat /\ created[id] \in Nat
      BY <2>2
    <2> QED
      BY <2>1, <2>2, <2>3
  <1>8. \A o \in Newer : \E i \in 1 .. (j - 1) : q[i] = o
    <2> SUFFICES ASSUME NEW o \in Newer PROVE \E i \in 1 .. (j - 1) : q[i] = o
      OBVIOUS
    <2>1. PICK i \in 1 .. Len(q) : q[i] = o
      BY <1>2
    <2>2. created[o] \in Nat /\ created[id] \in Nat /\ created[o] > created[id]
      OBVIOUS
    <2>3. ~(j < i) /\ i # j
      BY <1>4, <1>5, <2>1, <2>2
    <2> QED
      BY <2>1, <2>3
  <1> HIDE DEF Newer
  <1> DEFINE g == [i \in 1 .. (j - 1) |-> q[i]]
  <1>9. g \in Bijection(1 .. (j - 1), Newer)
    <2>1. g \in [1 .. (j - 1) -> Newer]
      BY <1>7
    <2>2. \A a, b \in 1 .. (j - 1) : g[a] = g[b] => a = b
      BY <1>2, <1>7
    <2>3. \A o \in Newer : \E i \in 1 .. (j - 1) : g[i] = o
      BY <1>8
    <2> HIDE DEF g
    <2> QED
      BY <2>1, <2>2, <2>3 DEF Bijection, Injection, Surjection, IsInjective
  <1>10. ExistsBijection(1 .. (j - 1), Newer)
    BY <1>9 DEF ExistsBijection
  <1>11. IsFiniteSet(1 .. (j - 1)) /\ Cardinality(1 .. (j - 1)) = j - 1
    <2>1. PICK k \in Int : k = j - 1 /\ k >= 0
      BY <1>6
    <2>2. IsFiniteSet(1 .. k) /\ Cardinality(1 .. k) = IF 1 > k THEN 0 ELSE k - 1 + 1
      BY <2>1, FS_Interval
    <2> QED
      BY <2>1, <2>2
  <1>12. Cardinality(Newer) = j - 1
    BY <1>10, <1>11, FS_Bijection
  <1> QED
    BY <1>5, <1>12 DEF Newer, Above

\* A page is the part of the ordering between its offsets.
LEMMA PageFacts ==
  ASSUME NEW S, NEW q \in Seq(S), NEW page \in Nat, page >= 1, NEW size \in Nat, size >= 1
  PROVE  /\ Offset(page, size) \in Nat
         /\ ToSet(PageOf(q, page, size)) \subseteq S
         /\ \A j \in 1 .. Len(q) :
              /\ j > Offset(page, size) /\ j <= Offset(page, size) + size =>
                    q[j] \in ToSet(PageOf(q, page, size))
              /\ j > Offset(page, size) + size => Len(PageOf(q, page, size)) = size
  <1>1. PICK off \in Nat : off = Offset(page, size)
    <2>1. page - 1 \in Nat
      OBVIOUS
    <2>2. \A a, b \in Nat : a * b \in Nat
      OBVIOUS
    <2> QED
      BY <2>1, <2>2 DEF Offset
  <1>2. PICK n \in Nat : n = Len(q)
    OBVIOUS
  <1>3. Min({off + size, n}) = IF off + size <= n THEN off + size ELSE n
    <2>1. \A a, b \in Int : a <= b => Min({a, b}) = a /\ Min({b, a}) = a
      BY DEF Min
    <2> QED
      BY <2>1
  <1>4. PICK top \in Nat : top = Min({off + size, n})
    BY <1>3
  <1>5. PageOf(q, page, size) = SubSeq(q, off + 1, top)
    BY <1>1, <1>2, <1>4 DEF PageOf
  <1>6. top <= n /\ top <= off + size /\ (top = off + size \/ top = n)
    BY <1>3, <1>4
  <1>7. ASSUME NEW j \in 1 .. n, j > off, j <= off + size
        PROVE  q[j] \in ToSet(PageOf(q, page, size))
    <2>1. j - off \in 1 .. Len(SubSeq(q, off + 1, top))
      BY <1>2, <1>6, <1>7
    <2>2. SubSeq(q, off + 1, top)[j - off] = q[j]
      BY <1>2, <1>6, <1>7
    <2>3. DOMAIN SubSeq(q, off + 1, top) = 1 .. Len(SubSeq(q, off + 1, top))
      BY <1>2, <1>6, <1>7
    <2> QED
      BY <1>5, <2>1, <2>2, <2>3 DEF ToSet
  <1>8. ASSUME NEW j \in 1 .. n, j > off + size
        PROVE  Len(PageOf(q, page, size)) = size
    <2>1. top = off + size
      BY <1>6, <1>8
    <2>2. Len(SubSeq(q, off + 1, top)) = top - off
      BY <1>2, <1>6, <2>1
    <2> QED
      BY <1>5, <2>1, <2>2
  <1>9. ToSet(PageOf(q, page, size)) \subseteq S
    <2>1. \A i \in DOMAIN SubSeq(q, off + 1, top) : SubSeq(q, off + 1, top)[i] \in S
      BY <1>2, <1>6
    <2> QED
      BY <1>5, <2>1 DEF ToSet
  <1> QED
    BY <1>1, <1>2, <1>7, <1>8, <1>9

\* The number of pages is at least that of a page with rows after it.
LEMMA PagesRoundUp ==
  ASSUME NEW total \in Nat, NEW size \in Nat, size >= 1, NEW page \in Nat, total > page * size
  PROVE  TotalPages(total, size) > page /\ TotalPages(total, size) \in Int
  <1>1. PICK x \in Nat : x = total + size - 1
    OBVIOUS
  <1>2. PICK r \in 0 .. (size - 1) : r = x % size
    OBVIOUS
  <1>3. PICK q \in Int : x = size * q + r
    <2>1. size > 0 /\ x \in Int
      OBVIOUS
    <2>2. Congruent(x, x % size, size)
      BY <2>1, RemainderCongruent
    <2> QED
      BY <1>2, <2>2 DEF Congruent
  <1>4. x \div size = q
    BY <1>3, DivUnique
  <1>5. PICK p \in Nat : p = page * size
    OBVIOUS
  <1>6. x >= p + size
    BY <1>1, <1>5
  <1>7. q > page
    <2>1. CASE q <= page
      <3>1. size * q <= size * page
        BY <2>1
      <3>2. size * page = p
        BY <1>5
      <3>3. PICK z \in Int : z = size * q
        OBVIOUS
      <3> QED
        BY <1>3, <1>6, <3>1, <3>2, <3>3
    <2> QED
      BY <2>1
  <1> QED
    BY <1>1, <1>4, <1>7 DEF TotalPages

\* Times are natural numbers, and there is a latest one.
TimesBounded ==
    /\ created \in [Requests -> Nat]
    /\ \E n \in Nat : \A id \in Requests : created[id] <= n

WalkTyped ==
    /\ walk \in [pc : {"idle", "count", "page", "done"}, merchant : Merchants \cup {None},
                 filter : Filters \cup {None}, page : Nat, size : Nat, total : Nat,
                 before : SUBSET Requests, seen : SUBSET Requests, raced : BOOLEAN,
                 left : BOOLEAN, stop : {None, "short", "total"}]
    /\ walk.pc # "idle" => walk.page >= 1 /\ walk.size >= 1
    /\ walk.before \subseteq Rows

\* The rows of the list that is walked, those above a row, and whether its place is
\* certain.
Walked == Matching(walk.merchant, walk.filter)
Newer(id) == Above(Walked, id)
Alone(id) == \A o \in Rows \ {id} : created[o] # created[id]

\* The rows that were there when the walk began are still there,
BeforeKept == walk.pc \in {"count", "page"} /\ ~walk.left => walk.before \subseteq Walked

\* and those not yet shown are not above the next page.
NotPassed ==
    walk.pc \in {"count", "page"} /\ ~walk.left =>
        \A id \in walk.before \ walk.seen :
            Alone(id) => Cardinality(Newer(id)) >= Offset(walk.page, walk.size)

\* The total of the answer is the number of rows, or has been overtaken.
TotalCounted == walk.pc = "page" /\ ~walk.raced => walk.total = Cardinality(Walked)

RInv ==
    /\ TimesBounded
    /\ WalkTyped
    /\ BeforeKept
    /\ NotPassed
    /\ TotalCounted
    /\ NothingMissed

\* A bounded set of times has a latest one.
LEMMA LatestExists ==
  ASSUME TimesBounded, Requests # {}
  PROVE  Latest \in Nat /\ \A id \in Requests : created[id] <= Latest
  <1> DEFINE C == {created[id] : id \in Requests}
             B == {n \in Nat : \A x \in C : x <= n}
  <1>1. C \subseteq Nat /\ C # {}
    BY DEF TimesBounded
  <1>2. B # {}
    BY DEF TimesBounded
  <1>3. B \subseteq Nat
    OBVIOUS
  <1>4. PICK n \in B : \A k \in B : n <= k
    <2> HIDE DEF B
    <2> QED
      BY <1>2, <1>3, LeastNatural
  <1>5. n \in Nat /\ \A x \in C : x <= n
    OBVIOUS
  <1> HIDE DEF C
  <1>6. n \in C
    <2> SUFFICES ASSUME n \notin C PROVE FALSE
      OBVIOUS
    <2>1. \A x \in C : x \in Nat /\ x <= n - 1
      BY <1>1, <1>5
    <2>2. PICK x \in C : x \in Nat /\ x <= n - 1
      BY <1>1, <2>1
    <2>3. n - 1 \in Nat
      BY <1>5, <2>2
    <2>4. n - 1 \in B
      BY <2>1, <2>3
    <2> QED
      BY <1>4, <1>5, <2>4
  <1>7. Max(C) \in C /\ \A x \in C : Max(C) >= x
    BY <1>1, <1>5, <1>6 DEF Max
  <1>8. Latest = Max(C)
    BY DEF Latest, C
  <1> QED
    BY <1>1, <1>7, <1>8 DEF C

\* What a step of the payment service does to times and rows.
LEMMA TimesKept ==
  ASSUME IInv, IInv', TimesBounded, ServiceStep
  PROVE  /\ TimesBounded'
         /\ Rows \subseteq Rows'
         /\ \A id \in Rows : created'[id] = created[id]
  <1>1. Rows \subseteq Rows'
    <2>1. OnlyReversals
      BY HistoryStep DEF ServiceStep
    <2> QED
      BY <2>1, EffectsKept DEF IInv
  <1>2. PICK tick \in {0, 1} :
          created' = [id \in Requests |->
             IF txns[id] = None /\ txns'[id] # None THEN Latest + tick ELSE created[id]]
    BY DEF ServiceStep
  <1>3. \A id \in Rows : created'[id] = created[id]
    BY <1>2 DEF Rows
  <1>4. TimesBounded'
    <2>1. CASE Requests = {}
      BY <1>2, <2>1 DEF TimesBounded
    <2>2. CASE Requests # {}
      <3>1. PICK k \in Nat : k = Latest /\ \A id \in Requests : created[id] <= k
        BY <2>2, LatestExists
      <3>2. \A id \in Requests : created'[id] \in Nat /\ created'[id] <= k + 1
        BY <1>2, <3>1 DEF TimesBounded
      <3>3. created' \in [Requests -> Nat]
        BY <1>2, <3>2
      <3> QED
        BY <3>1, <3>2, <3>3 DEF TimesBounded
    <2> QED
      BY <2>1, <2>2
  <1> QED
    BY <1>1, <1>3, <1>4

\* What it does to the walk.
LEMMA WalkKept ==
  ASSUME WalkTyped, ServiceStep, Rows \subseteq Rows'
  PROVE  /\ WalkTyped'
         /\ walk'.pc = walk.pc /\ walk'.page = walk.page /\ walk'.size = walk.size
         /\ walk'.total = walk.total /\ walk'.before = walk.before /\ walk'.seen = walk.seen
         /\ walk'.stop = walk.stop
         /\ walk.left => walk'.left
         /\ walk.raced => walk'.raced
         /\ walk.pc # "page" => walk'.raced = walk.raced
         /\ walk.pc # "idle" /\ ~walk'.left => Walked \subseteq Walked'
         /\ walk.pc = "page" /\ ~walk'.raced => Walked' = Walked
  <1> DEFINE now == IF walk.pc = "idle" THEN {} ELSE Walked
             next == IF walk.pc = "idle" THEN {}
                     ELSE {id \in Requests : txns'[id] # None /\
                             Matches(txns'[id], created'[id], walk.merchant, walk.filter)}
             gone == ~(now \subseteq next)
             moved == walk.pc = "page" /\ now # next
  <1>1. walk' = [walk EXCEPT !.raced = @ \/ moved, !.left = @ \/ gone]
    BY DEF ServiceStep, Walked
  <1>2. gone \in BOOLEAN /\ moved \in BOOLEAN
    OBVIOUS
  <1>3. walk.pc # "idle" => now = Walked
    OBVIOUS
  <1>4. walk.pc # "idle" /\ walk'.merchant = walk.merchant /\ walk'.filter = walk.filter
          => next = Walked'
    BY DEF Walked, Matching
  <1>5. moved => walk.pc = "page"
    OBVIOUS
  <1>6. ~gone => now \subseteq next
    OBVIOUS
  <1>7. walk.pc = "page" /\ ~moved => now = next
    OBVIOUS
  <1> HIDE DEF now, next, gone, moved
  <1>8. /\ walk'.pc = walk.pc /\ walk'.page = walk.page /\ walk'.size = walk.size
        /\ walk'.total = walk.total /\ walk'.before = walk.before /\ walk'.seen = walk.seen
        /\ walk'.stop = walk.stop /\ walk'.merchant = walk.merchant
        /\ walk'.filter = walk.filter
        /\ walk'.raced = (walk.raced \/ moved) /\ walk'.left = (walk.left \/ gone)
    BY <1>1, <1>2 DEF WalkTyped
  <1>9. WalkTyped'
    BY <1>1, <1>2, <1>8 DEF WalkTyped
  <1>10. walk.pc # "page" => walk'.raced = walk.raced
    BY <1>5, <1>8 DEF WalkTyped
  <1>11. walk.left => walk'.left
    BY <1>8
  <1>12. walk.raced => walk'.raced
    BY <1>8
  <1>13. ASSUME walk.pc # "idle", ~walk'.left PROVE Walked \subseteq Walked'
    BY <1>3, <1>4, <1>6, <1>8, <1>13
  <1>14. ASSUME walk.pc = "page", ~walk'.raced PROVE Walked' = Walked
    BY <1>3, <1>4, <1>7, <1>8, <1>14
  <1> QED
    BY <1>8, <1>9, <1>10, <1>11, <1>12, <1>13, <1>14

\* A row that is left to show is at its place in the ordering, at the next page or
\* after it.
LEMMA PlaceOnList ==
  ASSUME IInv, FinitelyMany, TimesBounded, WalkTyped, BeforeKept, NotPassed,
         walk.pc = "page", ~walk.left, NEW q \in Ordered(Walked),
         NEW id \in walk.before \ walk.seen, Alone(id)
  PROVE  \E j \in 1 .. Len(q) :
            /\ q[j] = id /\ Cardinality(Newer(id)) = j - 1
            /\ j > Offset(walk.page, walk.size)
  <1>1. Walked \subseteq Rows /\ id \in Walked
    BY DEF Walked, Matching, Rows, BeforeKept
  <1>2. IsFiniteSet(Walked)
    BY <1>1, FS_Subset DEF FinitelyMany
  <1>3. /\ \A o \in Walked : created[o] \in Nat
        /\ \A o \in Walked \ {id} : created[o] # created[id]
    BY <1>1 DEF TimesBounded, Rows, Alone
  <1>4. PICK j \in 1 .. Len(q) :
            q[j] = id /\ Cardinality(Above(Walked, id)) = j - 1
    <2>1. PICK S : S = Walked
      OBVIOUS
    <2>2. /\ id \in S /\ IsFiniteSet(S) /\ q \in Ordered(S)
          /\ \A o \in S : created[o] \in Nat
          /\ \A o \in S \ {id} : created[o] # created[id]
      BY <1>1, <1>2, <1>3, <2>1
    <2>3. \E j \in 1 .. Len(q) :
             q[j] = id /\ Cardinality(Above(S, id)) = j - 1
      BY <2>2, Rank
    <2> QED
      BY <2>1, <2>3
  <1>5. Cardinality(Newer(id)) = j - 1
    BY <1>4 DEF Newer
  <1>6. Cardinality(Newer(id)) >= Offset(walk.page, walk.size)
    BY DEF NotPassed
  <1>7. Offset(walk.page, walk.size) \in Int
    BY DEF Offset, WalkTyped
  <1> QED
    BY <1>4, <1>5, <1>6, <1>7

\* The list while the service takes a step.
LEMMA ServiceKeeps ==
  ASSUME IInv, IInv', FinitelyMany', RInv, ServiceStep
  PROVE  RInv'
  <1>1. /\ TimesBounded' /\ Rows \subseteq Rows'
        /\ \A id \in Rows : created'[id] = created[id]
    BY TimesKept DEF RInv
  <1>2. /\ WalkTyped'
        /\ walk'.pc = walk.pc /\ walk'.page = walk.page /\ walk'.size = walk.size
        /\ walk'.total = walk.total /\ walk'.before = walk.before /\ walk'.seen = walk.seen
        /\ walk'.stop = walk.stop
        /\ walk.left => walk'.left
        /\ walk.raced => walk'.raced
        /\ walk.pc # "page" => walk'.raced = walk.raced
        /\ walk.pc # "idle" /\ ~walk'.left => Walked \subseteq Walked'
        /\ walk.pc = "page" /\ ~walk'.raced => Walked' = Walked
    BY <1>1, WalkKept DEF RInv
  <1>3. walk.before \subseteq Rows
    BY DEF RInv, WalkTyped
  <1>4. BeforeKept'
    BY <1>2 DEF RInv, BeforeKept
  <1>5. NotPassed'
    <2> SUFFICES ASSUME walk.pc \in {"count", "page"}, ~walk'.left,
                        NEW id \in walk.before \ walk.seen, Alone(id)'
                 PROVE  Cardinality(Newer(id)') >= Offset(walk.page, walk.size)
      BY <1>2 DEF NotPassed, Newer, Offset
    <2>1. Walked \subseteq Walked'
      BY <1>2
    <2>2. Alone(id)
      BY <1>1, <1>3 DEF Alone
    <2>3. Cardinality(Newer(id)) >= Offset(walk.page, walk.size)
      BY <1>2, <2>2 DEF RInv, NotPassed
    <2>4. Newer(id) \subseteq Newer(id)'
      <3>1. Walked \subseteq Rows
        BY DEF Walked, Matching, Rows
      <3> QED
        BY <1>1, <1>3, <2>1, <3>1 DEF Newer, Above
    <2>5. Newer(id)' \subseteq Rows'
      BY DEF Newer, Above, Walked, Matching, Rows
    <2>6. IsFiniteSet(Newer(id)') /\ IsFiniteSet(Newer(id))
      BY <2>4, <2>5, FS_Subset DEF FinitelyMany
    <2>7. Cardinality(Newer(id)) <= Cardinality(Newer(id)')
      BY <2>4, <2>6, FS_Subset
    <2>8. Cardinality(Newer(id)) \in Int /\ Cardinality(Newer(id)') \in Int
      BY <2>6, FS_CardinalityType
    <2>9. Offset(walk.page, walk.size) \in Int
      BY DEF RInv, WalkTyped, Offset
    <2> QED
      BY <2>3, <2>7, <2>8, <2>9
  <1>6. TotalCounted'
    BY <1>2 DEF RInv, TotalCounted
  <1>7. NothingMissed'
    <2> SUFFICES ASSUME walk.pc = "done", NEW id \in walk.before \ walk.seen, ~walk'.left,
                        ~(walk.stop = "total" /\ walk.raced)
                 PROVE  \E o \in Rows' \ {id} : created'[o] = created'[id]
      BY <1>2 DEF NothingMissed
    <2>1. PICK o \in Rows \ {id} : created[o] = created[id]
      BY <1>2 DEF RInv, NothingMissed
    <2> QED
      BY <1>1, <1>3, <2>1
  <1> QED
    BY <1>1, <1>2, <1>4, <1>5, <1>6, <1>7 DEF RInv

\* The client asks, and the rows are counted.
LEMMA StartKeeps ==
  ASSUME IInv, FinitelyMany, RInv,
         NEW m \in Merchants, NEW f \in Filters, NEW size \in Sizes, StartWalk(m, f, size)
  PROVE  RInv'
  <1>1. NormalSize(size) \in Nat /\ NormalSize(size) >= 1
    BY ReportingAssumption DEF NormalSize
  <1>2. Matching(m, f) \subseteq Rows /\ Rows \subseteq Requests
    BY DEF Matching, Rows
  <1>3. walk' = [pc |-> "count", merchant |-> m, filter |-> f, page |-> 1,
                 size |-> NormalSize(size), total |-> 0, before |-> Matching(m, f),
                 seen |-> {}, raced |-> FALSE, left |-> FALSE, stop |-> None]
    BY DEF StartWalk, NoWalk
  <1>4. txns' = txns /\ created' = created
    BY DEF StartWalk, vars
  <1>5. Rows' = Rows
    BY <1>4 DEF Rows
  <1>6. Walked' = Matching(m, f)
    BY <1>3, <1>4 DEF Walked, Matching
  <1>7. TimesBounded'
    BY <1>4 DEF RInv, TimesBounded
  <1>8. WalkTyped'
    BY <1>1, <1>2, <1>3, <1>5 DEF WalkTyped
  <1>9. BeforeKept'
    BY <1>3, <1>6 DEF BeforeKept
  <1>10. NotPassed'
    <2> SUFFICES ASSUME NEW id \in walk'.before
                 PROVE  Cardinality(Newer(id)') >= Offset(walk'.page, walk'.size)
      BY DEF NotPassed, Offset
    <2>1. Newer(id)' \subseteq Rows
      BY <1>2, <1>6 DEF Newer, Above
    <2>2. Cardinality(Newer(id)') \in Nat
      BY <2>1, FS_Subset, FS_CardinalityType DEF FinitelyMany
    <2>3. Offset(walk'.page, walk'.size) = 0
      BY <1>1, <1>3 DEF Offset
    <2> QED
      BY <2>2, <2>3
  <1> QED
    BY <1>3, <1>7, <1>8, <1>9, <1>10 DEF RInv, TotalCounted, NothingMissed

\* The queries of a walk change nothing else.
LEMMA CountKeeps ==
  ASSUME IInv, FinitelyMany, RInv, Count
  PROVE  RInv'
  <1>1. txns' = txns /\ created' = created
    BY DEF Count, vars
  <1>2. Rows' = Rows
    BY <1>1 DEF Rows
  <1>3. Walked \subseteq Rows
    BY DEF Walked, Matching, Rows
  <1>4. Cardinality(Walked) \in Nat
    BY <1>3, FS_Subset, FS_CardinalityType DEF FinitelyMany
  <1>5. walk.pc = "count" /\ walk' = [walk EXCEPT !.pc = "page", !.raced = FALSE,
                                                  !.total = Cardinality(Walked)]
    BY DEF Count, Walked
  <1>6. /\ walk'.pc = "page" /\ walk'.page = walk.page /\ walk'.size = walk.size
        /\ walk'.total = Cardinality(Walked) /\ walk'.before = walk.before
        /\ walk'.seen = walk.seen /\ walk'.left = walk.left
        /\ walk'.merchant = walk.merchant /\ walk'.filter = walk.filter
    BY <1>5 DEF RInv, WalkTyped
  <1>7. Walked' = Walked
    BY <1>1, <1>6 DEF Walked, Matching
  <1>8. \A id : Newer(id)' = Newer(id) /\ Alone(id)' = Alone(id)
    BY <1>1, <1>2, <1>7 DEF Newer, Above, Alone
  <1>9. TimesBounded'
    BY <1>1 DEF RInv, TimesBounded
  <1>10. WalkTyped'
    BY <1>2, <1>4, <1>5, <1>6 DEF RInv, WalkTyped
  <1>11. BeforeKept'
    BY <1>5, <1>6, <1>7 DEF RInv, BeforeKept
  <1>12. NotPassed'
    BY <1>5, <1>6, <1>8 DEF RInv, NotPassed, Offset
  <1> QED
    BY <1>6, <1>7, <1>9, <1>10, <1>11, <1>12 DEF RInv, TotalCounted, NothingMissed

\* A page is read: a row that was to be shown is on it, or after it.
LEMMA FetchKeeps ==
  ASSUME IInv, FinitelyMany, RInv, FetchPage
  PROVE  RInv'
  <1>1. txns' = txns /\ created' = created
    BY DEF FetchPage, vars
  <1>2. Rows' = Rows
    BY <1>1 DEF Rows
  <1>3. Walked \subseteq Rows
    BY DEF Walked, Matching, Rows
  <1>4. IsFiniteSet(Walked)
    BY <1>3, FS_Subset DEF FinitelyMany
  <1>5. PICK q \in Ordered(Walked) :
          LET items == PageOf(q, walk.page, walk.size)
              read == [walk EXCEPT !.seen = @ \cup ToSet(items)]
          IN  \/ /\ Len(items) < walk.size
                 /\ walk' = [read EXCEPT !.pc = "done", !.stop = "short"]
              \/ /\ walk.page >= TotalPages(walk.total, walk.size)
                 /\ walk' = [read EXCEPT !.pc = "done", !.stop = "total"]
              \/ /\ Len(items) = walk.size
                 /\ walk' = [read EXCEPT !.pc = "count", !.page = @ + 1]
    BY DEF FetchPage, Walked
  <1> DEFINE items == PageOf(q, walk.page, walk.size)
             shown == walk.seen \cup ToSet(items)
  <1>6. walk.pc = "page" /\ walk.page \in Nat /\ walk.page >= 1 /\ walk.size \in Nat
          /\ walk.size >= 1 /\ walk.total \in Nat
    BY DEF FetchPage, RInv, WalkTyped
  <1>7. q \in Seq(Walked) /\ Len(q) = Cardinality(Walked) /\ Len(q) \in Nat
    BY <1>4, OrderingFacts DEF Ordered
  <1>8. ToSet(items) \subseteq Requests
    <2>1. ToSet(items) \subseteq Walked
      BY <1>6, <1>7, PageFacts
    <2> QED
      BY <1>3, <2>1 DEF Rows
  <1>9. \/ /\ Len(items) < walk.size
           /\ walk' = [walk EXCEPT !.seen = shown, !.pc = "done", !.stop = "short"]
        \/ /\ walk.page >= TotalPages(walk.total, walk.size)
           /\ walk' = [walk EXCEPT !.seen = shown, !.pc = "done", !.stop = "total"]
        \/ /\ Len(items) = walk.size
           /\ walk' = [walk EXCEPT !.seen = shown, !.pc = "count", !.page = walk.page + 1]
    BY <1>5 DEF RInv, WalkTyped
  <1>10. ASSUME ~walk.left, NEW id \in walk.before \ shown, Alone(id)
         PROVE  /\ Cardinality(Newer(id)) >= Offset(walk.page, walk.size) + walk.size
                /\ Len(items) = walk.size
                /\ ~walk.raced => walk.page < TotalPages(walk.total, walk.size)
    <2>1. PICK j \in 1 .. Len(q) : /\ q[j] = id /\ Cardinality(Newer(id)) = j - 1
                                   /\ j > Offset(walk.page, walk.size)
      BY <1>6, <1>10, PlaceOnList DEF RInv
    <2>2. PICK off \in Nat : off = Offset(walk.page, walk.size)
      BY <1>6, <1>7, PageFacts
    <2>3. j > off + walk.size
      <3> SUFFICES ASSUME j <= off + walk.size PROVE FALSE
        BY <1>6, <1>7, <2>2
      <3>1. q[j] \in ToSet(items)
        BY <1>6, <1>7, <2>1, <2>2, PageFacts
      <3> QED
        BY <1>10, <2>1, <3>1
    <2>4. Len(items) = walk.size
      BY <1>6, <1>7, <2>2, <2>3, PageFacts
    <2>5. ASSUME ~walk.raced PROVE walk.page < TotalPages(walk.total, walk.size)
      <3>1. walk.total = Len(q)
        BY <1>6, <1>7, <2>5 DEF RInv, TotalCounted
      <3>2. walk.page * walk.size = off + walk.size
        BY <1>6, <2>2 DEF Offset
      <3>3. PICK w \in Nat : w = walk.page * walk.size
        BY <1>6
      <3>4. walk.total > walk.page * walk.size
        BY <1>6, <1>7, <2>2, <2>3, <3>1, <3>2, <3>3
      <3>5. /\ TotalPages(walk.total, walk.size) > walk.page
            /\ TotalPages(walk.total, walk.size) \in Int
        BY <1>6, <3>4, PagesRoundUp
      <3> QED
        BY <1>6, <3>5
    <2> QED
      BY <1>6, <1>7, <2>1, <2>2, <2>3, <2>4, <2>5
  <1> HIDE DEF items, shown
  <1>11. /\ walk'.size = walk.size /\ walk'.before = walk.before /\ walk'.seen = shown
         /\ walk'.left = walk.left /\ walk'.raced = walk.raced /\ walk'.pc \in {"count", "done"}
         /\ walk'.merchant = walk.merchant /\ walk'.filter = walk.filter
         /\ walk'.pc = "count" => walk'.page = walk.page + 1
    BY <1>9 DEF RInv, WalkTyped
  <1>12. Walked' = Walked
    BY <1>1, <1>11 DEF Walked, Matching
  <1>13. \A id : Newer(id)' = Newer(id) /\ Alone(id)' = Alone(id)
    BY <1>1, <1>2, <1>12 DEF Newer, Above, Alone
  <1>14. TimesBounded'
    BY <1>1 DEF RInv, TimesBounded
  <1>15. WalkTyped'
    <2>1. shown \in SUBSET Requests
      BY <1>8 DEF RInv, WalkTyped, shown
    <2>2. walk'.before \subseteq Rows' /\ walk'.size >= 1
      BY <1>2, <1>6, <1>11 DEF RInv, WalkTyped
    <2>3. CASE walk' = [walk EXCEPT !.seen = shown, !.pc = "done", !.stop = "short"]
      BY <1>6, <2>1, <2>2, <2>3 DEF RInv, WalkTyped
    <2>4. CASE walk' = [walk EXCEPT !.seen = shown, !.pc = "done", !.stop = "total"]
      BY <1>6, <2>1, <2>2, <2>4 DEF RInv, WalkTyped
    <2>5. CASE walk' = [walk EXCEPT !.seen = shown, !.pc = "count", !.page = walk.page + 1]
      <3>1. PICK p \in Nat : p = walk.page + 1 /\ p >= 1
        BY <1>6
      <3>2. walk' = [walk EXCEPT !.seen = shown, !.pc = "count", !.page = p]
        BY <2>5, <3>1
      <3> QED
        BY <2>1, <2>2, <3>1, <3>2 DEF RInv, WalkTyped
    <2> QED
      BY <1>9, <2>3, <2>4, <2>5
  <1>16. BeforeKept'
    BY <1>6, <1>11, <1>12 DEF RInv, BeforeKept
  <1>17. NotPassed'
    <2> SUFFICES ASSUME walk'.pc = "count", ~walk.left, NEW id \in walk.before \ shown,
                        Alone(id)
                 PROVE  Cardinality(Newer(id)) >= Offset(walk.page + 1, walk.size)
      BY <1>11, <1>13 DEF NotPassed, Offset
    <2>1. Offset(walk.page + 1, walk.size) = Offset(walk.page, walk.size) + walk.size
      BY <1>6 DEF Offset
    <2> QED
      BY <1>10, <2>1
  <1>18. TotalCounted'
    BY <1>11 DEF TotalCounted
  <1>19. NothingMissed'
    <2> SUFFICES ASSUME walk'.pc = "done", NEW id \in walk.before \ shown, ~walk.left,
                        ~(walk'.stop = "total" /\ walk.raced), Alone(id)
                 PROVE  FALSE
      BY <1>1, <1>2, <1>11 DEF NothingMissed, Alone
    <2>1. Len(items) = walk.size /\ (~walk.raced => walk.page < TotalPages(walk.total, walk.size))
      BY <1>10
    <2>2. CASE Len(items) < walk.size
      BY <1>6, <2>1, <2>2
    <2>3. CASE walk.page >= TotalPages(walk.total, walk.size) /\ walk'.stop = "total"
      <3>1. TotalPages(walk.total, walk.size) \in Int
        BY <1>6 DEF TotalPages
      <3> QED
        BY <1>6, <2>1, <2>3, <3>1
    <2> QED
      BY <1>9, <2>2, <2>3 DEF RInv, WalkTyped
  <1> QED
    BY <1>14, <1>15, <1>16, <1>17, <1>18, <1>19 DEF RInv

LEMMA FailureKeeps ==
  ASSUME RInv, ListFails
  PROVE  RInv'
  <1>1. txns' = txns /\ created' = created /\ walk' = NoWalk
    BY DEF ListFails, vars
  <1>2. TimesBounded'
    BY <1>1 DEF RInv, TimesBounded
  <1>3. WalkTyped'
    BY <1>1 DEF WalkTyped, NoWalk
  <1>4. walk'.pc = "idle"
    BY <1>1 DEF NoWalk
  <1> QED
    BY <1>2, <1>3, <1>4 DEF RInv, BeforeKept, NotPassed, TotalCounted, NothingMissed

LEMMA RStepInvariant ==
  ASSUME IInv, IInv', FinitelyMany, FinitelyMany', RInv, [RNext]_rvars
  PROVE  RInv'
  <1>1. CASE ServiceStep
    BY <1>1, ServiceKeeps
  <1>2. ASSUME NEW m \in Merchants, NEW f \in Filters, NEW size \in Sizes, StartWalk(m, f, size)
        PROVE  RInv'
    BY <1>2, StartKeeps
  <1>3. CASE Count
    BY <1>3, CountKeeps
  <1>4. CASE FetchPage
    BY <1>4, FetchKeeps
  <1>5. CASE ListFails
    BY <1>5, FailureKeeps
  <1>6. CASE UNCHANGED rvars
    <2>1. txns' = txns /\ created' = created /\ walk' = walk
      BY <1>6 DEF rvars, vars
    <2>2. Rows' = Rows /\ Walked' = Walked
      BY <2>1 DEF Rows, Walked, Matching
    <2>3. \A id : Newer(id)' = Newer(id) /\ Alone(id)' = Alone(id)
      BY <2>1, <2>2 DEF Newer, Above, Alone
    <2>4. TimesBounded' /\ WalkTyped'
      BY <2>1, <2>2 DEF RInv, TimesBounded, WalkTyped
    <2>5. BeforeKept' /\ TotalCounted'
      BY <2>1, <2>2 DEF RInv, BeforeKept, TotalCounted
    <2>6. NotPassed'
      BY <2>1, <2>3 DEF RInv, NotPassed, Offset
    <2>7. NothingMissed'
      BY <2>1, <2>2 DEF RInv, NothingMissed
    <2> QED
      BY <2>4, <2>5, <2>6, <2>7 DEF RInv
  <1> QED
    BY <1>1, <1>2, <1>3, <1>4, <1>5, <1>6 DEF RNext

-----------------------------------------------------------------------------
(* The theorems. *)

\* The dashboard only reads: whatever it does, the payment service behaves as if it
\* were alone, so that every theorem about the service holds of the two together.
LEMMA ReportingOnlyReads == RSpec => Spec
  <1>1. RInit => Init
    BY DEF RInit
  <1>2. [RNext]_rvars => [Next]_vars
    BY DEF RNext, ServiceStep, StartWalk, Count, FetchPage, ListFails, rvars
  <1> QED
    BY <1>1, <1>2, PTL DEF RSpec, Spec

\* The invariant of a walk, next to that of the payment service.
THEOREM ReportingInvariance == RSpec => []RInv
  <1>1. RInit => RInv
    <2> SUFFICES ASSUME RInit PROVE RInv
      OBVIOUS
    <2>1. created = [id \in Requests |-> 0] /\ walk = NoWalk
      BY DEF RInit
    <2>2. TimesBounded
      BY <2>1 DEF TimesBounded
    <2>3. WalkTyped
      BY <2>1 DEF WalkTyped, NoWalk
    <2>4. walk.pc = "idle"
      BY <2>1 DEF NoWalk
    <2> QED
      BY <2>2, <2>3, <2>4 DEF RInv, BeforeKept, NotPassed, TotalCounted, NothingMissed
  <1>2. IInv /\ IInv' /\ FinitelyMany /\ FinitelyMany' /\ RInv /\ [RNext]_rvars => RInv'
    BY RStepInvariant
  <1>3. RSpec => [](IInv /\ FinitelyMany)
    BY ReportingOnlyReads, Invariance, SumsInvariance, PTL
  <1> QED
    BY <1>1, <1>2, <1>3, PTL DEF RSpec

\* A client that walks the list of transactions page by page, while payments, refunds
\* and top-ups commit, is shown every row that was there when it began, for any
\* number of rows, any page size and any filter; the exceptions are the ones that
\* NothingMissed names.
THEOREM NoRowIsMissed == RSpec => []NothingMissed
  <1>1. RInv => NothingMissed
    BY DEF RInv
  <1> QED
    BY <1>1, ReportingInvariance, PTL

\* The dashboard's figures explain the balance it shows, in every state of the
\* payment tables.
THEOREM StatsAreExplained == RSpec => []StatsReconcile
  <1>1. IInv /\ FinitelyMany /\ BalanceIsLedgerSum /\ RowsOwned /\ RInv => StatsReconcile
    BY StatsHold DEF RInv, TimesBounded
  <1> QED
    BY <1>1, ReportingOnlyReads, Invariance, SumsInvariance, OwnedInvariance,
       ReportingInvariance, PTL

===============================================================================
