------------------------------ MODULE ExchangeProofs ------------------------------
(***************************************************************************)
(* Brokerage with one thread, where what a check has seen is still true     *)
(* when it is acted on: the server is the exchange it promises to be, and   *)
(* averages stay within the prices.                                         *)
(***************************************************************************)
EXTENDS OverdraftProofs

\* What a request in progress has recorded, and the part of a column that is
\* of a request in progress.
RecordedTerm(u, p) ==
    IF "insertTradeHistory" \in done[p] /\ req[p].user = u THEN 1 ELSE 0
InFlight(p, n) == IF pc[p] = "idle" THEN 0 ELSE n

\* Past its session a trade has read a price.
PricedInv ==
    \A p \in Workers : req[p].kind \in Trades /\ pc[p] \notin {"idle", "sidToUid"}
                         => local[p].price \in Prices

\* The sum over one worker is its term.
LEMMA SumOfOne ==
    ASSUME NEW w, NEW fn, fn[w] \in Int
    PROVE  SumFunctionOnSet(fn, {w}) = fn[w]
<1>1. IsFiniteSet({}) /\ SumFunctionOnSet(fn, {}) = 0
  BY FS_EmptySet, SumEmpty
<1>2. SumFunctionOnSet(fn, {} \union {w}) = fn[w] + SumFunctionOnSet(fn, {})
  BY <1>1, SumAdd
<1>3. {} \union {w} = {w}
  OBVIOUS
<1> QED
  BY <1>1, <1>2, <1>3

\* What the kinds of a worker's writes say of its request.
LEMMA WritesOfKind ==
    ASSUME TypeInv, BookingInv, NEW p \in Workers
    PROVE  /\ "changeAccount" \in done[p] => req[p].kind \in Transfers \union Trades
           /\ "increaseBankAccount" \in done[p] => req[p].kind \in Transfers
           /\ "upsertOwnedStock" \in done[p] => req[p].kind \in Trades
           /\ "insertTradeHistory" \in done[p] => req[p].kind \in Trades
<1> SUFFICES ASSUME done[p] # {}
             PROVE  /\ "changeAccount" \in done[p] => req[p].kind \in Transfers \union Trades
                    /\ "increaseBankAccount" \in done[p] => req[p].kind \in Transfers
                    /\ "upsertOwnedStock" \in done[p] => req[p].kind \in Trades
                    /\ "insertTradeHistory" \in done[p] => req[p].kind \in Trades
  OBVIOUS
<1>1. req[p] \in TransferRequests \union TradeRequests
  BY DEF TypeInv, Serving
<1>2. req[p].kind \in Transfers \union Trades
  BY <1>1 DEF TransferRequests, TradeRequests
<1>3. done[p] \subseteq Writes(req[p].kind)
  BY DEF BookingInv, Booking
<1> QED
  BY <1>2, <1>3 DEF Writes, Transfers, Trades

\* With one worker, what is taken out of a column is that worker's term.
WholeTerms ==
    \A w : Workers = {w} =>
        /\ WholeAccount = [u \in Users |-> account[u] - InFlight(w, MoneyTerm(u, w))]
        /\ WholeBank = [u \in Users |-> [b \in Banks |->
                          bank[u][b] - InFlight(w, MovedTerm(u, b, w))]]
        /\ WholeOwned = [u \in Users |-> [c \in Companies |->
                           owned[u][c] - InFlight(w, DeliveredTerm(u, c, w))]]
        /\ WholeHistory = [u \in Users |-> history[u] - InFlight(w, RecordedTerm(u, w))]

\* With one thread the tables less the writes in flight are each entry less the
\* contribution of that thread, while its request has no settled answer.
LEMMA WholeIs == TypeInv /\ BookingInv => WholeTerms
<1> SUFFICES ASSUME TypeInv, BookingInv, NEW w, Workers = {w}
             PROVE  /\ WholeAccount = [u \in Users |-> account[u] - InFlight(w, MoneyTerm(u, w))]
                    /\ WholeBank = [u \in Users |-> [b \in Banks |->
                                      bank[u][b] - InFlight(w, MovedTerm(u, b, w))]]
                    /\ WholeOwned = [u \in Users |-> [c \in Companies |->
                                       owned[u][c] - InFlight(w, DeliveredTerm(u, c, w))]]
                    /\ WholeHistory
                         = [u \in Users |-> history[u] - InFlight(w, RecordedTerm(u, w))]
  BY DEF WholeTerms
<1>0. /\ TermsTyped /\ w \in Workers
      /\ \A u : RecordedTerm(u, w) \in Int
  BY TermTypes DEF RecordedTerm
<1>1. /\ "changeAccount" \in done[w] => req[w].kind \in Transfers \union Trades
      /\ "increaseBankAccount" \in done[w] => req[w].kind \in Transfers
      /\ "upsertOwnedStock" \in done[w] => req[w].kind \in Trades
      /\ "insertTradeHistory" \in done[w] => req[w].kind \in Trades
  BY <1>0, WritesOfKind
<1>2. ASSUME NEW fn, NEW S \in SUBSET {w}, NEW n \in Int,
             w \in S => fn[w] = n, w \notin S => n = 0
      PROVE  SumFunctionOnSet(fn, S) = n
  <2>1. CASE w \in S
    <3>1. S = {w}
      BY <2>1
    <3>2. fn[w] \in Int /\ fn[w] = n
      BY <2>1, <1>2
    <3>3. SumFunctionOnSet(fn, {w}) = fn[w]
      BY <3>2, SumOfOne
    <3> QED
      BY <3>1, <3>2, <3>3
  <2>2. CASE w \notin S
    <3>1. S = {}
      BY <2>2
    <3> QED
      BY <1>2, <2>2, <3>1, SumEmpty
  <2> QED
    BY <2>1, <2>2
<1>3. ASSUME NEW u \in Users
      PROVE  SumFunctionOnSet(Money, InProgress(u, Transfers \union Trades))
               = InFlight(w, MoneyTerm(u, w))
  <2> DEFINE S == InProgress(u, Transfers \union Trades)
             n == InFlight(w, MoneyTerm(u, w))
  <2>1. S \in SUBSET {w} /\ n \in Int
    BY <1>0 DEF InProgress, InFlight, TermsTyped
  <2>2. /\ w \in S => Money[w] = n
        /\ w \notin S => n = 0
    BY <1>0, <1>1 DEF InProgress, InFlight, Money, MoneyTerm, IfDone
  <2> HIDE DEF S, n
  <2> QED
    BY <1>2, <2>1, <2>2 DEF S, n
<1>4. ASSUME NEW u \in Users, NEW b \in Banks
      PROVE  SumFunctionOnSet(Moved, {p \in InProgress(u, Transfers) : local[p].bank = b})
               = InFlight(w, MovedTerm(u, b, w))
  <2> DEFINE S == {p \in InProgress(u, Transfers) : local[p].bank = b}
             n == InFlight(w, MovedTerm(u, b, w))
  <2>1. S \in SUBSET {w} /\ n \in Int
    BY <1>0 DEF InProgress, InFlight, TermsTyped
  <2>2. /\ w \in S => Moved[w] = n
        /\ w \notin S => n = 0
    BY <1>0, <1>1 DEF InProgress, InFlight, Moved, MovedTerm, IfDone
  <2> HIDE DEF S, n
  <2> QED
    BY <1>2, <2>1, <2>2 DEF S, n
<1>5. ASSUME NEW u \in Users, NEW c \in Companies
      PROVE  SumFunctionOnSet(Delivered, {p \in InProgress(u, Trades) : req[p].company = c})
               = InFlight(w, DeliveredTerm(u, c, w))
  <2> DEFINE S == {p \in InProgress(u, Trades) : req[p].company = c}
             n == InFlight(w, DeliveredTerm(u, c, w))
  <2>1. S \in SUBSET {w} /\ n \in Int
    BY <1>0 DEF InProgress, InFlight, TermsTyped
  <2>2. /\ w \in S => Delivered[w] = n
        /\ w \notin S => n = 0
    BY <1>0, <1>1 DEF InProgress, InFlight, Delivered, DeliveredTerm, IfDone
  <2> HIDE DEF S, n
  <2> QED
    BY <1>2, <2>1, <2>2 DEF S, n
<1>6. ASSUME NEW u \in Users
      PROVE  SumFunctionOnSet(Recorded, InProgress(u, Trades)) = InFlight(w, RecordedTerm(u, w))
  <2> DEFINE S == InProgress(u, Trades)
             n == InFlight(w, RecordedTerm(u, w))
  <2>1. S \in SUBSET {w} /\ n \in Int
    BY <1>0 DEF InProgress, InFlight, TermsTyped
  <2>2. /\ w \in S => Recorded[w] = n
        /\ w \notin S => n = 0
    BY <1>0, <1>1 DEF InProgress, InFlight, Recorded, RecordedTerm, IfDone
  <2> HIDE DEF S, n
  <2> QED
    BY <1>2, <2>1, <2>2 DEF S, n
<1> QED
  BY <1>3, <1>4, <1>5, <1>6 DEF WholeAccount, WholeBank, WholeOwned, WholeHistory


\* What a step of a worker leaves of its request, and what it records.
LEMMA WorkKeeps ==
    ASSUME TypeInv, NEW p \in Workers, Work(p)
    PROVE  /\ req' = req /\ settled' = settled
           /\ \/ InsertTradeHistory(p)
              \/ /\ history' = history
                 /\ \/ done' = done
                    \/ \E writes : /\ done' = [done EXCEPT ![p] = @ \union writes]
                                   /\ "insertTradeHistory" \notin writes
<1>1. \A outcome : Answer(p, outcome) => req' = req /\ settled' = settled /\ done' = done
  BY DEF Answer
<1>2. \A next : Return(p, next) => req' = req /\ settled' = settled /\ done' = done
  BY DEF Return
<1>3. \A writes, next : Commit(p, writes, next) =>
          req' = req /\ settled' = settled /\ done' = [done EXCEPT ![p] = @ \union writes]
  BY DEF Commit
<1>4. CASE Open(p) \/ Refused(p) \/ Aborted(p)
  BY <1>1, <1>4 DEF Open, Refused, Aborted, tables
<1>5. CASE SidToUid(p)
  BY <1>1, <1>2, <1>5 DEF SidToUid, tables
<1>6. CASE SelectFromBankAccount(p)
  BY <1>1, <1>2, <1>6 DEF SelectFromBankAccount, tables
<1>7. CASE SelectFromAccountInfo(p) \/ ReportBalance(p) \/ CountOwnedStock(p)
  BY <1>1, <1>2, <1>7 DEF SelectFromAccountInfo, ReportBalance, CountOwnedStock, tables
<1>8. CASE SelectFromOwnedStock(p)
  <2>1. history' = history
    BY <1>8 DEF SelectFromOwnedStock, tables
  <2>2. Calling(p, "selectFromOwnedStock")
    BY <1>8 DEF SelectFromOwnedStock
  <2>3. req[p].kind \in {"buy", "sell", "poll"}
    BY <2>2, CallFacts DEF Calls, CallsOf
  <2> QED
    BY <1>1, <1>2, <1>8, <2>1, <2>3 DEF SelectFromOwnedStock
<1>9. CASE SelectFromAvgPrice(p)
  BY <1>2, <1>9 DEF SelectFromAvgPrice, tables
<1>10. CASE UpsertAvgPrice(p) \/ UpsertOwnedStock(p)
  <2>1. /\ history' = history
        /\ \E call \in {"upsertAvgPrice", "upsertOwnedStock"} :
              \E next : Commit(p, {call}, next)
    <3>1. CASE UpsertAvgPrice(p)
      BY <3>1 DEF UpsertAvgPrice
    <3>2. CASE UpsertOwnedStock(p)
      BY <3>2 DEF UpsertOwnedStock
    <3> QED
      BY <1>10, <3>1, <3>2
  <2>2. PICK call \in {"upsertAvgPrice", "upsertOwnedStock"} : \E next : Commit(p, {call}, next)
    BY <2>1
  <2>3. PICK next : Commit(p, {call}, next)
    BY <2>2
  <2> QED
    BY <1>3, <2>1, <2>2, <2>3
<1>11. CASE ChangeAccount(p) \/ IncreaseBankAccount(p)
  <2>1. /\ history' = history
        /\ \E writes \in SUBSET {"changeAccount", "increaseBankAccount"} :
              \E next : Commit(p, writes, next)
    <3>1. CASE ChangeAccount(p)
      BY <3>1 DEF ChangeAccount
    <3>2. CASE IncreaseBankAccount(p)
      BY <3>2 DEF IncreaseBankAccount
    <3> QED
      BY <1>11, <3>1, <3>2
  <2>2. PICK writes \in SUBSET {"changeAccount", "increaseBankAccount"} :
               \E next : Commit(p, writes, next)
    BY <2>1
  <2>3. PICK next : Commit(p, writes, next)
    BY <2>2
  <2> QED
    BY <1>3, <2>1, <2>2, <2>3
<1>12. CASE InsertTradeHistory(p)
  BY <1>3, <1>12 DEF InsertTradeHistory
<1> QED
  BY <1>4, <1>5, <1>6, <1>7, <1>8, <1>9, <1>10, <1>11, <1>12 DEF Work, Call

\* A worker's rows in trade_history move with what its request has recorded.
LEMMA RecordMoves ==
    ASSUME TypeInv, NEW p \in Workers, Work(p), AccountedInv
    PROVE  \A u \in Users :
             history'[u] - history[u] = RecordedTerm(u, p)' - RecordedTerm(u, p)
<1>0. /\ history \in [Users -> Nat] /\ done \in [Workers -> SUBSET Calls]
      /\ \A u : RecordedTerm(u, p) \in {0, 1}
  BY DEF TypeInv, TypeOK, TablesOK, HandlersOK, RecordedTerm
<1>1. CASE InsertTradeHistory(p)
  <2>1. /\ Calling(p, "insertTradeHistory") /\ req' = req
        /\ done' = [done EXCEPT ![p] = @ \union {"insertTradeHistory"}]
        /\ history' = [history EXCEPT ![req[p].user] = @ + 1]
    BY <1>1 DEF InsertTradeHistory, Commit
  <2>2. req[p].kind \in {"buy", "sell"} /\ req[p].user \in Users /\ pc[p] = "insertTradeHistory"
        /\ pc[p] # "idle"
    BY <2>1, CallFacts, RequestFields DEF Calls, CallsOf, Calling
  <2>3. Made(p, DoneAt(req[p].kind, pc[p]))
    BY <2>2 DEF AccountedInv, Accounted
  <2>4. "insertTradeHistory" \notin done[p]
    BY <2>2, <2>3 DEF Made, Landed, DoneAt, Transfers
  <2>5. "insertTradeHistory" \in done'[p]
    BY <1>0, <2>1
  <2>6. \A u \in Users : history'[u] = IF req[p].user = u THEN history[u] + 1 ELSE history[u]
    BY <1>0, <2>1, <2>2
  <2> QED
    BY <1>0, <2>1, <2>4, <2>5, <2>6 DEF RecordedTerm
<1>2. CASE ~InsertTradeHistory(p)
  <2>1. req' = req /\ history' = history
    BY <1>2, WorkKeeps
  <2>2. \/ done' = done
        \/ \E writes : /\ done' = [done EXCEPT ![p] = @ \union writes]
                       /\ "insertTradeHistory" \notin writes
    BY <1>2, WorkKeeps
  <2>3. "insertTradeHistory" \in done'[p] <=> "insertTradeHistory" \in done[p]
    BY <1>0, <2>2
  <2>4. \A u : RecordedTerm(u, p)' = RecordedTerm(u, p)
    BY <2>1, <2>3 DEF RecordedTerm
  <2> QED
    BY <1>0, <2>1, <2>4
<1> QED
  BY <1>1, <1>2

\* A request of the only thread on a connection that holds ends in its last
\* call, with every write made, or before any.
LEMMA WorkEnds ==
    ASSUME TypeInv, NEW w, Workers = {w}, Orphans = {}, ~MayLose, connected,
           AccountedInv, AccountedInv', Work(w), pc'[w] = "idle"
    PROVE  \/ done'[w] = {}
           \/ /\ done'[w] = Writes(req'[w].kind)
              /\ local' = local /\ pc[w] \in {"increaseBankAccount", "reportBalance"}
<1>0. /\ w \in Workers /\ txn \in {w, Free}
      /\ pc \in [Workers -> Calls \union {"idle"}] /\ reply \in [Workers -> Replies]
      /\ done \in [Workers -> SUBSET Calls]
  BY DEF TypeInv, TypeOK, ConnectionOK, HandlersOK
<1>1. pc[w] # "idle" /\ "idle" \notin Calls
  BY <1>0, WorkBusy DEF Calls
<1>2. /\ reply'[w] = "rejected" => done'[w] = {}
      /\ reply'[w] = "success" => done'[w] = Writes(req'[w].kind)
  BY <1>0 DEF AccountedInv, Accounted, Made, Landed
<1>3. \A outcome : Answer(w, outcome) => reply'[w] = outcome
  BY <1>0 DEF Answer
<1>4. \A next \in Calls : ~Return(w, next)
  BY <1>0, <1>1 DEF Return
<1>5. \A writes, next : Commit(w, writes, next) => reply'[w] = "success" /\ next = "idle"
  BY <1>0 DEF Commit
<1>6. ~Open(w) /\ ~Refused(w) /\ ~Aborted(w)
  BY <1>0, <1>1 DEF Open, Refused, Aborted
<1>7. CASE SidToUid(w) \/ SelectFromBankAccount(w)
  <2>1. pc[w] \in {"sidToUid", "selectFromBankAccount"} /\ done' = done /\ req' = req
    BY <1>7 DEF SidToUid, SelectFromBankAccount, Calling, Answer, Return
  <2>2. DoneAt(req[w].kind, pc[w]) = {}
    BY <2>1 DEF DoneAt
  <2>3. done[w] = {}
    BY <1>0, <1>1, <2>1, <2>2 DEF AccountedInv, Accounted, Made, Landed
  <2> QED
    BY <2>1, <2>3
<1>8. CASE CountOwnedStock(w)
  BY <1>2, <1>3, <1>4, <1>8 DEF CountOwnedStock, Calls, Calling
<1>9. CASE SelectFromAccountInfo(w) \/ ReportBalance(w)
  BY <1>2, <1>3, <1>4, <1>9 DEF SelectFromAccountInfo, ReportBalance, Calls, Calling
<1>10. CASE SelectFromOwnedStock(w)
  <2>1. Calling(w, "selectFromOwnedStock")
    BY <1>10 DEF SelectFromOwnedStock
  <2>2. req[w].kind \in {"buy", "sell", "poll"}
    BY <1>0, <2>1, CallFacts DEF Calls, CallsOf
  <2>3. CASE req[w].kind = "poll"
    <3>1. done' = done /\ req' = req
      BY <1>10, <2>3, WorkKeeps, <1>0 DEF SelectFromOwnedStock, Answer
    <3>2. reply'[w] = "success"
      BY <1>3, <1>10, <2>3 DEF SelectFromOwnedStock
    <3> QED
      BY <1>2, <2>3, <3>1, <3>2 DEF Writes, Transfers
  <2> QED
    BY <1>2, <1>3, <1>4, <1>10, <2>2, <2>3 DEF SelectFromOwnedStock, Calls
<1>11. CASE SelectFromAvgPrice(w)
  BY <1>4, <1>11 DEF SelectFromAvgPrice, Calls
<1>12. CASE IncreaseBankAccount(w)
  <2>1. reply'[w] = "success" /\ local' = local /\ pc[w] = "increaseBankAccount"
    BY <1>5, <1>12 DEF IncreaseBankAccount, Calling, Commit
  <2> QED
    BY <1>2, <2>1
<1>13. ~InsertTradeHistory(w) /\ ~UpsertAvgPrice(w) /\ ~UpsertOwnedStock(w)
  BY <1>5 DEF InsertTradeHistory, UpsertAvgPrice, UpsertOwnedStock
<1>14. ~ChangeAccount(w)
  BY <1>5 DEF ChangeAccount
<1> QED
  BY <1>6, <1>7, <1>8, <1>9, <1>10, <1>11, <1>12, <1>13, <1>14 DEF Work, Call

\* The price is read in the session, and kept.
LEMMA WorkPriced ==
    ASSUME TypeInv, BookingInv, PricedInv, NEW p \in Workers, Work(p)
    PROVE  PricedInv'
<1>1. Frame(p) /\ req' = req
  BY WorkFrame, WorkKeeps
<1>2. \/ pc'[p] = "idle"
      \/ /\ pc[p] # "idle" /\ pc[p] # "sidToUid"
         /\ local'[p].price = local[p].price
      \/ pc'[p] = pc[p] /\ local' = local
      \/ req[p].kind \in Trades => local'[p].price \in Prices
  BY WorkSteps DEF Ends, Begins, MovesMoney, Buys, Sells, Delivers, Pays, Banked, Goes
<1> QED
  BY <1>1, <1>2 DEF PricedInv, Frame


\* Cash that was enough for a withdrawal or a purchase is not below zero once
\* that is paid.
Paid(p) ==
    /\ req[p].user \notin Orphans
    /\ \/ req[p].kind = "withdraw" /\ pc[p] = "increaseBankAccount"
       \/ req[p].kind = "buy" /\ pc[p] = "reportBalance"
    => account[req[p].user] >= 0
PaidInv == \A p \in Workers : Paid(p)

\* Only the thread that checked the cash spends it.
LEMMA WorkPaid ==
    ASSUME TypeInv, BookingInv, CoveredInv, PaidInv, NEW w \in Workers, Workers = {w}, Work(w)
    PROVE  PaidInv'
<1>1. req' = req /\ pc[w] # "idle" /\ account \in [Users -> Int] /\ Paid(w)
  BY WorkOthers, WorkBusy DEF TypeInv, TypeOK, TablesOK, PaidInv
<1>2. SUFFICES Paid(w)'
  BY DEF PaidInv
<1>3. CASE Quiet /\ pc'[w] = pc[w] /\ local' = local
  BY <1>1, <1>3 DEF Paid, Quiet
<1>4. CASE Ends(w) \/ Begins(w) \/ MovesMoney(w) \/ Buys(w) \/ Sells(w) \/ Delivers(w) \/ Banked(w)
  <2>1. pc'[w] \notin {"increaseBankAccount", "reportBalance"}
    <3>1. FirstCall(req[w].kind) \notin {"increaseBankAccount", "reportBalance"}
            \/ req[w].kind \notin {"deposit", "withdraw", "buy", "sell", "poll"}
      BY DEF FirstCall, Transfers
    <3>2. req[w].kind \in {"deposit", "withdraw", "buy", "sell", "poll"}
      BY <1>1, RequestFields DEF TypeInv, Serving
    <3> QED
      BY <1>4, <3>1, <3>2 DEF Ends, Begins, MovesMoney, Buys, Sells, Delivers, Banked, Goes
  <2> QED
    BY <2>1 DEF Paid
<1>5. CASE Pays(w)
  <2> SUFFICES ASSUME req[w].user \notin Orphans, req[w].kind \in {"withdraw", "buy"}
               PROVE  account'[req[w].user] >= 0
    BY <1>1 DEF Paid
  <2>1. req[w].user \in Users /\ Worth(w) \in Int
    BY <1>1, WorthType, RequestFields DEF TypeInv, Serving
  <2>2. account[req[w].user] >= Worth(w) /\ account[req[w].user] \in Int
    BY <1>1, <1>5, <2>1
       DEF Pays, CoveredInv, Covered, WithdrawalCovered, PurchaseCovered, PurchaseCalls
  <2>3. AccountDelta(w) = -Worth(w)
    BY DEF AccountDelta
  <2>4. account'[req[w].user] = account[req[w].user] + AccountDelta(w)
    BY <1>1, <1>5, <2>1 DEF Pays
  <2> QED
    BY <2>1, <2>2, <2>3, <2>4
<1> QED
  BY <1>3, <1>4, <1>5, WorkSteps

\* What is known of a server with one thread.
OneThreadInv ==
    TypeInv /\ AccountedInv /\ BooksInv /\ CoveredInv /\ PricedInv /\ PaidInv

\* What a step lands in the tables of whole requests: all of a request's writes
\* with its answer, and nothing before.
Arrives(p, n) == IF pc'[p] = "idle" THEN n ELSE 0

WholeTyped ==
    /\ WholeAccount \in [Users -> Int]
    /\ WholeBank \in [Users -> [Banks -> Int]]
    /\ WholeOwned \in [Users -> [Companies -> Int]]
    /\ WholeHistory \in [Users -> Int]

\* The tables less the writes in flight hold integers.
LEMMA WholeTypes ==
    ASSUME NEW w, Workers = {w}
    PROVE  TypeInv /\ BookingInv => WholeTyped
<1> SUFFICES ASSUME TypeInv, BookingInv PROVE WholeTyped
  OBVIOUS
<1>1. WholeTerms /\ Numbers /\ TermsTyped
  BY WholeIs, ColumnTypes, TermTypes
<1>2. /\ \A u : InFlight(w, MoneyTerm(u, w)) \in Int
      /\ \A u, b : InFlight(w, MovedTerm(u, b, w)) \in Int
      /\ \A u, c : InFlight(w, DeliveredTerm(u, c, w)) \in Int
      /\ \A u : InFlight(w, RecordedTerm(u, w)) \in Int
  BY <1>1 DEF TermsTyped, InFlight, RecordedTerm
<1>3. /\ WholeAccount = [u \in Users |-> account[u] - InFlight(w, MoneyTerm(u, w))]
      /\ WholeBank = [u \in Users |-> [b \in Banks |->
                        bank[u][b] - InFlight(w, MovedTerm(u, b, w))]]
      /\ WholeOwned = [u \in Users |-> [c \in Companies |->
                         owned[u][c] - InFlight(w, DeliveredTerm(u, c, w))]]
      /\ WholeHistory = [u \in Users |-> history[u] - InFlight(w, RecordedTerm(u, w))]
  BY <1>1 DEF WholeTerms
<1>4. \A u \in Users : history[u] \in Int
  BY DEF TypeInv, TypeOK, TablesOK
<1> QED
  BY <1>1, <1>2, <1>3, <1>4 DEF WholeTyped, Numbers

\* A step of the one thread changes them only where the request lands, and then
\* by all that it has written.
LEMMA WholeMoves ==
    ASSUME TypeInv, TypeInv', AccountedInv, BookingInv, BookingInv', BooksInv,
           NEW w, Workers = {w}, Work(w)
    PROVE  /\ \A u \in Users :
                WholeAccount'[u] = WholeAccount[u] + Arrives(w, MoneyTerm(u, w)')
           /\ \A u \in Users, b \in Banks :
                WholeBank'[u][b] = WholeBank[u][b] + Arrives(w, MovedTerm(u, b, w)')
           /\ \A u \in Users, c \in Companies :
                WholeOwned'[u][c] = WholeOwned[u][c] + Arrives(w, DeliveredTerm(u, c, w)')
           /\ \A u \in Users :
                WholeHistory'[u] = WholeHistory[u] + Arrives(w, RecordedTerm(u, w)')
<1>1. WholeTerms /\ Numbers /\ TermsTyped
  BY WholeIs, ColumnTypes, TermTypes
<1>2. WholeTerms' /\ Numbers' /\ TermsTyped'
  <2>1. WholeTerms'
    BY WholeIs, PTL
  <2>2. Numbers'
    BY ColumnTypes, PTL
  <2>3. TermsTyped'
    BY TermTypes, PTL
  <2> QED
    BY <2>1, <2>2, <2>3
<1>3. pc[w] # "idle" /\ settled' = settled /\ Moves(w)
  BY WorkBusy, WorkKeeps, ReadBooks, WriteBooks DEF Work, Call
<1>4. \A u \in Users :
        history'[u] - history[u] = RecordedTerm(u, w)' - RecordedTerm(u, w)
  BY RecordMoves
<1>5. /\ \A u \in Users : /\ WholeAccount[u] = account[u] - MoneyTerm(u, w)
                          /\ WholeHistory[u] = history[u] - RecordedTerm(u, w)
      /\ \A u \in Users, b \in Banks : WholeBank[u][b] = bank[u][b] - MovedTerm(u, b, w)
      /\ \A u \in Users, c \in Companies :
           WholeOwned[u][c] = owned[u][c] - DeliveredTerm(u, c, w)
  BY <1>1, <1>3 DEF WholeTerms, InFlight
<1>6. /\ \A u \in Users :
           /\ WholeAccount'[u] = account'[u] - InFlight(w, MoneyTerm(u, w))'
           /\ WholeHistory'[u] = history'[u] - InFlight(w, RecordedTerm(u, w))'
      /\ \A u \in Users, b \in Banks :
           WholeBank'[u][b] = bank'[u][b] - InFlight(w, MovedTerm(u, b, w))'
      /\ \A u \in Users, c \in Companies :
           WholeOwned'[u][c] = owned'[u][c] - InFlight(w, DeliveredTerm(u, c, w))'
  BY <1>2 DEF WholeTerms
<1>7. \A u \in Users : /\ history[u] \in Int /\ history'[u] \in Int
                       /\ RecordedTerm(u, w) \in Int /\ RecordedTerm(u, w)' \in Int
  BY DEF TypeInv, TypeOK, TablesOK, RecordedTerm
<1>8. /\ \A u \in Users : account'[u] - account[u] = MoneyTerm(u, w)' - MoneyTerm(u, w)
      /\ \A u \in Users, b \in Banks :
           bank'[u][b] - bank[u][b] = MovedTerm(u, b, w)' - MovedTerm(u, b, w)
      /\ \A u \in Users, c \in Companies :
           owned'[u][c] - owned[u][c] = DeliveredTerm(u, c, w)' - DeliveredTerm(u, c, w)
  <2>1. \A u \in Users : /\ settled'[u].account - settled[u].account = 0
                         /\ \A b \in Banks : settled'[u].bank[b] - settled[u].bank[b] = 0
                         /\ \A c \in Companies : settled'[u].shares[c] - settled[u].shares[c] = 0
    BY <1>1, <1>3 DEF Numbers
  <2> QED
    BY <1>1, <1>2, <1>3, <2>1 DEF Moves, Numbers, TermsTyped
<1>9. ASSUME NEW u \in Users
      PROVE  /\ WholeAccount'[u] = WholeAccount[u] + Arrives(w, MoneyTerm(u, w)')
             /\ WholeHistory'[u] = WholeHistory[u] + Arrives(w, RecordedTerm(u, w)')
  BY <1>1, <1>2, <1>4, <1>5, <1>6, <1>7, <1>8 DEF InFlight, Arrives, Numbers, TermsTyped
<1>10. ASSUME NEW u \in Users, NEW b \in Banks
       PROVE  WholeBank'[u][b] = WholeBank[u][b] + Arrives(w, MovedTerm(u, b, w)')
  BY <1>1, <1>2, <1>5, <1>6, <1>8 DEF InFlight, Arrives, Numbers, TermsTyped
<1>11. ASSUME NEW u \in Users, NEW c \in Companies
       PROVE  WholeOwned'[u][c] = WholeOwned[u][c] + Arrives(w, DeliveredTerm(u, c, w)')
  <2>1. /\ WholeOwned[u][c] = owned[u][c] - DeliveredTerm(u, c, w)
        /\ WholeOwned'[u][c] = owned'[u][c] - InFlight(w, DeliveredTerm(u, c, w))'
        /\ owned'[u][c] - owned[u][c] = DeliveredTerm(u, c, w)' - DeliveredTerm(u, c, w)
    BY <1>5, <1>6, <1>8
  <2>2. /\ owned[u][c] \in Int /\ owned'[u][c] \in Int
        /\ DeliveredTerm(u, c, w) \in Int /\ DeliveredTerm(u, c, w)' \in Int
    BY <1>1, <1>2 DEF Numbers, TermsTyped
  <2> QED
    BY <2>1, <2>2 DEF InFlight, Arrives
<1> QED
  BY <1>9, <1>10, <1>11


\* An update of one entry, seen entry by entry.
LEMMA EntryUpdate ==
    ASSUME NEW D, NEW f, NEW g, f \in [D -> Int], g \in [D -> Int], NEW d \in D, NEW n \in Int,
           \A x \in D : g[x] = f[x] + (IF x = d THEN n ELSE 0)
    PROVE  /\ g = [f EXCEPT ![d] = @ + n]
           /\ \A m \in Int : n = -m => g = [f EXCEPT ![d] = @ - m]
OBVIOUS

\* The same for a table of tables: one entry moves, all others stay.
LEMMA NestedUpdate ==
    ASSUME NEW D, NEW E, NEW f, NEW g, f \in [D -> [E -> Int]], g \in [D -> [E -> Int]],
           NEW d \in D, NEW e \in E, NEW n \in Int,
           \A x \in D, y \in E : g[x][y] = f[x][y] + (IF x = d /\ y = e THEN n ELSE 0)
    PROVE  /\ g = [f EXCEPT ![d][e] = @ + n]
           /\ \A m \in Int : n = -m => g = [f EXCEPT ![d][e] = @ - m]
<1>1. ASSUME NEW h, h \in [E -> Int], \A y \in E : h[y] = f[d][y] + (IF y = e THEN n ELSE 0)
      PROVE  g = [f EXCEPT ![d] = h]
  <2>1. ASSUME NEW x \in D PROVE g[x] = [f EXCEPT ![d] = h][x]
    <3>1. CASE x = d
      <4>1. g[x] \in [E -> Int] /\ \A y \in E : g[x][y] = h[y]
        BY <1>1, <3>1
      <4>2. g[x] = h
        BY <1>1, <4>1
      <4> QED
        BY <3>1, <4>2
    <3>2. CASE x # d
      <4>1. g[x] \in [E -> Int] /\ f[x] \in [E -> Int] /\ \A y \in E : g[x][y] = f[x][y]
        BY <3>2
      <4>2. g[x] = f[x]
        BY <4>1
      <4> QED
        BY <3>2, <4>2
    <3> QED
      BY <3>1, <3>2
  <2> QED
    BY <2>1
<1>2. f[d] \in [E -> Int]
  OBVIOUS
<1>3. g = [f EXCEPT ![d][e] = @ + n]
  <2> DEFINE h == [f[d] EXCEPT ![e] = @ + n]
  <2>1. h \in [E -> Int] /\ \A y \in E : h[y] = f[d][y] + (IF y = e THEN n ELSE 0)
    BY <1>2
  <2>2. g = [f EXCEPT ![d] = h]
    BY <1>1, <2>1
  <2> QED
    BY <2>2
<1>4. ASSUME NEW m \in Int, n = -m
      PROVE  g = [f EXCEPT ![d][e] = @ - m]
  <2> DEFINE h == [f[d] EXCEPT ![e] = @ - m]
  <2>1. h \in [E -> Int] /\ \A y \in E : h[y] = f[d][y] + (IF y = e THEN n ELSE 0)
    BY <1>2, <1>4
  <2>2. g = [f EXCEPT ![d] = h]
    BY <1>1, <2>1
  <2> QED
    BY <2>2
<1> QED
  BY <1>3, <1>4

\* A table no entry of which changes.
LEMMA TableKept ==
    ASSUME NEW D, NEW f, NEW g, f \in [D -> Int], g \in [D -> Int],
           \A x \in D : g[x] = f[x] + 0
    PROVE  g = f
OBVIOUS

\* A table of tables of which no entry moves is the same.
LEMMA NestedKept ==
    ASSUME NEW D, NEW E, NEW f, NEW g, f \in [D -> [E -> Int]], g \in [D -> [E -> Int]],
           \A x \in D, y \in E : g[x][y] = f[x][y] + 0
    PROVE  g = f
<1>1. ASSUME NEW x \in D PROVE g[x] = f[x]
  OBVIOUS
<1> QED
  BY <1>1


\* Before the last call of a request the user can afford it.
Affordable(w) ==
    LET r == req[w]
    IN  /\ r.kind = "deposit" => WholeBank[r.user][local[w].bank] >= Worth(w)
        /\ r.kind \in {"withdraw", "buy"} => WholeAccount[r.user] >= Worth(w)
        /\ r.kind = "sell" => WholeOwned[r.user][r.company] >= r.amount

\* What was checked, and has been taken since, was enough.
LEMMA LastAffordable ==
    ASSUME OneThreadInv, NEW w, Workers = {w}, Orphans = {},
           pc[w] \in {"increaseBankAccount", "reportBalance"}
    PROVE  Affordable(w)
<1> DEFINE r == req[w]
           u == r.user
<1>0. /\ TypeInv /\ AccountedInv /\ BookingInv /\ CoveredInv /\ PaidInv /\ w \in Workers
      /\ WholeTerms /\ Numbers
  BY WholeIs, ColumnTypes DEF OneThreadInv, BooksInv
<1>1. /\ pc[w] # "idle" /\ r \in Requests /\ u \in Users /\ pc[w] \in CallsOf(r.kind)
      /\ r.kind \in {"deposit", "withdraw", "buy", "sell", "poll"}
      /\ r.kind \in Transfers \union Trades => Worth(w) \in Int
  BY <1>0, RequestFields, WorthType DEF TypeInv, Serving
<1>2. done[w] = DoneAt(r.kind, pc[w])
  BY <1>0, <1>1 DEF AccountedInv, Accounted, Made, Landed
<1>3. /\ r.kind \in {"deposit", "withdraw"} => pc[w] = "increaseBankAccount"
      /\ r.kind \in {"buy", "sell"} => pc[w] = "reportBalance"
  BY <1>1 DEF CallsOf, Transfers
<1>7. /\ \A v \in Users : WholeAccount[v] = account[v] - InFlight(w, MoneyTerm(v, w))
      /\ \A v \in Users, b \in Banks :
           WholeBank[v][b] = bank[v][b] - InFlight(w, MovedTerm(v, b, w))
      /\ \A v \in Users, c \in Companies :
           WholeOwned[v][c] = owned[v][c] - InFlight(w, DeliveredTerm(v, c, w))
  <2>1. WholeTerms
    BY <1>0
  <2> QED
    BY ONLY <2>1, Workers = {w} DEF WholeTerms
<1>4. ASSUME r.kind = "deposit" PROVE WholeBank[u][local[w].bank] >= Worth(w)
  <2> DEFINE b == local[w].bank
  <2>1. b \in Banks
    BY <1>0, <1>3, <1>4 DEF BookingInv, Booking, Chose, Transfers
  <2>2. bank[u][b] >= Worth(w)
    BY <1>0, <1>3, <1>4 DEF CoveredInv, Covered, DepositCovered
  <2>3. "increaseBankAccount" \notin done[w]
    BY <1>2, <1>3, <1>4 DEF DoneAt, Transfers
  <2>4. InFlight(w, MovedTerm(u, b, w)) = 0
    BY <1>1, <2>3 DEF InFlight, MovedTerm
  <2>5. WholeBank[u][b] = bank[u][b] - 0
    BY <1>1, <1>7, <2>1, <2>4
  <2>6. bank[u][b] \in Int
    BY <1>0, <1>1, <2>1 DEF Numbers
  <2> QED
    BY <2>2, <2>5, <2>6
<1>5. ASSUME r.kind \in {"withdraw", "buy"} PROVE WholeAccount[u] >= Worth(w)
  <2>1. account[u] >= 0 /\ account[u] \in Int
    BY <1>0, <1>1, <1>3, <1>5 DEF PaidInv, Paid, Numbers
  <2>2. "changeAccount" \in done[w]
    BY <1>2, <1>3, <1>5 DEF DoneAt, Transfers, Trades, Writes
  <2>3. AccountDelta(w) = -Worth(w) /\ Worth(w) \in Int
    BY <1>1, <1>5 DEF AccountDelta, Transfers, Trades
  <2>4. InFlight(w, MoneyTerm(u, w)) = -Worth(w)
    BY <1>1, <2>2, <2>3 DEF InFlight, MoneyTerm
  <2>5. WholeAccount[u] = account[u] - (-Worth(w))
    BY <1>1, <1>7, <2>4
  <2> QED
    BY <2>1, <2>3, <2>5
<1>6. ASSUME r.kind = "sell" PROVE WholeOwned[u][r.company] >= r.amount
  <2> DEFINE c == r.company
  <2>1. c \in Companies /\ r.amount \in Int
    BY <1>1, <1>6, RequestFields DEF Trades
  <2>2. owned[u][c] >= 0 /\ owned[u][c] \in Int
    BY <1>0, <1>1, <2>1 DEF CoveredInv, SharesCovered, Numbers
  <2>3. "upsertOwnedStock" \in done[w]
    BY <1>2, <1>3, <1>6 DEF DoneAt, Transfers, Trades, Writes
  <2>4. SharesDelta(w) = -r.amount
    BY <1>6 DEF SharesDelta
  <2>5. InFlight(w, DeliveredTerm(u, c, w)) = -r.amount
    BY <1>1, <2>3, <2>4 DEF InFlight, DeliveredTerm
  <2>6. WholeOwned[u][c] = owned[u][c] - (-r.amount)
    BY <1>1, <1>7, <2>1, <2>5
  <2> QED
    BY <2>1, <2>2, <2>6
<1> QED
  BY <1>4, <1>5, <1>6 DEF Affordable

WholeTables == <<WholeAccount, WholeBank, WholeOwned, WholeHistory>>

\* A step of a handler is a step of the exchange, or leaves it where it is.
LEMMA WholeStep ==
    ASSUME OneThreadInv, connected, TypeInv', AccountedInv', BookingInv', CoveredInv',
           NEW w, Workers = {w}, Orphans = {}, ~MayLose, Work(w)
    PROVE  Promise!Next \/ UNCHANGED WholeTables
<1> DEFINE r == req[w]
           u == r.user
<1>0. /\ TypeInv /\ AccountedInv /\ BooksInv /\ BookingInv /\ CoveredInv /\ PricedInv
      /\ w \in Workers
  BY DEF OneThreadInv, BooksInv
<1>1. WholeTyped /\ WholeTyped'
  <2>1. WholeTyped
    BY <1>0, WholeTypes
  <2>2. WholeTyped'
    BY WholeTypes, PTL
  <2> QED
    BY <2>1, <2>2
<1>2. /\ \A v \in Users : WholeAccount'[v] = WholeAccount[v] + Arrives(w, MoneyTerm(v, w)')
      /\ \A v \in Users, b \in Banks :
           WholeBank'[v][b] = WholeBank[v][b] + Arrives(w, MovedTerm(v, b, w)')
      /\ \A v \in Users, c \in Companies :
           WholeOwned'[v][c] = WholeOwned[v][c] + Arrives(w, DeliveredTerm(v, c, w)')
      /\ \A v \in Users :
           WholeHistory'[v] = WholeHistory[v] + Arrives(w, RecordedTerm(v, w)')
  BY <1>0, WholeMoves
<1>3. /\ pc[w] # "idle" /\ req' = req
      /\ r \in Requests /\ u \in Users
      /\ r.kind \in {"deposit", "withdraw", "buy", "sell", "poll"}
  BY <1>0, WorkBusy, WorkKeeps, RequestFields DEF TypeInv, Serving
<1>4. CASE pc'[w] # "idle" \/ done'[w] = {}
  <2>1. /\ \A v : Arrives(w, MoneyTerm(v, w)') = 0
        /\ \A v, b : Arrives(w, MovedTerm(v, b, w)') = 0
        /\ \A v, c : Arrives(w, DeliveredTerm(v, c, w)') = 0
        /\ \A v : Arrives(w, RecordedTerm(v, w)') = 0
    BY <1>4 DEF Arrives, MoneyTerm, MovedTerm, DeliveredTerm, RecordedTerm
  <2>2. WholeAccount' = WholeAccount /\ WholeHistory' = WholeHistory
    BY ONLY <1>1, <1>2, <2>1, TableKept DEF WholeTyped
  <2>3. WholeBank' = WholeBank
    BY ONLY <1>1, <1>2, <2>1, NestedKept DEF WholeTyped
  <2>4. WholeOwned' = WholeOwned
    BY ONLY <1>1, <1>2, <2>1, NestedKept DEF WholeTyped
  <2> QED
    BY <2>2, <2>3, <2>4 DEF WholeTables
<1>5. CASE pc'[w] = "idle" /\ done'[w] # {}
  <2>1. /\ done'[w] = Writes(r.kind) /\ local' = local
        /\ pc[w] \in {"increaseBankAccount", "reportBalance"}
    BY <1>0, <1>3, <1>5, WorkEnds
  <2>2. Affordable(w)
    BY <2>1, LastAffordable
  <2>3. /\ Worth(w)' = Worth(w) /\ AccountDelta(w)' = AccountDelta(w)
        /\ BankDelta(w)' = BankDelta(w) /\ SharesDelta(w)' = SharesDelta(w)
    BY <1>0, <1>3, <2>1, WorthKept
  <2>4. /\ \A v : MoneyTerm(v, w)' = IF "changeAccount" \in Writes(r.kind) /\ u = v
                                     THEN AccountDelta(w) ELSE 0
        /\ \A v, b : MovedTerm(v, b, w)'
                       = IF "increaseBankAccount" \in Writes(r.kind) /\ u = v /\ local[w].bank = b
                         THEN BankDelta(w) ELSE 0
        /\ \A v, c : DeliveredTerm(v, c, w)'
                       = IF "upsertOwnedStock" \in Writes(r.kind) /\ u = v /\ r.company = c
                         THEN SharesDelta(w) ELSE 0
        /\ \A v : RecordedTerm(v, w)' = IF "insertTradeHistory" \in Writes(r.kind) /\ u = v
                                        THEN 1 ELSE 0
    BY <1>3, <2>1, <2>3 DEF MoneyTerm, MovedTerm, DeliveredTerm, RecordedTerm
  <2>5. \A n : Arrives(w, n) = n
    BY <1>5 DEF Arrives
  <2>6. CASE r.kind \in Transfers
    <3> DEFINE bb == local[w].bank
               amount == r.amount
               money == AccountDelta(w)
               moved == BankDelta(w)
    <3>1. bb \in Banks /\ amount \in Amounts /\ amount \in Int
      <4>1. pc[w] = "increaseBankAccount"
        BY <1>0, <1>3, <2>1, <2>6 DEF TypeInv, Serving, CallsOf, Transfers
      <4>2. bb \in Banks
        BY <1>0, <2>6, <4>1 DEF BookingInv, Booking, Chose
      <4> QED
        BY <1>3, <2>6, <4>2, RequestFields
    <3>0. /\ r.kind = "deposit" => WholeBank[u][bb] >= amount
          /\ r.kind = "withdraw" => WholeAccount[u] >= amount
      BY <2>2, <2>6 DEF Affordable, Worth
    <3>2. /\ r.kind = "deposit" => money = amount /\ moved = -amount
          /\ r.kind = "withdraw" => money = -amount /\ moved = amount
          /\ r.kind \in {"deposit", "withdraw"} /\ money \in Int /\ moved \in Int
      BY <2>6, <3>1 DEF Transfers, AccountDelta, BankDelta, Worth
    <3> HIDE DEF r, u, bb, amount, money, moved
    <3>3. /\ \A v \in Users : WholeAccount'[v] = WholeAccount[v] + (IF v = u THEN money ELSE 0)
          /\ \A v \in Users, b \in Banks :
               WholeBank'[v][b] = WholeBank[v][b] + (IF v = u /\ b = bb THEN moved ELSE 0)
          /\ \A v \in Users, c \in Companies : WholeOwned'[v][c] = WholeOwned[v][c] + 0
          /\ \A v \in Users : WholeHistory'[v] = WholeHistory[v] + 0
      BY <1>2, <2>4, <2>5, <2>6 DEF Writes, Transfers, money, moved, u, bb, r
    <3>4. UNCHANGED <<WholeOwned, WholeHistory>>
      <4>1. WholeOwned' = WholeOwned
        BY ONLY <1>1, <3>3, NestedKept DEF WholeTyped
      <4>2. WholeHistory' = WholeHistory
        BY ONLY <1>1, <3>3, TableKept DEF WholeTyped
      <4> QED
        BY <4>1, <4>2
    <3>5. /\ WholeAccount' = [WholeAccount EXCEPT ![u] = @ + money]
          /\ \A m \in Int : money = -m => WholeAccount' = [WholeAccount EXCEPT ![u] = @ - m]
      <4>1. u \in Users /\ money \in Int
        BY <1>3, <3>2
      <4>2. WholeAccount \in [Users -> Int] /\ WholeAccount' \in [Users -> Int]
        BY <1>1 DEF WholeTyped
      <4>3. \A v \in Users : WholeAccount'[v] = WholeAccount[v] + (IF v = u THEN money ELSE 0)
        BY <3>3
      <4> QED
        BY ONLY <4>1, <4>2, <4>3
    <3>6. /\ WholeBank' = [WholeBank EXCEPT ![u][bb] = @ + moved]
          /\ \A m \in Int : moved = -m => WholeBank' = [WholeBank EXCEPT ![u][bb] = @ - m]
      BY ONLY <1>1, <1>3, <3>1, <3>2, <3>3, NestedUpdate DEF WholeTyped
    <3>8. CASE r.kind = "deposit"
      <4>1. WholeBank[u][bb] >= amount
        BY <3>0, <3>8
      <4>2. Promise!Deposit(u, bb, amount)
        BY <3>1, <3>2, <3>4, <3>5, <3>6, <3>8, <4>1 DEF Promise!Deposit
      <4> QED
        BY <1>3, <3>1, <4>2 DEF Promise!Next
    <3>9. CASE r.kind = "withdraw"
      <4>1. WholeAccount[u] >= amount
        BY <3>0, <3>9
      <4>2. Promise!Withdraw(u, bb, amount)
        BY <3>1, <3>2, <3>4, <3>5, <3>6, <3>9, <4>1 DEF Promise!Withdraw
      <4> QED
        BY <1>3, <3>1, <4>2 DEF Promise!Next
    <3> QED
      BY <3>2, <3>8, <3>9
  <2>7. CASE r.kind \in Trades
    <3> DEFINE cc == r.company
               amount == r.amount
               price == local[w].price
               money == AccountDelta(w)
               shares == SharesDelta(w)
    <3>1. cc \in Companies /\ amount \in Shares /\ amount \in Int /\ amount > 0
      BY <1>0, <1>3, <2>1, <2>7, RequestFields DEF TradeRequests, CoveredInv, Covered, TradePositive
    <3>2. price \in Prices /\ price \in Nat
      BY <1>0, <1>3, <2>1, <2>7, MoneyAssumption DEF PricedInv
    <3>3. amount * price \in Int
      BY <3>1, <3>2
    <3>4. Worth(w) = amount * price
      BY <2>7 DEF Worth, Transfers, Trades
    <3>5. /\ r.kind = "buy" => money = -(amount * price) /\ shares = amount
          /\ r.kind = "sell" => money = amount * price /\ shares = -amount
          /\ r.kind \in {"buy", "sell"}
      BY <2>7, <3>4 DEF Trades, AccountDelta, SharesDelta
    <3>6. money \in Int /\ shares \in Int
      BY <3>1, <3>3, <3>5
    <3>12. /\ r.kind = "buy" => WholeAccount[u] >= amount * price
           /\ r.kind = "sell" => WholeOwned[u][cc] >= amount
      BY <2>2, <3>4 DEF Affordable
    <3> HIDE DEF r, u, cc, amount, price, money, shares
    <3>7. /\ \A v \in Users : WholeAccount'[v] = WholeAccount[v] + (IF v = u THEN money ELSE 0)
          /\ \A v \in Users, b \in Banks : WholeBank'[v][b] = WholeBank[v][b] + 0
          /\ \A v \in Users, c \in Companies :
               WholeOwned'[v][c] = WholeOwned[v][c] + (IF v = u /\ c = cc THEN shares ELSE 0)
          /\ \A v \in Users : WholeHistory'[v] = WholeHistory[v] + (IF v = u THEN 1 ELSE 0)
      BY <1>2, <2>4, <2>5, <2>7, <3>5 DEF Writes, Transfers, money, shares, u, cc, r
    <3>8. UNCHANGED WholeBank
      BY ONLY <1>1, <3>7, NestedKept DEF WholeTyped
    <3>9. /\ WholeAccount' = [WholeAccount EXCEPT ![u] = @ + money]
          /\ \A m \in Int : money = -m => WholeAccount' = [WholeAccount EXCEPT ![u] = @ - m]
      BY ONLY <1>1, <1>3, <3>6, <3>7, EntryUpdate DEF WholeTyped
    <3>10. /\ WholeOwned' = [WholeOwned EXCEPT ![u][cc] = @ + shares]
           /\ \A m \in Int : shares = -m => WholeOwned' = [WholeOwned EXCEPT ![u][cc] = @ - m]
      BY ONLY <1>1, <1>3, <3>1, <3>6, <3>7, NestedUpdate DEF WholeTyped
    <3>11. WholeHistory' = [WholeHistory EXCEPT ![u] = @ + 1]
      BY ONLY <1>1, <1>3, <3>7, EntryUpdate DEF WholeTyped
    <3>13. CASE r.kind = "buy"
      <4>1. WholeAccount[u] >= amount * price
        BY <3>12, <3>13
      <4>2. Promise!Buy(u, cc, amount, price)
        BY <3>1, <3>3, <3>5, <3>8, <3>9, <3>10, <3>11, <3>13, <4>1 DEF Promise!Buy
      <4> QED
        BY <1>3, <3>1, <3>2, <4>2 DEF Promise!Next
    <3>14. CASE r.kind = "sell"
      <4>1. WholeOwned[u][cc] >= amount
        BY <3>12, <3>14
      <4>2. Promise!Sell(u, cc, amount, price)
        BY <3>1, <3>3, <3>5, <3>8, <3>9, <3>10, <3>11, <3>14, <4>1 DEF Promise!Sell
      <4> QED
        BY <1>3, <3>1, <3>2, <4>2 DEF Promise!Next
    <3> QED
      BY <3>5, <3>13, <3>14
  <2>8. CASE r.kind = "poll"
    BY <1>5, <2>1, <2>8 DEF Writes, Transfers
  <2> QED
    BY <1>3, <2>6, <2>7, <2>8 DEF Transfers, Trades
<1> QED
  BY <1>4, <1>5


\* The connection of such a server holds.
LEMMA ConnectionHolds ==
    ASSUME TypeInv, connected, ~MayLose, [Next]_vars
    PROVE  connected'
<1>1. ASSUME NEW p \in Workers, Start(p) \/ Work(p)
      PROVE  connected' = connected
  <2>1. \A outcome : Answer(p, outcome) => connected' = connected
    BY DEF Answer
  <2>2. \A next : Return(p, next) => connected' = connected
    BY DEF Return
  <2>3. \A writes, next : Commit(p, writes, next) => connected' = connected
    BY DEF Commit
  <2>4. CASE Start(p) \/ Open(p) \/ Refused(p) \/ Aborted(p)
    BY <2>1, <2>4 DEF Start, Open, Refused, Aborted
  <2>5. CASE SidToUid(p)
    BY <2>1, <2>2, <2>5 DEF SidToUid
  <2>6. CASE SelectFromBankAccount(p)
    BY <2>1, <2>2, <2>6 DEF SelectFromBankAccount
  <2>7. CASE SelectFromAccountInfo(p) \/ ReportBalance(p) \/ CountOwnedStock(p)
    BY <2>1, <2>2, <2>7 DEF SelectFromAccountInfo, ReportBalance, CountOwnedStock
  <2>8. CASE SelectFromOwnedStock(p)
    <3>1. Calling(p, "selectFromOwnedStock")
      BY <2>8 DEF SelectFromOwnedStock
    <3>2. req[p].kind \in {"buy", "sell", "poll"}
      BY <3>1, CallFacts DEF Calls, CallsOf
    <3> QED
      BY <2>1, <2>2, <2>8, <3>2 DEF SelectFromOwnedStock
  <2>9. CASE SelectFromAvgPrice(p)
    BY <2>2, <2>9 DEF SelectFromAvgPrice
  <2>10. CASE \/ InsertTradeHistory(p) \/ UpsertAvgPrice(p) \/ UpsertOwnedStock(p)
              \/ ChangeAccount(p) \/ IncreaseBankAccount(p)
    BY <2>3, <2>10 DEF InsertTradeHistory, UpsertAvgPrice, UpsertOwnedStock, ChangeAccount,
                       IncreaseBankAccount
  <2> QED
    BY <1>1, <2>4, <2>5, <2>6, <2>7, <2>8, <2>9, <2>10 DEF Work, Call
<1> QED
  BY <1>1 DEF Next, Waiting, LoseConnection, vars

\* OneThreadInv is inductive, also when the connection may break.
LEMMA NextOneThread ==
    ASSUME OneThreadInv, NEW w, Workers = {w}, [Next]_vars
    PROVE  OneThreadInv'
<1>1. /\ TypeInv /\ AccountedInv /\ BooksInv /\ BookingInv /\ CoveredInv /\ PricedInv
      /\ w \in Workers
  BY DEF OneThreadInv, BooksInv
<1>2. TypeInv' /\ AccountedInv' /\ BooksInv' /\ CoveredInv'
  BY <1>1, NextTyped, NextAccounted, NextBooks, NextCovered
<1>3. PricedInv'
  <2>1. CASE Start(w)
    <3>1. pc'[w] = "sidToUid"
      BY <1>1, <2>1 DEF Start, TypeInv, TypeOK, HandlersOK
    <3> QED
      BY <3>1 DEF PricedInv
  <2>2. CASE Work(w)
    BY <1>1, <2>2, WorkPriced
  <2>3. CASE LoseConnection \/ UNCHANGED vars
    BY <1>1, <2>3 DEF LoseConnection, vars, PricedInv
  <2> QED
    BY <2>1, <2>2, <2>3 DEF Next, Waiting
<1>4. PaidInv'
  <2>1. CASE Start(w)
    <3>1. pc'[w] = "sidToUid"
      BY <1>1, <2>1 DEF Start, TypeInv, TypeOK, HandlersOK
    <3> QED
      BY <3>1 DEF PaidInv, Paid
  <2>2. CASE Work(w)
    BY <1>1, <2>2, WorkPaid DEF OneThreadInv
  <2>3. CASE LoseConnection \/ UNCHANGED vars
    BY <2>3 DEF LoseConnection, vars, tables, PaidInv, Paid, OneThreadInv
  <2> QED
    BY <2>1, <2>2, <2>3 DEF Next, Waiting
<1> QED
  BY <1>2, <1>3, <1>4 DEF OneThreadInv

\* The invariant of the one thread holds initially.
LEMMA InitOneThread == Init => OneThreadInv
<1> SUFFICES ASSUME Init PROVE OneThreadInv
  OBVIOUS
<1>1. TypeInv /\ BooksInv /\ AccountedInv
  BY InitTyped, InitBooks DEF Init, AccountedInv, Accounted
<1>2. CoveredInv
  BY InitCovered
<1>3. PricedInv /\ PaidInv
  BY DEF Init, PricedInv, PaidInv, Paid
<1> QED
  BY <1>1, <1>2, <1>3 DEF OneThreadInv

\* A new server is a new exchange.
LEMMA InitWhole ==
    ASSUME NEW w, Workers = {w}, Init
    PROVE  Promise!Init
<1>1. TypeInv /\ BookingInv
  BY InitTyped, InitBooks DEF BooksInv
<1>2. WholeTerms /\ WholeTyped
  BY <1>1, WholeIs, WholeTypes
<1>3. pc[w] = "idle"
  BY DEF Init
<1>4. /\ WholeAccount = [u \in Users |-> account[u] - 0]
      /\ WholeBank = [u \in Users |-> [b \in Banks |-> bank[u][b] - 0]]
      /\ WholeOwned = [u \in Users |-> [c \in Companies |-> owned[u][c] - 0]]
      /\ WholeHistory = [u \in Users |-> history[u] - 0]
  BY <1>2, <1>3 DEF WholeTerms, InFlight
<1>5. /\ \A u \in Users : account[u] - 0 = 0 /\ history[u] - 0 = 0
      /\ \A u \in Users, b \in Banks : bank[u][b] - 0 = OpeningBalance
      /\ \A u \in Users, c \in Companies : owned[u][c] - 0 = 0
  BY MoneyAssumption DEF Init
<1>6. WholeAccount = [u \in Users |-> 0] /\ WholeHistory = [u \in Users |-> 0]
  BY <1>4, <1>5
<1>7. WholeBank = [u \in Users |-> [b \in Banks |-> OpeningBalance]]
  BY <1>4, <1>5
<1>8. WholeOwned = [u \in Users |-> [c \in Companies |-> 0]]
  BY <1>4, <1>5
<1> QED
  BY <1>6, <1>7, <1>8 DEF Promise!Init

\* A new request finds the tables whole, and leaves them.
LEMMA WholeStart ==
    ASSUME OneThreadInv, TypeInv', BookingInv', NEW w, Workers = {w}, Start(w)
    PROVE  UNCHANGED WholeTables
<1>1. WholeTerms /\ TypeInv /\ w \in Workers
  BY WholeIs DEF OneThreadInv, BooksInv
<1>2. WholeTerms'
  BY WholeIs, PTL
<1>3. /\ pc[w] = "idle" /\ done'[w] = {}
      /\ UNCHANGED <<account, bank, owned, history>>
  BY <1>1 DEF Start, tables, TypeInv, TypeOK, HandlersOK
<1>4. /\ \A u : InFlight(w, MoneyTerm(u, w)) = 0 /\ InFlight(w, MoneyTerm(u, w))' = 0
      /\ \A u, b : InFlight(w, MovedTerm(u, b, w)) = 0 /\ InFlight(w, MovedTerm(u, b, w))' = 0
      /\ \A u, c : InFlight(w, DeliveredTerm(u, c, w)) = 0
                   /\ InFlight(w, DeliveredTerm(u, c, w))' = 0
      /\ \A u : InFlight(w, RecordedTerm(u, w)) = 0 /\ InFlight(w, RecordedTerm(u, w))' = 0
  BY <1>3 DEF InFlight, MoneyTerm, MovedTerm, DeliveredTerm, RecordedTerm
<1>5. /\ WholeAccount = [u \in Users |-> account[u] - 0]
      /\ WholeBank = [u \in Users |-> [b \in Banks |-> bank[u][b] - 0]]
      /\ WholeOwned = [u \in Users |-> [c \in Companies |-> owned[u][c] - 0]]
      /\ WholeHistory = [u \in Users |-> history[u] - 0]
  BY <1>1, <1>3 DEF WholeTerms, InFlight
<1>6. /\ WholeAccount' = [u \in Users |-> account'[u] - InFlight(w, MoneyTerm(u, w))']
      /\ WholeBank' = [u \in Users |-> [b \in Banks |->
                         bank'[u][b] - InFlight(w, MovedTerm(u, b, w))']]
      /\ WholeOwned' = [u \in Users |-> [c \in Companies |->
                          owned'[u][c] - InFlight(w, DeliveredTerm(u, c, w))']]
      /\ WholeHistory' = [u \in Users |-> history'[u] - InFlight(w, RecordedTerm(u, w))']
  BY <1>2 DEF WholeTerms
<1>7. /\ WholeAccount' = [u \in Users |-> account[u] - 0]
      /\ WholeBank' = [u \in Users |-> [b \in Banks |-> bank[u][b] - 0]]
      /\ WholeOwned' = [u \in Users |-> [c \in Companies |-> owned[u][c] - 0]]
      /\ WholeHistory' = [u \in Users |-> history[u] - 0]
  BY <1>3, <1>4, <1>6, Zenon
<1> QED
  BY <1>5, <1>7 DEF WholeTables

\* Every step of the server is a step of the exchange or leaves it alone.
LEMMA NextWhole ==
    ASSUME OneThreadInv, OneThreadInv', connected, NEW w, Workers = {w}, Orphans = {},
           ~MayLose, [Next]_vars
    PROVE  Promise!Next \/ UNCHANGED WholeTables
<1>1. TypeInv' /\ AccountedInv' /\ BookingInv' /\ CoveredInv'
  BY DEF OneThreadInv, BooksInv
<1>2. CASE Start(w)
  BY <1>1, <1>2, WholeStart
<1>3. CASE Work(w)
  BY <1>1, <1>3, WholeStep
<1>4. CASE UNCHANGED vars
  BY <1>4 DEF vars, WholeTables, WholeAccount, WholeBank, WholeOwned, WholeHistory, InProgress,
              Money, Moved, Delivered, Recorded, IfDone, AccountDelta, BankDelta, SharesDelta, Worth
<1> QED
  BY <1>2, <1>3, <1>4 DEF Next, Waiting, LoseConnection

\* A server with one thread, a balance row for every user and a connection
\* that holds is the exchange it promises to be: whatever the handlers read
\* and write on the way, each request takes effect as a whole, at its answer,
\* and only when the user can afford it.
THEOREM OneThreadIsAnExchange ==
    \A w : Workers = {w} /\ Orphans = {} /\ ~MayLose => (Spec => ImplementsExchange)
<1> SUFFICES ASSUME NEW w, Workers = {w}, Orphans = {}, ~MayLose
             PROVE  Spec => ImplementsExchange
  OBVIOUS
<1>1. Init => Promise!Init
  BY InitWhole
<1>2. OneThreadInv /\ [Next]_vars => OneThreadInv'
  BY NextOneThread
<1>3. Init => connected
  BY DEF Init
<1>4. TypeInv /\ connected /\ [Next]_vars => connected'
  BY ConnectionHolds
<1>5. OneThreadInv /\ OneThreadInv' /\ connected /\ [Next]_vars
        => [Promise!Next]_(Promise!vars)
  BY NextWhole DEF WholeTables, Promise!vars
<1> QED
  BY <1>1, <1>2, <1>3, <1>4, <1>5, InitOneThread, TypeCorrect, PTL
     DEF Spec, ImplementsExchange, Promise!Spec


-----------------------------------------------------------------------------
(* Averages: each is of prices or of averages before it, cut to the dollar. *)

\* Quotients of whole numbers, one factor at a time.
LEMMA DivBounds ==
    ASSUME NEW a \in Int, NEW b \in Nat \ {0}
    PROVE  /\ a \div b \in Int /\ b * (a \div b) \in Int
           /\ b * (a \div b) <= a /\ a < b * (a \div b) + b
OBVIOUS

\* Multiplying by a natural number keeps an order.
LEMMA ProductOrder ==
    ASSUME NEW a \in Int, NEW b \in Int, NEW k \in Nat, a <= b
    PROVE  k * a <= k * b
OBVIOUS

\* Dividing by a positive number keeps an order.
LEMMA FactorOrder ==
    ASSUME NEW a \in Int, NEW b \in Int, NEW k \in Nat \ {0}
    PROVE  /\ k * a <= k * b => a <= b
           /\ k * a < k * b => a < b
OBVIOUS

\* Products of integers associate and distribute.
LEMMA Products ==
    ASSUME NEW a \in Int, NEW b \in Int, NEW c \in Int
    PROVE  /\ a * b \in Int /\ a * (b * c) = (a * b) * c
           /\ (a + b) * c = a * c + b * c
OBVIOUS

\* No quotient whose average price is at most m dollars, or at least a whole
\* number of them, leaves these bounds by being cut to whole dollars.
LEMMA WholeDollarsWithin ==
    ASSUME NEW num \in Nat, NEW den \in Nat \ {0}, NEW m \in Nat, num <= den * m
    PROVE  LET whole == WholeDollars([num |-> num, den |-> den])
           IN  /\ whole \in Nat /\ whole <= m
               /\ \A n \in Nat : num >= den * (Dollar * n) => whole >= Dollar * n
<1> DEFINE b == den * Dollar
           k == num \div b
<1>1. Dollar \in Nat \ {0} /\ b \in Nat \ {0}
  BY MoneyAssumption
<1>2. WholeDollars([num |-> num, den |-> den]) = Dollar * k
  BY DEF WholeDollars
<1> HIDE DEF b
<1>3. /\ k \in Int /\ b * k \in Int
      /\ b * k <= num /\ num < b * k + b
  <2>1. num \in Int
    OBVIOUS
  <2> QED
    BY ONLY <1>1, <2>1, DivBounds DEF k
<1> HIDE DEF k
<1>4. b * k + b = b * (k + 1) /\ b * 0 = 0
  BY <1>1, <1>3
<1>5. k \in Nat
  <2>1. b * 0 < b * (k + 1)
    BY <1>1, <1>3, <1>4
  <2>2. 0 < k + 1
    BY ONLY <1>1, <1>3, <2>1, FactorOrder
  <2> QED
    BY <1>3, <2>2
<1>6. Dollar * k \in Nat
  BY <1>1, <1>5
<1>7. b * k = den * (Dollar * k)
  BY <1>1, <1>5 DEF b
<1>8. Dollar * k <= m
  <2>1. den * (Dollar * k) <= den * m
    BY <1>3, <1>7, <1>1
  <2> QED
    BY ONLY <1>6, <2>1, FactorOrder, m \in Nat, den \in Nat \ {0}
<1>9. ASSUME NEW n \in Nat, num >= den * (Dollar * n)
      PROVE  Dollar * k >= Dollar * n
  <2>1. den * (Dollar * n) = b * n
    BY <1>1 DEF b
  <2>2. b * n < b * (k + 1)
    BY <1>1, <1>3, <1>4, <1>9, <2>1
  <2>3. n < k + 1
    BY ONLY <1>1, <1>5, <2>2, FactorOrder, n \in Nat
  <2>4. n <= k
    BY <1>5, <2>3
  <2> QED
    BY ONLY <1>1, <1>5, <2>4, ProductOrder, n \in Nat
<1> QED
  BY <1>2, <1>6, <1>8, <1>9

\* The price of the cheapest share, cut to the dollar.
LEMMA LowestPriceIs ==
    ASSUME Prices # {}
    PROVE  /\ LowestPrice \in Nat
           /\ \E n \in Nat : LowestPrice = Dollar * n
           /\ \A price \in Prices : LowestPrice <= price
<1> DEFINE least == Min(Prices)
           k == least \div Dollar
<1>1. Prices \subseteq Int /\ IsFiniteSet(Prices) /\ Prices # {}
  BY NumbersAssumption, MoneyAssumption
<1>2. least \in Prices /\ \A price \in Prices : least <= price
  BY ONLY <1>1, MinIsBound
<1>3. least \in Nat /\ Dollar \in Nat \ {0}
  BY <1>2, MoneyAssumption
<1> HIDE DEF least
<1>4. least <= 1 * least /\ 1 \in Nat \ {0}
  BY <1>3
<1>5. /\ LowestPrice \in Nat /\ LowestPrice <= least
  BY <1>3, <1>4, WholeDollarsWithin DEF LowestPrice, least
<1>6. LowestPrice = Dollar * k
  BY <1>3 DEF LowestPrice, WholeDollars, least
<1>7. k \in Nat
  BY <1>3
<1>8. \A price \in Prices : price \in Nat /\ LowestPrice <= price
  BY <1>2, <1>3, <1>5, MoneyAssumption
<1> QED
  BY <1>5, <1>6, <1>7, <1>8

\* No price the feed serves is above LargestPrice.
LEMMA LargestPriceIs == LargestPrice \in Nat /\ \A price \in Prices : price <= LargestPrice
<1>1. Prices \subseteq Int /\ IsFiniteSet(Prices)
  BY NumbersAssumption, MoneyAssumption
<1> QED
  BY ONLY <1>1, LargestOf DEF LargestPrice

\* The average of o shares at an average of a and n more at a price.
LEMMA AverageOf ==
    ASSUME NEW o \in Nat, NEW a \in Nat, NEW n \in Nat, NEW price \in Nat,
           NEW low \in Nat, NEW high \in Nat, a <= high, price <= high, low <= price,
           o > 0 => low <= a
    PROVE  /\ o * a + n * price \in Nat
           /\ o * a + n * price <= (o + n) * high
           /\ o * a + n * price >= (o + n) * low
<1>1. (o + n) * high = o * high + n * high /\ (o + n) * low = o * low + n * low
  BY Products
<1>2. /\ o * a \in Nat /\ n * price \in Nat
      /\ o * high \in Nat /\ n * high \in Nat /\ o * low \in Nat /\ n * low \in Nat
  OBVIOUS
<1>3. o * a <= o * high /\ n * price <= n * high /\ n * low <= n * price
  BY ProductOrder
<1>4. o * low <= o * a
  <2>1. CASE o = 0
    BY <2>1
  <2>2. CASE o > 0
    BY <2>2, ProductOrder
  <2> QED
    BY <2>1, <2>2
<1> QED
  BY <1>1, <1>2, <1>3, <1>4


AtLeast(q) == q.num >= q.den * LowestPrice
Proper(q) == q.den \in Nat \ {0} /\ q.num \in Nat /\ q.num <= q.den * LargestPrice

\* Shares that are owned have been averaged, and so have those a purchase is
\* about to deliver.
AveragesSound ==
    \A u \in Users, c \in Companies :
        /\ Proper(avg[u][c])
        /\ avg[u][c] # NoAverage \/ owned[u][c] > 0 => AtLeast(avg[u][c])

\* What a purchase holds at its calls to averages is within the prices, too.
Averaging(p) ==
    req[p].kind = "buy" =>
        /\ pc[p] = "selectFromAvgPrice" =>
             /\ local[p].owned \in Nat
             /\ local[p].owned > 0 => AtLeast(avg[req[p].user][req[p].company])
        /\ pc[p] = "upsertAvgPrice" =>
             /\ local[p].owned \in Nat /\ local[p].avg \in Nat
             /\ local[p].avg <= LargestPrice
             /\ local[p].owned > 0 => local[p].avg >= LowestPrice
        /\ pc[p] = "upsertOwnedStock" => AtLeast(avg[req[p].user][req[p].company])
AveragedInv == AveragesSound /\ \A p \in Workers : Averaging(p)

\* What the other workers hold stays within the prices as the averages do.
LEMMA OthersAveraged ==
    ASSUME AveragedInv, NEW p \in Workers, Frame(p),
           \A u \in Users, c \in Companies : AtLeast(avg[u][c]) => AtLeast(avg'[u][c]),
           NEW q \in Workers \ {p}, req[q].kind = "buy" =>
               req[q].user \in Users /\ req[q].company \in Companies
    PROVE  Averaging(q)'
<1>1. Averaging(q) /\ pc'[q] = pc[q] /\ req'[q] = req[q] /\ local'[q] = local[q]
  BY DEF AveragedInv, Frame
<1> QED
  BY <1>1 DEF Averaging, AtLeast

\* The fields of a worker's purchase.
LEMMA BuyerFields ==
    ASSUME TypeInv, NEW q \in Workers, req[q].kind = "buy"
    PROVE  req[q].user \in Users /\ req[q].company \in Companies
<1>1. req[q] \in Requests
  BY DEF TypeInv, TypeOK, HandlersOK, NoRequest
<1> QED
  BY <1>1, RequestFields DEF Trades

\* The averages are sound after a step when they and the worker's own are.
LEMMA AveragedStep ==
    ASSUME TypeInv, AveragedInv, NEW p \in Workers, Frame(p), AveragesSound', Averaging(p)',
           \A u \in Users, c \in Companies : AtLeast(avg[u][c]) => AtLeast(avg'[u][c])
    PROVE  AveragedInv'
BY OthersAveraged, BuyerFields DEF AveragedInv

\* A step that writes no average, delivers no shares and does not bring the
\* worker to a call where averages matter.
LEMMA AveragesKept ==
    ASSUME TypeInv, AveragedInv, NEW p \in Workers, Frame(p), avg' = avg,
           \A u \in Users, c \in Companies : owned'[u][c] > 0 => owned[u][c] > 0,
           req'[p].kind = "buy" => pc'[p] \notin {"selectFromAvgPrice", "upsertAvgPrice",
                                                  "upsertOwnedStock"}
    PROVE  AveragedInv'
<1>1. AveragesSound'
  BY DEF AveragedInv, AveragesSound, Proper, AtLeast
<1>2. Averaging(p)'
  BY DEF Averaging
<1> QED
  BY <1>1, <1>2, AveragedStep

\* A call keeps every average price between the bounds, as long as no share
\* count is below zero.
LEMMA CallAveraged ==
    ASSUME TypeInv, TypeInv', SharesCovered, SoundInv, AveragedInv,
           NEW p \in Workers, Call(p)
    PROVE  AveragedInv'
<1> DEFINE u == req[p].user
           c == req[p].company
<1>0. /\ pc \in [Workers -> Calls \union {"idle"}] /\ local \in [Workers -> Locals]
      /\ owned \in [Users -> [Companies -> Int]]
      /\ avg \in [Users -> [Companies -> Quotients]]
      /\ owned' \in [Users -> [Companies -> Int]]
      /\ avg' \in [Users -> [Companies -> Quotients]]
      /\ req' = req /\ Frame(p)
      /\ AveragesSound /\ Averaging(p) /\ TradeSound(p)
  BY WorkKeeps, WorkFrame DEF TypeInv, TypeOK, TablesOK, HandlersOK, AveragedInv, Work, SoundInv
<1>1. \A outcome : Answer(p, outcome) => pc'[p] = "idle"
  BY <1>0 DEF Answer
<1>2. \A next : Return(p, next) => pc'[p] = next
  BY <1>0 DEF Return
<1>3. \A writes, next : Commit(p, writes, next) => pc'[p] \in {next, "idle"} /\ local' = local
  BY <1>0 DEF Commit
<1>4. ASSUME avg' = avg, owned' = owned,
             req[p].kind = "buy" => pc'[p] \notin {"selectFromAvgPrice", "upsertAvgPrice",
                                                   "upsertOwnedStock"}
      PROVE  AveragedInv'
  BY <1>0, <1>4, AveragesKept
<1>5. CASE SidToUid(p)
  <2>1. avg' = avg /\ owned' = owned /\ Calling(p, "sidToUid")
    BY <1>5 DEF SidToUid, tables
  <2>2. req[p].kind = "buy" => FirstCall(req[p].kind) = "selectFromAccountInfo"
    BY DEF FirstCall, Transfers
  <2>3. pc'[p] \in {"idle", FirstCall(req[p].kind)}
    BY <1>1, <1>2, <1>5 DEF SidToUid
  <2> QED
    BY <1>4, <2>1, <2>2, <2>3
<1>6. CASE SelectFromBankAccount(p)
  <2>1. avg' = avg /\ owned' = owned
    BY <1>6 DEF SelectFromBankAccount, tables
  <2>2. pc'[p] \in {"idle", "selectFromAccountInfo", "changeAccount"}
    BY <1>1, <1>2, <1>6 DEF SelectFromBankAccount
  <2> QED
    BY <1>4, <2>1, <2>2
<1>7. CASE SelectFromAccountInfo(p)
  <2>1. avg' = avg /\ owned' = owned
    BY <1>7 DEF SelectFromAccountInfo, tables
  <2>2. pc'[p] \in {"idle", "insertTradeHistory", "changeAccount"}
    BY <1>1, <1>2, <1>7 DEF SelectFromAccountInfo
  <2> QED
    BY <1>4, <2>1, <2>2
<1>8. CASE ReportBalance(p) \/ CountOwnedStock(p)
  <2>1. avg' = avg /\ owned' = owned
    BY <1>8 DEF ReportBalance, CountOwnedStock, tables
  <2>2. pc'[p] \in {"idle", "insertTradeHistory"}
    BY <1>1, <1>2, <1>8 DEF ReportBalance, CountOwnedStock
  <2> QED
    BY <1>4, <2>1, <2>2
<1>9. CASE InsertTradeHistory(p)
  <2>1. avg' = avg /\ owned' = owned
    BY <1>9 DEF InsertTradeHistory
  <2>2. req[p].kind = "buy" => pc'[p] \in {"idle", "selectFromOwnedStock"}
    BY <1>3, <1>9 DEF InsertTradeHistory
  <2> QED
    BY <1>4, <2>1, <2>2
<1>10. CASE ChangeAccount(p)
  <2>1. avg' = avg /\ owned' = owned
    BY <1>10 DEF ChangeAccount
  <2>2. pc'[p] \in {"idle", "increaseBankAccount", "reportBalance"}
    BY <1>3, <1>10 DEF ChangeAccount
  <2> QED
    BY <1>4, <2>1, <2>2
<1>11. CASE IncreaseBankAccount(p)
  <2>1. avg' = avg /\ owned' = owned
    BY <1>11 DEF IncreaseBankAccount
  <2>2. pc'[p] = "idle"
    BY <1>3, <1>11 DEF IncreaseBankAccount
  <2> QED
    BY <1>4, <2>1, <2>2
<1>12. CASE SelectFromOwnedStock(p)
  <2>1. /\ Calling(p, "selectFromOwnedStock") /\ avg' = avg /\ owned' = owned
        /\ local' = [local EXCEPT ![p].owned = owned[u][c]]
    BY <1>12 DEF SelectFromOwnedStock, tables
  <2>2. CASE req[p].kind = "buy"
    <3>1. pc'[p] = "selectFromAvgPrice"
      BY <1>2, <1>12, <2>2 DEF SelectFromOwnedStock
    <3>2. u \in Users /\ c \in Companies
      BY <2>2, BuyerFields
    <3>3. local'[p].owned = owned[u][c] /\ owned[u][c] \in Nat
      BY <1>0, <2>1, <3>2 DEF Locals, SharesCovered
    <3>4. owned[u][c] > 0 => AtLeast(avg[u][c])
      BY <1>0, <3>2 DEF AveragesSound
    <3>5. Averaging(p)'
      BY <1>0, <2>1, <3>1, <3>3, <3>4 DEF Averaging, AtLeast
    <3>6. AveragesSound'
      BY <1>0, <2>1 DEF AveragesSound, Proper, AtLeast
    <3> QED
      BY <1>0, <2>1, <3>5, <3>6, AveragedStep
  <2> QED
    BY <1>4, <2>1, <2>2
<1>13. CASE SelectFromAvgPrice(p)
  <2>1. /\ Calling(p, "selectFromAvgPrice") /\ avg' = avg /\ owned' = owned
        /\ local' = [local EXCEPT ![p].avg = WholeDollars(avg[u][c])]
        /\ pc'[p] = "upsertAvgPrice"
    BY <1>2, <1>13 DEF SelectFromAvgPrice, tables
  <2>2. req[p].kind = "buy" /\ u \in Users /\ c \in Companies
    BY <2>1, CallFacts, RequestFields DEF Calls, CallsOf, Trades
  <2>3. /\ local'[p].avg = WholeDollars(avg[u][c]) /\ local'[p].owned = local[p].owned
    BY <1>0, <2>1, <2>2 DEF Locals
  <2>4. local[p].owned \in Nat /\ (local[p].owned > 0 => AtLeast(avg[u][c]))
    BY <1>0, <2>1, <2>2 DEF Averaging, Calling
  <2> DEFINE num == avg[u][c].num
             den == avg[u][c].den
  <2>5. /\ num \in Nat /\ den \in Nat \ {0} /\ num <= den * LargestPrice
        /\ local[p].owned > 0 => num >= den * LowestPrice
        /\ avg[u][c] = [num |-> num, den |-> den]
    BY <1>0, <2>2, <2>4 DEF AveragesSound, Proper, AtLeast, Quotients
  <2>6. LargestPrice \in Nat
    BY LargestPriceIs
  <2>7. /\ WholeDollars(avg[u][c]) \in Nat /\ WholeDollars(avg[u][c]) <= LargestPrice
        /\ \A n \in Nat : num >= den * (Dollar * n) => WholeDollars(avg[u][c]) >= Dollar * n
    <3> HIDE DEF num, den
    <3>1. LET whole == WholeDollars([num |-> num, den |-> den])
          IN  /\ whole \in Nat /\ whole <= LargestPrice
              /\ \A n \in Nat : num >= den * (Dollar * n) => whole >= Dollar * n
      BY ONLY <2>5, <2>6, WholeDollarsWithin
    <3> QED
      BY <2>5, <3>1
  <2>8. local[p].owned > 0 => WholeDollars(avg[u][c]) >= LowestPrice
    <3>1. PICK n \in Nat : LowestPrice = Dollar * n
      <4>1. Prices # {}
        BY <1>0, <2>1, <2>2 DEF TradeSound, Calling, Trades
      <4> QED
        BY <4>1, LowestPriceIs
    <3> QED
      BY <2>5, <2>7, <3>1
  <2>9. Averaging(p)'
    BY <1>0, <2>1, <2>3, <2>4, <2>7, <2>8 DEF Averaging
  <2>10. AveragesSound'
    BY <1>0, <2>1 DEF AveragesSound, Proper, AtLeast
  <2> QED
    BY <1>0, <2>1, <2>9, <2>10, AveragedStep
<1>14. CASE UpsertAvgPrice(p)
  <2> DEFINE o == local[p].owned
             a == local[p].avg
             n == req[p].amount
             price == local[p].price
             q == [num |-> o * a + Worth(p), den |-> o + n]
  <2>1. /\ Calling(p, "upsertAvgPrice") /\ owned' = owned
        /\ avg' = [avg EXCEPT ![u][c] = q]
        /\ pc'[p] \in {"upsertOwnedStock", "idle"}
    BY <1>3, <1>14 DEF UpsertAvgPrice
  <2>2. req[p].kind = "buy" /\ u \in Users /\ c \in Companies
    BY <2>1, CallFacts, RequestFields DEF Calls, CallsOf, Trades
  <2>3. n \in Nat \ {0}
    <3>1. n \in Int
      BY <2>1, <2>2, CallFacts, RequestFields DEF Calls, Trades
    <3>2. n > 0
      BY <1>0, <2>1, <2>2 DEF TradeSound, Calling, Trades
    <3> QED
      BY <3>1, <3>2
  <2>4. price \in Prices
    BY <1>0, <2>1, <2>2 DEF TradeSound, Calling, Trades
  <2>5. price \in Nat /\ price <= LargestPrice /\ LargestPrice \in Nat
        /\ LowestPrice \in Nat /\ LowestPrice <= price
    <3>1. Prices # {}
      BY <2>4
    <3> QED
      BY <2>4, <3>1, LowestPriceIs, LargestPriceIs, MoneyAssumption
  <2>6. /\ o \in Nat /\ a \in Nat /\ a <= LargestPrice
        /\ o > 0 => LowestPrice <= a
    <3>1. /\ o \in Nat /\ a \in Nat /\ a <= LargestPrice
          /\ o > 0 => a >= LowestPrice
      BY <1>0, <2>1, <2>2 DEF Averaging, Calling
    <3> QED
      BY <2>5, <3>1
  <2>7. Worth(p) = n * price
    BY <2>2 DEF Worth, Transfers, Trades
  <2>8. Proper(q) /\ AtLeast(q)
    <3> HIDE DEF o, a, n, price
    <3>1. /\ o * a + n * price \in Nat
          /\ o * a + n * price <= (o + n) * LargestPrice
          /\ o * a + n * price >= (o + n) * LowestPrice
      <4>1. n \in Nat
        BY <2>3
      <4> QED
        BY ONLY <2>5, <2>6, <4>1, AverageOf
    <3>2. o + n \in Nat \ {0}
      BY <2>3, <2>6
    <3> QED
      BY <2>7, <3>1, <3>2 DEF Proper, AtLeast
  <2> HIDE DEF q
  <2>9. \A v \in Users, d \in Companies :
            avg'[v][d] = IF v = u /\ d = c THEN q ELSE avg[v][d]
    BY <1>0, <2>1, <2>2
  <2>10. AveragesSound'
    <3> SUFFICES ASSUME NEW v \in Users, NEW d \in Companies
                 PROVE  /\ Proper(avg'[v][d])
                        /\ avg'[v][d] # NoAverage \/ owned[v][d] > 0 => AtLeast(avg'[v][d])
      BY <2>1 DEF AveragesSound, Proper, AtLeast
    <3>1. CASE v = u /\ d = c
      BY <2>8, <2>9, <3>1
    <3>2. CASE ~(v = u /\ d = c)
      <4>1. avg'[v][d] = avg[v][d]
        BY <2>9, <3>2
      <4> QED
        BY <1>0, <4>1 DEF AveragesSound
    <3> QED
      BY <3>1, <3>2
  <2>11. Averaging(p)'
    <3>1. avg'[u][c] = q
      BY <2>2, <2>9
    <3> QED
      BY <1>0, <2>1, <2>8, <3>1 DEF Averaging, AtLeast
  <2>12. \A v \in Users, d \in Companies : AtLeast(avg[v][d]) => AtLeast(avg'[v][d])
    BY <2>8, <2>9
  <2> QED
    BY <1>0, <2>10, <2>11, <2>12, AveragedStep
<1>15. CASE UpsertOwnedStock(p)
  <2>1. /\ Calling(p, "upsertOwnedStock") /\ avg' = avg
        /\ owned' = [owned EXCEPT ![u][c] = @ + SharesDelta(p)]
        /\ pc'[p] \in {"changeAccount", "idle"}
    BY <1>3, <1>15 DEF UpsertOwnedStock
  <2>2. req[p].kind \in {"buy", "sell"} /\ u \in Users /\ c \in Companies
    BY <2>1, CallFacts, RequestFields DEF Calls, CallsOf, Trades
  <2>3. req[p].amount \in Int /\ req[p].amount > 0
    BY <1>0, <2>1, <2>2, CallFacts, RequestFields DEF Calls, Trades, TradeSound, Calling
  <2>4. \A v \in Users, d \in Companies :
            owned'[v][d] = IF v = u /\ d = c THEN owned[v][d] + SharesDelta(p) ELSE owned[v][d]
    BY <1>0, <2>1, <2>2
  <2>5. CASE req[p].kind = "sell"
    <3>1. SharesDelta(p) = -req[p].amount
      BY <2>5 DEF SharesDelta
    <3>2. \A v \in Users, d \in Companies : owned'[v][d] > 0 => owned[v][d] > 0
      <4> SUFFICES ASSUME NEW v \in Users, NEW d \in Companies, owned'[v][d] > 0
                   PROVE  owned[v][d] > 0
        OBVIOUS
      <4>1. owned[v][d] \in Int /\ owned'[v][d] \in {owned[v][d], owned[v][d] - req[p].amount}
        BY <1>0, <2>3, <2>4, <3>1
      <4> QED
        BY ONLY <2>3, <4>1, owned'[v][d] > 0
    <3> QED
      BY <1>0, <2>1, <2>5, <3>2, AveragesKept
  <2>6. CASE req[p].kind = "buy"
    <3>1. AtLeast(avg[u][c])
      BY <1>0, <2>1, <2>6 DEF Averaging, Calling
    <3>2. AveragesSound'
      <4> SUFFICES ASSUME NEW v \in Users, NEW d \in Companies
                   PROVE  /\ Proper(avg[v][d])
                          /\ avg[v][d] # NoAverage \/ owned'[v][d] > 0 => AtLeast(avg[v][d])
        BY <2>1 DEF AveragesSound, Proper, AtLeast
      <4>1. CASE v = u /\ d = c
        BY <1>0, <3>1, <4>1 DEF AveragesSound
      <4>2. CASE ~(v = u /\ d = c)
        <5>1. owned'[v][d] = owned[v][d]
          BY <2>4, <4>2
        <5> QED
          BY <1>0, <5>1 DEF AveragesSound
      <4> QED
        BY <4>1, <4>2
    <3>3. Averaging(p)'
      BY <2>1 DEF Averaging
    <3> QED
      BY <1>0, <2>1, <3>2, <3>3, AveragedStep
  <2> QED
    BY <2>2, <2>5, <2>6
<1> QED
  BY <1>5, <1>6, <1>7, <1>8, <1>9, <1>10, <1>11, <1>12, <1>13, <1>14, <1>15 DEF Call

\* AveragedInv is inductive as long as no share count is below zero.
LEMMA NextAveraged ==
    ASSUME TypeInv, TypeInv', SharesCovered, SoundInv, AveragedInv, [Next]_vars
    PROVE  AveragedInv'
<1>1. pc \in [Workers -> Calls \union {"idle"}]
  BY DEF TypeInv, TypeOK, HandlersOK
<1>2. ASSUME NEW p \in Workers, Start(p) PROVE AveragedInv'
  BY <1>1, <1>2, WorkFrame, AveragesKept DEF Start, tables
<1>3. ASSUME NEW p \in Workers, Refused(p) \/ Aborted(p) PROVE AveragedInv'
  BY <1>1, <1>3, WorkFrame, AveragesKept DEF Refused, Aborted, Answer, tables, Work
<1>4. CASE (\E p \in Workers : Open(p)) \/ LoseConnection \/ UNCHANGED vars
  <2>1. UNCHANGED <<avg, owned, pc, req, local>>
    BY <1>4 DEF Open, LoseConnection, tables, vars
  <2> QED
    BY <2>1 DEF AveragedInv, AveragesSound, Averaging, Proper, AtLeast
<1>5. ASSUME NEW p \in Workers, Call(p) PROVE AveragedInv'
  BY <1>5, CallAveraged
<1> QED
  BY <1>2, <1>3, <1>4, <1>5 DEF Next, Work, Waiting

\* The check of the amount and the price of a trade is kept.
LEMMA NextSound ==
    ASSUME TypeInv, BookingInv, SoundInv, [Next]_vars
    PROVE  SoundInv'
<1>1. ASSUME NEW p \in Workers, Start(p) \/ Work(p) PROVE SoundInv'
  <2>1. Frame(p)
    BY <1>1, WorkFrame
  <2>2. CASE Start(p)
    <3>1. pc'[p] = "sidToUid"
      BY <2>2 DEF Start, TypeInv, TypeOK, HandlersOK
    <3> QED
      BY <2>1, <3>1, FrameHolders DEF SoundInv, TradeSound
  <2>3. CASE Work(p)
    BY <2>1, <2>3, WorkSound, FrameHolders DEF SoundInv
  <2> QED
    BY <1>1, <2>2, <2>3
<1>2. CASE LoseConnection \/ UNCHANGED vars
  BY <1>2 DEF LoseConnection, vars, SoundInv, TradeSound
<1> QED
  BY <1>1, <1>2 DEF Next, Waiting

\* Initially there is no average price.
LEMMA InitAveraged == Init => AveragedInv /\ SoundInv
<1> SUFFICES ASSUME Init PROVE AveragedInv /\ SoundInv
  OBVIOUS
<1>1. 1 * LargestPrice = LargestPrice /\ LargestPrice \in Nat
  BY LargestPriceIs
<1>2. AveragedInv
  BY <1>1 DEF Init, AveragedInv, AveragesSound, Averaging, Proper, AtLeast, NoAverage
<1> QED
  BY <1>2 DEF Init, SoundInv, TradeSound

\* As long as no share count is below zero an average is never above the highest
\* price, nor below the lowest cut to the dollar: for any prices and amounts and
\* any number of threads, however many purchases average over averages that were
\* cut, or over what another purchase has changed since they read it.
THEOREM AveragesOfShares == Spec /\ []SharesCovered => []AverageWithinPrices
<1>1. Init => AccountedInv
  BY DEF Init, AccountedInv, Accounted
<1>2. TypeInv /\ AccountedInv /\ [Next]_vars => AccountedInv'
  BY NextAccounted
<1>3. TypeInv /\ AccountedInv /\ BooksInv /\ [Next]_vars => BooksInv'
  BY NextBooks
<1>4. TypeInv /\ BooksInv /\ SoundInv /\ [Next]_vars => SoundInv'
  BY NextSound DEF BooksInv
<1>5. TypeInv /\ TypeInv' /\ SharesCovered /\ SoundInv /\ AveragedInv /\ [Next]_vars
        => AveragedInv'
  BY NextAveraged
<1>6. AveragedInv => AverageWithinPrices
  BY DEF AveragedInv, AveragesSound, Proper, AtLeast, AverageWithinPrices
<1> QED
  BY <1>1, <1>2, <1>3, <1>4, <1>5, <1>6, InitBooks, InitAveraged, TypeCorrect, PTL DEF Spec

\* With one thread the averages stay between the prices, whatever is bought and
\* sold: the count a sale is checked against is still there when it sells.
THEOREM OneThreadAverages == \A w : Workers = {w} => (Spec => []AverageWithinPrices)
<1> SUFFICES ASSUME NEW w, Workers = {w} PROVE Spec => []AverageWithinPrices
  OBVIOUS
<1>1. OneThreadInv /\ [Next]_vars => OneThreadInv'
  BY NextOneThread
<1>2. OneThreadInv => SharesCovered
  BY DEF OneThreadInv, CoveredInv
<1> QED
  BY <1>1, <1>2, InitOneThread, AveragesOfShares, PTL DEF Spec

\* A purchase takes no shares from anybody.
LEMMA NextBought ==
    ASSUME "sell" \notin Kinds, TypeInv, BookingInv, SoundInv, SharesCovered, [Next]_vars
    PROVE  SharesCovered'
<1>0. owned \in [Users -> [Companies -> Int]]
  BY DEF TypeInv, TypeOK, TablesOK
<1>1. ASSUME NEW p \in Workers, Work(p) PROVE SharesCovered'
  <2>1. CASE owned' = owned
    BY <2>1 DEF SharesCovered
  <2>2. CASE Delivers(p)
    <3>1. req[p] \in Requests /\ pc[p] # "idle" /\ req[p].kind \in Trades
      BY <2>2 DEF Delivers, TypeInv, Serving
    <3>2. req[p].kind = "buy" /\ req[p].amount \in Int
      BY <3>1, RequestFields
         DEF Requests, TransferRequests, TradeRequests, PollRequests, Transfers, Trades
    <3>3. SharesDelta(p) = req[p].amount /\ req[p].amount > 0
      BY <2>2, <3>1, <3>2 DEF SharesDelta, SoundInv, TradeSound, Delivers
    <3>4. ASSUME NEW v \in Users, NEW d \in Companies PROVE owned'[v][d] >= 0
      <4>1. owned'[v][d] \in {owned[v][d], owned[v][d] + req[p].amount}
        BY <1>0, <2>2, <3>3 DEF Delivers
      <4>2. owned[v][d] >= 0 /\ owned[v][d] \in Int
        BY <1>0 DEF SharesCovered
      <4> QED
        BY ONLY <3>2, <3>3, <4>1, <4>2
    <3> QED
      BY <3>4 DEF SharesCovered
  <2>3. owned' = owned \/ Delivers(p)
    BY <1>1, WorkSteps
       DEF Ends, Begins, MovesMoney, Buys, Sells, Pays, Banked, Goes, Quiet
  <2> QED
    BY <2>1, <2>2, <2>3
<1>2. ASSUME NEW p \in Workers, Start(p) PROVE SharesCovered'
  BY <1>2 DEF Start, tables, SharesCovered
<1>3. CASE LoseConnection \/ UNCHANGED vars
  BY <1>3 DEF LoseConnection, vars, tables, SharesCovered
<1> QED
  BY <1>1, <1>2, <1>3 DEF Next, Waiting

\* When nobody sells the averages stay between the prices with any number of
\* threads: no purchase reads a count below zero, however the reads and writes of
\* concurrent purchases interleave.
THEOREM BuyersAverages == "sell" \notin Kinds => (Spec => []AverageWithinPrices)
<1> SUFFICES ASSUME "sell" \notin Kinds PROVE Spec => []AverageWithinPrices
  OBVIOUS
<1>1. Init => AccountedInv /\ SharesCovered
  BY DEF Init, AccountedInv, Accounted, SharesCovered
<1>2. TypeInv /\ AccountedInv /\ [Next]_vars => AccountedInv'
  BY NextAccounted
<1>3. TypeInv /\ AccountedInv /\ BooksInv /\ [Next]_vars => BooksInv'
  BY NextBooks
<1>4. TypeInv /\ BooksInv /\ SoundInv /\ [Next]_vars => SoundInv'
  BY NextSound DEF BooksInv
<1>5. TypeInv /\ BooksInv /\ SoundInv /\ SharesCovered /\ [Next]_vars => SharesCovered'
  BY NextBought DEF BooksInv
<1> QED
  BY <1>1, <1>2, <1>3, <1>4, <1>5, InitBooks, InitAveraged, TypeCorrect, AveragesOfShares, PTL
     DEF Spec
================================================================================
