----------------------------- MODULE BrokerageProofs -----------------------------
(***************************************************************************)
(* Proofs about Brokerage for any number of threads, users, companies,      *)
(* amounts and prices.                                                      *)
(***************************************************************************)
EXTENDS BrokerageProperties, TLAPS

(* Where a handler can be, and which of its writes are behind it there. *)

CallsOf(kind) ==
    CASE kind = "deposit" ->
           {"sidToUid", "selectFromBankAccount", "changeAccount", "increaseBankAccount"}
      [] kind = "withdraw" ->
           {"sidToUid", "selectFromBankAccount", "selectFromAccountInfo",
            "changeAccount", "increaseBankAccount"}
      [] kind = "buy" ->
           {"sidToUid", "selectFromAccountInfo", "insertTradeHistory",
            "selectFromOwnedStock", "selectFromAvgPrice", "upsertAvgPrice",
            "upsertOwnedStock", "changeAccount", "reportBalance"}
      [] kind = "sell" ->
           {"sidToUid", "selectFromOwnedStock", "countOwnedStock", "insertTradeHistory",
            "upsertOwnedStock", "changeAccount", "reportBalance"}
      [] kind = "poll" -> {"sidToUid", "selectFromOwnedStock"}

\* A worker that serves a request is at a call of that request's handler, and
\* a worker whose last request wrote something served a transfer or a trade.
Serving(p) ==
    /\ pc[p] # "idle" => req[p] \in Requests /\ pc[p] \in CallsOf(req[p].kind)
    /\ done[p] # {} => req[p] \in TransferRequests \union TradeRequests

TypeInv == TypeOK /\ \A p \in Workers : Serving(p)

-----------------------------------------------------------------------------
(* Requests. *)

\* The fields a handler finds in its request, by kind.
LEMMA RequestFields ==
    ASSUME NEW r \in Requests
    PROVE  /\ r.user \in Users
           /\ r.kind \in {"deposit", "withdraw", "buy", "sell", "poll"}
           /\ r.kind \in Transfers => /\ r \in TransferRequests
                                     /\ r.bank \in Banks \union OtherAccounts
                                     /\ r.amount \in Amounts /\ r.amount \in Int
           /\ r.kind \in Trades => r \in TradeRequests /\ r.company \in Companies /\ r.amount \in Int
           /\ r.kind = "poll" => r.company \in Companies
BY KindsAssumption, MoneyAssumption
   DEF Requests, TransferRequests, TradeRequests, PollRequests, Transfers, Trades

\* An increment of a row of numbers is a row of numbers, also when there is no
\* such column to increment.
LEMMA RowIncrement ==
    ASSUME NEW S, NEW row \in [S -> Int], NEW d \in Int, NEW x
    PROVE  [row EXCEPT ![x] = @ + d] \in [S -> Int]
<1>1. CASE x \in S
  BY <1>1
<1>2. CASE x \notin S
  BY <1>2
<1> QED
  BY <1>1, <1>2

\* The empty tables and idle workers of a new server are well typed.
THEOREM InitTyped == Init => TypeInv
BY WorkersAssumption, MoneyAssumption
   DEF Init, TypeInv, TypeOK, Serving, NoLocals, NoAverage, NothingSettled, Locals,
       Quotients, TablesOK, ConnectionOK, HandlersOK, Replies, Ledgers

\* A well typed request moves whole numbers of units and of shares.
LEMMA WorthType ==
    ASSUME TypeInv, NEW p \in Workers, req[p] \in Requests
    PROVE  Worth(p) \in Int /\ AccountDelta(p) \in Int /\ BankDelta(p) \in Int
           /\ (req[p].kind \in Trades => SharesDelta(p) \in Int)
<1> DEFINE r == req[p]
<1>1. local[p].price \in Int
  <2>1. local[p] \in Locals
    BY DEF TypeInv, TypeOK, HandlersOK
  <2> QED
    BY <2>1 DEF Locals
<1>2. r.kind \in Transfers \union Trades => r.amount \in Int
  BY RequestFields
<1>3. Worth(p) \in Int
  BY <1>1, <1>2 DEF Worth
<1> QED
  BY <1>2, <1>3 DEF AccountDelta, BankDelta, SharesDelta, Trades

-----------------------------------------------------------------------------
(* How a handler goes on: what an answer, a read and a write leave typed. *)

ServerInv == ConnectionOK /\ HandlersOK /\ \A p \in Workers : Serving(p)

\* An answer leaves the server well typed.
LEMMA AnswerTyped ==
    ASSUME TypeInv, NEW p \in Workers, NEW outcome \in Replies, Answer(p, outcome),
           local' \in [Workers -> Locals]
    PROVE  ServerInv'
BY DEF TypeInv, TypeOK, ServerInv, ConnectionOK, HandlersOK, Serving, Answer

\* A return to another call of the same handler leaves it well typed.
LEMMA ReturnTyped ==
    ASSUME TypeInv, NEW p \in Workers, NEW next \in Calls, Return(p, next),
           req[p] \in Requests, next \in CallsOf(req[p].kind),
           local' \in [Workers -> Locals]
    PROVE  ServerInv'
BY DEF TypeInv, TypeOK, ServerInv, ConnectionOK, HandlersOK, Serving, Return

\* A commit does, whether it is in doubt or not.
LEMMA CommitTyped ==
    ASSUME TypeInv, NEW p \in Workers, NEW writes \in SUBSET Calls,
           NEW next \in Calls \union {"idle"}, Commit(p, writes, next),
           req[p] \in TransferRequests \union TradeRequests,
           next # "idle" => next \in CallsOf(req[p].kind)
    PROVE  ServerInv'
<1>1. req[p] \in Requests
  BY DEF Requests
<1> QED
  BY <1>1 DEF TypeInv, TypeOK, ServerInv, ConnectionOK, HandlersOK, Serving, Commit, Replies

-----------------------------------------------------------------------------
(* One lemma per call. *)

\* The request of a thread in a call, and what TypeInv says of it.
LEMMA CallFacts ==
    ASSUME TypeInv, NEW p \in Workers, NEW call \in Calls, Calling(p, call)
    PROVE  /\ req[p] \in Requests
           /\ call \in CallsOf(req[p].kind)
           /\ req[p].user \in Users
           /\ req[p].kind \in {"deposit", "withdraw", "buy", "sell", "poll"}
<1>1. call # "idle"
  BY DEF Calls
<1>2. req[p] \in Requests /\ call \in CallsOf(req[p].kind)
  BY <1>1 DEF Calling, TypeInv, Serving
<1> QED
  BY <1>2, RequestFields

\* Typing splits into what the tables hold and the rest of the server.
LEMMA Reassemble == (TypeInv)' <=> TablesOK' /\ ServerInv'
BY DEF TypeInv, TypeOK, ServerInv

\* Unchanged tables stay well typed.
LEMMA TablesKept == TypeInv /\ UNCHANGED tables => TablesOK'
BY DEF TypeInv, TypeOK, TablesOK, tables

\* Unchanged locals stay well typed.
LEMMA LocalsKept == TypeInv /\ UNCHANGED local => local' \in [Workers -> Locals]
BY DEF TypeInv, TypeOK, HandlersOK

\* SidToUid preserves typing.
LEMMA SidToUidTyped ==
    ASSUME TypeInv, NEW p \in Workers, SidToUid(p)
    PROVE  TypeInv'
<1> DEFINE kind == req[p].kind
<1>1. Calling(p, "sidToUid") /\ TablesOK'
  BY TablesKept DEF SidToUid
<1>2. req[p] \in Requests /\ kind \in {"deposit", "withdraw", "buy", "sell", "poll"}
  BY <1>1, CallFacts DEF Calls
<1>3. FirstCall(kind) \in Calls /\ FirstCall(kind) \in CallsOf(kind)
  BY <1>2 DEF FirstCall, CallsOf, Transfers, Calls
<1>4. ASSUME NEW outcome \in Replies, Answer(p, outcome), UNCHANGED local
      PROVE  ServerInv'
  BY <1>4, AnswerTyped, LocalsKept
<1>5. CASE Return(p, FirstCall(kind)) /\ UNCHANGED local
  BY <1>1, <1>2, <1>3, <1>5, ReturnTyped, LocalsKept, Reassemble
<1>6. CASE \E price \in Prices : /\ local' = [local EXCEPT ![p].price = price]
                                /\ Return(p, FirstCall(kind))
  <2>1. local' \in [Workers -> Locals]
    BY <1>6, MoneyAssumption DEF TypeInv, TypeOK, HandlersOK, Locals
  <2> QED
    BY <1>1, <1>2, <1>3, <1>6, <2>1, ReturnTyped, Reassemble
<1> QED
  BY <1>1, <1>4, <1>5, <1>6, Reassemble DEF SidToUid, Replies

\* SelectFromBankAccount preserves typing.
LEMMA SelectFromBankAccountTyped ==
    ASSUME TypeInv, NEW p \in Workers, SelectFromBankAccount(p)
    PROVE  TypeInv'
<1> DEFINE kind == req[p].kind
<1>1. Calling(p, "selectFromBankAccount") /\ TablesOK'
  BY TablesKept DEF SelectFromBankAccount
<1>2. req[p] \in Requests /\ "selectFromBankAccount" \in CallsOf(kind)
      /\ kind \in {"deposit", "withdraw", "buy", "sell", "poll"}
  BY <1>1, CallFacts DEF Calls
<1>3. local' \in [Workers -> Locals]
  BY DEF SelectFromBankAccount, TypeInv, TypeOK, HandlersOK, Locals
<1>4. \/ kind = "withdraw" /\ Return(p, "selectFromAccountInfo")
      \/ kind = "deposit" /\ Return(p, "changeAccount")
      \/ Answer(p, "rejected")
      \/ Answer(p, "error")
  BY DEF SelectFromBankAccount
<1> QED
  BY <1>1, <1>2, <1>3, <1>4, AnswerTyped, ReturnTyped, Reassemble
     DEF CallsOf, Calls, Replies

\* SelectFromAccountInfo preserves typing.
LEMMA SelectFromAccountInfoTyped ==
    ASSUME TypeInv, NEW p \in Workers, SelectFromAccountInfo(p)
    PROVE  TypeInv'
<1> DEFINE kind == req[p].kind
<1>1. /\ Calling(p, "selectFromAccountInfo")
      /\ TablesOK'
      /\ local' \in [Workers -> Locals]
  BY TablesKept, LocalsKept DEF SelectFromAccountInfo
<1>2. req[p] \in Requests /\ "selectFromAccountInfo" \in CallsOf(kind)
      /\ kind \in {"deposit", "withdraw", "buy", "sell", "poll"}
  BY <1>1, CallFacts DEF Calls
<1>3. \/ kind = "buy" /\ Return(p, "insertTradeHistory")
      \/ kind # "buy" /\ Return(p, "changeAccount")
      \/ Answer(p, "rejected")
      \/ Answer(p, "error")
  BY DEF SelectFromAccountInfo
<1> QED
  BY <1>1, <1>2, <1>3, AnswerTyped, ReturnTyped, Reassemble DEF CallsOf, Calls, Replies

\* ReportBalance preserves typing.
LEMMA ReportBalanceTyped ==
    ASSUME TypeInv, NEW p \in Workers, ReportBalance(p)
    PROVE  TypeInv'
<1>1. TablesOK' /\ local' \in [Workers -> Locals]
  BY TablesKept, LocalsKept DEF ReportBalance
<1>2. Answer(p, "error") \/ Answer(p, "success")
  BY DEF ReportBalance
<1> QED
  BY <1>1, <1>2, AnswerTyped, Reassemble DEF Replies

\* SelectFromOwnedStock preserves typing.
LEMMA SelectFromOwnedStockTyped ==
    ASSUME TypeInv, NEW p \in Workers, SelectFromOwnedStock(p)
    PROVE  TypeInv'
<1> DEFINE kind == req[p].kind
<1>1. Calling(p, "selectFromOwnedStock") /\ TablesOK'
  BY TablesKept DEF SelectFromOwnedStock
<1>2. /\ req[p] \in Requests /\ "selectFromOwnedStock" \in CallsOf(kind)
      /\ kind \in {"deposit", "withdraw", "buy", "sell", "poll"}
      /\ req[p].user \in Users
  BY <1>1, CallFacts DEF Calls
<1>3. kind \in {"buy", "sell", "poll"} /\ req[p].company \in Companies
  BY <1>2, RequestFields DEF CallsOf, Trades
<1>4. owned[req[p].user][req[p].company] \in Int
  BY <1>2, <1>3 DEF TypeInv, TypeOK, TablesOK
<1>5. local' \in [Workers -> Locals]
  BY <1>4 DEF SelectFromOwnedStock, TypeInv, TypeOK, HandlersOK, Locals
<1>6. \/ kind = "buy" /\ Return(p, "selectFromAvgPrice")
      \/ kind = "sell" /\ Return(p, "countOwnedStock")
      \/ Answer(p, "success")
      \/ Answer(p, "rejected")
  BY <1>3 DEF SelectFromOwnedStock
<1> QED
  BY <1>1, <1>2, <1>5, <1>6, AnswerTyped, ReturnTyped, Reassemble
     DEF CallsOf, Calls, Replies

\* CountOwnedStock preserves typing.
LEMMA CountOwnedStockTyped ==
    ASSUME TypeInv, NEW p \in Workers, CountOwnedStock(p)
    PROVE  TypeInv'
<1> DEFINE kind == req[p].kind
<1>1. /\ Calling(p, "countOwnedStock")
      /\ TablesOK'
      /\ local' \in [Workers -> Locals]
  BY TablesKept, LocalsKept DEF CountOwnedStock
<1>2. req[p] \in Requests /\ "countOwnedStock" \in CallsOf(kind)
      /\ kind \in {"deposit", "withdraw", "buy", "sell", "poll"}
  BY <1>1, CallFacts DEF Calls
<1>3. Return(p, "insertTradeHistory") \/ Answer(p, "rejected")
  BY DEF CountOwnedStock
<1> QED
  BY <1>1, <1>2, <1>3, AnswerTyped, ReturnTyped, Reassemble DEF CallsOf, Calls, Replies

\* A quotient of integers read in whole dollars is an integer.
LEMMA WholeDollarsType ==
    ASSUME NEW q \in Quotients
    PROVE  WholeDollars(q) \in Int
<1> DEFINE num == IF q.den < 0 THEN -q.num ELSE q.num
           den == IF q.den < 0 THEN -q.den ELSE q.den
<1>1. num \in Int /\ den \in Nat
  BY DEF Quotients
<1>2. CASE den = 0
  BY <1>2, MoneyAssumption DEF WholeDollars
<1>3. CASE den # 0
  <2> HIDE DEF num, den
  <2> DEFINE d == den * Dollar
  <2>1. d \in Nat \ {0}
    BY <1>1, <1>3, MoneyAssumption
  <2> HIDE DEF d
  <2>2. num \div d \in Int /\ (-num) \div d \in Int
    BY <1>1, <2>1
  <2>3. Dollar * (num \div d) \in Int /\ -(Dollar * ((-num) \div d)) \in Int
    BY <2>2, MoneyAssumption
  <2> QED
    BY <1>3, <2>3 DEF WholeDollars, num, den, d
<1> QED
  BY <1>2, <1>3

\* SelectFromAvgPrice preserves typing.
LEMMA SelectFromAvgPriceTyped ==
    ASSUME TypeInv, NEW p \in Workers, SelectFromAvgPrice(p)
    PROVE  TypeInv'
<1> DEFINE kind == req[p].kind
<1>1. Calling(p, "selectFromAvgPrice") /\ TablesOK'
  BY TablesKept DEF SelectFromAvgPrice
<1>2. /\ req[p] \in Requests /\ "selectFromAvgPrice" \in CallsOf(kind)
      /\ kind \in {"deposit", "withdraw", "buy", "sell", "poll"}
      /\ req[p].user \in Users
  BY <1>1, CallFacts DEF Calls
<1>3. kind = "buy" /\ req[p].company \in Companies
  BY <1>2, RequestFields DEF CallsOf, Trades
<1>4. WholeDollars(avg[req[p].user][req[p].company]) \in Int
  BY <1>2, <1>3, WholeDollarsType DEF TypeInv, TypeOK, TablesOK
<1>5. local' \in [Workers -> Locals]
  BY <1>4 DEF SelectFromAvgPrice, TypeInv, TypeOK, HandlersOK, Locals
<1> QED
  BY <1>1, <1>2, <1>3, <1>5, ReturnTyped, Reassemble
     DEF SelectFromAvgPrice, CallsOf, Calls

\* InsertTradeHistory preserves typing.
LEMMA InsertTradeHistoryTyped ==
    ASSUME TypeInv, NEW p \in Workers, InsertTradeHistory(p)
    PROVE  TypeInv'
<1> DEFINE kind == req[p].kind
           next == IF kind = "buy" THEN "selectFromOwnedStock" ELSE "upsertOwnedStock"
<1>1. /\ Calling(p, "insertTradeHistory")
      /\ Commit(p, {"insertTradeHistory"}, next)
  BY DEF InsertTradeHistory
<1>2. /\ req[p] \in Requests /\ "insertTradeHistory" \in CallsOf(kind)
      /\ kind \in {"deposit", "withdraw", "buy", "sell", "poll"}
      /\ req[p].user \in Users
  BY <1>1, CallFacts DEF Calls
<1>3. kind \in Trades /\ next \in CallsOf(kind) /\ next \in Calls
  BY <1>2 DEF CallsOf, Trades, Calls
<1>4. TablesOK'
  BY <1>2 DEF InsertTradeHistory, TypeInv, TypeOK, TablesOK
<1>5. req[p] \in TransferRequests \union TradeRequests
  BY <1>2, <1>3, RequestFields
<1> QED
  BY <1>1, <1>3, <1>4, <1>5, CommitTyped, Reassemble DEF Calls

\* UpsertAvgPrice preserves typing.
LEMMA UpsertAvgPriceTyped ==
    ASSUME TypeInv, NEW p \in Workers, UpsertAvgPrice(p)
    PROVE  TypeInv'
<1> DEFINE kind == req[p].kind
           quotient == [num |-> local[p].owned * local[p].avg + Worth(p),
                        den |-> local[p].owned + req[p].amount]
<1>1. /\ Calling(p, "upsertAvgPrice")
      /\ Commit(p, {"upsertAvgPrice"}, "upsertOwnedStock")
  BY DEF UpsertAvgPrice
<1>2. /\ req[p] \in Requests /\ "upsertAvgPrice" \in CallsOf(kind)
      /\ kind \in {"deposit", "withdraw", "buy", "sell", "poll"}
      /\ req[p].user \in Users
  BY <1>1, CallFacts DEF Calls
<1>3. kind = "buy" /\ kind \in Trades
  BY <1>2 DEF CallsOf, Trades
<1>4. req[p] \in TradeRequests /\ req[p].company \in Companies /\ req[p].amount \in Int
  BY <1>2, <1>3, RequestFields
<1>5. quotient \in Quotients
  <2>1. local[p].owned \in Int /\ local[p].avg \in Int
    BY DEF TypeInv, TypeOK, HandlersOK, Locals
  <2>2. Worth(p) \in Int
    BY <1>2, WorthType
  <2>3. local[p].owned * local[p].avg + Worth(p) \in Int
    BY <2>1, <2>2
  <2> QED
    BY <1>4, <2>1, <2>3 DEF Quotients
<1>6. TablesOK'
  BY <1>2, <1>4, <1>5 DEF UpsertAvgPrice, TypeInv, TypeOK, TablesOK
<1> QED
  BY <1>1, <1>3, <1>4, <1>6, CommitTyped, Reassemble DEF Calls, CallsOf

\* UpsertOwnedStock preserves typing.
LEMMA UpsertOwnedStockTyped ==
    ASSUME TypeInv, NEW p \in Workers, UpsertOwnedStock(p)
    PROVE  TypeInv'
<1> DEFINE kind == req[p].kind
<1>1. /\ Calling(p, "upsertOwnedStock")
      /\ Commit(p, {"upsertOwnedStock"}, "changeAccount")
  BY DEF UpsertOwnedStock
<1>2. /\ req[p] \in Requests /\ "upsertOwnedStock" \in CallsOf(kind)
      /\ kind \in {"deposit", "withdraw", "buy", "sell", "poll"}
      /\ req[p].user \in Users
  BY <1>1, CallFacts DEF Calls
<1>3. kind \in Trades
  BY <1>2 DEF CallsOf, Trades
<1>4. req[p] \in TradeRequests /\ req[p].company \in Companies /\ SharesDelta(p) \in Int
  BY <1>2, <1>3, RequestFields, WorthType
<1>5. TablesOK'
  BY <1>2, <1>4 DEF UpsertOwnedStock, TypeInv, TypeOK, TablesOK
<1> QED
  BY <1>1, <1>3, <1>4, <1>5, CommitTyped, Reassemble DEF Calls, CallsOf, Trades

\* ChangeAccount preserves typing.
LEMMA ChangeAccountTyped ==
    ASSUME TypeInv, NEW p \in Workers, ChangeAccount(p)
    PROVE  TypeInv'
<1> DEFINE kind == req[p].kind
           writes == IF req[p].user \notin Orphans THEN {"changeAccount"} ELSE {}
           next == IF kind \in Transfers THEN "increaseBankAccount" ELSE "reportBalance"
<1>1. Calling(p, "changeAccount") /\ Commit(p, writes, next)
  BY DEF ChangeAccount
<1>2. /\ req[p] \in Requests /\ "changeAccount" \in CallsOf(kind)
      /\ kind \in {"deposit", "withdraw", "buy", "sell", "poll"}
      /\ req[p].user \in Users
  BY <1>1, CallFacts DEF Calls
<1>3. /\ kind \in Transfers \union Trades
      /\ next \in CallsOf(kind) /\ next \in Calls /\ writes \in SUBSET Calls
  BY <1>2 DEF CallsOf, Transfers, Trades, Calls
<1>4. req[p] \in TransferRequests \union TradeRequests
  BY <1>2, <1>3, RequestFields
<1>5. AccountDelta(p) \in Int
  BY <1>2, WorthType
<1>6. TablesOK'
  BY <1>2, <1>5 DEF ChangeAccount, TypeInv, TypeOK, TablesOK
<1> HIDE DEF writes, next
<1> QED
  BY <1>1, <1>3, <1>4, <1>6, CommitTyped, Reassemble

\* IncreaseBankAccount preserves typing.
LEMMA IncreaseBankAccountTyped ==
    ASSUME TypeInv, NEW p \in Workers, IncreaseBankAccount(p)
    PROVE  TypeInv'
<1> DEFINE kind == req[p].kind
<1>1. /\ Calling(p, "increaseBankAccount")
      /\ Commit(p, {"increaseBankAccount"}, "idle")
  BY DEF IncreaseBankAccount
<1>2. /\ req[p] \in Requests /\ "increaseBankAccount" \in CallsOf(kind)
      /\ kind \in {"deposit", "withdraw", "buy", "sell", "poll"}
      /\ req[p].user \in Users
  BY <1>1, CallFacts DEF Calls
<1>3. kind \in Transfers
  BY <1>2 DEF CallsOf, Transfers
<1>4. req[p] \in TransferRequests
  BY <1>2, <1>3, RequestFields
<1>5. BankDelta(p) \in Int
  BY <1>2, WorthType
<1> DEFINE row == [bank[req[p].user] EXCEPT ![local[p].bank] = @ + BankDelta(p)]
<1>6. TablesOK'
  <2>1. bank \in [Users -> [Banks -> Int]]
    BY DEF TypeInv, TypeOK, TablesOK
  <2>2. row \in [Banks -> Int]
    BY <1>2, <1>5, <2>1, RowIncrement
  <2>3. bank' = [bank EXCEPT ![req[p].user] = row]
    BY <1>2, <2>1 DEF IncreaseBankAccount
  <2> HIDE DEF row
  <2>4. bank' \in [Users -> [Banks -> Int]]
    BY <2>1, <2>2, <2>3
  <2> QED
    BY <2>4 DEF IncreaseBankAccount, TypeInv, TypeOK, TablesOK
<1> QED
  BY <1>1, <1>4, <1>6, CommitTyped, Reassemble DEF Calls

\* The ledger of settled requests stays a ledger of numbers.
LEMMA SettleLastType ==
    ASSUME TypeInv, NEW p \in Workers
    PROVE  SettleLast(p) \in [Users -> Ledgers]
<1> DEFINE r == req[p]
<1>1. settled \in [Users -> Ledgers]
  BY DEF TypeInv, TypeOK, HandlersOK
<1>2. CASE done[p] = {}
  BY <1>1, <1>2 DEF SettleLast
<1>3. CASE done[p] # {}
  <2>1. r \in Requests /\ r \in TransferRequests \union TradeRequests
    BY <1>3 DEF TypeInv, Serving, Requests
  <2>3. AccountDelta(p) \in Int /\ BankDelta(p) \in Int
        /\ (r.kind \in Trades => SharesDelta(p) \in Int)
    BY <2>1, WorthType
  <2>4. r.user \in Users
    BY <2>1, RequestFields
  <2> DEFINE old == settled[r.user]
             money == IfDone(p, "changeAccount", AccountDelta(p))
             moved == IfDone(p, "increaseBankAccount", BankDelta(p))
             shares == IfDone(p, "upsertOwnedStock", SharesDelta(p))
             newBank == IF r.kind \in Transfers
                        THEN [old.bank EXCEPT ![local[p].bank] = @ + moved] ELSE old.bank
             newShares == IF r.kind \in Trades
                          THEN [old.shares EXCEPT ![r.company] = @ + shares] ELSE old.shares
  <2>5. /\ old.account \in Int
        /\ old.bank \in [Banks -> Int]
        /\ old.shares \in [Companies -> Int]
    BY <1>1, <2>4 DEF Ledgers
  <2>6. old.account + money \in Int
    BY <2>3, <2>5 DEF IfDone
  <2>7. newBank \in [Banks -> Int]
    <3>1. moved \in Int
      BY <2>3 DEF IfDone
    <3> HIDE DEF moved
    <3> QED
      BY <2>5, <3>1, RowIncrement
  <2>8. newShares \in [Companies -> Int]
    BY <2>1, <2>3, <2>5, RequestFields DEF IfDone
  <2>9. SettleLast(p) = [settled EXCEPT ![r.user] =
                           [account |-> old.account + money, bank |-> newBank,
                            shares |-> newShares]]
    BY <1>3 DEF SettleLast
  <2> HIDE DEF newBank, newShares, money, old
  <2>10. [account |-> old.account + money, bank |-> newBank, shares |-> newShares] \in Ledgers
    BY <2>6, <2>7, <2>8 DEF Ledgers
  <2> QED
    BY <1>1, <2>4, <2>9, <2>10
<1> QED
  BY <1>2, <1>3

\* Starting a request preserves typing.
LEMMA StartTyped ==
    ASSUME TypeInv, NEW p \in Workers, Start(p)
    PROVE  TypeInv'
<1>1. TablesOK' /\ ConnectionOK'
  BY TablesKept DEF Start, TypeInv, TypeOK, ConnectionOK
<1>2. settled' \in [Users -> Ledgers]
  BY SettleLastType DEF Start
<1>3. NoLocals \in Locals
  BY DEF NoLocals, Locals
<1>4. PICK r \in Requests : req' = [req EXCEPT ![p] = r]
  BY DEF Start
<1>5. HandlersOK'
  BY <1>2, <1>3, <1>4 DEF Start, TypeInv, TypeOK, HandlersOK, Calls, Replies
<1>6. r.kind \in {"deposit", "withdraw", "buy", "sell", "poll"}
  BY RequestFields
<1>7. \A q \in Workers : Serving(q)'
  BY <1>4, <1>6 DEF Start, TypeInv, TypeOK, HandlersOK, Serving, CallsOf
<1> QED
  BY <1>1, <1>5, <1>7, Reassemble DEF ServerInv

\* Every step of a busy worker preserves typing.
LEMMA WorkTyped ==
    ASSUME TypeInv, NEW p \in Workers, Work(p)
    PROVE  TypeInv'
<1>1. CASE Open(p)
  BY <1>1, TablesKept, Reassemble
     DEF Open, ServerInv, TypeInv, TypeOK, ConnectionOK, HandlersOK, Serving
<1>2. CASE Refused(p)
  BY <1>2, TablesKept, LocalsKept, AnswerTyped, Reassemble DEF Refused, Replies
<1>3. CASE Aborted(p)
  BY <1>3, TablesKept, LocalsKept, AnswerTyped, Reassemble DEF Aborted, Replies
<1> QED
  BY <1>1, <1>2, <1>3, SidToUidTyped, SelectFromBankAccountTyped,
     SelectFromAccountInfoTyped, ReportBalanceTyped, InsertTradeHistoryTyped,
     SelectFromOwnedStockTyped, CountOwnedStockTyped, SelectFromAvgPriceTyped,
     UpsertAvgPriceTyped, UpsertOwnedStockTyped, ChangeAccountTyped,
     IncreaseBankAccountTyped
     DEF Work, Call

\* TypeInv is inductive.
LEMMA NextTyped == TypeInv /\ [Next]_vars => TypeInv'
<1> SUFFICES ASSUME TypeInv, [Next]_vars
             PROVE  TypeInv'
  OBVIOUS
<1>1. CASE LoseConnection
  BY <1>1, TablesKept, Reassemble
     DEF LoseConnection, ServerInv, TypeInv, TypeOK, ConnectionOK, HandlersOK, Serving
<1>2. CASE UNCHANGED vars
  BY <1>2, TablesKept, Reassemble
     DEF vars, tables, ServerInv, TypeInv, TypeOK, ConnectionOK, HandlersOK, Serving
<1> QED
  BY <1>1, <1>2, StartTyped, WorkTyped DEF Next, Waiting

\* Type correctness, with what a worker is serving when it is not idle.
THEOREM TypeCorrect == Spec => []TypeInv
BY InitTyped, NextTyped, PTL DEF Spec

\* The tables, the connection and the handlers keep their types.
THEOREM TypeSafe == Spec => []TypeOK
<1>1. TypeInv => TypeOK
  BY DEF TypeInv
<1> QED
  BY <1>1, TypeCorrect, PTL

-----------------------------------------------------------------------------
(* The writes behind a handler at each of its calls. The balances are read, *)
(* checked and written by separate transactions, so this is what a torn or  *)
(* an answered request is accounted by.                                     *)

DoneAt(kind, call) ==
    CASE kind \in Transfers /\ call = "increaseBankAccount" -> {"changeAccount"}
      [] kind = "buy" /\ call \in {"selectFromOwnedStock", "selectFromAvgPrice",
                                    "upsertAvgPrice"} ->
           {"insertTradeHistory"}
      [] kind = "buy" /\ call = "upsertOwnedStock" ->
           {"insertTradeHistory", "upsertAvgPrice"}
      [] kind = "buy" /\ call = "changeAccount" ->
           {"insertTradeHistory", "upsertAvgPrice", "upsertOwnedStock"}
      [] kind = "sell" /\ call = "upsertOwnedStock" -> {"insertTradeHistory"}
      [] kind = "sell" /\ call = "changeAccount" ->
           {"insertTradeHistory", "upsertOwnedStock"}
      [] kind \in Trades /\ call = "reportBalance" -> Writes(kind)
      [] OTHER -> {}

\* Of these writes, those that find their row.
Landed(p, writes) == IF req[p].user \in Orphans THEN writes \ {"changeAccount"} ELSE writes

\* A worker has made exactly these writes, but for the one that reaches no row:
\* to the balance of a user without an account_info row.
Made(p, writes) == done[p] = Landed(p, writes)

\* What one worker has told and written.
Accounted(p) ==
    /\ pc[p] # "idle" => reply[p] = "none" /\ Made(p, DoneAt(req[p].kind, pc[p]))
    /\ reply[p] = "success" => Made(p, Writes(req[p].kind))
    /\ reply[p] = "rejected" => done[p] = {}
AccountedInv == \A p \in Workers : Accounted(p)

\* No step of one worker changes what another is accounted by.
Untouched(p) ==
    \A q \in Workers \ {p} : /\ pc'[q] = pc[q] /\ reply'[q] = reply[q]
                             /\ req'[q] = req[q] /\ done'[q] = done[q]

\* A step of one worker preserves the account of all if it preserves its own.
LEMMA OthersKeep ==
    ASSUME AccountedInv, NEW p \in Workers, Untouched(p), Accounted(p)'
    PROVE  AccountedInv'
<1>1. ASSUME NEW q \in Workers \ {p}
      PROVE  Accounted(q)'
  <2>1. pc'[q] = pc[q] /\ reply'[q] = reply[q] /\ req'[q] = req[q] /\ done'[q] = done[q]
    BY DEF Untouched
  <2>2. Accounted(q)
    BY DEF AccountedInv
  <2> QED
    BY <2>1, <2>2 DEF Accounted, Made, Landed
<1> QED
  BY <1>1 DEF AccountedInv

\* A truthful answer leaves the worker accounted for.
LEMMA AnswerAccounted ==
    ASSUME TypeInv, AccountedInv, NEW p \in Workers, NEW outcome \in Replies,
           Answer(p, outcome), outcome = "success" => Made(p, Writes(req[p].kind)),
           outcome = "rejected" => done[p] = {}
    PROVE  AccountedInv'
<1>1. Untouched(p)
  BY DEF Answer, Untouched, TypeInv, TypeOK, HandlersOK
<1>2. pc'[p] = "idle" /\ reply'[p] = outcome /\ done'[p] = done[p] /\ req'[p] = req[p]
  BY DEF Answer, TypeInv, TypeOK, HandlersOK
<1>3. Accounted(p)'
  BY <1>2 DEF Accounted, Made, Landed
<1> QED
  BY <1>1, <1>3, OthersKeep

\* So does a return to a call that is preceded by the same writes.
LEMMA ReturnAccounted ==
    ASSUME TypeInv, AccountedInv, NEW p \in Workers, NEW next, pc[p] # "idle",
           Return(p, next), Made(p, DoneAt(req[p].kind, next))
    PROVE  AccountedInv'
<1>1. Untouched(p)
  BY DEF Return, Untouched, TypeInv, TypeOK, HandlersOK
<1>2. pc'[p] = next /\ reply'[p] = reply[p] /\ done'[p] = done[p] /\ req'[p] = req[p]
  BY DEF Return, TypeInv, TypeOK, HandlersOK
<1>3. reply[p] = "none"
  BY DEF AccountedInv, Accounted
<1>4. Accounted(p)'
  BY <1>2, <1>3 DEF Accounted, Made, Landed
<1> QED
  BY <1>1, <1>4, OthersKeep

\* So does a commit that brings the worker to the writes of its next call.
LEMMA CommitAccounted ==
    ASSUME TypeInv, AccountedInv, NEW p \in Workers, NEW writes, NEW next,
           pc[p] # "idle", Commit(p, writes, next),
           NEW before, Made(p, before),
           writes = Landed(p, {pc[p]}),
           next # "idle" => before \union {pc[p]} = DoneAt(req[p].kind, next),
           next = "idle" => before \union {pc[p]} = Writes(req[p].kind)
    PROVE  AccountedInv'
<1>1. Untouched(p)
  BY DEF Commit, Untouched, TypeInv, TypeOK, HandlersOK
<1>2. reply[p] = "none"
  BY DEF AccountedInv, Accounted
<1>3. /\ done'[p] = done[p] \union writes /\ req'[p] = req[p]
      /\ \/ pc'[p] = next /\ reply'[p] = IF next = "idle" THEN "success" ELSE "none"
         \/ pc'[p] = "idle" /\ reply'[p] = "error"
  BY <1>2 DEF Commit, TypeInv, TypeOK, HandlersOK
<1> DEFINE after == before \union {pc[p]}
<1>4. done'[p] = IF req'[p].user \in Orphans THEN after \ {"changeAccount"} ELSE after
  <2>1. done'[p] = Landed(p, before) \union Landed(p, {pc[p]})
    BY <1>3 DEF Made
  <2>2. CASE req[p].user \in Orphans
    BY <1>3, <2>1, <2>2 DEF Landed
  <2>3. CASE req[p].user \notin Orphans
    BY <1>3, <2>1, <2>3 DEF Landed
  <2> QED
    BY <2>2, <2>3
<1>5. Accounted(p)'
  BY <1>3, <1>4 DEF Accounted, Made, Landed
<1> QED
  BY <1>1, <1>5, OthersKeep

\* Before its call a worker has done what DoneAt says of it.
LEMMA DoneBefore ==
    ASSUME TypeInv, AccountedInv, NEW p \in Workers, NEW call \in Calls, Calling(p, call)
    PROVE  /\ pc[p] # "idle" /\ pc[p] = call
           /\ req[p].kind \in {"deposit", "withdraw", "buy", "sell", "poll"}
           /\ call \in CallsOf(req[p].kind)
           /\ Made(p, DoneAt(req[p].kind, call))
<1>1. pc[p] = call /\ call # "idle"
  BY DEF Calling, Calls
<1> QED
  BY <1>1, CallFacts DEF AccountedInv, Accounted

\* Reads and checks: nothing is written, and a refusal comes before any write.
LEMMA ReadsAccounted ==
    ASSUME TypeInv, AccountedInv, NEW p \in Workers,
           \/ SidToUid(p) \/ SelectFromBankAccount(p) \/ SelectFromAccountInfo(p)
           \/ SelectFromOwnedStock(p) \/ CountOwnedStock(p) \/ SelectFromAvgPrice(p)
    PROVE  AccountedInv'
<1> DEFINE kind == req[p].kind
<1>1. CASE SidToUid(p)
  <2>1. Calling(p, "sidToUid")
    BY <1>1 DEF SidToUid
  <2>2. pc[p] # "idle" /\ done[p] = {} /\ kind \in {"deposit", "withdraw", "buy", "sell", "poll"}
    BY <2>1, DoneBefore DEF DoneAt, Made, Landed, Calls
  <2>3. Made(p, DoneAt(kind, FirstCall(kind)))
    BY <2>2 DEF DoneAt, Made, Landed, FirstCall, Transfers, Trades
  <2>4. Answer(p, "rejected") \/ Answer(p, "error") \/ Return(p, FirstCall(kind))
    BY <1>1 DEF SidToUid
  <2> QED
    BY <2>2, <2>3, <2>4, AnswerAccounted, ReturnAccounted DEF Replies
<1>2. CASE SelectFromBankAccount(p)
  <2>1. Calling(p, "selectFromBankAccount")
    BY <1>2 DEF SelectFromBankAccount
  <2>2. pc[p] # "idle" /\ done[p] = {}
    BY <2>1, DoneBefore DEF DoneAt, Made, Landed, Calls
  <2>3. \/ kind = "withdraw" /\ Return(p, "selectFromAccountInfo")
        \/ kind = "deposit" /\ Return(p, "changeAccount")
        \/ Answer(p, "rejected") \/ Answer(p, "error")
    BY <1>2 DEF SelectFromBankAccount
  <2> QED
    BY <2>2, <2>3, AnswerAccounted, ReturnAccounted DEF Replies, DoneAt, Made, Landed
<1>3. CASE SelectFromAccountInfo(p)
  <2>1. Calling(p, "selectFromAccountInfo")
    BY <1>3 DEF SelectFromAccountInfo
  <2>2. pc[p] # "idle" /\ done[p] = {} /\ kind \in {"withdraw", "buy"}
    BY <2>1, DoneBefore DEF DoneAt, Made, Landed, Calls, CallsOf
  <2>3. \/ kind = "buy" /\ Return(p, "insertTradeHistory")
        \/ kind # "buy" /\ Return(p, "changeAccount")
        \/ Answer(p, "rejected")
        \/ Answer(p, "error")
    BY <1>3 DEF SelectFromAccountInfo
  <2> QED
    BY <2>2, <2>3, AnswerAccounted, ReturnAccounted DEF Replies, DoneAt, Made, Landed
<1>4. CASE SelectFromOwnedStock(p)
  <2>1. Calling(p, "selectFromOwnedStock")
    BY <1>4 DEF SelectFromOwnedStock
  <2>2. pc[p] # "idle" /\ Made(p, DoneAt(kind, "selectFromOwnedStock"))
        /\ kind \in {"buy", "sell", "poll"}
    BY <2>1, DoneBefore DEF Calls, CallsOf
  <2>3. \/ kind = "buy" /\ Return(p, "selectFromAvgPrice")
        \/ kind = "sell" /\ Return(p, "countOwnedStock")
        \/ kind = "poll" /\ Answer(p, "success")
        \/ kind = "sell" /\ Answer(p, "rejected")
    BY <1>4, <2>2 DEF SelectFromOwnedStock
  <2> QED
    BY <2>2, <2>3, AnswerAccounted, ReturnAccounted
       DEF Replies, DoneAt, Made, Landed, Writes, Transfers, Trades
<1>5. CASE CountOwnedStock(p)
  <2>1. Calling(p, "countOwnedStock")
    BY <1>5 DEF CountOwnedStock
  <2>2. pc[p] # "idle" /\ done[p] = {} /\ kind = "sell"
    BY <2>1, DoneBefore DEF DoneAt, Made, Landed, Calls, CallsOf
  <2>3. Return(p, "insertTradeHistory") \/ Answer(p, "rejected")
    BY <1>5 DEF CountOwnedStock
  <2> QED
    BY <2>2, <2>3, AnswerAccounted, ReturnAccounted DEF Replies, DoneAt, Made, Landed
<1>6. CASE SelectFromAvgPrice(p)
  <2>1. Calling(p, "selectFromAvgPrice") /\ Return(p, "upsertAvgPrice")
    BY <1>6 DEF SelectFromAvgPrice
  <2>2. pc[p] # "idle" /\ Made(p, {"insertTradeHistory"}) /\ kind = "buy"
    BY <2>1, DoneBefore DEF DoneAt, Made, Landed, Calls, CallsOf, Transfers
  <2> QED
    BY <2>1, <2>2, ReturnAccounted DEF DoneAt, Transfers
<1> QED
  BY <1>1, <1>2, <1>3, <1>4, <1>5, <1>6

\* Writes: each adds itself to what the next call finds done. The one write
\* that may change nothing is that of a user without an account_info row.
LEMMA WritesAccounted ==
    ASSUME TypeInv, AccountedInv, NEW p \in Workers,
           \/ InsertTradeHistory(p) \/ UpsertAvgPrice(p) \/ UpsertOwnedStock(p)
           \/ ChangeAccount(p) \/ IncreaseBankAccount(p)
    PROVE  AccountedInv'
<1> DEFINE kind == req[p].kind
<1>1. CASE InsertTradeHistory(p)
  <2>1. Calling(p, "insertTradeHistory") /\ Commit(p, {"insertTradeHistory"},
                    IF kind = "buy" THEN "selectFromOwnedStock" ELSE "upsertOwnedStock")
    BY <1>1 DEF InsertTradeHistory
  <2>2. pc[p] = "insertTradeHistory" /\ Made(p, DoneAt(kind, "insertTradeHistory")) /\ kind \in {"buy", "sell"}
    BY <2>1, DoneBefore DEF Calls, CallsOf
  <2> QED
    BY <2>1, <2>2, CommitAccounted DEF DoneAt, Landed, Transfers
<1>2. CASE UpsertAvgPrice(p)
  <2>1. Calling(p, "upsertAvgPrice") /\ Commit(p, {"upsertAvgPrice"}, "upsertOwnedStock")
    BY <1>2 DEF UpsertAvgPrice
  <2>2. pc[p] = "upsertAvgPrice" /\ Made(p, DoneAt(kind, "upsertAvgPrice")) /\ kind \in {"buy"}
    BY <2>1, DoneBefore DEF Calls, CallsOf
  <2> QED
    BY <2>1, <2>2, CommitAccounted DEF DoneAt, Landed, Transfers
<1>3. CASE UpsertOwnedStock(p)
  <2>1. Calling(p, "upsertOwnedStock") /\ Commit(p, {"upsertOwnedStock"}, "changeAccount")
    BY <1>3 DEF UpsertOwnedStock
  <2>2. pc[p] = "upsertOwnedStock" /\ Made(p, DoneAt(kind, "upsertOwnedStock")) /\ kind \in {"buy", "sell"}
    BY <2>1, DoneBefore DEF Calls, CallsOf
  <2> QED
    BY <2>1, <2>2, CommitAccounted DEF DoneAt, Landed, Transfers
<1>4. CASE ChangeAccount(p)
  <2>1. Calling(p, "changeAccount")
        /\ Commit(p, IF req[p].user \notin Orphans THEN {"changeAccount"} ELSE {},
                  IF kind \in Transfers THEN "increaseBankAccount" ELSE "reportBalance")
    BY <1>4 DEF ChangeAccount
  <2>2. pc[p] = "changeAccount" /\ Made(p, DoneAt(kind, "changeAccount")) /\ kind \in {"deposit", "withdraw", "buy", "sell"}
    BY <2>1, DoneBefore DEF Calls, CallsOf
  <2> QED
    BY <2>1, <2>2, CommitAccounted DEF DoneAt, Landed, Transfers, Trades, Writes
<1>5. CASE IncreaseBankAccount(p)
  <2>1. Calling(p, "increaseBankAccount") /\ Commit(p, {"increaseBankAccount"}, "idle")
    BY <1>5 DEF IncreaseBankAccount
  <2>2. pc[p] = "increaseBankAccount" /\ Made(p, DoneAt(kind, "increaseBankAccount")) /\ kind \in {"deposit", "withdraw"}
    BY <2>1, DoneBefore DEF Calls, CallsOf
  <2> QED
    BY <2>1, <2>2, CommitAccounted DEF DoneAt, Landed, Transfers, Writes
<1> QED
  BY <1>1, <1>2, <1>3, <1>4, <1>5

\* By the time a trade reports the balance all its writes are committed.
LEMMA ReportAccounted ==
    ASSUME TypeInv, AccountedInv, NEW p \in Workers, ReportBalance(p)
    PROVE  AccountedInv'
<1> DEFINE kind == req[p].kind
<1>1. Calling(p, "reportBalance")
  BY DEF ReportBalance
<1>2. Made(p, Writes(kind))
  BY <1>1, DoneBefore DEF DoneAt, Calls, CallsOf, Transfers, Trades
<1>3. Answer(p, "success") \/ Answer(p, "error")
  BY DEF ReportBalance
<1> QED
  BY <1>2, <1>3, AnswerAccounted DEF Replies

\* A new request has written nothing and told nothing.
LEMMA StartAccounted ==
    ASSUME TypeInv, AccountedInv, NEW p \in Workers, Start(p)
    PROVE  AccountedInv'
<1>1. Untouched(p)
  BY DEF Start, Untouched, TypeInv, TypeOK, HandlersOK
<1>2. pc'[p] = "sidToUid" /\ reply'[p] = "none" /\ done'[p] = {}
  BY DEF Start, TypeInv, TypeOK, HandlersOK
<1>3. DoneAt(req'[p].kind, "sidToUid") = {}
  BY DEF DoneAt
<1>4. Accounted(p)'
  BY <1>2, <1>3 DEF Accounted, Made, Landed
<1> QED
  BY <1>1, <1>4, OthersKeep

\* AccountedInv is inductive.
LEMMA NextAccounted ==
    ASSUME TypeInv, AccountedInv, [Next]_vars
    PROVE  AccountedInv'
<1>1. ASSUME NEW p \in Workers, Work(p)
      PROVE  AccountedInv'
  <2>1. CASE Open(p)
    BY <2>1 DEF Open, AccountedInv, Accounted, Made, Landed
  <2>2. CASE Refused(p) \/ Aborted(p)
    BY <2>2, AnswerAccounted DEF Refused, Aborted, Replies
  <2> QED
    BY <1>1, <2>1, <2>2, ReadsAccounted, WritesAccounted, ReportAccounted DEF Work, Call
<1>2. CASE LoseConnection \/ UNCHANGED vars
  BY <1>2 DEF LoseConnection, vars, AccountedInv, Accounted, Made, Landed
<1> QED
  BY <1>1, <1>2, StartAccounted DEF Next, Waiting

\* A client is told the truth: for any number of threads and users, with the
\* connection breaking at any point. Who has no account_info row is told of a
\* success although the balance is not changed, and of no other untrue one.
THEOREM RepliesAreTruthful == Spec => []ReplyIsTruthful
<1>1. Init => AccountedInv
  BY DEF Init, AccountedInv, Accounted
<1>2. TypeInv /\ AccountedInv /\ [Next]_vars => AccountedInv'
  BY NextAccounted
<1>3. AccountedInv => ReplyIsTruthful
  BY DEF AccountedInv, Accounted, Made, Landed, Effects, ReplyIsTruthful
<1> QED
  BY <1>1, <1>2, <1>3, TypeCorrect, PTL DEF Spec

-----------------------------------------------------------------------------
(* The order of the writes of a torn request. *)

\* What a step does to the writes a worker has made: nothing, forget them with
\* the request they belong to, or add the call it is at.
LEMMA StepWrites ==
    ASSUME TypeInv, NEW p \in Workers, Start(p) \/ Work(p)
    PROVE  /\ \A q \in Workers \ {p} : done'[q] = done[q] /\ req'[q] = req[q]
           /\ \/ done'[p] = done[p] /\ req'[p] = req[p]
              \/ done'[p] = {}
              \/ /\ done'[p] = done[p] \union {pc[p]} /\ req'[p] = req[p]
                 /\ pc[p] \in {"insertTradeHistory", "upsertAvgPrice", "upsertOwnedStock",
                               "changeAccount", "increaseBankAccount"}
                 /\ Calling(p, pc[p])
<1> DEFINE others == \A q \in Workers \ {p} : done'[q] = done[q] /\ req'[q] = req[q]
<1>1. CASE Start(p)
  BY <1>1 DEF Start, TypeInv, TypeOK, HandlersOK
<1>2. CASE UNCHANGED <<req, done>>
  BY <1>2
<1>3. ASSUME NEW writes \in SUBSET Calls, NEW next, Commit(p, writes, next)
      PROVE  /\ others
             /\ done'[p] = done[p] \union writes /\ req'[p] = req[p]
  BY <1>3 DEF Commit, TypeInv, TypeOK, HandlersOK
<1>4. CASE \/ Open(p) \/ Refused(p) \/ Aborted(p) \/ SidToUid(p) \/ SelectFromBankAccount(p)
           \/ SelectFromAccountInfo(p) \/ ReportBalance(p) \/ SelectFromOwnedStock(p)
           \/ CountOwnedStock(p) \/ SelectFromAvgPrice(p)
  <2>1. \A outcome : Answer(p, outcome) => UNCHANGED <<req, done>>
    BY DEF Answer
  <2>2. \A next : Return(p, next) => UNCHANGED <<req, done>>
    BY DEF Return
  <2>3. CASE Open(p) \/ Refused(p) \/ Aborted(p) \/ SidToUid(p) \/ SelectFromBankAccount(p)
    BY <2>1, <2>2, <2>3, <1>2 DEF Open, Refused, Aborted, SidToUid, SelectFromBankAccount
  <2>4. CASE SelectFromAccountInfo(p) \/ ReportBalance(p) \/ CountOwnedStock(p)
             \/ SelectFromAvgPrice(p)
    BY <2>1, <2>2, <2>4, <1>2
       DEF SelectFromAccountInfo, ReportBalance, CountOwnedStock, SelectFromAvgPrice
  <2>5. CASE SelectFromOwnedStock(p)
    <3>1. req[p].kind \in {"buy", "sell", "poll"}
      <4>1. Calling(p, "selectFromOwnedStock")
        BY <2>5 DEF SelectFromOwnedStock
      <4> QED
        BY <4>1, CallFacts DEF Calls, CallsOf
    <3>2. UNCHANGED <<req, done>>
      BY <2>1, <2>2, <2>5, <3>1 DEF SelectFromOwnedStock
    <3> QED
      BY <3>2, <1>2
  <2> QED
    BY <1>4, <2>3, <2>4, <2>5
<1>5. CASE InsertTradeHistory(p)
  BY <1>3, <1>5 DEF InsertTradeHistory, Calling, Calls
<1>6. CASE UpsertAvgPrice(p)
  BY <1>3, <1>6 DEF UpsertAvgPrice, Calling, Calls
<1>7. CASE UpsertOwnedStock(p)
  BY <1>3, <1>7 DEF UpsertOwnedStock, Calling, Calls
<1>8. CASE ChangeAccount(p)
  <2>1. \E writes \in {{}, {"changeAccount"}} : \E next : Commit(p, writes, next)
    BY <1>8 DEF ChangeAccount
  <2>2. pc[p] = "changeAccount" /\ Calling(p, pc[p])
    BY <1>8 DEF ChangeAccount, Calling
  <2> QED
    BY <1>3, <2>1, <2>2 DEF Calls
<1>9. CASE IncreaseBankAccount(p)
  BY <1>3, <1>9 DEF IncreaseBankAccount, Calling, Calls
<1> QED
  BY <1>1, <1>4, <1>5, <1>6, <1>7, <1>8, <1>9 DEF Work, Call

\* Every step keeps the writes in the order of the code.
LEMMA NextInOrder ==
    ASSUME TypeInv, AccountedInv, WritesInCodeOrder, [Next]_vars
    PROVE  WritesInCodeOrder'
<1>1. ASSUME NEW p \in Workers, Start(p) \/ Work(p)
      PROVE  WritesInCodeOrder'
  <2>1. ASSUME NEW q \in Workers, done'[q] = done[q], req'[q] = req[q]
        PROVE  InCodeOrder(q)'
    BY <2>1 DEF WritesInCodeOrder, InCodeOrder
  <2>2. ASSUME done'[p] = {}
        PROVE  InCodeOrder(p)'
    BY <2>2 DEF InCodeOrder
  <2>3. ASSUME done'[p] = done[p] \union {pc[p]}, req'[p] = req[p],
               pc[p] \in {"insertTradeHistory", "upsertAvgPrice", "upsertOwnedStock",
                          "changeAccount", "increaseBankAccount"},
               Calling(p, pc[p])
        PROVE  InCodeOrder(p)'
    <3>1. done[p] = Landed(p, DoneAt(req[p].kind, pc[p])) /\ pc[p] \in CallsOf(req[p].kind)
          /\ req[p].kind \in {"deposit", "withdraw", "buy", "sell", "poll"}
      BY <2>3, DoneBefore DEF Calls, Made
    <3> DEFINE kind == req[p].kind
    <3>2. CASE kind \in Transfers
      <4>1. pc[p] \in {"changeAccount", "increaseBankAccount"}
        BY <2>3, <3>1, <3>2 DEF CallsOf, Transfers
      <4>2. "upsertOwnedStock" \notin done'[p]
        BY <2>3, <3>1, <3>2, <4>1 DEF Landed, DoneAt, Transfers, Trades
      <4>3. "increaseBankAccount" \in done'[p]
              => "changeAccount" \in done'[p] \/ req[p].user \in Orphans
        BY <2>3, <3>1, <3>2, <4>1 DEF Landed, DoneAt, Transfers, Trades
      <4> QED
        BY <2>3, <3>2, <4>2, <4>3 DEF InCodeOrder, Transfers
    <3>3. CASE kind = "buy"
      BY <2>3, <3>1, <3>3 DEF InCodeOrder, Landed, DoneAt, CallsOf, Transfers, Trades, Writes
    <3>4. CASE kind = "sell"
      BY <2>3, <3>1, <3>4 DEF InCodeOrder, Landed, DoneAt, CallsOf, Transfers, Trades, Writes
    <3>5. CASE kind = "poll"
      BY <2>3, <3>1, <3>5 DEF CallsOf
    <3> QED
      BY <3>1, <3>2, <3>3, <3>4, <3>5 DEF Transfers
  <2> QED
    BY <1>1, <2>1, <2>2, <2>3, StepWrites DEF WritesInCodeOrder
<1>2. CASE LoseConnection \/ UNCHANGED vars
  BY <1>2 DEF LoseConnection, vars, WritesInCodeOrder, InCodeOrder
<1> QED
  BY <1>1, <1>2 DEF Next, Waiting

\* Wherever a request is cut off, the writes it leaves are a prefix of the
\* code's order.
THEOREM TornInOrder == Spec => []WritesInCodeOrder
<1>1. Init => AccountedInv /\ WritesInCodeOrder
  BY DEF Init, AccountedInv, Accounted, WritesInCodeOrder, InCodeOrder
<1>2. TypeInv /\ AccountedInv /\ [Next]_vars => AccountedInv'
  BY NextAccounted
<1>3. TypeInv /\ AccountedInv /\ WritesInCodeOrder /\ [Next]_vars => WritesInCodeOrder'
  BY NextInOrder
<1> QED
  BY <1>1, <1>2, <1>3, TypeCorrect, PTL DEF Spec

-----------------------------------------------------------------------------
(* One thread: what a check saw still holds when the write it guards is made. *)

PurchaseCalls == {"insertTradeHistory", "selectFromOwnedStock", "selectFromAvgPrice",
                  "upsertAvgPrice", "upsertOwnedStock", "changeAccount"}

\* Past its session a trade has a positive amount, and until the balance a
\* request was checked against is debited, that balance covers it.
TradePositive(p) ==
    req[p].kind \in Trades /\ pc[p] \notin {"idle", "sidToUid"} => req[p].amount > 0
DepositCovered(p) ==
    req[p].kind = "deposit" /\ pc[p] \in {"changeAccount", "increaseBankAccount"}
      => bank[req[p].user][local[p].bank] >= Worth(p)
WithdrawalCovered(p) ==
    req[p].kind = "withdraw" /\ pc[p] = "changeAccount" => account[req[p].user] >= Worth(p)
PurchaseCovered(p) ==
    req[p].kind = "buy" /\ pc[p] \in PurchaseCalls => account[req[p].user] >= Worth(p)
SaleCovered(p) ==
    req[p].kind = "sell" /\ pc[p] \in {"insertTradeHistory", "upsertOwnedStock"}
      => owned[req[p].user][req[p].company] >= req[p].amount
Covered(p) == /\ TradePositive(p) /\ DepositCovered(p) /\ WithdrawalCovered(p)
              /\ PurchaseCovered(p) /\ SaleCovered(p)

\* The part of NoOverdraft that the sign of an amount cannot break.
SharesCovered == \A u \in Users, c \in Companies : owned[u][c] >= 0

CoveredInv == SharesCovered /\ \A p \in Workers : Covered(p)

\* What a trade past its session moves is not negative.
LEMMA TradeWorth ==
    ASSUME TypeInv, CoveredInv, NEW p \in Workers, pc[p] \notin {"idle", "sidToUid"},
           req[p].kind \in Trades
    PROVE  Worth(p) \in Nat
<1>1. req[p] \in Requests
  BY DEF TypeInv, Serving
<1>2. local[p].price \in Nat
  BY DEF TypeInv, TypeOK, HandlersOK, Locals
<1>3. req[p].amount \in Int
  BY <1>1, RequestFields
<1>4. req[p].amount > 0
  BY DEF CoveredInv, Covered, TradePositive
<1>5. req[p].amount * local[p].price \in Nat
  BY <1>2, <1>3, <1>4
<1>6. req[p].kind \notin Transfers
  BY DEF Transfers, Trades
<1>7. Worth(p) = req[p].amount * local[p].price
  BY <1>6, Zenon DEF Worth
<1> QED
  BY <1>5, <1>7, Zenon

\* An answer, or a step that leaves the tables and the worker where they are.
LEMMA IdleCovered ==
    ASSUME TypeInv, CoveredInv, NEW p \in Workers, Workers = {p},
           UNCHANGED <<account, bank, owned, req>>,
           pc' \in [Workers -> Calls \union {"idle"}],
           pc'[p] = "idle" \/ (pc'[p] = pc[p] /\ UNCHANGED local)
    PROVE  CoveredInv'
<1>1. SharesCovered'
  BY DEF CoveredInv, SharesCovered
<1>2. CASE pc'[p] = "idle"
  BY <1>1, <1>2 DEF CoveredInv, Covered, TradePositive, DepositCovered,
                    WithdrawalCovered, PurchaseCovered, PurchaseCalls, SaleCovered
<1>3. CASE pc'[p] = pc[p] /\ UNCHANGED local
  <2>1. Worth(p)' = Worth(p)
    BY <1>3 DEF Worth
  <2> QED
    BY <1>1, <1>3, <2>1 DEF CoveredInv, Covered, TradePositive, DepositCovered,
                            WithdrawalCovered, PurchaseCovered, SaleCovered
<1> QED
  BY <1>2, <1>3

\* An answer ends the handler: nothing needs to be covered any more.
LEMMA AnswerCovered ==
    ASSUME TypeInv, CoveredInv, NEW p \in Workers, Workers = {p}, NEW outcome,
           Answer(p, outcome), UNCHANGED tables
    PROVE  CoveredInv'
<1>1. pc' \in [Workers -> Calls \union {"idle"}] /\ pc'[p] = "idle"
  BY DEF Answer, TypeInv, TypeOK, HandlersOK
<1> QED
  BY <1>1, IdleCovered DEF Answer, tables

\* A read that changes nothing but the worker's position and its locals.
LEMMA ReturnCovered ==
    ASSUME TypeInv, CoveredInv, NEW p \in Workers, Workers = {p}, NEW next,
           Return(p, next), UNCHANGED tables,
           req[p].kind \in Trades => req[p].amount > 0,
           req[p].kind = "deposit" /\ next \in {"changeAccount", "increaseBankAccount"}
             => bank[req[p].user][local'[p].bank] >= Worth(p)',
           req[p].kind = "withdraw" /\ next = "changeAccount"
             => account[req[p].user] >= Worth(p)',
           req[p].kind = "buy" => \/ next = "selectFromAccountInfo"
                                 \/ account[req[p].user] >= Worth(p)',
           req[p].kind = "sell" /\ next \in {"insertTradeHistory", "upsertOwnedStock"}
             => owned[req[p].user][req[p].company] >= req[p].amount
    PROVE  CoveredInv'
<1>1. SharesCovered'
  BY DEF CoveredInv, SharesCovered, tables
<1>2. pc'[p] = next /\ req'[p] = req[p]
  BY DEF Return, TypeInv, TypeOK, HandlersOK
<1>3. UNCHANGED <<account, bank, owned>>
  BY DEF tables
<1>4. Covered(p)'
  <2>1. TradePositive(p)'
    BY <1>2 DEF TradePositive
  <2>2. DepositCovered(p)'
    BY <1>2, <1>3 DEF DepositCovered
  <2>3. WithdrawalCovered(p)'
    BY <1>2, <1>3 DEF WithdrawalCovered
  <2>4. PurchaseCovered(p)'
    BY <1>2, <1>3 DEF PurchaseCovered, PurchaseCalls
  <2>5. SaleCovered(p)'
    BY <1>2, <1>3 DEF SaleCovered
  <2> QED
    BY <2>1, <2>2, <2>3, <2>4, <2>5 DEF Covered
<1> QED
  BY <1>1, <1>4 DEF CoveredInv

\* What a request is worth depends on the request and the price it read.
LEMMA WorthKept ==
    ASSUME NEW p \in Workers, req'[p] = req[p], local'[p].price = local[p].price
    PROVE  /\ Worth(p)' = Worth(p) /\ AccountDelta(p)' = AccountDelta(p)
           /\ BankDelta(p)' = BankDelta(p) /\ SharesDelta(p)' = SharesDelta(p)
BY DEF Worth, AccountDelta, BankDelta, SharesDelta

\* A thread in a call past its session, and what its return leaves of the request.
LEMMA CallCovered ==
    ASSUME TypeInv, CoveredInv, NEW p \in Workers, NEW call \in Calls \ {"sidToUid"},
           Calling(p, call)
    PROVE  /\ pc[p] = call
           /\ req[p].kind \in {"deposit", "withdraw", "buy", "sell", "poll"}
           /\ req[p].user \in Users
           /\ call \in CallsOf(req[p].kind)
           /\ req[p].kind \in Trades => req[p].amount > 0
           /\ Worth(p) \in Int /\ (req[p].kind \in Trades => Worth(p) \in Nat)
           /\ Covered(p)
<1>1. pc[p] = call /\ call \notin {"idle", "sidToUid"}
  BY DEF Calling, Calls
<1>2. Covered(p) /\ TradePositive(p)
  BY DEF CoveredInv, Covered
<1> QED
  BY <1>1, <1>2, CallFacts, WorthType, TradeWorth DEF TradePositive

\* A return does not change what the request is worth.
LEMMA ReturnKeeps ==
    ASSUME TypeInv, NEW p \in Workers, NEW next, Return(p, next),
           local'[p].price = local[p].price
    PROVE  Worth(p)' = Worth(p)
BY WorthKept DEF Return

\* A read checks what the next write will take, or leaves the check standing.
LEMMA ReadsCovered ==
    ASSUME TypeInv, CoveredInv, NEW p \in Workers, Workers = {p},
           \/ SidToUid(p) \/ SelectFromBankAccount(p) \/ SelectFromAccountInfo(p)
           \/ ReportBalance(p) \/ SelectFromOwnedStock(p) \/ CountOwnedStock(p)
           \/ SelectFromAvgPrice(p)
    PROVE  CoveredInv'
<1> DEFINE kind == req[p].kind
           u == req[p].user
<1>1. CASE SidToUid(p)
  <2>1. Calling(p, "sidToUid") /\ UNCHANGED tables
    BY <1>1 DEF SidToUid
  <2>2. kind \in {"deposit", "withdraw", "buy", "sell", "poll"}
    BY <2>1, CallFacts DEF Calls
  <2>3. \/ Answer(p, "rejected") \/ Answer(p, "error")
        \/ Return(p, FirstCall(kind)) /\ (kind \in Trades => req[p].amount > 0)
    BY <1>1 DEF SidToUid
  <2>4. /\ FirstCall(kind) \notin {"changeAccount", "increaseBankAccount",
                                  "insertTradeHistory", "upsertOwnedStock"}
        /\ kind = "buy" => FirstCall(kind) = "selectFromAccountInfo"
    BY <2>2 DEF FirstCall, Transfers
  <2> HIDE DEF kind
  <2> QED
    BY <2>1, <2>3, <2>4, AnswerCovered, ReturnCovered DEF kind
<1>2. CASE SelectFromBankAccount(p)
  <2>1. /\ Calling(p, "selectFromBankAccount") /\ UNCHANGED tables
        /\ local'[p].price = local[p].price
    BY <1>2 DEF SelectFromBankAccount, TypeInv, TypeOK, HandlersOK, Locals
  <2>2. \/ kind = "withdraw" /\ Return(p, "selectFromAccountInfo")
        \/ /\ kind = "deposit" /\ Return(p, "changeAccount")
           /\ bank[u][local'[p].bank] >= Worth(p)
        \/ Answer(p, "rejected") \/ Answer(p, "error")
    BY <1>2 DEF SelectFromBankAccount, TypeInv, TypeOK, HandlersOK, Locals
  <2>3. CASE kind = "withdraw" /\ Return(p, "selectFromAccountInfo")
    BY <2>1, <2>3, ReturnCovered DEF Trades
  <2>4. CASE /\ kind = "deposit" /\ Return(p, "changeAccount")
             /\ bank[u][local'[p].bank] >= Worth(p)
    BY <2>1, <2>4, ReturnCovered, ReturnKeeps DEF Trades
  <2> QED
    BY <2>1, <2>2, <2>3, <2>4, AnswerCovered
<1>3. CASE SelectFromAccountInfo(p)
  <2>1. Calling(p, "selectFromAccountInfo") /\ UNCHANGED <<tables, local>>
    BY <1>3 DEF SelectFromAccountInfo
  <2>2. /\ Worth(p) \in Int /\ account[u] \in Int
        /\ kind \in {"withdraw", "buy"} /\ (kind \in Trades => req[p].amount > 0)
    BY <2>1, CallCovered DEF Calls, CallsOf, TypeInv, TypeOK, TablesOK
  <2>3. \/ /\ account[u] >= Worth(p)
           /\ Return(p, IF kind = "buy" THEN "insertTradeHistory" ELSE "changeAccount")
        \/ Answer(p, "rejected")
        \/ Answer(p, "error")
    BY <1>3, <2>2 DEF SelectFromAccountInfo
  <2>4. CASE /\ account[u] >= Worth(p)
             /\ Return(p, IF kind = "buy" THEN "insertTradeHistory" ELSE "changeAccount")
    <3>1. account[u] >= Worth(p)'
      BY <2>1, <2>4, ReturnKeeps
    <3> QED
      BY <2>1, <2>2, <2>4, <3>1, ReturnCovered
  <2> QED
    BY <2>1, <2>3, <2>4, AnswerCovered
<1>4. CASE ReportBalance(p)
  BY <1>4, AnswerCovered DEF ReportBalance
<1>5. CASE SelectFromOwnedStock(p)
  <2>1. /\ Calling(p, "selectFromOwnedStock") /\ UNCHANGED tables
        /\ local'[p].price = local[p].price
    BY <1>5 DEF SelectFromOwnedStock, TypeInv, TypeOK, HandlersOK, Locals
  <2>2. /\ pc[p] = "selectFromOwnedStock" /\ kind \in {"buy", "sell", "poll"}
        /\ (kind \in Trades => req[p].amount > 0) /\ PurchaseCovered(p)
    BY <2>1, CallCovered DEF Calls, CallsOf, Covered
  <2>3. \/ kind = "buy" /\ Return(p, "selectFromAvgPrice")
        \/ kind = "sell" /\ Return(p, "countOwnedStock")
        \/ \E outcome : Answer(p, outcome)
    BY <1>5, <2>2 DEF SelectFromOwnedStock
  <2>4. CASE kind = "buy" /\ Return(p, "selectFromAvgPrice")
    <3>1. account[u] >= Worth(p)'
      BY <2>1, <2>2, <2>4, ReturnKeeps DEF PurchaseCovered, PurchaseCalls
    <3> QED
      BY <2>1, <2>2, <2>4, <3>1, ReturnCovered
  <2>5. CASE kind = "sell" /\ Return(p, "countOwnedStock")
    BY <2>1, <2>2, <2>5, ReturnCovered
  <2> QED
    BY <2>1, <2>3, <2>4, <2>5, AnswerCovered
<1>6. CASE CountOwnedStock(p)
  <2>1. Calling(p, "countOwnedStock") /\ UNCHANGED <<tables, local>>
    BY <1>6 DEF CountOwnedStock
  <2>2. kind = "sell" /\ (kind \in Trades => req[p].amount > 0) /\ req[p] \in Requests
    BY <2>1, CallCovered, CallFacts DEF Calls, CallsOf
  <2>3. req[p].amount \in Int /\ owned[u][req[p].company] \in Int
    BY <2>2, RequestFields DEF TypeInv, TypeOK, TablesOK, Trades
  <2>4. \/ Return(p, "insertTradeHistory") /\ owned[u][req[p].company] >= req[p].amount
        \/ Answer(p, "rejected")
    BY <1>6, <2>3 DEF CountOwnedStock
  <2> QED
    BY <2>1, <2>2, <2>4, AnswerCovered, ReturnCovered
<1>7. CASE SelectFromAvgPrice(p)
  <2>1. /\ Calling(p, "selectFromAvgPrice") /\ UNCHANGED tables
        /\ local'[p].price = local[p].price /\ Return(p, "upsertAvgPrice")
    BY <1>7 DEF SelectFromAvgPrice, TypeInv, TypeOK, HandlersOK, Locals
  <2>2. /\ pc[p] = "selectFromAvgPrice" /\ kind = "buy"
        /\ (kind \in Trades => req[p].amount > 0) /\ PurchaseCovered(p)
    BY <2>1, CallCovered DEF Calls, CallsOf, Covered
  <2>3. account[u] >= Worth(p)'
    BY <2>1, <2>2, ReturnKeeps DEF PurchaseCovered, PurchaseCalls
  <2> QED
    BY <2>1, <2>2, <2>3, ReturnCovered
<1> QED
  BY <1>1, <1>2, <1>3, <1>4, <1>5, <1>6, <1>7

\* A commit that overdraws nothing leaves the rest of the request covered.
LEMMA CommitCovered ==
    ASSUME TypeInv, CoveredInv, NEW p \in Workers, Workers = {p}, NEW writes, NEW next,
           Commit(p, writes, next), SharesCovered', req[p].kind \in Trades => req[p].amount > 0,
           req[p].kind = "deposit" /\ next \in {"changeAccount", "increaseBankAccount"}
             => bank'[req[p].user][local[p].bank] >= Worth(p),
           req[p].kind = "withdraw" => next # "changeAccount",
           req[p].kind = "buy" /\ next \in PurchaseCalls
             => account'[req[p].user] >= Worth(p),
           req[p].kind = "sell" /\ next \in {"insertTradeHistory", "upsertOwnedStock"}
             => owned'[req[p].user][req[p].company] >= req[p].amount
    PROVE  CoveredInv'
<1>1. /\ pc'[p] = next \/ pc'[p] = "idle"
      /\ req'[p] = req[p] /\ local'[p] = local[p]
  BY DEF Commit, TypeInv, TypeOK, HandlersOK
<1>2. Worth(p)' = Worth(p)
  BY <1>1, WorthKept
<1>3. TradePositive(p)'
  BY <1>1 DEF TradePositive
<1>4. DepositCovered(p)'
  BY <1>1, <1>2 DEF DepositCovered
<1>5. WithdrawalCovered(p)'
  BY <1>1 DEF WithdrawalCovered
<1>6. PurchaseCovered(p)'
  BY <1>1, <1>2 DEF PurchaseCovered, PurchaseCalls
<1>7. SaleCovered(p)'
  BY <1>1 DEF SaleCovered
<1> QED
  BY <1>3, <1>4, <1>5, <1>6, <1>7 DEF CoveredInv, Covered

\* Every write of a lone worker finds what its check found.
LEMMA WritesCovered ==
    ASSUME TypeInv, CoveredInv, NEW p \in Workers, Workers = {p},
           \/ InsertTradeHistory(p) \/ UpsertAvgPrice(p) \/ UpsertOwnedStock(p)
           \/ ChangeAccount(p) \/ IncreaseBankAccount(p)
    PROVE  CoveredInv'
<1> DEFINE kind == req[p].kind
           u == req[p].user
<1>1. ASSUME UNCHANGED <<account, bank, owned>>
      PROVE  SharesCovered'
  BY <1>1 DEF CoveredInv, SharesCovered
<1>2. CASE InsertTradeHistory(p)
  <2>1. /\ Calling(p, "insertTradeHistory") /\ UNCHANGED <<account, bank, owned>>
        /\ Commit(p, {"insertTradeHistory"},
                  IF kind = "buy" THEN "selectFromOwnedStock" ELSE "upsertOwnedStock")
    BY <1>2 DEF InsertTradeHistory
  <2>2. /\ pc[p] = "insertTradeHistory" /\ kind \in {"buy", "sell"}
        /\ (kind \in Trades => req[p].amount > 0)
        /\ PurchaseCovered(p) /\ SaleCovered(p)
    BY <2>1, CallCovered DEF Calls, CallsOf, Covered
  <2> QED
    BY <1>1, <2>1, <2>2, CommitCovered DEF PurchaseCovered, SaleCovered, PurchaseCalls
<1>3. CASE UpsertAvgPrice(p)
  <2>1. /\ Calling(p, "upsertAvgPrice") /\ UNCHANGED <<account, bank, owned>>
        /\ Commit(p, {"upsertAvgPrice"}, "upsertOwnedStock")
    BY <1>3 DEF UpsertAvgPrice
  <2>2. /\ pc[p] = "upsertAvgPrice" /\ kind = "buy"
        /\ (kind \in Trades => req[p].amount > 0) /\ PurchaseCovered(p)
    BY <2>1, CallCovered DEF Calls, CallsOf, Covered
  <2> QED
    BY <1>1, <2>1, <2>2, CommitCovered DEF PurchaseCovered, PurchaseCalls
<1>4. CASE UpsertOwnedStock(p)
  <2> DEFINE c == req[p].company
  <2>1. /\ Calling(p, "upsertOwnedStock") /\ UNCHANGED <<account, bank>>
        /\ owned' = [owned EXCEPT ![u][c] = @ + SharesDelta(p)]
        /\ Commit(p, {"upsertOwnedStock"}, "changeAccount")
    BY <1>4 DEF UpsertOwnedStock
  <2>2. /\ pc[p] = "upsertOwnedStock" /\ kind \in {"buy", "sell"} /\ u \in Users
        /\ (kind \in Trades => req[p].amount > 0)
        /\ PurchaseCovered(p) /\ SaleCovered(p) /\ req[p] \in Requests
    BY <2>1, CallCovered, CallFacts DEF Calls, CallsOf, Covered
  <2>3. req[p].amount \in Nat /\ owned[u][c] \in Int
    BY <2>2, RequestFields DEF TypeInv, TypeOK, TablesOK, Trades
  <2>4. owned[u][c] + SharesDelta(p) >= 0
    <3>1. owned[u][c] >= 0
      BY <2>2, RequestFields DEF CoveredInv, SharesCovered, Trades
    <3> QED
      BY <2>2, <2>3, <3>1 DEF SaleCovered, SharesDelta
  <2>5. SharesCovered'
    BY <2>1, <2>2, <2>4 DEF CoveredInv, SharesCovered, TypeInv, TypeOK, TablesOK
  <2> QED
    BY <2>1, <2>2, <2>5, CommitCovered DEF PurchaseCovered, PurchaseCalls
<1>5. CASE ChangeAccount(p)
  <2> DEFINE next == IF kind \in Transfers THEN "increaseBankAccount" ELSE "reportBalance"
  <2>1. /\ Calling(p, "changeAccount") /\ UNCHANGED <<bank, owned>>
        /\ \E writes : Commit(p, writes, next)
    BY <1>5 DEF ChangeAccount
  <2>2. /\ (kind \in Trades => req[p].amount > 0)
        /\ pc[p] = "changeAccount" /\ DepositCovered(p) /\ SharesCovered
    BY <2>1, CallCovered DEF Calls, Covered, CoveredInv
  <2>3. SharesCovered'
    BY <2>1, <2>2 DEF SharesCovered
  <2>4. next \notin PurchaseCalls
        /\ next \notin {"changeAccount", "insertTradeHistory", "upsertOwnedStock"}
    BY DEF PurchaseCalls
  <2>5. kind = "deposit" => bank'[u][local[p].bank] >= Worth(p)
    BY <2>1, <2>2 DEF DepositCovered
  <2> HIDE DEF next
  <2> QED
    BY <2>1, <2>2, <2>3, <2>4, <2>5, CommitCovered
<1>6. CASE IncreaseBankAccount(p)
  <2>1. /\ Calling(p, "increaseBankAccount") /\ UNCHANGED <<account, owned>>
        /\ Commit(p, {"increaseBankAccount"}, "idle")
    BY <1>6 DEF IncreaseBankAccount
  <2>2. (kind \in Trades => req[p].amount > 0) /\ SharesCovered
    BY <2>1, CallCovered DEF Calls, CoveredInv
  <2>3. SharesCovered'
    BY <2>1, <2>2 DEF SharesCovered
  <2> QED
    BY <2>1, <2>2, <2>3, CommitCovered DEF PurchaseCalls
<1> QED
  BY <1>2, <1>3, <1>4, <1>5, <1>6

\* CoveredInv is inductive with a single worker.
LEMMA NextCovered ==
    ASSUME TypeInv, CoveredInv, NEW w, Workers = {w}, [Next]_vars
    PROVE  CoveredInv'
<1>1. w \in Workers
  OBVIOUS
<1>2. pc \in [Workers -> Calls \union {"idle"}]
  BY DEF TypeInv, TypeOK, HandlersOK
<1>3. CASE Start(w)
  <2>1. UNCHANGED <<account, bank, owned>> /\ pc'[w] = "sidToUid"
    BY <1>1, <1>2, <1>3 DEF Start, tables
  <2>2. SharesCovered'
    BY <2>1 DEF CoveredInv, SharesCovered
  <2>3. Covered(w)'
    BY <2>1 DEF Covered, TradePositive, DepositCovered, WithdrawalCovered,
                PurchaseCovered, PurchaseCalls, SaleCovered
  <2> QED
    BY <2>2, <2>3 DEF CoveredInv
<1>4. CASE Open(w) \/ LoseConnection \/ UNCHANGED vars
  <2>1. UNCHANGED <<account, bank, owned, req, pc, local>>
    BY <1>4 DEF Open, LoseConnection, tables, vars
  <2> QED
    BY <1>1, <1>2, <2>1, IdleCovered
<1>5. CASE Refused(w) \/ Aborted(w)
  BY <1>1, <1>5, AnswerCovered DEF Refused, Aborted
<1>6. CASE Call(w)
  BY <1>1, <1>6, ReadsCovered, WritesCovered DEF Call
<1> QED
  BY <1>1, <1>3, <1>4, <1>5, <1>6 DEF Next, Work, Waiting

\* A write adds its call to those the worker has made, none of which it was.
LEMMA WriteIsNew ==
    ASSUME TypeInv, AccountedInv, NEW p \in Workers, NEW call \in Calls, NEW next,
           Calling(p, call), Commit(p, {call}, next)
    PROVE  done'[p] # done[p]
<1>1. /\ pc[p] = call /\ call \in CallsOf(req[p].kind)
      /\ req[p].kind \in {"deposit", "withdraw", "buy", "sell", "poll"}
      /\ done[p] = Landed(p, DoneAt(req[p].kind, call))
  BY DoneBefore DEF Made
<1>2. call \notin done[p]
  BY <1>1 DEF Landed, DoneAt, CallsOf, Writes, Transfers, Trades
<1>3. done'[p] = done[p] \union {call}
  BY DEF Commit, TypeInv, TypeOK, HandlersOK
<1> QED
  BY <1>2, <1>3

\* The payment of a lone worker finds the balance its check found.
LEMMA ChangeAccountChecked ==
    ASSUME TypeInv, AccountedInv, CoveredInv, NEW p \in Workers, ChangeAccount(p)
    PROVE  TakesChecked
<1> DEFINE kind == req[p].kind
           u == req[p].user
           next == IF kind \in Transfers THEN "increaseBankAccount" ELSE "reportBalance"
<1>1. Calling(p, "changeAccount") /\ UNCHANGED <<bank, owned>>
  BY DEF ChangeAccount
<1>2. /\ pc[p] = "changeAccount" /\ kind \in {"deposit", "withdraw", "buy", "sell"}
      /\ u \in Users /\ Worth(p) \in Int /\ (kind \in Trades => Worth(p) \in Nat)
      /\ WithdrawalCovered(p) /\ PurchaseCovered(p)
  BY <1>1, CallCovered DEF Calls, CallsOf, Covered
<1>3. account[u] \in Int
  BY <1>2 DEF TypeInv, TypeOK, TablesOK
<1>4. \A x \in Users : \/ account'[x] = account[x]
                       \/ /\ x = u /\ account'[u] = account[u] + AccountDelta(p)
                          /\ Commit(p, {"changeAccount"}, next)
  BY <1>2 DEF ChangeAccount, TypeInv, TypeOK, TablesOK
<1>5. ASSUME account'[u] = account[u] + AccountDelta(p), account'[u] < account[u],
             Commit(p, {"changeAccount"}, next)
      PROVE  account'[u] >= 0 \/ Reverses(p, "deposit", u)
  <2>1. CASE kind = "withdraw"
    BY <1>2, <1>3, <1>5, <2>1 DEF AccountDelta, WithdrawalCovered
  <2>2. CASE kind = "buy"
    BY <1>2, <1>3, <1>5, <2>2 DEF AccountDelta, PurchaseCovered, PurchaseCalls
  <2>3. CASE kind = "sell"
    BY <1>2, <1>3, <1>5, <2>3 DEF AccountDelta, Trades
  <2>4. CASE kind = "deposit"
    <3>1. Worth(p) = req[p].amount /\ AccountDelta(p) = Worth(p)
      BY <2>4 DEF Worth, AccountDelta, Transfers
    <3>2. req[p].amount < 0
      BY <1>2, <1>3, <1>5, <3>1
    <3>3. done'[p] # done[p]
      BY <1>1, <1>5, WriteIsNew DEF Calls
    <3> QED
      BY <2>4, <3>2, <3>3 DEF Reverses
  <2> QED
    BY <1>2, <2>1, <2>2, <2>3, <2>4
<1>6. \A x \in Users : account'[x] < account[x] =>
        account'[x] >= 0 \/ \E q \in Workers : Reverses(q, "deposit", x)
  <2>1. \A x \in Users : account[x] \in Int
    BY DEF TypeInv, TypeOK, TablesOK
  <2> QED
    BY <1>4, <1>5, <2>1
<1>7. bank \in [Users -> [Banks -> Int]] /\ owned \in [Users -> [Companies -> Int]]
  BY DEF TypeInv, TypeOK, TablesOK
<1>8. /\ \A x \in Users : \A b \in Banks : ~(bank'[x][b] < bank[x][b])
      /\ \A x \in Users : \A c \in Companies : ~(owned'[x][c] < owned[x][c])
  BY <1>1, <1>7
<1> QED
  BY <1>6, <1>8 DEF TakesChecked

\* So does what it takes from a bank account.
LEMMA IncreaseBankAccountChecked ==
    ASSUME TypeInv, AccountedInv, CoveredInv, NEW p \in Workers, IncreaseBankAccount(p)
    PROVE  TakesChecked
<1> DEFINE kind == req[p].kind
           u == req[p].user
           chosen == local[p].bank
<1>1. /\ Calling(p, "increaseBankAccount") /\ UNCHANGED <<account, owned>>
      /\ Commit(p, {"increaseBankAccount"}, "idle")
  BY DEF IncreaseBankAccount
<1>2. /\ pc[p] = "increaseBankAccount" /\ kind \in {"deposit", "withdraw"}
      /\ u \in Users /\ Worth(p) \in Int /\ DepositCovered(p)
  BY <1>1, CallCovered DEF Calls, CallsOf, Covered
<1>3. bank \in [Users -> [Banks -> Int]]
  BY DEF TypeInv, TypeOK, TablesOK
<1>4. \A x \in Users, b \in Banks :
        \/ bank'[x][b] = bank[x][b]
        \/ x = u /\ b = chosen /\ bank'[u][chosen] = bank[u][chosen] + BankDelta(p)
  BY <1>2, <1>3 DEF IncreaseBankAccount
<1>5. ASSUME chosen \in Banks, bank'[u][chosen] = bank[u][chosen] + BankDelta(p),
             bank'[u][chosen] < bank[u][chosen]
      PROVE  bank'[u][chosen] >= 0 \/ Reverses(p, "withdraw", u)
  <2>1. bank[u][chosen] \in Int
    BY <1>2, <1>3, <1>5
  <2>2. CASE kind = "deposit"
    BY <1>2, <1>5, <2>1, <2>2 DEF BankDelta, DepositCovered
  <2>3. CASE kind = "withdraw"
    <3>1. Worth(p) = req[p].amount /\ BankDelta(p) = Worth(p)
      BY <2>3 DEF Worth, BankDelta, Transfers
    <3>2. req[p].amount < 0
      BY <1>2, <1>5, <2>1, <3>1
    <3>3. done'[p] # done[p]
      BY <1>1, WriteIsNew DEF Calls
    <3> QED
      BY <2>3, <3>2, <3>3 DEF Reverses
  <2> QED
    BY <1>2, <2>2, <2>3
<1>6. \A x \in Users : \A b \in Banks : bank'[x][b] < bank[x][b] =>
        bank'[x][b] >= 0 \/ \E q \in Workers : Reverses(q, "withdraw", x)
  <2>1. \A x \in Users, b \in Banks : bank[x][b] \in Int
    BY <1>3
  <2> QED
    BY <1>4, <1>5, <2>1
<1>7. account \in [Users -> Int] /\ owned \in [Users -> [Companies -> Int]]
  BY DEF TypeInv, TypeOK, TablesOK
<1>8. /\ \A x \in Users : ~(account'[x] < account[x])
      /\ \A x \in Users : \A c \in Companies : ~(owned'[x][c] < owned[x][c])
  BY <1>1, <1>7
<1> QED
  BY <1>6, <1>8 DEF TakesChecked

\* No step of a lone worker takes what its check did not see.
LEMMA NextChecked ==
    ASSUME TypeInv, AccountedInv, CoveredInv, NEW w, Workers = {w}, [Next]_vars
    PROVE  TakesChecked
<1>1. /\ account \in [Users -> Int] /\ bank \in [Users -> [Banks -> Int]]
      /\ owned \in [Users -> [Companies -> Int]]
  BY DEF TypeInv, TypeOK, TablesOK
<1>2. CoveredInv'
  BY NextCovered
<1>3. ASSUME UNCHANGED <<account, bank>>
      PROVE  TakesChecked
  BY <1>1, <1>2, <1>3 DEF TakesChecked, CoveredInv, SharesCovered
<1>4. CASE Start(w) \/ Open(w) \/ Refused(w) \/ Aborted(w) \/ LoseConnection \/ UNCHANGED vars
  BY <1>3, <1>4 DEF Start, Open, Refused, Aborted, LoseConnection, vars, tables
<1>5. CASE \/ SidToUid(w) \/ SelectFromBankAccount(w) \/ SelectFromAccountInfo(w)
           \/ ReportBalance(w) \/ SelectFromOwnedStock(w) \/ CountOwnedStock(w)
           \/ SelectFromAvgPrice(w)
  BY <1>3, <1>5 DEF SidToUid, SelectFromBankAccount, SelectFromAccountInfo, ReportBalance,
     SelectFromOwnedStock, CountOwnedStock, SelectFromAvgPrice, tables
<1>6. CASE InsertTradeHistory(w) \/ UpsertAvgPrice(w) \/ UpsertOwnedStock(w)
  BY <1>3, <1>6 DEF InsertTradeHistory, UpsertAvgPrice, UpsertOwnedStock
<1> QED
  BY <1>4, <1>5, <1>6, ChangeAccountChecked, IncreaseBankAccountChecked
     DEF Next, Work, Call, Waiting

\* A new server has nothing to cover.
LEMMA InitCovered == Init => CoveredInv /\ AccountedInv
BY DEF Init, CoveredInv, SharesCovered, Covered, TradePositive, DepositCovered,
   WithdrawalCovered, PurchaseCovered, PurchaseCalls, SaleCovered, AccountedInv, Accounted

\* With one thread the checks of the handlers hold until the write they guard,
\* for any amounts of either sign, prices and users, with the connection breaking
\* at any point: only a negative transfer overdraws anybody.
THEOREM OneThreadChecksHold == \A w : Workers = {w} => (Spec => ChecksHold)
<1> SUFFICES ASSUME NEW w, Workers = {w} PROVE Spec => ChecksHold
  OBVIOUS
<1>1. TypeInv /\ CoveredInv /\ [Next]_vars => CoveredInv'
  BY NextCovered
<1>2. TypeInv /\ AccountedInv /\ [Next]_vars => AccountedInv'
  BY NextAccounted
<1>3. TypeInv /\ AccountedInv /\ CoveredInv /\ [Next]_vars => TakesChecked
  BY NextChecked
<1> QED
  BY <1>1, <1>2, <1>3, InitCovered, TypeCorrect, PTL DEF Spec, ChecksHold

\* Nobody reverses a transfer when no amount is negative.
LEMMA NothingReversed ==
    ASSUME TypeInv, Amounts \subseteq Nat, NEW p \in Workers, NEW u,
           NEW kind \in Transfers, Reverses(p, kind, u)
    PROVE  FALSE
<1>1. req[p].kind = kind /\ req[p].amount < 0 /\ req[p] \in Requests \union {NoRequest}
  BY DEF Reverses, TypeInv, TypeOK, HandlersOK
<1>2. req[p] \in Requests
  BY <1>1 DEF NoRequest, Transfers
<1>3. req[p].amount \in Nat
  BY <1>1, <1>2, RequestFields
<1> QED
  BY <1>1, <1>3

\* With one thread, and no amount negative, the checks hold what they promise:
\* the second condition is the one the server does not enforce.
THEOREM OneThreadNoOverdraft ==
    \A w : Workers = {w} /\ Amounts \subseteq Nat => (Spec => []NoOverdraft)
<1> SUFFICES ASSUME NEW w, Workers = {w}, Amounts \subseteq Nat PROVE Spec => []NoOverdraft
  OBVIOUS
<1>1. Init => NoOverdraft
  BY MoneyAssumption DEF Init, NoOverdraft
<1>2. TypeInv /\ AccountedInv /\ CoveredInv /\ NoOverdraft /\ [Next]_vars => NoOverdraft'
  <2> SUFFICES ASSUME TypeInv, AccountedInv, CoveredInv, NoOverdraft, [Next]_vars
               PROVE  NoOverdraft'
    OBVIOUS
  <2>1. TakesChecked
    BY NextChecked
  <2>2. TablesOK /\ TablesOK'
    BY NextTyped DEF TypeInv, TypeOK
  <2>3. \A u : \A p \in Workers : ~Reverses(p, "deposit", u) /\ ~Reverses(p, "withdraw", u)
    BY NothingReversed DEF Transfers
  <2>4. ASSUME NEW u \in Users
        PROVE  account'[u] >= 0
    <3>1. account[u] \in Int /\ account'[u] \in Int /\ account[u] >= 0
      BY <2>2 DEF NoOverdraft, TablesOK
    <3>2. account'[u] < account[u] => account'[u] >= 0
      BY <2>1, <2>3 DEF TakesChecked
    <3> QED
      BY <3>1, <3>2
  <2>5. ASSUME NEW u \in Users, NEW b \in Banks
        PROVE  bank'[u][b] >= 0
    <3>1. bank[u][b] \in Int /\ bank'[u][b] \in Int /\ bank[u][b] >= 0
      BY <2>2 DEF NoOverdraft, TablesOK
    <3>2. bank'[u][b] < bank[u][b] => bank'[u][b] >= 0
      BY <2>1, <2>3 DEF TakesChecked
    <3> QED
      BY <3>1, <3>2
  <2>6. ASSUME NEW u \in Users, NEW c \in Companies
        PROVE  owned'[u][c] >= 0
    <3>1. owned[u][c] \in Int /\ owned'[u][c] \in Int /\ owned[u][c] >= 0
      BY <2>2 DEF NoOverdraft, TablesOK
    <3>2. owned'[u][c] < owned[u][c] => owned'[u][c] >= 0
      BY <2>1 DEF TakesChecked
    <3> QED
      BY <3>1, <3>2
  <2> QED
    BY <2>4, <2>5, <2>6 DEF NoOverdraft
<1>3. TypeInv /\ CoveredInv /\ [Next]_vars => CoveredInv'
  BY NextCovered
<1>4. TypeInv /\ AccountedInv /\ [Next]_vars => AccountedInv'
  BY NextAccounted
<1> QED
  BY <1>1, <1>2, <1>3, <1>4, InitCovered, TypeCorrect, PTL DEF Spec
==================================================================================
