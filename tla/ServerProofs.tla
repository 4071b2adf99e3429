-------------------------------- MODULE ServerProofs --------------------------------
(***************************************************************************)
(* Proofs about Server for any number of threads, users, companies, amounts  *)
(* and prices: what BrokerageProofs proves of the handlers survives the       *)
(* views and the restarts of the process, and the portfolio is complete.      *)
(***************************************************************************)
EXTENDS ServerProperties, OverdraftProofs

-----------------------------------------------------------------------------
(* The handlers next to everything else. *)

\* A step beside the handlers: what a view, a restart or the network does to
\* them is at most to let go of the connection or to end them all.
Aside ==
    /\ UNCHANGED <<tables, req, local, reply, done, settled>>
    /\ pc' = pc \/ pc' = [p \in Workers |-> "idle"]
    /\ started' \in Nat /\ started' >= started
    /\ txn' \in Workers \union {Free}
    /\ connected' \in BOOLEAN

HandlersInv == TypeInv /\ AccountedInv

\* A step beside the handlers keeps what BrokerageProofs proves of them.
LEMMA AsideKeeps == HandlersInv /\ Aside => HandlersInv'
<1> SUFFICES ASSUME HandlersInv, Aside PROVE HandlersInv'
  OBVIOUS
<1>1. \A p \in Workers : pc'[p] = pc[p] \/ pc'[p] = "idle"
  BY DEF Aside
<1>2. pc' \in [Workers -> Calls \union {"idle"}]
  BY DEF Aside, HandlersInv, TypeInv, TypeOK, HandlersOK
<1>3. UNCHANGED <<account, bank, holding, owned, avg, history, req, local, reply, done, settled>>
  BY DEF Aside, tables
<1>4. TablesOK'
  BY <1>3 DEF HandlersInv, TypeInv, TypeOK, TablesOK
<1>5. HandlersOK' /\ ConnectionOK'
  BY <1>2, <1>3 DEF Aside, HandlersInv, TypeInv, TypeOK, HandlersOK, ConnectionOK
<1>6. TypeInv'
  BY <1>1, <1>3, <1>4, <1>5 DEF HandlersInv, TypeInv, TypeOK, Serving
<1>7. AccountedInv'
  BY <1>1, <1>3 DEF HandlersInv, AccountedInv, Accounted, Made, Landed
<1> QED
  BY <1>6, <1>7 DEF HandlersInv

\* So does a step of the handlers.
LEMMA HandlersKeep ==
    ASSUME HandlersInv, [Next]_vars
    PROVE  HandlersInv'
BY NextTyped, NextAccounted DEF HandlersInv

\* A step of a view is a step beside the handlers.
LEMMA ReadingIsAside ==
    ASSUME HandlersInv, NEW p \in Workers, Look(p) \/ Reading(p)
    PROVE  Aside
<1>1. /\ started \in Nat /\ txn \in Workers \union {Free} /\ connected \in BOOLEAN
  BY DEF HandlersInv, TypeInv, TypeOK, HandlersOK, ConnectionOK
<1>2. \A told : Tell(p, told) => txn' \in Workers \union {Free}
  BY <1>1 DEF Tell
<1>3. CASE Look(p)
  BY <1>1, <1>3 DEF Look, Aside, handlers
<1>4. CASE OpenView(p)
  BY <1>1, <1>4 DEF OpenView, Aside, handlers
<1>5. CASE RefusedView(p) \/ ViewerOf(p)
  BY <1>1, <1>2, <1>5 DEF RefusedView, ViewerOf, Aside, handlers
<1>6. CASE ReadBankAccounts(p) \/ ReadOwnedStock(p) \/ ReadAvgPrice(p)
  BY <1>1, <1>6 DEF ReadBankAccounts, ReadOwnedStock, ReadAvgPrice, Aside, handlers
<1>7. CASE ReadBalance(p) \/ Render(p)
  BY <1>1, <1>2, <1>7 DEF ReadBalance, Render, Aside, handlers
<1> QED
  BY <1>3, <1>4, <1>5, <1>6, <1>7 DEF Reading

\* To the handlers a step of the server is one of their own or beside them.
LEMMA StepOfHandlers ==
    ASSUME HandlersInv, [ServerNext]_serverVars
    PROVE  [Next]_vars \/ Aside
<1>1. ASSUME NEW p \in Workers, StartHandler(p) \/ Handle(p) PROVE Next
  BY <1>1 DEF StartHandler, Handle, Next
<1>2. ASSUME NEW p \in Workers, Look(p) \/ Reading(p) PROVE Aside
  BY <1>2, ReadingIsAside
<1>3. CASE LoseConnection
  BY <1>3 DEF Next
<1>4. CASE Restart
  BY <1>4 DEF Restart, Aside, HandlersInv, TypeInv, TypeOK, HandlersOK
<1>5. CASE UNCHANGED serverVars
  BY <1>5 DEF serverVars
<1> QED
  BY <1>1, <1>2, <1>3, <1>4, <1>5 DEF ServerNext, ServerWaiting

\* Every step of the server keeps the invariants of the handlers.
LEMMA ServerNextHandlers ==
    ASSUME HandlersInv, [ServerNext]_serverVars
    PROVE  HandlersInv'
BY StepOfHandlers, HandlersKeep, AsideKeeps

\* The server starts in an initial state of the handlers.
LEMMA InitHandlers == ServerInit => HandlersInv
BY InitTyped
   DEF ServerInit, HandlersInv, Init, AccountedInv, Accounted

\* The invariants of the handlers hold throughout the server.
LEMMA HandlersAlways == ServerSpec => []HandlersInv
<1>1. HandlersInv /\ [ServerNext]_serverVars => HandlersInv'
  BY ServerNextHandlers
<1> QED
  BY <1>1, InitHandlers, PTL DEF ServerSpec

\* BrokerageProperties!ReplyIsTruthful of the whole server: also when the process
\* dies at any call of a handler and is started again.
THEOREM TruthfulThroughRestarts == ServerSpec => []ReplyIsTruthful
<1>1. HandlersInv => ReplyIsTruthful
  BY DEF HandlersInv, AccountedInv, Accounted, Made, Landed, Effects, ReplyIsTruthful
<1> QED
  BY <1>1, HandlersAlways, PTL

\* BrokerageProperties!WritesInCodeOrder of the whole server: what a crash leaves
\* of a request is a prefix of its writes.
THEOREM InOrderThroughRestarts == ServerSpec => []WritesInCodeOrder
<1>1. ServerInit => WritesInCodeOrder
  BY DEF ServerInit, Init, WritesInCodeOrder, InCodeOrder
<1>2. HandlersInv /\ WritesInCodeOrder /\ [ServerNext]_serverVars => WritesInCodeOrder'
  <2> SUFFICES ASSUME HandlersInv, WritesInCodeOrder, [ServerNext]_serverVars
               PROVE  WritesInCodeOrder'
    OBVIOUS
  <2>1. CASE [Next]_vars
    BY <2>1, NextInOrder DEF HandlersInv
  <2>2. CASE Aside
    BY <2>2 DEF Aside, WritesInCodeOrder, InCodeOrder
  <2> QED
    BY <2>1, <2>2, StepOfHandlers
<1> QED
  BY <1>1, <1>2, HandlersAlways, PTL DEF ServerSpec

-----------------------------------------------------------------------------
(* The portfolio. *)

Position(p) == <<req[p].user, req[p].company>>

\* A sale that has passed its first look at the shares sells from a row, and a
\* purchase delivers shares only when their average price is written.
PricedFirst(p) ==
    /\ /\ req[p].kind = "sell"
       /\ pc[p] \in {"countOwnedStock", "insertTradeHistory", "upsertOwnedStock"}
       => Position(p) \in holding
    /\ req[p].kind = "buy" /\ pc[p] = "upsertOwnedStock" => Position(p) \in averages

\* Where a view is, and what it has read: every row of its shares has an average.
ViewRead(v) ==
    \/ v.at = "idle"
    \/ v \in [at : {"session", "bankAccounts", "ownedStock"}, kind : Views, user : Users]
    \/ v = [at |-> "accountInfo", kind |-> "balances", user |-> v.user, bank |-> v.bank,
            overlaps |-> v.overlaps]
    \/ /\ v \in [at : {"avgPrice", "render"}, kind : {"portfolio"}, user : Users,
                 rows : SUBSET Companies, nonzero : SUBSET Companies]
       /\ v.nonzero \subseteq v.rows
       /\ \A c \in v.rows : <<v.user, c>> \in averages

PortfolioInv ==
    /\ holding \subseteq averages
    /\ \A p \in Workers : PricedFirst(p)
    /\ DOMAIN view = Workers /\ view = [p \in Workers |-> view[p]]
    /\ \A p \in Workers : ViewRead(view[p])

\* What a step of a handler does to the rows of owned_stock.
LEMMA WorkHolding ==
    ASSUME TypeInv, NEW p \in Workers, Work(p)
    PROVE  \/ holding' = holding
           \/ /\ Calling(p, "upsertOwnedStock")
              /\ holding' = holding \union {Position(p)}
BY DEF Work, Call, Open, Refused, Aborted, SidToUid, SelectFromBankAccount,
       SelectFromAccountInfo, ReportBalance, InsertTradeHistory, SelectFromOwnedStock,
       CountOwnedStock, SelectFromAvgPrice, UpsertAvgPrice, UpsertOwnedStock, ChangeAccount,
       IncreaseBankAccount, Position, tables

\* A sale comes to its writes only past a row it has found.
LEMMA WorkSell ==
    ASSUME TypeInv, NEW p \in Workers, Work(p), req[p].kind = "sell", PricedFirst(p),
           pc'[p] \in {"countOwnedStock", "insertTradeHistory", "upsertOwnedStock"}
    PROVE  Position(p) \in holding
<1>1. pc \in [Workers -> Calls \union {"idle"}]
  BY DEF TypeInv, TypeOK, HandlersOK
<1>2. \A outcome : Answer(p, outcome) => pc'[p] = "idle"
  BY <1>1 DEF Answer
<1>3. \A next : Return(p, next) => pc'[p] = next
  BY <1>1 DEF Return
<1>4. \A writes, next : Commit(p, writes, next) => pc'[p] \in {next, "idle"}
  BY <1>1 DEF Commit
<1>5. CASE Open(p)
  BY <1>5 DEF Open, PricedFirst
<1>6. CASE Refused(p) \/ Aborted(p)
  BY <1>2, <1>6 DEF Refused, Aborted
<1>7. CASE SidToUid(p)
  BY <1>2, <1>3, <1>7 DEF SidToUid, FirstCall, Transfers, Trades
<1>8. CASE SelectFromBankAccount(p)
  BY <1>2, <1>3, <1>8 DEF SelectFromBankAccount
<1>9. CASE SelectFromAccountInfo(p)
  <2>1. req[p].kind \in {"withdraw", "buy"}
    BY <1>9, CallFacts DEF SelectFromAccountInfo, Calls, CallsOf
  <2> QED
    BY <2>1
<1>10. CASE ReportBalance(p)
  BY <1>2, <1>10 DEF ReportBalance
<1>11. CASE InsertTradeHistory(p)
  BY <1>11 DEF InsertTradeHistory, Calling, PricedFirst
<1>12. CASE SelectFromOwnedStock(p)
  BY <1>2, <1>3, <1>12 DEF SelectFromOwnedStock, Position
<1>13. CASE CountOwnedStock(p)
  BY <1>13 DEF CountOwnedStock, Calling, PricedFirst
<1>14. CASE SelectFromAvgPrice(p)
  BY <1>3, <1>14, CallFacts DEF SelectFromAvgPrice, Calls, CallsOf
<1>15. CASE UpsertAvgPrice(p)
  BY <1>15, CallFacts DEF UpsertAvgPrice, Calls, CallsOf
<1>16. CASE UpsertOwnedStock(p)
  BY <1>16 DEF UpsertOwnedStock, Calling, PricedFirst
<1>17. CASE ChangeAccount(p)
  <2>1. \E writes : Commit(p, writes, "reportBalance") \/ Commit(p, writes, "increaseBankAccount")
    BY <1>17 DEF ChangeAccount
  <2> QED
    BY <1>4, <2>1
<1>18. CASE IncreaseBankAccount(p)
  BY <1>4, <1>18 DEF IncreaseBankAccount
<1> QED
  BY <1>5, <1>6, <1>7, <1>8, <1>9, <1>10, <1>11, <1>12, <1>13, <1>14, <1>15, <1>16, <1>17, <1>18
     DEF Work, Call

\* A purchase comes to the delivery only from the average, in the step that
\* commits it.
LEMMA WorkBuy ==
    ASSUME TypeInv, AccountedInv, NEW p \in Workers, Work(p), req[p].kind = "buy",
           pc'[p] = "upsertOwnedStock"
    PROVE  pc[p] = "upsertOwnedStock" \/ "upsertAvgPrice" \in done'[p] \ done[p]
<1>1. pc \in [Workers -> Calls \union {"idle"}] /\ done \in [Workers -> SUBSET Calls]
  BY DEF TypeInv, TypeOK, HandlersOK
<1>2. \A outcome : Answer(p, outcome) => pc'[p] = "idle"
  BY <1>1 DEF Answer
<1>3. \A next : Return(p, next) => pc'[p] = next
  BY <1>1 DEF Return
<1>4. \A writes, next : Commit(p, writes, next) => pc'[p] \in {next, "idle"}
  BY <1>1 DEF Commit
<1>5. CASE Open(p)
  BY <1>5 DEF Open
<1>6. CASE Refused(p) \/ Aborted(p) \/ ReportBalance(p)
  BY <1>2, <1>6 DEF Refused, Aborted, ReportBalance
<1>7. CASE SidToUid(p)
  BY <1>2, <1>3, <1>7 DEF SidToUid, FirstCall, Transfers, Trades
<1>8. CASE SelectFromBankAccount(p)
  BY <1>2, <1>3, <1>8 DEF SelectFromBankAccount
<1>9. CASE SelectFromAccountInfo(p)
  BY <1>2, <1>3, <1>9 DEF SelectFromAccountInfo
<1>10. CASE InsertTradeHistory(p)
  BY <1>4, <1>10 DEF InsertTradeHistory
<1>11. CASE SelectFromOwnedStock(p)
  BY <1>2, <1>3, <1>11 DEF SelectFromOwnedStock
<1>12. CASE CountOwnedStock(p) \/ SelectFromAvgPrice(p)
  BY <1>2, <1>3, <1>12 DEF CountOwnedStock, SelectFromAvgPrice
<1>13. CASE UpsertAvgPrice(p)
  <2>1. Calling(p, "upsertAvgPrice") /\ Commit(p, {"upsertAvgPrice"}, "upsertOwnedStock")
    BY <1>13 DEF UpsertAvgPrice
  <2>2. "upsertAvgPrice" \notin done[p]
    BY <2>1, DoneBefore DEF DoneAt, Made, Landed, Calls, Transfers
  <2>3. done'[p] = done[p] \union {"upsertAvgPrice"}
    BY <1>1, <2>1 DEF Commit
  <2> QED
    BY <2>2, <2>3
<1>14. CASE UpsertOwnedStock(p)
  BY <1>4, <1>14 DEF UpsertOwnedStock
<1>15. CASE ChangeAccount(p)
  <2>1. \E writes : Commit(p, writes, "reportBalance") \/ Commit(p, writes, "increaseBankAccount")
    BY <1>15 DEF ChangeAccount
  <2> QED
    BY <1>4, <2>1
<1>16. CASE IncreaseBankAccount(p)
  BY <1>4, <1>16 DEF IncreaseBankAccount
<1> QED
  BY <1>5, <1>6, <1>7, <1>8, <1>9, <1>10, <1>11, <1>12, <1>13, <1>14, <1>15, <1>16
     DEF Work, Call

\* A view that has read keeps what it knows while rows are only added.
LEMMA ViewsKept ==
    ASSUME PortfolioInv, averages \subseteq averages', NEW p \in Workers, view'[p] = view[p]
    PROVE  ViewRead(view[p])'
BY DEF PortfolioInv, ViewRead

\* A step of a handler keeps every position priced before it is held.
LEMMA HandlePortfolio ==
    ASSUME HandlersInv, PortfolioInv, NEW p \in Workers, Handle(p)
    PROVE  PortfolioInv'
<1>1. TypeInv /\ AccountedInv /\ Work(p)
  BY DEF HandlersInv, Handle
<1>2. /\ averages' = IF "upsertAvgPrice" \in done'[p] \ done[p]
                     THEN averages \union {Position(p)} ELSE averages
      /\ averages \subseteq averages' /\ view' = view
  BY DEF Handle, Position
<1>3. req' = req /\ \A q \in Workers \ {p} : pc'[q] = pc[q]
  BY <1>1, WorkOthers
<1>4. \/ holding' = holding
      \/ /\ Calling(p, "upsertOwnedStock")
         /\ holding' = holding \union {Position(p)}
  BY <1>1, WorkHolding
<1>5. holding' \subseteq averages'
  <2>1. CASE holding' = holding
    BY <1>2, <2>1 DEF PortfolioInv
  <2>2. CASE Calling(p, "upsertOwnedStock") /\ holding' = holding \union {Position(p)}
    <3>1. req[p].kind \in {"buy", "sell"} /\ pc[p] = "upsertOwnedStock"
      BY <1>1, <2>2, CallFacts DEF Calling, Calls, CallsOf
    <3>2. Position(p) \in averages
      BY <3>1 DEF PortfolioInv, PricedFirst
    <3> QED
      BY <1>2, <2>2, <3>2 DEF PortfolioInv
  <2> QED
    BY <1>4, <2>1, <2>2
<1>6. \A q \in Workers \ {p} : PricedFirst(q)'
  BY <1>2, <1>3, <1>4 DEF PortfolioInv, PricedFirst, Position
<1>7. PricedFirst(p)'
  <2>1. ASSUME req[p].kind = "sell",
               pc'[p] \in {"countOwnedStock", "insertTradeHistory", "upsertOwnedStock"}
        PROVE  Position(p) \in holding'
    BY <1>1, <1>4, <2>1, WorkSell DEF PortfolioInv
  <2>2. ASSUME req[p].kind = "buy", pc'[p] = "upsertOwnedStock"
        PROVE  Position(p) \in averages'
    BY <1>1, <1>2, <2>2, WorkBuy DEF PortfolioInv, PricedFirst
  <2> QED
    BY <1>3, <2>1, <2>2 DEF PricedFirst, Position
<1>8. \A q \in Workers : ViewRead(view[q])'
  BY <1>2, ViewsKept
<1> QED
  BY <1>2, <1>5, <1>6, <1>7, <1>8 DEF PortfolioInv

\* So does the start of a request, which ends no other one.
LEMMA StartPortfolio ==
    ASSUME HandlersInv, PortfolioInv, NEW q \in Workers, StartHandler(q)
    PROVE  PortfolioInv'
<1>1. /\ pc' = [pc EXCEPT ![q] = "sidToUid"] /\ UNCHANGED <<holding, averages>>
      /\ \E r \in Requests : req' = [req EXCEPT ![q] = r]
  BY DEF StartHandler, Start, tables
<1>2. \A p \in Workers \ {q} : pc'[p] = pc[p] /\ req'[p] = req[p]
  BY <1>1 DEF HandlersInv, TypeInv, TypeOK, HandlersOK
<1>3. pc'[q] = "sidToUid"
  BY <1>1 DEF HandlersInv, TypeInv, TypeOK, HandlersOK
<1>4. \A p \in Workers : PricedFirst(p)'
  BY <1>1, <1>2, <1>3 DEF PortfolioInv, PricedFirst, Position
<1>5. view' = [p \in Workers |-> IF Overlapping(p, q)
                                 THEN [view[p] EXCEPT !.overlaps = @ + 1] ELSE view[p]]
  BY DEF StartHandler
<1>6. \A p \in Workers : ViewRead(view[p])'
  <2> SUFFICES ASSUME NEW p \in Workers PROVE ViewRead(view[p])'
    OBVIOUS
  <2>1. CASE view'[p] = view[p]
    BY <1>1, <2>1, ViewsKept
  <2>2. CASE view[p].at = "accountInfo" /\ view'[p] = [view[p] EXCEPT !.overlaps = @ + 1]
    <3>1. view[p] = [at |-> "accountInfo", kind |-> "balances", user |-> view[p].user,
                     bank |-> view[p].bank, overlaps |-> view[p].overlaps]
      BY <2>2 DEF PortfolioInv, ViewRead
    <3>2. view'[p] = [at |-> "accountInfo", kind |-> "balances", user |-> view[p].user,
                      bank |-> view[p].bank, overlaps |-> view[p].overlaps + 1]
      BY <2>2, <3>1
    <3> QED
      BY <3>2 DEF ViewRead
  <2> QED
    BY <1>5, <2>1, <2>2 DEF Overlapping
<1>7. DOMAIN view' = Workers /\ view' = [p \in Workers |-> view'[p]]
  BY <1>5
<1> QED
  BY <1>1, <1>4, <1>6, <1>7 DEF PortfolioInv

\* What a step of a view leaves of its own.
LEMMA ReadingView ==
    ASSUME HandlersInv, PortfolioInv, NEW p \in Workers, Look(p) \/ Reading(p)
    PROVE  /\ UNCHANGED <<holding, averages, pc, req>>
           /\ \/ view' = view
              \/ \E v : view' = [view EXCEPT ![p] = v] /\ ViewRead(v)
<1> DEFINE GoesOn == \E v : view' = [view EXCEPT ![p] = v] /\ ViewRead(v)
<1>1. UNCHANGED <<holding, averages, pc, req>>
  BY DEF Look, Reading, OpenView, RefusedView, ViewerOf, ReadBankAccounts, ReadBalance,
         ReadOwnedStock, ReadAvgPrice, Render, tables, handlers
<1>2. \A told : Tell(p, told) => GoesOn
  <2> SUFFICES ASSUME NEW told, Tell(p, told) PROVE GoesOn
    OBVIOUS
  <2>1. ViewRead(NoView(told))
    BY DEF ViewRead, NoView
  <2> QED
    BY <2>1 DEF Tell
<1>3. ViewRead(view[p])
  BY DEF PortfolioInv
<1>4. CASE Look(p)
  <2>1. PICK kind \in Views, u \in Users :
          view' = [view EXCEPT ![p] = [at |-> "session", kind |-> kind, user |-> u]]
    BY <1>4 DEF Look
  <2>2. ViewRead([at |-> "session", kind |-> kind, user |-> u])
    BY DEF ViewRead
  <2> QED
    BY <1>1, <2>1, <2>2
<1>5. CASE OpenView(p)
  BY <1>1, <1>5 DEF OpenView
<1>6. CASE RefusedView(p) \/ ReadBalance(p) \/ Render(p)
  BY <1>1, <1>2, <1>6 DEF RefusedView, ReadBalance, Render
<1>7. CASE ViewerOf(p)
  <2> DEFINE next == IF view[p].kind = "balances" THEN "bankAccounts" ELSE "ownedStock"
  <2>1. CASE view' = [view EXCEPT ![p].at = next]
    <3>1. view[p] \in [at : {"session", "bankAccounts", "ownedStock"}, kind : Views, user : Users]
      BY <1>3, <1>7 DEF ViewerOf, ViewCall, ViewRead
    <3>2. ViewRead([view[p] EXCEPT !.at = next])
      BY <3>1 DEF ViewRead
    <3>3. view' = [view EXCEPT ![p] = [view[p] EXCEPT !.at = next]]
      BY <2>1
    <3> QED
      BY <1>1, <3>2, <3>3
  <2> QED
    BY <1>1, <1>2, <1>7, <2>1 DEF ViewerOf
<1>8. CASE ReadBankAccounts(p)
  <2> DEFINE v == [at |-> "accountInfo", kind |-> "balances", user |-> view[p].user,
                   bank |-> BankTotal(view[p].user),
                   overlaps |-> Cardinality(BusyTransfers(view[p].user))]
  <2>1. view' = [view EXCEPT ![p] = v]
    BY <1>8 DEF ReadBankAccounts
  <2>2. ViewRead(v)
    BY DEF ViewRead
  <2> QED
    BY <1>1, <2>1, <2>2
<1>9. CASE ReadOwnedStock(p)
  <2> DEFINE u == view[p].user
             rows == Pairs(u, holding)
             v == [at |-> "avgPrice", kind |-> "portfolio", user |-> u,
                   rows |-> rows, nonzero |-> {c \in rows : owned[u][c] # 0}]
  <2>1. view' = [view EXCEPT ![p] = v]
    BY <1>9 DEF ReadOwnedStock
  <2>2. u \in Users
    BY <1>3, <1>9 DEF ReadOwnedStock, ViewCall, ViewRead
  <2>3. rows \subseteq Companies /\ \A c \in rows : <<u, c>> \in averages
    BY DEF Pairs, PortfolioInv
  <2> HIDE DEF u, rows
  <2>4. ViewRead(v)
    BY <2>2, <2>3 DEF ViewRead
  <2> QED
    BY <1>1, <2>1, <2>4
<1>10. CASE ReadAvgPrice(p)
  <2>1. /\ view[p] \in [at : {"avgPrice", "render"}, kind : {"portfolio"}, user : Users,
                        rows : SUBSET Companies, nonzero : SUBSET Companies]
        /\ view[p].nonzero \subseteq view[p].rows
        /\ \A c \in view[p].rows : <<view[p].user, c>> \in averages
    BY <1>3, <1>10 DEF ReadAvgPrice, ViewCall, ViewRead
  <2>2. view[p].rows \intersect Pairs(view[p].user, averages) = view[p].rows
    BY <2>1 DEF Pairs
  <2> DEFINE v == [[view[p] EXCEPT !.at = "render"] EXCEPT !.rows = view[p].rows]
  <2>3. view' = [view EXCEPT ![p] = v]
    <3>1. view' = [[view EXCEPT ![p].at = "render"]
                     EXCEPT ![p].rows = @ \intersect Pairs(view[p].user, averages)]
      BY <1>10 DEF ReadAvgPrice
    <3>2. view = [q \in Workers |-> view[q]]
      BY DEF PortfolioInv
    <3> QED
      BY <2>1, <2>2, <3>1, <3>2
  <2>4. ViewRead(v)
    BY <2>1 DEF ViewRead
  <2> QED
    BY <1>1, <2>3, <2>4
<1> QED
  BY <1>4, <1>5, <1>6, <1>7, <1>8, <1>9, <1>10 DEF Reading

\* So does a step of a view, which writes no table.
LEMMA ReadingPortfolio ==
    ASSUME HandlersInv, PortfolioInv, NEW p \in Workers, Look(p) \/ Reading(p)
    PROVE  PortfolioInv'
<1>1. UNCHANGED <<holding, averages, pc, req>>
  BY ReadingView
<1>2. view' = view \/ \E v : view' = [view EXCEPT ![p] = v] /\ ViewRead(v)
  BY ReadingView
<1>3. /\ DOMAIN view' = Workers /\ view' = [q \in Workers |-> view'[q]]
      /\ \A q \in Workers : view'[q] = view[q] \/ ViewRead(view'[q])
  BY <1>2 DEF PortfolioInv
<1>4. \A q \in Workers : ViewRead(view[q])'
  BY <1>1, <1>3 DEF PortfolioInv, ViewRead
<1> QED
  BY <1>1, <1>3, <1>4 DEF PortfolioInv, PricedFirst, Position

\* So does a restart: a purchase cut off between the two writes has priced first.
LEMMA RestartPortfolio == ASSUME PortfolioInv, Restart PROVE PortfolioInv'
<1>1. /\ pc' = [p \in Workers |-> "idle"] /\ UNCHANGED <<holding, averages, req>>
      /\ view' = [p \in Workers |-> IF Viewing(p) THEN NoView(Told("none")) ELSE view[p]]
  BY DEF Restart, tables
<1>2. \A p \in Workers : ViewRead(view[p])'
  BY <1>1 DEF PortfolioInv, ViewRead, NoView
<1> QED
  BY <1>1, <1>2 DEF PortfolioInv, PricedFirst

\* Every step of the server keeps every position priced before it is held.
LEMMA ServerNextPortfolio ==
    ASSUME HandlersInv, PortfolioInv, [ServerNext]_serverVars
    PROVE  PortfolioInv'
<1>1. CASE LoseConnection /\ UNCHANGED <<averages, view>>
  <2>1. UNCHANGED <<holding, pc, req, averages, view>>
    BY <1>1 DEF LoseConnection, tables
  <2> QED
    BY <2>1 DEF PortfolioInv, PricedFirst, Position, ViewRead
<1>2. CASE UNCHANGED serverVars
  <2>1. UNCHANGED <<holding, pc, req, averages, view>>
    BY <1>2 DEF serverVars, vars
  <2> QED
    BY <2>1 DEF PortfolioInv, PricedFirst, Position, ViewRead
<1> QED
  BY <1>1, <1>2, StartPortfolio, HandlePortfolio, ReadingPortfolio, RestartPortfolio
     DEF ServerNext, ServerWaiting

\* ServerProperties!PortfolioIsComplete for any number of threads, companies and
\* prices: an owned_stock row never exists without its avg_price row, since every
\* purchase commits the average before the shares and every sale has seen a row.
THEOREM PortfolioComplete == ServerSpec => []PortfolioIsComplete
<1>1. ServerInit => PortfolioInv
  BY DEF ServerInit, Init, PortfolioInv, PricedFirst, ViewRead, NoView
<1>2. HandlersInv /\ PortfolioInv /\ [ServerNext]_serverVars => PortfolioInv'
  BY ServerNextPortfolio
<1>3. PortfolioInv => PortfolioIsComplete
  BY DEF PortfolioInv, ViewRead, PortfolioIsComplete
<1> QED
  BY <1>1, <1>2, <1>3, HandlersAlways, PTL DEF ServerSpec


-----------------------------------------------------------------------------
(* The types of the views. *)

ViewInv ==
    /\ averages \subseteq Users \X Companies
    /\ view \in [Workers -> ViewStates]
    /\ \A p \in Workers : pc[p] = "idle" \/ ~Viewing(p)

\* Where a view is tells its fields.
LEMMA ViewFields ==
    ASSUME NEW v \in ViewStates
    PROVE  /\ v.at \in {"session", "bankAccounts", "ownedStock"} =>
                v \in [at : {"session", "bankAccounts", "ownedStock"}, kind : Views, user : Users]
           /\ v.at = "accountInfo" =>
                v \in [at : {"accountInfo"}, kind : {"balances"}, user : Users, bank : Int,
                       overlaps : Nat]
           /\ v.at \in {"avgPrice", "render"} =>
                v \in [at : {"avgPrice", "render"}, kind : {"portfolio"}, user : Users,
                       rows : SUBSET Companies, nonzero : SUBSET Companies]
BY DEF ViewStates

\* There are finitely many banks and threads: totals and overlaps are numbers.
LEMMA FiniteBanks == IsFiniteSet(Banks)
<1>1. PICK a, b \in Banks : Banks = {a, b}
  BY BanksAssumption
<1>2. IsFiniteSet({a}) /\ IsFiniteSet({a} \union {b})
  BY FS_Singleton, FS_AddElement
<1>3. {a} \union {b} = Banks
  BY <1>1
<1> QED
  BY <1>2, <1>3

\* What a user has in the banks together is an integer.
LEMMA TotalType == \A u \in Users : TypeInv => BankTotal(u) \in Int
<1> SUFFICES ASSUME NEW u \in Users, TypeInv PROVE BankTotal(u) \in Int
  OBVIOUS
<1> DEFINE fn == bank[u]
<1>1. \A b \in Banks : fn[b] \in Int
  BY DEF TypeInv, TypeOK, TablesOK
<1> HIDE DEF fn
<1>2. SumFunctionOnSet(fn, Banks) \in Int
  BY <1>1, FiniteBanks, SumIsInt
<1> QED
  BY <1>2 DEF fn, BankTotal

\* Finitely many transfers of a user are under way.
LEMMA BusyType ==
    ASSUME NEW u
    PROVE  IsFiniteSet(BusyTransfers(u)) /\ Cardinality(BusyTransfers(u)) \in Nat
BY WorkersAssumption, FS_Subset, FS_CardinalityType DEF BusyTransfers

\* The only step that adds an average price is of a purchase of a listed company.
LEMMA AverageAdded ==
    ASSUME TypeInv, NEW p \in Workers, Work(p), "upsertAvgPrice" \in done'[p] \ done[p]
    PROVE  <<req[p].user, req[p].company>> \in Users \X Companies
<1>1. Calling(p, "upsertAvgPrice")
  BY StepWrites
<1>2. req[p] \in Requests /\ req[p].kind = "buy" /\ req[p].user \in Users
  BY <1>1, CallFacts DEF Calls, CallsOf
<1> QED
  BY <1>2, RequestFields DEF Trades

\* A step of a view leaves it typed, and everything else alone.
LEMMA ReadingTyped ==
    ASSUME HandlersInv, ViewInv, NEW p \in Workers, Look(p) \/ Reading(p)
    PROVE  /\ pc[p] = "idle" /\ UNCHANGED <<pc, averages>>
           /\ view' = view \/ \E v \in ViewStates : view' = [view EXCEPT ![p] = v]
<1> DEFINE Shows == \E v \in ViewStates : view' = [view EXCEPT ![p] = v]
<1>1. /\ view[p] \in ViewStates /\ (pc[p] = "idle" \/ ~Viewing(p))
      /\ TypeInv
  BY DEF ViewInv, HandlersInv
<1>2. pc[p] = "idle" /\ UNCHANGED <<pc, averages>>
  BY <1>1 DEF Look, Reading, OpenView, RefusedView, ViewerOf, ReadBankAccounts, ReadBalance,
         ReadOwnedStock, ReadAvgPrice, Render, handlers, ViewCall, Viewing
<1>3. \A told \in Answers : Tell(p, told) => Shows
  BY DEF Tell, NoView, ViewStates
<1>4. Told("error") \in Answers /\ Told("redirect") \in Answers
  BY DEF Told, Answers
<1>5. CASE Look(p)
  <2>1. \A kind \in Views, u \in Users :
          [at |-> "session", kind |-> kind, user |-> u] \in ViewStates
    BY DEF ViewStates
  <2> QED
    BY <1>2, <1>5, <2>1 DEF Look
<1>6. CASE OpenView(p)
  BY <1>2, <1>6 DEF OpenView
<1>7. CASE RefusedView(p)
  BY <1>2, <1>3, <1>4, <1>7 DEF RefusedView
<1>8. CASE ViewerOf(p)
  <2> DEFINE next == IF view[p].kind = "balances" THEN "bankAccounts" ELSE "ownedStock"
  <2>1. CASE view' = [view EXCEPT ![p].at = next]
    <3>1. view[p] \in [at : {"session", "bankAccounts", "ownedStock"}, kind : Views, user : Users]
      BY <1>1, <1>8, ViewFields DEF ViewerOf, ViewCall
    <3>2. [view[p] EXCEPT !.at = next] \in ViewStates
      BY <3>1 DEF ViewStates
    <3> QED
      BY <1>2, <2>1, <3>2
  <2> QED
    BY <1>2, <1>3, <1>4, <1>8, <2>1 DEF ViewerOf
<1>9. CASE ReadBankAccounts(p)
  <2>1. view[p].user \in Users
    BY <1>1, <1>9, ViewFields DEF ReadBankAccounts, ViewCall
  <2>2. BankTotal(view[p].user) \in Int /\ Cardinality(BusyTransfers(view[p].user)) \in Nat
    BY <1>1, <2>1, TotalType, BusyType
  <2>3. [at |-> "accountInfo", kind |-> "balances", user |-> view[p].user,
         bank |-> BankTotal(view[p].user),
         overlaps |-> Cardinality(BusyTransfers(view[p].user))] \in ViewStates
    BY <2>1, <2>2 DEF ViewStates
  <2> QED
    BY <1>2, <1>9, <2>3 DEF ReadBankAccounts
<1>10. CASE ReadBalance(p)
  <2>1. view[p].user \in Users /\ view[p].bank \in Int
    BY <1>1, <1>10, ViewFields DEF ReadBalance, ViewCall
  <2>2. account[view[p].user] \in Int
    BY <1>1, <2>1 DEF TypeInv, TypeOK, TablesOK
  <2>3. ToldTotal(view[p].bank + account[view[p].user]) \in Answers
    BY <2>1, <2>2 DEF ToldTotal, Answers
  <2> QED
    BY <1>2, <1>3, <1>4, <1>10, <2>3 DEF ReadBalance
<1>11. CASE ReadOwnedStock(p)
  <2> DEFINE u == view[p].user
             rows == Pairs(u, holding)
             nonzero == {c \in rows : owned[u][c] # 0}
  <2>1. u \in Users
    BY <1>1, <1>11, ViewFields DEF ReadOwnedStock, ViewCall
  <2>2. rows \in SUBSET Companies /\ nonzero \in SUBSET Companies
    BY DEF Pairs
  <2>3. view' = [view EXCEPT ![p] = [at |-> "avgPrice", kind |-> "portfolio", user |-> u,
                                     rows |-> rows, nonzero |-> nonzero]]
    BY <1>11 DEF ReadOwnedStock
  <2> HIDE DEF u, rows, nonzero
  <2> QED
    BY <1>2, <2>1, <2>2, <2>3 DEF ViewStates
<1>12. CASE ReadAvgPrice(p)
  <2>1. view[p] \in [at : {"avgPrice", "render"}, kind : {"portfolio"}, user : Users,
                     rows : SUBSET Companies, nonzero : SUBSET Companies]
    BY <1>1, <1>12, ViewFields DEF ReadAvgPrice, ViewCall
  <2> DEFINE rows == view[p].rows \intersect Pairs(view[p].user, averages)
             v == [[view[p] EXCEPT !.at = "render"] EXCEPT !.rows = rows]
  <2>2. v \in ViewStates
    BY <2>1 DEF ViewStates
  <2>3. view' = [view EXCEPT ![p] = v]
    <3>1. view' = [[view EXCEPT ![p].at = "render"]
                     EXCEPT ![p].rows = @ \intersect Pairs(view[p].user, averages)]
      BY <1>12 DEF ReadAvgPrice
    <3>2. view \in [Workers -> ViewStates]
      BY DEF ViewInv
    <3> QED
      BY <2>1, <3>1, <3>2
  <2> HIDE DEF v
  <2> QED
    BY <1>2, <2>2, <2>3
<1>13. CASE Render(p)
  <2> DEFINE listed == view[p].rows \intersect view[p].nonzero
  <2>1. view[p].rows \in SUBSET Companies
    BY <1>1, <1>13, ViewFields DEF Render
  <2>2. listed \in SUBSET Companies
    BY <2>1
  <2> HIDE DEF listed
  <2>3. /\ ToldStocks("list", listed) \in Answers
        /\ \A body \in {"nothing", "bracket"} : ToldStocks(body, {}) \in Answers
    BY <2>2 DEF ToldStocks, Answers
  <2>4. \/ Tell(p, Told("error")) \/ Tell(p, ToldStocks("list", listed))
        \/ \E body \in {"nothing", "bracket"} : Tell(p, ToldStocks(body, {}))
    BY <1>13 DEF Render, listed
  <2> QED
    BY <1>2, <1>3, <1>4, <2>3, <2>4
<1> QED
  BY <1>5, <1>6, <1>7, <1>8, <1>9, <1>10, <1>11, <1>12, <1>13 DEF Reading

\* Every step of the server keeps the views typed.
LEMMA ServerNextTyped ==
    ASSUME HandlersInv, ViewInv, [ServerNext]_serverVars
    PROVE  ViewInv'
<1>1. pc \in [Workers -> Calls \union {"idle"}]
  BY DEF HandlersInv, TypeInv, TypeOK, HandlersOK
<1>2. ASSUME NEW p \in Workers, Look(p) \/ Reading(p) PROVE ViewInv'
  <2>1. /\ pc[p] = "idle" /\ UNCHANGED <<pc, averages>>
        /\ view' = view \/ \E v \in ViewStates : view' = [view EXCEPT ![p] = v]
    BY <1>2, ReadingTyped
  <2> QED
    BY <2>1 DEF ViewInv, Viewing
<1>3. ASSUME NEW q \in Workers, StartHandler(q) PROVE ViewInv'
  <2>1. /\ ~Viewing(q) /\ UNCHANGED averages
        /\ \A p \in Workers \ {q} : pc'[p] = pc[p]
    BY <1>1, <1>3 DEF StartHandler, Start
  <2>2. \A p \in Workers : Overlapping(p, q) =>
            /\ [view[p] EXCEPT !.overlaps = @ + 1] \in ViewStates
            /\ [view[p] EXCEPT !.overlaps = @ + 1].at = view[p].at
    <3> SUFFICES ASSUME NEW p \in Workers, view[p].at = "accountInfo"
                 PROVE  /\ [view[p] EXCEPT !.overlaps = @ + 1] \in ViewStates
                        /\ [view[p] EXCEPT !.overlaps = @ + 1].at = view[p].at
      BY DEF Overlapping
    <3>1. view[p] \in [at : {"accountInfo"}, kind : {"balances"}, user : Users, bank : Int,
                       overlaps : Nat]
      BY ViewFields DEF ViewInv
    <3> QED
      BY <3>1 DEF ViewStates
  <2>3. view' = [p \in Workers |-> IF Overlapping(p, q)
                                   THEN [view[p] EXCEPT !.overlaps = @ + 1] ELSE view[p]]
    BY <1>3 DEF StartHandler
  <2>4. /\ view' \in [Workers -> ViewStates]
        /\ \A p \in Workers : view'[p].at = view[p].at
    BY <2>2, <2>3 DEF ViewInv
  <2> QED
    BY <2>1, <2>4 DEF ViewInv, Viewing
<1>4. ASSUME NEW q \in Workers, Handle(q) PROVE ViewInv'
  <2>1. Work(q) /\ UNCHANGED view /\ pc[q] # "idle" /\ TypeInv
    BY <1>4, WorkBusy DEF Handle, HandlersInv
  <2>2. \A p \in Workers \ {q} : pc'[p] = pc[p]
    BY <2>1, WorkOthers
  <2>3. averages' \subseteq Users \X Companies
    BY <1>4, <2>1, AverageAdded DEF Handle, ViewInv
  <2> QED
    BY <2>1, <2>2, <2>3 DEF ViewInv, Viewing
<1>5. CASE Restart
  <2>1. NoView(Told("none")) \in ViewStates /\ NoView(Told("none")).at = "idle"
    BY DEF NoView, Told, Answers, ViewStates
  <2> QED
    BY <1>5, <2>1 DEF Restart, ViewInv, Viewing
<1>6. CASE (LoseConnection /\ UNCHANGED <<averages, view>>) \/ UNCHANGED serverVars
  <2>1. UNCHANGED <<pc, averages, view>>
    BY <1>6 DEF LoseConnection, serverVars, vars
  <2> QED
    BY <2>1 DEF ViewInv, Viewing
<1> QED
  BY <1>2, <1>3, <1>4, <1>5, <1>6 DEF ServerNext, ServerWaiting

\* The views are typed throughout the server.
LEMMA ViewsAlways == ServerSpec => []ViewInv
<1>1. ServerInit => ViewInv
  <2>1. NoView(Told("none")) \in ViewStates
    BY DEF NoView, Told, Answers, ViewStates
  <2> QED
    BY <2>1 DEF ServerInit, Init, ViewInv
<1>2. HandlersInv /\ ViewInv /\ [ServerNext]_serverVars => ViewInv'
  BY ServerNextTyped
<1> QED
  BY <1>1, <1>2, HandlersAlways, PTL DEF ServerSpec

\* ServerProperties!ServerTypeOK for any number of threads, banks' balances and
\* requests: a thread never serves a handler's request and a view at once.
THEOREM ServerTypeCorrect == ServerSpec => []ServerTypeOK
<1>1. HandlersInv /\ ViewInv => ServerTypeOK
  BY DEF HandlersInv, TypeInv, ViewInv, ServerTypeOK
<1> QED
  BY <1>1, HandlersAlways, ViewsAlways, PTL


-----------------------------------------------------------------------------
(* The balance view. *)

\* No transfer moves more than LargestTransfer, in either direction.
LEMMA LargestTransferIs ==
    /\ LargestTransfer \in Nat
    /\ \A a \in Amounts : a <= LargestTransfer /\ -a <= LargestTransfer
<1> DEFINE S == {LargestAmount, LargestReversal}
<1>1. S \subseteq Int /\ IsFiniteSet(S) /\ S # {}
  <2>1. IsFiniteSet({LargestAmount} \union {LargestReversal})
    BY FS_Singleton, FS_AddElement
  <2>2. S = {LargestAmount} \union {LargestReversal}
    OBVIOUS
  <2> QED
    BY <2>1, <2>2, LargestAmountIs, LargestReversalIs
<1>2. Max(S) \in S /\ \A x \in S : x <= Max(S)
  <2> HIDE DEF S
  <2> QED
    BY ONLY <1>1, MaxIsBound
<1>3. /\ LargestTransfer \in Nat
      /\ LargestAmount <= LargestTransfer /\ LargestReversal <= LargestTransfer
  BY <1>2, LargestAmountIs, LargestReversalIs DEF LargestTransfer
<1>4. ASSUME NEW a \in Amounts PROVE a <= LargestTransfer /\ -a <= LargestTransfer
  <2>1. a \in Int /\ a <= LargestAmount /\ -a <= LargestReversal
    BY LargestAmountIs, LargestReversalIs, MoneyAssumption
  <2> QED
    BY <1>3, <2>1, LargestAmountIs, LargestReversalIs
<1> QED
  BY <1>3, <1>4

\* What the bank accounts of the user can still move is one transfer for each
\* that is busy, and what they have moved since the view read them is paid for by
\* the transfers it has counted and that are busy no more.
Near(a, b, busy, overlaps) ==
    Distance(a, b) + busy * LargestTransfer <= overlaps * LargestTransfer
NearTruth(v) ==
    v.at = "accountInfo" =>
        Near(v.bank, BankTotal(v.user), Cardinality(BusyTransfers(v.user)), v.overlaps)
NearInv == \A p \in Workers : NearTruth(view[p])

\* Who transfers for a user changes with one thread only.
LEMMA BusyStays ==
    ASSUME NEW u, NEW q \in Workers,
           \A p \in Workers \ {q} : pc'[p] = pc[p] /\ req'[p] = req[p]
    PROVE  /\ q \in BusyTransfers(u)' => BusyTransfers(u)' = BusyTransfers(u) \union {q}
           /\ q \notin BusyTransfers(u)' => BusyTransfers(u)' = BusyTransfers(u) \ {q}
BY DEF BusyTransfers

\* A call changes the bank accounts only as the last of a transfer, by no more
\* than its amount.
LEMMA WorkBanks ==
    ASSUME TypeInv, BookingInv, NEW p \in Workers, Work(p)
    PROVE  \/ bank' = bank
           \/ /\ pc'[p] = "idle" /\ p \in BusyTransfers(req[p].user)
              /\ req[p].user \in Users
              /\ local[p].bank \in Banks
              /\ bank' = [bank EXCEPT ![req[p].user][local[p].bank] = @ + BankDelta(p)]
              /\ BankDelta(p) \in Int
              /\ BankDelta(p) <= LargestTransfer /\ -BankDelta(p) <= LargestTransfer
<1>1. CASE IncreaseBankAccount(p)
  <2>1. /\ Calling(p, "increaseBankAccount")
        /\ bank' = [bank EXCEPT ![req[p].user][local[p].bank] = @ + BankDelta(p)]
        /\ Commit(p, {"increaseBankAccount"}, "idle")
    BY <1>1 DEF IncreaseBankAccount
  <2>2. /\ req[p] \in Requests /\ req[p].kind \in Transfers /\ req[p].user \in Users
    BY <2>1, CallFacts DEF Calls, CallsOf, Transfers
  <2>3. req[p] \in TransferRequests /\ req[p].amount \in Int
    BY <2>2, RequestFields
  <2>4. req[p].amount \in Amounts
    BY <2>3 DEF TransferRequests
  <2>5. /\ req[p].amount <= LargestTransfer /\ -req[p].amount <= LargestTransfer
        /\ LargestTransfer \in Nat
    BY <2>4, LargestTransferIs
  <2>6. Worth(p) = req[p].amount
    BY <2>2 DEF Worth
  <2>7. /\ BankDelta(p) \in Int
        /\ BankDelta(p) <= LargestTransfer /\ -BankDelta(p) <= LargestTransfer
    BY <2>3, <2>5, <2>6 DEF BankDelta
  <2>8. pc'[p] = "idle" /\ pc[p] # "idle"
    BY <2>1 DEF Commit, Calling, TypeInv, TypeOK, HandlersOK
  <2>9. local[p].bank \in Banks
    BY <2>1, <2>2 DEF BookingInv, Booking, Chose, Calling
  <2> QED
    BY <2>1, <2>2, <2>7, <2>8, <2>9 DEF BusyTransfers
<1> QED
  BY <1>1 DEF Work, Call, Open, Refused, Aborted, SidToUid, SelectFromBankAccount,
       SelectFromAccountInfo, ReportBalance, InsertTradeHistory, SelectFromOwnedStock,
       CountOwnedStock, SelectFromAvgPrice, UpsertAvgPrice, UpsertOwnedStock, ChangeAccount,
       tables

\* The total of a user moves with one of the accounts.
LEMMA TotalMoves ==
    ASSUME TypeInv, NEW u \in Users, NEW b \in Banks, NEW d \in Int,
           bank' = [bank EXCEPT ![u][b] = @ + d]
    PROVE  /\ BankTotal(u)' = BankTotal(u) + d
           /\ \A v \in Users \ {u} : BankTotal(v)' = BankTotal(v)
<1> DEFINE fn == bank[u]
           gn == bank'[u]
<1>1. bank \in [Users -> [Banks -> Int]]
  BY DEF TypeInv, TypeOK, TablesOK
<1>2. /\ \A x \in Banks : fn[x] \in Int
      /\ \A x \in Banks \ {b} : gn[x] = fn[x]
      /\ gn[b] = fn[b] + d
  BY <1>1
<1>3. \A v \in Users \ {u} : bank'[v] = bank[v]
  BY <1>1
<1> HIDE DEF fn, gn
<1>4. fn[b] \in Int /\ gn[b] \in Int
  BY <1>2
<1>5. SumFunctionOnSet(fn, Banks) \in Int
  BY <1>2, FiniteBanks, SumIsInt
<1>6. SumFunctionOnSet(gn, Banks) = SumFunctionOnSet(fn, Banks) + gn[b] - fn[b]
  BY <1>2, <1>4, FiniteBanks, SumChanges
<1>7. SumFunctionOnSet(gn, Banks) = SumFunctionOnSet(fn, Banks) + d
  BY <1>2, <1>4, <1>5, <1>6
<1> QED
  BY <1>3, <1>7 DEF BankTotal, fn, gn

\* The sums of NearTruth for one view: a transfer of its user may end and move
\* the total, and a transfer of its user may begin and be counted.
LEMMA NearSteps ==
    ASSUME NEW n \in Nat, NEW m \in Nat, NEW k \in Nat, NEW j \in Nat,
           NEW a \in Int, NEW b \in Int, NEW b1 \in Int, Near(a, b, n, k),
           \/ b1 = b /\ m <= n /\ j = k
           \/ b1 - b <= LargestTransfer /\ b - b1 <= LargestTransfer /\ m = n - 1 /\ j = k
           \/ b1 = b /\ m <= n + 1 /\ j = k + 1
    PROVE  Near(a, b1, m, j)
<1> DEFINE L == LargestTransfer
<1>0. L \in Nat /\ Distance(a, b) + n * L <= k * L
  BY LargestTransferIs DEF Near
<1> SUFFICES Distance(a, b1) + m * L <= j * L
  BY DEF Near
<1>00. \/ b1 = b /\ m <= n /\ j = k
       \/ b1 - b <= L /\ b - b1 <= L /\ m = n - 1 /\ j = k
       \/ b1 = b /\ m <= n + 1 /\ j = k + 1
  OBVIOUS
<1> HIDE DEF L
<1>1. \A x \in Int : (x + 1) * L = x * L + L /\ x * L \in Int
  BY <1>0, OneMore
<1>2. \A x, y \in Int : x <= y => x * L <= y * L
  BY <1>0
<1>3. Distance(a, b) \in Int /\ Distance(a, b1) \in Int
  BY DEF Distance
<1>4. n * L \in Int /\ m * L \in Int /\ k * L \in Int /\ j * L \in Int
  BY <1>0, <1>1
<1>5. CASE b1 = b /\ m <= n /\ j = k
  <2>1. m * L <= n * L
    BY <1>2, <1>5
  <2> QED
    BY <1>0, <1>3, <1>4, <1>5, <2>1
<1>6. CASE b1 - b <= L /\ b - b1 <= L /\ m = n - 1 /\ j = k
  <2>1. Distance(a, b1) <= Distance(a, b) + L
    BY <1>0, <1>6 DEF Distance
  <2>2. n * L = m * L + L
    BY <1>1, <1>6
  <2> QED
    BY <1>0, <1>3, <1>4, <1>6, <2>1, <2>2
<1>7. CASE b1 = b /\ m <= n + 1 /\ j = k + 1
  <2>1. m * L <= (n + 1) * L
    BY <1>2, <1>7
  <2>2. (n + 1) * L = n * L + L /\ j * L = k * L + L
    BY <1>1, <1>7
  <2> QED
    BY <1>0, <1>3, <1>4, <1>7, <2>1, <2>2
<1> QED
  BY <1>00, <1>5, <1>6, <1>7


\* A step that leaves the records of the views but for one.
LEMMA NearReading ==
    ASSUME HandlersInv, ViewInv, NearInv, NEW p \in Workers, Look(p) \/ Reading(p)
    PROVE  NearInv'
<1>1. /\ UNCHANGED <<bank, pc, req>>
      /\ \A u : BankTotal(u)' = BankTotal(u) /\ BusyTransfers(u)' = BusyTransfers(u)
  <2>1. UNCHANGED <<bank, pc, req>>
    BY DEF Look, Reading, OpenView, RefusedView, ViewerOf, ReadBankAccounts, ReadBalance,
         ReadOwnedStock, ReadAvgPrice, Render, handlers, tables
  <2> QED
    BY <2>1 DEF BankTotal, BusyTransfers
<1>2. \A v : NearTruth(v)' <=> NearTruth(v)
  BY <1>1 DEF NearTruth
<1>3. /\ view \in [Workers -> ViewStates]
      /\ view' = view \/ \E v \in ViewStates : view' = [view EXCEPT ![p] = v]
  BY ReadingTyped DEF ViewInv
<1>4. CASE ReadBankAccounts(p)
  <2> DEFINE u == view[p].user
             v == [at |-> "accountInfo", kind |-> "balances", user |-> u, bank |-> BankTotal(u),
                   overlaps |-> Cardinality(BusyTransfers(u))]
  <2>1. view' = [view EXCEPT ![p] = v]
    BY <1>4 DEF ReadBankAccounts
  <2>2. u \in Users
    BY <1>3, <1>4, ViewFields DEF ReadBankAccounts, ViewCall
  <2>3. BankTotal(u) \in Int /\ Cardinality(BusyTransfers(u)) \in Nat
    BY <2>2, TotalType, BusyType DEF HandlersInv
  <2>4. Cardinality(BusyTransfers(u)) * LargestTransfer \in Int
    BY <2>3, LargestTransferIs
  <2>5. NearTruth(v)
    BY <2>3, <2>4 DEF NearTruth, Near, Distance
  <2>6. \A q \in Workers : NearTruth(view'[q])
    BY <1>3, <2>1, <2>5 DEF NearInv
  <2> QED
    BY <1>2, <2>6 DEF NearInv, NearTruth
<1>5. CASE ~ReadBankAccounts(p)
  <2>1. view' = view \/ view'[p].at # "accountInfo"
    <3>1. \A told : Tell(p, told) => view'[p].at # "accountInfo"
      BY <1>3 DEF Tell, NoView
    <3>2. CASE Look(p) \/ OpenView(p) \/ RefusedView(p) \/ ReadBalance(p) \/ Render(p)
      BY <1>3, <3>1, <3>2 DEF Look, OpenView, RefusedView, ReadBalance, Render
    <3>3. CASE ViewerOf(p)
      <4>1. view[p] \in [at : {"session", "bankAccounts", "ownedStock"}, kind : Views,
                         user : Users]
        BY <1>3, <3>3, ViewFields DEF ViewerOf, ViewCall
      <4> QED
        BY <1>3, <3>1, <3>3, <4>1 DEF ViewerOf
    <3>4. CASE ReadOwnedStock(p)
      BY <1>3, <3>4 DEF ReadOwnedStock
    <3>5. CASE ReadAvgPrice(p)
      <4>1. view[p] \in [at : {"avgPrice", "render"}, kind : {"portfolio"}, user : Users,
                         rows : SUBSET Companies, nonzero : SUBSET Companies]
        BY <1>3, <3>5, ViewFields DEF ReadAvgPrice, ViewCall
      <4> QED
        BY <1>3, <3>5, <4>1 DEF ReadAvgPrice
    <3> QED
      BY <1>5, <3>2, <3>3, <3>4, <3>5 DEF Reading
  <2>2. \A q \in Workers : NearTruth(view'[q])
    BY <1>3, <2>1 DEF NearInv, NearTruth
  <2> QED
    BY <1>2, <2>2 DEF NearInv, NearTruth
<1> QED
  BY <1>4, <1>5

\* What NearSteps needs to know of a view and its user.
LEMMA NearTypes ==
    ASSUME HandlersInv, ViewInv, NEW p \in Workers, view[p].at = "accountInfo"
    PROVE  /\ view[p].user \in Users /\ view[p].bank \in Int /\ view[p].overlaps \in Nat
           /\ BankTotal(view[p].user) \in Int
           /\ IsFiniteSet(BusyTransfers(view[p].user))
           /\ Cardinality(BusyTransfers(view[p].user)) \in Nat
BY ViewFields, TotalType, BusyType DEF ViewInv, HandlersInv

\* A step of a handler keeps every bank total a view has read near the truth.
LEMMA NearHandle ==
    ASSUME HandlersInv, ViewInv, BookingInv, NearInv, NEW q \in Workers, Handle(q)
    PROVE  NearInv'
<1>1. /\ Work(q) /\ TypeInv /\ view' = view /\ pc[q] # "idle" /\ req' = req
      /\ \A p \in Workers \ {q} : pc'[p] = pc[p] /\ req'[p] = req[p]
  BY WorkBusy, WorkOthers DEF Handle, HandlersInv
<1> SUFFICES ASSUME NEW p \in Workers, view[p].at = "accountInfo"
             PROVE  NearTruth(view[p])'
  BY <1>1 DEF NearInv, NearTruth
<1> DEFINE u == view[p].user
           n == Cardinality(BusyTransfers(u))
           m == Cardinality(BusyTransfers(u)')
           a == view[p].bank
           k == view[p].overlaps
           b == BankTotal(u)
           b1 == BankTotal(u)'
<1>2. /\ u \in Users /\ a \in Int /\ k \in Nat /\ b \in Int
      /\ IsFiniteSet(BusyTransfers(u)) /\ n \in Nat
  BY NearTypes
<1>3. Near(a, b, n, k)
  BY DEF NearInv, NearTruth
<1>4. CASE bank' = bank
  <2>1. b1 = b
    BY <1>1, <1>4 DEF BankTotal
  <2>2. q \in BusyTransfers(u)' => q \in BusyTransfers(u)
    BY <1>1 DEF BusyTransfers
  <2>3. BusyTransfers(u)' \in SUBSET BusyTransfers(u)
    BY <1>1, <2>2, BusyStays
  <2>4. m \in Nat /\ m <= n
    BY <1>2, <2>3, FS_Subset, FS_CardinalityType
  <2> HIDE DEF m, n, a, k, b, b1
  <2>5. Near(a, b1, m, k)
    BY <1>2, <1>3, <2>1, <2>4, NearSteps
  <2> QED
    BY <1>1, <2>5 DEF NearTruth, m, a, k, b1
<1>5. CASE /\ pc'[q] = "idle" /\ q \in BusyTransfers(req[q].user)
           /\ req[q].user \in Users
           /\ local[q].bank \in Banks
           /\ bank' = [bank EXCEPT ![req[q].user][local[q].bank] = @ + BankDelta(q)]
           /\ BankDelta(q) \in Int
           /\ BankDelta(q) <= LargestTransfer /\ -BankDelta(q) <= LargestTransfer
  <2>1. /\ BankTotal(req[q].user)' = BankTotal(req[q].user) + BankDelta(q)
        /\ \A v \in Users \ {req[q].user} : BankTotal(v)' = BankTotal(v)
    BY <1>1, <1>5, TotalMoves
  <2>2. BusyTransfers(u)' = BusyTransfers(u) \ {q}
    BY <1>1, <1>5, BusyStays DEF BusyTransfers
  <2>3. m = (IF q \in BusyTransfers(u) THEN n - 1 ELSE n) /\ m \in Nat
    BY <1>2, <2>2, FS_RemoveElement, FS_CardinalityType
  <2>4. CASE req[q].user = u
    <3>1. b1 = b + BankDelta(q) /\ m = n - 1
      BY <1>1, <1>5, <2>1, <2>3, <2>4
    <3>2. b1 \in Int /\ b1 - b <= LargestTransfer /\ b - b1 <= LargestTransfer
      BY <1>2, <1>5, <3>1, LargestTransferIs
    <3> HIDE DEF m, n, a, k, b, b1
    <3>3. Near(a, b1, m, k)
      BY <1>2, <1>3, <2>3, <3>1, <3>2, NearSteps
    <3> QED
      BY <1>1, <3>3 DEF NearTruth, m, a, k, b1
  <2>5. CASE req[q].user # u
    <3>1. b1 = b /\ m <= n
      BY <1>1, <1>2, <2>1, <2>3, <2>5
    <3> HIDE DEF m, n, a, k, b, b1
    <3>3. Near(a, b1, m, k)
      BY <1>2, <1>3, <2>3, <3>1, NearSteps
    <3> QED
      BY <1>1, <3>3 DEF NearTruth, m, a, k, b1
  <2> QED
    BY <2>4, <2>5
<1> QED
  BY <1>1, <1>4, <1>5, WorkBanks

\* So does the start of a request: the view counts it as overlapping.
LEMMA NearStart ==
    ASSUME HandlersInv, ViewInv, NearInv, NEW q \in Workers, StartHandler(q)
    PROVE  NearInv'
<1>1. /\ Start(q) /\ pc[q] = "idle" /\ UNCHANGED bank
      /\ view' = [p \in Workers |-> IF Overlapping(p, q)
                                    THEN [view[p] EXCEPT !.overlaps = @ + 1] ELSE view[p]]
      /\ \A p \in Workers \ {q} : pc'[p] = pc[p] /\ req'[p] = req[p]
  BY DEF StartHandler, Start, tables, HandlersInv, TypeInv, TypeOK, HandlersOK
<1> SUFFICES ASSUME NEW p \in Workers, view'[p].at = "accountInfo"
             PROVE  NearTruth(view[p])'
  BY DEF NearInv, NearTruth
<1>2. view[p].at = "accountInfo"
  <2>1. view[p] \in ViewStates
    BY DEF ViewInv
  <2> QED
    BY <1>1 DEF Overlapping
<1> DEFINE u == view[p].user
           n == Cardinality(BusyTransfers(u))
           m == Cardinality(BusyTransfers(u)')
           a == view[p].bank
           k == view[p].overlaps
           j == view'[p].overlaps
           b == BankTotal(u)
<1>3. /\ u \in Users /\ a \in Int /\ k \in Nat /\ b \in Int
      /\ IsFiniteSet(BusyTransfers(u)) /\ n \in Nat
      /\ view[p] \in [at : {"accountInfo"}, kind : {"balances"}, user : Users, bank : Int,
                       overlaps : Nat]
  BY <1>2, NearTypes, ViewFields DEF ViewInv
<1>4. Near(a, b, n, k) /\ b = BankTotal(u)'
  BY <1>1, <1>2 DEF NearInv, NearTruth, BankTotal
<1>5. CASE Overlapping(p, q)
  <2>1. view'[p].user = u /\ view'[p].bank = a /\ j = k + 1 /\ j \in Nat
    BY <1>1, <1>3, <1>5
  <2>2. BusyTransfers(u)' \in SUBSET (BusyTransfers(u) \union {q})
    BY <1>1, BusyStays
  <2>3. /\ IsFiniteSet(BusyTransfers(u) \union {q})
        /\ Cardinality(BusyTransfers(u) \union {q}) = IF q \in BusyTransfers(u) THEN n ELSE n + 1
    BY <1>3, FS_AddElement
  <2>4. m <= Cardinality(BusyTransfers(u) \union {q}) /\ m \in Nat
    BY <2>2, <2>3, FS_Subset, FS_CardinalityType
  <2>5. m <= n + 1
    BY <1>3, <2>3, <2>4
  <2> HIDE DEF m, n, a, k, b, j
  <2>6. Near(a, b, m, j)
    BY <1>3, <1>4, <2>1, <2>4, <2>5, NearSteps
  <2> QED
    BY <1>4, <2>1, <2>6 DEF NearTruth, m, a, j, b
<1>6. CASE ~Overlapping(p, q)
  <2>1. view'[p] = view[p]
    BY <1>1, <1>6
  <2>2. q \notin BusyTransfers(u)'
    BY <1>2, <1>6, <2>1 DEF Overlapping, BusyTransfers
  <2>3. BusyTransfers(u)' \in SUBSET BusyTransfers(u)
    BY <1>1, <2>2, BusyStays
  <2>4. m \in Nat /\ m <= n
    BY <1>3, <2>3, FS_Subset, FS_CardinalityType
  <2> HIDE DEF m, n, a, k, b
  <2>5. Near(a, b, m, k)
    BY <1>3, <1>4, <2>4, NearSteps
  <2> QED
    BY <1>4, <2>1, <2>5 DEF NearTruth, m, a, k, b
<1> QED
  BY <1>5, <1>6

\* Every step of the server keeps every bank total a view has read near the truth.
LEMMA ServerNextNear ==
    ASSUME HandlersInv, ViewInv, BookingInv, NearInv, [ServerNext]_serverVars
    PROVE  NearInv'
<1>1. CASE Restart
  BY <1>1 DEF Restart, NearInv, NearTruth, NoView, Viewing
<1>2. CASE (LoseConnection /\ UNCHANGED <<averages, view>>) \/ UNCHANGED serverVars
  <2>1. UNCHANGED <<bank, pc, req, view>>
    BY <1>2 DEF LoseConnection, serverVars, vars, tables
  <2> QED
    BY <2>1 DEF NearInv, NearTruth, BankTotal, BusyTransfers
<1> QED
  BY <1>1, <1>2, NearReading, NearHandle, NearStart DEF ServerNext, ServerWaiting

\* The step that shows the balances.
LEMMA ShownNear ==
    ASSUME HandlersInv, ViewInv, NearInv, [ServerNext]_serverVars,
           NEW p \in Workers, ShownTo(p), view'[p].told.kind = "balances"
    PROVE  Distance(view'[p].told.total,
                    BankTotal(view[p].user) + account[view[p].user])
             <= view[p].overlaps * LargestTransfer
<1>1. ReadBalance(p)
  <2>1. /\ view \in [Workers -> ViewStates] /\ view[p].at = "accountInfo"
        /\ view'[p].at = "idle" /\ pc[p] = "idle"
    BY DEF ViewInv, ShownTo, Viewing
  <2>2. ASSUME NEW q \in Workers, Look(q) \/ Reading(q), q # p PROVE FALSE
    BY <2>1, <2>2, ReadingTyped
  <2>3. ASSUME NEW q \in Workers, StartHandler(q) PROVE FALSE
    <3>1. view[p] \in [at : {"accountInfo"}, kind : {"balances"}, user : Users, bank : Int,
                       overlaps : Nat]
      BY <2>1, ViewFields
    <3> QED
      BY <2>1, <2>3, <3>1 DEF StartHandler
  <2>4. ~Restart
    BY <2>1 DEF Restart, NoView, Told, Viewing
  <2>5. view' # view
    BY <2>1
  <2>6. Look(p) \/ Reading(p)
    BY <2>2, <2>3, <2>4, <2>5 DEF ServerNext, Handle, ServerWaiting, serverVars
  <2>7. ~RefusedView(p)
    BY <2>1 DEF RefusedView, Tell, NoView, Told
  <2> QED
    BY <2>1, <2>5, <2>6, <2>7 DEF Look, Reading, OpenView, ViewerOf, ReadBankAccounts,
       ReadOwnedStock, ReadAvgPrice, Render, ViewCall
<1> DEFINE u == view[p].user
           n == Cardinality(BusyTransfers(u))
<1>2. /\ view[p].at = "accountInfo" /\ u \in Users /\ view[p].bank \in Int
      /\ view[p].overlaps \in Nat /\ BankTotal(u) \in Int /\ n \in Nat
      /\ view \in [Workers -> ViewStates]
  BY NearTypes DEF ShownTo, ViewInv
<1>3. account[u] \in Int
  BY <1>2 DEF HandlersInv, TypeInv, TypeOK, TablesOK
<1>4. view'[p].told.total = view[p].bank + account[u]
  BY <1>1, <1>2 DEF ReadBalance, Tell, NoView, Told, ToldTotal
<1>5. Distance(view[p].bank, BankTotal(u)) + n * LargestTransfer
        <= view[p].overlaps * LargestTransfer
  BY <1>2 DEF NearInv, NearTruth, Near
<1>6. n * LargestTransfer \in Nat /\ view[p].overlaps * LargestTransfer \in Nat
  BY <1>2, LargestTransferIs
<1> HIDE DEF n
<1>7. Distance(view[p].bank + account[u], BankTotal(u) + account[u])
        = Distance(view[p].bank, BankTotal(u))
      /\ Distance(view[p].bank, BankTotal(u)) \in Int
  BY <1>2, <1>3 DEF Distance
<1> QED
  BY <1>4, <1>5, <1>6, <1>7


-----------------------------------------------------------------------------
(* The books. *)

\* A step beside the handlers writes no table and settles nothing.
LEMMA AsideBooks == ASSUME BooksInv, Aside PROVE BooksInv'
<1>1. /\ UNCHANGED <<account, bank, owned, req, local, done, settled>>
      /\ \A p \in Workers : pc'[p] = pc[p] \/ pc'[p] = "idle"
  BY DEF Aside, tables
<1>2. BookingInv'
  BY <1>1 DEF BooksInv, BookingInv, Booking, Chose
<1>3. \A u, p : MoneyTerm(u, p)' = MoneyTerm(u, p)
  BY <1>1 DEF MoneyTerm, AccountDelta, Worth
<1>4. \A u, b, p : MovedTerm(u, b, p)' = MovedTerm(u, b, p)
  BY <1>1 DEF MovedTerm, BankDelta, Worth
<1>5. \A u, c, p : DeliveredTerm(u, c, p)' = DeliveredTerm(u, c, p)
  BY <1>1 DEF DeliveredTerm, SharesDelta
<1>6. /\ \A u \in Users : AccountBooked(u)'
      /\ \A u \in Users, b \in Banks : BankBooked(u, b)'
      /\ \A u \in Users, c \in Companies : SharesBooked(u, c)'
  BY <1>1, <1>3, <1>4, <1>5
     DEF BooksInv, AccountBooked, BankBooked, SharesBooked, MoneyOf, MovedOf, DeliveredOf
<1> QED
  BY <1>2, <1>6 DEF BooksInv

\* The invariant of the books holds throughout the server.
LEMMA BooksAlways == ServerSpec => []BooksInv
<1>1. ServerInit => BooksInv
  BY InitBooks DEF ServerInit
<1>2. HandlersInv /\ BooksInv /\ [ServerNext]_serverVars => BooksInv'
  BY StepOfHandlers, NextBooks, AsideBooks DEF HandlersInv
<1> QED
  BY <1>1, <1>2, HandlersAlways, PTL DEF ServerSpec

\* BrokerageProperties!BooksBalance of the whole server: what a crash cuts off a
\* request is in the books neither half nor twice.
THEOREM BooksBalanceThroughRestarts == ServerSpec => []BooksBalance
<1>1. HandlersInv /\ BooksInv => BooksBalance
  BY BooksInvBalances DEF HandlersInv
<1> QED
  BY <1>1, BooksAlways, HandlersAlways, PTL

\* ServerProperties!BalancesNearTruth for any number of threads, users and
\* amounts, through crashes: the two reads of the balance view are never further
\* apart than the transfers of the user that ran meanwhile can move.
THEOREM BalancesAreNear == ServerSpec => BalancesNearTruth
<1>1. ServerInit => NearInv
  BY DEF ServerInit, NearInv, NearTruth, NoView
<1>2. HandlersInv /\ ViewInv /\ BooksInv /\ NearInv /\ [ServerNext]_serverVars => NearInv'
  BY ServerNextNear DEF BooksInv
<1> DEFINE Shown ==
      \A p \in Workers :
         ShownTo(p) /\ view'[p].told.kind = "balances" =>
           Distance(view'[p].told.total,
                    BankTotal(view[p].user) + account[view[p].user])
             <= view[p].overlaps * LargestTransfer
<1>3. HandlersInv /\ ViewInv /\ NearInv /\ [ServerNext]_serverVars => [Shown]_serverVars
  BY ShownNear
<1> QED
  BY <1>1, <1>2, <1>3, HandlersAlways, ViewsAlways, BooksAlways, PTL DEF ServerSpec, BalancesNearTruth


-----------------------------------------------------------------------------
(* The overdraft. *)

\* A balance stays backed when it rises.
LEMMA BackedRises ==
    ASSUME NEW x \in Int, NEW x1 \in Int, x1 >= x, NEW holders \in SUBSET Workers,
           NEW needs, \A q \in holders : needs[q] \in Int, NEW L \in Nat,
           Backed(x, holders, needs, L)
    PROVE  Backed(x1, holders, needs, L)
<1>1. Rivals * L \in Int /\ Cardinality(holders) \in Int /\ Cardinality(Workers) \in Int
  BY WorkersAssumption, FS_Subset, FS_CardinalityType, RivalsIs
<1> DEFINE floor == -((Cardinality(Workers) - Cardinality(holders)) * L)
<1>2. floor \in Int
  BY <1>1
<1>3. CASE holders = {}
  BY <1>1, <1>3 DEF Backed
<1>4. CASE holders # {}
  <2>1. PICK p \in holders : x - needs[p] >= floor
    BY <1>4 DEF Backed
  <2> HIDE DEF floor
  <2>2. x1 - needs[p] >= floor
    BY <1>2, <2>1
  <2> QED
    BY <1>4, <2>2 DEF Backed, floor
<1> QED
  BY <1>3, <1>4

\* A step beside the handlers changes no balance, and leaves the holders what
\* they were or ends them all: what a dead process had checked it never spends.
LEMMA AsideBacked == ASSUME TypeInv, BackedInv, Aside PROVE BackedInv'
<1>0. started \in Nat /\ started' \in Nat /\ started' >= started
  BY DEF Aside, TypeInv, TypeOK, HandlersOK
<1>1. UNCHANGED <<account, bank, owned, req, local>>
  BY DEF Aside, tables
<1>2. /\ account \in [Users -> Int]
      /\ bank \in [Users -> [Banks -> Int]]
  BY DEF TypeInv, TypeOK, TablesOK
<1>3. CASE pc' = pc
  <2>1. /\ \A u : CashHolders(u)' = CashHolders(u)
        /\ \A u, b : BankHolders(u, b)' = BankHolders(u, b)
        /\ \A u, c : ShareHolders(u, c)' = ShareHolders(u, c)
    BY <1>1, <1>3 DEF CashHolders, BankHolders, ShareHolders, HoldsCash, HoldsBank, HoldsShares
  <2>2. CashNeeds' = CashNeeds /\ ShareNeeds' = ShareNeeds
    BY <1>1 DEF CashNeeds, ShareNeeds, Worth
  <2>3. \A p \in Workers : TradeSound(p)'
    BY <1>1, <1>3 DEF BackedInv, TradeSound
  <2>4. CashPending' = CashPending /\ BankPending' = BankPending /\ Busy' = Busy
    BY <1>1, <1>3 DEF CashPending, BankPending, Busy
  <2>5. Cardinality(Busy) \in Nat /\ Cardinality(Busy) <= started
    BY WorkersAssumption, FS_Subset, FS_CardinalityType DEF Busy, BackedInv, CountedInv
  <2>6. CountedInv'
    BY <1>0, <2>4, <2>5 DEF CountedInv
  <2>7. ASSUME NEW P \in SUBSET Workers, P \subseteq Busy
        PROVE  /\ Taken(started, P) \in Nat /\ Taken(started', P) \in Nat
               /\ Taken(started', P) >= Taken(started, P)
    <3>1. IsFiniteSet(Busy) /\ Busy \subseteq Workers
      BY WorkersAssumption, FS_Subset DEF Busy
    <3>2. Cardinality(P) \in Nat /\ Cardinality(P) <= Cardinality(Busy)
      BY <2>7, <3>1, FS_Subset, FS_CardinalityType
    <3>3. Cardinality(P) <= started
      BY <1>0, <2>5, <3>2
    <3>4. \E p \in Workers : TRUE
      BY WorkersAssumption
    <3> QED
      BY <1>0, <3>3, <3>4, TakenGrows
  <2>8. /\ TakenCash \in Nat /\ TakenCash' \in Nat /\ TakenCash' >= TakenCash
        /\ TakenBank \in Nat /\ TakenBank' \in Nat /\ TakenBank' >= TakenBank
    <3>1. /\ CashPending \in SUBSET Workers /\ CashPending \subseteq Busy
          /\ BankPending \in SUBSET Workers /\ BankPending \subseteq Busy
      BY DEF CashPending, BankPending, Busy
    <3>2. TakenCash' = Taken(started', CashPending) /\ TakenBank' = Taken(started', BankPending)
      BY <2>4 DEF TakenCash, TakenBank, Taken
    <3> QED
      BY <2>7, <3>1, <3>2 DEF TakenCash, TakenBank
  <2>9. ASSUME NEW u \in Users
        PROVE  Backed(account[u] + TakenCash, CashHolders(u), CashNeeds, LargestDebit)'
    <3>1. /\ account[u] + TakenCash \in Int /\ account[u] + TakenCash' \in Int
          /\ account[u] + TakenCash' >= account[u] + TakenCash
          /\ CashHolders(u) \in SUBSET Workers
      BY <1>2, <2>8 DEF CashHolders
    <3>2. \A q \in CashHolders(u) : CashNeeds[q] \in Int
      BY HoldersNeedTyped DEF HoldersNeed, BackedInv, SoundInv
    <3>3. Backed(account[u] + TakenCash, CashHolders(u), CashNeeds, LargestDebit)
      BY DEF BackedInv
    <3>4. Backed(account[u] + TakenCash', CashHolders(u), CashNeeds, LargestDebit)
      BY ONLY <3>1, <3>2, <3>3, LargestDebitIs, BackedRises
    <3> QED
      BY <1>1, <2>1, <2>2, <3>4 DEF Backed
  <2>10. ASSUME NEW u \in Users, NEW b \in Banks
         PROVE  Backed(bank[u][b] + TakenBank, BankHolders(u, b), CashNeeds, LargestAmount)'
    <3>1. /\ bank[u][b] + TakenBank \in Int /\ bank[u][b] + TakenBank' \in Int
          /\ bank[u][b] + TakenBank' >= bank[u][b] + TakenBank
          /\ BankHolders(u, b) \in SUBSET Workers
      BY <1>2, <2>8 DEF BankHolders
    <3>2. \A q \in BankHolders(u, b) : CashNeeds[q] \in Int
      BY HoldersNeedTyped DEF HoldersNeed, BackedInv, SoundInv
    <3>3. Backed(bank[u][b] + TakenBank, BankHolders(u, b), CashNeeds, LargestAmount)
      BY DEF BackedInv
    <3>4. Backed(bank[u][b] + TakenBank', BankHolders(u, b), CashNeeds, LargestAmount)
      BY ONLY <3>1, <3>2, <3>3, LargestAmountIs, BackedRises
    <3> QED
      BY <1>1, <2>1, <2>2, <3>4 DEF Backed
  <2>11. \A u \in Users, c \in Companies :
           Backed(owned[u][c], ShareHolders(u, c), ShareNeeds, LargestSale)'
    BY <1>1, <2>1, <2>2 DEF BackedInv, Backed
  <2> QED
    BY <2>3, <2>6, <2>9, <2>10, <2>11 DEF BackedInv
<1>4. CASE pc' = [p \in Workers |-> "idle"]
  <2>1. /\ \A u \in Users : CashHolders(u)' = {}
        /\ \A u \in Users, b \in Banks : BankHolders(u, b)' = {}
        /\ \A u \in Users, c \in Companies : ShareHolders(u, c)' = {}
        /\ \A p \in Workers : TradeSound(p)'
    BY <1>4 DEF CashHolders, BankHolders, ShareHolders, HoldsCash, HoldsBank, HoldsShares,
                PurchaseCalls, TradeSound
  <2>2. OverdraftBound
    BY BackedBounds
  <2>3. Busy' = {} /\ CashPending' = {} /\ BankPending' = {}
    BY <1>4 DEF Busy, CashPending, BankPending
  <2>4. CountedInv' /\ TakenCash' = started' * LargestReversal
        /\ TakenBank' = started' * LargestReversal
    <3>1. Cardinality({}) = 0
      BY FS_EmptySet
    <3>2. CountedInv'
      BY <1>0, <2>3, <3>1 DEF CountedInv
    <3>3. \A i \in Nat : i - 0 = i
      OBVIOUS
    <3>4. started' - Cardinality({}) = started'
      BY ONLY <1>0, <3>1, <3>3
    <3> QED
      BY <2>3, <3>2, <3>4 DEF TakenCash, TakenBank, Taken
  <2>5. /\ started * LargestReversal \in Nat /\ started' * LargestReversal \in Nat
        /\ started' * LargestReversal >= started * LargestReversal
    <3>1. \A i, j, k \in Nat : i >= j => i * k \in Nat /\ j * k \in Nat /\ i * k >= j * k
      OBVIOUS
    <3> QED
      BY ONLY <1>0, <3>1, LargestReversalIs
  <2>6. Rivals * LargestDebit \in Int /\ Rivals * LargestAmount \in Int
    BY RivalsIs, LargestDebitIs, LargestAmountIs
  <2>7. ASSUME NEW u \in Users
        PROVE  Backed(account[u] + TakenCash, CashHolders(u), CashNeeds, LargestDebit)'
    <3>1. account[u] \in Int
          /\ account[u] >= -(Rivals * LargestDebit) - started * LargestReversal
      BY <1>2, <2>2 DEF OverdraftBound
    <3>2. account[u] + started' * LargestReversal >= -(Rivals * LargestDebit)
      BY ONLY <2>5, <2>6, <3>1
    <3> QED
      BY <1>1, <2>1, <2>4, <3>2 DEF Backed
  <2>8. ASSUME NEW u \in Users, NEW b \in Banks
        PROVE  Backed(bank[u][b] + TakenBank, BankHolders(u, b), CashNeeds, LargestAmount)'
    <3>1. bank[u][b] \in Int
          /\ bank[u][b] >= -(Rivals * LargestAmount) - started * LargestReversal
      BY <1>2, <2>2 DEF OverdraftBound
    <3>2. bank[u][b] + started' * LargestReversal >= -(Rivals * LargestAmount)
      BY ONLY <2>5, <2>6, <3>1
    <3> QED
      BY <1>1, <2>1, <2>4, <3>2 DEF Backed
  <2>9. \A u \in Users, c \in Companies :
          Backed(owned[u][c], ShareHolders(u, c), ShareNeeds, LargestSale)'
    BY <1>1, <2>1, <2>2 DEF OverdraftBound, Backed
  <2> QED
    BY <2>1, <2>4, <2>7, <2>8, <2>9 DEF BackedInv
<1> QED
  BY <1>3, <1>4 DEF Aside

\* BrokerageProperties!OverdraftBound of the whole server: the restarts of the
\* process, however many, add nothing to what the threads overdraw between them
\* and negative transfers take.
THEOREM OverdraftBoundedThroughRestarts == ServerSpec => []OverdraftBound
<1>1. ServerInit => BackedInv
  BY InitBacked DEF ServerInit
<1>2. HandlersInv /\ BooksInv /\ BackedInv /\ [ServerNext]_serverVars => BackedInv'
  BY StepOfHandlers, NextBacked, AsideBacked DEF HandlersInv, BooksInv
<1>3. HandlersInv /\ BackedInv => OverdraftBound
  BY BackedBounds DEF HandlersInv
<1> QED
  BY <1>1, <1>2, <1>3, BooksAlways, HandlersAlways, PTL DEF ServerSpec
===================================================================================
