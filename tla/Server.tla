---------------------------------- MODULE Server ----------------------------------
(***************************************************************************)
(* The whole server around the handlers of Brokerage: its threads also      *)
(* answer the two requests that only read - /getUserFinancialData, the      *)
(* balances of the profile page, and /api/stocks, the portfolio - over the  *)
(* same connection, and the process may die at any moment and be started    *)
(* again. The tables survive, the handlers and the connection do not.       *)
(***************************************************************************)
EXTENDS Brokerage

CONSTANTS
    Views,    \* which of the reading requests clients make
    MayCrash  \* whether the process can die

ASSUME ViewsAssumption == Views \subseteq {"balances", "portfolio"}
ASSUME CrashAssumption == MayCrash \in BOOLEAN

VARIABLES
    averages,  \* <<user, company>> pairs with an avg_price row
    view       \* what a worker is reading for whom, and what it has told the client

serverVars == <<vars, averages, view>>
handlers == <<pc, req, local, reply, done, settled>>

Pairs(u, rows) == {c \in Companies : <<u, c>> \in rows}

\* The answers: balances with their total, or a portfolio. Its body is nothing
\* without a row, a list of the rows that have shares, or, when there are rows
\* and none of them has, a bracket that closes what the code has cut off.
Told(kind) == [kind |-> kind]
ToldTotal(total) == [kind |-> "balances", total |-> total]
ToldStocks(body, stocks) == [kind |-> body, stocks |-> stocks]

NoView(told) == [at |-> "idle", told |-> told]

ServerInit ==
    /\ Init
    /\ averages = {}
    /\ view = [p \in Workers |-> NoView(Told("none"))]

-----------------------------------------------------------------------------
Viewing(p) == view[p].at # "idle"
ViewCall(p, call) == txn = p /\ view[p].at = call /\ connected

Tell(p, told) ==
    /\ view' = [view EXCEPT ![p] = NoView(told)]
    /\ txn' = IF txn = p THEN Free ELSE txn

\* A worker that serves nobody takes a reading request.
Look(p) ==
    /\ pc[p] = "idle" /\ ~Viewing(p) /\ started < MaxRequests
    /\ \E kind \in Views, u \in Users :
         view' = [view EXCEPT ![p] = [at |-> "session", kind |-> kind, user |-> u]]
    /\ started' = started + 1
    /\ UNCHANGED <<tables, handlers, averages, txn, connected>>

OpenView(p) ==
    /\ Viewing(p) /\ view[p].at # "render" /\ txn = Free /\ connected
    /\ txn' = p
    /\ UNCHANGED <<tables, handlers, averages, view, started, connected>>

\* As in Brokerage, all of these are a 500: those the handler catches and those
\* Crow catches for it.
RefusedView(p) ==
    /\ Viewing(p) /\ view[p].at # "render"
    /\ txn \notin {Free, p} \/ ~connected
    /\ Tell(p, Told("error"))
    /\ UNCHANGED <<tables, handlers, averages, started, connected>>

\* The sid is looked up: in one transaction for the portfolio, in two for the
\* balances, which redirect when there is no session.
ViewerOf(p) ==
    LET next == IF view[p].kind = "balances" THEN "bankAccounts" ELSE "ownedStock"
    IN  /\ ViewCall(p, "session")
        /\ \/ Tell(p, Told("error"))
           \/ view[p].kind = "balances" /\ Tell(p, Told("redirect"))
           \/ txn' = Free /\ view' = [view EXCEPT ![p].at = next]
        /\ UNCHANGED <<tables, handlers, averages, started, connected>>

-----------------------------------------------------------------------------
(* /getUserFinancialData. *)

BankTotal(u) == SumFunctionOnSet(bank[u], Banks)
BusyTransfers(u) ==
    {q \in Workers : pc[q] # "idle" /\ req[q].kind \in Transfers /\ req[q].user = u}

\* Mutant: the first account is shown for both.
ReadFirstBankTwice(p) ==
    LET u == view[p].user
    IN  /\ ViewCall(p, "bankAccounts")
        /\ \E b \in Banks :
             view' = [view EXCEPT ![p] =
                 [at |-> "accountInfo", kind |-> "balances", user |-> u, bank |-> 2 * bank[u][b],
                  overlaps |-> Cardinality(BusyTransfers(u))]]
        /\ txn' = Free
        /\ UNCHANGED <<tables, handlers, averages, started, connected>>

\* overlaps is a history variable: the transfers of the user that run between
\* the two reads, or part of the time.
ReadBankAccounts(p) ==
    LET u == view[p].user
    IN  /\ ViewCall(p, "bankAccounts")
        /\ view' = [view EXCEPT ![p] =
               [at |-> "accountInfo", kind |-> "balances", user |-> u, bank |-> BankTotal(u),
                overlaps |-> Cardinality(BusyTransfers(u))]]
        /\ txn' = Free
        /\ UNCHANGED <<tables, handlers, averages, started, connected>>

\* A user without a balance row throws here, and nothing in the handler catches it.
ReadBalance(p) ==
    LET u == view[p].user
    IN  /\ ViewCall(p, "accountInfo")
        /\ Tell(p, IF u \in Orphans THEN Told("error")
                   ELSE ToldTotal(view[p].bank + account[u]))
        /\ UNCHANGED <<tables, handlers, averages, started, connected>>

-----------------------------------------------------------------------------
(* /api/stocks. *)

ReadOwnedStock(p) ==
    LET u == view[p].user
        rows == Pairs(u, holding)
    IN  /\ ViewCall(p, "ownedStock")
        /\ view' = [view EXCEPT ![p] =
               [at |-> "avgPrice", kind |-> "portfolio", user |-> u,
                rows |-> rows, nonzero |-> {c \in rows : owned[u][c] # 0}]]
        /\ txn' = Free
        /\ UNCHANGED <<tables, handlers, averages, started, connected>>

\* jointProduct keeps the companies that both reads have.
ReadAvgPrice(p) ==
    /\ ViewCall(p, "avgPrice")
    /\ view' = [view EXCEPT ![p].at = "render",
                            ![p].rows = @ \intersect Pairs(view[p].user, averages)]
    /\ txn' = Free
    /\ UNCHANGED <<tables, handlers, averages, started, connected>>

\* One price_now for each row that has shares, and it may throw. No transaction.
Render(p) ==
    LET listed == view[p].rows \intersect view[p].nonzero
    IN  /\ view[p].at = "render"
        /\ \/ listed # {} /\ Tell(p, Told("error"))
           \/ listed # {} /\ Tell(p, ToldStocks("list", listed))
           \/ listed = {} /\ Tell(p, ToldStocks(IF view[p].rows = {} THEN "nothing"
                                               ELSE "bracket", {}))
        /\ UNCHANGED <<tables, handlers, averages, started, connected>>

-----------------------------------------------------------------------------
(* The handlers of Brokerage, next to the views. *)

\* A transfer that begins between the two reads of a view counts.
Overlapping(p, q) ==
    /\ view[p].at = "accountInfo"
    /\ req'[q].kind \in Transfers /\ req'[q].user = view[p].user

StartHandler(q) ==
    /\ ~Viewing(q)
    /\ Start(q)
    /\ view' = [p \in Workers |-> IF Overlapping(p, q)
                                  THEN [view[p] EXCEPT !.overlaps = @ + 1] ELSE view[p]]
    /\ UNCHANGED averages

\* The row ON CONFLICT of upsert_avg_price makes or updates.
Handle(q) ==
    /\ Work(q)
    /\ averages' = IF "upsertAvgPrice" \in done'[q] \ done[q]
                   THEN averages \union {<<req[q].user, req[q].company>>} ELSE averages
    /\ UNCHANGED view

\* The process dies - a signal, an exception in the thread that deletes sessions,
\* a price file without a row - and is started again: no handler goes on, the
\* server rolls back what is open, and the constructor opens a new connection.
Restart ==
    /\ MayCrash
    /\ pc' = [p \in Workers |-> "idle"]
    /\ view' = [p \in Workers |-> IF Viewing(p) THEN NoView(Told("none")) ELSE view[p]]
    /\ txn' = Free /\ connected' = TRUE
    /\ UNCHANGED <<tables, averages, req, local, reply, started, done, settled>>

Reading(p) ==
    \/ OpenView(p) \/ RefusedView(p) \/ ViewerOf(p) \/ ReadBankAccounts(p)
    \/ ReadBalance(p) \/ ReadOwnedStock(p) \/ ReadAvgPrice(p) \/ Render(p)

\* Every request of the bound is answered.
ServerWaiting ==
    /\ started = MaxRequests /\ \A p \in Workers : pc[p] = "idle" /\ ~Viewing(p)
    /\ UNCHANGED serverVars

ServerNext ==
    \/ \E p \in Workers : StartHandler(p) \/ Handle(p) \/ Look(p) \/ Reading(p)
    \/ LoseConnection /\ UNCHANGED <<averages, view>>
    \/ Restart
    \/ ServerWaiting

ServerSpec == ServerInit /\ [][ServerNext]_serverVars

\* Crow runs each worker thread, and no call blocks on another thread.
FairServerSpec ==
    ServerSpec /\ \A p \in Workers : WF_serverVars(Handle(p) \/ Reading(p))
===================================================================================
