-------------------------------- MODULE Brokerage --------------------------------
(***************************************************************************)
(* The money and share handlers of main.cpp - /profile_action (deposit and *)
(* withdraw), /trade (buy and sell) and /owned_stocks (the poll the trading *)
(* page makes every two seconds) - running on the worker threads of one     *)
(* Crow server, over the one PostgreSQL connection of db::DBConnection.     *)
(*                                                                         *)
(* Every method of DBConnection the handlers call is two steps: opening the *)
(* pqxx::work on the shared connection (Open), which throws when another    *)
(* thread's transaction is registered there or the connection is gone, and  *)
(* the statement with its commit (the action named after the method).       *)
(* Between two calls a handler holds nothing: the std::mutex it declares is *)
(* a local of the call, so no other thread ever waits for it.               *)
(*                                                                         *)
(* Money is a whole number of units, Dollar of them to the dollar.          *)
(***************************************************************************)
EXTENDS Integers, FiniteSetsExt

CONSTANTS
    Workers,         \* threads of app.multithreaded()
    Free,            \* value of txn when the connection has no transaction
    Users,           \* registered users (account_security rows)
    Orphans,         \* those of them whose uid has no account_info row
    Companies,       \* listed companies
    Banks,           \* names of the two banks every user has an account with
    OtherAccounts,   \* accountIds clients send that are of neither of them
    Kinds,           \* which requests clients make
    Amounts,         \* dollar amounts clients ask for, in units: of either sign,
                     \* for only the page's own script refuses the others
    Shares,          \* share counts clients ask for
    Prices,          \* prices price_now can read, in units
    Dollar,          \* units in a dollar
    OpeningBalance,  \* what a new bank account holds, in units
    Indefinite,      \* what the build's (int) cast of an infinity yields
    MayLose,         \* whether the connection can break
    MaxRequests      \* bound on the requests of a behaviour

Transfers == {"deposit", "withdraw"}
Trades == {"buy", "sell"}

ASSUME WorkersAssumption == Free \notin Workers /\ Workers # {} /\ IsFiniteSet(Workers)
ASSUME UsersAssumption == Orphans \subseteq Users
ASSUME BanksAssumption ==
    /\ \E a, b \in Banks : a # b /\ Banks = {a, b}
    /\ OtherAccounts \intersect Banks = {}
ASSUME KindsAssumption == Kinds \subseteq Transfers \union Trades \union {"poll"}
ASSUME MoneyAssumption ==
    /\ Amounts \subseteq Int
    /\ Shares \subseteq Int
    /\ Prices \subseteq Nat
    /\ Dollar \in Nat \ {0}
    /\ OpeningBalance \in Nat
    /\ Indefinite \in Int
\* They are the ints and doubles of the program.
ASSUME NumbersAssumption ==
    IsFiniteSet(Amounts) /\ IsFiniteSet(Shares) /\ IsFiniteSet(Prices)
ASSUME RequestsAssumption == MayLose \in BOOLEAN /\ MaxRequests \in Nat

VARIABLES
    \* the tables
    account,    \* account_info.account_balance of a user
    bank,       \* bank_account.balance of a user at a bank
    holding,    \* <<user, company>> pairs with an owned_stock row
    owned,      \* owned_stock.num, 0 without a row
    avg,        \* avg_price.price_avg as an exact quotient, 0 without a row
    history,    \* number of trade_history rows of a user
    \* the connection
    txn,        \* worker whose transaction is registered on it, or Free
    connected,  \* whether it is alive
    \* the handlers
    pc,         \* the call a worker makes next, or "idle"
    req,        \* the request a worker serves, or served last
    local,      \* the locals of its handler
    reply,      \* what the client was told, "none" until then
    started,    \* number of requests so far
    \* history variables
    done,       \* writes of the request that reached the tables
    settled     \* net effect of the requests workers have moved on from

tables == <<account, bank, holding, owned, avg, history>>
vars == <<account, bank, holding, owned, avg, history, txn, connected,
          pc, req, local, reply, started, done, settled>>

-----------------------------------------------------------------------------
(* Requests, and what each is worth. *)

TransferRequests ==
    [kind : Kinds \intersect Transfers, user : Users,
     bank : Banks \union OtherAccounts, amount : Amounts]
TradeRequests ==
    [kind : Kinds \intersect Trades, user : Users, company : Companies, amount : Shares]
PollRequests == [kind : Kinds \intersect {"poll"}, user : Users, company : Companies]
Requests == TransferRequests \union TradeRequests \union PollRequests
NoRequest == [kind |-> "none"]  \* of a worker that has not served any yet

\* The dollars a request moves: the amount typed, or amount * price.
Worth(p) ==
    IF req[p].kind \in Transfers THEN req[p].amount
    ELSE IF req[p].kind \in Trades THEN req[p].amount * local[p].price
    ELSE 0

\* What one write of the request does to the column it increments.
AccountDelta(p) == IF req[p].kind \in {"deposit", "sell"} THEN Worth(p) ELSE -Worth(p)
\* Mutant: the sign of a deposit is lost.
BankDeltaUnsigned(p) == Worth(p)

BankDelta(p) == IF req[p].kind = "deposit" THEN -Worth(p) ELSE Worth(p)
SharesDelta(p) == IF req[p].kind = "buy" THEN req[p].amount ELSE -req[p].amount

\* The writes a complete request makes.
Writes(kind) ==
    CASE kind \in Transfers -> {"changeAccount", "increaseBankAccount"}
      [] kind = "buy" -> {"insertTradeHistory", "upsertAvgPrice",
                          "upsertOwnedStock", "changeAccount"}
      [] kind = "sell" -> {"insertTradeHistory", "upsertOwnedStock", "changeAccount"}
      [] kind = "poll" -> {}

\* Part of n a write of the request contributes once it reached the tables.
IfDone(p, write, n) == IF write \in done[p] THEN n ELSE 0

-----------------------------------------------------------------------------
(* Average prices: a quotient, read back by selectFromAvgPrice through an  *)
(* int, that is in whole dollars.                                          *)

NoAverage == [num |-> 0, den |-> 1]

WholeDollars(q) ==
    LET num == IF q.den < 0 THEN -q.num ELSE q.num
        den == IF q.den < 0 THEN -q.den ELSE q.den
    IN  IF den = 0 THEN Indefinite
        ELSE IF num >= 0 THEN Dollar * (num \div (den * Dollar))
        ELSE -(Dollar * ((-num) \div (den * Dollar)))

-----------------------------------------------------------------------------
\* Nothing is read yet, and none of the user's bank accounts chosen.
NoLocals == [bank |-> "none", price |-> 0, owned |-> 0, avg |-> 0]
NothingSettled == [account |-> 0, bank |-> [b \in Banks |-> 0],
                   shares |-> [c \in Companies |-> 0]]

Init ==
    /\ account = [u \in Users |-> 0]
    /\ bank = [u \in Users |-> [b \in Banks |-> OpeningBalance]]
    /\ holding = {}
    /\ owned = [u \in Users |-> [c \in Companies |-> 0]]
    /\ avg = [u \in Users |-> [c \in Companies |-> NoAverage]]
    /\ history = [u \in Users |-> 0]
    /\ txn = Free
    /\ connected = TRUE
    /\ pc = [p \in Workers |-> "idle"]
    /\ req = [p \in Workers |-> NoRequest]
    /\ local = [p \in Workers |-> NoLocals]
    /\ reply = [p \in Workers |-> "none"]
    /\ started = 0
    /\ done = [p \in Workers |-> {}]
    /\ settled = [u \in Users |-> NothingSettled]

-----------------------------------------------------------------------------
(* The connection. *)

\* pqxx::work w(*c): registers the transaction of the next call.
Open(p) ==
    /\ pc[p] # "idle" /\ txn = Free /\ connected
    /\ txn' = p
    /\ UNCHANGED <<tables, connected, pc, req, local, reply, started, done, settled>>

Calling(p, call) == txn = p /\ pc[p] = call /\ connected

\* The handler's last step: it answers, and its transaction, if open, ends.
Answer(p, outcome) ==
    /\ pc' = [pc EXCEPT ![p] = "idle"]
    /\ reply' = [reply EXCEPT ![p] = outcome]
    /\ txn' = IF txn = p THEN Free ELSE txn
    /\ UNCHANGED <<connected, req, started, done, settled>>

\* A read returns and the handler goes on to its next call.
Return(p, next) ==
    /\ pc' = [pc EXCEPT ![p] = next]
    /\ txn' = Free
    /\ UNCHANGED <<connected, req, reply, started, done, settled>>

\* A write commits. The connection may break after the server applied it:
\* commit() then throws although the write is there.
Commit(p, writes, next) ==
    /\ done' = [done EXCEPT ![p] = @ \union writes]
    /\ txn' = Free
    /\ \/ /\ pc' = [pc EXCEPT ![p] = next]
          /\ reply' = [reply EXCEPT ![p] = IF next = "idle" THEN "success" ELSE @]
          /\ UNCHANGED connected
       \/ /\ MayLose
          /\ connected' = FALSE
          /\ pc' = [pc EXCEPT ![p] = "idle"]
          /\ reply' = [reply EXCEPT ![p] = "error"]
    /\ UNCHANGED <<req, local, started, settled>>

\* Mutant: the catch block answers like a failed check.
RefusedAsRejected(p) ==
    /\ pc[p] # "idle"
    /\ txn \notin {Free, p} \/ (~connected /\ txn = Free)
    /\ Answer(p, "rejected")
    /\ UNCHANGED <<tables, local>>

\* The work's constructor throws: another thread's transaction is registered,
\* or the connection is gone. Every exception ends as a 500.
Refused(p) ==
    /\ pc[p] # "idle"
    /\ txn \notin {Free, p} \/ (~connected /\ txn = Free)
    /\ Answer(p, "error")
    /\ UNCHANGED <<tables, local>>

\* Mutant: the statement waits for ever on a connection that is gone.
AbortedNever(p) == FALSE

\* The connection breaks under an open transaction: nothing is committed.
Aborted(p) ==
    /\ pc[p] # "idle" /\ txn = p /\ ~connected
    /\ Answer(p, "error")
    /\ UNCHANGED <<tables, local>>

LoseConnection ==
    /\ MayLose /\ connected
    /\ connected' = FALSE
    /\ UNCHANGED <<tables, txn, pc, req, local, reply, started, done, settled>>

-----------------------------------------------------------------------------
(* What the handlers do around their calls. *)

SettleLast(p) ==
    LET r == req[p]
        old == settled[r.user]
        money == IfDone(p, "changeAccount", AccountDelta(p))
        moved == IfDone(p, "increaseBankAccount", BankDelta(p))
        shares == IfDone(p, "upsertOwnedStock", SharesDelta(p))
    IN  IF done[p] = {} THEN settled
        ELSE [settled EXCEPT ![r.user] =
                [account |-> old.account + money,
                 bank |-> IF r.kind \in Transfers
                          THEN [old.bank EXCEPT ![local[p].bank] = @ + moved] ELSE old.bank,
                 shares |-> IF r.kind \in Trades
                            THEN [old.shares EXCEPT ![r.company] = @ + shares] ELSE old.shares]]

\* A worker takes a request.
Start(p) ==
    /\ pc[p] = "idle" /\ started < MaxRequests
    /\ \E r \in Requests : req' = [req EXCEPT ![p] = r]
    /\ pc' = [pc EXCEPT ![p] = "sidToUid"]
    /\ local' = [local EXCEPT ![p] = NoLocals]
    /\ reply' = [reply EXCEPT ![p] = "none"]
    /\ started' = started + 1
    /\ settled' = SettleLast(p)
    /\ done' = [done EXCEPT ![p] = {}]
    /\ UNCHANGED <<tables, txn, connected>>

FirstCall(kind) ==
    CASE kind \in Transfers -> "selectFromBankAccount"
      [] kind = "buy" -> "selectFromAccountInfo"
      [] kind \in {"sell", "poll"} -> "selectFromOwnedStock"

\* isValidSid and sidToUid, two reads of the session table, and for a trade the
\* check of the amount and price_now. No session redirects; a session deleted
\* between the two reads, or a price file that is not there, throws.
SidToUid(p) ==
    /\ Calling(p, "sidToUid")
    /\ \/ Answer(p, "rejected") /\ UNCHANGED local
       \/ Answer(p, "error") /\ UNCHANGED local
       \/ /\ req[p].kind \notin Trades
          /\ Return(p, FirstCall(req[p].kind))
          /\ UNCHANGED local
       \/ /\ req[p].kind \in Trades /\ req[p].amount > 0
          /\ \E price \in Prices : local' = [local EXCEPT ![p].price = price]
          /\ Return(p, FirstCall(req[p].kind))
    /\ UNCHANGED tables

\* Mutant: the first row, whichever account was named.
SelectFromBankAccountFirstRow(p) ==
    /\ Calling(p, "selectFromBankAccount")
    /\ \E chosen \in Banks :
         /\ local' = [local EXCEPT ![p].bank = chosen]
         /\ \/ req[p].kind = "withdraw" /\ Return(p, "selectFromAccountInfo")
            \/ /\ req[p].kind = "deposit" /\ bank[req[p].user][chosen] >= Worth(p)
               /\ Return(p, "changeAccount")
    /\ UNCHANGED tables

\* The bank accounts of the user, in whatever order the server returns the
\* rows: an accountId that is not the first's means the second, also when it is
\* not one of the user's. A deposit is checked against the balance read here.
\* stof and stoi throw when the form holds no numbers.
SelectFromBankAccount(p) ==
    /\ Calling(p, "selectFromBankAccount")
    /\ \/ Answer(p, "error") /\ UNCHANGED local
       \/ \E first, second \in Banks :
            LET chosen == IF req[p].bank = first THEN first ELSE second
            IN  /\ first # second
                /\ local' = [local EXCEPT ![p].bank = chosen]
                /\ \/ req[p].kind = "withdraw" /\ Return(p, "selectFromAccountInfo")
                   \/ /\ req[p].kind = "deposit"
                      /\ IF bank[req[p].user][chosen] >= Worth(p)
                         THEN Return(p, "changeAccount")
                         ELSE Answer(p, "rejected")
    /\ UNCHANGED tables

\* Mutant: the balance is not compared.
SelectFromAccountInfoUnchecked(p) ==
    /\ Calling(p, "selectFromAccountInfo")
    /\ Return(p, IF req[p].kind = "buy" THEN "insertTradeHistory" ELSE "changeAccount")
    /\ UNCHANGED <<tables, local>>

\* The balance a withdrawal or a purchase is checked against.
\* exec_prepared1 throws when the user has no row.
SelectFromAccountInfo(p) ==
    /\ Calling(p, "selectFromAccountInfo")
    /\ IF req[p].user \in Orphans THEN Answer(p, "error")
       ELSE IF account[req[p].user] < Worth(p) THEN Answer(p, "rejected")
       ELSE Return(p, IF req[p].kind = "buy" THEN "insertTradeHistory"
                      ELSE "changeAccount")
    /\ UNCHANGED <<tables, local>>

\* The balance a trade reports in its answer.
ReportBalance(p) ==
    /\ Calling(p, "reportBalance")
    /\ Answer(p, IF req[p].user \in Orphans THEN "error" ELSE "success")
    /\ UNCHANGED <<tables, local>>

InsertTradeHistory(p) ==
    /\ Calling(p, "insertTradeHistory")
    /\ history' = [history EXCEPT ![req[p].user] = @ + 1]
    /\ Commit(p, {"insertTradeHistory"},
              IF req[p].kind = "buy" THEN "selectFromOwnedStock" ELSE "upsertOwnedStock")
    /\ UNCHANGED <<account, bank, holding, owned, avg>>

\* The shares of the user: what a purchase averages over, whether a sale has a
\* row at all, what the poll answers.
SelectFromOwnedStock(p) ==
    LET u == req[p].user
        c == req[p].company
    IN  /\ Calling(p, "selectFromOwnedStock")
        /\ local' = [local EXCEPT ![p].owned = owned[u][c]]
        /\ CASE req[p].kind = "buy" -> Return(p, "selectFromAvgPrice")
             [] req[p].kind = "poll" -> Answer(p, "success")
             [] req[p].kind = "sell" /\ <<u, c>> \notin holding -> Answer(p, "rejected")
             [] req[p].kind = "sell" /\ <<u, c>> \in holding -> Return(p, "countOwnedStock")
        /\ UNCHANGED tables

\* Mutant: one share short passes.
CountOwnedStockOffByOne(p) ==
    /\ Calling(p, "countOwnedStock")
    /\ IF owned[req[p].user][req[p].company] < req[p].amount - 1
       THEN Answer(p, "rejected")
       ELSE Return(p, "insertTradeHistory")
    /\ UNCHANGED <<tables, local>>

\* A sale reads the shares a second time and checks this count.
CountOwnedStock(p) ==
    /\ Calling(p, "countOwnedStock")
    /\ IF owned[req[p].user][req[p].company] < req[p].amount
       THEN Answer(p, "rejected")
       ELSE Return(p, "insertTradeHistory")
    /\ UNCHANGED <<tables, local>>

\* Mutant: the shares are delivered before their average is written.
SelectFromAvgPriceSkips(p) ==
    /\ Calling(p, "selectFromAvgPrice")
    /\ local' = [local EXCEPT ![p].avg = WholeDollars(avg[req[p].user][req[p].company])]
    /\ Return(p, "upsertOwnedStock")
    /\ UNCHANGED tables

SelectFromAvgPrice(p) ==
    /\ Calling(p, "selectFromAvgPrice")
    /\ local' = [local EXCEPT ![p].avg = WholeDollars(avg[req[p].user][req[p].company])]
    /\ Return(p, "upsertAvgPrice")
    /\ UNCHANGED tables

\* Mutants: the average over one share bought whatever the amount, or over the
\* shares bought only, and a purchase that is paid but never delivered.
UpsertAvgPriceOneShare(p) ==
    /\ Calling(p, "upsertAvgPrice")
    /\ avg' = [avg EXCEPT ![req[p].user][req[p].company] =
                 [num |-> local[p].owned * local[p].avg + Worth(p), den |-> local[p].owned + 1]]
    /\ Commit(p, {"upsertAvgPrice"}, "upsertOwnedStock")
    /\ UNCHANGED <<account, bank, holding, owned, history>>
UpsertAvgPriceOfBought(p) ==
    /\ Calling(p, "upsertAvgPrice")
    /\ avg' = [avg EXCEPT ![req[p].user][req[p].company] =
                 [num |-> local[p].owned * local[p].avg + Worth(p), den |-> req[p].amount]]
    /\ Commit(p, {"upsertAvgPrice"}, "upsertOwnedStock")
    /\ UNCHANGED <<account, bank, holding, owned, history>>
UpsertAvgPriceThenPay(p) ==
    /\ Calling(p, "upsertAvgPrice")
    /\ Commit(p, {"upsertAvgPrice"}, "changeAccount")
    /\ UNCHANGED <<account, bank, holding, owned, avg, history>>

\* The new average is computed from the two reads before it.
UpsertAvgPrice(p) ==
    /\ Calling(p, "upsertAvgPrice")
    /\ avg' = [avg EXCEPT ![req[p].user][req[p].company] =
                 [num |-> local[p].owned * local[p].avg + Worth(p),
                  den |-> local[p].owned + req[p].amount]]
    /\ Commit(p, {"upsertAvgPrice"}, "upsertOwnedStock")
    /\ UNCHANGED <<account, bank, holding, owned, history>>

\* Mutants: the row with its key columns swapped, and ON CONFLICT that sets the
\* new count instead of adding it.
UpsertOwnedStockSwapped(p) ==
    LET u == req[p].user
        c == req[p].company
    IN  /\ Calling(p, "upsertOwnedStock")
        /\ holding' = holding \union {<<c, u>>}
        /\ owned' = [owned EXCEPT ![u][c] = @ + SharesDelta(p)]
        /\ Commit(p, {"upsertOwnedStock"}, "changeAccount")
        /\ UNCHANGED <<account, bank, avg, history>>
UpsertOwnedStockOverwrites(p) ==
    LET u == req[p].user
        c == req[p].company
    IN  /\ Calling(p, "upsertOwnedStock")
        /\ holding' = holding \union {<<u, c>>}
        /\ owned' = [owned EXCEPT ![u][c] = SharesDelta(p)]
        /\ Commit(p, {"upsertOwnedStock"}, "changeAccount")
        /\ UNCHANGED <<account, bank, avg, history>>

UpsertOwnedStock(p) ==
    LET u == req[p].user
        c == req[p].company
    IN  /\ Calling(p, "upsertOwnedStock")
        /\ holding' = holding \union {<<u, c>>}
        /\ owned' = [owned EXCEPT ![u][c] = @ + SharesDelta(p)]
        /\ Commit(p, {"upsertOwnedStock"}, "changeAccount")
        /\ UNCHANGED <<account, bank, avg, history>>

\* UPDATE account_info ... WHERE id = uid: of a user without a row it changes
\* nothing, and nothing tells the handler.
ChangeAccount(p) ==
    LET u == req[p].user
        found == u \notin Orphans
    IN  /\ Calling(p, "changeAccount")
        /\ account' = IF found THEN [account EXCEPT ![u] = @ + AccountDelta(p)] ELSE account
        /\ Commit(p, IF found THEN {"changeAccount"} ELSE {},
                  IF req[p].kind \in Transfers THEN "increaseBankAccount"
                  ELSE "reportBalance")
        /\ UNCHANGED <<bank, holding, owned, avg, history>>

IncreaseBankAccount(p) ==
    /\ Calling(p, "increaseBankAccount")
    /\ bank' = [bank EXCEPT ![req[p].user][local[p].bank] = @ + BankDelta(p)]
    /\ Commit(p, {"increaseBankAccount"}, "idle")
    /\ UNCHANGED <<account, holding, owned, avg, history>>

-----------------------------------------------------------------------------
Call(p) ==
    \/ SidToUid(p) \/ SelectFromBankAccount(p) \/ SelectFromAccountInfo(p)
    \/ ReportBalance(p) \/ InsertTradeHistory(p) \/ SelectFromOwnedStock(p)
    \/ CountOwnedStock(p) \/ SelectFromAvgPrice(p) \/ UpsertAvgPrice(p)
    \/ UpsertOwnedStock(p) \/ ChangeAccount(p) \/ IncreaseBankAccount(p)

\* A thread that has a request works on it.
Work(p) == Open(p) \/ Call(p) \/ Refused(p) \/ Aborted(p)

\* Every request of the bound is answered: the server waits for clients.
Waiting ==
    /\ started = MaxRequests /\ \A p \in Workers : pc[p] = "idle"
    /\ UNCHANGED vars

Next ==
    \/ \E p \in Workers : Start(p) \/ Work(p)
    \/ LoseConnection
    \/ Waiting

Spec == Init /\ [][Next]_vars
=============================================================================
